CONSTANTS
  Events = {ring, hook}
  NoEvent = none
  DAHDI_MAX_EVENTSIZE <- MaxEventSize

SPECIFICATION QueueSpec

PROPERTY ImplementsFifo
