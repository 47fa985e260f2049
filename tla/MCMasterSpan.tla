---------------------------- MODULE MCMasterSpan ----------------------------
(* Instances of MasterSpan. *)
EXTENDS MasterSpan, TLC

\* A digital, an analog and another digital span.
ThreeSpans == {"a", "d", "e"}
TwoDigital == {"d", "e"}
Sizes == "a" :> 1 @@ "d" :> 2 @@ "e" :> 1

\* Without the clock there is room for more of the rest.
SomeListed == TRUE :> 1 @@ FALSE :> 3
SomeEvents == TRUE :> 3 @@ FALSE :> 3

FewAssignments == {Place(0, 0), Place(2, 4)}
=============================================================================
