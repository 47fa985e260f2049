---------------------------- MODULE MCTranscoder ----------------------------
(* An instance of Transcoder: two files and one pair, which they share and *)
(* contend for, with the same formats and with different ones.             *)
EXTENDS Transcoder

TwoFiles == {"f", "g"}
TwoFormats == {"a", "b"}
SharedAndMixed == "f" :> {<<"encode", "a">>, <<"decode", "b">>} @@ "g" :> {<<"decode", "a">>}
=============================================================================
