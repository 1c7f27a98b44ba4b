-------------------------- MODULE MCControlChannel --------------------------
(***************************************************************************)
(* Small instances of ControlChannel.                                      *)
(***************************************************************************)
EXTENDS ControlChannel, TLC

CONSTANTS c1, c2

OneId      == [p \in Procs |-> 1]
NoSecrets  == [p \in Procs |-> NoSecret]

\* c1 has fewer queue pairs than the server, c2 asks for more.
OnePair    == [p \in Procs |-> 1]
MixedPairs == c1 :> 2 @@ c2 :> 4 @@ Server :> 3

All        == Procs
None       == {}
JustC1     == {c1}
Ok         == {"ok"}
OkOrError  == {"ok", "error"}
=============================================================================
