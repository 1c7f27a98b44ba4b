-------------------------- MODULE MCSocketPolling --------------------------
(***************************************************************************)
(* Small instances of SocketPolling: workers are model values.             *)
(***************************************************************************)
EXTENDS SocketPolling

CONSTANTS w1, w2

TwoWorkers == {w1, w2}
None       == {}
=============================================================================
