---------------------------- MODULE MCDuplexPort ----------------------------
(***************************************************************************)
(* A small instance of DuplexPort: packets of one buffer of two bytes.     *)
(***************************************************************************)
EXTENDS DuplexPort

Bytes     == 0 .. 2
OneBuffer == {<<1>>, <<2, 1>>}
=============================================================================
