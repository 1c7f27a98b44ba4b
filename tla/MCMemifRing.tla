---------------------------- MODULE MCMemifRing ----------------------------
(***************************************************************************)
(* Small instances of MemifRing: payloads over the bytes 0, 1 and 2, with  *)
(* buffers of BufSize = 2 bytes.                                           *)
(***************************************************************************)
EXTENDS MemifRing

Bytes == 0 .. 2

\* Packets shorter than a buffer and filling it, and one of three buffers, which
\* WritePacket may have to give up after the first or the second.
Mixed == {<<1>>, <<2, 1>>, <<2, 1, 2, 1, 2>>}

\* A two-buffer packet alone.
TwoBuffers == {<<1, 2, 1>>}
=============================================================================
