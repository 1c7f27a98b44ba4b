--------------------------- MODULE MCRegionLayout ---------------------------
(***************************************************************************)
(* Memory configurations to lay out.                                       *)
(***************************************************************************)
EXTENDS RegionLayout

\* Up to four queue pairs, every ring size that Hello admits.
AllRings == [pairs : 1 .. 4, log2 : 1 .. 14]

\* Two queue pairs.
TwoPairs == [pairs : {2}, log2 : {1}]
=============================================================================
