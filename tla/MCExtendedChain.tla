-------------------------- MODULE MCExtendedChain --------------------------
(* TLC instances of ExtendedChain: every filling of an extended partition  *)
(* of four sectors with foreign sectors and with EBRs that have a logical  *)
(* partition or none and point anywhere in it or past its end.             *)
EXTENDS ExtendedChain

AnySector == {Blank} \cup {EbrSector(FALSE, 1, c, n) : c \in 0..1, n \in 0..ExtSize}
=============================================================================
