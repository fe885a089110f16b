----------------------------- MODULE MCIsoFlasher -----------------------------
(* Files of no, one, three and four units on a disk of four, and one that  *)
(* is too large; sectors of one and two units; a buffer smaller than a     *)
(* sector and one that is no multiple of it.                               *)
EXTENDS IsoFlasher

MCFile(name, n, h) == [data |-> [i \in 1..n |-> <<name, i>>], hybrid |-> h, missing |-> FALSE]
MCContents == {NoFile, MCFile("empty", 0, FALSE), MCFile("a", 1, FALSE), MCFile("b", 3, FALSE),
               MCFile("h", 3, TRUE), MCFile("full", 4, TRUE), MCFile("large", 5, TRUE)}
=============================================================================
