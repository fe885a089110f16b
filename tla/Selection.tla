------------------------------ MODULE Selection ------------------------------
(* What is left of a vector when a loop over it skips some of its elements, *)
(* given by the positions that it keeps.  (SelectSeq of the standard module *)
(* Sequences has a condition for a parameter; a set can be reasoned about.) *)
EXTENDS Integers, Sequences

\* The members of a set of numbers among the first n, in increasing order.
Ordered(W, n) ==
  LET upTo[m \in 0..n] == IF m = 0 THEN <<>>
                          ELSE IF m \in W THEN Append(upTo[m - 1], m) ELSE upTo[m - 1]
  IN upTo[n]

\* The elements of s at the positions in W.
Kept(s, W) == LET at == Ordered(W, Len(s)) IN [i \in 1..Len(at) |-> s[at[i]]]
=============================================================================
