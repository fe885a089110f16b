---------------------------- MODULE PartitionMap ----------------------------
(***************************************************************************)
(* What partition operations promise, whatever the table format: the disk  *)
(* carries a set of disjoint extents, and an operation either adds one,    *)
(* removes one, changes one, or changes nothing; there is nothing in       *)
(* between, not even when a write is cut short.                            *)
(***************************************************************************)
EXTENDS Integers, FiniteSets

VARIABLES
  extents,  \* set of [start, count]
  usable    \* [first, last]: the sectors extents may cover

Extent == [start : Nat, count : Nat \ {0}]
Fits(e, u) == e.start >= u.first /\ e.start + e.count - 1 <= u.last
Apart(e, f) == e.start + e.count <= f.start \/ f.start + f.count <= e.start

WellFormed(es, u) ==
  \A e \in es :
    /\ e \in Extent
    /\ Fits(e, u)
    /\ \A f \in es \ {e} : Apart(e, f)

(* At most one extent goes and at most one comes: create, delete, change.  *)
OneChange(before, after) ==
  Cardinality(before \ after) <= 1 /\ Cardinality(after \ before) <= 1

Init == WellFormed(extents, usable)

Next ==
  /\ UNCHANGED usable
  /\ WellFormed(extents', usable)
  /\ OneChange(extents, extents')

Spec == Init /\ [][Next]_<<extents, usable>>
=============================================================================
