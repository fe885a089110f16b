-------------------------- MODULE MCOperationQueue --------------------------
(* TLC instance of OperationQueue: an arbitrary caller with two workers    *)
(* (applyAll() called again while it runs).                                *)
EXTENDS OperationQueue

CONSTANTS w1, w2    \* model values: worker threads

TwoWorkers == {w1, w2}
=============================================================================
