------------------------- MODULE MCDiskPartitionTab -------------------------
(* TLC instance of DiskPartitionTab: two runs with a refresh, and, when    *)
(* the second is started beside the first, only one operation and no       *)
(* refresh.  (The bound holds back the user alone: queueing, confirming    *)
(* and asking for a refresh are the steps it forbids.)                     *)
EXTENDS DiskPartitionTab

CONSTANTS w1, w2, r1    \* model values: worker threads, a refresh thread

TwoWorkers   == {w1, w2}
OneRefresher == {r1}
MaxOpsBeside == 1

(* Threads are alike: the second one is for a run beside that of the first.*)
UserBound ==
  dlg'[w2] # "none" => /\ made' <= MaxOpsBeside
                       /\ refreshes' = 0
                       /\ dlg[w2] = "none" => dlg[w1] # "none"

MCTabSpec == TabInit /\ [][TabNext /\ UserBound]_vars /\ TabFairness
=============================================================================
