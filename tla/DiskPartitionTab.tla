-------------------------- MODULE DiskPartitionTab --------------------------
(***************************************************************************)
(* The "Disks & Partitions" tab, the only caller of the operation queue,   *)
(* with the disk-list refresh of MainWindow.  All handlers run on the GUI  *)
(* thread, one at a time; message boxes and input dialogs run a nested     *)
(* event loop, so queued signals of the worker threads are handled while   *)
(* a handler waits for the user.                                           *)
(*                                                                         *)
(* Each confirmed Apply starts a thread for applyAll() and a window-modal  *)
(* QProgressDialog: while one is shown the main window takes no input.     *)
(* The dialog hides when it is cancelled and when it is told 100%, and     *)
(* shows itself again when it is told less (Qt, external).                 *)
(***************************************************************************)
EXTENDS OperationQueue

CONSTANTS
  Refreshers,   \* threads of MainWindow::onRefreshDisks
  MaxRefreshes  \* bound: refreshes the user asks for

ASSUME MaxRefreshesAssumption == MaxRefreshes \in Nat

VARIABLES
  dlg,        \* the QProgressDialog of each run: none, shown or hidden
  boxes,      \* the stack of nested modal boxes, the topmost last
  events,     \* signals posted to the GUI thread and not delivered yet
  buttons,    \* m_applyBtn, m_undoBtn and m_clearBtn are enabled
  snap,       \* m_snapshot: the disk version the tab shows
  last,       \* MainWindow::m_lastSnapshot
  refr,       \* where each refresh thread is
  seen,       \* what each refresh thread has enumerated
  refreshes,  \* refreshes asked for so far
  confirmed,  \* ghost: operations in a list the user said Yes to
  exposed,    \* ghost: a progress dialog was hidden before its run's end was handled
  dangling    \* ghost: a pointer into a replaced m_snapshot was used

modal == <<dlg, boxes, events>>
shots == <<snap, last, refr, seen, refreshes>>
ghost == <<confirmed, dangling>>
vars  == <<qvars, modal, buttons, shots, ghost, exposed>>

EditBox    == [kind |-> "edit", ops |-> {}]
StaleBox   == [kind |-> "stale", ops |-> {}]
ResultBox  == [kind |-> "result", ops |-> {}]
ConfirmBox(ops) == [kind |-> "confirm", ops |-> ops]

AllFinished       == [sig |-> "allOperationsFinished"]
ThreadFinished(w) == [sig |-> "finished", worker |-> w]
SnapshotTaken     == [sig |-> "snapshot"]

(* An operation changes the disk by the time execute() has returned.       *)
DiskVersion == Cardinality({o \in Ops : state[o] \in Finished})

TabInit ==
  /\ QInit
  /\ dlg = [w \in Workers |-> "none"]
  /\ boxes = <<>>
  /\ events = <<>>
  /\ buttons = FALSE
  /\ snap = 0
  /\ last = 0
  /\ refr = [r \in Refreshers |-> "idle"]
  /\ seen = [r \in Refreshers |-> 0]
  /\ refreshes = 0
  /\ confirmed = {}
  /\ exposed = FALSE
  /\ dangling = FALSE

-----------------------------------------------------------------------------
(* Mutant: the progress dialog is not modal.                               *)
MainWindowUsableNonModal == boxes = <<>>

(* Modality (Qt, external): a nested box takes all input; otherwise a      *)
(* shown progress dialog does; otherwise the main window.                  *)
MainWindowUsable == boxes = <<>> /\ \A w \in Workers : dlg[w] # "shown"
Top == Back(boxes)
Showing(kind) == boxes # <<>> /\ Top.kind = kind

Expose == exposed' = (exposed \/ \E w \in Workers : dlg'[w] = "hidden")

(* updateOperationList() reads every operation's description and sets the  *)
(* buttons.  On a deque with a moved-from slot it is undefined, and so is  *)
(* every handler that comes to the deque while a worker changes it (or     *)
(* changes it itself while a worker reads it).                             *)
updateOperationList == ~HasNull(pending) /\ buttons' = (pending' # <<>>)
TabStays   == UNCHANGED <<modal, buttons, shots, ghost, exposed>>
ListBreaks == (readPending \/ ReadRaces) /\ TabStays
EditBreaks == (readPending \/ EditRaces) /\ TabStays

-----------------------------------------------------------------------------
(* Editing the queue.  Create, Delete, Resize, Format, SetLabel, SetFlags: *)
(* look the partition up in m_snapshot, ask the user in a nested box, use  *)
(* the looked-up pointer again, enqueue.                                   *)

Queue(newBoxes) ==
  /\ enqueue
  /\ updateOperationList
  /\ boxes' = newBoxes

OpenEditBox ==
  /\ ~undefined
  /\ MainWindowUsable
  /\ boxes' = <<EditBox>>
  /\ UNCHANGED <<qvars, dlg, events, buttons, shots, ghost, exposed>>

AcceptEdit ==
  /\ Showing("edit") \/ Showing("stale")
  /\ \/ /\ Queue(PopBack(boxes))
        /\ dangling' = (dangling \/ Top = StaleBox)
        /\ UNCHANGED <<dlg, events, shots, confirmed, exposed>>
     \/ EditBreaks

RejectEdit ==
  /\ ~undefined
  /\ Showing("edit") \/ Showing("stale")
  /\ boxes' = PopBack(boxes)
  /\ UNCHANGED <<qvars, dlg, events, buttons, shots, ghost, exposed>>

(* onCheckFilesystem() queues without asking.                              *)
onCheckFilesystem ==
  /\ MainWindowUsable
  /\ \/ Queue(boxes) /\ UNCHANGED <<dlg, events, shots, ghost, exposed>>
     \/ EditBreaks

onUndoOperation ==
  /\ MainWindowUsable
  /\ buttons
  /\ \/ removeLast /\ updateOperationList /\ UNCHANGED <<modal, shots, ghost, exposed>>
     \/ EditBreaks

onClearOperations ==
  /\ MainWindowUsable
  /\ buttons
  /\ \/ clearPending /\ updateOperationList /\ UNCHANGED <<modal, shots, ghost, exposed>>
     \/ EditBreaks

-----------------------------------------------------------------------------
(* Applying.                                                               *)

Listed == {pending[i] : i \in 1..Len(pending)} \ {Null}

onApplyOperations ==
  /\ ~undefined
  /\ MainWindowUsable
  /\ buttons
  /\ \/ /\ pending # <<>>
        /\ boxes' = <<ConfirmBox(Listed)>>
        /\ UNCHANGED <<qvars, dlg, events, buttons, shots, ghost, exposed>>
     \/ ReadRaces /\ TabStays

ApplyNo ==
  /\ ~undefined
  /\ Showing("confirm")
  /\ boxes' = PopBack(boxes)
  /\ UNCHANGED <<qvars, dlg, events, buttons, shots, ghost, exposed>>

(* Nothing here asks whether a run is already going on.                    *)
ApplyYes(w) ==
  /\ Showing("confirm")
  /\ StartThread(w)
  /\ confirmed' = confirmed \cup Top.ops
  /\ boxes' = PopBack(boxes)
  /\ dlg' = [dlg EXCEPT ![w] = "shown"]
  /\ UNCHANGED <<events, buttons, shots, dangling, exposed>>

(* The Cancel button: canceled() calls requestCancel() and hides.          *)
CancelButton(w) ==
  /\ boxes = <<>>
  /\ dlg[w] = "shown"
  /\ requestCancel
  /\ dlg' = [dlg EXCEPT ![w] = "hidden"]
  /\ Expose
  /\ UNCHANGED <<boxes, events, buttons, shots, confirmed, dangling>>

(* queueProgress of worker w reaches every progress dialog there is.       *)
(* 100% overall: the last of the operations counted at the start (or a     *)
(* later one) has told 100%.                                               *)
ShowProgress(value) ==
  dlg' = [v \in Workers |-> IF dlg[v] = "none" THEN "none" ELSE value]

ProgressPartial(w) ==
  /\ ~undefined
  /\ pc[w] = "exec"
  /\ ShowProgress("shown")
  /\ UNCHANGED <<qvars, boxes, events, buttons, shots, ghost, exposed>>

ProgressFull(w) ==
  /\ ~undefined
  /\ pc[w] = "exec"
  /\ opIndex[w] + 1 >= totalOps[w]
  /\ ShowProgress("hidden")
  /\ Expose
  /\ UNCHANGED <<qvars, boxes, events, buttons, shots, ghost>>

(* applyAll() on w, up to its last emit and the end of the thread.         *)
Returns(w) == pc'[w] = "done"

Run(w) ==
  /\ Worker(w)
  /\ events' = IF Returns(w) THEN events \o <<AllFinished, ThreadFinished(w)>>
                             ELSE events
  /\ UNCHANGED <<dlg, boxes, buttons, shots, ghost, exposed>>

-----------------------------------------------------------------------------
(* Signals delivered to the GUI thread, by whichever event loop is running.*)

Delivered(e) == ~undefined /\ events # <<>> /\ Head(events) = e
Deliver(e) == Delivered(e) /\ events' = Tail(events)

onAllOperationsFinished ==
  /\ Deliver(AllFinished)
  /\ boxes' = Append(boxes, ResultBox)
  /\ UNCHANGED <<qvars, dlg, buttons, shots, ghost, exposed>>

(* refreshDisks() replaces m_snapshot under every box that points into it. *)
refreshDisks(version, bs) ==
  /\ snap' = version
  /\ boxes' = [i \in 1..Len(bs) |-> IF bs[i] = EditBox THEN StaleBox ELSE bs[i]]

(* The rest of the lambda, after the box: enumerate and refresh.           *)
DismissResult ==
  /\ ~undefined
  /\ Showing("result")
  /\ refreshDisks(DiskVersion, PopBack(boxes))
  /\ UNCHANGED <<qvars, dlg, events, buttons, last, refr, seen, refreshes, ghost, exposed>>

(* The same, when getSystemSnapshot() fails.                               *)
DismissResultNoSnapshot ==
  /\ ~undefined
  /\ Showing("result")
  /\ boxes' = PopBack(boxes)
  /\ UNCHANGED <<qvars, dlg, events, buttons, shots, ghost, exposed>>

(* Mutant: the list is not updated when the thread has finished.           *)
onThreadFinishedNoUpdate(w) ==
  /\ Deliver(ThreadFinished(w))
  /\ requestCancel
  /\ dlg' = [dlg EXCEPT ![w] = "none"]
  /\ UNCHANGED <<boxes, buttons, shots, ghost, exposed>>

(* Mutant: the dialog is not closed.                                       *)
onThreadFinishedNoClose(w) ==
  /\ Deliver(ThreadFinished(w))
  /\ UNCHANGED <<qvars, dlg, boxes, shots, ghost, exposed>>
  /\ updateOperationList

(* progressDlg->close() emits canceled() once more; then the list.         *)
onThreadFinished(w) ==
  /\ Delivered(ThreadFinished(w))
  /\ \/ /\ requestCancel
        /\ updateOperationList
        /\ events' = Tail(events)
        /\ dlg' = [dlg EXCEPT ![w] = "none"]
        /\ UNCHANGED <<boxes, shots, ghost, exposed>>
     \/ ListBreaks

(* deleteLater() of the thread object.                                     *)
DeleteThread(w) ==
  /\ dlg[w] = "none"
  /\ ThreadEnds(w)
  /\ UNCHANGED <<modal, buttons, shots, ghost, exposed>>

-----------------------------------------------------------------------------
(* MainWindow::onRefreshDisks: a thread enumerates and stores the result   *)
(* in m_lastSnapshot; when it has finished, the GUI thread hands whatever  *)
(* is in m_lastSnapshot to the tabs.                                       *)

onRefreshDisks(r) ==
  /\ ~undefined
  /\ MainWindowUsable
  /\ refreshes < MaxRefreshes
  /\ refr[r] = "idle"
  /\ refr' = [refr EXCEPT ![r] = "enumerate"]
  /\ refreshes' = refreshes + 1
  /\ UNCHANGED <<qvars, modal, buttons, snap, last, seen, ghost, exposed>>

getSystemSnapshot(r) ==
  /\ ~undefined
  /\ refr[r] = "enumerate"
  /\ refr' = [refr EXCEPT ![r] = "store"]
  /\ seen' = [seen EXCEPT ![r] = DiskVersion]
  /\ UNCHANGED <<qvars, modal, buttons, snap, last, refreshes, ghost, exposed>>

(* m_lastSnapshot is left alone when the enumeration failed.               *)
StoreSnapshot(r) ==
  /\ ~undefined
  /\ refr[r] = "store"
  /\ refr' = [refr EXCEPT ![r] = "idle"]
  /\ last' \in {last, seen[r]}
  /\ events' = Append(events, SnapshotTaken)
  /\ UNCHANGED <<qvars, dlg, boxes, buttons, snap, seen, refreshes, ghost, exposed>>

onSnapshotTaken ==
  /\ Deliver(SnapshotTaken)
  /\ refreshDisks(last, boxes)
  /\ UNCHANGED <<qvars, dlg, buttons, last, refr, seen, refreshes, ghost, exposed>>

-----------------------------------------------------------------------------
User ==
  \/ OpenEditBox \/ AcceptEdit \/ RejectEdit \/ onCheckFilesystem
  \/ onUndoOperation \/ onClearOperations
  \/ onApplyOperations \/ ApplyNo \/ (\E w \in Workers : ApplyYes(w) \/ CancelButton(w))
  \/ DismissResult \/ DismissResultNoSnapshot
  \/ \E r \in Refreshers : onRefreshDisks(r)

(* The GUI thread's event loop.                                            *)
EventLoop ==
  \/ onAllOperationsFinished
  \/ onSnapshotTaken
  \/ \E w \in Workers : onThreadFinished(w) \/ DeleteThread(w)

Progress == \E w \in Workers : ProgressPartial(w) \/ ProgressFull(w)

Refresh(r) == getSystemSnapshot(r) \/ StoreSnapshot(r)

TabNext ==
  \/ User \/ EventLoop \/ Progress
  \/ \E w \in Workers : Run(w)
  \/ WorkersRace /\ TabStays
  \/ \E r \in Refreshers : Refresh(r)

TabSpec == TabInit /\ [][TabNext]_vars

(* Threads run, execute() returns, and the event loop delivers what was    *)
(* posted (nested loops do too).  Nothing is assumed of the user.          *)
TabFairness ==
  /\ WF_vars(EventLoop)
  /\ \A w \in Workers : WF_vars(Run(w))
  /\ \A r \in Refreshers : WF_vars(Refresh(r))

TabFairSpec == TabSpec /\ TabFairness

-----------------------------------------------------------------------------
(* Properties.                                                             *)

Boxes == [kind : {"edit", "stale", "result", "confirm"}, ops : SUBSET Ops]
Events == {AllFinished, SnapshotTaken} \cup {ThreadFinished(w) : w \in Workers}

(* Types of the tab's state: what is confirmed is a list of operations,    *)
(* never the moved-from slots the list is built over.                      *)
TabTypeOK ==
  /\ dlg \in [Workers -> {"none", "shown", "hidden"}]
  /\ boxes \in Seq(Boxes)
  /\ events \in Seq(Events)
  /\ buttons \in BOOLEAN
  /\ snap \in 0..MaxOps
  /\ last \in 0..MaxOps
  /\ refr \in [Refreshers -> {"idle", "enumerate", "store"}]
  /\ seen \in [Refreshers -> 0..MaxOps]
  /\ refreshes \in 0..MaxRefreshes
  /\ confirmed \subseteq Ops
  /\ exposed \in BOOLEAN
  /\ dangling \in BOOLEAN

Active(w) == pc[w] \notin {"idle", "done"}
Executed == {o \in Ops : state[o] # "Pending"}

(***************************************************************************)
(* The modal progress dialog is the queue's only lock, and it is enough    *)
(* for as long as it is up: if it was never hidden before the end of its   *)
(* run was handled, no two threads race for the deque nor is it used in    *)
(* another undefined way, two runs do not overlap, m_running is true while *)
(* operations may be taken, nothing is executed that the user has not      *)
(* confirmed, and, unless a refresh was asked for, m_snapshot is not       *)
(* replaced while a handler waits for an answer with a pointer into it.    *)
(***************************************************************************)
ModalGuard ==
  ~exposed =>
    /\ ~undefined
    /\ \A v, w \in Workers : Active(v) /\ Active(w) => v = w
    /\ \A w \in Workers : pc[w] \in {"head", "take", "pop", "start", "exec"} => running
    /\ Executed \subseteq confirmed
    /\ refreshes = 0 => ~dangling

(***************************************************************************)
(* At rest (no thread, no undelivered signal), Apply, Undo and Clear are   *)
(* enabled exactly when there is something queued, whatever the order in   *)
(* which runs, edits and signals came.                                     *)
(***************************************************************************)
AtRest ==
  /\ ~undefined
  /\ events = <<>>
  /\ \A w \in Workers : pc[w] = "idle"
  /\ \A r \in Refreshers : refr[r] = "idle"
ButtonsTellTruth == AtRest => (buttons <=> pending # <<>>)

(***************************************************************************)
(* A progress dialog never outlives its run: every dialog that is put up   *)
(* is closed, hidden or not, even if nobody answers the boxes.             *)
(***************************************************************************)
DialogCloses == \A w \in Workers : dlg[w] # "none" ~> (dlg[w] = "none" \/ undefined)

-----------------------------------------------------------------------------
(* The inductive invariant behind ModalGuard and ButtonsTellTruth.         *)

(***************************************************************************)
(* A run that goes on has a dialog, shown or hidden; the signal that a     *)
(* thread has finished is posted once, after its last access to the deque, *)
(* and finds its dialog; and allOperationsFinished is followed by it.      *)
(***************************************************************************)
EventsInv ==
  /\ \A w \in Workers : Active(w) => dlg[w] # "none"
  /\ \A i \in 1..Len(events), w \in Workers :
       events[i] = ThreadFinished(w) => pc[w] = "done" /\ dlg[w] # "none"
  /\ \A i, j \in 1..Len(events), w \in Workers :
       events[i] = ThreadFinished(w) /\ events[j] = ThreadFinished(w) => i = j
  /\ \A i \in 1..Len(events) : events[i] = AllFinished =>
       i + 1 <= Len(events) /\ \E w \in Workers : events[i + 1] = ThreadFinished(w)

(***************************************************************************)
(* The buttons are stale only while a run goes on or the end of one has    *)
(* not been handled.                                                       *)
(***************************************************************************)
Quiet ==
  /\ \A w \in Workers : ~Active(w)
  /\ \A i \in 1..Len(events), w \in Workers : events[i] # ThreadFinished(w)
ButtonsInv == ~undefined /\ Quiet => (buttons <=> pending # <<>>)

(***************************************************************************)
(* What holds as long as no dialog was hidden too early.  One dialog is    *)
(* up at most, and none under a box that asks the user (which is then      *)
(* alone on the stack): so nothing reaches the deque between the list the  *)
(* user confirms and the run, nor while a run goes on.  What a worker      *)
(* finds in the deque is then what it left there, and all of it has been   *)
(* confirmed.                                                              *)
(***************************************************************************)
OneDialog ==
  /\ \A w \in Workers : dlg[w] # "hidden"
  /\ \A v, w \in Workers : dlg[v] = "shown" /\ dlg[w] = "shown" => v = w

AsksAlone ==
  \A i \in 1..Len(boxes) : boxes[i].kind # "result" =>
     /\ Len(boxes) = 1
     /\ \A w \in Workers : dlg[w] = "none"
     /\ boxes[i].kind = "confirm" => Listed \subseteq boxes[i].ops

DequeInv ==
  /\ \A w \in Workers : pc[w] \in {"take", "pop"} => pending # <<>>
  /\ \A w \in Workers : pc[w] \in {"pop", "start"} => cur[w] # Null
  /\ \A i \in 1..Len(pending) :
       pending[i] = Null => i = 1 /\ \E w \in Workers : pc[w] = "pop"

AllConfirmed ==
  /\ \A w \in Workers : Active(w) => Listed \subseteq confirmed
  /\ \A w \in Workers : cur[w] # Null => cur[w] \in confirmed
  /\ Executed \subseteq confirmed

NoRefresh ==
  refreshes = 0 =>
    /\ ~dangling
    /\ \A i \in 1..Len(boxes) : boxes[i] # StaleBox
    /\ \A i \in 1..Len(events) : events[i] # SnapshotTaken
    /\ \A r \in Refreshers : refr[r] = "idle"

Guarded ==
  /\ ~undefined
  /\ OneDialog
  /\ AsksAlone
  /\ DequeInv
  /\ AllConfirmed
  /\ NoRefresh
  /\ \A w \in Workers : pc[w] \in {"head", "take", "pop", "start", "exec"} => running

TabInv == TabTypeOK /\ EventsInv /\ ButtonsInv /\ (~exposed => Guarded)
=============================================================================
