--------------------------- MODULE OperationQueue ---------------------------
(***************************************************************************)
(* spw::OperationQueue: the GParted-style queue of disk operations.  The   *)
(* caller's thread (the GUI thread in this program) queues, removes and    *)
(* clears operations and asks for cancellation; applyAll() runs on worker  *)
(* threads and takes the operations from the front of the same deque.      *)
(*                                                                         *)
(* The class has no lock.  A worker's step is one access of applyAll() to  *)
(* the deque (or the flag assignments next to it), so every interleaving   *)
(* of those with the caller's methods, and with a second worker, is a      *)
(* behaviour.  No access is atomic (a move loads the pointer and then      *)
(* stores null, a push and a pop change the deque's size): where two       *)
(* threads may be inside it at once, one of them changing it, they may     *)
(* race, and both may come out with one pointer.  A data race, a front()   *)
(* or pop_front() on an empty deque and a use of a moved-from (null)       *)
(* unique_ptr are undefined behaviour: anything may follow, and the model  *)
(* records them in "undefined" and stops there.  (The flags are plain      *)
(* bools, each read or written by one instruction.)                        *)
(*                                                                         *)
(* An operation is the number of the enqueue() call that queued it.        *)
(***************************************************************************)
EXTENDS Integers, Sequences, FiniteSets

CONSTANTS
  Workers,    \* threads that may be running applyAll()
  MaxOps,     \* bound: operations queued in a behaviour
  MaxApplies  \* bound: calls of applyAll() in a behaviour

ASSUME MaxOpsAssumption == MaxOps \in Nat
ASSUME MaxAppliesAssumption == MaxApplies \in Nat

Ops  == 1..MaxOps
Null == 0               \* a moved-from std::unique_ptr<Operation>

VARIABLES
  pending,          \* m_pending
  history,          \* m_history
  state,            \* Operation::m_state of every operation created
  made,             \* number of operations created so far
  running,          \* m_running
  cancelRequested,  \* m_cancelRequested
  lastRunSuccess,   \* m_lastRunSuccess
  pc,               \* where each worker is in applyAll()
  cur,              \* applyAll()'s local op
  opIndex,          \* applyAll()'s local opIndex
  totalOps,         \* applyAll()'s local totalOps
  err,              \* lastError.isError() of each worker
  applies,          \* calls of applyAll() so far
  undefined         \* the program has run into undefined behaviour

queue   == <<pending, history, state, made>>
flags   == <<running, cancelRequested, lastRunSuccess>>
locals  == <<cur, opIndex, totalOps, err>>
qvars   == <<queue, flags, pc, locals, applies, undefined>>

OpState == {"Pending", "Running", "Completed", "Failed", "Undone"}
Finished == {"Completed", "Failed", "Undone"}
PC == {"idle", "enter", "head", "take", "pop", "start", "exec", "finish", "done"}

QInit ==
  /\ pending = <<>>
  /\ history = <<>>
  /\ state = [o \in Ops |-> "Pending"]
  /\ made = 0
  /\ running = FALSE
  /\ cancelRequested = FALSE
  /\ lastRunSuccess = FALSE
  /\ pc = [w \in Workers |-> "idle"]
  /\ cur = [w \in Workers |-> Null]
  /\ opIndex = [w \in Workers |-> 0]
  /\ totalOps = [w \in Workers |-> 0]
  /\ err = [w \in Workers |-> FALSE]
  /\ applies = 0
  /\ undefined = FALSE

Goto(w, from, to) == pc[w] = from /\ pc' = [pc EXCEPT ![w] = to]

Undefined == undefined' = TRUE /\ UNCHANGED <<queue, flags, pc, locals, applies>>

-----------------------------------------------------------------------------
(* Data races.  What applyAll() does next with the two containers.         *)

ReadsDeque(w)    == pc[w] \in {"enter", "head", "finish"}   \* empty(), size()
ChangesDeque(w)  == pc[w] \in {"take", "pop"}               \* move from front(), pop_front()
AddsToHistory(w) == pc[w] = "exec"                          \* m_history.push_back()

WorkersRace ==
  /\ ~undefined
  /\ \E v, w \in Workers :
       /\ v # w
       /\ \/ ChangesDeque(v) /\ (ChangesDeque(w) \/ ReadsDeque(w))
          \/ AddsToHistory(v) /\ AddsToHistory(w)
  /\ Undefined

(* The caller reads the deque; or it changes it.                           *)
ReadRaces == ~undefined /\ (\E w \in Workers : ChangesDeque(w)) /\ Undefined
EditRaces == ~undefined /\ (\E w \in Workers : ChangesDeque(w) \/ ReadsDeque(w)) /\ Undefined

(* It looks at the history, or empties it.                                 *)
HistoryRaces == ~undefined /\ (\E w \in Workers : AddsToHistory(w)) /\ Undefined

-----------------------------------------------------------------------------
(* Methods of the caller's thread.                                         *)

enqueue ==
  /\ ~undefined
  /\ made < MaxOps
  /\ made' = made + 1
  /\ pending' = Append(pending, made + 1)
  /\ UNCHANGED <<history, state, flags, pc, locals, applies, undefined>>

Back(s) == s[Len(s)]
PopBack(s) == SubSeq(s, 1, Len(s) - 1)

(* Reads back()->state(): undefined on a slot a worker has moved from.     *)
removeLast ==
  /\ ~undefined
  /\ pending # <<>>
  /\ \/ /\ Back(pending) = Null
        /\ Undefined
     \/ /\ Back(pending) # Null
        /\ state[Back(pending)] = "Pending"
        /\ pending' = PopBack(pending)
        /\ UNCHANGED <<history, state, made, flags, pc, locals, applies, undefined>>

HasNull(s) == \E i \in 1..Len(s) : s[i] = Null

(* remove_if/erase: what is left of s when only the slots in K are kept.   *)
KeepSlots(s, K) ==
  [n \in 1..Cardinality(K) |-> s[CHOOSE i \in K : Cardinality({j \in K : j <= i}) = n]]

clearPending ==
  /\ ~undefined
  /\ \/ /\ HasNull(pending)
        /\ Undefined
     \/ /\ ~HasNull(pending)
        /\ pending' = KeepSlots(pending, {i \in 1..Len(pending) : state[pending[i]] # "Pending"})
        /\ UNCHANGED <<history, state, made, flags, pc, locals, applies, undefined>>

clearAll ==
  /\ ~undefined
  /\ pending' = <<>>
  /\ history' = <<>>
  /\ lastRunSuccess' = FALSE
  /\ UNCHANGED <<state, made, running, cancelRequested, pc, locals, applies, undefined>>

(* The undo() of an operation that supports it, when it succeeds; every    *)
(* other outcome of undoLast() leaves the queue as it was.                 *)
undoLast ==
  /\ ~undefined
  /\ history # <<>>
  /\ state[Back(history)] = "Completed"
  /\ state' = [state EXCEPT ![Back(history)] = "Undone"]
  /\ UNCHANGED <<pending, history, made, flags, pc, locals, applies, undefined>>

requestCancel ==
  /\ ~undefined
  /\ cancelRequested' = TRUE
  /\ UNCHANGED <<queue, running, lastRunSuccess, pc, locals, applies, undefined>>

(* Reading every operation through pending().                              *)
readPending == ~undefined /\ HasNull(pending) /\ Undefined

-----------------------------------------------------------------------------
(* applyAll(), on worker w.                                                *)

(* The caller starts a thread whose body is applyAll().                    *)
StartThread(w) ==
  /\ ~undefined
  /\ applies < MaxApplies
  /\ Goto(w, "idle", "enter")
  /\ applies' = applies + 1
  /\ UNCHANGED <<queue, flags, locals, undefined>>

(* Nothing pending: report success and return.                             *)
ApplyNothing(w) ==
  /\ ~undefined
  /\ Goto(w, "enter", "done")
  /\ pending = <<>>
  /\ lastRunSuccess' = TRUE
  /\ UNCHANGED <<queue, running, cancelRequested, locals, applies, undefined>>

ApplyBegin(w) ==
  /\ ~undefined
  /\ Goto(w, "enter", "head")
  /\ pending # <<>>
  /\ running' = TRUE
  /\ cancelRequested' = FALSE
  /\ lastRunSuccess' = FALSE
  /\ totalOps' = [totalOps EXCEPT ![w] = Len(pending)]
  /\ opIndex' = [opIndex EXCEPT ![w] = 0]
  /\ err' = [err EXCEPT ![w] = FALSE]
  /\ UNCHANGED <<queue, cur, applies, undefined>>

(* while (!m_pending.empty()) { if (m_cancelRequested) break; ...          *)
LoopDone(w) ==
  /\ ~undefined
  /\ Goto(w, "head", "finish")
  /\ pending = <<>>
  /\ UNCHANGED <<queue, flags, locals, applies, undefined>>

(* Mutant: continue instead of break.                                      *)
LoopCanceledContinue(w) ==
  /\ ~undefined
  /\ pc[w] = "head"
  /\ pending # <<>>
  /\ cancelRequested
  /\ err' = [err EXCEPT ![w] = TRUE]
  /\ UNCHANGED <<queue, flags, pc, cur, opIndex, totalOps, applies, undefined>>

LoopCanceled(w) ==
  /\ ~undefined
  /\ Goto(w, "head", "finish")
  /\ pending # <<>>
  /\ cancelRequested
  /\ err' = [err EXCEPT ![w] = TRUE]
  /\ UNCHANGED <<queue, flags, cur, opIndex, totalOps, applies, undefined>>

LoopNext(w) ==
  /\ ~undefined
  /\ Goto(w, "head", "take")
  /\ pending # <<>>
  /\ ~cancelRequested
  /\ UNCHANGED <<queue, flags, locals, applies, undefined>>

(* Mutant: the pointer is copied, not moved.                               *)
TakeFrontCopied(w) ==
  /\ ~undefined
  /\ Goto(w, "take", "pop")
  /\ pending # <<>>
  /\ cur' = [cur EXCEPT ![w] = Head(pending)]
  /\ UNCHANGED <<queue, flags, opIndex, totalOps, err, applies, undefined>>

(* op = std::move(m_pending.front()) leaves a null pointer in the deque;   *)
(* where another access may come between its load and its store, it races. *)
TakeFront(w) ==
  /\ ~undefined
  /\ pc[w] = "take"
  /\ \/ /\ pending = <<>>
        /\ Undefined
     \/ /\ pending # <<>>
        /\ Goto(w, "take", "pop")
        /\ cur' = [cur EXCEPT ![w] = Head(pending)]
        /\ pending' = [pending EXCEPT ![1] = Null]
        /\ UNCHANGED <<history, state, made, flags, opIndex, totalOps, err, applies, undefined>>

PopFront(w) ==
  /\ ~undefined
  /\ pc[w] = "pop"
  /\ \/ /\ pending = <<>>
        /\ Undefined
     \/ /\ pending # <<>>
        /\ Goto(w, "pop", "start")
        /\ pending' = Tail(pending)
        /\ UNCHANGED <<history, state, made, flags, locals, applies, undefined>>

(* op->description(), operationStarted, State::Running.                    *)
StartOp(w) ==
  /\ ~undefined
  /\ pc[w] = "start"
  /\ \/ /\ cur[w] = Null
        /\ Undefined
     \/ /\ cur[w] # Null
        /\ Goto(w, "start", "exec")
        /\ state' = [state EXCEPT ![cur[w]] = "Running"]
        /\ UNCHANGED <<pending, history, made, flags, locals, applies, undefined>>

(* Mutant: a completed operation is put back into the deque.               *)
CompleteOpRequeued(w) ==
  /\ ~undefined
  /\ Goto(w, "exec", "head")
  /\ state' = [state EXCEPT ![cur[w]] = "Completed"]
  /\ pending' = Append(pending, cur[w])
  /\ cur' = [cur EXCEPT ![w] = Null]
  /\ UNCHANGED <<history, made, flags, opIndex, totalOps, err, applies, undefined>>

(* execute() returned ok.                                                  *)
CompleteOp(w) ==
  /\ ~undefined
  /\ Goto(w, "exec", "head")
  /\ state' = [state EXCEPT ![cur[w]] = "Completed"]
  /\ history' = Append(history, cur[w])
  /\ cur' = [cur EXCEPT ![w] = Null]
  /\ opIndex' = [opIndex EXCEPT ![w] = @ + 1]
  /\ UNCHANGED <<pending, made, flags, totalOps, err, applies, undefined>>

(* execute() returned an error: record it and leave the loop.              *)
FailOp(w) ==
  /\ ~undefined
  /\ Goto(w, "exec", "finish")
  /\ state' = [state EXCEPT ![cur[w]] = "Failed"]
  /\ history' = Append(history, cur[w])
  /\ cur' = [cur EXCEPT ![w] = Null]
  /\ err' = [err EXCEPT ![w] = TRUE]
  /\ UNCHANGED <<pending, made, flags, opIndex, totalOps, applies, undefined>>

FinishRun(w) ==
  /\ ~undefined
  /\ Goto(w, "finish", "done")
  /\ lastRunSuccess' = (pending = <<>> /\ ~err[w])
  /\ running' = FALSE
  /\ UNCHANGED <<queue, cancelRequested, locals, applies, undefined>>

(* The thread has ended and its object has been deleted.                   *)
ThreadEnds(w) ==
  /\ ~undefined
  /\ Goto(w, "done", "idle")
  /\ UNCHANGED <<queue, flags, locals, applies, undefined>>

-----------------------------------------------------------------------------
Worker(w) ==
  \/ ApplyNothing(w) \/ ApplyBegin(w)
  \/ LoopDone(w) \/ LoopCanceled(w) \/ LoopNext(w)
  \/ TakeFront(w) \/ PopFront(w) \/ StartOp(w)
  \/ CompleteOp(w) \/ FailOp(w) \/ FinishRun(w)

Caller ==
  \/ enqueue \/ removeLast \/ clearPending \/ clearAll \/ undoLast \/ requestCancel \/ readPending
  \/ ReadRaces \/ EditRaces \/ HistoryRaces

QNext ==
  \/ Caller
  \/ WorkersRace
  \/ \E w \in Workers : StartThread(w) \/ Worker(w) \/ ThreadEnds(w)

(* Any caller at all: methods are called in any order, at any time.        *)
QSpec == QInit /\ [][QNext]_qvars

(* A thread that is running keeps running, and execute() returns.          *)
QFairSpec == QSpec /\ \A w \in Workers : WF_qvars(Worker(w) \/ ThreadEnds(w))

-----------------------------------------------------------------------------
(* Properties.                                                             *)

(* Types: the deque holds operations and moved-from slots, never anything  *)
(* else, and a slot is not executed once it has been moved from.           *)
QTypeOK ==
  /\ pending \in Seq(Ops \cup {Null})
  /\ history \in Seq(Ops)
  /\ state \in [Ops -> OpState]
  /\ made \in 0..MaxOps
  /\ running \in BOOLEAN
  /\ cancelRequested \in BOOLEAN
  /\ lastRunSuccess \in BOOLEAN
  /\ pc \in [Workers -> PC]
  /\ cur \in [Workers -> Ops \cup {Null}]
  /\ opIndex \in [Workers -> Nat]
  /\ totalOps \in [Workers -> Nat]
  /\ err \in [Workers -> BOOLEAN]
  /\ applies \in 0..MaxApplies
  /\ undefined \in BOOLEAN

(* What is in a slot of the deque, held by a worker, or in the history.    *)
Queued(o)   == \E i \in 1..Len(pending) : pending[i] = o
Held(o)     == \E w \in Workers : cur[w] = o
Recorded(o) == \E i \in 1..Len(history) : history[i] = o

(***************************************************************************)
(* Until the program has run into undefined behaviour, every operation has *)
(* one owner: it is in one slot of the deque, or held by one worker, or in *)
(* one entry of the history, in whatever order the caller and the workers  *)
(* come to the unlocked deque.  Its state says which: queued operations    *)
(* are Pending and recorded ones are finished.                             *)
(***************************************************************************)
OneOwnerEach ==
  /\ \A i, j \in 1..Len(pending) :
       pending[i] = pending[j] /\ pending[i] # Null => i = j
  /\ \A i, j \in 1..Len(history) : history[i] = history[j] => i = j
  /\ \A v, w \in Workers : cur[v] = cur[w] /\ cur[v] # Null => v = w
  /\ \A o \in Ops : /\ Queued(o) => ~Held(o) /\ ~Recorded(o) /\ state[o] = "Pending"
                    /\ Held(o) => ~Recorded(o)
                    /\ Recorded(o) => state[o] \in Finished
SingleOwner == ~undefined => OneOwnerEach

(***************************************************************************)
(* What makes it inductive: operations are numbered by enqueue(), so a new *)
(* one is in no slot yet; a worker that executes holds an operation; and a *)
(* held operation has not finished.                                        *)
(***************************************************************************)
Numbered ==
  /\ \A i \in 1..Len(pending) : pending[i] <= made
  /\ \A i \in 1..Len(history) : history[i] <= made
  /\ \A w \in Workers : cur[w] <= made
  /\ \A o \in Ops : o > made => state[o] = "Pending"

HeldIsLive ==
  /\ \A w \in Workers : pc[w] = "exec" => cur[w] # Null
  /\ \A w \in Workers : cur[w] # Null => state[cur[w]] \in {"Pending", "Running"}

QInv == QTypeOK /\ OneOwnerEach /\ Numbered /\ HeldIsLive

(***************************************************************************)
(* No disk operation is executed twice (until anything may follow): once   *)
(* execute() has returned, the operation never becomes Running (or         *)
(* Pending) again.                                                         *)
(***************************************************************************)
NeverRerun ==
  [][\A o \in Ops : state[o] \in Finished => state'[o] \in Finished]_qvars

(***************************************************************************)
(* Every call of applyAll() returns (or the program has run into undefined *)
(* behaviour), given that execute() returns.                               *)
(***************************************************************************)
ApplyReturns == \A w \in Workers : pc[w] # "idle" ~> (pc[w] = "idle" \/ undefined)

=============================================================================
