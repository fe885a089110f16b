----------------------- MODULE DiskPartitionTabProofs -----------------------
(***************************************************************************)
(* Theorems about the operation queue and the Disks & Partitions tab, for  *)
(* any number of operations, worker and refresh threads and any bounds.    *)
(* The queue has no lock, yet whatever its caller does nothing short of a  *)
(* data race gives an operation two owners or runs it twice; the           *)
(* window-modal progress dialog keeps two threads from meeting in the      *)
(* unlocked queue for as long as it has not been hidden; and the buttons   *)
(* are right at rest.                                                      *)
(***************************************************************************)
EXTENDS DiskPartitionTab, TLAPS, FiniteSetTheorems, SequenceTheorems

-----------------------------------------------------------------------------
(* The queue, whoever calls it.                                            *)

(* Erasing everything leaves an empty deque.                               *)
LEMMA KeepNone == ASSUME NEW s PROVE KeepSlots(s, {}) = <<>>
  BY FS_EmptySet DEF KeepSlots

(* A freshly constructed queue satisfies the inductive invariant.          *)
LEMMA QInitInv == QInit => QInv
<1> SUFFICES ASSUME QInit PROVE QInv
  OBVIOUS
<1>1. QTypeOK
  <2>1. pending \in Seq(Ops \cup {Null}) /\ history \in Seq(Ops)
    BY DEF QInit
  <2>2. state \in [Ops -> OpState] /\ made \in 0..MaxOps /\ applies \in 0..MaxApplies
    BY MaxOpsAssumption, MaxAppliesAssumption DEF QInit, OpState
  <2>3. /\ pc \in [Workers -> PC]
        /\ cur \in [Workers -> Ops \cup {Null}]
        /\ opIndex \in [Workers -> Nat]
        /\ totalOps \in [Workers -> Nat]
        /\ err \in [Workers -> BOOLEAN]
    BY DEF QInit, PC
  <2> QED
    BY <2>1, <2>2, <2>3 DEF QInit, QTypeOK
<1>2. OneOwnerEach
  BY DEF QInit, OneOwnerEach, Queued, Held, Recorded, Ops, Null
<1>3. Numbered
  BY DEF QInit, Numbered, Null
<1>4. HeldIsLive
  BY DEF QInit, HeldIsLive
<1> QED
  BY <1>1, <1>2, <1>3, <1>4 DEF QInv

(* pop_back() on a deque that is not empty.                                *)
LEMMA PopBackFacts ==
  ASSUME NEW S, NEW s \in Seq(S), s # <<>>
  PROVE  /\ PopBack(s) \in Seq(S)
         /\ Len(PopBack(s)) = Len(s) - 1
         /\ \A i \in 1..Len(PopBack(s)) : i \in 1..Len(s) /\ PopBack(s)[i] = s[i]
<1>1. Len(s) \in Nat \ {0} /\ \A i \in 1..Len(s) : s[i] \in S
  OBVIOUS
<1>2. \A i \in 1..(Len(s) - 1) : s[i] \in S
  BY <1>1
<1>3. /\ SubSeq(s, 1, Len(s) - 1) \in Seq(S)
      /\ Len(SubSeq(s, 1, Len(s) - 1)) = IF 1 <= Len(s) - 1 THEN Len(s) - 1 - 1 + 1 ELSE 0
      /\ \A i \in 1..(Len(s) - 1 - 1 + 1) : SubSeq(s, 1, Len(s) - 1)[i] = s[1 + i - 1]
  <2>1. 1 \in Int /\ Len(s) - 1 \in Int
    BY <1>1
  <2> QED
    BY <1>2, <2>1, SubSeqProperties
<1>4. Len(SubSeq(s, 1, Len(s) - 1)) = Len(s) - 1
  <2>1. ASSUME NEW n \in Nat \ {0}, NEW m, m = IF 1 <= n - 1 THEN n - 1 - 1 + 1 ELSE 0
        PROVE  m = n - 1
    BY <2>1
  <2> QED
    BY <1>1, <1>3, <2>1, Zenon
<1>5. \A i \in 1..(Len(s) - 1) : i \in 1..Len(s) /\ i \in 1..(Len(s) - 1 - 1 + 1) /\ 1 + i - 1 = i
  BY <1>1
<1> QED
  BY <1>3, <1>4, <1>5 DEF PopBack

(* The empty deque is a deque, with no slot.                               *)
LEMMA EmptyDeque == /\ <<>> \in Seq(Ops \cup {Null})
                    /\ <<>> \in Seq(Ops)
                    /\ Len(<<>>) = 0
  OBVIOUS

(* Steps that leave the queue, the workers' operations and the program     *)
(* counters' "exec" alone preserve what is said about ownership.           *)
LEMMA FrameInv ==
  ASSUME QInv, QTypeOK', UNCHANGED <<queue, cur>>,
         \A w \in Workers : pc'[w] = "exec" => pc[w] = "exec"
  PROVE  QInv'
  BY DEF QInv, QTypeOK, OneOwnerEach, Numbered, HeldIsLive, Queued, Held, Recorded, queue

(* Two threads inside the queue at once: from there on anything may follow. *)
LEMMA RacesUndefined ==
  WorkersRace \/ ReadRaces \/ EditRaces \/ HistoryRaces \/ readPending => Undefined
  BY DEF WorkersRace, ReadRaces, EditRaces, HistoryRaces, readPending

(* Methods of the caller's thread preserve the invariant.                  *)
LEMMA CallerInv == QInv /\ Caller => QInv'
<1> SUFFICES ASSUME QInv, Caller PROVE QInv'
  OBVIOUS
<1> USE MaxOpsAssumption, MaxAppliesAssumption
<1>0. QTypeOK /\ Null \notin Ops
  BY DEF QInv, Ops, Null
<1>u. CASE Undefined
  <2>1. QTypeOK'
    BY <1>0, <1>u DEF QTypeOK, Undefined, queue, flags, locals
  <2> QED
    BY <1>u, <2>1, FrameInv DEF Undefined, queue, locals
<1>1. CASE enqueue
  <2>1. QTypeOK'
    BY <1>0, <1>1 DEF QTypeOK, enqueue, flags, locals, Ops
  <2>2. /\ made' \in Ops /\ made' > made
        /\ Len(pending') = Len(pending) + 1
        /\ pending'[Len(pending) + 1] = made'
        /\ \A i \in 1..Len(pending) : pending'[i] = pending[i]
        /\ UNCHANGED <<history, state, pc, locals>>
    BY <1>0, <1>1 DEF QTypeOK, enqueue, Ops
  <2>3. ~Queued(made') /\ ~Held(made') /\ ~Recorded(made') /\ state[made'] = "Pending"
    BY <1>0, <2>2 DEF QInv, QTypeOK, Numbered, Queued, Held, Recorded, Ops
  <2>a. Len(pending) \in Nat /\ made \in Int
    BY <1>0 DEF QTypeOK
  <2>b. \A o \in Ops : /\ Queued(o)' <=> Queued(o) \/ o = made'
                       /\ Held(o)' <=> Held(o)
                       /\ Recorded(o)' <=> Recorded(o)
    BY <2>2, <2>a DEF Queued, Held, Recorded, locals
  <2>c. \A i, j \in 1..Len(pending') : pending'[i] = pending'[j] /\ pending'[i] # Null => i = j
    <3>1. \A i \in 1..Len(pending) : pending[i] # made'
      BY <2>3 DEF Queued
    <3> QED
      BY <2>2, <2>a, <3>1 DEF QInv, OneOwnerEach
  <2>4. OneOwnerEach'
    BY <2>2, <2>3, <2>b, <2>c DEF QInv, OneOwnerEach, locals
  <2>5. Numbered'
    <3>0. made' \in Int /\ \A n \in Ops \cup {Null} : n \in Int /\ (n <= made => n <= made')
      BY <2>2, <2>a DEF Ops, Null
    <3>1. \A i \in 1..Len(pending') : pending'[i] <= made'
      <4>1. \A i \in 1..Len(pending) : pending[i] \in Ops \cup {Null} /\ pending[i] <= made
        BY <1>0 DEF QInv, QTypeOK, Numbered
      <4>2. \A i \in 1..Len(pending') : i \in 1..Len(pending) \/ i = Len(pending) + 1
        BY <2>2, <2>a
      <4>3. ASSUME NEW i \in 1..Len(pending') PROVE pending'[i] <= made'
        <5>1. CASE i \in 1..Len(pending)
          <6>1. pending'[i] = pending[i]
            BY <2>2, <5>1
          <6> QED
            BY <3>0, <4>1, <5>1, <6>1
        <5>2. CASE i = Len(pending) + 1
          BY <2>2, <3>0, <5>2
        <5> QED
          BY <4>2, <5>1, <5>2
      <4> QED
        BY <4>3
    <3>2. \A i \in 1..Len(history') : history'[i] <= made'
      BY <1>0, <2>2, <2>a DEF QInv, QTypeOK, Numbered, Ops
    <3>3. \A w \in Workers : cur'[w] <= made'
      <4>1. \A w \in Workers : cur[w] \in Ops \cup {Null} /\ cur[w] <= made
        BY <1>0 DEF QInv, QTypeOK, Numbered
      <4> QED
        BY <2>2, <3>0, <4>1 DEF locals
    <3>4. \A o \in Ops : o > made' => state'[o] = "Pending"
      BY <1>0, <2>2, <2>a DEF QInv, QTypeOK, Numbered, Ops
    <3> QED
      BY <3>1, <3>2, <3>3, <3>4 DEF Numbered
  <2>6. HeldIsLive'
    BY <1>0, <2>2 DEF QInv, QTypeOK, HeldIsLive, locals
  <2> QED
    BY <2>1, <2>4, <2>5, <2>6 DEF QInv
<1>2. CASE removeLast /\ ~Undefined
  <2>0. /\ pending' \in Seq(Ops \cup {Null})
        /\ Len(pending') = Len(pending) - 1
        /\ \A i \in 1..Len(pending') : i \in 1..Len(pending) /\ pending'[i] = pending[i]
        /\ UNCHANGED <<history, state, made, flags, pc, locals, applies, undefined>>
    BY <1>0, <1>2, PopBackFacts DEF QTypeOK, removeLast
  <2>1. QTypeOK'
    BY <1>0, <2>0 DEF QTypeOK, flags, locals
  <2>2. OneOwnerEach'
    BY <1>0, <2>0 DEF QInv, QTypeOK, OneOwnerEach, Queued, Held, Recorded, locals
  <2>3. Numbered'
    BY <1>0, <2>0 DEF QInv, QTypeOK, Numbered, locals
  <2>4. HeldIsLive'
    BY <1>0, <2>0 DEF QInv, QTypeOK, HeldIsLive, locals
  <2> QED
    BY <2>1, <2>2, <2>3, <2>4 DEF QInv
<1>3. CASE clearPending /\ ~Undefined
  <2>1. {i \in 1..Len(pending) : state[pending[i]] # "Pending"} = {}
    BY <1>0, <1>3 DEF QInv, QTypeOK, OneOwnerEach, Queued, clearPending, HasNull
  <2>2. pending' = <<>> /\ UNCHANGED <<history, state, made, flags, pc, locals, applies, undefined>>
    BY <1>3, <2>1, KeepNone DEF clearPending
  <2>3. QTypeOK'
    BY <1>0, <2>2, EmptyDeque DEF QTypeOK, flags, locals
  <2>4. OneOwnerEach' /\ Numbered' /\ HeldIsLive'
    BY <1>0, <2>2, EmptyDeque DEF QInv, QTypeOK, OneOwnerEach, Numbered, HeldIsLive, Queued, Held, Recorded, locals
  <2> QED
    BY <2>3, <2>4 DEF QInv
<1>4. CASE clearAll
  <2>1. QTypeOK'
    BY <1>0, <1>4, EmptyDeque DEF QTypeOK, clearAll, locals
  <2>2. OneOwnerEach' /\ Numbered' /\ HeldIsLive'
    BY <1>0, <1>4, EmptyDeque DEF QInv, QTypeOK, OneOwnerEach, Numbered, HeldIsLive, Queued, Held, Recorded, clearAll, locals
  <2> QED
    BY <2>1, <2>2 DEF QInv
<1>5. CASE undoLast
  <2>1. QTypeOK'
    BY <1>0, <1>5 DEF QTypeOK, undoLast, flags, locals, OpState
  <2>2. Back(history) \in Ops /\ Recorded(Back(history))
    BY <1>0, <1>5 DEF QTypeOK, undoLast, Back, Recorded
  <2>3. OneOwnerEach' /\ HeldIsLive'
    BY <1>0, <1>5, <2>2 DEF QInv, QTypeOK, OneOwnerEach, HeldIsLive, Queued, Held, Recorded, undoLast, locals, Finished
  <2>4. Numbered'
    BY <1>0, <1>5, <2>2 DEF QInv, QTypeOK, Numbered, undoLast, locals, Ops
  <2> QED
    BY <2>1, <2>3, <2>4 DEF QInv
<1>6. CASE requestCancel
  <2>1. QTypeOK'
    BY <1>0, <1>6 DEF QTypeOK, requestCancel, queue, locals
  <2> QED
    BY <1>6, <2>1, FrameInv DEF requestCancel, queue, locals
<1> QED
  BY <1>u, <1>1, <1>2, <1>3, <1>4, <1>5, <1>6, RacesUndefined DEF Caller

(* The steps of applyAll() preserve the invariant.                         *)
LEMMA WorkerInv == ASSUME NEW w \in Workers PROVE QInv /\ Worker(w) => QInv'
<1> SUFFICES ASSUME QInv, Worker(w) PROVE QInv'
  OBVIOUS
<1> USE MaxOpsAssumption, MaxAppliesAssumption
<1>0. QTypeOK /\ Null \notin Ops
  BY DEF QInv, Ops, Null
<1>u. CASE Undefined
  <2>1. QTypeOK'
    BY <1>0, <1>u DEF QTypeOK, Undefined, queue, flags, locals
  <2> QED
    BY <1>u, <2>1, FrameInv DEF Undefined, queue, locals
<1>1. CASE ApplyNothing(w)
  <2>1. QTypeOK'
    BY <1>0, <1>1 DEF QTypeOK, ApplyNothing, Goto, queue, locals, PC
  <2> QED
    BY <1>0, <1>1, <2>1, FrameInv DEF QTypeOK, ApplyNothing, Goto, locals
<1>8. CASE ApplyBegin(w)
  <2>1. Len(pending) \in Nat
    BY <1>0 DEF QTypeOK
  <2>2. QTypeOK'
    BY <1>0, <1>8, <2>1 DEF QTypeOK, ApplyBegin, Goto, queue, PC
  <2> QED
    BY <1>0, <1>8, <2>2, FrameInv DEF QTypeOK, ApplyBegin, Goto
<1>2. CASE LoopDone(w) \/ LoopCanceled(w) \/ LoopNext(w)
  <2>1. QTypeOK'
    BY <1>0, <1>2 DEF QTypeOK, LoopDone, LoopCanceled, LoopNext, Goto, queue, flags, locals, PC
  <2> QED
    BY <1>0, <1>2, <2>1, FrameInv DEF QTypeOK, LoopDone, LoopCanceled, LoopNext, Goto, locals
<1>3. CASE FinishRun(w)
  <2>1. QTypeOK'
    BY <1>0, <1>3 DEF QTypeOK, FinishRun, Goto, queue, locals, PC
  <2> QED
    BY <1>0, <1>3, <2>1, FrameInv DEF QTypeOK, FinishRun, Goto, locals
<1>4. CASE TakeFront(w) /\ ~Undefined
  <2>0. /\ pending # <<>>
        /\ pc' = [pc EXCEPT ![w] = "pop"]
        /\ cur' = [cur EXCEPT ![w] = pending[1]]
        /\ pending' = [pending EXCEPT ![1] = Null]
        /\ UNCHANGED <<history, state, made, flags, opIndex, totalOps, err, applies, undefined>>
    BY <1>0, <1>4 DEF QTypeOK, TakeFront, Goto
  <2>1. /\ 1 \in 1..Len(pending)
        /\ pending[1] \in Ops \cup {Null}
        /\ pending' \in Seq(Ops \cup {Null})
        /\ Len(pending') = Len(pending)
        /\ pending'[1] = Null
        /\ \A i \in 1..Len(pending) : i # 1 => pending'[i] = pending[i]
    BY <1>0, <2>0 DEF QTypeOK
  <2>2. QTypeOK'
    BY <1>0, <2>0, <2>1 DEF QTypeOK, flags, PC
  <2>a. \A v \in Workers : cur'[v] = IF v = w THEN pending[1] ELSE cur[v]
    BY <1>0, <2>0 DEF QTypeOK
  <2>b. ASSUME NEW o \in Ops
        PROVE  /\ Queued(o)' <=> Queued(o) /\ o # pending[1]
               /\ Held(o)' => o = pending[1] \/ Held(o)
               /\ Recorded(o)' <=> Recorded(o)
    BY <1>0, <2>0, <2>1, <2>a DEF QInv, OneOwnerEach, Queued, Held, Recorded
  <2>c. pending[1] # Null => Queued(pending[1])
    BY <2>1 DEF Queued
  <2>d. \A i, j \in 1..Len(pending') : pending'[i] = pending'[j] /\ pending'[i] # Null => i = j
    BY <2>1 DEF QInv, OneOwnerEach
  <2>e. \A v, u \in Workers : cur'[v] = cur'[u] /\ cur'[v] # Null => v = u
    BY <1>0, <2>1, <2>a, <2>c DEF QInv, OneOwnerEach, Held
  <2>f. ASSUME NEW o \in Ops
        PROVE  /\ Queued(o)' => ~Held(o)' /\ ~Recorded(o)' /\ state'[o] = "Pending"
               /\ Held(o)' => ~Recorded(o)'
               /\ Recorded(o)' => state'[o] \in Finished
    <3>1. /\ Queued(o) => ~Held(o) /\ ~Recorded(o) /\ state[o] = "Pending"
          /\ Held(o) => ~Recorded(o)
          /\ Recorded(o) => state[o] \in Finished
      BY DEF QInv, OneOwnerEach
    <3>2. o = pending[1] => Queued(o)
      BY <1>0, <2>c
    <3>3. state' = state
      BY <2>0
    <3> QED
      BY <2>b, <3>1, <3>2, <3>3
  <2>3. OneOwnerEach'
    BY <2>0, <2>d, <2>e, <2>f DEF QInv, OneOwnerEach
  <2>4. Numbered'
    <3>1. /\ made' = made /\ made \in Nat /\ history' = history /\ state' = state
          /\ Numbered
      BY <1>0, <2>0 DEF QInv, QTypeOK, flags, queue
    <3>2. pending[1] <= made
      BY <2>1, <3>1 DEF Numbered
    <3>3. \A i \in 1..Len(pending') : pending'[i] <= made'
      BY <2>1, <3>1 DEF Numbered, Null
    <3>4. \A v \in Workers : cur'[v] <= made'
      BY <2>a, <3>1, <3>2 DEF Numbered
    <3> QED
      BY <3>1, <3>3, <3>4 DEF Numbered
  <2>5. HeldIsLive'
    BY <1>0, <2>0, <2>1 DEF QInv, QTypeOK, OneOwnerEach, HeldIsLive, Queued
  <2> QED
    BY <2>2, <2>3, <2>4, <2>5 DEF QInv
<1>5. CASE PopFront(w) /\ ~Undefined
  <2>0. /\ pending # <<>>
        /\ pc' = [pc EXCEPT ![w] = "start"]
        /\ pending' = Tail(pending)
        /\ UNCHANGED <<history, state, made, flags, locals, applies, undefined>>
    BY <1>5 DEF PopFront, Goto
  <2>1. /\ pending' \in Seq(Ops \cup {Null})
        /\ Len(pending') = Len(pending) - 1
        /\ \A i \in 1..Len(pending') : i + 1 \in 1..Len(pending) /\ pending'[i] = pending[i + 1]
    BY <1>0, <2>0 DEF QTypeOK
  <2>2. QTypeOK'
    BY <1>0, <2>0, <2>1 DEF QTypeOK, flags, locals, PC
  <2>a. \A o : Queued(o)' => Queued(o)
    BY <2>1 DEF Queued
  <2>b. \A i, j \in 1..Len(pending') : pending'[i] = pending'[j] /\ pending'[i] # Null => i = j
    <3>1. \A i, j \in 1..Len(pending) : pending[i] = pending[j] /\ pending[i] # Null => i = j
      BY DEF QInv, OneOwnerEach
    <3>2. ASSUME NEW i \in 1..Len(pending'), NEW j \in 1..Len(pending'),
                 pending'[i] = pending'[j], pending'[i] # Null
          PROVE  i = j
      <4>1. /\ i + 1 \in 1..Len(pending) /\ j + 1 \in 1..Len(pending)
            /\ pending[i + 1] = pending[j + 1] /\ pending[i + 1] # Null
        BY <2>1, <3>2
      <4>2. i + 1 = j + 1
        BY <3>1, <4>1
      <4> QED
        BY <4>2
    <3> QED
      BY <3>2
  <2>3. OneOwnerEach'
    BY <2>0, <2>a, <2>b DEF QInv, OneOwnerEach, Held, Recorded, locals
  <2>4. Numbered'
    BY <1>0, <2>0, <2>1 DEF QInv, QTypeOK, Numbered, locals
  <2>5. HeldIsLive'
    BY <1>0, <2>0, <2>1 DEF QInv, QTypeOK, HeldIsLive, locals
  <2> QED
    BY <2>2, <2>3, <2>4, <2>5 DEF QInv
<1>6. CASE StartOp(w) /\ ~Undefined
  <2>0. /\ cur[w] \in Ops
        /\ pc' = [pc EXCEPT ![w] = "exec"]
        /\ state' = [state EXCEPT ![cur[w]] = "Running"]
        /\ UNCHANGED <<pending, history, made, flags, locals, applies, undefined>>
    BY <1>0, <1>6 DEF QTypeOK, StartOp, Goto
  <2>1. Held(cur[w])
    BY DEF Held
  <2>2. QTypeOK'
    BY <1>0, <2>0 DEF QTypeOK, flags, locals, PC, OpState
  <2>3. OneOwnerEach'
    BY <1>0, <2>0, <2>1 DEF QInv, QTypeOK, OneOwnerEach, Queued, Held, Recorded, locals
  <2>4. Numbered'
    <3>1. cur[w] <= made /\ cur[w] \in Int /\ made \in Int
      BY <1>0, <2>0 DEF QInv, QTypeOK, Numbered, Ops
    <3>2. \A o \in Ops : o > made => state'[o] = "Pending"
      BY <1>0, <2>0, <3>1 DEF QInv, QTypeOK, Numbered, Ops
    <3> QED
      BY <2>0, <3>2 DEF QInv, Numbered, locals
  <2>5. HeldIsLive'
    BY <1>0, <2>0 DEF QInv, QTypeOK, HeldIsLive, locals, Null
  <2> QED
    BY <2>2, <2>3, <2>4, <2>5 DEF QInv
<1>7. CASE CompleteOp(w) \/ FailOp(w)
  <2>0. PICK s \in {"Completed", "Failed"} :
        /\ pc[w] = "exec"
        /\ pc' \in {[pc EXCEPT ![w] = "head"], [pc EXCEPT ![w] = "finish"]}
        /\ state' = [state EXCEPT ![cur[w]] = s]
        /\ history' = Append(history, cur[w])
        /\ cur' = [cur EXCEPT ![w] = Null]
        /\ UNCHANGED <<pending, made, flags, totalOps, applies, undefined>>
    BY <1>7 DEF CompleteOp, FailOp, Goto
  <2>1. cur[w] \in Ops /\ Held(cur[w])
    BY <1>0, <2>0 DEF QInv, QTypeOK, HeldIsLive, Held
  <2>2. QTypeOK'
    <3>a. opIndex' \in [Workers -> Nat]
      <4>1. opIndex' = [opIndex EXCEPT ![w] = opIndex[w] + 1] \/ opIndex' = opIndex
        BY <1>7 DEF CompleteOp, FailOp
      <4>2. opIndex \in [Workers -> Nat] /\ opIndex[w] + 1 \in Nat
        BY <1>0 DEF QTypeOK
      <4> QED
        BY <4>1, <4>2
    <3>b. err' \in [Workers -> BOOLEAN]
      BY <1>0, <1>7 DEF QTypeOK, CompleteOp, FailOp
    <3>1. opIndex' \in [Workers -> Nat] /\ err' \in [Workers -> BOOLEAN]
      BY <3>a, <3>b
    <3>2. pc' \in [Workers -> PC]
      BY <1>0, <2>0 DEF QTypeOK, PC
    <3> QED
      BY <1>0, <2>0, <2>1, <3>1, <3>2 DEF QTypeOK, flags, OpState
  <2>3. /\ Len(history') = Len(history) + 1
        /\ history'[Len(history) + 1] = cur[w]
        /\ \A i \in 1..Len(history) : history'[i] = history[i]
    BY <1>0, <2>0, <2>1 DEF QTypeOK
  <2>a. \A v \in Workers : cur'[v] = IF v = w THEN Null ELSE cur[v]
    BY <1>0, <2>0 DEF QTypeOK
  <2>b. ASSUME NEW o \in Ops
        PROVE  /\ Queued(o)' <=> Queued(o)
               /\ Held(o)' <=> Held(o) /\ o # cur[w]
               /\ Recorded(o)' <=> Recorded(o) \/ o = cur[w]
    <3>1. Len(history) \in Nat
      BY <1>0 DEF QTypeOK
    <3>2. Recorded(o)' <=> Recorded(o) \/ o = cur[w]
      BY <2>3, <3>1 DEF Recorded
    <3>3. Held(o)' <=> Held(o) /\ o # cur[w]
      BY <1>0, <2>a, <2>1 DEF QInv, OneOwnerEach, Held
    <3> QED
      BY <2>0, <3>2, <3>3 DEF Queued
  <2>c. \A i, j \in 1..Len(history') : history'[i] = history'[j] => i = j
    <3>1. Len(history) \in Nat /\ \A i \in 1..Len(history) : history[i] # cur[w]
      BY <1>0, <2>1 DEF QInv, QTypeOK, OneOwnerEach, Recorded
    <3> QED
      BY <2>3, <3>1 DEF QInv, OneOwnerEach
  <2>d. \A v, u \in Workers : cur'[v] = cur'[u] /\ cur'[v] # Null => v = u
    BY <2>a DEF QInv, OneOwnerEach
  <2>e. \A o \in Ops : state'[o] = IF o = cur[w] THEN s ELSE state[o]
    BY <1>0, <2>0 DEF QTypeOK
  <2>4. OneOwnerEach'
    <3>1. \A o \in Ops : /\ Queued(o)' => ~Held(o)' /\ ~Recorded(o)' /\ state'[o] = "Pending"
                         /\ Held(o)' => ~Recorded(o)'
                         /\ Recorded(o)' => state'[o] \in Finished
      BY <2>b, <2>e, <2>1 DEF QInv, OneOwnerEach, Finished
    <3> QED
      BY <2>0, <2>c, <2>d, <3>1 DEF QInv, OneOwnerEach
  <2>5. Numbered'
    BY <1>0, <2>0, <2>1, <2>3 DEF QInv, QTypeOK, Numbered, Null, Ops
  <2>6. HeldIsLive'
    BY <1>0, <2>0, <2>1 DEF QInv, QTypeOK, OneOwnerEach, HeldIsLive, Held
  <2> QED
    BY <2>2, <2>4, <2>5, <2>6 DEF QInv
<1> QED
  BY <1>u, <1>1, <1>2, <1>3, <1>4, <1>5, <1>6, <1>7, <1>8 DEF Worker

(* Every step of the queue preserves the inductive invariant.              *)
LEMMA QNextInv == QInv /\ [QNext]_qvars => QInv'
<1> SUFFICES ASSUME QInv, [QNext]_qvars PROVE QInv'
  OBVIOUS
<1> USE MaxOpsAssumption, MaxAppliesAssumption
<1>1. CASE Caller
  BY <1>1, CallerInv
<1>2. CASE \E w \in Workers : Worker(w)
  BY <1>2, WorkerInv
<1>3. ASSUME NEW w \in Workers, StartThread(w) \/ ThreadEnds(w) PROVE QInv'
  <2>a. pc' \in [Workers -> PC]
    BY <1>3 DEF QInv, QTypeOK, StartThread, ThreadEnds, Goto, PC
  <2>b. applies' \in 0..MaxApplies
    BY <1>3 DEF QInv, QTypeOK, StartThread, ThreadEnds
  <2>1. QTypeOK'
    BY <1>3, <2>a, <2>b DEF QInv, QTypeOK, StartThread, ThreadEnds, queue, flags, locals
  <2> QED
    BY <1>3, <2>1, FrameInv DEF QInv, QTypeOK, StartThread, ThreadEnds, Goto, locals
<1>4. CASE UNCHANGED qvars
  <2>1. QTypeOK'
    BY <1>4 DEF QInv, QTypeOK, qvars, queue, flags, locals
  <2> QED
    BY <1>4, <2>1, FrameInv DEF qvars, locals
<1>5. CASE WorkersRace
  <2>1. Undefined
    BY <1>5, RacesUndefined
  <2>2. QTypeOK'
    BY <2>1 DEF QInv, QTypeOK, Undefined, queue, flags, locals
  <2> QED
    BY <2>1, <2>2, FrameInv DEF Undefined, locals
<1> QED
  BY <1>1, <1>2, <1>3, <1>4, <1>5 DEF QNext

-----------------------------------------------------------------------------
(* The inductive invariant holds in every reachable state of the queue.    *)
THEOREM QInvariance == QSpec => []QInv
  BY QInitInv, QNextInv, PTL DEF QSpec

(* Type correctness of OperationQueue's members and applyAll()'s locals.   *)
THEOREM QTypeCorrect == QSpec => []QTypeOK
  BY QInvariance, PTL DEF QInv

(* Whatever the caller and any number of workers do to the unlocked deque, *)
(* no operation has two owners unless two threads have raced for it.       *)
THEOREM OneOwner == QSpec => []SingleOwner
<1>1. QInv => SingleOwner
  BY DEF QInv, SingleOwner
<1> QED
  BY <1>1, QInvariance, PTL

(* An operation whose execute() has returned is never executed again,      *)
(* again up to the first data race.                                        *)
THEOREM ExecutedAtMostOnce == QSpec => NeverRerun
<1> DEFINE Stays == \A o \in Ops : state[o] \in Finished => state'[o] \in Finished
<1>1. QInv /\ [QNext]_qvars => [Stays]_qvars
  <2> SUFFICES ASSUME QInv, QNext PROVE Stays
    OBVIOUS
  <2>0. QTypeOK
    BY DEF QInv
  <2>1. CASE Caller \/ WorkersRace
    BY <2>0, <2>1, RacesUndefined DEF Caller, enqueue, removeLast, clearPending, clearAll, undoLast,
       requestCancel, Undefined, queue, QTypeOK, Finished
  <2>2. ASSUME NEW w \in Workers, StartOp(w) PROVE Stays
    BY <2>0, <2>2 DEF QInv, HeldIsLive, StartOp, Undefined, queue, QTypeOK, Finished
  <2>3. ASSUME NEW w \in Workers, Worker(w), ~StartOp(w) PROVE Stays
    BY <2>0, <2>3 DEF Worker, ApplyNothing, ApplyBegin, LoopDone, LoopCanceled, LoopNext,
       TakeFront, PopFront, CompleteOp, FailOp, FinishRun, Undefined, queue, QTypeOK, Finished
  <2>4. ASSUME NEW w \in Workers, StartThread(w) \/ ThreadEnds(w) PROVE Stays
    BY <2>4 DEF StartThread, ThreadEnds, queue
  <2> QED
    BY <2>1, <2>2, <2>3, <2>4 DEF QNext
<1> QED
  BY <1>1, QInvariance, PTL DEF QSpec, NeverRerun

-----------------------------------------------------------------------------
(* A handler of the tab is one call into the queue, or none.               *)

(* A freshly built tab has a freshly constructed queue.                    *)
LEMMA TabInitQueue == TabInit => QInit
  BY DEF TabInit

(* A handler that races with a worker is a race of the queue's caller.     *)
LEMMA BreakFrame == ListBreaks \/ EditBreaks => Caller /\ Undefined /\ TabStays
  BY RacesUndefined DEF ListBreaks, EditBreaks, Caller

(* Every step of the tab is a step of the queue or leaves the queue alone. *)
LEMMA TabStepQueue == [TabNext]_vars => [QNext]_qvars
<1> SUFFICES ASSUME [TabNext]_vars PROVE QNext \/ UNCHANGED qvars
  OBVIOUS
<1>1. CASE UNCHANGED vars
  BY <1>1 DEF vars
<1>2. CASE User
  <2>1. CASE AcceptEdit \/ onCheckFilesystem
    BY <2>1, BreakFrame DEF AcceptEdit, onCheckFilesystem, Queue, QNext, Caller
  <2>2. CASE onUndoOperation \/ onClearOperations
    BY <2>2, BreakFrame DEF onUndoOperation, onClearOperations, QNext, Caller
  <2>3. CASE \E w \in Workers : ApplyYes(w) \/ CancelButton(w)
    BY <2>3 DEF ApplyYes, CancelButton, QNext, Caller
  <2>4. CASE OpenEditBox \/ RejectEdit \/ onApplyOperations \/ ApplyNo
    BY <2>4 DEF OpenEditBox, RejectEdit, onApplyOperations, ApplyNo, QNext, Caller
  <2>5. CASE DismissResult \/ DismissResultNoSnapshot
    BY <2>5 DEF DismissResult, DismissResultNoSnapshot
  <2>6. CASE \E r \in Refreshers : onRefreshDisks(r)
    BY <2>6 DEF onRefreshDisks
  <2> QED
    BY <1>2, <2>1, <2>2, <2>3, <2>4, <2>5, <2>6 DEF User
<1>3. CASE EventLoop
  BY <1>3, BreakFrame DEF EventLoop, onAllOperationsFinished, onSnapshotTaken, onThreadFinished,
     DeleteThread, QNext, Caller
<1>4. CASE Progress
  BY <1>4 DEF Progress, ProgressPartial, ProgressFull
<1>5. CASE \E w \in Workers : Run(w)
  BY <1>5 DEF Run, QNext
<1>6. CASE \E r \in Refreshers : Refresh(r)
  BY <1>6 DEF Refresh, getSystemSnapshot, StoreSnapshot
<1>7. CASE WorkersRace /\ TabStays
  BY <1>7 DEF QNext
<1> QED
  BY <1>1, <1>2, <1>3, <1>4, <1>5, <1>6, <1>7 DEF TabNext

(* Whatever the user does in the tab, no operation has two owners and none *)
(* is executed twice before two threads race for the deque.                *)
THEOREM TabQueueSound == TabSpec => []SingleOwner /\ NeverRerun
<1>1. TabSpec => QSpec
  BY TabInitQueue, TabStepQueue, PTL DEF TabSpec, QSpec
<1> QED
  BY <1>1, OneOwner, ExecutedAtMostOnce, PTL

-----------------------------------------------------------------------------
(* Facts about boxes, signals and the disk's version.                      *)

(* The three kinds of signals are told apart, and the ends of two threads. *)
LEMMA Signals ==
  /\ AllFinished # SnapshotTaken
  /\ \A w \in Workers : ThreadFinished(w) # AllFinished /\ ThreadFinished(w) # SnapshotTaken
  /\ \A v, w \in Workers : ThreadFinished(v) = ThreadFinished(w) => v = w
  /\ AllFinished \in Events /\ SnapshotTaken \in Events
  /\ \A w \in Workers : ThreadFinished(w) \in Events
<1>1. /\ AllFinished.sig = "allOperationsFinished"
      /\ SnapshotTaken.sig = "snapshot"
      /\ \A w \in Workers : ThreadFinished(w).sig = "finished" /\ ThreadFinished(w).worker = w
  BY DEF AllFinished, SnapshotTaken, ThreadFinished
<1>2. AllFinished \in Events /\ SnapshotTaken \in Events /\ \A w \in Workers : ThreadFinished(w) \in Events
  BY DEF Events
<1>3. "allOperationsFinished" # "snapshot" /\ "finished" # "snapshot" /\ "finished" # "allOperationsFinished"
  OBVIOUS
<1>4. AllFinished # SnapshotTaken
  BY <1>1, <1>3
<1>5. ASSUME NEW w \in Workers PROVE ThreadFinished(w) # AllFinished /\ ThreadFinished(w) # SnapshotTaken
  BY <1>1, <1>3
<1>6. ASSUME NEW v \in Workers, NEW w \in Workers, ThreadFinished(v) = ThreadFinished(w) PROVE v = w
  BY <1>1, <1>6
<1> QED
  BY <1>2, <1>4, <1>5, <1>6

(* The kinds of boxes.                                                     *)
LEMMA BoxKinds ==
  /\ EditBox \in Boxes /\ StaleBox \in Boxes /\ ResultBox \in Boxes
  /\ EditBox.kind = "edit" /\ StaleBox.kind = "stale" /\ ResultBox.kind = "result"
  /\ EditBox # StaleBox /\ ResultBox # StaleBox
  /\ \A S \in SUBSET Ops : /\ ConfirmBox(S) \in Boxes
                           /\ ConfirmBox(S).kind = "confirm" /\ ConfirmBox(S).ops = S
                           /\ ConfirmBox(S) # StaleBox
  BY DEF EditBox, StaleBox, ResultBox, ConfirmBox, Boxes

(* The version counts operations, so there are no more than were made.     *)
LEMMA VersionType == DiskVersion \in 0..MaxOps
<1> DEFINE F == {o \in Ops : state[o] \in Finished}
<1>1. IsFiniteSet(Ops) /\ Cardinality(Ops) = MaxOps
  BY MaxOpsAssumption, FS_Interval DEF Ops
<1>2. IsFiniteSet(F) /\ Cardinality(F) <= Cardinality(Ops)
  BY <1>1, FS_Subset
<1>3. Cardinality(F) \in Nat
  BY <1>2, FS_CardinalityType
<1> QED
  BY <1>1, <1>2, <1>3, MaxOpsAssumption DEF DiskVersion

(* A box on top of a stack, and what is left when it is closed.            *)
LEMMA StackFacts ==
  ASSUME NEW S, NEW s \in Seq(S)
  PROVE  /\ \A e \in S : /\ Append(s, e) \in Seq(S)
                         /\ Len(Append(s, e)) = Len(s) + 1
                         /\ Append(s, e)[Len(s) + 1] = e
                         /\ \A i \in 1..Len(s) : Append(s, e)[i] = s[i]
         /\ s # <<>> => /\ Len(s) \in 1..Len(s)
                        /\ Tail(s) \in Seq(S)
                        /\ Len(Tail(s)) = Len(s) - 1
                        /\ \A i \in 1..Len(Tail(s)) : i + 1 \in 1..Len(s) /\ Tail(s)[i] = s[i + 1]
                        /\ Head(s) = s[1] /\ 1 \in 1..Len(s)
  OBVIOUS

(* What refreshDisks() leaves on the stack.                                *)
LEMMA RefreshFacts ==
  ASSUME NEW v \in 0..MaxOps, NEW bs \in Seq(Boxes), refreshDisks(v, bs)
  PROVE  /\ snap' \in 0..MaxOps
         /\ boxes' \in Seq(Boxes)
         /\ Len(boxes') = Len(bs)
         /\ \A i \in 1..Len(bs) : boxes'[i] = IF bs[i] = EditBox THEN StaleBox ELSE bs[i]
<1>1. /\ boxes' = [i \in 1..Len(bs) |-> IF bs[i] = EditBox THEN StaleBox ELSE bs[i]]
      /\ snap' = v
  BY DEF refreshDisks
<1>2. Len(bs) \in Nat /\ \A i \in 1..Len(bs) : bs[i] \in Boxes
  OBVIOUS
<1>3. \A i \in 1..Len(bs) : (IF bs[i] = EditBox THEN StaleBox ELSE bs[i]) \in Boxes
  BY <1>2, BoxKinds
<1> QED
  BY <1>1, <1>2, <1>3

-----------------------------------------------------------------------------
(* Type correctness.                                                       *)

(* The confirmation lists operations only.                                 *)
LEMMA ListedType == QTypeOK => Listed \subseteq Ops
  BY DEF QTypeOK, Listed

(* The tab starts with nothing queued, asked, posted or shown.             *)
LEMMA TabInitType == TabInit => TabTypeOK
<1> SUFFICES ASSUME TabInit PROVE TabTypeOK
  OBVIOUS
<1>1. boxes \in Seq(Boxes) /\ events \in Seq(Events)
  BY DEF TabInit
<1>2. snap \in 0..MaxOps /\ last \in 0..MaxOps /\ seen \in [Refreshers -> 0..MaxOps] /\ refreshes \in 0..MaxRefreshes
  BY MaxOpsAssumption, MaxRefreshesAssumption DEF TabInit
<1> QED
  BY <1>1, <1>2 DEF TabInit, TabTypeOK

(* Every handler keeps the types.                                          *)
LEMMA TabTypeStep == QTypeOK /\ TabTypeOK /\ [TabNext]_vars => TabTypeOK'
<1> SUFFICES ASSUME QTypeOK, TabTypeOK, [TabNext]_vars PROVE TabTypeOK'
  OBVIOUS
<1> USE DEF modal, shots, ghost
<1>0. /\ boxes \in Seq(Boxes) /\ events \in Seq(Events)
      /\ <<EditBox>> \in Seq(Boxes) /\ <<ConfirmBox(Listed)>> \in Seq(Boxes)
      /\ boxes # <<>> => PopBack(boxes) \in Seq(Boxes)
      /\ Append(boxes, ResultBox) \in Seq(Boxes)
      /\ Append(events, SnapshotTaken) \in Seq(Events)
      /\ events # <<>> => Tail(events) \in Seq(Events)
  BY PopBackFacts, StackFacts, BoxKinds, Signals, ListedType DEF TabTypeOK
<1>1. CASE UNCHANGED vars
  BY <1>1 DEF vars, TabTypeOK
<1>b. TabStays => TabTypeOK'
  BY DEF TabStays, TabTypeOK
<1>c. ListBreaks \/ EditBreaks \/ (ReadRaces /\ TabStays) \/ (WorkersRace /\ TabStays) => TabTypeOK'
  BY <1>b, BreakFrame
<1>2. CASE AcceptEdit
  BY <1>0, <1>2, <1>c DEF AcceptEdit, Queue, Showing, updateOperationList, TabTypeOK
<1>3. CASE onCheckFilesystem \/ onUndoOperation \/ onClearOperations
  BY <1>3, <1>c DEF onCheckFilesystem, Queue, onUndoOperation, onClearOperations,
     updateOperationList, TabTypeOK
<1>4. CASE OpenEditBox \/ RejectEdit \/ onApplyOperations \/ ApplyNo \/ DismissResultNoSnapshot
  BY <1>0, <1>4, <1>c DEF OpenEditBox, RejectEdit, onApplyOperations, ApplyNo, DismissResultNoSnapshot,
     Showing, TabTypeOK
<1>5. ASSUME NEW w \in Workers, ApplyYes(w) PROVE TabTypeOK'
  <2>1. boxes # <<>> /\ Top.ops \subseteq Ops
    <3>1. boxes # <<>> /\ Top \in Boxes
      BY <1>0, <1>5, StackFacts DEF ApplyYes, Showing, Top, Back
    <3> QED
      BY <3>1 DEF Boxes
  <2> QED
    BY <1>0, <1>5, <2>1 DEF ApplyYes, TabTypeOK
<1>6. ASSUME NEW w \in Workers, CancelButton(w) \/ ProgressPartial(w) \/ ProgressFull(w) PROVE TabTypeOK'
  BY <1>6 DEF CancelButton, ProgressPartial, ProgressFull, ShowProgress, Expose, TabTypeOK
<1>7. CASE DismissResult
  <2>1. boxes # <<>> /\ refreshDisks(DiskVersion, PopBack(boxes))
    BY <1>7 DEF DismissResult, Showing
  <2>2. snap' \in 0..MaxOps /\ boxes' \in Seq(Boxes)
    BY <1>0, <2>1, VersionType, RefreshFacts
  <2> QED
    BY <1>7, <2>2 DEF DismissResult, TabTypeOK
<1>8. CASE onSnapshotTaken
  <2>1. events # <<>> /\ refreshDisks(last, boxes) /\ last \in 0..MaxOps
    BY <1>8 DEF onSnapshotTaken, Deliver, Delivered, TabTypeOK
  <2>2. snap' \in 0..MaxOps /\ boxes' \in Seq(Boxes)
    BY <1>0, <2>1, RefreshFacts
  <2> QED
    BY <1>0, <1>8, <2>1, <2>2 DEF onSnapshotTaken, Deliver, TabTypeOK
<1>9. CASE onAllOperationsFinished
  BY <1>0, <1>9 DEF onAllOperationsFinished, Deliver, Delivered, TabTypeOK
<1>10. ASSUME NEW w \in Workers, onThreadFinished(w) PROVE TabTypeOK'
  BY <1>0, <1>10, <1>c DEF onThreadFinished, Delivered, updateOperationList, TabTypeOK
<1>11. ASSUME NEW w \in Workers, DeleteThread(w) PROVE TabTypeOK'
  BY <1>11 DEF DeleteThread, TabTypeOK
<1>12. ASSUME NEW w \in Workers, Run(w) PROVE TabTypeOK'
  <2>1. events \o <<AllFinished, ThreadFinished(w)>> \in Seq(Events)
    BY <1>0, Signals
  <2> QED
    BY <1>12, <2>1 DEF Run, TabTypeOK
<1>13. ASSUME NEW r \in Refreshers, onRefreshDisks(r) PROVE TabTypeOK'
  <2>1. refreshes' \in 0..MaxRefreshes
    BY <1>13, MaxRefreshesAssumption DEF onRefreshDisks, TabTypeOK
  <2> QED
    BY <1>13, <2>1 DEF onRefreshDisks, TabTypeOK
<1>14. ASSUME NEW r \in Refreshers, Refresh(r) PROVE TabTypeOK'
  <2>1. CASE getSystemSnapshot(r)
    BY <2>1, VersionType DEF getSystemSnapshot, TabTypeOK
  <2>2. CASE StoreSnapshot(r)
    <3>1. last' \in 0..MaxOps /\ events' \in Seq(Events)
      BY <1>0, <2>2 DEF StoreSnapshot, TabTypeOK
    <3> QED
      BY <2>2, <3>1 DEF StoreSnapshot, TabTypeOK
  <2> QED
    BY <1>14, <2>1, <2>2 DEF Refresh
<1> QED
  BY <1>c, <1>1, <1>2, <1>3, <1>4, <1>5, <1>6, <1>7, <1>8, <1>9, <1>10, <1>11, <1>12, <1>13, <1>14
     DEF TabNext, User, EventLoop, Progress

-----------------------------------------------------------------------------
(* Signals and dialogs.                                                    *)

(* Steps that post and deliver nothing, move no worker and close no dialog.*)
LEMMA EventsFrame ==
  ASSUME EventsInv, events' = events, pc' = pc,
         \A w \in Workers : dlg'[w] = "none" => dlg[w] = "none"
  PROVE  EventsInv'
  BY DEF EventsInv, Active

(* A signal other than the end of a thread is delivered.                   *)
LEMMA EventsTail ==
  ASSUME TabTypeOK, EventsInv, events # <<>>, events' = Tail(events), pc' = pc, dlg' = dlg
  PROVE  EventsInv'
<1>1. /\ Len(events') = Len(events) - 1
      /\ \A i \in 1..Len(events') : i + 1 \in 1..Len(events) /\ events'[i] = events[i + 1]
      /\ Len(events) \in Nat
  BY StackFacts DEF TabTypeOK
<1>2. \A w \in Workers : Active(w)' => dlg'[w] # "none"
  BY DEF EventsInv, Active
<1>3. \A i \in 1..Len(events'), w \in Workers :
        events'[i] = ThreadFinished(w) => pc'[w] = "done" /\ dlg'[w] # "none"
  BY <1>1 DEF EventsInv
<1>4. \A i, j \in 1..Len(events'), w \in Workers :
        events'[i] = ThreadFinished(w) /\ events'[j] = ThreadFinished(w) => i = j
  <2> SUFFICES ASSUME NEW i \in 1..Len(events'), NEW j \in 1..Len(events'), NEW w \in Workers,
                      events'[i] = ThreadFinished(w), events'[j] = ThreadFinished(w)
               PROVE  i = j
    OBVIOUS
  <2>1. i + 1 = j + 1
    BY <1>1 DEF EventsInv
  <2> QED
    BY <1>1, <2>1
<1>5. ASSUME NEW i \in 1..Len(events'), events'[i] = AllFinished
      PROVE  i + 1 <= Len(events') /\ \E w \in Workers : events'[i + 1] = ThreadFinished(w)
  <2>1. i + 1 \in 1..Len(events) /\ events[i + 1] = AllFinished
    BY <1>1, <1>5
  <2>2. (i + 1) + 1 <= Len(events) /\ \E w \in Workers : events[(i + 1) + 1] = ThreadFinished(w)
    BY <2>1 DEF EventsInv
  <2>3. i + 1 \in 1..Len(events')
    BY <1>1, <2>2
  <2> QED
    BY <1>1, <2>2, <2>3
<1> QED
  BY <1>2, <1>3, <1>4, <1>5 DEF EventsInv, ThreadFinished, AllFinished

(* A signal of the refresh thread is posted.                               *)
LEMMA EventsAppend ==
  ASSUME TabTypeOK, EventsInv, events' = Append(events, SnapshotTaken), pc' = pc, dlg' = dlg
  PROVE  EventsInv'
<1>1. /\ Len(events') = Len(events) + 1
      /\ events'[Len(events) + 1] = SnapshotTaken
      /\ \A i \in 1..Len(events) : events'[i] = events[i]
      /\ Len(events) \in Nat
  BY StackFacts, Signals DEF TabTypeOK
<1>2. \A i \in 1..Len(events') : events'[i] # SnapshotTaken => i \in 1..Len(events)
  BY <1>1
<1>3. \A i \in 1..Len(events'), w \in Workers :
         events'[i] = ThreadFinished(w) => i \in 1..Len(events) /\ events[i] = ThreadFinished(w)
  BY <1>1, <1>2, Signals
<1>4. ASSUME NEW i \in 1..Len(events'), events'[i] = AllFinished
      PROVE  i + 1 <= Len(events') /\ \E w \in Workers : events'[i + 1] = ThreadFinished(w)
  <2>1. i \in 1..Len(events) /\ events[i] = AllFinished
    BY <1>1, <1>2, <1>4, Signals
  <2>2. i + 1 <= Len(events) /\ \E w \in Workers : events[i + 1] = ThreadFinished(w)
    BY <2>1 DEF EventsInv
  <2> QED
    BY <1>1, <2>2
<1> QED
  BY <1>3, <1>4 DEF EventsInv, Active, ThreadFinished, AllFinished

(* A step of applyAll() moves its own worker only, which was active and is *)
(* active until it has returned.                                           *)
LEMMA WorkerMoves ==
  ASSUME QTypeOK, NEW w \in Workers, Worker(w)
  PROVE  /\ Active(w) /\ pc'[w] # "idle"
         /\ \A v \in Workers : v # w => pc'[v] = pc[v]
<1> USE DEF Goto, Undefined, Active
<1>1. CASE ApplyNothing(w) \/ ApplyBegin(w) \/ LoopDone(w) \/ LoopCanceled(w) \/ LoopNext(w)
  BY <1>1 DEF QTypeOK, ApplyNothing, ApplyBegin, LoopDone, LoopCanceled, LoopNext
<1>2. CASE TakeFront(w) \/ PopFront(w) \/ StartOp(w)
  BY <1>2 DEF QTypeOK, TakeFront, PopFront, StartOp
<1>3. CASE CompleteOp(w) \/ FailOp(w) \/ FinishRun(w)
  BY <1>3 DEF QTypeOK, CompleteOp, FailOp, FinishRun
<1> QED
  BY <1>1, <1>2, <1>3 DEF Worker

(* The end of a thread is delivered: its dialog is closed.                 *)
LEMMA EventsFinished ==
  ASSUME TabTypeOK, EventsInv, NEW w \in Workers, Delivered(ThreadFinished(w)),
         events' = Tail(events), pc' = pc, dlg' = [dlg EXCEPT ![w] = "none"]
  PROVE  EventsInv' /\ \A i \in 1..Len(events') : events'[i] # ThreadFinished(w)
<1>0. events # <<>> /\ Head(events) = ThreadFinished(w) /\ events \in Seq(Events)
  BY DEF Delivered, TabTypeOK
<1>1. /\ Len(events') = Len(events) - 1
      /\ \A i \in 1..Len(events') : i + 1 \in 1..Len(events) /\ events'[i] = events[i + 1]
      /\ Len(events) \in Nat
      /\ events[1] = ThreadFinished(w) /\ 1 \in 1..Len(events)
  BY <1>0, StackFacts
<1>2. pc[w] = "done"
  BY <1>1 DEF EventsInv
<1>3. \A v \in Workers : v # w => dlg'[v] = dlg[v]
  BY DEF TabTypeOK
<1>4. ASSUME NEW i \in 1..Len(events') PROVE events'[i] # ThreadFinished(w)
  <2>1. CASE events[i + 1] = ThreadFinished(w)
    <3>1. i + 1 = 1
      BY <1>1, <2>1 DEF EventsInv
    <3> QED
      BY <1>1, <3>1
  <2> QED
    BY <1>1, <2>1
<1>5. \A v \in Workers : Active(v)' => dlg'[v] # "none"
  BY <1>2, <1>3 DEF EventsInv, Active
<1>6. \A i \in 1..Len(events'), v \in Workers :
        events'[i] = ThreadFinished(v) => pc'[v] = "done" /\ dlg'[v] # "none"
  BY <1>1, <1>3, <1>4 DEF EventsInv
<1>7. \A i, j \in 1..Len(events'), v \in Workers :
        events'[i] = ThreadFinished(v) /\ events'[j] = ThreadFinished(v) => i = j
  <2> SUFFICES ASSUME NEW i \in 1..Len(events'), NEW j \in 1..Len(events'), NEW v \in Workers,
                      events'[i] = ThreadFinished(v), events'[j] = ThreadFinished(v)
               PROVE  i = j
    OBVIOUS
  <2>1. i + 1 = j + 1
    BY <1>1 DEF EventsInv
  <2> QED
    BY <1>1, <2>1
<1>8. ASSUME NEW i \in 1..Len(events'), events'[i] = AllFinished
      PROVE  i + 1 <= Len(events') /\ \E v \in Workers : events'[i + 1] = ThreadFinished(v)
  <2>1. i + 1 \in 1..Len(events) /\ events[i + 1] = AllFinished
    BY <1>1, <1>8
  <2>2. (i + 1) + 1 <= Len(events) /\ \E v \in Workers : events[(i + 1) + 1] = ThreadFinished(v)
    BY <2>1 DEF EventsInv
  <2>3. i + 1 \in 1..Len(events')
    BY <1>1, <2>2
  <2> QED
    BY <1>1, <2>2, <2>3
<1> QED
  BY <1>4, <1>5, <1>6, <1>7, <1>8 DEF EventsInv, ThreadFinished, AllFinished

(* A worker runs, and posts its two last signals when it returns.          *)
LEMMA EventsRun ==
  ASSUME QTypeOK, TabTypeOK, EventsInv, NEW w \in Workers, Run(w)
  PROVE  EventsInv' /\ (~Active(w)' => \E i \in 1..Len(events') : events'[i] = ThreadFinished(w))
<1>1. /\ Active(w) /\ pc'[w] # "idle"
      /\ \A v \in Workers : v # w => pc'[v] = pc[v]
      /\ dlg' = dlg
  BY WorkerMoves DEF Run
<1>2. \A i \in 1..Len(events) : events[i] # ThreadFinished(w)
  BY <1>1 DEF EventsInv, Active
<1>3. CASE pc'[w] # "done"
  <2>1. events' = events /\ Active(w)'
    BY <1>1, <1>3 DEF Run, Returns, Active
  <2>2. \A v \in Workers : Active(v)' => Active(v)
    BY <1>1 DEF Active
  <2> QED
    BY <1>1, <1>2, <2>1, <2>2 DEF EventsInv
<1>4. CASE pc'[w] = "done"
  <2>1. events' = events \o <<AllFinished, ThreadFinished(w)>>
    BY <1>4 DEF Run, Returns
  <2>2. /\ Len(events) \in Nat
        /\ Len(events') = Len(events) + 2
        /\ \A i \in 1..Len(events) : events'[i] = events[i]
        /\ events'[Len(events) + 1] = AllFinished
        /\ events'[Len(events) + 2] = ThreadFinished(w)
    <3>1. events \in Seq(Events) /\ <<AllFinished, ThreadFinished(w)>> \in Seq(Events)
      BY Signals DEF TabTypeOK
    <3>2. PICK s \in Seq(Events) : s = <<AllFinished, ThreadFinished(w)>>
      BY <3>1
    <3>3. Len(s) = 2 /\ s[1] = AllFinished /\ s[2] = ThreadFinished(w)
      BY <3>2
    <3> QED
      BY <2>1, <3>1, <3>2, <3>3
  <2>3. \A i \in 1..Len(events') : i \in 1..Len(events) \/ i = Len(events) + 1 \/ i = Len(events) + 2
    BY <2>2
  <2>4. \A i \in 1..Len(events'), v \in Workers : events'[i] = ThreadFinished(v) =>
           \/ i \in 1..Len(events) /\ events[i] = ThreadFinished(v) /\ v # w
           \/ i = Len(events) + 2 /\ v = w
    BY <1>2, <2>2, <2>3, Signals
  <2>5. \A v \in Workers : Active(v)' => dlg'[v] # "none"
    BY <1>1, <1>4 DEF EventsInv, Active
  <2>6. \A i \in 1..Len(events'), v \in Workers :
          events'[i] = ThreadFinished(v) => pc'[v] = "done" /\ dlg'[v] # "none"
    BY <1>1, <1>4, <2>4 DEF EventsInv
  <2>7. \A i, j \in 1..Len(events'), v \in Workers :
          events'[i] = ThreadFinished(v) /\ events'[j] = ThreadFinished(v) => i = j
    BY <2>4 DEF EventsInv
  <2>8. ASSUME NEW i \in 1..Len(events'), events'[i] = AllFinished
        PROVE  i + 1 <= Len(events') /\ \E v \in Workers : events'[i + 1] = ThreadFinished(v)
    <3>1. i # Len(events) + 2
      BY <2>2, <2>8, Signals
    <3>2. CASE i = Len(events) + 1
      BY <2>2, <3>2
    <3>3. CASE i \in 1..Len(events)
      <4>1. i + 1 <= Len(events) /\ \E v \in Workers : events[i + 1] = ThreadFinished(v)
        BY <2>2, <2>8, <3>3 DEF EventsInv
      <4> QED
        BY <2>2, <3>3, <4>1
    <3> QED
      BY <2>3, <3>1, <3>2, <3>3
  <2>9. \E i \in 1..Len(events') : events'[i] = ThreadFinished(w)
    BY <2>2
  <2> QED
    BY <2>5, <2>6, <2>7, <2>8, <2>9 DEF EventsInv, ThreadFinished, AllFinished
<1> QED
  BY <1>3, <1>4

(* The queue's methods move no worker.                                     *)
LEMMA CallerFrame == Caller => UNCHANGED <<pc, locals, running, applies>>
  BY RacesUndefined DEF Caller, enqueue, removeLast, clearPending, clearAll, undoLast, requestCancel,
     Undefined, flags, locals

(* A race moves neither workers, dialogs nor signals.                      *)
LEMMA RaceFrame ==
  ASSUME \/ ListBreaks \/ EditBreaks
         \/ ReadRaces /\ TabStays
         \/ WorkersRace /\ TabStays
  PROVE  undefined' /\ UNCHANGED <<pc, dlg, events, boxes, exposed>>
  BY BreakFrame, RacesUndefined DEF Undefined, TabStays, modal

(* The user's steps and progress.                                          *)
LEMMA EventsUser ==
  ASSUME QTypeOK, TabTypeOK, EventsInv, User \/ Progress
  PROVE  EventsInv'
<1> USE DEF modal
<1>1. CASE AcceptEdit \/ onCheckFilesystem \/ onUndoOperation \/ onClearOperations
  <2>1. Caller
    BY <1>1, BreakFrame DEF AcceptEdit, onCheckFilesystem, onUndoOperation, onClearOperations, Queue, Caller
  <2>2. pc' = pc /\ dlg' = dlg /\ events' = events
    BY <1>1, <2>1, CallerFrame, RaceFrame
       DEF AcceptEdit, onCheckFilesystem, onUndoOperation, onClearOperations
  <2> QED
    BY <2>2, EventsFrame
<1>2. CASE \/ OpenEditBox \/ RejectEdit \/ onApplyOperations \/ ApplyNo \/ DismissResult
           \/ DismissResultNoSnapshot \/ \E r \in Refreshers : onRefreshDisks(r)
  <2>1. pc' = pc /\ dlg' = dlg /\ events' = events
    BY <1>2, RaceFrame DEF OpenEditBox, RejectEdit, onApplyOperations, ApplyNo, DismissResult,
       DismissResultNoSnapshot, onRefreshDisks, qvars
  <2> QED
    BY <2>1, EventsFrame
<1>3. ASSUME NEW w \in Workers, ApplyYes(w) PROVE EventsInv'
  <2>1. /\ pc[w] = "idle" /\ pc' = [pc EXCEPT ![w] = "enter"]
        /\ dlg' = [dlg EXCEPT ![w] = "shown"] /\ events' = events
    BY <1>3 DEF ApplyYes, StartThread, Goto
  <2>2. \A v \in Workers : v # w => pc'[v] = pc[v] /\ dlg'[v] = dlg[v]
    BY <2>1 DEF QTypeOK, TabTypeOK
  <2>3. dlg'[w] = "shown" /\ \A i \in 1..Len(events) : events[i] # ThreadFinished(w)
    BY <2>1 DEF TabTypeOK, EventsInv
  <2> QED
    BY <2>1, <2>2, <2>3 DEF EventsInv, Active
<1>4. ASSUME NEW w \in Workers, CancelButton(w) \/ ProgressPartial(w) \/ ProgressFull(w)
      PROVE  EventsInv'
  <2>1. pc' = pc /\ events' = events
    BY <1>4 DEF CancelButton, ProgressPartial, ProgressFull, requestCancel, qvars
  <2>2. \A v \in Workers : dlg'[v] = "none" => dlg[v] = "none"
    BY <1>4 DEF CancelButton, ProgressPartial, ProgressFull, ShowProgress, TabTypeOK
  <2> QED
    BY <2>1, <2>2, EventsFrame
<1> QED
  BY <1>1, <1>2, <1>3, <1>4 DEF User, Progress

(* Signals and dialogs stay in step.                                       *)
LEMMA EventsStep == QTypeOK /\ TabTypeOK /\ EventsInv /\ [TabNext]_vars => EventsInv'
<1> SUFFICES ASSUME QTypeOK, TabTypeOK, EventsInv, [TabNext]_vars PROVE EventsInv'
  OBVIOUS
<1> USE DEF modal
<1>1. CASE UNCHANGED vars
  BY <1>1, EventsFrame DEF vars, qvars
<1>2. CASE User \/ Progress
  BY <1>2, EventsUser
<1>3. CASE onAllOperationsFinished \/ onSnapshotTaken
  <2>1. pc' = pc /\ dlg' = dlg /\ events # <<>> /\ events' = Tail(events)
    BY <1>3 DEF onAllOperationsFinished, onSnapshotTaken, Deliver, Delivered, qvars
  <2> QED
    BY <2>1, EventsTail
<1>4. ASSUME NEW w \in Workers, onThreadFinished(w) PROVE EventsInv'
  <2>1. CASE ListBreaks
    BY <2>1, RaceFrame, EventsFrame
  <2>2. CASE ~ListBreaks
    <3>1. /\ Delivered(ThreadFinished(w)) /\ requestCancel
          /\ events' = Tail(events) /\ dlg' = [dlg EXCEPT ![w] = "none"]
      BY <1>4, <2>2 DEF onThreadFinished
    <3> QED
      BY <3>1, EventsFinished DEF requestCancel
  <2> QED
    BY <2>1, <2>2
<1>5. ASSUME NEW w \in Workers, DeleteThread(w) PROVE EventsInv'
  <2>1. /\ pc[w] = "done" /\ pc' = [pc EXCEPT ![w] = "idle"] /\ dlg[w] = "none"
        /\ dlg' = dlg /\ events' = events
    BY <1>5 DEF DeleteThread, ThreadEnds, Goto
  <2>2. pc'[w] = "idle" /\ \A v \in Workers : v # w => pc'[v] = pc[v]
    BY <2>1 DEF QTypeOK
  <2>3. \A i \in 1..Len(events) : events[i] # ThreadFinished(w)
    BY <2>1 DEF EventsInv
  <2> QED
    BY <2>1, <2>2, <2>3 DEF EventsInv, Active
<1>6. CASE \E w \in Workers : Run(w)
  BY <1>6, EventsRun
<1>7. ASSUME NEW r \in Refreshers, getSystemSnapshot(r) PROVE EventsInv'
  BY <1>7, EventsFrame DEF getSystemSnapshot, qvars
<1>8. ASSUME NEW r \in Refreshers, StoreSnapshot(r) PROVE EventsInv'
  BY <1>8, EventsAppend DEF StoreSnapshot, qvars
<1>9. CASE WorkersRace /\ TabStays
  BY <1>9, RaceFrame, EventsFrame
<1> QED
  BY <1>1, <1>2, <1>3, <1>4, <1>5, <1>6, <1>7, <1>8, <1>9 DEF TabNext, EventLoop, Refresh

-----------------------------------------------------------------------------
(* The buttons.                                                            *)

(* A step that leaves the deque and the buttons alone and does not end the *)
(* last thing that could have made the buttons stale.                      *)
LEMMA ButtonsFrame ==
  ASSUME ButtonsInv, pending' = pending, buttons' = buttons, undefined' = undefined, Quiet' => Quiet
  PROVE  ButtonsInv'
  BY DEF ButtonsInv

(* updateOperationList() sets them right.                                  *)
LEMMA ButtonsUpdated == updateOperationList => ButtonsInv'
  BY DEF updateOperationList, ButtonsInv

(* The buttons are right whenever the tab is quiet.                        *)
LEMMA ButtonsStep ==
  QTypeOK /\ TabTypeOK /\ EventsInv /\ ButtonsInv /\ [TabNext]_vars => ButtonsInv'
<1> SUFFICES ASSUME QTypeOK, TabTypeOK, EventsInv, ButtonsInv, [TabNext]_vars PROVE ButtonsInv'
  OBVIOUS
<1> USE DEF modal
<1>b. ASSUME \/ ListBreaks \/ EditBreaks
             \/ ReadRaces /\ TabStays
             \/ WorkersRace /\ TabStays
      PROVE  ButtonsInv'
  BY <1>b, RaceFrame DEF ButtonsInv
<1>1. CASE UNCHANGED vars
  BY <1>1, ButtonsFrame DEF vars, qvars, queue, Quiet, Active
<1>2. CASE AcceptEdit \/ onCheckFilesystem \/ onUndoOperation \/ onClearOperations
  BY <1>2, <1>b, ButtonsUpdated DEF AcceptEdit, onCheckFilesystem, onUndoOperation, onClearOperations, Queue
<1>3. CASE \/ OpenEditBox \/ RejectEdit \/ onApplyOperations \/ ApplyNo \/ DismissResult
           \/ DismissResultNoSnapshot
  <2>1. UNCHANGED <<qvars, buttons, events>> \/ (ReadRaces /\ TabStays)
    BY <1>3 DEF OpenEditBox, RejectEdit, onApplyOperations, ApplyNo, DismissResult, DismissResultNoSnapshot
  <2> QED
    BY <1>b, <2>1, ButtonsFrame DEF qvars, queue, Quiet, Active
<1>4. ASSUME NEW r \in Refreshers, onRefreshDisks(r) \/ getSystemSnapshot(r) PROVE ButtonsInv'
  <2>1. UNCHANGED <<qvars, buttons, events>>
    BY <1>4 DEF onRefreshDisks, getSystemSnapshot
  <2> QED
    BY <2>1, ButtonsFrame DEF qvars, queue, Quiet, Active
<1>5. ASSUME NEW w \in Workers, ApplyYes(w) PROVE ButtonsInv'
  <2>1. pc' = [pc EXCEPT ![w] = "enter"]
    BY <1>5 DEF ApplyYes, StartThread, Goto
  <2>2. pc'[w] = "enter"
    BY <2>1 DEF QTypeOK
  <2>3. Active(w)'
    BY <2>2 DEF Active
  <2> QED
    BY <2>3 DEF ButtonsInv, Quiet
<1>6. ASSUME NEW w \in Workers, CancelButton(w) \/ ProgressPartial(w) \/ ProgressFull(w)
      PROVE  ButtonsInv'
  <2>1. UNCHANGED <<pending, undefined, pc, buttons, events>>
    BY <1>6 DEF CancelButton, ProgressPartial, ProgressFull, requestCancel, qvars, queue
  <2> QED
    BY <2>1, ButtonsFrame DEF Quiet, Active
<1>7. ASSUME NEW e, Deliver(e), \A w \in Workers : e # ThreadFinished(w), UNCHANGED <<qvars, buttons>>
      PROVE  ButtonsInv'
  <2>1. events # <<>> /\ events' = Tail(events) /\ Head(events) = e /\ events \in Seq(Events)
    BY <1>7 DEF Deliver, Delivered, TabTypeOK
  <2>2. /\ Len(events') = Len(events) - 1 /\ Len(events) \in Nat /\ events[1] = e
        /\ \A i \in 1..Len(events') : events'[i] = events[i + 1]
    BY <2>1, StackFacts
  <2>3. ASSUME NEW i \in 1..Len(events), NEW w \in Workers, events[i] = ThreadFinished(w)
        PROVE  i - 1 \in 1..Len(events') /\ events'[i - 1] = ThreadFinished(w)
    <3>1. i # 1
      BY <1>7, <2>2, <2>3
    <3>2. i - 1 \in 1..Len(events') /\ (i - 1) + 1 = i
      BY <2>2, <3>1
    <3> QED
      BY <2>2, <2>3, <3>2
  <2>4. Quiet' => Quiet
    BY <1>7, <2>3 DEF Quiet, Active, qvars, ThreadFinished
  <2> QED
    BY <1>7, <2>4, ButtonsFrame DEF qvars, queue
<1>8. CASE onAllOperationsFinished \/ onSnapshotTaken
  BY <1>7, <1>8, Signals DEF onAllOperationsFinished, onSnapshotTaken
<1>9. ASSUME NEW w \in Workers, onThreadFinished(w) PROVE ButtonsInv'
  BY <1>9, <1>b, ButtonsUpdated DEF onThreadFinished
<1>10. ASSUME NEW w \in Workers, DeleteThread(w) PROVE ButtonsInv'
  <2>1. /\ UNCHANGED <<pending, undefined, buttons, events>>
        /\ pc[w] = "done" /\ pc' = [pc EXCEPT ![w] = "idle"]
    BY <1>10 DEF DeleteThread, ThreadEnds, Goto, queue
  <2>2. \A v \in Workers : Active(v) => Active(v)'
    BY <2>1 DEF Active, QTypeOK
  <2>3. Quiet' => Quiet
    BY <2>1, <2>2 DEF Quiet
  <2> QED
    BY <2>1, <2>3, ButtonsFrame
<1>11. ASSUME NEW w \in Workers, Run(w) PROVE ButtonsInv'
  <2>1. ~Active(w)' => \E i \in 1..Len(events') : events'[i] = ThreadFinished(w)
    BY <1>11, EventsRun
  <2>2. ~Quiet'
    BY <2>1 DEF Quiet, ThreadFinished
  <2> QED
    BY <2>2 DEF ButtonsInv
<1>12. ASSUME NEW r \in Refreshers, StoreSnapshot(r) PROVE ButtonsInv'
  <2>1. UNCHANGED <<qvars, buttons>> /\ events' = Append(events, SnapshotTaken) /\ events \in Seq(Events)
    BY <1>12 DEF StoreSnapshot, TabTypeOK
  <2>2. Len(events') = Len(events) + 1 /\ Len(events) \in Nat /\ \A i \in 1..Len(events) : events'[i] = events[i]
    BY <2>1, StackFacts, Signals
  <2>3. Quiet' => Quiet
    BY <2>1, <2>2 DEF Quiet, Active, qvars, ThreadFinished
  <2> QED
    BY <2>1, <2>3, ButtonsFrame DEF qvars, queue
<1> QED
  BY <1>b, <1>1, <1>2, <1>3, <1>4, <1>5, <1>6, <1>8, <1>9, <1>10, <1>11, <1>12
     DEF TabNext, User, EventLoop, Progress, Refresh

-----------------------------------------------------------------------------
(* The modal dialog as a lock.                                             *)

(* A dialog that was hidden too early stays recorded.                      *)
LEMMA ExposedStays == TabTypeOK /\ [TabNext]_vars => (exposed => exposed')
<1> SUFFICES ASSUME TabTypeOK, [TabNext]_vars, exposed PROVE exposed'
  OBVIOUS
<1> USE DEF modal, shots, ghost
<1>1. CASE User
  BY <1>1, RaceFrame DEF User, OpenEditBox, AcceptEdit, RejectEdit, onCheckFilesystem, onUndoOperation,
     onClearOperations, onApplyOperations, ApplyNo, ApplyYes, CancelButton, DismissResult,
     DismissResultNoSnapshot, onRefreshDisks, Expose
<1>2. CASE EventLoop
  BY <1>2, RaceFrame DEF EventLoop, onAllOperationsFinished, onSnapshotTaken, onThreadFinished,
     DeleteThread
<1>3. CASE Progress
  BY <1>3 DEF Progress, ProgressPartial, ProgressFull, Expose
<1>4. CASE (\E w \in Workers : Run(w)) \/ (\E r \in Refreshers : Refresh(r))
  BY <1>4 DEF Run, Refresh, getSystemSnapshot, StoreSnapshot
<1>5. CASE UNCHANGED vars
  BY <1>5 DEF vars
<1>6. CASE WorkersRace /\ TabStays
  BY <1>6, RaceFrame
<1> QED
  BY <1>1, <1>2, <1>3, <1>4, <1>5, <1>6 DEF TabNext

(* No dialog at all: no run goes on, none has ended unnoticed, and every   *)
(* slot of the deque holds an operation.                                   *)
LEMMA CalmFacts ==
  ASSUME TabTypeOK, EventsInv, Guarded, \A w \in Workers : dlg[w] = "none"
  PROVE  /\ \A w \in Workers : ~Active(w)
         /\ ~HasNull(pending)
         /\ \A i \in 1..Len(events) : events[i] # AllFinished
         /\ \A i \in 1..Len(events), w \in Workers : events[i] # ThreadFinished(w)
<1>1. \A w \in Workers : ~Active(w)
  BY DEF EventsInv
<1>2. \A i \in 1..Len(events), w \in Workers : events[i] # ThreadFinished(w)
  BY DEF EventsInv
<1>3. ASSUME NEW i \in 1..Len(events), events[i] = AllFinished PROVE FALSE
  <2>1. i + 1 <= Len(events) /\ \E w \in Workers : events[i + 1] = ThreadFinished(w)
    BY <1>3 DEF EventsInv
  <2>2. i + 1 \in 1..Len(events)
    BY <2>1 DEF TabTypeOK
  <2> QED
    BY <1>2, <2>1, <2>2
<1>4. ~HasNull(pending)
  BY <1>1 DEF HasNull, Guarded, DequeInv, Active
<1> QED
  BY <1>1, <1>2, <1>3, <1>4

(* Where no run goes on, nothing races.                                    *)
LEMMA CalmIsSafe ==
  ASSUME \A w \in Workers : ~Active(w), ~HasNull(pending)
  PROVE  ~ListBreaks /\ ~EditBreaks /\ ~ReadRaces
<1>1. \A w \in Workers : ~ChangesDeque(w) /\ ~ReadsDeque(w)
  BY DEF Active, ChangesDeque, ReadsDeque
<1> QED
  BY <1>1 DEF ListBreaks, EditBreaks, readPending, ReadRaces, EditRaces

(* The main window takes input only when there is no dialog.               *)
LEMMA UsableIsCalm ==
  ASSUME TabTypeOK, Guarded, MainWindowUsable
  PROVE  \A w \in Workers : dlg[w] = "none"
  BY DEF TabTypeOK, Guarded, OneDialog, MainWindowUsable

(* A box that asks is answered when it is alone and there is no dialog.    *)
LEMMA AskingIsCalm ==
  ASSUME TabTypeOK, Guarded, NEW k, k # "result", Showing(k)
  PROVE  /\ boxes # <<>> /\ Len(boxes) = 1 /\ Top = boxes[1] /\ PopBack(boxes) = <<>>
         /\ \A w \in Workers : dlg[w] = "none"
<1>1. boxes # <<>> /\ boxes \in Seq(Boxes) /\ boxes[Len(boxes)].kind = k
  BY DEF Showing, Top, Back, TabTypeOK
<1>2. Len(boxes) \in 1..Len(boxes)
  BY <1>1, StackFacts
<1>3. Len(boxes) = 1 /\ \A w \in Workers : dlg[w] = "none"
  BY <1>1, <1>2 DEF Guarded, AsksAlone
<1>4. PopBack(boxes) \in Seq(Boxes) /\ Len(PopBack(boxes)) = 0
  BY <1>1, <1>3, PopBackFacts
<1>5. PopBack(boxes) = <<>>
  BY <1>4
<1> QED
  BY <1>1, <1>3, <1>5 DEF Top, Back

(* The deque is edited, with no dialog and no box left.                    *)
LEMMA EditedGuarded ==
  ASSUME TabTypeOK, EventsInv, Guarded, \A w \in Workers : dlg[w] = "none",
         UNCHANGED <<dlg, pc, cur, state, confirmed, events, refr, refreshes>>,
         ~undefined', boxes' = <<>>,
         \A i \in 1..Len(pending') : pending'[i] # Null,
         refreshes = 0 => ~dangling'
  PROVE  Guarded'
<1>1. \A w \in Workers : ~Active(w) /\ ~Active(w)'
  BY CalmFacts DEF Active
<1>2. OneDialog'
  BY DEF OneDialog
<1>3. AsksAlone'
  BY DEF AsksAlone
<1>4. DequeInv'
  BY <1>1 DEF DequeInv, Active
<1>5. AllConfirmed'
  BY <1>1 DEF Guarded, AllConfirmed, Executed
<1>6. NoRefresh'
  BY DEF Guarded, NoRefresh
<1>7. (\A w \in Workers : pc[w] \in {"head", "take", "pop", "start", "exec"} => running)'
  BY <1>1 DEF Active
<1> QED
  BY <1>2, <1>3, <1>4, <1>5, <1>6, <1>7 DEF Guarded

(* Boxes are put up or closed, nothing else happens.                       *)
LEMMA BoxesGuarded ==
  ASSUME Guarded, UNCHANGED <<qvars, dlg, confirmed, dangling>>,
         AsksAlone', NoRefresh'
  PROVE  Guarded'
<1>1. UNCHANGED <<pending, state, running, pc, cur, undefined>>
  BY DEF qvars, queue, flags, locals
<1>2. OneDialog' /\ DequeInv'
  BY <1>1 DEF Guarded, OneDialog, DequeInv
<1>3. AllConfirmed'
  BY <1>1 DEF Guarded, AllConfirmed, Active, Listed, Executed
<1> QED
  BY <1>1, <1>2, <1>3 DEF Guarded

(* Queueing, undoing and clearing.                                         *)
LEMMA EditsGuarded ==
  ASSUME QInv, QTypeOK, TabTypeOK, EventsInv, Guarded,
         AcceptEdit \/ onCheckFilesystem \/ onUndoOperation \/ onClearOperations
  PROVE  Guarded'
<1> USE DEF modal, shots, ghost
<1>1. (\A w \in Workers : dlg[w] = "none") /\ ~HasNull(pending)
  <2>1. CASE AcceptEdit
    <3>1. Showing("edit") \/ Showing("stale")
      BY <2>1 DEF AcceptEdit
    <3>2. "edit" # "result" /\ "stale" # "result"
      OBVIOUS
    <3> QED
      BY <3>1, <3>2, AskingIsCalm, CalmFacts
  <2>2. CASE onCheckFilesystem \/ onUndoOperation \/ onClearOperations
    BY <2>2, UsableIsCalm, CalmFacts DEF onCheckFilesystem, onUndoOperation, onClearOperations
  <2> QED
    BY <2>1, <2>2
<1>2. ~EditBreaks /\ \A i \in 1..Len(pending) : pending[i] # Null
  BY <1>1, CalmFacts, CalmIsSafe DEF HasNull
<1>3. pending \in Seq(Ops \cup {Null}) /\ made \in Nat /\ Null = 0
  BY DEF QTypeOK, Null
<1>4. enqueue => \A i \in 1..Len(pending') : pending'[i] # Null
  <2> SUFFICES ASSUME enqueue, NEW i \in 1..Len(pending') PROVE pending'[i] # Null
    OBVIOUS
  <2>1. pending' = Append(pending, made + 1) /\ made < MaxOps
    BY DEF enqueue
  <2>2. made + 1 # Null /\ made + 1 \in Ops \cup {Null}
    BY <1>3, <2>1, MaxOpsAssumption DEF Ops
  <2>3. /\ Len(pending') = Len(pending) + 1 /\ Len(pending) \in Nat
        /\ pending'[Len(pending) + 1] = made + 1
        /\ \A j \in 1..Len(pending) : pending'[j] = pending[j]
    BY <1>3, <2>1, <2>2, StackFacts
  <2> QED
    BY <1>2, <2>2, <2>3
<1>5. removeLast => ~undefined' /\ \A i \in 1..Len(pending') : pending'[i] # Null
  <2> SUFFICES ASSUME removeLast PROVE ~undefined' /\ \A i \in 1..Len(pending') : pending'[i] # Null
    OBVIOUS
  <2>1. pending # <<>>
    BY DEF removeLast
  <2>2. Back(pending) # Null
    BY <1>2, <1>3, <2>1, StackFacts DEF Back
  <2>3. pending' = PopBack(pending) /\ ~undefined'
    BY <2>2 DEF removeLast
  <2> QED
    BY <1>2, <1>3, <2>1, <2>3, PopBackFacts
<1>6. clearPending => ~undefined' /\ \A i \in 1..Len(pending') : pending'[i] # Null
  <2> SUFFICES ASSUME clearPending PROVE ~undefined' /\ \A i \in 1..Len(pending') : pending'[i] # Null
    OBVIOUS
  <2>1. /\ pending' = KeepSlots(pending, {i \in 1..Len(pending) : state[pending[i]] # "Pending"})
        /\ ~undefined'
    BY <1>1 DEF clearPending
  <2>2. \A i \in 1..Len(pending) : state[pending[i]] = "Pending"
    BY <1>2, <1>3 DEF QInv, OneOwnerEach, Queued
  <2>3. pending' = <<>>
    <3>1. {i \in 1..Len(pending) : state[pending[i]] # "Pending"} = {}
      BY <2>2
    <3> QED
      BY <2>1, <3>1, KeepNone
  <2>4. \A i \in 1..Len(pending') : FALSE
    BY <2>3
  <2> QED
    BY <2>1, <2>4
<1>7. CASE AcceptEdit
  <2>1. enqueue /\ boxes' = PopBack(boxes) /\ dangling' = (dangling \/ Top = StaleBox)
        /\ UNCHANGED <<dlg, events, shots, confirmed>>
    BY <1>2, <1>7 DEF AcceptEdit, Queue
  <2>2. boxes # <<>> /\ Len(boxes) = 1 /\ Top = boxes[1] /\ PopBack(boxes) = <<>>
    <3>1. Showing("edit") \/ Showing("stale")
      BY <1>7 DEF AcceptEdit
    <3>2. "edit" # "result" /\ "stale" # "result"
      OBVIOUS
    <3> QED
      BY <3>1, <3>2, AskingIsCalm
  <2>3. refreshes = 0 => ~dangling'
    <3>1. 1 \in 1..Len(boxes)
      BY <2>2
    <3> QED
      BY <2>1, <2>2, <3>1 DEF Guarded, NoRefresh
  <2>4. UNCHANGED <<pc, cur, state>> /\ ~undefined'
    BY <2>1 DEF enqueue, locals
  <2> QED
    BY <1>1, <1>4, <2>1, <2>2, <2>3, <2>4, EditedGuarded
<1>8. CASE onCheckFilesystem
  <2>1. enqueue /\ boxes' = <<>> /\ UNCHANGED <<dlg, events, shots, ghost>>
    BY <1>2, <1>8 DEF onCheckFilesystem, Queue, MainWindowUsable
  <2>2. UNCHANGED <<pc, cur, state>> /\ ~undefined'
    BY <2>1 DEF enqueue, locals
  <2>3. refreshes = 0 => ~dangling'
    BY <2>1 DEF Guarded, NoRefresh
  <2> QED
    BY <1>1, <1>4, <2>1, <2>2, <2>3, EditedGuarded
<1>9. CASE onUndoOperation \/ onClearOperations
  <2>1. removeLast \/ clearPending
    BY <1>2, <1>9 DEF onUndoOperation, onClearOperations
  <2>2. UNCHANGED <<modal, shots, ghost>> /\ boxes = <<>>
    BY <1>2, <1>9 DEF onUndoOperation, onClearOperations, MainWindowUsable
  <2>3. UNCHANGED <<pc, cur, state>>
    BY <2>1 DEF removeLast, clearPending, Undefined, locals, queue
  <2>4. refreshes = 0 => ~dangling'
    BY <2>2 DEF Guarded, NoRefresh
  <2> QED
    BY <1>1, <1>5, <1>6, <2>1, <2>2, <2>3, <2>4, EditedGuarded
<1> QED
  BY <1>7, <1>8, <1>9

(* Boxes that ask are put up and rejected, results are dismissed.          *)
LEMMA AskingGuarded ==
  ASSUME QTypeOK, TabTypeOK, EventsInv, Guarded,
         \/ OpenEditBox \/ RejectEdit \/ onApplyOperations \/ ApplyNo
         \/ DismissResult \/ DismissResultNoSnapshot
  PROVE  Guarded'
<1> USE DEF modal, shots, ghost
<1>0. boxes \in Seq(Boxes) /\ Len(boxes) \in Nat
  BY DEF TabTypeOK
<1>1. CASE OpenEditBox
  <2>1. boxes' = <<EditBox>> /\ UNCHANGED <<qvars, dlg, events, shots, ghost>> /\ MainWindowUsable
    BY <1>1 DEF OpenEditBox
  <2>2. \A w \in Workers : dlg'[w] = "none"
    BY <2>1, UsableIsCalm
  <2>3. Len(boxes') = 1 /\ boxes'[1] = EditBox
    BY <2>1
  <2>4. AsksAlone'
    BY <2>2, <2>3, BoxKinds DEF AsksAlone
  <2>5. NoRefresh'
    BY <2>1, <2>3, BoxKinds DEF Guarded, NoRefresh
  <2> QED
    BY <2>1, <2>4, <2>5, BoxesGuarded
<1>2. CASE onApplyOperations
  <2>0. ~ReadRaces
    BY <1>2, UsableIsCalm, CalmFacts, CalmIsSafe DEF onApplyOperations
  <2>1. boxes' = <<ConfirmBox(Listed)>> /\ UNCHANGED <<qvars, dlg, events, shots, ghost>> /\ MainWindowUsable
    BY <1>2, <2>0 DEF onApplyOperations
  <2>2. \A w \in Workers : dlg'[w] = "none"
    BY <2>1, UsableIsCalm
  <2>3. Len(boxes') = 1 /\ boxes'[1] = ConfirmBox(Listed)
    BY <2>1
  <2>4. Listed \in SUBSET Ops /\ Listed' = Listed
    BY <2>1, ListedType DEF Listed, qvars, queue
  <2>5. AsksAlone'
    BY <2>2, <2>3, <2>4, BoxKinds DEF AsksAlone
  <2>6. NoRefresh'
    BY <2>1, <2>3, <2>4, BoxKinds DEF Guarded, NoRefresh
  <2> QED
    BY <2>1, <2>5, <2>6, BoxesGuarded
<1>3. CASE RejectEdit \/ ApplyNo
  <2>1. boxes' = PopBack(boxes) /\ UNCHANGED <<qvars, dlg, events, shots, ghost>>
    BY <1>3 DEF RejectEdit, ApplyNo
  <2>2. Showing("edit") \/ Showing("stale") \/ Showing("confirm")
    BY <1>3 DEF RejectEdit, ApplyNo
  <2>3. "edit" # "result" /\ "stale" # "result" /\ "confirm" # "result"
    OBVIOUS
  <2>4. boxes' = <<>>
    BY <2>1, <2>2, <2>3, AskingIsCalm
  <2>5. AsksAlone'
    BY <2>4 DEF AsksAlone
  <2>6. NoRefresh'
    BY <2>1, <2>4 DEF Guarded, NoRefresh
  <2> QED
    BY <2>1, <2>5, <2>6, BoxesGuarded
<1>4. ASSUME Showing("result"), UNCHANGED <<qvars, dlg, events, refr, refreshes, ghost>>,
             Len(boxes') = Len(boxes) - 1,
             \A i \in 1..Len(boxes') : boxes'[i] = boxes[i] \/ (boxes'[i] = StaleBox /\ boxes[i] = EditBox)
      PROVE  Guarded'
  <2>1. boxes # <<>> /\ Len(boxes) \in 1..Len(boxes) /\ boxes[Len(boxes)].kind = "result"
    BY <1>0, <1>4, StackFacts DEF Showing, Top, Back
  <2>2. \A i \in 1..Len(boxes) : boxes[i].kind = "result"
    <3> SUFFICES ASSUME NEW i \in 1..Len(boxes), boxes[i].kind # "result" PROVE FALSE
      OBVIOUS
    <3>1. Len(boxes) = 1
      BY DEF Guarded, AsksAlone
    <3> QED
      BY <2>1, <3>1
  <2>3. \A i \in 1..Len(boxes') : i \in 1..Len(boxes)
    BY <1>0, <1>4
  <2>4. \A i \in 1..Len(boxes') : boxes'[i] = boxes[i] /\ boxes[i].kind = "result"
    BY <1>4, <2>2, <2>3, BoxKinds
  <2>5. AsksAlone'
    BY <2>4 DEF AsksAlone
  <2>6. NoRefresh'
    BY <1>4, <2>3, <2>4 DEF Guarded, NoRefresh
  <2> QED
    BY <1>4, <2>5, <2>6, BoxesGuarded
<1>5. boxes # <<>> => /\ PopBack(boxes) \in Seq(Boxes) /\ Len(PopBack(boxes)) = Len(boxes) - 1
                      /\ \A i \in 1..Len(PopBack(boxes)) : PopBack(boxes)[i] = boxes[i]
  BY <1>0, PopBackFacts
<1>6. CASE DismissResultNoSnapshot
  <2>1. /\ Showing("result") /\ boxes # <<>> /\ boxes' = PopBack(boxes)
        /\ UNCHANGED <<qvars, dlg, events, refr, refreshes, ghost>>
    BY <1>6 DEF DismissResultNoSnapshot, Showing
  <2>2. /\ Len(boxes') = Len(boxes) - 1
        /\ \A i \in 1..Len(boxes') : boxes'[i] = boxes[i]
    BY <1>5, <2>1
  <2> HIDE DEF ghost
  <2> QED
    BY <1>4, <2>1, <2>2
<1>7. CASE DismissResult
  <2>1. /\ Showing("result") /\ boxes # <<>> /\ refreshDisks(DiskVersion, PopBack(boxes))
        /\ UNCHANGED <<qvars, dlg, events, refr, refreshes, ghost>>
    BY <1>7 DEF DismissResult, Showing
  <2>2. PICK bs \in Seq(Boxes) : bs = PopBack(boxes)
    BY <1>5, <2>1
  <2>3. /\ Len(boxes') = Len(bs)
        /\ \A i \in 1..Len(bs) : boxes'[i] = IF bs[i] = EditBox THEN StaleBox ELSE bs[i]
    BY <2>1, <2>2, VersionType, RefreshFacts
  <2>4. Len(bs) = Len(boxes) - 1 /\ \A i \in 1..Len(bs) : bs[i] = boxes[i]
    BY <1>5, <2>1, <2>2
  <2>5. /\ Len(boxes') = Len(boxes) - 1
        /\ \A i \in 1..Len(boxes') : boxes'[i] = boxes[i] \/ (boxes'[i] = StaleBox /\ boxes[i] = EditBox)
    BY <2>3, <2>4
  <2> HIDE DEF ghost
  <2> QED
    BY <1>4, <2>1, <2>5
<1> QED
  BY <1>1, <1>2, <1>3, <1>6, <1>7

(* The user confirms: a run starts, with a dialog of its own.              *)
LEMMA ApplyGuarded ==
  ASSUME QTypeOK, TabTypeOK, EventsInv, Guarded, NEW w \in Workers, ApplyYes(w)
  PROVE  Guarded'
<1> USE DEF modal, shots, ghost
<1>1. /\ Showing("confirm") /\ boxes' = PopBack(boxes)
      /\ confirmed' = confirmed \cup Top.ops
      /\ dlg' = [dlg EXCEPT ![w] = "shown"]
      /\ pc[w] = "idle" /\ pc' = [pc EXCEPT ![w] = "enter"]
      /\ UNCHANGED <<pending, state, running, cur, undefined, events, shots, dangling>>
  BY DEF ApplyYes, StartThread, Goto, queue, flags, locals
<1>2. "confirm" # "result"
  OBVIOUS
<1>3. /\ boxes' = <<>> /\ Len(boxes) = 1 /\ Top = boxes[1] /\ Top.kind = "confirm"
      /\ \A v \in Workers : dlg[v] = "none"
  BY <1>1, <1>2, AskingIsCalm DEF Showing
<1>4. \A v \in Workers : pc[v] \in {"idle", "done"}
  BY <1>3, CalmFacts DEF Active
<1>5. /\ pc'[w] = "enter" /\ dlg'[w] = "shown"
      /\ \A v \in Workers : v # w => dlg'[v] = "none" /\ pc'[v] \in {"idle", "done"}
  BY <1>1, <1>3, <1>4 DEF QTypeOK, TabTypeOK
<1>6. OneDialog'
  BY <1>5 DEF OneDialog
<1>7. AsksAlone'
  BY <1>3 DEF AsksAlone
<1>8. DequeInv'
  <2>1. \A i \in 1..Len(pending) : pending[i] # Null
    BY <1>3, CalmFacts DEF HasNull
  <2> QED
    BY <1>1, <1>5, <2>1 DEF DequeInv
<1>9. AllConfirmed'
  <2>1. 1 \in 1..Len(boxes)
    BY <1>3
  <2>2. Listed \subseteq Top.ops
    BY <1>2, <1>3, <2>1 DEF Guarded, AsksAlone
  <2>3. Listed' \subseteq confirmed'
    BY <1>1, <2>2 DEF Listed
  <2> QED
    BY <1>1, <2>3 DEF Guarded, AllConfirmed, Executed
<1>10. NoRefresh'
  BY <1>1, <1>3 DEF Guarded, NoRefresh
<1>11. (\A v \in Workers : pc[v] \in {"head", "take", "pop", "start", "exec"} => running)'
  BY <1>5
<1> QED
  BY <1>1, <1>6, <1>7, <1>8, <1>9, <1>10, <1>11 DEF Guarded

(* Cancel and 100% hide a dialog; less than 100% shows the ones there are. *)
LEMMA DialogGuarded ==
  ASSUME TabTypeOK, EventsInv, Guarded, ~exposed', NEW w \in Workers,
         CancelButton(w) \/ ProgressPartial(w) \/ ProgressFull(w)
  PROVE  Guarded'
<1> USE DEF modal, shots, ghost
<1>1. ~CancelButton(w)
  BY DEF CancelButton, Expose, TabTypeOK
<1>2. ASSUME ProgressFull(w) PROVE FALSE
  <2>1. pc[w] = "exec"
    BY <1>2 DEF ProgressFull
  <2>2. dlg[w] # "none"
    BY <2>1 DEF EventsInv, Active
  <2>3. dlg'[w] = "hidden"
    BY <1>2, <2>2 DEF ProgressFull, ShowProgress
  <2> QED
    BY <1>2, <2>3 DEF ProgressFull, Expose
<1>3. CASE ProgressPartial(w)
  <2>1. UNCHANGED <<qvars, boxes, events, shots, ghost>>
    BY <1>3 DEF ProgressPartial
  <2>2. dlg' = [v \in Workers |-> IF dlg[v] = "none" THEN "none" ELSE "shown"]
    BY <1>3 DEF ProgressPartial, ShowProgress
  <2>3. \A v \in Workers : dlg[v] = "none" \/ dlg[v] = "shown"
    BY DEF TabTypeOK, Guarded, OneDialog
  <2>4. dlg' = dlg
    <3>1. \A v \in Workers : dlg'[v] = dlg[v]
      BY <2>2, <2>3
    <3>2. dlg \in [Workers -> {"none", "shown", "hidden"}]
      BY DEF TabTypeOK
    <3>3. dlg' \in [Workers -> {"none", "shown", "hidden"}]
      BY <2>2
    <3> QED
      BY <3>1, <3>2, <3>3
  <2>5. AsksAlone'
    BY <2>1, <2>4 DEF Guarded, AsksAlone, Listed, qvars, queue
  <2>6. NoRefresh'
    BY <2>1 DEF Guarded, NoRefresh
  <2> QED
    BY <2>1, <2>4, <2>5, <2>6, BoxesGuarded
<1> QED
  BY <1>1, <1>2, <1>3

(* The refresh of the disks: it replaces m_snapshot under open boxes, but  *)
(* only if one was asked for.                                              *)
LEMMA RefreshGuarded ==
  ASSUME TabTypeOK, Guarded,
         onSnapshotTaken \/ \E r \in Refreshers : onRefreshDisks(r) \/ Refresh(r)
  PROVE  Guarded'
<1> USE DEF modal, shots, ghost
<1>1. ASSUME NEW r \in Refreshers, onRefreshDisks(r) \/ Refresh(r) PROVE Guarded'
  <2>1. UNCHANGED <<qvars, dlg, boxes, ghost>>
    BY <1>1 DEF onRefreshDisks, Refresh, getSystemSnapshot, StoreSnapshot
  <2>2. refreshes' # 0
    <3>1. CASE onRefreshDisks(r)
      BY <3>1 DEF onRefreshDisks, TabTypeOK
    <3>2. CASE Refresh(r)
      BY <3>2 DEF Refresh, getSystemSnapshot, StoreSnapshot, Guarded, NoRefresh
    <3> QED
      BY <1>1, <3>1, <3>2
  <2>3. NoRefresh'
    BY <2>2 DEF NoRefresh
  <2>4. AsksAlone'
    BY <2>1 DEF Guarded, AsksAlone, Listed, qvars, queue
  <2> QED
    BY <2>1, <2>3, <2>4, BoxesGuarded
<1>2. CASE onSnapshotTaken
  <2>1. /\ UNCHANGED <<qvars, dlg, refreshes, ghost>> /\ refreshDisks(last, boxes)
        /\ events # <<>> /\ Head(events) = SnapshotTaken
    BY <1>2 DEF onSnapshotTaken, Deliver, Delivered
  <2>2. refreshes # 0
    <3>1. events[1] = SnapshotTaken /\ 1 \in 1..Len(events)
      BY <2>1, StackFacts DEF TabTypeOK
    <3> QED
      BY <3>1 DEF Guarded, NoRefresh
  <2>3. NoRefresh'
    BY <2>1, <2>2 DEF NoRefresh
  <2>4. /\ Len(boxes') = Len(boxes)
        /\ \A i \in 1..Len(boxes) : boxes'[i] = IF boxes[i] = EditBox THEN StaleBox ELSE boxes[i]
    BY <2>1, RefreshFacts DEF TabTypeOK
  <2>5. \A i \in 1..Len(boxes') :
          /\ i \in 1..Len(boxes)
          /\ boxes'[i].kind # "result" => boxes[i].kind # "result"
          /\ boxes'[i].kind = "confirm" => boxes'[i] = boxes[i]
    BY <2>4, BoxKinds
  <2>6. dlg' = dlg /\ Listed' = Listed
    BY <2>1 DEF Listed, qvars, queue
  <2>7. AsksAlone'
    BY <2>4, <2>5, <2>6 DEF Guarded, AsksAlone
  <2> QED
    BY <2>1, <2>3, <2>7, BoxesGuarded
<1> QED
  BY <1>1, <1>2

(* The signals of a run.                                                   *)
LEMMA SignalsGuarded ==
  ASSUME QTypeOK, TabTypeOK, EventsInv, Guarded,
         onAllOperationsFinished \/ \E w \in Workers : onThreadFinished(w) \/ DeleteThread(w)
  PROVE  Guarded'
<1> USE DEF modal, shots, ghost
<1>1. CASE onAllOperationsFinished
  <2>1. /\ UNCHANGED <<qvars, dlg, shots, ghost>> /\ boxes' = Append(boxes, ResultBox)
        /\ events # <<>> /\ Head(events) = AllFinished /\ events' = Tail(events)
    BY <1>1 DEF onAllOperationsFinished, Deliver, Delivered
  <2>2. /\ events[1] = AllFinished /\ 1 \in 1..Len(events)
        /\ Len(events') = Len(events) - 1 /\ Len(events) \in Nat
        /\ \A i \in 1..Len(events') : i + 1 \in 1..Len(events) /\ events'[i] = events[i + 1]
    BY <2>1, StackFacts DEF TabTypeOK
  <2>3. \A i \in 1..Len(boxes) : boxes[i].kind = "result"
    <3>1. PICK w \in Workers : 1 + 1 <= Len(events) /\ events[1 + 1] = ThreadFinished(w)
      BY <2>2 DEF EventsInv
    <3>2. dlg[w] # "none"
      BY <2>2, <3>1 DEF EventsInv
    <3> QED
      BY <3>2 DEF Guarded, AsksAlone
  <2>4. /\ Len(boxes') = Len(boxes) + 1 /\ Len(boxes) \in Nat
        /\ boxes'[Len(boxes) + 1] = ResultBox
        /\ \A i \in 1..Len(boxes) : boxes'[i] = boxes[i]
    BY <2>1, StackFacts, BoxKinds DEF TabTypeOK
  <2>5. \A i \in 1..Len(boxes') : boxes'[i] = ResultBox \/ (i \in 1..Len(boxes) /\ boxes'[i] = boxes[i])
    BY <2>4
  <2>6. \A i \in 1..Len(boxes') : boxes'[i].kind = "result"
    BY <2>3, <2>5, BoxKinds
  <2>7. AsksAlone'
    BY <2>6 DEF AsksAlone
  <2>8. NoRefresh'
    <3>1. \A i \in 1..Len(boxes') : boxes'[i] # StaleBox
      BY <2>6, BoxKinds
    <3>2. refreshes' = 0 => \A i \in 1..Len(events') : events'[i] # SnapshotTaken
      BY <2>1, <2>2 DEF Guarded, NoRefresh
    <3> QED
      BY <2>1, <3>1, <3>2 DEF Guarded, NoRefresh, SnapshotTaken
  <2> QED
    BY <2>1, <2>7, <2>8, BoxesGuarded
<1>2. ASSUME NEW w \in Workers, onThreadFinished(w) PROVE Guarded'
  <2>1. events # <<>> /\ Head(events) = ThreadFinished(w)
    BY <1>2 DEF onThreadFinished, Delivered
  <2>2. /\ events[1] = ThreadFinished(w) /\ 1 \in 1..Len(events)
        /\ Len(Tail(events)) = Len(events) - 1 /\ Len(events) \in Nat
        /\ \A i \in 1..Len(Tail(events)) : i + 1 \in 1..Len(events) /\ Tail(events)[i] = events[i + 1]
    BY <2>1, StackFacts DEF TabTypeOK
  <2>3. pc[w] = "done" /\ dlg[w] = "shown"
    BY <2>2 DEF EventsInv, TabTypeOK, Guarded, OneDialog
  <2>4. \A v \in Workers : ~Active(v)
    <3> SUFFICES ASSUME NEW v \in Workers, Active(v) PROVE FALSE
      OBVIOUS
    <3>1. dlg[v] = "shown"
      BY DEF EventsInv, TabTypeOK, Guarded, OneDialog
    <3>2. v = w
      BY <2>3, <3>1 DEF Guarded, OneDialog
    <3> QED
      BY <2>3, <3>2 DEF Active
  <2>5. ~HasNull(pending)
    BY <2>4 DEF HasNull, Guarded, DequeInv, Active
  <2>6. /\ requestCancel /\ events' = Tail(events) /\ dlg' = [dlg EXCEPT ![w] = "none"]
        /\ UNCHANGED <<boxes, shots, ghost>>
    BY <1>2, <2>4, <2>5, CalmIsSafe DEF onThreadFinished
  <2>7. UNCHANGED <<pending, state, running, pc, cur, undefined>>
    BY <2>6 DEF requestCancel, queue, locals
  <2>8. \A v \in Workers : dlg'[v] = "none" \/ (v # w /\ dlg'[v] = dlg[v])
    BY <2>6 DEF TabTypeOK
  <2>9. OneDialog'
    BY <2>8 DEF Guarded, OneDialog
  <2>10. AsksAlone'
    <3>1. \A i \in 1..Len(boxes) : boxes[i].kind = "result"
      BY <2>3 DEF Guarded, AsksAlone
    <3> QED
      BY <2>6, <3>1 DEF AsksAlone
  <2>11. DequeInv'
    BY <2>7 DEF Guarded, DequeInv
  <2>12. AllConfirmed'
    BY <2>6, <2>7 DEF Guarded, AllConfirmed, Active, Listed, Executed
  <2>13. NoRefresh'
    <3>1. refreshes' = 0 => \A i \in 1..Len(events') : events'[i] # SnapshotTaken
      BY <2>2, <2>6 DEF Guarded, NoRefresh
    <3> QED
      BY <2>6, <3>1 DEF Guarded, NoRefresh, SnapshotTaken
  <2> QED
    BY <2>7, <2>9, <2>10, <2>11, <2>12, <2>13 DEF Guarded
<1>3. ASSUME NEW w \in Workers, DeleteThread(w) PROVE Guarded'
  <2>1. /\ UNCHANGED <<pending, state, running, cur, undefined, dlg, boxes, events, shots, ghost>>
        /\ pc[w] = "done" /\ pc' = [pc EXCEPT ![w] = "idle"]
    BY <1>3 DEF DeleteThread, ThreadEnds, Goto, queue, flags, locals
  <2>2. pc'[w] = "idle" /\ \A v \in Workers : v # w => pc'[v] = pc[v]
    BY <2>1 DEF QTypeOK
  <2>3. OneDialog' /\ AsksAlone'
    BY <2>1 DEF Guarded, OneDialog, AsksAlone, Listed
  <2>4. DequeInv'
    BY <2>1, <2>2 DEF Guarded, DequeInv
  <2>5. AllConfirmed'
    BY <2>1, <2>2 DEF Guarded, AllConfirmed, Active, Listed, Executed
  <2>6. NoRefresh'
    BY <2>1 DEF Guarded, NoRefresh
  <2>7. (\A v \in Workers : pc[v] \in {"head", "take", "pop", "start", "exec"} => running)'
    BY <2>1, <2>2 DEF Guarded
  <2> QED
    BY <2>1, <2>3, <2>4, <2>5, <2>6, <2>7 DEF Guarded
<1> QED
  BY <1>1, <1>2, <1>3

(* A run: alone with the deque, it finds there what it left there.         *)
LEMMA RunGuarded ==
  ASSUME QInv, QTypeOK, TabTypeOK, EventsInv, Guarded, NEW w \in Workers, Run(w)
  PROVE  Guarded'
<1> USE DEF modal, shots, ghost
<1>1. /\ Active(w) /\ pc'[w] # "idle"
      /\ \A v \in Workers : v # w => pc'[v] = pc[v]
      /\ Worker(w) /\ UNCHANGED <<dlg, boxes, shots, ghost>>
  BY WorkerMoves DEF Run
<1>2. dlg[w] = "shown"
  BY <1>1 DEF EventsInv, TabTypeOK, Guarded, OneDialog
<1>3. \A v \in Workers : v # w => pc[v] \in {"idle", "done"} /\ pc'[v] \in {"idle", "done"}
  <2> SUFFICES ASSUME NEW v \in Workers, v # w PROVE pc[v] \in {"idle", "done"}
    BY <1>1
  <2>1. Active(v) => dlg[v] = "shown"
    BY DEF EventsInv, TabTypeOK, Guarded, OneDialog
  <2> QED
    BY <1>2, <2>1 DEF Guarded, OneDialog, Active
<1>4. OneDialog'
  BY <1>1 DEF Guarded, OneDialog
<1>5. AsksAlone'
  <2>1. \A i \in 1..Len(boxes) : boxes[i].kind = "result"
    BY <1>2 DEF Guarded, AsksAlone
  <2> QED
    BY <1>1, <2>1 DEF AsksAlone
<1>6. NoRefresh'
  <2> SUFFICES ASSUME refreshes = 0, NEW i \in 1..Len(events'), events'[i] = SnapshotTaken PROVE FALSE
    BY <1>1 DEF Guarded, NoRefresh, SnapshotTaken
  <2>1. \A j \in 1..Len(events) : events[j] # SnapshotTaken
    BY DEF Guarded, NoRefresh
  <2>2. events' = events \o <<AllFinished, ThreadFinished(w)>>
    BY <2>1 DEF Run
  <2>a. AllFinished \in Events /\ ThreadFinished(w) \in Events
    BY Signals
  <2>b. <<AllFinished, ThreadFinished(w)>> \in Seq(Events)
    BY <2>a
  <2>3. PICK s \in Seq(Events) : s = <<AllFinished, ThreadFinished(w)>>
    BY <2>b
  <2>4. Len(s) = 2 /\ s[1] # SnapshotTaken /\ s[2] # SnapshotTaken
    BY <2>3, Signals
  <2>5. events \in Seq(Events) /\ events' = events \o s
    BY <2>2, <2>3 DEF TabTypeOK
  <2>c. /\ Len(events) \in Nat /\ Len(events') = Len(events) + 2
        /\ \A j \in 1..Len(events) : events'[j] = events[j]
        /\ events'[Len(events) + 1] = s[1] /\ events'[Len(events) + 2] = s[2]
    <3>a. s \in Seq(Events)
      OBVIOUS
    <3>b. /\ Len(events \o s) = Len(events) + Len(s)
          /\ \A j \in 1..Len(events) + Len(s) : (events \o s)[j] =
               IF j <= Len(events) THEN events[j] ELSE s[j - Len(events)]
      BY <2>5, <3>a, ConcatProperties, Zenon
    <3>1. /\ Len(events') = Len(events) + 2
          /\ \A j \in 1..Len(events) + 2 : events'[j] =
               IF j <= Len(events) THEN events[j] ELSE s[j - Len(events)]
      BY <2>4, <2>5, <3>b, Zenon
    <3>2. Len(events) \in Nat
      BY <2>5
    <3>3. /\ Len(events) + 1 \in 1..Len(events) + 2 /\ Len(events) + 1 - Len(events) = 1
          /\ Len(events) + 2 \in 1..Len(events) + 2 /\ Len(events) + 2 - Len(events) = 2
          /\ ~(Len(events) + 1 <= Len(events)) /\ ~(Len(events) + 2 <= Len(events))
          /\ \A j \in 1..Len(events) : j \in 1..Len(events) + 2 /\ j <= Len(events)
      BY <3>2
    <3> QED
      BY <3>1, <3>2, <3>3
  <2>d. i \in 1..Len(events) \/ i = Len(events) + 1 \/ i = Len(events) + 2
    BY <2>c
  <2>6. (i \in 1..Len(events) /\ events'[i] = events[i]) \/ events'[i] = s[1] \/ events'[i] = s[2]
    BY <2>c, <2>d
  <2> QED
    BY <2>1, <2>4, <2>6
<1>7. /\ \A i \in 1..Len(pending) : pending[i] = Null => i = 1 /\ pc[w] = "pop"
      /\ Listed \subseteq confirmed
      /\ pc[w] \in {"take", "pop"} => pending # <<>>
      /\ pc[w] \in {"pop", "start"} => cur[w] # Null
      /\ pc[w] \in {"head", "take", "pop", "start", "exec"} => running
      /\ cur[w] # Null => cur[w] \in confirmed
      /\ \A v \in Workers : cur[v] # Null => cur[v] \in confirmed
      /\ \A o \in Ops : state[o] # "Pending" => o \in confirmed
      /\ ~undefined
  <2>1. \A i \in 1..Len(pending) : pending[i] = Null => i = 1 /\ pc[w] = "pop"
    BY <1>3 DEF Guarded, DequeInv
  <2> QED
    BY <1>1, <2>1 DEF Guarded, DequeInv, AllConfirmed, Executed
<1>8. ASSUME /\ ~undefined'
             /\ pc'[w] \in {"take", "pop"} => pending' # <<>>
             /\ pc'[w] \in {"pop", "start"} => cur'[w] # Null
             /\ \A i \in 1..Len(pending') : pending'[i] = Null => i = 1 /\ pc'[w] = "pop"
             /\ pc'[w] \in {"head", "take", "pop", "start", "exec"} => running',
             Listed' \subseteq confirmed,
             \A v \in Workers : cur'[v] # Null => cur'[v] \in confirmed,
             \A o \in Ops : state'[o] # "Pending" => o \in confirmed
      PROVE  Guarded'
  <2>1. DequeInv'
    BY <1>3, <1>8 DEF DequeInv
  <2>2. AllConfirmed'
    BY <1>1, <1>8 DEF AllConfirmed, Executed
  <2>3. (\A v \in Workers : pc[v] \in {"head", "take", "pop", "start", "exec"} => running)'
    BY <1>3, <1>8
  <2> QED
    BY <1>4, <1>5, <1>6, <1>8, <2>1, <2>2, <2>3 DEF Guarded
<1>9. CASE ApplyNothing(w) \/ ApplyBegin(w) \/ LoopDone(w) \/ LoopCanceled(w) \/ LoopNext(w) \/ FinishRun(w)
  <2>1. UNCHANGED <<pending, state, cur, undefined>>
    BY <1>9 DEF ApplyNothing, ApplyBegin, LoopDone, LoopCanceled, LoopNext, FinishRun, queue, locals
  <2>2. /\ pc[w] \in {"enter", "head", "finish"}
        /\ pc'[w] \in {"head", "take", "finish", "done"}
        /\ pc'[w] = "take" => pending # <<>>
        /\ pc'[w] \in {"head", "take"} => running'
    BY <1>7, <1>9 DEF ApplyNothing, ApplyBegin, LoopDone, LoopCanceled, LoopNext, FinishRun, Goto,
       QTypeOK, flags
  <2>3. Listed' = Listed
    BY <2>1 DEF Listed
  <2> QED
    BY <1>7, <1>8, <2>1, <2>2, <2>3
<1>10. CASE TakeFront(w)
  <2>1. pc[w] = "take" /\ pending # <<>> /\ pending \in Seq(Ops \cup {Null}) /\ running
    BY <1>7, <1>10 DEF TakeFront, QTypeOK
  <2>2. /\ pc' = [pc EXCEPT ![w] = "pop"] /\ cur' = [cur EXCEPT ![w] = Head(pending)]
        /\ pending' = [pending EXCEPT ![1] = Null]
        /\ UNCHANGED <<state, running, undefined>>
    BY <1>10, <2>1 DEF TakeFront, Goto, flags
  <2>3. Len(pending) \in Nat /\ 1 \in 1..Len(pending) /\ Head(pending) = pending[1]
    BY <2>1, StackFacts
  <2>4. Len(pending') = Len(pending) /\ pending'[1] = Null /\ \A i \in 1..Len(pending) : i # 1 => pending'[i] = pending[i]
    BY <2>1, <2>2, <2>3
  <2>5. pc'[w] = "pop" /\ cur'[w] = pending[1] /\ \A v \in Workers : v # w => cur'[v] = cur[v]
    BY <2>2, <2>3 DEF QTypeOK
  <2>6. pending[1] # Null
    BY <1>7, <2>1, <2>3
  <2>7. pending[1] \in Listed
    BY <2>3, <2>6 DEF Listed
  <2>8. Listed' \subseteq Listed
    BY <2>4 DEF Listed
  <2>9. \A i \in 1..Len(pending') : pending'[i] = Null => i = 1
    BY <1>7, <2>1, <2>4
  <2>10. pending' # <<>>
    BY <2>3, <2>4
  <2> QED
    BY <1>7, <1>8, <2>1, <2>2, <2>5, <2>6, <2>7, <2>8, <2>9, <2>10
<1>11. CASE PopFront(w)
  <2>1. pc[w] = "pop" /\ pending # <<>> /\ pending \in Seq(Ops \cup {Null}) /\ running /\ cur[w] # Null
    BY <1>7, <1>11 DEF PopFront, QTypeOK
  <2>2. /\ pc' = [pc EXCEPT ![w] = "start"] /\ pending' = Tail(pending)
        /\ UNCHANGED <<state, running, cur, undefined>>
    BY <1>11, <2>1 DEF PopFront, Goto, flags, locals
  <2>3. /\ Len(pending) \in Nat /\ Len(pending') = Len(pending) - 1
        /\ \A i \in 1..Len(pending') : i + 1 \in 1..Len(pending) /\ pending'[i] = pending[i + 1]
    BY <2>1, <2>2, StackFacts
  <2>4. pc'[w] = "start"
    BY <2>2 DEF QTypeOK
  <2>5. Listed' \subseteq Listed
    BY <2>3 DEF Listed
  <2>6. \A i \in 1..Len(pending') : pending'[i] # Null
    <3> SUFFICES ASSUME NEW i \in 1..Len(pending'), pending'[i] = Null PROVE FALSE
      OBVIOUS
    <3>1. i + 1 = 1
      BY <1>7, <2>3
    <3> QED
      BY <2>3, <3>1
  <2> QED
    BY <1>7, <1>8, <2>1, <2>2, <2>4, <2>5, <2>6
<1>12. CASE StartOp(w)
  <2>1. pc[w] = "start" /\ cur[w] # Null /\ running /\ cur[w] \in Ops /\ cur[w] \in confirmed
    BY <1>7, <1>12 DEF StartOp, QTypeOK
  <2>2. /\ pc' = [pc EXCEPT ![w] = "exec"] /\ state' = [state EXCEPT ![cur[w]] = "Running"]
        /\ UNCHANGED <<pending, running, cur, undefined>>
    BY <1>12, <2>1 DEF StartOp, Goto, flags, locals
  <2>3. pc'[w] = "exec" /\ \A o \in Ops : o # cur[w] => state'[o] = state[o]
    BY <2>1, <2>2 DEF QTypeOK
  <2>4. Listed' = Listed
    BY <2>2 DEF Listed
  <2>5. \A i \in 1..Len(pending') : pending'[i] # Null
    BY <1>7, <2>1, <2>2
  <2> QED
    BY <1>7, <1>8, <2>1, <2>2, <2>3, <2>4, <2>5
<1>13. CASE CompleteOp(w) \/ FailOp(w)
  <2>1. pc[w] = "exec" /\ running
    BY <1>7, <1>13 DEF CompleteOp, FailOp, Goto
  <2>2. cur[w] # Null /\ cur[w] \in Ops /\ cur[w] \in confirmed
    <3>1. cur[w] # Null
      BY <2>1 DEF QInv, HeldIsLive
    <3> QED
      BY <1>7, <3>1 DEF QTypeOK
  <2>3. /\ \E to \in {"head", "finish"} : pc' = [pc EXCEPT ![w] = to]
        /\ \E st \in OpState : state' = [state EXCEPT ![cur[w]] = st]
        /\ cur' = [cur EXCEPT ![w] = Null]
        /\ UNCHANGED <<pending, running, undefined>>
    BY <1>13 DEF CompleteOp, FailOp, Goto, flags, OpState
  <2>4. pc'[w] \in {"head", "finish"} /\ \A o \in Ops : o # cur[w] => state'[o] = state[o]
    BY <2>2, <2>3 DEF QTypeOK
  <2>5. cur'[w] = Null /\ \A v \in Workers : v # w => cur'[v] = cur[v]
    BY <2>3 DEF QTypeOK
  <2>6. Listed' = Listed
    BY <2>3 DEF Listed
  <2>7. \A i \in 1..Len(pending') : pending'[i] # Null
    BY <1>7, <2>1, <2>3
  <2> QED
    BY <1>7, <1>8, <2>1, <2>2, <2>3, <2>4, <2>5, <2>6, <2>7
<1> QED
  BY <1>1, <1>9, <1>10, <1>11, <1>12, <1>13 DEF Worker

(* The inductive step, for every handler of the tab.                       *)
LEMMA TabInvStep == QInv /\ TabInv /\ [TabNext]_vars => TabInv'
<1> SUFFICES ASSUME QInv, TabInv, [TabNext]_vars PROVE TabInv'
  OBVIOUS
<1>1. QTypeOK /\ TabTypeOK /\ EventsInv /\ ButtonsInv /\ (~exposed => Guarded)
  BY DEF QInv, TabInv
<1>2. TabTypeOK' /\ EventsInv' /\ ButtonsInv'
  BY <1>1, TabTypeStep, EventsStep, ButtonsStep
<1>3. ASSUME ~exposed' PROVE Guarded'
  <2>1. Guarded
    BY <1>1, <1>3, ExposedStays
  <2>2. CASE UNCHANGED vars
    <3>1. UNCHANGED <<qvars, dlg, boxes, events, confirmed, dangling, refr, refreshes>>
      BY <2>2 DEF vars, modal, shots, ghost
    <3>2. AsksAlone' /\ NoRefresh'
      BY <2>1, <3>1 DEF Guarded, AsksAlone, NoRefresh, Listed, qvars, queue
    <3> QED
      BY <2>1, <3>1, <3>2, BoxesGuarded
  <2>3. CASE AcceptEdit \/ onCheckFilesystem \/ onUndoOperation \/ onClearOperations
    BY <1>1, <2>1, <2>3, EditsGuarded
  <2>4. CASE \/ OpenEditBox \/ RejectEdit \/ onApplyOperations \/ ApplyNo
             \/ DismissResult \/ DismissResultNoSnapshot
    BY <1>1, <2>1, <2>4, AskingGuarded
  <2>5. CASE \E w \in Workers : ApplyYes(w)
    BY <1>1, <2>1, <2>5, ApplyGuarded
  <2>6. CASE \E w \in Workers : CancelButton(w) \/ ProgressPartial(w) \/ ProgressFull(w)
    BY <1>1, <1>3, <2>1, <2>6, DialogGuarded
  <2>7. CASE onSnapshotTaken \/ \E r \in Refreshers : onRefreshDisks(r) \/ Refresh(r)
    BY <1>1, <2>1, <2>7, RefreshGuarded
  <2>8. CASE onAllOperationsFinished \/ \E w \in Workers : onThreadFinished(w) \/ DeleteThread(w)
    BY <1>1, <2>1, <2>8, SignalsGuarded
  <2>9. CASE \E w \in Workers : Run(w)
    BY <1>1, <2>1, <2>9, RunGuarded
  <2>10. ~WorkersRace
    <3> SUFFICES ASSUME NEW v \in Workers, NEW w \in Workers, Active(v), Active(w) PROVE v = w
      BY DEF WorkersRace, ChangesDeque, ReadsDeque, AddsToHistory, Active
    <3>1. dlg[v] = "shown" /\ dlg[w] = "shown"
      BY <1>1, <2>1 DEF EventsInv, TabTypeOK, Guarded, OneDialog
    <3> QED
      BY <2>1, <3>1 DEF Guarded, OneDialog
  <2> QED
    BY <2>2, <2>3, <2>4, <2>5, <2>6, <2>7, <2>8, <2>9, <2>10 DEF TabNext, User, EventLoop, Progress
<1> QED
  BY <1>2, <1>3 DEF TabInv

(* The inductive invariant holds of a freshly built tab.                   *)
LEMMA TabInitInv == TabInit => TabInv
<1> SUFFICES ASSUME TabInit PROVE TabInv
  OBVIOUS
<1>0. /\ events = <<>> /\ boxes = <<>> /\ pending = <<>> /\ ~undefined /\ ~buttons
      /\ \A w \in Workers : pc[w] = "idle" /\ dlg[w] = "none" /\ cur[w] = Null
      /\ \A o \in Ops : state[o] = "Pending"
      /\ \A r \in Refreshers : refr[r] = "idle"
      /\ ~dangling
  BY DEF TabInit, QInit
<1>1. TabTypeOK
  BY TabInitType
<1>2. EventsInv
  BY <1>0 DEF EventsInv, Active
<1>3. ButtonsInv
  BY <1>0 DEF ButtonsInv
<1>4. OneDialog /\ AsksAlone /\ DequeInv
  BY <1>0 DEF OneDialog, AsksAlone, DequeInv
<1>5. AllConfirmed
  BY <1>0 DEF AllConfirmed, Active, Executed
<1>6. NoRefresh
  BY <1>0 DEF NoRefresh
<1> QED
  BY <1>0, <1>1, <1>2, <1>3, <1>4, <1>5, <1>6 DEF TabInv, Guarded

-----------------------------------------------------------------------------
(* Both the queue's and the tab's inductive invariants hold throughout.    *)
THEOREM TabInvariant == TabSpec => [](QInv /\ TabInv)
<1>1. TabInit => QInv /\ TabInv
  BY TabInitQueue, QInitInv, TabInitInv
<1>2. QInv /\ TabInv /\ [TabNext]_vars => QInv' /\ TabInv'
  BY TabStepQueue, QNextInv, TabInvStep
<1> QED
  BY <1>1, <1>2, PTL DEF TabSpec

(* Types of the tab's members, dialogs, boxes and posted signals.          *)
THEOREM TabTypeCorrect == TabSpec => []TabTypeOK
  BY TabInvariant, PTL DEF TabInv

(* The modal progress dialog protects the queue until it is hidden: no     *)
(* undefined use of the deque, one run at a time, nothing executed that    *)
(* was not confirmed, no pointer into a replaced snapshot.                 *)
THEOREM ModalDialogGuards == TabSpec => []ModalGuard
<1>1. TabInv => ModalGuard
  <2> SUFFICES ASSUME TabInv, ~exposed
               PROVE  /\ ~undefined
                      /\ \A v, w \in Workers : Active(v) /\ Active(w) => v = w
                      /\ \A w \in Workers : pc[w] \in {"head", "take", "pop", "start", "exec"} => running
                      /\ Executed \subseteq confirmed
                      /\ refreshes = 0 => ~dangling
    BY DEF ModalGuard
  <2>1. Guarded /\ EventsInv /\ TabTypeOK
    BY DEF TabInv
  <2>2. \A v, w \in Workers : Active(v) /\ Active(w) => v = w
    <3>1. \A v \in Workers : Active(v) => dlg[v] = "shown"
      BY <2>1 DEF EventsInv, TabTypeOK, Guarded, OneDialog
    <3> QED
      BY <2>1, <3>1 DEF Guarded, OneDialog
  <2> QED
    BY <2>1, <2>2 DEF Guarded, AllConfirmed, NoRefresh
<1> QED
  BY <1>1, TabInvariant, PTL

(* Apply, Undo and Clear are enabled at rest exactly when something is     *)
(* queued.                                                                 *)
THEOREM ButtonsRight == TabSpec => []ButtonsTellTruth
<1>1. TabInv => ButtonsTellTruth
  BY DEF TabInv, ButtonsInv, ButtonsTellTruth, AtRest, Quiet, Active
<1> QED
  BY <1>1, TabInvariant, PTL
=============================================================================
