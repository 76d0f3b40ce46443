--------------------------- MODULE TaskQueueProofs ---------------------------
(***************************************************************************)
(* Theorems about TaskQueue, for every number of threads, thunks and       *)
(* deques and every width of the indices.                                  *)
(*                                                                         *)
(* The invariants are proved in layers, each one using those before it:    *)
(* types and the meaning of in_push_, the handshake of push and            *)
(* stop_and_eject, the ownership of thunks, the settled thunks.            *)
(***************************************************************************)
EXTENDS TaskQueue, FiniteSetTheorems, TLAPS

-----------------------------------------------------------------------------
(* Layer 1: types, and in_push_ counts the pushes in progress.             *)

\* The threads between the two updates of in_push_.
Pushers == {th \in Threads : pc[th] \in InPush}

\* A push in progress carries its thunk, and nothing else does.
ThunkInv ==
  \A th \in Threads : IF pc[th] \in InPush THEN thunk[th] \in Tasks ELSE thunk[th] = None

CountInv == in_push = Cardinality(Pushers)

TypeInv == TypeOK /\ ThunkInv /\ CountInv

\* The deque a push or try_pop looks at exists, also when the index wraps.
LEMMA SlotInQueues ==
  ASSUME TypeOK, NEW th \in Threads
  PROVE  Slot(th) \in Queues
<1> DEFINE s == (offset[th] + i[th]) % IndexMod
<1>1. offset[th] + i[th] \in Nat
  BY NAssumption DEF TypeOK, Queues
<1>2. s \in Nat
  BY <1>1, IndexModAssumption
<1>3. s % N \in 0 .. N-1
  BY <1>2, NAssumption
<1> QED
  BY <1>3 DEF Slot, Queues

LEMMA ZeroInRange == 0 \in Queues /\ 0 \in 0 .. IndexMod-1
BY NAssumption, IndexModAssumption DEF Queues

\* LeaveLoop keeps the loop variables in range.
LEMMA LeaveLoopType ==
  ASSUME TypeOK, NEW th \in Threads, LeaveLoop(th)
  PROVE  offset' \in [Threads -> 0 .. IndexMod-1] /\ i' \in [Threads -> Queues]
BY ZeroInRange DEF TypeOK, LeaveLoop

\* So does NextSlot, which also moves its thread to one of two labels.
LEMMA NextSlotType ==
  ASSUME TypeOK, NEW th \in Threads, NEW from, NEW to, NEW after,
         NextSlot(th, from, to, after)
  PROVE  /\ offset' \in [Threads -> 0 .. IndexMod-1]
         /\ i' \in [Threads -> Queues]
         /\ pc[th] = from
         /\ \/ pc' = [pc EXCEPT ![th] = to]
            \/ pc' = [pc EXCEPT ![th] = after]
<1>1. CASE /\ i[th] + 1 < N
           /\ Goto(th, from, to)
           /\ i' = [i EXCEPT ![th] = @ + 1]
           /\ UNCHANGED offset
  <2>1. i[th] + 1 \in Queues
    BY <1>1, NAssumption DEF TypeOK, Queues
  <2> QED
    BY <1>1, <2>1 DEF TypeOK, Goto
<1>2. CASE /\ i[th] + 1 = N
           /\ Goto(th, from, after)
           /\ LeaveLoop(th)
  BY <1>2, LeaveLoopType DEF Goto
<1> QED
  BY <1>1, <1>2 DEF NextSlot

\* Where the four steps that use NextSlot lead.
LEMMA NextSlotSteps ==
  ASSUME TypeOK, NEW th \in Threads
  PROVE  /\ PushTryFail(th) =>
              /\ pc[th] = "push_try"
              /\ \/ pc' = [pc EXCEPT ![th] = "push_try"]
                 \/ pc' = [pc EXCEPT ![th] = "push_index"]
         /\ PopTryFail(th) \/ PopEmpty(th) =>
              /\ pc[th] \in {"pop_try", "pop_locked"}
              /\ \/ pc' = [pc EXCEPT ![th] = "pop_try"]
                 \/ pc' = [pc EXCEPT ![th] = "idle"]
         /\ EjectSwap(th) =>
              /\ pc[th] = "eject_locked"
              /\ \/ pc' = [pc EXCEPT ![th] = "eject_lock"]
                 \/ pc' = [pc EXCEPT ![th] = "eject_check"]
BY DEF PushTryFail, PopTryFail, PopEmpty, EjectSwap, NextSlot, Goto

\* Starting or finishing a push is what changes the number of pushers.
LEMMA PushersFinite == IsFiniteSet(Pushers) /\ Cardinality(Pushers) \in Nat
<1>1. IsFiniteSet(Pushers)
  BY ThreadsFinite, FS_Subset DEF Pushers
<1> QED
  BY <1>1, FS_CardinalityType

LEMMA InitTypeInv == Init => TypeInv
<1> SUFFICES ASSUME Init PROVE TypeInv
  OBVIOUS
<1> USE DEF Init
<1>1. is_done \in BOOLEAN
  BY Zenon
<1>2. TypeOK
  BY <1>1, ZeroInRange DEF TypeOK, Labels
<1>3. ThunkInv
  BY DEF ThunkInv, InPush, Holding
<1>4. CountInv
  <2>1. Pushers = {}
    BY DEF Pushers, InPush, Holding
  <2> QED
    BY <2>1, FS_EmptySet DEF CountInv
<1> QED
  BY <1>2, <1>3, <1>4 DEF TypeInv

\* A step that starts and ends no push keeps CountInv.
LEMMA CountKept ==
  ASSUME TypeOK, CountInv, in_push' = in_push,
         \A th \in Threads : pc'[th] \in InPush <=> pc[th] \in InPush
  PROVE  CountInv'
<1>1. Pushers' = Pushers
  BY DEF Pushers
<1> QED
  BY <1>1 DEF CountInv

LEMMA StepTypeInv == TypeInv /\ [Next]_vars => TypeInv'
<1> SUFFICES ASSUME TypeOK, ThunkInv, CountInv, [Next]_vars
             PROVE  TypeOK' /\ ThunkInv' /\ CountInv'
  BY DEF TypeInv
<1> USE DEF Labels, InPush, Holding, Popping, Ejecting, shared, ledger
<1>1. ASSUME NEW th \in Threads, NEW t \in Tasks, PushEnter(th, t)
      PROVE  TypeOK' /\ ThunkInv' /\ CountInv'
  <2>1. TypeOK' /\ ThunkInv'
    BY <1>1, NoneIsNone DEF PushEnter, Goto, TypeOK, ThunkInv
  <2>2. Pushers' = Pushers \cup {th} /\ th \notin Pushers
    BY <1>1 DEF PushEnter, Goto, TypeOK, Pushers
  <2>3. Cardinality(Pushers') = Cardinality(Pushers) + 1
    BY <2>2, PushersFinite, FS_AddElement
  <2> QED
    BY <1>1, <2>1, <2>3 DEF PushEnter, CountInv
<1>2. ASSUME NEW th \in Threads, PushCheck(th)
      PROVE  TypeOK' /\ ThunkInv' /\ CountInv'
  <2>1. TypeOK' /\ ThunkInv'
    BY <1>2 DEF PushCheck, Goto, TypeOK, ThunkInv
  <2> QED
    BY <1>2, <2>1, CountKept DEF PushCheck, Goto, TypeOK
<1>3. ASSUME NEW th \in Threads, PushIndex(th)
      PROVE  TypeOK' /\ ThunkInv' /\ CountInv'
  <2>1. TypeOK' /\ ThunkInv'
    BY <1>3, IndexModAssumption DEF PushIndex, Goto, TypeOK, ThunkInv
  <2> QED
    BY <1>3, <2>1, CountKept DEF PushIndex, Goto, TypeOK
<1>4. ASSUME NEW th \in Threads, PushTryLock(th)
      PROVE  TypeOK' /\ ThunkInv' /\ CountInv'
  <2>1. TypeOK' /\ ThunkInv'
    BY <1>4, SlotInQueues DEF PushTryLock, Goto, TypeOK, ThunkInv
  <2> QED
    BY <1>4, <2>1, CountKept DEF PushTryLock, Goto, TypeOK
<1>5. ASSUME NEW th \in Threads, PushTryFail(th)
      PROVE  TypeOK' /\ ThunkInv' /\ CountInv'
  <2>1. /\ offset' \in [Threads -> 0 .. IndexMod-1]
        /\ i' \in [Threads -> Queues]
        /\ pc[th] = "push_try"
        /\ pc' = [pc EXCEPT ![th] = "push_try"] \/ pc' = [pc EXCEPT ![th] = "push_index"]
    BY <1>5, NextSlotType DEF PushTryFail
  <2>2. TypeOK' /\ ThunkInv'
    BY <1>5, <2>1 DEF PushTryFail, TypeOK, ThunkInv
  <2> QED
    BY <1>5, <2>1, <2>2, CountKept DEF PushTryFail, TypeOK
<1>6. ASSUME NEW th \in Threads, PushEmplace(th)
      PROVE  TypeOK' /\ ThunkInv' /\ CountInv'
  <2>1. offset' \in [Threads -> 0 .. IndexMod-1] /\ i' \in [Threads -> Queues]
    BY <1>6, LeaveLoopType DEF PushEmplace
  <2>2. Slot(th) \in Queues /\ thunk[th] \in Tasks
    BY <1>6, SlotInQueues DEF PushEmplace, Goto, ThunkInv
  <2>3. Append(queue[Slot(th)], thunk[th]) \in Seq(Tasks)
    BY <2>2 DEF TypeOK
  <2>4. TypeOK' /\ ThunkInv'
    BY <1>6, <2>1, <2>2, <2>3 DEF PushEmplace, Goto, TypeOK, ThunkInv
  <2> QED
    BY <1>6, <2>4, CountKept DEF PushEmplace, Goto, TypeOK
<1>7. ASSUME NEW th \in Threads, PushLeave(th)
      PROVE  TypeOK' /\ ThunkInv' /\ CountInv'
  <2>1. th \in Pushers /\ Pushers' = Pushers \ {th} /\ in_push' = in_push - 1
    BY <1>7 DEF PushLeave, Goto, TypeOK, Pushers
  <2>2. Cardinality(Pushers') = Cardinality(Pushers) - 1 /\ Cardinality(Pushers') \in Nat
    BY <2>1, PushersFinite, FS_RemoveElement, FS_CardinalityType
  <2>3. CountInv' /\ in_push' \in Nat
    BY <2>1, <2>2 DEF CountInv
  <2> QED
    BY <1>7, <2>3 DEF PushLeave, Goto, TypeOK, ThunkInv
<1>8. ASSUME NEW w \in Workers, PopIndex(w)
      PROVE  TypeOK' /\ ThunkInv' /\ CountInv'
  <2>1. TypeOK' /\ ThunkInv'
    BY <1>8, IndexModAssumption DEF PopIndex, Goto, TypeOK, ThunkInv, Threads
  <2> QED
    BY <1>8, <2>1, CountKept DEF PopIndex, Goto, TypeOK, Threads
<1>9. ASSUME NEW w \in Workers, PopTryLock(w)
      PROVE  TypeOK' /\ ThunkInv' /\ CountInv'
  <2>0. w \in Threads
    BY DEF Threads
  <2>1. TypeOK' /\ ThunkInv'
    BY <1>9, <2>0, SlotInQueues DEF PopTryLock, Goto, TypeOK, ThunkInv
  <2> QED
    BY <1>9, <2>0, <2>1, CountKept DEF PopTryLock, Goto, TypeOK
<1>10. ASSUME NEW w \in Workers, PopTryFail(w) \/ PopEmpty(w)
       PROVE  TypeOK' /\ ThunkInv' /\ CountInv'
  <2>0. w \in Threads /\ Slot(w) \in Queues
    BY SlotInQueues DEF Threads
  <2>1. /\ offset' \in [Threads -> 0 .. IndexMod-1]
        /\ i' \in [Threads -> Queues]
        /\ pc[w] \in {"pop_try", "pop_locked"}
        /\ pc' = [pc EXCEPT ![w] = "pop_try"] \/ pc' = [pc EXCEPT ![w] = "idle"]
    BY <1>10, <2>0, NextSlotType DEF PopTryFail, PopEmpty
  <2>2. TypeOK' /\ ThunkInv'
    BY <1>10, <2>0, <2>1 DEF PopTryFail, PopEmpty, TypeOK, ThunkInv
  <2> QED
    BY <1>10, <2>0, <2>1, <2>2, CountKept DEF PopTryFail, PopEmpty, TypeOK
<1>11. ASSUME NEW w \in Workers, PopFront(w)
       PROVE  TypeOK' /\ ThunkInv' /\ CountInv'
  <2>0. w \in Threads /\ Slot(w) \in Queues
    BY SlotInQueues DEF Threads
  <2>1. offset' \in [Threads -> 0 .. IndexMod-1] /\ i' \in [Threads -> Queues]
    BY <1>11, <2>0, LeaveLoopType DEF PopFront
  <2>2. queue[Slot(w)] \in Seq(Tasks) /\ queue[Slot(w)] # <<>>
    BY <1>11, <2>0 DEF PopFront, TypeOK
  <2>3. Head(queue[Slot(w)]) \in Tasks /\ Tail(queue[Slot(w)]) \in Seq(Tasks)
    BY <2>2
  <2>4. TypeOK' /\ ThunkInv'
    BY <1>11, <2>0, <2>1, <2>3 DEF PopFront, Goto, TypeOK, ThunkInv
  <2> QED
    BY <1>11, <2>0, <2>4, CountKept DEF PopFront, Goto, TypeOK
<1>12. ASSUME NEW w \in Workers, EjectBegin(w)
       PROVE  TypeOK' /\ ThunkInv' /\ CountInv'
  <2>0. w \in Threads
    BY DEF Threads
  <2>1. is_done' \in BOOLEAN
    BY <1>12, Zenon DEF EjectBegin
  <2>2. TypeOK' /\ ThunkInv'
    BY <1>12, <2>0, <2>1 DEF EjectBegin, Goto, TypeOK, ThunkInv
  <2> QED
    BY <1>12, <2>0, <2>2, CountKept DEF EjectBegin, Goto, TypeOK
<1>13. ASSUME NEW w \in Workers, EjectLock(w)
       PROVE  TypeOK' /\ ThunkInv' /\ CountInv'
  <2>0. w \in Threads /\ i[w] \in Queues
    BY DEF Threads, TypeOK
  <2>1. TypeOK' /\ ThunkInv'
    BY <1>13, <2>0 DEF EjectLock, Goto, TypeOK, ThunkInv
  <2> QED
    BY <1>13, <2>0, <2>1, CountKept DEF EjectLock, Goto, TypeOK
<1>14. ASSUME NEW w \in Workers, EjectSwap(w)
       PROVE  TypeOK' /\ ThunkInv' /\ CountInv'
  <2>0. w \in Threads /\ i[w] \in Queues
    BY DEF Threads, TypeOK
  <2>1. /\ offset' \in [Threads -> 0 .. IndexMod-1]
        /\ i' \in [Threads -> Queues]
        /\ pc[w] = "eject_locked"
        /\ pc' = [pc EXCEPT ![w] = "eject_lock"] \/ pc' = [pc EXCEPT ![w] = "eject_check"]
    BY <1>14, <2>0, NextSlotType DEF EjectSwap
  <2>2. Contents(i[w]) \subseteq Tasks /\ <<>> \in Seq(Tasks)
    BY <2>0 DEF Contents, TypeOK
  <2>3. TypeOK' /\ ThunkInv'
    BY <1>14, <2>0, <2>1, <2>2 DEF EjectSwap, TypeOK, ThunkInv
  <2> QED
    BY <1>14, <2>0, <2>1, <2>3, CountKept DEF EjectSwap, TypeOK
<1>15. ASSUME NEW w \in Workers, EjectCheck(w)
       PROVE  TypeOK' /\ ThunkInv' /\ CountInv'
  <2>0. w \in Threads
    BY DEF Threads
  <2>1. TypeOK' /\ ThunkInv'
    BY <1>15, <2>0 DEF EjectCheck, Goto, TypeOK, ThunkInv
  <2> QED
    BY <1>15, <2>0, <2>1, CountKept DEF EjectCheck, Goto, TypeOK
<1>16. CASE UNCHANGED vars
  <2>1. TypeOK' /\ ThunkInv'
    BY <1>16 DEF vars, TypeOK, ThunkInv
  <2> QED
    BY <1>16, <2>1, CountKept DEF vars
<1> QED
  BY <1>1, <1>2, <1>3, <1>4, <1>5, <1>6, <1>7, <1>8, <1>9, <1>10, <1>11, <1>12, <1>13,
     <1>14, <1>15, <1>16
     DEF Next, Push, TryPop, StopAndEject

\* The type invariant of TaskQueue: no index leaves its range, the deques hold
\* nothing but thunks, and in_push_ never goes below zero.
THEOREM TypeCorrect == Spec => []TypeOK
<1>1. Init => TypeInv
  BY InitTypeInv
<1>2. TypeInv /\ [Next]_vars => TypeInv'
  BY StepTypeInv
<1>3. TypeInv => TypeOK
  BY DEF TypeInv
<1> QED
  BY <1>1, <1>2, <1>3, PTL DEF Spec

-----------------------------------------------------------------------------
(* Layer 2: the handshake of push and stop_and_eject.                      *)

\* Where a push has found is_done_ unset and has not queued its thunk yet.
Delivering == {"push_index", "push_try", "push_locked"}

\* done was signalled before anything of stop_and_eject.
DoneInv ==
  /\ drained # {} => is_done
  /\ \A w \in Workers : pc[w] \in Ejecting => is_done

\* After the first return from stop_and_eject no push will deliver.
QuietInv == drained # {} => \A th \in Threads : pc[th] \notin Delivering

HandshakeInv == DoneInv /\ QuietInv

LEMMA InitHandshake == Init => HandshakeInv
<1> SUFFICES ASSUME Init PROVE DoneInv /\ QuietInv
  BY DEF HandshakeInv
<1>1. drained = {} /\ \A w \in Workers : pc[w] \notin Ejecting
  BY DEF Init, Ejecting, Threads
<1> QED
  BY <1>1 DEF DoneInv, QuietInv

\* in_push_ = 0 is what it says: there is no push in progress.
LEMMA NoPushers ==
  ASSUME TypeInv, in_push = 0
  PROVE  \A th \in Threads : pc[th] \notin InPush
<1>1. Pushers = {}
  BY PushersFinite, FS_EmptySet DEF TypeInv, CountInv
<1> QED
  BY <1>1 DEF Pushers

LEMMA StepHandshake == TypeInv /\ HandshakeInv /\ [Next]_vars => HandshakeInv'
<1> SUFFICES ASSUME TypeInv, DoneInv, QuietInv, [Next]_vars PROVE DoneInv' /\ QuietInv'
  BY DEF HandshakeInv
<1> USE DEF Ejecting, Delivering, shared, ledger
<1>0. TypeOK /\ Workers \subseteq Threads
  BY DEF TypeInv, Threads
<1>1. ASSUME NEW th \in Threads, NEW t \in Tasks, PushEnter(th, t)
      PROVE  DoneInv' /\ QuietInv'
  BY <1>0, <1>1 DEF PushEnter, Goto, TypeOK, DoneInv, QuietInv
<1>2. ASSUME NEW th \in Threads, PushCheck(th)
      PROVE  DoneInv' /\ QuietInv'
  BY <1>0, <1>2 DEF PushCheck, Goto, TypeOK, DoneInv, QuietInv
<1>3. ASSUME NEW th \in Threads,
             PushIndex(th) \/ PushTryLock(th) \/ PushEmplace(th) \/ PushLeave(th)
      PROVE  DoneInv' /\ QuietInv'
  BY <1>0, <1>3
     DEF PushIndex, PushTryLock, PushEmplace, PushLeave, Goto, TypeOK, DoneInv, QuietInv
<1>4. ASSUME NEW th \in Threads, PushTryFail(th)
      PROVE  DoneInv' /\ QuietInv'
  BY <1>0, <1>4, NextSlotSteps DEF PushTryFail, TypeOK, DoneInv, QuietInv
<1>5. ASSUME NEW w \in Workers, PopIndex(w) \/ PopTryLock(w) \/ PopFront(w) \/ EjectLock(w)
      PROVE  DoneInv' /\ QuietInv'
  BY <1>0, <1>5
     DEF PopIndex, PopTryLock, PopFront, EjectLock, Goto, TypeOK, DoneInv, QuietInv
<1>6. ASSUME NEW w \in Workers, PopTryFail(w) \/ PopEmpty(w)
      PROVE  DoneInv' /\ QuietInv'
  <2>1. pc[w] \in {"pop_try", "pop_locked"} /\ UNCHANGED <<is_done, drained>>
    BY <1>0, <1>6, NextSlotSteps DEF PopTryFail, PopEmpty
  <2>2. pc' = [pc EXCEPT ![w] = "pop_try"] \/ pc' = [pc EXCEPT ![w] = "idle"]
    BY <1>0, <1>6, NextSlotSteps
  <2> QED
    BY <1>0, <2>1, <2>2 DEF TypeOK, DoneInv, QuietInv
<1>7. ASSUME NEW w \in Workers, EjectBegin(w)
      PROVE  DoneInv' /\ QuietInv'
  BY <1>0, <1>7 DEF EjectBegin, Goto, TypeOK, DoneInv, QuietInv
<1>8. ASSUME NEW w \in Workers, EjectSwap(w)
      PROVE  DoneInv' /\ QuietInv'
  BY <1>0, <1>8, NextSlotSteps DEF EjectSwap, TypeOK, DoneInv, QuietInv
<1>9. ASSUME NEW w \in Workers, EjectCheck(w)
      PROVE  DoneInv' /\ QuietInv'
  <2>1. CASE in_push > 0 /\ Goto(w, "eject_check", "eject_lock") /\ UNCHANGED drained
    BY <1>0, <1>9, <2>1 DEF EjectCheck, Goto, TypeOK, DoneInv, QuietInv
  <2>2. CASE in_push = 0 /\ Goto(w, "eject_check", "idle")
    <3>1. \A th \in Threads : pc[th] \notin Delivering
      BY <2>2, NoPushers DEF InPush, Holding
    <3> QED
      BY <1>0, <1>9, <2>2, <3>1 DEF EjectCheck, Goto, TypeOK, DoneInv, QuietInv
  <2> QED
    BY <1>9, <2>1, <2>2 DEF EjectCheck
<1>10. CASE UNCHANGED vars
  BY <1>10 DEF vars, DoneInv, QuietInv
<1> QED
  BY <1>1, <1>2, <1>3, <1>4, <1>5, <1>6, <1>7, <1>8, <1>9, <1>10
     DEF Next, Push, TryPop, StopAndEject

\* The steps that move a thunk, and what all other steps leave alone.
QuietStep ==
  /\ UNCHANGED <<queue, thunk, offered, taken, refused, settled>>
  /\ \A th \in Threads : /\ pc'[th] \in Holding <=> pc[th] \in Holding
                         /\ pc'[th] = "push_done" <=> pc[th] = "push_done"

LEMMA StepCases ==
  ASSUME TypeInv, [Next]_vars
  PROVE  \/ \E th \in Threads, t \in Tasks : PushEnter(th, t)
         \/ \E th \in Threads : PushEmplace(th) \/ PushLeave(th)
         \/ \E w \in Workers : PopFront(w) \/ EjectSwap(w)
         \/ QuietStep
<1> USE DEF QuietStep, Holding, shared, ledger
<1>0. TypeOK /\ Workers \subseteq Threads
  BY DEF TypeInv, Threads
<1>1. ASSUME NEW th \in Threads, PushCheck(th) \/ PushIndex(th) \/ PushTryLock(th)
      PROVE  QuietStep
  BY <1>0, <1>1 DEF PushCheck, PushIndex, PushTryLock, Goto, TypeOK
<1>2. ASSUME NEW th \in Threads, PushTryFail(th)
      PROVE  QuietStep
  BY <1>0, <1>2, NextSlotSteps DEF PushTryFail, TypeOK
<1>3. ASSUME NEW w \in Workers, PopIndex(w) \/ PopTryLock(w) \/ EjectBegin(w) \/ EjectLock(w)
      PROVE  QuietStep
  BY <1>0, <1>3 DEF PopIndex, PopTryLock, EjectBegin, EjectLock, Goto, TypeOK
<1>4. ASSUME NEW w \in Workers, PopTryFail(w) \/ PopEmpty(w)
      PROVE  QuietStep
  <2>1. UNCHANGED <<queue, thunk, offered, taken, refused, settled>>
    BY <1>4 DEF PopTryFail, PopEmpty
  <2>2. pc[w] \in {"pop_try", "pop_locked"}
    BY <1>0, <1>4, NextSlotSteps
  <2>3. pc' = [pc EXCEPT ![w] = "pop_try"] \/ pc' = [pc EXCEPT ![w] = "idle"]
    BY <1>0, <1>4, NextSlotSteps
  <2>4. pc \in [Threads -> Labels]
    BY <1>0 DEF TypeOK
  <2> QED
    BY <2>1, <2>2, <2>3, <2>4
<1>5. ASSUME NEW w \in Workers, EjectCheck(w)
      PROVE  QuietStep
  BY <1>0, <1>5 DEF EjectCheck, Goto, TypeOK
<1>6. CASE UNCHANGED vars
  BY <1>6 DEF vars
<1> QED
  BY <1>1, <1>2, <1>3, <1>4, <1>5, <1>6 DEF Next, Push, TryPop, StopAndEject

-----------------------------------------------------------------------------
(* What the three steps that change a deque do to the queued thunks.       *)

LEMMA EmplaceContents ==
  ASSUME TypeInv, NEW th \in Threads, PushEmplace(th)
  PROVE  /\ thunk[th] \in Tasks /\ pc[th] = "push_locked"
         /\ \E q \in Queues :
              /\ queue[q] \in Seq(Tasks)
              /\ queue' = [queue EXCEPT ![q] = Append(queue[q], thunk[th])]
         /\ Queued' = Queued \cup {thunk[th]}
<1>0. TypeOK /\ queue \in [Queues -> Seq(Tasks)]
  BY DEF TypeInv, TypeOK
<1>1. pc[th] = "push_locked" /\ thunk[th] \in Tasks
  BY DEF PushEmplace, Goto, TypeInv, ThunkInv, InPush, Holding
<1>2. PICK q0 \in Queues : q0 = Slot(th)
  BY <1>0, SlotInQueues
<1>3. queue' = [queue EXCEPT ![q0] = Append(queue[q0], thunk[th])]
  BY <1>2 DEF PushEmplace
<1>4. queue[q0] \in Seq(Tasks)
  BY <1>0
<1>5. Contents(q0)' = Contents(q0) \cup {thunk[th]}
  <2> DEFINE s == queue[q0]
  <2>1. queue'[q0] = Append(s, thunk[th])
    BY <1>0, <1>3
  <2>2. /\ DOMAIN Append(s, thunk[th]) = 1 .. Len(s) + 1
        /\ DOMAIN s = 1 .. Len(s)
        /\ Len(s) \in Nat
        /\ \A k \in 1 .. Len(s) : Append(s, thunk[th])[k] = s[k]
        /\ Append(s, thunk[th])[Len(s) + 1] = thunk[th]
    BY <1>1, <1>4
  <2> QED
    BY <2>1, <2>2 DEF Contents
<1>6. \A q \in Queues \ {q0} : Contents(q)' = Contents(q)
  BY <1>0, <1>3 DEF Contents
<1>7. Queued' = Queued \cup {thunk[th]}
  BY <1>5, <1>6 DEF Queued
<1> QED
  BY <1>1, <1>3, <1>4, <1>7

LEMMA PopContents ==
  ASSUME TypeInv, NEW w \in Workers, PopFront(w)
  PROVE  \E q \in Queues :
           /\ queue[q] \in Seq(Tasks) /\ queue[q] # <<>>
           /\ queue' = [queue EXCEPT ![q] = Tail(queue[q])]
           /\ taken' = taken \cup {Head(queue[q])}
           /\ Head(queue[q]) \in Queued
           /\ Queued \subseteq Queued' \cup {Head(queue[q])}
           /\ Queued' \subseteq Queued
<1>0. TypeOK /\ queue \in [Queues -> Seq(Tasks)] /\ w \in Threads
  BY DEF TypeInv, TypeOK, Threads
<1>2. PICK q0 \in Queues : q0 = Slot(w)
  BY <1>0, SlotInQueues
<1>3. /\ queue' = [queue EXCEPT ![q0] = Tail(queue[q0])]
      /\ taken' = taken \cup {Head(queue[q0])}
      /\ queue[q0] # <<>>
  BY <1>2 DEF PopFront
<1>4. queue[q0] \in Seq(Tasks)
  BY <1>0
<1>5. /\ Contents(q0) = Contents(q0)' \cup {Head(queue[q0])}
      /\ Head(queue[q0]) \in Contents(q0)
  <2> DEFINE s == queue[q0]
  <2>1. queue'[q0] = Tail(s)
    BY <1>0, <1>3
  <2>2. /\ DOMAIN Tail(s) = 1 .. Len(s) - 1
        /\ DOMAIN s = 1 .. Len(s)
        /\ Len(s) \in Nat \ {0}
        /\ \A k \in 1 .. Len(s) - 1 : Tail(s)[k] = s[k+1]
        /\ Head(s) = s[1]
    BY <1>3, <1>4
  <2>3. ASSUME NEW k \in 1 .. Len(s) PROVE s[k] = Head(s) \/ s[k] \in Contents(q0)'
    <3>1. CASE k = 1
      BY <2>2, <3>1
    <3>2. CASE k > 1
      <4>1. k - 1 \in 1 .. Len(s) - 1 /\ (k - 1) + 1 = k
        BY <2>2, <3>2
      <4> QED
        BY <2>1, <2>2, <4>1 DEF Contents
    <3> QED
      BY <3>1, <3>2
  <2>4. ASSUME NEW k \in 1 .. Len(s) - 1 PROVE Tail(s)[k] \in Contents(q0)
    <3>1. k + 1 \in 1 .. Len(s)
      BY <2>2
    <3> QED
      BY <2>2, <3>1 DEF Contents
  <2>5. Contents(q0) \subseteq Contents(q0)' \cup {Head(s)}
    BY <2>2, <2>3 DEF Contents
  <2>6. Contents(q0)' \subseteq Contents(q0)
    BY <2>1, <2>2, <2>4 DEF Contents
  <2>7. Head(s) \in Contents(q0)
    BY <2>2 DEF Contents
  <2> QED
    BY <2>5, <2>6, <2>7
<1>6. \A q \in Queues \ {q0} : Contents(q)' = Contents(q)
  BY <1>0, <1>3 DEF Contents
<1>7. /\ Head(queue[q0]) \in Queued
      /\ Queued \subseteq Queued' \cup {Head(queue[q0])}
      /\ Queued' \subseteq Queued
  BY <1>5, <1>6 DEF Queued
<1> QED
  BY <1>3, <1>4, <1>7

LEMMA SwapContents ==
  ASSUME TypeInv, NEW w \in Workers, EjectSwap(w)
  PROVE  /\ i[w] \in Queues
         /\ queue' = [queue EXCEPT ![i[w]] = <<>>]
         /\ taken' = taken \cup Contents(i[w])
         /\ \A q \in Queues : Contents(q)' = IF q = i[w] THEN {} ELSE Contents(q)
         /\ Contents(i[w]) \subseteq Queued
         /\ Queued \subseteq Queued' \cup Contents(i[w])
         /\ Queued' \subseteq Queued
<1>0. TypeOK /\ queue \in [Queues -> Seq(Tasks)] /\ w \in Threads
  BY DEF TypeInv, TypeOK, Threads
<1>1. PICK q0 \in Queues : q0 = i[w]
  BY <1>0 DEF TypeOK
<1>2. queue' = [queue EXCEPT ![q0] = <<>>] /\ taken' = taken \cup Contents(q0)
  BY <1>1 DEF EjectSwap
<1>3. \A q \in Queues : Contents(q)' = IF q = q0 THEN {} ELSE Contents(q)
  BY <1>0, <1>2 DEF Contents
<1>4. /\ Contents(q0) \subseteq Queued
      /\ Queued \subseteq Queued' \cup Contents(q0)
      /\ Queued' \subseteq Queued
  BY <1>3 DEF Queued
<1> QED
  BY <1>1, <1>2, <1>3, <1>4

\* The handshake of in_push_ and is_done_ (push, stop_and_eject): once one
\* stop_and_eject has returned, no step puts a thunk into a deque.
THEOREM NothingQueued == Spec => NothingQueuedAfterDrain
<1>1. Init => TypeInv /\ HandshakeInv
  BY InitTypeInv, InitHandshake
<1>2. TypeInv /\ HandshakeInv /\ [Next]_vars => (TypeInv /\ HandshakeInv)'
  BY StepTypeInv, StepHandshake
<1>3. TypeInv /\ HandshakeInv /\ [Next]_vars => [drained # {} => Queued' \subseteq Queued]_vars
  <2> SUFFICES ASSUME TypeInv, HandshakeInv, [Next]_vars, drained # {}
               PROVE  Queued' \subseteq Queued
    OBVIOUS
  <2>1. ASSUME NEW th \in Threads, PushEmplace(th) PROVE FALSE
    BY <2>1 DEF HandshakeInv, QuietInv, Delivering, PushEmplace, Goto
  <2>2. ASSUME NEW th \in Threads, NEW t \in Tasks, PushEnter(th, t)
        PROVE  Queued' = Queued
    BY <2>2 DEF PushEnter, Queued, Contents
  <2>3. ASSUME NEW th \in Threads, PushLeave(th)
        PROVE  Queued' = Queued
    BY <2>3 DEF PushLeave, Queued, Contents
  <2>4. ASSUME NEW w \in Workers, PopFront(w) \/ EjectSwap(w)
        PROVE  Queued' \subseteq Queued
    BY <2>4, PopContents, SwapContents
  <2>5. QuietStep => Queued' = Queued
    BY DEF QuietStep, Queued, Contents
  <2> QED
    BY <2>1, <2>2, <2>3, <2>4, <2>5, StepCases
<1> QED
  BY <1>1, <1>2, <1>3, PTL DEF Spec, NothingQueuedAfterDrain

-----------------------------------------------------------------------------
(* Layer 3: who owns a thunk.                                              *)

\* A thunk is at one position of one deque.
UniqueInDeques ==
  \A q, r \in Queues : \A j \in DOMAIN queue[q], k \in DOMAIN queue[r] :
    queue[q][j] = queue[r][k] => q = r /\ j = k

\* Two pushes never carry the same thunk, and a refused one carries none.
HeldInv ==
  /\ \A x, y \in Threads :
       pc[x] \in Holding /\ pc[y] \in Holding /\ thunk[x] = thunk[y] => x = y
  /\ Held \cap refused = {}

\* A push that has left its loop has queued its thunk.
DeliveredInv ==
  \A th \in Threads : pc[th] = "push_done" => thunk[th] \in Queued \cup taken

OwnershipInv == NoThunkLost /\ NoThunkDuplicated /\ HeldInv /\ DeliveredInv

LEMMA InitOwnership == Init => OwnershipInv
<1> SUFFICES ASSUME Init PROVE OwnershipInv
  OBVIOUS
<1>1. /\ offered = {} /\ taken = {} /\ refused = {}
      /\ \A q \in Queues : queue[q] = <<>>
      /\ \A th \in Threads : pc[th] = "idle"
  BY DEF Init
<1>2. Held = {}
  BY <1>1 DEF Held, Holding
<1>3. Queued = {}
  BY <1>1 DEF Queued, Contents
<1>4. UniqueInDeques
  BY <1>1 DEF UniqueInDeques
<1>5. NoThunkLost /\ NoThunkDuplicated
  BY <1>1, <1>2, <1>3, <1>4 DEF NoThunkLost, NoThunkDuplicated, UniqueInDeques
<1>6. HeldInv /\ DeliveredInv
  BY <1>1, <1>2 DEF HeldInv, DeliveredInv, Holding
<1> QED
  BY <1>5, <1>6 DEF OwnershipInv

\* Held, for a thread that picks a thunk up, keeps it, or lays it down.
LEMMA HeldMember ==
  ASSUME NEW th \in Threads, pc[th] \in Holding
  PROVE  thunk[th] \in Held
BY DEF Held

LEMMA EmplaceUnique ==
  ASSUME TypeInv, OwnershipInv, NEW th \in Threads, PushEmplace(th)
  PROVE  UniqueInDeques'
<1>1. /\ thunk[th] \in Tasks /\ pc[th] = "push_locked"
      /\ queue \in [Queues -> Seq(Tasks)]
  BY EmplaceContents DEF TypeInv, TypeOK
<1>2. PICK q0 \in Queues : queue' = [queue EXCEPT ![q0] = Append(queue[q0], thunk[th])]
  BY EmplaceContents
<1>3. thunk[th] \notin Queued
  BY <1>1, HeldMember DEF OwnershipInv, NoThunkDuplicated, Holding
<1> DEFINE n == Len(queue[q0])
<1>4. /\ n \in Nat
      /\ DOMAIN queue[q0] = 1 .. n
      /\ DOMAIN queue'[q0] = 1 .. n + 1
      /\ \A k \in 1 .. n : queue'[q0][k] = queue[q0][k]
      /\ queue'[q0][n + 1] = thunk[th]
  BY <1>1, <1>2
<1>5. \A q \in Queues \ {q0} : queue'[q] = queue[q]
  BY <1>1, <1>2
\* A position of the new deques is an old one, or the new last of q0.
<1>6. ASSUME NEW q \in Queues, NEW k \in DOMAIN queue'[q]
      PROVE  \/ q = q0 /\ k = n + 1 /\ queue'[q][k] = thunk[th]
             \/ k \in DOMAIN queue[q] /\ queue'[q][k] = queue[q][k] /\ queue[q][k] # thunk[th]
  <2>1. k \in DOMAIN queue[q] => queue[q][k] # thunk[th]
    BY <1>3 DEF Queued, Contents
  <2> QED
    BY <1>4, <1>5, <2>1
<1>7. UniqueInDeques
  BY DEF OwnershipInv, NoThunkDuplicated, UniqueInDeques
<1> QED
  BY <1>6, <1>7 DEF UniqueInDeques

LEMMA PopUnique ==
  ASSUME TypeInv, UniqueInDeques, NEW q0 \in Queues,
         queue[q0] # <<>>, queue' = [queue EXCEPT ![q0] = Tail(queue[q0])]
  PROVE  /\ UniqueInDeques'
         /\ Head(queue[q0]) \notin Queued'
<1>1. queue \in [Queues -> Seq(Tasks)]
  BY DEF TypeInv, TypeOK
<1> DEFINE n == Len(queue[q0])
<1>2. /\ n \in Nat \ {0}
      /\ DOMAIN queue[q0] = 1 .. n
      /\ DOMAIN queue'[q0] = 1 .. n - 1
      /\ \A k \in 1 .. n - 1 : queue'[q0][k] = queue[q0][k + 1]
      /\ Head(queue[q0]) = queue[q0][1]
  BY <1>1
<1>3. \A q \in Queues \ {q0} : queue'[q] = queue[q]
  BY <1>1
\* Every position of the new deques was one of the old ones, and not the head.
<1> DEFINE old(q, k) == IF q = q0 THEN k + 1 ELSE k
<1>4. ASSUME NEW q \in Queues, NEW k \in DOMAIN queue'[q]
      PROVE  /\ old(q, k) \in DOMAIN queue[q]
             /\ queue'[q][k] = queue[q][old(q, k)]
             /\ ~(q = q0 /\ old(q, k) = 1)
             /\ q = q0 => k \in Nat
  BY <1>2, <1>3
<1> HIDE DEF old
<1>5. UniqueInDeques'
  <2> SUFFICES ASSUME NEW q \in Queues, NEW r \in Queues,
                      NEW j \in DOMAIN queue'[q], NEW k \in DOMAIN queue'[r],
                      queue'[q][j] = queue'[r][k]
               PROVE  q = r /\ j = k
    BY DEF UniqueInDeques
  <2>1. q = r /\ old(q, j) = old(r, k)
    BY <1>4 DEF UniqueInDeques
  <2> QED
    BY <1>4, <2>1 DEF old
<1>6. Head(queue[q0]) \notin Queued'
  <2> SUFFICES ASSUME NEW q \in Queues, NEW k \in DOMAIN queue'[q],
                      queue'[q][k] = Head(queue[q0])
               PROVE  FALSE
    BY DEF Queued, Contents
  <2>1. queue[q][old(q, k)] = queue[q0][1] /\ 1 \in DOMAIN queue[q0]
    BY <1>2, <1>4
  <2> QED
    BY <1>4, <2>1 DEF UniqueInDeques
<1> QED
  BY <1>5, <1>6

LEMMA SwapUnique ==
  ASSUME TypeInv, UniqueInDeques, NEW q0 \in Queues, queue' = [queue EXCEPT ![q0] = <<>>]
  PROVE  /\ UniqueInDeques'
         /\ Contents(q0) \cap Queued' = {}
<1>1. queue \in [Queues -> Seq(Tasks)]
  BY DEF TypeInv, TypeOK
<1>2. DOMAIN queue'[q0] = {} /\ \A q \in Queues \ {q0} : queue'[q] = queue[q]
  BY <1>1
<1>3. UniqueInDeques'
  BY <1>2 DEF UniqueInDeques
<1>4. Contents(q0) \cap Queued' = {}
  BY <1>2 DEF UniqueInDeques, Queued, Contents
<1> QED
  BY <1>3, <1>4

LEMMA StepOwnership == TypeInv /\ OwnershipInv /\ [Next]_vars => OwnershipInv'
<1> SUFFICES ASSUME TypeInv, OwnershipInv, [Next]_vars PROVE OwnershipInv'
  OBVIOUS
<1>0. /\ TypeOK /\ ThunkInv
      /\ NoThunkLost /\ UniqueInDeques /\ HeldInv /\ DeliveredInv
      /\ Queued \cap taken = {}
      /\ (Queued \cup taken) \cap (Held \cup refused) = {}
  BY DEF TypeInv, OwnershipInv, NoThunkDuplicated, UniqueInDeques
<1>1. ASSUME NEW th \in Threads, NEW t \in Tasks, PushEnter(th, t)
      PROVE  OwnershipInv'
  <2>1. /\ queue' = queue /\ taken' = taken /\ refused' = refused
        /\ offered' = offered \cup {t} /\ t \notin offered
        /\ pc[th] = "idle" /\ pc' = [pc EXCEPT ![th] = "push_check"]
        /\ thunk' = [thunk EXCEPT ![th] = t]
    BY <1>1 DEF PushEnter, Goto
  <2>2. Queued' = Queued /\ UniqueInDeques'
    BY <1>0, <2>1 DEF Queued, Contents, UniqueInDeques
  <2>3. Held' = Held \cup {t}
    BY <1>0, <2>1 DEF Held, Holding, TypeOK
  <2>4. t \notin Held \cup Queued \cup taken \cup refused
    BY <1>0, <2>1 DEF NoThunkLost
  <2>5. NoThunkLost' /\ NoThunkDuplicated'
    BY <1>0, <2>1, <2>2, <2>3, <2>4 DEF NoThunkLost, NoThunkDuplicated, UniqueInDeques
  <2>6. HeldInv'
    <3>1. \A x \in Threads : x # th => pc'[x] = pc[x] /\ thunk'[x] = thunk[x]
      BY <1>0, <2>1 DEF TypeOK
    <3>2. thunk'[th] = t
      BY <1>0, <2>1 DEF TypeOK
    <3>3. \A x \in Threads : x # th /\ pc'[x] \in Holding => thunk'[x] # t
      BY <2>4, <3>1, HeldMember
    <3> QED
      BY <1>0, <2>1, <2>3, <2>4, <3>1, <3>2, <3>3 DEF HeldInv
  <2>7. DeliveredInv'
    BY <1>0, <2>1, <2>2 DEF DeliveredInv, TypeOK
  <2> QED
    BY <2>5, <2>6, <2>7 DEF OwnershipInv
<1>2. ASSUME NEW th \in Threads, PushEmplace(th)
      PROVE  OwnershipInv'
  <2>1. /\ taken' = taken /\ refused' = refused /\ offered' = offered /\ thunk' = thunk
        /\ pc[th] = "push_locked" /\ pc' = [pc EXCEPT ![th] = "push_done"]
    BY <1>2 DEF PushEmplace, Goto, ledger
  <2>2. Queued' = Queued \cup {thunk[th]} /\ UniqueInDeques'
    BY <1>2, EmplaceContents, EmplaceUnique
  <2>3. Held = Held' \cup {thunk[th]}
    BY <1>0, <2>1 DEF Held, Holding, TypeOK
  <2>4. thunk[th] \notin Held'
    BY <1>0, <2>1 DEF Held, HeldInv, Holding, TypeOK
  <2>5. thunk[th] \notin refused \cup taken
    BY <1>0, <2>3 DEF HeldInv
  <2>6. NoThunkLost' /\ NoThunkDuplicated'
    BY <1>0, <2>1, <2>2, <2>3, <2>4, <2>5 DEF NoThunkLost, NoThunkDuplicated, UniqueInDeques
  <2>7. HeldInv'
    BY <1>0, <2>1, <2>3 DEF HeldInv, Holding, TypeOK
  <2>8. DeliveredInv'
    BY <1>0, <2>1, <2>2 DEF DeliveredInv, TypeOK
  <2> QED
    BY <2>6, <2>7, <2>8 DEF OwnershipInv
<1>3. ASSUME NEW th \in Threads, PushLeave(th)
      PROVE  OwnershipInv'
  <2>1. /\ queue' = queue /\ taken' = taken /\ offered' = offered
        /\ thunk' = [thunk EXCEPT ![th] = None] /\ pc' = [pc EXCEPT ![th] = "idle"]
    BY <1>3 DEF PushLeave, Goto
  <2>2. Queued' = Queued /\ UniqueInDeques'
    BY <1>0, <2>1 DEF Queued, Contents, UniqueInDeques
  <2>3. DeliveredInv'
    BY <1>0, <2>1, <2>2 DEF DeliveredInv, TypeOK
  <2>4. CASE pc[th] = "push_refused" /\ refused' = refused \cup {thunk[th]}
    <3>1. Held = Held' \cup {thunk[th]}
      BY <1>0, <2>1, <2>4 DEF Held, Holding, TypeOK
    <3>2. thunk[th] \notin Held'
      BY <1>0, <2>1, <2>4 DEF Held, HeldInv, Holding, TypeOK
    <3>3. NoThunkLost' /\ NoThunkDuplicated'
      BY <1>0, <2>1, <2>2, <2>4, <3>1 DEF NoThunkLost, NoThunkDuplicated, UniqueInDeques
    <3>4. HeldInv'
      BY <1>0, <2>1, <2>4, <3>1, <3>2 DEF HeldInv, Holding, TypeOK
    <3> QED
      BY <2>3, <3>3, <3>4 DEF OwnershipInv
  <2>5. CASE pc[th] = "push_done" /\ refused' = refused
    <3>1. Held' = Held
      BY <1>0, <2>1, <2>5 DEF Held, Holding, TypeOK
    <3>2. NoThunkLost' /\ NoThunkDuplicated'
      BY <1>0, <2>1, <2>2, <2>5, <3>1 DEF NoThunkLost, NoThunkDuplicated, UniqueInDeques
    <3>3. HeldInv'
      BY <1>0, <2>1, <2>5, <3>1 DEF HeldInv, Holding, TypeOK
    <3> QED
      BY <2>3, <3>2, <3>3 DEF OwnershipInv
  <2> QED
    BY <1>3, <2>4, <2>5 DEF PushLeave, Goto
<1>4. ASSUME NEW w \in Workers, PopFront(w)
      PROVE  OwnershipInv'
  <2>1. /\ refused' = refused /\ offered' = offered /\ thunk' = thunk
        /\ pc[w] = "pop_locked" /\ pc' = [pc EXCEPT ![w] = "idle"] /\ w \in Threads
    BY <1>4 DEF PopFront, Goto, Threads
  <2>2. PICK q0 \in Queues :
           /\ queue[q0] # <<>>
           /\ queue' = [queue EXCEPT ![q0] = Tail(queue[q0])]
           /\ taken' = taken \cup {Head(queue[q0])}
           /\ Head(queue[q0]) \in Queued
           /\ Queued \subseteq Queued' \cup {Head(queue[q0])}
           /\ Queued' \subseteq Queued
    BY <1>4, PopContents
  <2>3. UniqueInDeques' /\ Head(queue[q0]) \notin Queued'
    BY <1>0, <2>2, PopUnique
  <2>4. Held' = Held
    BY <1>0, <2>1 DEF Held, Holding, TypeOK
  <2>5. NoThunkLost' /\ NoThunkDuplicated'
    BY <1>0, <2>1, <2>2, <2>3, <2>4 DEF NoThunkLost, NoThunkDuplicated, UniqueInDeques
  <2>6. HeldInv' /\ DeliveredInv'
    BY <1>0, <2>1, <2>2, <2>4 DEF HeldInv, DeliveredInv, Holding, TypeOK
  <2> QED
    BY <2>5, <2>6 DEF OwnershipInv
<1>5. ASSUME NEW w \in Workers, EjectSwap(w)
      PROVE  OwnershipInv'
  <2>1. /\ refused' = refused /\ offered' = offered /\ thunk' = thunk
        /\ pc[w] = "eject_locked" /\ w \in Threads
        /\ pc' = [pc EXCEPT ![w] = "eject_lock"] \/ pc' = [pc EXCEPT ![w] = "eject_check"]
    BY <1>0, <1>5, NextSlotSteps DEF EjectSwap, Threads
  <2>2. PICK q0 \in Queues :
           /\ queue' = [queue EXCEPT ![q0] = <<>>]
           /\ taken' = taken \cup Contents(q0)
           /\ Contents(q0) \subseteq Queued
           /\ Queued \subseteq Queued' \cup Contents(q0)
           /\ Queued' \subseteq Queued
    BY <1>5, SwapContents
  <2>3. UniqueInDeques' /\ Contents(q0) \cap Queued' = {}
    BY <1>0, <2>2, SwapUnique
  <2>4. Held' = Held
    BY <1>0, <2>1 DEF Held, Holding, TypeOK
  <2>5. NoThunkLost' /\ NoThunkDuplicated'
    BY <1>0, <2>1, <2>2, <2>3, <2>4 DEF NoThunkLost, NoThunkDuplicated, UniqueInDeques
  <2>6. HeldInv'
    <3>1. \A x \in Threads : (pc[x] \in Holding)' <=> pc[x] \in Holding
      BY <1>0, <2>1 DEF Holding, TypeOK
    <3>2. thunk' = thunk /\ refused' = refused
      BY <2>1
    <3> QED
      BY <1>0, <2>4, <3>1, <3>2 DEF HeldInv
  <2>7. DeliveredInv'
    BY <1>0, <2>1, <2>2 DEF DeliveredInv, TypeOK
  <2> QED
    BY <2>5, <2>6, <2>7 DEF OwnershipInv
<1>6. CASE QuietStep
  <2>1. Queued' = Queued /\ Held' = Held /\ UniqueInDeques'
    BY <1>0, <1>6 DEF QuietStep, Queued, Contents, Held, UniqueInDeques
  <2>2. NoThunkLost'
    BY <1>0, <1>6, <2>1 DEF QuietStep, NoThunkLost
  <2>3. NoThunkDuplicated'
    BY <1>0, <1>6, <2>1 DEF QuietStep, NoThunkDuplicated, UniqueInDeques
  <2>4. HeldInv' /\ DeliveredInv'
    BY <1>0, <1>6, <2>1 DEF QuietStep, HeldInv, DeliveredInv
  <2> QED
    BY <2>2, <2>3, <2>4 DEF OwnershipInv
<1> QED
  BY <1>1, <1>2, <1>3, <1>4, <1>5, <1>6, StepCases

\* Thunks are conserved (push, try_pop, stop_and_eject): none disappears
\* between the call of push and the moment it is handed out.
THEOREM ThunksAreNotLost == Spec => []NoThunkLost
<1>1. Init => TypeInv /\ OwnershipInv
  BY InitTypeInv, InitOwnership
<1>2. TypeInv /\ OwnershipInv /\ [Next]_vars => (TypeInv /\ OwnershipInv)'
  BY StepTypeInv, StepOwnership
<1>3. OwnershipInv => NoThunkLost
  BY DEF OwnershipInv
<1> QED
  BY <1>1, <1>2, <1>3, PTL DEF Spec

\* And none is in two places, so none is handed out twice.
THEOREM ThunksAreNotDuplicated == Spec => []NoThunkDuplicated
<1>1. Init => TypeInv /\ OwnershipInv
  BY InitTypeInv, InitOwnership
<1>2. TypeInv /\ OwnershipInv /\ [Next]_vars => (TypeInv /\ OwnershipInv)'
  BY StepTypeInv, StepOwnership
<1>3. OwnershipInv => NoThunkDuplicated
  BY DEF OwnershipInv
<1> QED
  BY <1>1, <1>2, <1>3, PTL DEF Spec
=============================================================================
