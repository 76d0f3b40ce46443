------------------------ MODULE TaskQueueRefinement ------------------------
(***************************************************************************)
(* AtomicTaskStealingQueue implements TaskPool: every step of a thread is  *)
(* a step of the pool or leaves the pool unchanged.                        *)
(***************************************************************************)
EXTENDS TaskQueueProofs

\* The thunks of pushes that were admitted and have not delivered: what the
\* refinement mapping puts for TaskPool's `admitted'.
Admitted == {thunk[th] : th \in {x \in Threads : pc[x] \in Delivering}}

\* A push is refused only because done was signalled.
RefusedInv == \A th \in Threads : pc[th] = "push_refused" => is_done

LEMMA InitRefused == Init => RefusedInv
BY DEF Init, RefusedInv

LEMMA StepRefused == TypeInv /\ RefusedInv /\ [Next]_vars => RefusedInv'
<1> SUFFICES ASSUME TypeOK, RefusedInv, [Next]_vars PROVE RefusedInv'
  BY DEF TypeInv
<1> USE DEF RefusedInv, TypeOK, Goto, shared
<1>0. Workers \subseteq Threads
  BY DEF Threads
<1>1. ASSUME NEW th \in Threads, Push(th)
      PROVE  RefusedInv'
  BY <1>1 DEF Push, PushEnter, PushCheck, PushIndex, PushTryLock, PushTryFail, PushEmplace,
              PushLeave, NextSlot
<1>2. ASSUME NEW w \in Workers, TryPop(w)
      PROVE  RefusedInv'
  BY <1>0, <1>2 DEF TryPop, PopIndex, PopTryLock, PopTryFail, PopEmpty, PopFront, NextSlot
<1>3. ASSUME NEW w \in Workers, StopAndEject(w)
      PROVE  RefusedInv'
  BY <1>0, <1>3 DEF StopAndEject, EjectBegin, EjectLock, EjectSwap, EjectCheck, NextSlot
<1>4. CASE UNCHANGED vars
  BY <1>4 DEF vars
<1> QED
  BY <1>1, <1>2, <1>3, <1>4 DEF Next

\* The variables of TaskPool, under the mapping.
PoolView == <<Admitted, Queued, taken, refused, is_done>>

\* A thunk that a push carries and has not been admitted is not known to the
\* pool yet.
LEMMA CarriedIsNew ==
  ASSUME OwnershipInv, NEW th \in Threads, pc[th] \in {"push_check", "push_refused"}
  PROVE  thunk[th] \notin Admitted \cup Queued \cup taken \cup refused
<1>1. thunk[th] \in Held
  BY HeldMember DEF Holding
<1>2. thunk[th] \notin Admitted
  BY DEF Admitted, Delivering, Holding, OwnershipInv, HeldInv
<1> QED
  BY <1>1, <1>2 DEF OwnershipInv, NoThunkDuplicated, HeldInv

LEMMA InitPool == Init => Pool!PoolInit
<1> SUFFICES ASSUME Init PROVE Pool!PoolInit
  OBVIOUS
<1>1. Admitted = {}
  BY DEF Init, Admitted, Delivering
<1>2. Queued = {}
  BY DEF Init, Queued, Contents
<1> QED
  BY <1>1, <1>2 DEF Init, Pool!PoolInit, Admitted, Delivering

\* Every step is a step of TaskPool, or changes nothing it can see.
LEMMA StepPool ==
  ASSUME TypeInv, OwnershipInv, RefusedInv, [Next]_vars
  PROVE  Pool!PoolNext \/ UNCHANGED PoolView
<1>0. TypeOK /\ ThunkInv /\ Workers \subseteq Threads
  BY DEF TypeInv, Threads
<1> USE DEF PoolView
<1>1. ASSUME NEW th \in Threads, NEW t \in Tasks, PushEnter(th, t)
      PROVE  UNCHANGED PoolView
  <2>1. Queued' = Queued
    BY <1>1 DEF PushEnter, Queued, Contents
  <2>2. Admitted' = Admitted
    BY <1>0, <1>1 DEF PushEnter, Goto, Admitted, Delivering, TypeOK
  <2> QED
    BY <1>1, <2>1, <2>2 DEF PushEnter
<1>2. ASSUME NEW th \in Threads, PushCheck(th)
      PROVE  Pool!PoolNext \/ UNCHANGED PoolView
  <2>1. /\ Queued' = Queued /\ taken' = taken /\ refused' = refused /\ is_done' = is_done
        /\ thunk' = thunk /\ pc[th] = "push_check"
    BY <1>2 DEF PushCheck, Goto, Queued, Contents, shared, ledger
  <2>2. CASE is_done
    <3>1. pc' = [pc EXCEPT ![th] = "push_refused"]
      BY <1>2, <2>2 DEF PushCheck, Goto
    <3>2. Admitted' = Admitted
      BY <1>0, <2>1, <3>1 DEF Admitted, Delivering, TypeOK
    <3> QED
      BY <2>1, <3>2
  <2>3. CASE ~is_done
    <3>1. pc' = [pc EXCEPT ![th] = "push_index"]
      BY <1>2, <2>3 DEF PushCheck, Goto
    <3>2. Admitted' = Admitted \cup {thunk[th]}
      BY <1>0, <2>1, <3>1 DEF Admitted, Delivering, TypeOK
    <3>3. PICK t \in Tasks : t = thunk[th]
      BY <1>0, <2>1 DEF ThunkInv, InPush, Holding
    <3>4. Pool!Admit(t)
      BY <2>1, <2>3, <3>2, <3>3, CarriedIsNew DEF Pool!Admit, Pool!Known, Admitted, Delivering
    <3> QED
      BY <3>4 DEF Pool!PoolNext
  <2> QED
    BY <2>2, <2>3
<1>3. ASSUME NEW th \in Threads, PushIndex(th) \/ PushTryLock(th) \/ PushTryFail(th)
      PROVE  UNCHANGED PoolView
  <2>1. UNCHANGED <<queue, taken, refused, is_done, thunk>>
    BY <1>3 DEF PushIndex, PushTryLock, PushTryFail, shared, ledger
  <2>2. /\ pc[th] \in Delivering
        /\ \E to \in Delivering : pc' = [pc EXCEPT ![th] = to]
    BY <1>0, <1>3, NextSlotSteps DEF PushIndex, PushTryLock, Goto, Delivering
  <2>3. Admitted' = Admitted
    BY <1>0, <2>1, <2>2 DEF Admitted, TypeOK
  <2> QED
    BY <2>1, <2>3 DEF Queued, Contents
<1>4. ASSUME NEW th \in Threads, PushEmplace(th)
      PROVE  Pool!PoolNext
  <2>1. /\ taken' = taken /\ refused' = refused /\ is_done' = is_done /\ thunk' = thunk
        /\ pc[th] = "push_locked" /\ pc' = [pc EXCEPT ![th] = "push_done"]
    BY <1>4 DEF PushEmplace, Goto, shared, ledger
  <2>2. PICK t \in Tasks : t = thunk[th] /\ Queued' = Queued \cup {t}
    BY <1>4, EmplaceContents
  <2>3. thunk[th] \in Admitted
    BY <2>1 DEF Admitted, Delivering
  <2>4. Admitted' = Admitted \ {thunk[th]}
    <3>1. \A x \in Threads : x # th => pc'[x] = pc[x] /\ thunk'[x] = thunk[x]
      BY <1>0, <2>1 DEF TypeOK
    <3>2. \A x \in Threads : x # th /\ pc[x] \in Delivering => thunk[x] # thunk[th]
      BY <2>1 DEF OwnershipInv, HeldInv, Holding, Delivering
    <3>3. pc'[th] \notin Delivering
      BY <1>0, <2>1 DEF TypeOK, Delivering
    <3> QED
      BY <3>1, <3>2, <3>3 DEF Admitted
  <2>5. Pool!Accept(t)
    BY <2>1, <2>2, <2>3, <2>4 DEF Pool!Accept, Admitted, Delivering
  <2> QED
    BY <2>5 DEF Pool!PoolNext
<1>5. ASSUME NEW th \in Threads, PushLeave(th)
      PROVE  Pool!PoolNext \/ UNCHANGED PoolView
  <2>1. /\ queue' = queue /\ taken' = taken /\ is_done' = is_done
        /\ pc[th] \in {"push_refused", "push_done"} /\ pc' = [pc EXCEPT ![th] = "idle"]
        /\ thunk' = [thunk EXCEPT ![th] = None]
    BY <1>5 DEF PushLeave, Goto
  <2>2. Queued' = Queued
    BY <2>1 DEF Queued, Contents
  <2>3. Admitted' = Admitted
    BY <1>0, <2>1 DEF Admitted, Delivering, TypeOK
  <2>4. CASE pc[th] = "push_refused" /\ refused' = refused \cup {thunk[th]}
    <3>1. PICK t \in Tasks : t = thunk[th]
      BY <1>0, <2>4 DEF ThunkInv, InPush, Holding
    <3>2. is_done
      BY <2>4 DEF RefusedInv
    <3>3. Pool!Refuse(t)
      BY <2>1, <2>2, <2>3, <2>4, <3>1, <3>2, CarriedIsNew
         DEF Pool!Refuse, Pool!Known, Admitted, Delivering
    <3> QED
      BY <3>3 DEF Pool!PoolNext
  <2>5. CASE refused' = refused
    BY <2>1, <2>2, <2>3, <2>5
  <2> QED
    BY <1>5, <2>4, <2>5 DEF PushLeave, Goto
<1>6. ASSUME NEW w \in Workers,
             \/ PopIndex(w) \/ PopTryLock(w) \/ PopTryFail(w) \/ PopEmpty(w)
             \/ EjectLock(w) \/ EjectCheck(w)
      PROVE  UNCHANGED PoolView
  <2>1. UNCHANGED <<queue, taken, refused, is_done, thunk>>
    BY <1>6 DEF PopIndex, PopTryLock, PopTryFail, PopEmpty, EjectLock, EjectCheck, shared, ledger
  <2>2. /\ pc[w] \notin Delivering /\ w \in Threads
        /\ \E to \in Labels \ Delivering : pc' = [pc EXCEPT ![w] = to]
    BY <1>0, <1>6, NextSlotSteps
       DEF PopIndex, PopTryLock, EjectLock, EjectCheck, Goto, Delivering, Labels, Popping, Ejecting
  <2>3. Admitted' = Admitted
    BY <1>0, <2>1, <2>2 DEF Admitted, TypeOK
  <2> QED
    BY <2>1, <2>3 DEF Queued, Contents
<1>7. ASSUME NEW w \in Workers, EjectBegin(w)
      PROVE  Pool!PoolNext
  <2>1. /\ UNCHANGED <<queue, taken, refused, thunk>> /\ is_done' = TRUE
        /\ pc[w] = "idle" /\ pc' = [pc EXCEPT ![w] = "eject_lock"]
    BY <1>7 DEF EjectBegin, Goto, ledger
  <2>2. Admitted' = Admitted /\ Queued' = Queued
    BY <1>0, <2>1 DEF Admitted, Delivering, TypeOK, Queued, Contents
  <2> QED
    BY <2>1, <2>2 DEF Pool!PoolNext, Pool!SignalDone, Admitted, Delivering
\* The two steps that hand thunks out.
<1>8. ASSUME NEW S, S \subseteq Queued, Queued' = Queued \ S, taken' = taken \cup S,
             Admitted' = Admitted, refused' = refused, is_done' = is_done
      PROVE  Pool!PoolNext \/ UNCHANGED PoolView
  <2>1. CASE S = {}
    BY <1>8, <2>1
  <2>2. CASE S # {}
    <3>1. Pool!Take(S)
      BY <1>8, <2>2 DEF Pool!Take, Admitted, Delivering
    <3>2. S \in SUBSET Queued
      BY <1>8
    <3> QED
      BY <3>1, <3>2 DEF Pool!PoolNext
  <2> QED
    BY <2>1, <2>2
<1>9. ASSUME NEW w \in Workers, PopFront(w)
      PROVE  Pool!PoolNext \/ UNCHANGED PoolView
  <2>1. /\ refused' = refused /\ is_done' = is_done /\ thunk' = thunk
        /\ pc[w] = "pop_locked" /\ pc' = [pc EXCEPT ![w] = "idle"]
    BY <1>9 DEF PopFront, Goto, shared
  <2>2. PICK q0 \in Queues :
           /\ queue[q0] # <<>>
           /\ queue' = [queue EXCEPT ![q0] = Tail(queue[q0])]
           /\ taken' = taken \cup {Head(queue[q0])}
           /\ Head(queue[q0]) \in Queued
           /\ Queued \subseteq Queued' \cup {Head(queue[q0])}
           /\ Queued' \subseteq Queued
    BY <1>9, PopContents
  <2>3. Head(queue[q0]) \notin Queued'
    BY <2>2, PopUnique DEF OwnershipInv, NoThunkDuplicated, UniqueInDeques
  <2>4. Admitted' = Admitted
    BY <1>0, <2>1 DEF Admitted, Delivering, TypeOK
  <2>5. Queued' = Queued \ {Head(queue[q0])}
    BY <2>2, <2>3
  <2> QED
    BY <1>8, <2>1, <2>2, <2>4, <2>5
<1>10. ASSUME NEW w \in Workers, EjectSwap(w)
       PROVE  Pool!PoolNext \/ UNCHANGED PoolView
  <2>1. /\ refused' = refused /\ is_done' = is_done /\ thunk' = thunk
        /\ pc[w] = "eject_locked"
        /\ pc' = [pc EXCEPT ![w] = "eject_lock"] \/ pc' = [pc EXCEPT ![w] = "eject_check"]
    BY <1>0, <1>10, NextSlotSteps DEF EjectSwap, shared
  <2>2. PICK q0 \in Queues :
           /\ queue' = [queue EXCEPT ![q0] = <<>>]
           /\ taken' = taken \cup Contents(q0)
           /\ Contents(q0) \subseteq Queued
           /\ Queued \subseteq Queued' \cup Contents(q0)
           /\ Queued' \subseteq Queued
    BY <1>10, SwapContents
  <2>3. Contents(q0) \cap Queued' = {}
    BY <2>2, SwapUnique DEF OwnershipInv, NoThunkDuplicated, UniqueInDeques
  <2>4. Admitted' = Admitted
    BY <1>0, <2>1 DEF Admitted, Delivering, TypeOK
  <2>5. Queued' = Queued \ Contents(q0)
    BY <2>2, <2>3
  <2> QED
    BY <1>8, <2>1, <2>2, <2>4, <2>5
<1>11. CASE UNCHANGED vars
  BY <1>11 DEF vars, Admitted, Queued, Contents
<1> QED
  BY <1>1, <1>2, <1>3, <1>4, <1>5, <1>6, <1>7, <1>9, <1>10, <1>11
     DEF Next, Push, TryPop, StopAndEject

\* AtomicTaskStealingQueue implements TaskPool, on which ExecutionContext is
\* written: whatever the threads do to the deques, the locks and the indices,
\* outside it looks like one pool that admits, accepts, refuses and hands
\* out thunks.
THEOREM QueueImplementsPool == Spec => ImplementsTaskPool
<1> DEFINE Inv == TypeInv /\ OwnershipInv /\ RefusedInv
<1>1. Init => Inv /\ Pool!PoolInit
  BY InitTypeInv, InitOwnership, InitRefused, InitPool
<1>2. Inv /\ [Next]_vars => Inv'
  BY StepTypeInv, StepOwnership, StepRefused
<1>3. Inv /\ [Next]_vars => [Pool!PoolNext]_(Pool!poolVars)
  <2> SUFFICES ASSUME Inv, [Next]_vars PROVE Pool!PoolNext \/ UNCHANGED Pool!poolVars
    OBVIOUS
  <2>1. Pool!PoolNext \/ UNCHANGED PoolView
    BY StepPool
  <2>2. UNCHANGED PoolView => UNCHANGED Pool!poolVars
    BY DEF PoolView, Pool!poolVars, Admitted, Delivering
  <2> QED
    BY <2>1, <2>2
<1> HIDE DEF Inv
<1> QED
  BY <1>1, <1>2, <1>3, PTL DEF Spec, ImplementsTaskPool, Pool!PoolSpec
=============================================================================
