------------------------ MODULE TaskQueueDrainProofs ------------------------
(***************************************************************************)
(* stop_and_eject misses none of the thunks it can be held to: a thunk     *)
(* whose push had returned before done was signalled is in no deque once   *)
(* a drain has returned.  Who holds which mutex, and what a drain waits    *)
(* for.                                                                    *)
(***************************************************************************)
EXTENDS TaskQueueProofs

-----------------------------------------------------------------------------
(* Settled thunks and the deques that a drain has behind it.               *)

\* The labels inside a loop over the deques; elsewhere i starts at 0.
InLoop == {"push_try", "push_locked", "pop_try", "pop_locked", "eject_lock", "eject_locked"}

LoopInv == \A th \in Threads : pc[th] \notin InLoop => i[th] = 0

\* A settled thunk was queued, and has not gone back to a pusher since.
PlacedInv == settled \subseteq Queued \cup taken

\* The deques that the current pass of a worker's stop_and_eject has emptied.
SweptBy(w) ==
  {q \in Queues : \/ pc[w] \in {"eject_lock", "eject_locked"} /\ q < i[w]
                  \/ pc[w] = "eject_check"}

SweptInv == \A w \in Workers : \A q \in SweptBy(w) : settled \cap Contents(q) = {}

DrainInv == LoopInv /\ PlacedInv /\ SweptInv /\ SettledAreDrained

LEMMA InitDrain == Init => DrainInv
<1> SUFFICES ASSUME Init PROVE DrainInv
  OBVIOUS
<1>1. /\ settled = {} /\ drained = {}
      /\ \A th \in Threads : i[th] = 0
  BY DEF Init
<1> QED
  BY <1>1 DEF DrainInv, LoopInv, PlacedInv, SweptInv, SettledAreDrained

LEMMA StepLoop == TypeInv /\ LoopInv /\ [Next]_vars => LoopInv'
<1> SUFFICES ASSUME TypeOK, LoopInv, [Next]_vars PROVE LoopInv'
  BY DEF TypeInv
<1> USE DEF InLoop, LoopInv, TypeOK, Goto
<1>0. Workers \subseteq Threads
  BY DEF Threads
<1>1. ASSUME NEW th \in Threads,
             \/ \E t \in Tasks : PushEnter(th, t)
             \/ PushCheck(th) \/ PushIndex(th) \/ PushTryLock(th)
      PROVE  LoopInv'
  BY <1>1 DEF PushEnter, PushCheck, PushIndex, PushTryLock
<1>2. ASSUME NEW th \in Threads, PushEmplace(th) \/ PushLeave(th)
      PROVE  LoopInv'
  BY <1>2 DEF PushEmplace, PushLeave, LeaveLoop
<1>3. ASSUME NEW th \in Threads, PushTryFail(th)
      PROVE  LoopInv'
  BY <1>3 DEF PushTryFail, NextSlot, LeaveLoop
<1>4. ASSUME NEW w \in Workers, PopIndex(w) \/ PopTryLock(w) \/ EjectBegin(w) \/ EjectLock(w)
      PROVE  LoopInv'
  BY <1>0, <1>4 DEF PopIndex, PopTryLock, EjectBegin, EjectLock
<1>5. ASSUME NEW w \in Workers, PopTryFail(w) \/ PopEmpty(w) \/ EjectSwap(w)
      PROVE  LoopInv'
  BY <1>0, <1>5 DEF PopTryFail, PopEmpty, EjectSwap, NextSlot, LeaveLoop
<1>6. ASSUME NEW w \in Workers, PopFront(w) \/ EjectCheck(w)
      PROVE  LoopInv'
  BY <1>0, <1>6 DEF PopFront, EjectCheck, LeaveLoop
<1>7. CASE UNCHANGED vars
  BY <1>7 DEF vars
<1> QED
  BY <1>1, <1>2, <1>3, <1>4, <1>5, <1>6, <1>7 DEF Next, Push, TryPop, StopAndEject

\* Thunks only move from the deques to those who took them.
LEMMA StepPlaced ==
  TypeInv /\ OwnershipInv /\ PlacedInv /\ [Next]_vars => PlacedInv'
<1> SUFFICES ASSUME TypeInv, OwnershipInv, PlacedInv, [Next]_vars PROVE PlacedInv'
  OBVIOUS
<1> USE DEF PlacedInv
<1>1. ASSUME NEW th \in Threads, NEW t \in Tasks, PushEnter(th, t)
      PROVE  PlacedInv'
  BY <1>1 DEF PushEnter, Queued, Contents
<1>2. ASSUME NEW th \in Threads, PushEmplace(th)
      PROVE  PlacedInv'
  <2>1. settled' = settled /\ taken' = taken
    BY <1>2 DEF PushEmplace, ledger
  <2> QED
    BY <1>2, <2>1, EmplaceContents
<1>3. ASSUME NEW th \in Threads, PushLeave(th)
      PROVE  PlacedInv'
  <2>1. Queued' = Queued /\ taken' = taken
    BY <1>3 DEF PushLeave, Queued, Contents
  <2>2. settled' \subseteq settled \cup {thunk[th]}
    BY <1>3 DEF PushLeave
  <2>3. settled' # settled => pc[th] = "push_done"
    BY <1>3 DEF PushLeave, Goto
  <2> QED
    BY <2>1, <2>2, <2>3 DEF OwnershipInv, DeliveredInv
<1>4. ASSUME NEW w \in Workers, PopFront(w)
      PROVE  PlacedInv'
  <2>1. settled' = settled
    BY <1>4 DEF PopFront
  <2> QED
    BY <1>4, <2>1, PopContents
<1>5. ASSUME NEW w \in Workers, EjectSwap(w)
      PROVE  PlacedInv'
  <2>1. settled' = settled
    BY <1>5 DEF EjectSwap
  <2> QED
    BY <1>5, <2>1, SwapContents
<1>6. CASE QuietStep
  BY <1>6 DEF QuietStep, Queued, Contents
<1> QED
  BY <1>1, <1>2, <1>3, <1>4, <1>5, <1>6, StepCases

\* Once done is signalled no thunk settles any more, and no settled thunk
\* gets into a deque.
LEMMA SettledStays ==
  ASSUME TypeInv, OwnershipInv, PlacedInv, [Next]_vars, is_done
  PROVE  /\ settled' = settled
         /\ \A q \in Queues : settled \cap Contents(q)' \subseteq Contents(q)
<1> DEFINE P == /\ settled' = settled
                /\ \A q \in Queues : settled \cap Contents(q)' \subseteq Contents(q)
<1>0. queue \in [Queues -> Seq(Tasks)]
  BY DEF TypeInv, TypeOK
<1>1. ASSUME NEW th \in Threads, NEW t \in Tasks, PushEnter(th, t)
      PROVE  P
  BY <1>1 DEF PushEnter, Contents
<1>2. ASSUME NEW th \in Threads, PushEmplace(th)
      PROVE  P
  <2>1. settled' = settled
    BY <1>2 DEF PushEmplace, ledger
  <2>2. PICK q0 \in Queues :
          /\ queue[q0] \in Seq(Tasks)
          /\ queue' = [queue EXCEPT ![q0] = Append(queue[q0], thunk[th])]
    BY <1>2, EmplaceContents
  <2>3. thunk[th] \in Tasks /\ pc[th] = "push_locked"
    BY <1>2, EmplaceContents
  <2>4. thunk[th] \notin settled
    BY <2>3, HeldMember DEF Holding, OwnershipInv, NoThunkDuplicated, PlacedInv
  <2>5. Contents(q0)' \subseteq Contents(q0) \cup {thunk[th]}
    <3> DEFINE s == queue[q0]
    <3>1. queue'[q0] = Append(s, thunk[th])
      BY <1>0, <2>2
    <3>2. /\ DOMAIN Append(s, thunk[th]) = 1 .. Len(s) + 1
          /\ DOMAIN s = 1 .. Len(s)
          /\ Len(s) \in Nat
          /\ \A k \in 1 .. Len(s) : Append(s, thunk[th])[k] = s[k]
          /\ Append(s, thunk[th])[Len(s) + 1] = thunk[th]
      BY <2>2, <2>3
    <3> QED
      BY <3>1, <3>2 DEF Contents
  <2>6. \A q \in Queues \ {q0} : Contents(q)' = Contents(q)
    BY <1>0, <2>2 DEF Contents
  <2> QED
    BY <2>1, <2>4, <2>5, <2>6
<1>3. ASSUME NEW th \in Threads, PushLeave(th)
      PROVE  P
  BY <1>3 DEF PushLeave, Contents
<1>4. ASSUME NEW w \in Workers, PopFront(w)
      PROVE  P
  <2>1. settled' = settled
    BY <1>4 DEF PopFront
  <2>2. PICK q0 \in Queues :
          /\ queue[q0] \in Seq(Tasks) /\ queue[q0] # <<>>
          /\ queue' = [queue EXCEPT ![q0] = Tail(queue[q0])]
    BY <1>4, PopContents
  <2>3. Contents(q0)' \subseteq Contents(q0)
    <3> DEFINE s == queue[q0]
    <3>1. queue'[q0] = Tail(s)
      BY <1>0, <2>2
    <3>2. /\ DOMAIN Tail(s) = 1 .. Len(s) - 1
          /\ DOMAIN s = 1 .. Len(s)
          /\ Len(s) \in Nat
          /\ \A k \in 1 .. Len(s) - 1 : Tail(s)[k] = s[k+1] /\ k + 1 \in 1 .. Len(s)
      BY <2>2
    <3> QED
      BY <3>1, <3>2 DEF Contents
  <2>4. \A q \in Queues \ {q0} : Contents(q)' = Contents(q)
    BY <1>0, <2>2 DEF Contents
  <2> QED
    BY <2>1, <2>3, <2>4
<1>5. ASSUME NEW w \in Workers, EjectSwap(w)
      PROVE  P
  <2>1. settled' = settled
    BY <1>5 DEF EjectSwap
  <2>2. \A q \in Queues : Contents(q)' = IF q = i[w] THEN {} ELSE Contents(q)
    BY <1>5, SwapContents
  <2> QED
    BY <2>1, <2>2
<1>6. CASE QuietStep
  BY <1>6 DEF QuietStep, Contents
<1> QED
  BY <1>1, <1>2, <1>3, <1>4, <1>5, <1>6, StepCases

\* A pass gets a deque behind it only by emptying it.
LEMMA SweptGrows ==
  ASSUME TypeInv, LoopInv, [Next]_vars, NEW w \in Workers
  PROVE  \/ SweptBy(w)' \subseteq SweptBy(w)
         \/ EjectSwap(w) /\ SweptBy(w)' \subseteq SweptBy(w) \cup {i[w]}
<1> DEFINE Kept == pc'[w] = pc[w] /\ i'[w] = i[w]
           Goal == \/ SweptBy(w)' \subseteq SweptBy(w)
                   \/ EjectSwap(w) /\ SweptBy(w)' \subseteq SweptBy(w) \cup {i[w]}
<1>0. TypeOK /\ w \in Threads /\ Workers \subseteq Threads
  BY DEF TypeInv, Threads
<1> USE DEF TypeOK, Goto
<1>1. Kept => Goal
  BY DEF SweptBy
<1>2. pc'[w] \notin {"eject_lock", "eject_locked", "eject_check"} => Goal
  BY DEF SweptBy
<1>3. ASSUME NEW th \in Threads, Push(th)
      PROVE  Goal
  <2>1. CASE th # w
    BY <1>0, <1>1, <1>3, <2>1
       DEF Push, PushEnter, PushCheck, PushIndex, PushTryLock, PushTryFail, PushEmplace,
           PushLeave, NextSlot, LeaveLoop
  <2>2. CASE th = w
    BY <1>0, <1>2, <1>3, <2>2
       DEF Push, PushEnter, PushCheck, PushIndex, PushTryLock, PushTryFail, PushEmplace,
           PushLeave, NextSlot
  <2> QED
    BY <2>1, <2>2
<1>4. ASSUME NEW x \in Workers, TryPop(x)
      PROVE  Goal
  <2>1. CASE x # w
    BY <1>0, <1>1, <1>4, <2>1
       DEF TryPop, PopIndex, PopTryLock, PopTryFail, PopEmpty, PopFront, NextSlot, LeaveLoop
  <2>2. CASE x = w
    BY <1>0, <1>2, <1>4, <2>2
       DEF TryPop, PopIndex, PopTryLock, PopTryFail, PopEmpty, PopFront, NextSlot
  <2> QED
    BY <2>1, <2>2
<1>5. ASSUME NEW x \in Workers, StopAndEject(x), x # w
      PROVE  Goal
  BY <1>0, <1>1, <1>5
     DEF StopAndEject, EjectBegin, EjectLock, EjectSwap, EjectCheck, NextSlot, LeaveLoop
<1>6. CASE EjectBegin(w) \/ EjectCheck(w)
  <2>1. i'[w] = 0
    BY <1>0, <1>6 DEF EjectBegin, EjectCheck, LoopInv, InLoop
  <2>2. pc'[w] \in {"eject_lock", "idle"}
    BY <1>0, <1>6 DEF EjectBegin, EjectCheck
  <2> QED
    BY <2>1, <2>2 DEF SweptBy, Queues
<1>7. CASE EjectLock(w)
  BY <1>0, <1>7 DEF EjectLock, SweptBy
<1>8. CASE EjectSwap(w)
  <2>1. pc[w] = "eject_locked" /\ i[w] \in 0 .. N-1 /\ N \in Nat
    BY <1>0, <1>8, NAssumption DEF EjectSwap, NextSlot, Queues
  <2>2. CASE i[w] + 1 < N /\ pc'[w] = "eject_lock" /\ i'[w] = i[w] + 1
    BY <1>8, <2>1, <2>2 DEF SweptBy, Queues
  <2>3. CASE i[w] + 1 = N /\ pc'[w] = "eject_check"
    BY <1>8, <2>1, <2>3 DEF SweptBy, Queues
  <2> QED
    BY <1>0, <1>8, <2>2, <2>3 DEF EjectSwap, NextSlot
<1>9. CASE UNCHANGED vars
  BY <1>1, <1>9 DEF vars
<1> QED
  BY <1>3, <1>4, <1>5, <1>6, <1>7, <1>8, <1>9 DEF Next, StopAndEject

LEMMA StepDrain ==
  TypeInv /\ HandshakeInv /\ OwnershipInv /\ DrainInv /\ [Next]_vars => DrainInv'
<1> SUFFICES ASSUME TypeInv, HandshakeInv, OwnershipInv, DrainInv, [Next]_vars
             PROVE  DrainInv'
  OBVIOUS
<1>0. LoopInv /\ PlacedInv /\ SweptInv /\ SettledAreDrained /\ Workers \subseteq Threads
  BY DEF DrainInv, Threads
<1>1. LoopInv' /\ PlacedInv'
  BY <1>0, StepLoop, StepPlaced
<1>2. SweptInv'
  <2> SUFFICES ASSUME NEW w \in Workers, NEW q \in SweptBy(w)'
               PROVE  (settled \cap Contents(q))' = {}
    BY DEF SweptInv
  <2>1. q \in Queues
    BY DEF SweptBy
  <2>2. CASE q \in SweptBy(w)
    <3>1. is_done
      BY <2>2 DEF SweptBy, HandshakeInv, DoneInv, Ejecting
    <3> QED
      BY <1>0, <2>1, <2>2, <3>1, SettledStays DEF SweptInv
  <2>3. CASE EjectSwap(w) /\ q = i[w]
    BY <2>1, <2>3, SwapContents
  <2> QED
    BY <1>0, <2>2, <2>3, SweptGrows
<1>3. SettledAreDrained'
  <2> SUFFICES ASSUME drained' # {} PROVE (settled \cap Queued)' = {}
    BY DEF SettledAreDrained
  <2>1. drained # {} \/ \E w \in Workers : pc[w] = "eject_check"
    <3>1. drained' = drained \/ \E w \in Workers : EjectCheck(w)
      BY DEF Next, Push, TryPop, StopAndEject, PushEnter, PushCheck, PushIndex, PushTryLock,
             PushTryFail, PushEmplace, PushLeave, PopIndex, PopTryLock, PopTryFail, PopEmpty,
             PopFront, EjectBegin, EjectLock, EjectSwap, ledger, vars
    <3> QED
      BY <3>1 DEF EjectCheck, Goto
  <2>2. is_done
    BY <2>1 DEF HandshakeInv, DoneInv, Ejecting
  <2>3. \A q \in Queues : settled \cap Contents(q) = {}
    BY <1>0, <2>1 DEF SettledAreDrained, SweptInv, SweptBy, Queued
  <2> QED
    BY <1>0, <2>2, <2>3, SettledStays DEF Queued
<1> QED
  BY <1>1, <1>2, <1>3 DEF DrainInv

\* stop_and_eject is complete for the thunks whose push had returned true
\* before done was signalled: once one call has returned none of them is in
\* a deque, whatever other pushes, pops and drains are in progress.
THEOREM SettledDrained == Spec => []SettledAreDrained
<1>1. Init => TypeInv /\ HandshakeInv /\ OwnershipInv /\ DrainInv
  BY InitTypeInv, InitHandshake, InitOwnership, InitDrain
<1>2. TypeInv /\ HandshakeInv /\ OwnershipInv /\ DrainInv /\ [Next]_vars
        => (TypeInv /\ HandshakeInv /\ OwnershipInv /\ DrainInv)'
  BY StepTypeInv, StepHandshake, StepOwnership, StepDrain
<1>3. DrainInv => SettledAreDrained
  BY DEF DrainInv
<1> QED
  BY <1>1, <1>2, <1>3, PTL DEF Spec

-----------------------------------------------------------------------------
(* The mutexes of the deques.                                              *)

\* A thread between taking a deque's mutex and releasing it, and the deque.
InDeque(th, q) ==
  \/ pc[th] \in {"push_locked", "pop_locked"} /\ q = Slot(th)
  \/ pc[th] = "eject_locked" /\ q = i[th]

Locked == {"push_locked", "pop_locked", "eject_locked"}

\* The mutex of a deque belongs to the thread that is in the deque.
PadlockInv == \A th \in Threads : \A q \in Queues : padlock[q] = th <=> InDeque(th, q)

\* No two threads are in one deque: `queue_', a plain std::deque, is only
\* ever touched by one of them.
DequesAreExclusive ==
  \A q \in Queues : \A t, u \in Threads : InDeque(t, q) /\ InDeque(u, q) => t = u

\* The execution context makes one deque more than it makes threads
\* (task_queue_{n_threads + 1}): its own threads never hold all the mutexes.
DequeToSpare == Cardinality(Workers) < N => \E q \in Queues : padlock[q] \notin Workers

LEMMA InitPadlock == Init => PadlockInv
BY NoneIsNone DEF Init, PadlockInv, InDeque

\* A step of th leaves the other threads where they were.
OnlyMoves(th) ==
  \A u \in Threads \ {th} : pc'[u] = pc[u] /\ i'[u] = i[u] /\ offset'[u] = offset[u]

LEMMA OthersStay ==
  ASSUME NEW th \in Threads, OnlyMoves(th), NEW u \in Threads \ {th}, NEW q
  PROVE  InDeque(u, q)' <=> InDeque(u, q)
BY DEF OnlyMoves, InDeque, Slot

\* A thread takes a mutex that nobody holds.
LEMMA TakesPadlock ==
  ASSUME TypeOK, PadlockInv, NEW th \in Threads, NEW q0 \in Queues, OnlyMoves(th),
         padlock[q0] = None, padlock' = [padlock EXCEPT ![q0] = th],
         pc[th] \notin Locked, \A q \in Queues : InDeque(th, q)' <=> q = q0
  PROVE  PadlockInv'
<1> SUFFICES ASSUME NEW u \in Threads, NEW q \in Queues
             PROVE  padlock'[q] = u <=> InDeque(u, q)'
  BY DEF PadlockInv
<1>0. padlock'[q] = IF q = q0 THEN th ELSE padlock[q]
  BY DEF TypeOK
<1>1. CASE u = th
  <2>1. padlock[q] # th
    BY DEF PadlockInv, InDeque, Locked
  <2> QED
    BY <1>0, <1>1, <2>1
<1>2. CASE u # th
  <2>1. InDeque(u, q)' <=> padlock[q] = u
    BY <1>2, OthersStay DEF PadlockInv
  <2> QED
    BY <1>0, <1>2, <2>1, NoneIsNone
<1> QED
  BY <1>1, <1>2

\* The thread in a deque releases its mutex.
LEMMA ReleasesPadlock ==
  ASSUME TypeOK, PadlockInv, NEW th \in Threads, NEW q0 \in Queues, OnlyMoves(th),
         InDeque(th, q0), padlock' = [padlock EXCEPT ![q0] = None], pc'[th] \notin Locked
  PROVE  PadlockInv'
<1> SUFFICES ASSUME NEW u \in Threads, NEW q \in Queues
             PROVE  padlock'[q] = u <=> InDeque(u, q)'
  BY DEF PadlockInv
<1>0. padlock'[q] = IF q = q0 THEN None ELSE padlock[q]
  BY DEF TypeOK
<1>1. padlock[q0] = th
  BY DEF PadlockInv
<1>2. CASE u = th
  <2>1. ~InDeque(u, q)'
    BY <1>2 DEF InDeque, Locked
  <2>2. padlock[q] = u => q = q0
    BY <1>2 DEF PadlockInv, InDeque
  <2> QED
    BY <1>0, <1>2, <2>1, <2>2, NoneIsNone
<1>3. CASE u # th
  <2>1. InDeque(u, q)' <=> padlock[q] = u
    BY <1>3, OthersStay DEF PadlockInv
  <2> QED
    BY <1>0, <1>1, <1>3, <2>1, NoneIsNone
<1> QED
  BY <1>2, <1>3

\* Any other step, of a thread that is in no deque.
LEMMA KeepsPadlocks ==
  ASSUME PadlockInv, NEW th \in Threads, OnlyMoves(th), padlock' = padlock,
         pc[th] \notin Locked, pc'[th] \notin Locked
  PROVE  PadlockInv'
<1>1. \A q \in Queues : ~InDeque(th, q) /\ ~InDeque(th, q)'
  BY DEF InDeque, Locked
<1> QED
  BY <1>1, OthersStay DEF PadlockInv

LEMMA StepPadlock == TypeInv /\ PadlockInv /\ [Next]_vars => PadlockInv'
<1> SUFFICES ASSUME TypeOK, PadlockInv, [Next]_vars PROVE PadlockInv'
  BY DEF TypeInv
<1>0. /\ Workers \subseteq Threads
      /\ pc \in [Threads -> Labels] /\ i \in [Threads -> Queues]
      /\ offset \in [Threads -> 0 .. IndexMod-1]
  BY DEF Threads, TypeOK
<1>1. ASSUME NEW th \in Threads,
             \/ \E t \in Tasks : PushEnter(th, t)
             \/ PushCheck(th) \/ PushIndex(th) \/ PushTryFail(th) \/ PushLeave(th)
      PROVE  PadlockInv'
  <2>1. padlock' = padlock
    BY <1>1 DEF PushEnter, PushCheck, PushIndex, PushTryFail, PushLeave
  <2>2. OnlyMoves(th) /\ pc[th] \notin Locked /\ pc'[th] \notin Locked
    BY <1>0, <1>1
       DEF PushEnter, PushCheck, PushIndex, PushTryFail, PushLeave, NextSlot, LeaveLoop,
           Goto, OnlyMoves, Locked
  <2> QED
    BY <2>1, <2>2, KeepsPadlocks
<1>2. ASSUME NEW w \in Workers,
             \/ PopIndex(w) \/ PopTryFail(w) \/ EjectBegin(w) \/ EjectCheck(w)
      PROVE  PadlockInv'
  <2>1. padlock' = padlock
    BY <1>2 DEF PopIndex, PopTryFail, EjectBegin, EjectCheck
  <2>2. OnlyMoves(w) /\ pc[w] \notin Locked /\ pc'[w] \notin Locked
    BY <1>0, <1>2
       DEF PopIndex, PopTryFail, EjectBegin, EjectCheck, NextSlot, LeaveLoop, Goto,
           OnlyMoves, Locked
  <2> QED
    BY <1>0, <2>1, <2>2, KeepsPadlocks
<1>3. ASSUME NEW th \in Threads, PushTryLock(th) \/ PopTryLock(th)
      PROVE  PadlockInv'
  <2>1. PICK q0 \in Queues : q0 = Slot(th)
    BY SlotInQueues
  <2>2. padlock[q0] = None /\ padlock' = [padlock EXCEPT ![q0] = th]
    BY <1>3, <2>1 DEF PushTryLock, PopTryLock
  <2>3. /\ OnlyMoves(th) /\ pc[th] \notin Locked
        /\ pc'[th] \in {"push_locked", "pop_locked"}
        /\ i' = i /\ offset' = offset
    BY <1>0, <1>3 DEF PushTryLock, PopTryLock, Goto, OnlyMoves, Locked
  <2>4. \A q \in Queues : InDeque(th, q)' <=> q = q0
    BY <2>1, <2>3 DEF InDeque, Slot
  <2> QED
    BY <2>2, <2>3, <2>4, TakesPadlock
<1>4. ASSUME NEW w \in Workers, EjectLock(w)
      PROVE  PadlockInv'
  <2>1. PICK q0 \in Queues : q0 = i[w]
    BY <1>0
  <2>2. padlock[q0] = None /\ padlock' = [padlock EXCEPT ![q0] = w]
    BY <1>4, <2>1 DEF EjectLock
  <2>3. OnlyMoves(w) /\ pc[w] \notin Locked /\ pc'[w] = "eject_locked" /\ i' = i
    BY <1>0, <1>4 DEF EjectLock, Goto, OnlyMoves, Locked
  <2>4. \A q \in Queues : InDeque(w, q)' <=> q = q0
    BY <2>1, <2>3 DEF InDeque
  <2> QED
    BY <1>0, <2>2, <2>3, <2>4, TakesPadlock
<1>5. ASSUME NEW th \in Threads, PushEmplace(th) \/ PopEmpty(th) \/ PopFront(th)
      PROVE  PadlockInv'
  <2>1. PICK q0 \in Queues : q0 = Slot(th)
    BY SlotInQueues
  <2>2. padlock' = [padlock EXCEPT ![q0] = None]
    BY <1>5, <2>1 DEF PushEmplace, PopEmpty, PopFront
  <2>3. /\ OnlyMoves(th) /\ pc[th] \in {"push_locked", "pop_locked"}
        /\ pc'[th] \notin Locked
    BY <1>0, <1>5
       DEF PushEmplace, PopEmpty, PopFront, NextSlot, LeaveLoop, Goto, OnlyMoves, Locked
  <2>4. InDeque(th, q0)
    BY <2>1, <2>3 DEF InDeque
  <2> QED
    BY <2>2, <2>3, <2>4, ReleasesPadlock
<1>6. ASSUME NEW w \in Workers, EjectSwap(w)
      PROVE  PadlockInv'
  <2>1. PICK q0 \in Queues : q0 = i[w]
    BY <1>0
  <2>2. padlock' = [padlock EXCEPT ![q0] = None]
    BY <1>6, <2>1 DEF EjectSwap
  <2>3. OnlyMoves(w) /\ pc[w] = "eject_locked" /\ pc'[w] \notin Locked
    BY <1>0, <1>6 DEF EjectSwap, NextSlot, LeaveLoop, Goto, OnlyMoves, Locked
  <2>4. InDeque(w, q0)
    BY <2>1, <2>3 DEF InDeque
  <2> QED
    BY <1>0, <2>2, <2>3, <2>4, ReleasesPadlock
<1>7. CASE UNCHANGED vars
  BY <1>7 DEF vars, PadlockInv, InDeque, Slot
<1> QED
  BY <1>0, <1>1, <1>2, <1>3, <1>4, <1>5, <1>6, <1>7 DEF Next, Push, TryPop, StopAndEject

\* The threads in the deques are as many as the mutexes they hold, so fewer
\* workers than deques cannot hold them all.
LEMMA SpareDeque == TypeInv /\ PadlockInv => DequeToSpare
<1> SUFFICES ASSUME TypeOK, PadlockInv, Cardinality(Workers) < N,
                    \A q \in Queues : padlock[q] \in Workers
             PROVE  FALSE
  BY DEF TypeInv, DequeToSpare
<1>1. \A q, r \in Queues : padlock[q] = padlock[r] => q = r
  BY DEF PadlockInv, InDeque, Threads
<1>2. padlock \in Injection(Queues, Workers)
  BY <1>1 DEF TypeOK, Injection, IsInjective
<1>3. IsFiniteSet(Workers) /\ Cardinality(Workers) \in Nat
  BY ThreadsFinite, FS_Subset, FS_CardinalityType DEF Threads
<1>4. Cardinality(Queues) <= Cardinality(Workers)
  BY <1>2, <1>3, FS_Injection
<1>5. Cardinality(Queues) = N
  BY FS_Interval, NAssumption DEF Queues
<1> QED
  BY <1>3, <1>4, <1>5, NAssumption

\* Mutual exclusion on the deques (OptimisiticLockingQueue): whatever mix of
\* blocking lock_guards and try_to_locks the threads take a deque's mutex
\* with, emplace_back, pop_front and swap never meet in one deque.
THEOREM DequeMutualExclusion == Spec => []DequesAreExclusive
<1>1. Init => TypeInv /\ PadlockInv
  BY InitTypeInv, InitPadlock
<1>2. TypeInv /\ PadlockInv /\ [Next]_vars => (TypeInv /\ PadlockInv)'
  BY StepTypeInv, StepPadlock
<1>3. PadlockInv => DequesAreExclusive
  BY DEF PadlockInv, DequesAreExclusive
<1> QED
  BY <1>1, <1>2, <1>3, PTL DEF Spec

\* With one deque more than the context has threads, as its constructor
\* makes them, the context's own threads never hold every mutex at once.  A
\* push whose round over the deques fails has met a mutex that another
\* poster holds, or mutexes that changed hands while it looked.
THEOREM WorkersLeaveADeque == Spec => []DequeToSpare
<1>1. Init => TypeInv /\ PadlockInv
  BY InitTypeInv, InitPadlock
<1>2. TypeInv /\ PadlockInv /\ [Next]_vars => (TypeInv /\ PadlockInv)'
  BY StepTypeInv, StepPadlock
<1>3. TypeInv /\ PadlockInv => DequeToSpare
  BY SpareDeque
<1> QED
  BY <1>1, <1>2, <1>3, PTL DEF Spec

\* A drain that cannot go on has another thread to wait for, and one that does
\* not wait for it: a mutex that it wants is held by a thread in that deque,
\* whose next step releases it, and an in_push_ that keeps it looping is the
\* count of pushes still in progress.
DrainWaitsForOthers ==
  \A w \in Workers :
    /\ pc[w] = "eject_lock" /\ padlock[i[w]] # None =>
         \E th \in Threads \ {w} : InDeque(th, i[w])
    /\ pc[w] = "eject_check" /\ in_push > 0 =>
         \E th \in Threads \ {w} : pc[th] \in InPush

LEMMA WaitsForOthers == TypeInv /\ PadlockInv => DrainWaitsForOthers
<1> SUFFICES ASSUME TypeOK, CountInv, PadlockInv, NEW w \in Workers
             PROVE  /\ pc[w] = "eject_lock" /\ padlock[i[w]] # None =>
                         \E th \in Threads \ {w} : InDeque(th, i[w])
                    /\ pc[w] = "eject_check" /\ in_push > 0 =>
                         \E th \in Threads \ {w} : pc[th] \in InPush
  BY DEF TypeInv, DrainWaitsForOthers
<1>0. w \in Threads /\ i[w] \in Queues
  BY DEF Threads, TypeOK
<1>1. ASSUME pc[w] = "eject_lock", padlock[i[w]] # None
      PROVE  \E th \in Threads \ {w} : InDeque(th, i[w])
  <2>1. PICK th \in Threads : padlock[i[w]] = th
    BY <1>0, <1>1 DEF TypeOK
  <2>2. InDeque(th, i[w])
    BY <1>0, <2>1 DEF PadlockInv
  <2>3. ~InDeque(w, i[w])
    BY <1>1 DEF InDeque
  <2> QED
    BY <2>2, <2>3
<1>2. ASSUME pc[w] = "eject_check", in_push > 0
      PROVE  \E th \in Threads \ {w} : pc[th] \in InPush
  <2>1. Pushers # {}
    BY <1>2, FS_EmptySet DEF CountInv
  <2>2. pc[w] \notin InPush
    BY <1>2 DEF InPush, Holding
  <2> QED
    BY <2>1, <2>2 DEF Pushers
<1> QED
  BY <1>1, <1>2

\* stop_and_eject cannot wait for itself or for nothing: neither its
\* lock_guards nor its loop on in_push_ can hang on a mutex or a count that
\* no thread would release.
THEOREM DrainsWaitForOthers == Spec => []DrainWaitsForOthers
<1>1. Init => TypeInv /\ PadlockInv
  BY InitTypeInv, InitPadlock
<1>2. TypeInv /\ PadlockInv /\ [Next]_vars => (TypeInv /\ PadlockInv)'
  BY StepTypeInv, StepPadlock
<1>3. TypeInv /\ PadlockInv => DrainWaitsForOthers
  BY WaitsForOthers
<1> QED
  BY <1>1, <1>2, <1>3, PTL DEF Spec

-----------------------------------------------------------------------------
(* The rounds over the deques                                              *)

\* The deque that a loop over the deques looks at when it started at off and
\* i is j: Slot(th) is RoundSlot(offset[th], i[th]).
RoundSlot(off, j) == ((off + j) % IndexMod) % N

LEMMA DivisionIs ==
  ASSUME NEW M \in Int, M > 0, NEW a \in Int
  PROVE  a \div M \in Int /\ a % M \in 0 .. M-1 /\ a % M = a - M * (a \div M)
OBVIOUS

LEMMA RemainderIs ==
  ASSUME NEW M \in Int, M > 0, NEW k \in Int, NEW r \in 0 .. M-1
  PROVE  (M * k + r) % M = r
OBVIOUS

\* N numbers in a row have all the remainders of a division by N.
LEMMA RowCovers ==
  ASSUME NEW a \in Int, NEW q \in Queues
  PROVE  \E j \in Queues : (a + j) % N = q
<1> DEFINE k == a \div N
           m == a % N
<1>1. N \in Int /\ N > 0 /\ q \in Int /\ q \in 0 .. N-1
  BY NAssumption DEF Queues
<1>2. k \in Int /\ m \in 0 .. N-1 /\ m = a - N * k
  BY <1>1, DivisionIs
<1> HIDE DEF k, m
<1>3. N * k \in Int /\ N * (k + 1) = N * k + N
  BY <1>1, <1>2
<1>4. CASE q >= m
  <2>1. q - m \in Queues /\ a + (q - m) = N * k + q
    BY <1>1, <1>2, <1>3, <1>4 DEF Queues
  <2>2. (N * k + q) % N = q
    BY <1>1, <1>2, RemainderIs
  <2> QED
    BY <2>1, <2>2
<1>5. CASE q < m
  <2>1. q - m + N \in Queues /\ a + (q - m + N) = N * (k + 1) + q
    BY <1>1, <1>2, <1>3, <1>5 DEF Queues
  <2>2. (N * (k + 1) + q) % N = q
    BY <1>1, <1>2, RemainderIs
  <2> QED
    BY <2>1, <2>2
<1> QED
  BY <1>1, <1>2, <1>4, <1>5

\* A round of push or try_pop looks at every deque, unless the unsigned sum
\* wraps within the round and the number of deques does not divide the number
\* of its values (with 3 deques, the round that starts at 2^32 - 1 looks at
\* deque 0 twice and never at deque 2).  So a try_pop that returns false has
\* found each deque locked or empty, but for that one round in 2^32.
THEOREM RoundVisitsEveryDeque ==
  ASSUME NEW off \in 0 .. IndexMod-1,
         off + N <= IndexMod \/ \E k \in Nat : IndexMod = N * k,
         NEW q \in Queues
  PROVE  \E j \in Queues : RoundSlot(off, j) = q
<1>0. /\ N \in Int /\ N > 0 /\ IndexMod \in Int /\ IndexMod > 0 /\ off \in Int
      /\ \A j \in Queues : j \in Int /\ j >= 0 /\ j < N
  BY NAssumption, IndexModAssumption DEF Queues
<1>1. PICK j \in Queues : (off + j) % N = q
  BY <1>0, RowCovers
<1>2. CASE off + j < IndexMod
  <2>1. off + j = IndexMod * 0 + (off + j) /\ off + j \in 0 .. IndexMod-1
    BY <1>0, <1>2
  <2>2. (off + j) % IndexMod = off + j
    BY <1>0, <2>1, RemainderIs
  <2> QED
    BY <1>1, <2>2 DEF RoundSlot
<1>3. CASE ~(off + j < IndexMod)
  <2>1. PICK k \in Nat : IndexMod = N * k
    BY <1>0, <1>3
  <2>2. k > 0
    BY <1>0, <2>1
  <2>3. N <= IndexMod
    BY <1>0, <2>1, <2>2
  <2> DEFINE r == off + j - IndexMod
  <2>4. off + j = IndexMod * 1 + r /\ r \in 0 .. IndexMod-1 /\ r \in Int
    BY <1>0, <1>3, <2>3
  <2>5. (off + j) % IndexMod = r
    BY <1>0, <2>4, RemainderIs
  <2> HIDE DEF r
  <2>6. (off + j) % N = r % N
    <3> DEFINE d == r \div N
               e == r % N
    <3>1. d \in Int /\ e \in 0 .. N-1 /\ e = r - N * d
      BY <1>0, <2>4, DivisionIs
    <3>2. (N * (k + d) + e) % N = e
      <4>1. k + d \in Int
        BY <3>1
      <4> HIDE DEF d, e
      <4> QED
        BY <1>0, <3>1, <4>1, RemainderIs
    <3> HIDE DEF d
    <3>3. N * (k + d) = N * k + N * d /\ N * d \in Int
      BY <1>0, <3>1
    <3>4. off + j = N * (k + d) + e
      <4> HIDE DEF e
      <4> QED
        BY <1>0, <2>1, <2>4, <3>1, <3>3
    <3> QED
      BY <3>2, <3>4
  <2> QED
    BY <1>1, <2>5, <2>6 DEF RoundSlot
<1> QED
  BY <1>2, <1>3

LEMMA SlotOfRound == \A th \in Threads : Slot(th) = RoundSlot(offset[th], i[th])
BY DEF Slot, RoundSlot
=============================================================================
