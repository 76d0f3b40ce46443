------------------------------ MODULE TaskQueue ------------------------------
(***************************************************************************)
(* AtomicTaskStealingQueue and the OptimisiticLockingQueue it is made of   *)
(* (src/src/sgrpc/detail/atomic_task_stealing_queue.hpp).                  *)
(*                                                                         *)
(* One action per atomic access: every fetch_add, load, store, try_lock    *)
(* and every critical section of a deque's mutex is a step of its own, so  *)
(* all interleavings of push, try_pop and stop_and_eject are explored.     *)
(*                                                                         *)
(* Atomics are sequentially consistent.  On x86-64, which the build        *)
(* targets, that is what the code gets: the only plain store of the        *)
(* protocol, is_done_.store, is followed by a locked instruction (the      *)
(* first eject's mutex) before in_push_ is read.                           *)
(*                                                                         *)
(* The threads are the ones ExecutionContext creates or serves.  Posters   *)
(* call push.  Workers call try_pop in a loop and, once, stop_and_eject;   *)
(* the thunks they run may push too.                                       *)
(***************************************************************************)
EXTENDS Naturals, Sequences, FiniteSets

CONSTANTS
  Workers,      \* the execution context's threads
  Posters,      \* any other thread that posts thunks
  Tasks,        \* the thunks that may be pushed, each one at most once
  N,            \* n_queues_, the number of deques
  IndexMod,     \* number of values of the `unsigned' push_index_ and pop_index_
  None          \* no thread, no thunk

Threads == Workers \cup Posters

ASSUME ThreadsFinite == IsFiniteSet(Threads)
ASSUME NoneIsNone == None \notin Threads /\ None \notin Tasks
ASSUME NAssumption == N \in Nat \ {0}
ASSUME IndexModAssumption == IndexMod \in Nat \ {0}

Queues == 0 .. N-1

VARIABLES
  queue,        \* queue_ of every deque
  padlock,      \* the holder of every deque's mutex, or None
  push_index,   \* push_index_
  pop_index,    \* pop_index_
  in_push,      \* in_push_
  is_done,      \* is_done_
  pc,           \* where each thread is
  thunk,        \* the argument of the push a thread is in, or None
  offset,       \* the local `offset' of push and try_pop
  i,            \* the local `i' of all three loops
  offered,      \* thunks ever passed to push
  taken,        \* thunks handed out, by try_pop or in a deque of stop_and_eject
  refused,      \* thunks whose push returned false
  settled,      \* history: thunks whose push returned true before done was signalled
  drained       \* workers whose stop_and_eject has returned

vars == <<queue, padlock, push_index, pop_index, in_push, is_done, pc, thunk,
          offset, i, offered, taken, refused, settled, drained>>

\* What the users of the queue see, and what a thread's own steps change.
shared == <<push_index, pop_index, in_push, is_done>>
ledger == <<offered, taken, refused, settled, drained>>

\* The program points of push.  InPush lists the ones between the two updates
\* of in_push_; Holding, the ones where the pusher still owns the thunk.
Holding == {"push_check", "push_index", "push_try", "push_locked", "push_refused"}
InPush == Holding \cup {"push_done"}
Popping == {"pop_try", "pop_locked"}
Ejecting == {"eject_lock", "eject_locked", "eject_check"}
Labels == {"idle"} \cup InPush \cup Popping \cup Ejecting

Goto(th, from, to) ==
  /\ pc[th] = from
  /\ pc' = [pc EXCEPT ![th] = to]

\* queues_[(offset + i) % n_queues_]: the sum is an `unsigned' and wraps.
Slot(th) == ((offset[th] + i[th]) % IndexMod) % N

\* A call's loop variables are gone when it returns.
LeaveLoop(th) ==
  /\ offset' = [offset EXCEPT ![th] = 0]
  /\ i' = [i EXCEPT ![th] = 0]

\* `++i': the next deque, or, after the last one, on to label `after'.
NextSlot(th, from, to, after) ==
  \/ /\ i[th] + 1 < N
     /\ Goto(th, from, to)
     /\ i' = [i EXCEPT ![th] = @ + 1]
     /\ UNCHANGED offset
  \/ /\ i[th] + 1 = N
     /\ Goto(th, from, after)
     /\ LeaveLoop(th)

Contents(q) == {queue[q][k] : k \in DOMAIN queue[q]}

Queued == UNION {Contents(q) : q \in Queues}

Init ==
  /\ queue = [q \in Queues |-> <<>>]
  /\ padlock = [q \in Queues |-> None]
  /\ push_index = 0
  /\ pop_index = 0
  /\ in_push = 0
  /\ is_done = FALSE
  /\ pc = [th \in Threads |-> "idle"]
  /\ thunk = [th \in Threads |-> None]
  /\ offset = [th \in Threads |-> 0]
  /\ i = [th \in Threads |-> 0]
  /\ offered = {}
  /\ taken = {}
  /\ refused = {}
  /\ settled = {}
  /\ drained = {}

-----------------------------------------------------------------------------
(* push                                                                    *)

\* in_push_.fetch_add(1)
PushEnter(th, t) ==
  /\ Goto(th, "idle", "push_check")
  /\ t \notin offered
  /\ in_push' = in_push + 1
  /\ thunk' = [thunk EXCEPT ![th] = t]
  /\ offered' = offered \cup {t}
  /\ UNCHANGED <<queue, padlock, push_index, pop_index, is_done, offset, i,
                 taken, refused, settled, drained>>

\* Mutant: push does not look at is_done_.
PushCheckIgnoresDone(th) ==
  /\ Goto(th, "push_check", "push_index")
  /\ UNCHANGED <<queue, padlock, shared, thunk, offset, i, ledger>>

\* Mutant: a refused push subtracts here, and when it returns again.
PushCheckSubtracts(th) ==
  /\ Goto(th, "push_check", IF is_done THEN "push_refused" ELSE "push_index")
  /\ in_push' = IF is_done THEN in_push - 1 ELSE in_push
  /\ UNCHANGED <<queue, padlock, push_index, pop_index, is_done, thunk, offset, i, ledger>>

\* is_done = done_is_signalled()
PushCheck(th) ==
  /\ Goto(th, "push_check", IF is_done THEN "push_refused" ELSE "push_index")
  /\ UNCHANGED <<queue, padlock, shared, thunk, offset, i, ledger>>

\* offset = push_index_.fetch_add(1), the head of the retry loop
PushIndex(th) ==
  /\ Goto(th, "push_index", "push_try")
  /\ offset' = [offset EXCEPT ![th] = push_index]
  /\ push_index' = (push_index + 1) % IndexMod
  /\ UNCHANGED <<queue, padlock, pop_index, in_push, is_done, thunk, i, ledger>>

\* try_push: try_to_lock succeeds
PushTryLock(th) ==
  /\ Goto(th, "push_try", "push_locked")
  /\ padlock[Slot(th)] = None
  /\ padlock' = [padlock EXCEPT ![Slot(th)] = th]
  /\ UNCHANGED <<queue, shared, thunk, offset, i, ledger>>

\* Mutant: push makes one round over the deques and gives up.
PushTryFailGivesUp(th) ==
  /\ NextSlot(th, "push_try", "push_try", "push_done")
  /\ padlock[Slot(th)] # None
  /\ UNCHANGED <<queue, padlock, shared, thunk, ledger>>

\* try_push: try_to_lock fails; the next deque, or a new round
PushTryFail(th) ==
  /\ NextSlot(th, "push_try", "push_try", "push_index")
  /\ padlock[Slot(th)] # None
  /\ UNCHANGED <<queue, padlock, shared, thunk, ledger>>

\* try_push: emplace_back, and the lock is released
PushEmplace(th) ==
  /\ Goto(th, "push_locked", "push_done")
  /\ queue' = [queue EXCEPT ![Slot(th)] = Append(@, thunk[th])]
  /\ padlock' = [padlock EXCEPT ![Slot(th)] = None]
  /\ LeaveLoop(th)
  /\ UNCHANGED <<shared, thunk, ledger>>

\* Mutant: a refused push returns early, without the fetch_sub.
PushLeaveLeaks(th) ==
  /\ \/ /\ Goto(th, "push_refused", "idle")
        /\ UNCHANGED in_push
        /\ refused' = refused \cup {thunk[th]}
        /\ UNCHANGED settled
     \/ /\ Goto(th, "push_done", "idle")
        /\ in_push' = in_push - 1
        /\ settled' = IF is_done THEN settled ELSE settled \cup {thunk[th]}
        /\ UNCHANGED refused
  /\ thunk' = [thunk EXCEPT ![th] = None]
  /\ UNCHANGED <<queue, padlock, push_index, pop_index, is_done, offset, i,
                 offered, taken, drained>>

\* in_push_.fetch_sub(1); return !is_done
PushLeave(th) ==
  /\ \/ /\ Goto(th, "push_refused", "idle")
        /\ refused' = refused \cup {thunk[th]}
        /\ UNCHANGED settled
     \/ /\ Goto(th, "push_done", "idle")
        /\ settled' = IF is_done THEN settled ELSE settled \cup {thunk[th]}
        /\ UNCHANGED refused
  /\ in_push' = in_push - 1
  /\ thunk' = [thunk EXCEPT ![th] = None]
  /\ UNCHANGED <<queue, padlock, push_index, pop_index, is_done, offset, i,
                 offered, taken, drained>>

-----------------------------------------------------------------------------
(* try_pop                                                                 *)

\* offset = pop_index_.fetch_add(1)
PopIndex(w) ==
  /\ w \notin drained
  /\ Goto(w, "idle", "pop_try")
  /\ offset' = [offset EXCEPT ![w] = pop_index]
  /\ pop_index' = (pop_index + 1) % IndexMod
  /\ UNCHANGED <<queue, padlock, push_index, in_push, is_done, thunk, i, ledger>>

PopTryLock(w) ==
  /\ Goto(w, "pop_try", "pop_locked")
  /\ padlock[Slot(w)] = None
  /\ padlock' = [padlock EXCEPT ![Slot(w)] = w]
  /\ UNCHANGED <<queue, shared, thunk, offset, i, ledger>>

\* try_to_lock fails; the next deque, or try_pop returns false
PopTryFail(w) ==
  /\ NextSlot(w, "pop_try", "pop_try", "idle")
  /\ padlock[Slot(w)] # None
  /\ UNCHANGED <<queue, padlock, shared, thunk, ledger>>

\* the deque is empty; the next one, or try_pop returns false
PopEmpty(w) ==
  /\ NextSlot(w, "pop_locked", "pop_try", "idle")
  /\ queue[Slot(w)] = <<>>
  /\ padlock' = [padlock EXCEPT ![Slot(w)] = None]
  /\ UNCHANGED <<queue, shared, thunk, ledger>>

\* Mutant: front() without pop_front().
PopFrontKeeps(w) ==
  /\ Goto(w, "pop_locked", "idle")
  /\ queue[Slot(w)] # <<>>
  /\ taken' = taken \cup {Head(queue[Slot(w)])}
  /\ UNCHANGED queue
  /\ padlock' = [padlock EXCEPT ![Slot(w)] = None]
  /\ LeaveLoop(w)
  /\ UNCHANGED <<shared, thunk, offered, refused, settled, drained>>

\* x = std::move(queue_.front()); pop_front(); try_pop returns true
PopFront(w) ==
  /\ Goto(w, "pop_locked", "idle")
  /\ queue[Slot(w)] # <<>>
  /\ taken' = taken \cup {Head(queue[Slot(w)])}
  /\ queue' = [queue EXCEPT ![Slot(w)] = Tail(@)]
  /\ padlock' = [padlock EXCEPT ![Slot(w)] = None]
  /\ LeaveLoop(w)
  /\ UNCHANGED <<shared, thunk, offered, refused, settled, drained>>

-----------------------------------------------------------------------------
(* stop_and_eject                                                          *)

\* signal_done(), and the first pass starts
EjectBegin(w) ==
  /\ w \notin drained
  /\ Goto(w, "idle", "eject_lock")
  /\ is_done' = TRUE
  /\ UNCHANGED <<queue, padlock, push_index, pop_index, in_push, thunk, offset, i, ledger>>

\* eject: lock_guard blocks until the deque's mutex is free
EjectLock(w) ==
  /\ Goto(w, "eject_lock", "eject_locked")
  /\ padlock[i[w]] = None
  /\ padlock' = [padlock EXCEPT ![i[w]] = w]
  /\ UNCHANGED <<queue, shared, thunk, offset, i, ledger>>

\* Mutant: the pass ends before the last deque.
EjectSwapStopsEarly(w) ==
  /\ \/ /\ i[w] + 2 < N
        /\ Goto(w, "eject_locked", "eject_lock")
        /\ i' = [i EXCEPT ![w] = @ + 1]
        /\ UNCHANGED offset
     \/ /\ i[w] + 2 >= N
        /\ Goto(w, "eject_locked", "eject_check")
        /\ LeaveLoop(w)
  /\ taken' = taken \cup Contents(i[w])
  /\ queue' = [queue EXCEPT ![i[w]] = <<>>]
  /\ padlock' = [padlock EXCEPT ![i[w]] = None]
  /\ UNCHANGED <<shared, thunk, offered, refused, settled, drained>>

\* eject: the deque is swapped out; its thunks join the local `thunks'
EjectSwap(w) ==
  /\ NextSlot(w, "eject_locked", "eject_lock", "eject_check")
  /\ taken' = taken \cup Contents(i[w])
  /\ queue' = [queue EXCEPT ![i[w]] = <<>>]
  /\ padlock' = [padlock EXCEPT ![i[w]] = None]
  /\ UNCHANGED <<shared, thunk, offered, refused, settled, drained>>

\* Mutant: one pass, whatever in_push_ is.
EjectCheckOnePass(w) ==
  /\ \/ /\ in_push > 0
        /\ Goto(w, "eject_check", "eject_lock")
        /\ UNCHANGED drained
     \/ /\ Goto(w, "eject_check", "idle")
        /\ drained' = drained \cup {w}
  /\ UNCHANGED <<queue, padlock, shared, thunk, offset, i, offered, taken, refused, settled>>

\* while (in_push_.load() > 0): another pass, or return
EjectCheck(w) ==
  /\ \/ /\ in_push > 0
        /\ Goto(w, "eject_check", "eject_lock")
        /\ UNCHANGED drained
     \/ /\ in_push = 0
        /\ Goto(w, "eject_check", "idle")
        /\ drained' = drained \cup {w}
  /\ UNCHANGED <<queue, padlock, shared, thunk, offset, i, offered, taken, refused, settled>>

-----------------------------------------------------------------------------
Push(th) ==
  \/ \E t \in Tasks : PushEnter(th, t)
  \/ PushCheck(th)
  \/ PushIndex(th)
  \/ PushTryLock(th)
  \/ PushTryFail(th)
  \/ PushEmplace(th)
  \/ PushLeave(th)

TryPop(w) ==
  \/ PopIndex(w)
  \/ PopTryLock(w)
  \/ PopTryFail(w)
  \/ PopEmpty(w)
  \/ PopFront(w)

StopAndEject(w) ==
  \/ EjectBegin(w)
  \/ EjectLock(w)
  \/ EjectSwap(w)
  \/ EjectCheck(w)

Next ==
  \/ \E th \in Threads : Push(th)
  \/ \E w \in Workers : TryPop(w) \/ StopAndEject(w)

Spec == Init /\ [][Next]_vars

-----------------------------------------------------------------------------
(* Fairness.  A started push, try_pop or stop_and_eject keeps running,     *)
(* which includes getting a mutex that stays free.  GetsIn has what is     *)
(* only free again and again: a push is not for ever unlucky with its      *)
(* try_lock, and a worker leaves its loop for stop_and_eject some time     *)
(* once the context is stopped.  Both happen finitely often, so that one   *)
(* strong fairness for all of them is enough.                              *)

CallStep(th) ==
  \/ PushCheck(th) \/ PushIndex(th) \/ PushTryLock(th) \/ PushTryFail(th)
  \/ PushEmplace(th) \/ PushLeave(th)
  \/ PopTryLock(th) \/ PopTryFail(th) \/ PopEmpty(th) \/ PopFront(th)
  \/ EjectLock(th) \/ EjectSwap(th) \/ EjectCheck(th)

GetsIn == \/ \E th \in Threads : PushTryLock(th)
          \/ \E w \in Workers : EjectBegin(w)

Fairness == (\A th \in Threads : WF_vars(CallStep(th))) /\ SF_vars(GetsIn)

FairSpec == Spec /\ Fairness

-----------------------------------------------------------------------------
TypeOK ==
  /\ queue \in [Queues -> Seq(Tasks)]
  /\ padlock \in [Queues -> Threads \cup {None}]
  /\ push_index \in 0 .. IndexMod-1
  /\ pop_index \in 0 .. IndexMod-1
  /\ in_push \in Nat
  /\ is_done \in BOOLEAN
  /\ pc \in [Threads -> Labels]
  /\ thunk \in [Threads -> Tasks \cup {None}]
  /\ offset \in [Threads -> 0 .. IndexMod-1]
  /\ i \in [Threads -> Queues]
  /\ offered \subseteq Tasks
  /\ taken \subseteq Tasks
  /\ refused \subseteq Tasks
  /\ settled \subseteq Tasks
  /\ drained \subseteq Workers

\* The thunks that pushes in progress still own.
Held == {thunk[th] : th \in {x \in Threads : pc[x] \in Holding}}

\* A thunk passed to push never disappears: until its push moves it into a
\* deque the pusher owns it, then it is in a deque, until try_pop or
\* stop_and_eject hands it out; or its push returned false.  push retries
\* until some try_push succeeds, and a failed try_push leaves `f' alone.
NoThunkLost == offered = Held \cup Queued \cup taken \cup refused

\* No thunk is in two places, so none is run twice: not at two positions of
\* the deques, not in a deque and handed out, and a push that returns false
\* has left no copy behind.
NoThunkDuplicated ==
  /\ \A q, r \in Queues : \A j \in DOMAIN queue[q], k \in DOMAIN queue[r] :
       queue[q][j] = queue[r][k] => q = r /\ j = k
  /\ Queued \cap taken = {}
  /\ (Queued \cup taken) \cap (Held \cup refused) = {}

\* stop_and_eject is complete for the thunks it can be held to: once any
\* worker has returned from it, every thunk whose push had returned true
\* before done was signalled has been handed out, whatever the other workers
\* and pushers are doing.
SettledAreDrained == drained # {} => settled \cap Queued = {}

\* The in_push_ / is_done_ handshake: when one stop_and_eject has returned no
\* push is between its check of is_done_ and its emplace_back, so nothing is
\* queued ever again.
NothingQueuedAfterDrain == [][drained # {} => Queued' \subseteq Queued]_vars

\* Every worker gets through stop_and_eject: the loop on in_push_ ends, with
\* another drain taking the mutexes the pushes try, and with pushes that start
\* while it runs, get in before or are refused.  Each of them puts the end off, so
\* this needs that they are finitely many, as Tasks is in every instance: of
\* pushes that never stop overlapping, in_push_ need never be seen to be zero.
EveryDrainReturns == <>(drained = Workers)

\* The queue is the pool of thunks of TaskPool, the deques being where the
\* pool is kept: thunks are handed out once, and only a push that read
\* is_done_ = false before it was set can still deliver.
Pool == INSTANCE TaskPool WITH
  admitted <- {thunk[th] : th \in {x \in Threads :
                 pc[x] \in {"push_index", "push_try", "push_locked"}}},
  pool <- Queued,
  done <- is_done

ImplementsTaskPool == Pool!PoolSpec

\* "Drains the underlying queues, returning all the thunks."
\* (atomic_task_stealing_queue.hpp:129): when every worker has drained the
\* queue and no call is in progress, no thunk is left in it.
DrainReturnsAllThunks ==
  (drained = Workers /\ \A th \in Threads : pc[th] = "idle") => Queued = {}
=============================================================================
