-------------------------- MODULE ExecutionContext --------------------------
(***************************************************************************)
(* sgrpc::ExecutionContext (src/src/sgrpc/execution_context.{hpp,cpp}):    *)
(* worker threads that poll gRPC completion queues and a queue of thunks,  *)
(* the three kinds of post, run_while, and the shutdown protocol of stop.  *)
(*                                                                         *)
(* The thunk queue is TaskPool, which TaskQueue implements; the two atomic *)
(* accesses on either side of a push (in_push_ + is_done_, emplace_back +  *)
(* in_push_) are merged here.  The completion queues are CompletionQueue.  *)
(* Every post is an item with its own control state, whichever thread      *)
(* makes it: an application thread, or a worker inside a callback.         *)
(*                                                                         *)
(* What the program around the context does is fixed by the constants:     *)
(* which work is posted, who calls run and stop, which servers are         *)
(* attached, and the two switches at the end of the list.                  *)
(***************************************************************************)
EXTENDS Naturals, Sequences, FiniteSets, CompletionQueue

CONSTANTS
  NThreads,         \* n_threads_
  NCqs,             \* cqs_.size()
  IndexMod,         \* number of values of the size_t next_cq_write_index_
  Thunks,           \* posts of a plain thunk
  Alarms,           \* posts of a thunk to call after a delay
  Rpcs,             \* posts of an rpc factory
  Deadlined,        \* posts of a thunk with a deadline
  Servers,          \* server containers built for this context
  Notes,            \* calls of add_notify_at_stopped
  Runners,          \* threads that call run or run_while
  Stoppers,         \* application threads that call stop, the destructor included
  None,             \* nobody holds padlock_
  PredicateFires,   \* the predicate of run_while may return true
  ServersStopFirst  \* the application shuts its gRPC servers down without waiting for stop

ASSUME NThreadsAssumption == NThreads \in Nat \ {0}
ASSUME NCqsAssumption == NCqs \in Nat \ {0}
ASSUME IndexModIsPositive == IndexMod \in Nat \ {0}
ASSUME SwitchesAssumption == PredicateFires \in BOOLEAN /\ ServersStopFirst \in BOOLEAN

Workers == 0 .. NThreads-1
Cqs == 0 .. NCqs-1
Items == Thunks \cup Alarms \cup Rpcs \cup Deadlined
Callers == Stoppers \cup Workers
Tags == Items \cup Servers          \* the events of the completion queues

\* Different things have different names.
ASSUME ItemsAssumption ==
  /\ IsFiniteSet(Items)
  /\ Thunks \cap (Alarms \cup Rpcs) = {}
  /\ Rpcs \cap (Alarms \cup Deadlined) = {}
  /\ Alarms \cap Deadlined = {}
  /\ Items \cap Servers = {}
ASSUME NamesAssumption ==
  /\ None \notin Callers \cup Notes \cup Servers
  /\ Stoppers \cap Workers = {}
  /\ Callers \cap (Notes \cup Servers) = {}
  /\ Notes \cap Servers = {}

\* enum class ExecutionState, in order
Ready == 0
Running == 1
ShuttingDown == 2
Stopped == 3

VARIABLES
  state,            \* state_
  padlock,          \* the holder of padlock_, or None
  threads,          \* threads_: the numbers of the joinable threads in the vector
  servers,          \* servers_
  notifications,    \* notifications_
  within_cq_post,   \* within_cq_post_
  next_cq,          \* next_cq_write_index_
  cqs,              \* cqs_
  server_cqs,       \* the work queue of every server
  admitted, pool, taken, refused, done,     \* task_queue_, see TaskPool
  ppc,              \* where each post is
  wpc,              \* where each worker is in run_one_thread_
  pos,              \* a worker's place in its pass over the completion queues
  shut,             \* shutdown_cq_count
  hand,             \* the events or thunks a worker has fetched and not run yet
  runpc,            \* where each runner is in run_while
  spc,              \* where each caller of stop is
  at,               \* loop position of the stop in progress
  notes_due,        \* the local `notifications' of stop
  npc,              \* where each add_notify_at_stopped is
  apc,              \* where each GenericServerContainer::make is
  ran,              \* items whose callback was called, and completed server tags
  calls,            \* history: how often the callback of each item was called
  heap,             \* CompletionQueueEvent objects that are allocated
  notified,         \* notification thunks that were called
  settled,          \* history: thunks whose post returned true before done
  terminated        \* std::terminate was called

control == <<state, padlock, threads, servers, notifications>>
queueVars == <<within_cq_post, next_cq, cqs>>
poolVars == <<admitted, pool, taken, refused, done>>
workerVars == <<wpc, pos, shut, hand>>
stopVars == <<spc, at, notes_due>>
outcome == <<ran, calls, heap, notified, settled, terminated>>
vars == <<control, queueVars, server_cqs, poolVars, ppc, workerVars, runpc, stopVars,
          npc, apc, outcome>>

TP == INSTANCE TaskPool WITH Tasks <- Thunks \cup Deadlined

CqPosting == {"check", "bind", "leave_posted", "leave_refused"}
PostLabels == {"fresh", "push", "accepted", "rejected"} \cup CqPosting
WorkerLabels == {"unborn", "top", "in_stop", "scan", "complete", "pop", "run", "eject",
                 "drain", "drain_check", "drain_run", "exited"}
RunLabels == {"idle", "spawn", "returned"}
StopLabels == {"idle", "wait", "shutdown", "join", "lock", "swap", "notify", "returned"}
NoteLabels == {"fresh", "push", "drop", "added", "dropped"}
AttachLabels == {"fresh", "built", "push", "throw", "attached", "thrown"}

\* No step is taken once std::terminate was called.
PostGoto(x, from, to) == ~terminated /\ ppc[x] = from /\ ppc' = [ppc EXCEPT ![x] = to]
WorkerGoto(w, from, to) == ~terminated /\ wpc[w] = from /\ wpc' = [wpc EXCEPT ![w] = to]
RunGoto(r, from, to) == ~terminated /\ runpc[r] = from /\ runpc' = [runpc EXCEPT ![r] = to]
StopGoto(c, from, to) == ~terminated /\ spc[c] = from /\ spc' = [spc EXCEPT ![c] = to]
NoteGoto(n, from, to) == ~terminated /\ npc[n] = from /\ npc' = [npc EXCEPT ![n] = to]
AttachGoto(s, from, to) == ~terminated /\ apc[s] = from /\ apc' = [apc EXCEPT ![s] = to]

\* The history of the callbacks: those in S are called.
Called(S) == calls' = [x \in Items |-> IF x \in S THEN calls[x] + 1 ELSE calls[x]]

Init ==
  /\ state = Ready
  /\ padlock = None
  /\ threads = {}
  /\ servers = <<>>
  /\ notifications = {}
  /\ within_cq_post = 0
  /\ next_cq = 0
  /\ cqs = [c \in Cqs |-> NewQueue]
  /\ server_cqs = [s \in Servers |-> NewQueue]
  /\ TP!PoolInit
  /\ ppc = [x \in Items |-> "fresh"]
  /\ wpc = [w \in Workers |-> "unborn"]
  /\ pos = [w \in Workers |-> 0]
  /\ shut = [w \in Workers |-> 0]
  /\ hand = [w \in Workers |-> {}]
  /\ runpc = [r \in Runners |-> "idle"]
  /\ spc = [c \in Callers |-> "idle"]
  /\ at = 0
  /\ notes_due = {}
  /\ npc = [n \in Notes |-> "fresh"]
  /\ apc = [s \in Servers |-> "fresh"]
  /\ ran = {}
  /\ calls = [x \in Items |-> 0]
  /\ heap = {}
  /\ notified = {}
  /\ settled = {}
  /\ terminated = FALSE

-----------------------------------------------------------------------------
(* post.  A deadlined thunk takes the first way while now <= deadline, and *)
(* the way of an alarm, with a delay that is over, when it is later.       *)

\* post(ThunkType): push reads is_done_
PostThunk(x) ==
  /\ x \in Thunks \cup Deadlined
  /\ \/ PostGoto(x, "fresh", "push") /\ TP!Admit(x)
     \/ PostGoto(x, "fresh", "rejected") /\ TP!Refuse(x)
  /\ UNCHANGED <<control, queueVars, server_cqs, workerVars, runpc, stopVars, npc, apc, outcome>>

\* post(ThunkType): push has found a deque, post returns true
PostInsert(x) ==
  /\ PostGoto(x, "push", "accepted")
  /\ TP!Accept(x)
  /\ settled' = IF done THEN settled ELSE settled \cup {x}
  /\ UNCHANGED <<control, queueVars, server_cqs, workerVars, runpc, stopVars, npc, apc,
                 ran, calls, heap, notified, terminated>>

\* post(delta), post(RpcFactory): within_cq_post_.fetch_add(1)
PostCqEnter(x) ==
  /\ x \in Alarms \cup Rpcs \cup Deadlined
  /\ PostGoto(x, "fresh", "check")
  /\ within_cq_post' = within_cq_post + 1
  /\ UNCHANGED <<control, next_cq, cqs, server_cqs, poolVars, workerVars, runpc, stopVars,
                 npc, apc, outcome>>

\* can_post = get_state() <= ExecutionState::Running
PostCqCheck(x) ==
  /\ PostGoto(x, "check", IF state <= Running THEN "bind" ELSE "leave_refused")
  /\ UNCHANGED <<control, queueVars, server_cqs, poolVars, workerVars, runpc, stopVars,
                 npc, apc, outcome>>

\* new Alarm{get_next_cq_(), ...}, call_factory(get_next_cq_()).release()
PostCqBind(x) ==
  /\ PostGoto(x, "bind", "leave_posted")
  /\ cqs' = [cqs EXCEPT ![next_cq % NCqs] = Start(@, x)]
  /\ next_cq' = (next_cq + 1) % IndexMod
  /\ heap' = heap \cup {x}
  /\ UNCHANGED <<control, within_cq_post, server_cqs, poolVars, workerVars, runpc, stopVars,
                 npc, apc, ran, calls, notified, settled, terminated>>

\* Mutant: post returns what get_state() says when it leaves.
PostCqLeaveRereads(x) ==
  /\ PostGoto(x, "leave_posted", IF state <= Running THEN "accepted" ELSE "rejected") \/ PostGoto(x, "leave_refused", "rejected")
  /\ within_cq_post' = within_cq_post - 1
  /\ UNCHANGED <<control, next_cq, cqs, server_cqs, poolVars, workerVars, runpc, stopVars,
                 npc, apc, outcome>>

\* Mutant: a refused post returns early, without the fetch_sub.
PostCqLeaveLeaks(x) ==
  /\ \/ PostGoto(x, "leave_posted", "accepted") /\ within_cq_post' = within_cq_post - 1
     \/ PostGoto(x, "leave_refused", "rejected") /\ UNCHANGED within_cq_post
  /\ UNCHANGED <<control, next_cq, cqs, server_cqs, poolVars, workerVars, runpc, stopVars,
                 npc, apc, outcome>>

\* Mutant: a refused post subtracts before its return and once more on the way out.
PostCqLeaveTwice(x) ==
  /\ \/ PostGoto(x, "leave_posted", "accepted") /\ within_cq_post' = within_cq_post - 1
     \/ PostGoto(x, "leave_refused", "rejected") /\ within_cq_post' = within_cq_post - 2
  /\ UNCHANGED <<control, next_cq, cqs, server_cqs, poolVars, workerVars, runpc, stopVars,
                 npc, apc, outcome>>

\* within_cq_post_.fetch_sub(1); return can_post
PostCqLeave(x) ==
  /\ PostGoto(x, "leave_posted", "accepted") \/ PostGoto(x, "leave_refused", "rejected")
  /\ within_cq_post' = within_cq_post - 1
  /\ UNCHANGED <<control, next_cq, cqs, server_cqs, poolVars, workerVars, runpc, stopVars,
                 npc, apc, outcome>>

Post(x) ==
  \/ PostThunk(x) \/ PostInsert(x)
  \/ PostCqEnter(x) \/ PostCqCheck(x) \/ PostCqBind(x) \/ PostCqLeave(x)

\* gRPC: a delay is over, a call is answered.
FireEvent(x) ==
  /\ ~terminated
  /\ \E c \in Cqs : x \in cqs[c].pending /\ cqs' = [cqs EXCEPT ![c] = Fire(@, x)]
  /\ UNCHANGED <<control, within_cq_post, next_cq, server_cqs, poolVars, ppc, workerVars,
                 runpc, stopVars, npc, apc, outcome>>

\* gRPC: the server is shut down, its request for the next call completes
\* with is_ok = false.
FireServer(s) ==
  /\ ~terminated
  /\ ServersStopFirst \/ \A c \in Stoppers : spc[c] = "returned"
  /\ s \in server_cqs[s].pending
  /\ server_cqs' = [server_cqs EXCEPT ![s] = Fire(@, s)]
  /\ UNCHANGED <<control, queueVars, poolVars, ppc, workerVars, runpc, stopVars, npc, apc,
                 outcome>>

-----------------------------------------------------------------------------
(* run_one_thread_.  A pass visits the context's own queues, beginning at  *)
(* the thread's number and ending at the first event, and then the work    *)
(* queue of every attached server; pos counts the queues that are behind.  *)

TotalCqs == NCqs + Len(servers)
OwnCq(w) == (w + pos[w]) % NCqs
ServerAt(k) == servers[k - NCqs + 1]
CqAt(w) == IF pos[w] < NCqs THEN cqs[OwnCq(w)] ELSE server_cqs[ServerAt(pos[w])]

\* predicate() returns false
WorkerTop(w) ==
  /\ WorkerGoto(w, "top", "scan")
  /\ UNCHANGED <<control, queueVars, server_cqs, poolVars, ppc, pos, shut, hand, runpc,
                 stopVars, npc, apc, outcome>>

\* predicate() returns true; the worker calls stop.  Before run has returned
\* that would be a data race on threads_, which is not modelled.
WorkerPredicate(w) ==
  /\ PredicateFires
  /\ \A r \in Runners : runpc[r] # "spawn"
  /\ WorkerGoto(w, "top", "in_stop")
  /\ UNCHANGED <<control, queueVars, server_cqs, poolVars, ppc, pos, shut, hand, runpc,
                 stopVars, npc, apc, outcome>>

\* that stop has returned
WorkerAfterStop(w) ==
  /\ WorkerGoto(w, "in_stop", "scan")
  /\ StopGoto(w, "returned", "idle")
  /\ UNCHANGED <<control, queueVars, server_cqs, poolVars, ppc, pos, shut, hand, runpc, at,
                 notes_due, npc, apc, outcome>>

\* execute_cq_: AsyncNext returns GOT_EVENT from one of cqs_
WorkerGetOwn(w) ==
  /\ WorkerGoto(w, "scan", "complete")
  /\ pos[w] < NCqs
  /\ \E e \in cqs[OwnCq(w)].ready :
       /\ cqs' = [cqs EXCEPT ![OwnCq(w)] = TakeTag(@, e)]
       /\ hand' = [hand EXCEPT ![w] = {e}]
  /\ pos' = [pos EXCEPT ![w] = NCqs]
  /\ UNCHANGED <<control, within_cq_post, next_cq, server_cqs, poolVars, ppc, shut, runpc,
                 stopVars, npc, apc, outcome>>

\* execute_cq_: GOT_EVENT from a server's work queue
WorkerGetServer(w) ==
  /\ WorkerGoto(w, "scan", "complete")
  /\ NCqs <= pos[w] /\ pos[w] < TotalCqs
  /\ LET s == ServerAt(pos[w]) IN
       \E e \in server_cqs[s].ready :
         /\ server_cqs' = [server_cqs EXCEPT ![s] = TakeTag(@, e)]
         /\ hand' = [hand EXCEPT ![w] = {e}]
  /\ pos' = [pos EXCEPT ![w] = @ + 1]
  /\ UNCHANGED <<control, queueVars, poolVars, ppc, shut, runpc, stopVars, npc, apc, outcome>>

\* execute_cq_: AsyncNext returns TIMEOUT at once, or SHUTDOWN
WorkerGetNone(w) ==
  /\ WorkerGoto(w, "scan", "scan")
  /\ pos[w] < TotalCqs
  /\ CqAt(w).ready = {}
  /\ pos' = [pos EXCEPT ![w] = @ + 1]
  /\ shut' = [shut EXCEPT ![w] = IF IsDrained(CqAt(w)) THEN @ + 1 ELSE @]
  /\ UNCHANGED <<control, queueVars, server_cqs, poolVars, ppc, hand, runpc, stopVars, npc,
                 apc, outcome>>

\* CompletionQueueEvent::complete: the callback runs; an InflightRpc and a
\* ServerRpcHandler then delete themselves, an Alarm does not.
WorkerComplete(w) ==
  /\ WorkerGoto(w, "complete", "scan")
  /\ ran' = ran \cup hand[w] /\ Called(hand[w])
  /\ heap' = heap \ (hand[w] \cap (Rpcs \cup Servers))
  /\ hand' = [hand EXCEPT ![w] = {}]
  /\ UNCHANGED <<control, queueVars, server_cqs, poolVars, ppc, pos, shut, runpc, stopVars,
                 npc, apc, notified, settled, terminated>>

\* Mutant: one queue that is shut down is enough to leave the loop.
WorkerEndPassAnyShutdown(w) ==
  /\ WorkerGoto(w, "scan", IF shut[w] > 0 THEN "eject" ELSE "pop")
  /\ pos[w] = TotalCqs
  /\ pos' = [pos EXCEPT ![w] = 0]
  /\ shut' = [shut EXCEPT ![w] = 0]
  /\ UNCHANGED <<control, queueVars, server_cqs, poolVars, ppc, hand, runpc, stopVars, npc,
                 apc, outcome>>

\* Mutant: total_cq_count does not count the servers' queues.
WorkerEndPassOwnOnly(w) ==
  /\ WorkerGoto(w, "scan", IF shut[w] >= NCqs THEN "eject" ELSE "pop")
  /\ pos[w] = TotalCqs
  /\ pos' = [pos EXCEPT ![w] = 0]
  /\ shut' = [shut EXCEPT ![w] = 0]
  /\ UNCHANGED <<control, queueVars, server_cqs, poolVars, ppc, hand, runpc, stopVars, npc,
                 apc, outcome>>

\* shutdown_cq_count == total_cq_count: leave the loop
WorkerEndPass(w) ==
  /\ WorkerGoto(w, "scan", IF shut[w] = TotalCqs THEN "eject" ELSE "pop")
  /\ pos[w] = TotalCqs
  /\ pos' = [pos EXCEPT ![w] = 0]
  /\ shut' = [shut EXCEPT ![w] = 0]
  /\ UNCHANGED <<control, queueVars, server_cqs, poolVars, ppc, hand, runpc, stopVars, npc,
                 apc, outcome>>

\* Mutant: the popped thunk stays in its deque.
WorkerPopKeeps(w) ==
  /\ WorkerGoto(w, "pop", "run")
  /\ \E t \in pool : UNCHANGED poolVars /\ hand' = [hand EXCEPT ![w] = {t}]
  /\ UNCHANGED <<control, queueVars, server_cqs, ppc, pos, shut, runpc, stopVars, npc, apc,
                 outcome>>

\* task_queue_.try_pop(thunk) returns true
WorkerPop(w) ==
  /\ WorkerGoto(w, "pop", "run")
  /\ \E t \in pool : TP!Take({t}) /\ hand' = [hand EXCEPT ![w] = {t}]
  /\ UNCHANGED <<control, queueVars, server_cqs, ppc, pos, shut, runpc, stopVars, npc, apc,
                 outcome>>

\* try_pop finds no thunk, or only locked deques; the worker sleeps
WorkerPopNothing(w) ==
  /\ WorkerGoto(w, "pop", "top")
  /\ UNCHANGED <<control, queueVars, server_cqs, poolVars, ppc, pos, shut, hand, runpc,
                 stopVars, npc, apc, outcome>>

\* thunk()
WorkerRun(w) ==
  /\ WorkerGoto(w, "run", "top")
  /\ ran' = ran \cup hand[w] /\ Called(hand[w])
  /\ hand' = [hand EXCEPT ![w] = {}]
  /\ UNCHANGED <<control, queueVars, server_cqs, poolVars, ppc, pos, shut, runpc, stopVars,
                 npc, apc, heap, notified, settled, terminated>>

\* stop_and_eject: signal_done
WorkerEject(w) ==
  /\ WorkerGoto(w, "eject", "drain")
  /\ TP!SignalDone
  /\ UNCHANGED <<control, queueVars, server_cqs, ppc, pos, shut, hand, runpc, stopVars, npc,
                 apc, outcome>>

\* Mutant: the queue is stopped but not drained.
WorkerDrainNothing(w) ==
  /\ WorkerGoto(w, "drain", "drain_check")
  /\ UNCHANGED <<poolVars, hand, control, queueVars, server_cqs, ppc, pos, shut, runpc, stopVars, npc, apc,
                 outcome>>

\* stop_and_eject: one pass over the deques
WorkerDrain(w) ==
  /\ WorkerGoto(w, "drain", "drain_check")
  /\ \/ pool = {} /\ UNCHANGED <<poolVars, hand>>
     \/ TP!Take(pool) /\ hand' = [hand EXCEPT ![w] = @ \cup pool]
  /\ UNCHANGED <<control, queueVars, server_cqs, ppc, pos, shut, runpc, stopVars, npc, apc,
                 outcome>>

\* stop_and_eject: while (in_push_ > 0)
WorkerDrainCheck(w) ==
  /\ WorkerGoto(w, "drain_check", IF admitted # {} THEN "drain" ELSE "drain_run")
  /\ UNCHANGED <<control, queueVars, server_cqs, poolVars, ppc, pos, shut, hand, runpc,
                 stopVars, npc, apc, outcome>>

\* for(auto& thunk : thunks) thunk()
WorkerDrainRun(w) ==
  /\ \/ /\ WorkerGoto(w, "drain_run", "drain_run")
        /\ \E t \in hand[w] :
             /\ ran' = ran \cup {t} /\ Called({t})
             /\ hand' = [hand EXCEPT ![w] = @ \ {t}]
     \/ /\ WorkerGoto(w, "drain_run", "exited")
        /\ hand[w] = {}
        /\ UNCHANGED <<ran, calls, hand>>
  /\ UNCHANGED <<control, queueVars, server_cqs, poolVars, ppc, pos, shut, runpc, stopVars,
                 npc, apc, heap, notified, settled, terminated>>

Worker(w) ==
  \/ WorkerTop(w) \/ WorkerPredicate(w) \/ WorkerAfterStop(w)
  \/ WorkerGetOwn(w) \/ WorkerGetServer(w) \/ WorkerGetNone(w) \/ WorkerComplete(w)
  \/ WorkerEndPass(w) \/ WorkerPop(w) \/ WorkerPopNothing(w) \/ WorkerRun(w)
  \/ WorkerEject(w) \/ WorkerDrain(w) \/ WorkerDrainCheck(w) \/ WorkerDrainRun(w)

-----------------------------------------------------------------------------
(* run, run_while                                                          *)

\* set_state_(Running) under padlock_; only one call gets past it
RunBegin(r) ==
  /\ padlock = None
  /\ \/ state = Ready /\ RunGoto(r, "idle", "spawn") /\ state' = Running
     \/ state # Ready /\ RunGoto(r, "idle", "returned") /\ UNCHANGED state
  /\ UNCHANGED <<padlock, threads, servers, notifications, queueVars, server_cqs, poolVars, ppc,
                 workerVars, stopVars, npc, apc, outcome>>

\* threads_.push_back(std::thread(...))
RunSpawn(r) ==
  LET n == Cardinality(threads) IN
  /\ RunGoto(r, "spawn", IF n + 1 = NThreads THEN "returned" ELSE "spawn")
  /\ wpc' = [wpc EXCEPT ![n] = "top"]
  /\ threads' = threads \cup {n}
  /\ UNCHANGED <<state, padlock, servers, notifications, queueVars, server_cqs, poolVars, ppc,
                 pos, shut, hand, stopVars, npc, apc, outcome>>

-----------------------------------------------------------------------------
(* stop.  `at' is the position of its loops.                               *)

\* set_state_(ShuttingDown), and the early return of every caller but one.
\* The program does not call stop while run is still starting threads.
StopBegin(c) ==
  /\ c \in Workers => wpc[c] = "in_stop"
  /\ \/ /\ state = Running
        /\ \A r \in Runners : runpc[r] # "spawn"
        /\ StopGoto(c, "idle", "wait")
        /\ state' = ShuttingDown
     \/ /\ state # Running
        /\ StopGoto(c, "idle", "returned")
        /\ UNCHANGED state
  /\ UNCHANGED <<padlock, threads, servers, notifications, queueVars, server_cqs, poolVars, ppc,
                 workerVars, runpc, at, notes_due, npc, apc, outcome>>

\* Mutant: stop does not wait for posts in progress.
StopWaitNot(c) ==
  /\ StopGoto(c, "wait", "shutdown")
  /\ UNCHANGED <<control, queueVars, server_cqs, poolVars, ppc, workerVars, runpc, at, notes_due,
                 npc, apc, outcome>>

\* while (within_cq_post_ > 0) yield()
StopWait(c) ==
  /\ StopGoto(c, "wait", "shutdown")
  /\ within_cq_post = 0
  /\ UNCHANGED <<control, queueVars, server_cqs, poolVars, ppc, workerVars, runpc, at, notes_due,
                 npc, apc, outcome>>

\* cq->Shutdown(), for cqs_ and for the work queues of the servers
StopShutdown(c) ==
  /\ \/ StopGoto(c, "shutdown", "shutdown") /\ at + 1 < TotalCqs /\ at' = at + 1
     \/ StopGoto(c, "shutdown", "join") /\ at + 1 = TotalCqs /\ at' = 0
  /\ \/ /\ at < NCqs
        /\ cqs' = [cqs EXCEPT ![at] = ShutDown(@)]
        /\ UNCHANGED server_cqs
     \/ /\ NCqs <= at
        /\ server_cqs' = [server_cqs EXCEPT ![ServerAt(at)] = ShutDown(@)]
        /\ UNCHANGED cqs
  /\ UNCHANGED <<control, within_cq_post, next_cq, poolVars, ppc, workerVars, runpc, notes_due,
                 npc, apc, outcome>>

\* Mutant: detach instead of join.
StopJoinDetaches(c) ==
  /\ StopGoto(c, "join", "join")
  /\ at \in threads
  /\ \/ /\ at = c
        /\ terminated' = TRUE
        /\ UNCHANGED <<threads, at>>
     \/ /\ at # c
        /\ threads' = threads \ {at}
        /\ at' = at + 1
        /\ UNCHANGED terminated
  /\ UNCHANGED <<state, padlock, servers, notifications, queueVars, server_cqs, poolVars, ppc,
                 workerVars, runpc, notes_due, npc, apc, ran, calls, heap, notified, settled>>

\* thread.join() waits for the thread; a thread that joins itself gets a
\* std::system_error, which leaves run_one_thread_.
StopJoin(c) ==
  /\ StopGoto(c, "join", "join")
  /\ at \in threads
  /\ \/ /\ at = c
        /\ terminated' = TRUE
        /\ UNCHANGED <<threads, at>>
     \/ /\ at # c
        /\ wpc[at] = "exited"
        /\ threads' = threads \ {at}
        /\ at' = at + 1
        /\ UNCHANGED terminated
  /\ UNCHANGED <<state, padlock, servers, notifications, queueVars, server_cqs, poolVars, ppc,
                 workerVars, runpc, notes_due, npc, apc, ran, calls, heap, notified, settled>>

\* Mutant: the last thread is not joined.
StopClearEarly(c) ==
  /\ StopGoto(c, "join", "lock")
  /\ at = NThreads - 1
  /\ terminated' = (threads # {})
  /\ threads' = {}
  /\ at' = 0
  /\ UNCHANGED <<state, padlock, servers, notifications, queueVars, server_cqs, poolVars, ppc,
                 workerVars, runpc, notes_due, npc, apc, ran, calls, heap, notified, settled>>

\* threads_.clear() destroys the threads; one that is still joinable terminates
StopClear(c) ==
  /\ StopGoto(c, "join", "lock")
  /\ at = NThreads
  /\ terminated' = (threads # {})
  /\ threads' = {}
  /\ at' = 0
  /\ UNCHANGED <<state, padlock, servers, notifications, queueVars, server_cqs, poolVars, ppc,
                 workerVars, runpc, notes_due, npc, apc, ran, calls, heap, notified, settled>>

\* lock padlock_, set_state_(Stopped)
StopLock(c) ==
  /\ StopGoto(c, "lock", "swap")
  /\ padlock = None
  /\ padlock' = c
  /\ state' = Stopped
  /\ UNCHANGED <<threads, servers, notifications, queueVars, server_cqs, poolVars, ppc,
                 workerVars, runpc, at, notes_due, npc, apc, outcome>>

\* std::swap(notifications_, notifications), unlock
StopSwap(c) ==
  /\ StopGoto(c, "swap", "notify")
  /\ notes_due' = notifications
  /\ notifications' = {}
  /\ padlock' = None
  /\ UNCHANGED <<state, threads, servers, queueVars, server_cqs, poolVars, ppc, workerVars, runpc,
                 at, npc, apc, outcome>>

\* for(const auto& thunk : notifications) thunk()
StopNotify(c) ==
  /\ \/ /\ StopGoto(c, "notify", "notify")
        /\ \E n \in notes_due : notes_due' = notes_due \ {n} /\ notified' = notified \cup {n}
     \/ /\ StopGoto(c, "notify", "returned")
        /\ notes_due = {}
        /\ UNCHANGED <<notes_due, notified>>
  /\ UNCHANGED <<control, queueVars, server_cqs, poolVars, ppc, workerVars, runpc, at, npc, apc,
                 ran, calls, heap, settled, terminated>>

StopStep(c) ==
  \/ StopWait(c) \/ StopShutdown(c) \/ StopJoin(c) \/ StopClear(c)
  \/ StopLock(c) \/ StopSwap(c) \/ StopNotify(c)

-----------------------------------------------------------------------------
(* add_notify_at_stopped and attach_server                                 *)

\* Mutant: add_notify_at_stopped does not lock.
NoteLockNot(n) ==
  /\ NoteGoto(n, "fresh", IF state < Stopped THEN "push" ELSE "drop")
  /\ UNCHANGED <<state, padlock, threads, servers, notifications, queueVars, server_cqs, poolVars, ppc,
                 workerVars, runpc, stopVars, apc, outcome>>

\* lock padlock_, read the state
NoteLock(n) ==
  /\ NoteGoto(n, "fresh", IF state < Stopped THEN "push" ELSE "drop")
  /\ padlock = None
  /\ padlock' = n
  /\ UNCHANGED <<state, threads, servers, notifications, queueVars, server_cqs, poolVars, ppc,
                 workerVars, runpc, stopVars, apc, outcome>>

\* push_back, or nothing; unlock
NotePush(n) ==
  /\ \/ NoteGoto(n, "push", "added") /\ notifications' = notifications \cup {n}
     \/ NoteGoto(n, "drop", "dropped") /\ UNCHANGED notifications
  /\ padlock' = None
  /\ UNCHANGED <<state, threads, servers, queueVars, server_cqs, poolVars, ppc, workerVars, runpc,
                 stopVars, apc, outcome>>

\* GenericServerContainer::init: wire_rpcs leaves a ServerRpcHandler on the
\* server's work queue, waiting for the first call.
ServerInit(s) ==
  /\ AttachGoto(s, "fresh", "built")
  /\ server_cqs' = [server_cqs EXCEPT ![s] = Start(@, s)]
  /\ heap' = heap \cup {s}
  /\ UNCHANGED <<control, queueVars, poolVars, ppc, workerVars, runpc, stopVars, npc,
                 ran, calls, notified, settled, terminated>>

\* Mutant: attach_server does not lock.
AttachLockNot(s) ==
  /\ AttachGoto(s, "built", IF state = Ready THEN "push" ELSE "throw")
  /\ UNCHANGED <<state, padlock, threads, servers, notifications, queueVars, server_cqs, poolVars, ppc,
                 workerVars, runpc, stopVars, npc, outcome>>

\* attach_server: lock padlock_, read the state
AttachLock(s) ==
  /\ AttachGoto(s, "built", IF state = Ready THEN "push" ELSE "throw")
  /\ padlock = None
  /\ padlock' = s
  /\ UNCHANGED <<state, threads, servers, notifications, queueVars, server_cqs, poolVars, ppc,
                 workerVars, runpc, stopVars, npc, outcome>>

\* attach_server: push_back, or the exception; unlock
AttachPush(s) ==
  /\ \/ AttachGoto(s, "push", "attached") /\ servers' = Append(servers, s)
     \/ AttachGoto(s, "throw", "thrown") /\ UNCHANGED servers
  /\ padlock' = None
  /\ UNCHANGED <<state, threads, notifications, queueVars, server_cqs, poolVars, ppc, workerVars,
                 runpc, stopVars, npc, outcome>>

-----------------------------------------------------------------------------
\* Nothing is left to do: every call has returned and no worker runs.
Finished ==
  /\ \A x \in Items : ppc[x] \in {"accepted", "rejected"}
  /\ \A w \in Workers : wpc[w] \in {"unborn", "exited"}
  /\ \A r \in Runners : runpc[r] = "returned"
  /\ \A c \in Stoppers : spc[c] = "returned"
  /\ \A n \in Notes : npc[n] \in {"added", "dropped"}
  /\ \A s \in Servers : apc[s] \in {"attached", "thrown"}

Next ==
  \/ \E x \in Items : Post(x) \/ FireEvent(x)
  \/ \E w \in Workers : Worker(w)
  \/ \E r \in Runners : RunBegin(r) \/ RunSpawn(r)
  \/ \E c \in Callers : StopBegin(c) \/ StopStep(c)
  \/ \E n \in Notes : NoteLock(n) \/ NotePush(n)
  \/ \E s \in Servers : ServerInit(s) \/ FireServer(s) \/ AttachLock(s) \/ AttachPush(s)
  \/ (terminated \/ Finished) /\ UNCHANGED vars

Spec == Init /\ [][Next]_vars

-----------------------------------------------------------------------------
(* Fairness.  The operating system runs every thread, so a post, a run and *)
(* a stop that were begun continue and workers keep looping.  gRPC         *)
(* completes every operation some time: delays end, a call is answered or  *)
(* fails, and a server that the application shuts down gives its handlers  *)
(* back.  A worker whose try_pop again and again could get a thunk does    *)
(* not find every deque locked each time (strong fairness).  Nothing makes *)
(* the application call post, run or stop.                                 *)

PostStep(x) == PostInsert(x) \/ PostCqCheck(x) \/ PostCqBind(x) \/ PostCqLeave(x)

Fairness ==
  /\ \A x \in Items : WF_vars(PostStep(x)) /\ WF_vars(FireEvent(x))
  /\ \A w \in Workers : WF_vars(Worker(w)) /\ SF_vars(WorkerPop(w))
  /\ \A r \in Runners : WF_vars(RunSpawn(r))
  /\ \A c \in Callers : WF_vars(StopStep(c))
  /\ \A n \in Notes : WF_vars(NotePush(n))
  /\ \A s \in Servers : WF_vars(AttachPush(s)) /\ WF_vars(FireServer(s))

FairSpec == Spec /\ Fairness

-----------------------------------------------------------------------------
TypeOK ==
  /\ state \in Ready .. Stopped
  /\ padlock \in Callers \cup Notes \cup Servers \cup {None}
  /\ threads \subseteq Workers
  /\ servers \in Seq(Servers)
  /\ notifications \subseteq Notes
  /\ within_cq_post \in Nat
  /\ next_cq \in 0 .. IndexMod-1
  /\ cqs \in [Cqs -> QueueType(Items)]
  /\ server_cqs \in [Servers -> QueueType(Servers)]
  /\ TP!PoolTypeOK
  /\ ppc \in [Items -> PostLabels]
  /\ wpc \in [Workers -> WorkerLabels]
  /\ pos \in [Workers -> Nat]
  /\ shut \in [Workers -> Nat]
  /\ hand \in [Workers -> SUBSET Tags]
  /\ runpc \in [Runners -> RunLabels]
  /\ spc \in [Callers -> StopLabels]
  /\ at \in Nat
  /\ notes_due \subseteq Notes
  /\ npc \in [Notes -> NoteLabels]
  /\ apc \in [Servers -> AttachLabels]
  /\ ran \subseteq Tags
  /\ calls \in [Items -> Nat]
  /\ heap \subseteq Tags
  /\ notified \subseteq Notes
  /\ settled \subseteq Thunks \cup Deadlined
  /\ terminated \in BOOLEAN

\* gRPC forbids starting an operation on a completion queue that was shut
\* down.  The within_cq_post_ handshake keeps it: no post is about to create
\* its event once stop has shut a queue down, whichever queue it would get.
NoBindAfterShutdown ==
  (\E x \in Items : ppc[x] = "bind") => \A c \in Cqs : ~cqs[c].shutdown

\* Posts whose callback is owed: the event was created, or the thunk was
\* queued before the first worker signalled done.
Due == settled \cup {x \in Items : ppc[x] = "accepted" /\ x \notin pool \cup taken}

\* The orderly shutdown stop promises.  In state Stopped no worker is left,
\* every completion queue of the context and of the attached servers is
\* empty, all owed callbacks were called, and the events that free
\* themselves have been freed.
StoppedIsQuiescent ==
  state = Stopped =>
    /\ \A w \in Workers : wpc[w] = "exited"
    /\ \A c \in Cqs : IsDrained(cqs[c])
    /\ \A k \in DOMAIN servers : IsDrained(server_cqs[servers[k]])
    /\ Due \subseteq ran
    /\ heap \cap Rpcs = {}

In(x, S) == IF x \in S THEN 1 ELSE 0

\* A callback runs exactly once.  From the moment post has handed it over,
\* an item is in exactly one place: waiting in the thunk queue, pending or
\* ready on one completion queue, in the hands of one worker, or done.
WorkHasOneHome ==
  \A x \in Items :
    ppc[x] \in {"push", "leave_posted", "accepted"} =>
      In(x, admitted) + In(x, pool) + In(x, ran)
        + Cardinality({w \in Workers : x \in hand[w]})
        + Cardinality({c \in Cqs : x \in cqs[c].pending})
        + Cardinality({c \in Cqs : x \in cqs[c].ready}) = 1

\* A post that returned false has left nothing behind that could still call
\* back (the rpc senders report the failure to their receiver themselves).
RejectedNeverRuns ==
  \A x \in Items :
    ppc[x] = "rejected" =>
      /\ x \notin admitted \cup pool \cup ran \cup heap
      /\ \A w \in Workers : x \notin hand[w]

\* A notification that add_notify_at_stopped took is called by the stop that
\* stopped the context, however the two calls interleave, and never while a
\* worker still runs.
NotificationsDelivered ==
  /\ (state = Stopped /\ \A c \in Callers : spc[c] \notin {"swap", "notify"}) =>
       \A n \in Notes : npc[n] = "added" => n \in notified
  /\ notified # {} => \A w \in Workers : wpc[w] \in {"unborn", "exited"}

\* The workers and stop read servers_ without a lock: it must not change any
\* more once the state has left Ready.
ServersFixedOnceRunning == [][state # Ready => servers' = servers]_vars

\* When stop has stopped the context nothing new gets into a completion
\* queue, and only posts admitted before can still reach the thunk queue.
NothingStartsAfterStopped ==
  [][state = Stopped =>
       admitted' \subseteq admitted /\ UNCHANGED <<ran, calls, cqs>>]_vars

\* To the code that posts, the context is a ContextContract: a post is refused
\* only when a stop has begun, what was accepted before is called before the
\* stop is over, and nothing is called twice, after a refusal or afterwards.
Contract == INSTANCE ContextContract WITH
  Work <- Items,
  closing <- state \in {ShuttingDown, Stopped},
  stopped <- state = Stopped,
  given <- {x \in Items : ppc[x] \in {"push", "leave_posted", "accepted"}},
  accepted <- {x \in Items : ppc[x] = "accepted"},
  promised <- Due,
  called <- calls,
  refused <- {x \in Items : ppc[x] \in {"leave_refused", "rejected"}}
ImplementsContract == Contract!ContractSpec

\* stop does not end the process: it joins every thread of the vector before
\* the vector is cleared, and never its own.
NeverTerminates == ~terminated

\* Whoever holds padlock_ gives it back with its next step.
PadlockIsReleased ==
  \/ padlock = None
  \/ \E c \in Callers : padlock = c /\ spc[c] = "swap"
  \/ \E n \in Notes : padlock = n /\ npc[n] \in {"push", "drop"}
  \/ \E s \in Servers : padlock = s /\ apc[s] \in {"push", "throw"}

\* No stop waits for something that cannot happen any more.  As long as
\* within_cq_post_ is not zero some post has yet to subtract its own one; the
\* loop over the queues ends; a thread that is being joined was started, no
\* stop of its own keeps it, and every queue it polls is shut down, so that
\* its passes can come to count them all; padlock_ will be free.
StopWaitsForSomething ==
  \A c \in Callers :
    /\ spc[c] = "wait" /\ within_cq_post > 0 => \E x \in Items : ppc[x] \in CqPosting
    /\ spc[c] = "shutdown" => at < TotalCqs
    /\ spc[c] = "join" =>
         /\ \A k \in Cqs : cqs[k].shutdown
         /\ \A k \in DOMAIN servers : server_cqs[servers[k]].shutdown
         /\ at # NThreads =>
              /\ at \in threads /\ wpc[at] # "unborn" /\ pos[at] <= TotalCqs
              /\ at = c \/ spc[at] \in {"idle", "returned"}
    /\ spc[c] = "lock" => PadlockIsReleased

\* A stop that is not refused returns: posts leave within_cq_post_, queues
\* drain, workers exit.
StopReturns == \A c \in Stoppers : spc[c] = "wait" ~> spc[c] = "returned"

\* Work that was accepted while the context runs, or before, is carried out.
AcceptedWorkRuns == \A x \in Items : (x \in Due /\ state # Ready) ~> x \in ran

\* "Blocking waits for orderly shutdown" (execution_context.hpp:62): whoever
\* calls stop on a context that was started finds it stopped afterwards.
StopWaitsForShutdown ==
  [][\A c \in Stoppers :
       spc[c] # "returned" /\ spc'[c] = "returned" /\ state # Ready => state' = Stopped]_vars
=============================================================================
