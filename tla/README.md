# A TLA+ verification of sgrpc

`sgrpc` wraps gRPC's completion-queue interface in P2300 senders. This directory holds TLA+ models of
its concurrent core and of the run loop of its `from-scratch` example, the TLC configurations that check
them on small instances, and TLAPS proofs of safety for every instance. Paths such as `execution_context.cpp:122` are below
`src/src/sgrpc/`.

## 1. The system

| Part | State | Operations | Talks to |
|---|---|---|---|
| **Task-stealing queue** (`detail/atomic_task_stealing_queue.hpp`) | `n_queues_` deques, each with a mutex; `push_index_`, `pop_index_`, `in_push_`, `is_done_` | `push`, `try_pop`, `stop_and_eject`, `signal_done` | called by the execution context |
| **Execution context** (`execution_context.{hpp,cpp}`) | `state_` (Ready, Running, ShuttingDown, Stopped), `threads_`, `task_queue_`, `cqs_`, `servers_`, `notifications_`, `within_cq_post_`, `next_cq_write_index_`, `padlock_` | four `post`s, `run`, `run_while`, `stop` (also the destructor), `attach_server`, `add_notify_at_stopped`, the worker loop `run_one_thread_` | thunk queue, completion queues, events, servers |
| **Completion queues** (gRPC, external) | operations started, tags ready, shut down or not | start an operation, `AsyncNext`, `Shutdown` | polled by the workers |
| **Events** (`detail/alarm.hpp`, `detail/inflight_rpc.hpp`, `ServerRpcHandler`) | a callback; heap objects used as tags | `complete(is_ok)` | called by the workers |
| **Client calls** (`client_rpc_stub.hpp`, `rpc_sender.hpp`, `detail/rpc_sender_operation_states.hpp`) | `CallData` shared by the copies of a sender; the receiver in the operation state | `call`, `connect`, `start`, completion | `post(RpcFactory)`; a receiver |
| **Status codes** (`detail/utils.hpp`, `rpc_status*.hpp`) | none | conversions between gRPC's and the library's codes | client calls |
| **Server container** (`generic_server_container.hpp`, `detail/server_interface.hpp`) | gRPC server, its work queues | `make`/`init`, `attach_server` | execution context |
| **Server rpc handler** (`server_rpc_handler.hpp`) | the call it serves, `delete_on_next_complete_` | its constructor binds a request, `complete` spawns the successor and answers | work queue, scheduler, gRPC |
| **Greeting application** (`main.cpp`, `greeting-grpc/`) | a server and a context, destroyed in this order | `wire_rpcs`, `ServerContainer::stop` | everything above |
| **Scheduler** (`scheduler.hpp`) | none | `schedule`, `connect`, `start` | `post(ThunkType)` |
| **Example run loop** (`src/examples/from-scratch.cpp`) | intrusive list, mutex, condition variable | `push_back`, `pop_front`, `run`, `finish` | nothing of the library |

What is hard about it:

* **Concurrency.** Any thread may post at any time, workers poll all queues without a common lock, and
  two lock-free handshakes (`in_push_`/`is_done_` in the queue, `within_cq_post_`/`state_` in the
  context) decide whether work that races with shutdown is carried out, refused or lost.
* **Shutdown.** `stop` has five phases; it must neither lose accepted work nor let anything start on a
  queue that is shut down, and it must end.
* **Failure and refusal.** A refused call, a failed conversion and a failed rpc must each reach the
  receiver exactly once.
* **Lifetime.** Events delete themselves; copies of a sender share one `CallData`; the operation states of
  the run loop live in the frame of `sync_wait`.
* **Two shutdowns.** A server's handler starts operations on a work queue that `stop` shuts down, and
  nothing but the order of the application's destructors keeps the one before the other.

What makes each part correct:

* queue: a thunk is handed out at most once and never disappears; after a drain nothing is queued;
  a drain finishes and misses nothing it can be held to;
* context: work runs exactly once if accepted and never if refused; no operation starts on a shut-down
  queue; a stopped context is quiescent; `stop` returns; notifications are delivered;
* client: a receiver is signalled exactly once, and with the outcome of its own call;
* server: one handler of each method always listens, a call is answered exactly once, a handler is deleted
  exactly once and not used after that, and both shutdowns end;
* run loop: operations are popped in order and once, stay until their receiver was called, and no wake-up is
  lost.

The hazards in `PROJECT.json` name the lines where these can go wrong.

## 2. Modules

```
TaskPool            what the thunk queue promises (abstract)
  ^ implemented by
TaskQueue           the thunk queue, one action per atomic access
TaskQueueProofs     TLAPS proofs about TaskQueue: types, the handshake, ownership
TaskQueueDrainProofs  ... what stop_and_eject cannot miss, and what it waits for; the mutexes
TaskQueueRefinement   ... TaskQueue implements TaskPool
CompletionQueue     grpc::CompletionQueue as the code uses it (external)
ContextContract     what the context promises to the code that posts (abstract)
  ^ implemented by
ExecutionContext    the context, on top of TaskPool and CompletionQueue
ExecutionContextProofs        TLAPS proofs about ExecutionContext: run, stop, the post handshake, padlock_
ExecutionContextDrainProofs   ... where work is, the orderly shutdown, the contract, what stop waits for
StatusCodes         the two conversions
ClientRpc           one client call as a sender, on what ExecutionContext shows
ServerRpc           calls arriving at a server, on TaskPool, CompletionQueue and the worker loop
RunLoop             the run loop, thread_context and sync_wait of the from-scratch example
ClientRpcProofs     TLAPS proofs about ClientRpc
ServerRpcProofs     TLAPS proofs about ServerRpc
RunLoopProofs       TLAPS proofs about RunLoop
MC*                 instances for TLC
```

Operators named as mutants ("Mutant: ...") are not part of any specification. Each changes one
definition the way a plausible bug would, and shows that the property it stands for depends on that
definition.

### TaskQueue

Variables carry the members' names. `pc`, `thunk`, `offset` and `i` are the threads' positions and
locals. `offered`, `taken`, `refused` and `drained` record arguments and results of the calls;
`settled` is a history variable: the thunks whose `push` had returned true before `is_done_` was set.

| Action | Code |
|---|---|
| `PushEnter`, `PushCheck` | `in_push_.fetch_add`, `done_is_signalled()` |
| `PushIndex` | `push_index_.fetch_add` at the head of the retry loop |
| `PushTryLock`, `PushTryFail`, `PushEmplace` | `try_push`: the lock, its failure (next deque or a new round), `emplace_back` and the unlock |
| `PushLeave` | `in_push_.fetch_sub`, the result |
| `PopIndex`, `PopTryLock`, `PopTryFail`, `PopEmpty`, `PopFront` | `try_pop` |
| `EjectBegin`, `EjectLock`, `EjectSwap`, `EjectCheck` | `stop_and_eject`: `signal_done`, the blocking lock of each deque, the swap, the test of `in_push_` |

Workers pop repeatedly and drain once, and may push as well (a thunk may post); posters only push.
The unsigned indices are counters modulo `IndexMod`; `Slot` keeps the wrap of `offset + i`, which for an
`N` that does not divide `IndexMod` makes a round visit one deque twice and another not at all (the
run has `N = 3 = IndexMod`, where the counters wrap and no round is irregular; the irregular rounds are covered
by the proofs, which hold for every `IndexMod`, and by no run).

Atomics are sequentially consistent. The code uses acquire/release operations and `atomic_signal_fence`,
which forbids only compiler reordering; on x86-64, the target of the build, read-modify-writes are full
barriers and the one plain store, `is_done_.store`, is followed by the lock of the first deque before
`in_push_` is read. A weaker machine would need a further look. The `catch (...)` in `try_pop` (a thunk
whose move throws) is not modelled: `std::function`'s move does not throw.

### ExecutionContext

Every post is an item with its own program counter `ppc`; who makes it, an application thread or a
callback on a worker, does not matter to the protocol. `wpc` is a worker's place in `run_one_thread_`,
`spc` a caller's in `stop`, `npc` and `apc` those of `add_notify_at_stopped` and of
`GenericServerContainer::make`.

| Actions | Code |
|---|---|
| `PostThunk`, `PostInsert` | `post(ThunkType)`, the immediate way of `post(thunk, deadline)` |
| `PostCqEnter`, `PostCqCheck`, `PostCqBind`, `PostCqLeave` | `post(thunk, delta)`, `post(RpcFactory)`: `fetch_add`, `get_state`, the new event, `fetch_sub` |
| `WorkerTop`, `WorkerPredicate`, `WorkerAfterStop` | the predicate, and `stop` called by a worker |
| `WorkerGetOwn`, `WorkerGetServer`, `WorkerGetNone`, `WorkerComplete`, `WorkerEndPass` | the pass over the completion queues: `GOT_EVENT`, `TIMEOUT`/`SHUTDOWN`, `complete`, the exit test |
| `WorkerPop`, `WorkerPopNothing`, `WorkerRun` | `try_pop` and the thunk |
| `WorkerEject`, `WorkerDrain`, `WorkerDrainCheck`, `WorkerDrainRun` | `stop_and_eject` and the final thunks |
| `RunBegin`, `RunSpawn` | `run_while` |
| `StopBegin`, `StopWait`, `StopShutdown`, `StopJoin`, `StopClear`, `StopLock`, `StopSwap`, `StopNotify` | `stop` |
| `NoteLock`, `NotePush`; `ServerInit`, `AttachLock`, `AttachPush` | `add_notify_at_stopped`; `make` with `attach_server` |
| `FireEvent`, `FireServer` | gRPC completes an operation (external) |

The thunk queue appears as `TaskPool`. Two pairs of adjacent atomic accesses of a push are merged
(`in_push_` with the read of `is_done_`; `emplace_back` with the decrement of `in_push_`), a pass of the
drain takes the whole pool at once, and `in_push_ > 0` is `admitted # {}`. The late push
of `queue_leftover` is still there (`WorkerDrain`, `PostInsert`, `WorkerDrainCheck`), which is why the
context's promises are restricted to the thunks in `settled`.

Assumptions about the program around the context, each fixed by a constant or a guard:

* `stop` is not called while `run` is still starting threads, and no predicate is true then: the code
  has a data race on `threads_` there (`execution_context.cpp:112` and `:135`). The guards are in
  `StopBegin` and `WorkerPredicate`.
* of the ways a worker may come to call `stop` only the predicate is modelled (`WorkerPredicate`); a callback or
  a thunk that calls it would join its own thread in the same way.
* callbacks and thunks do not throw; the code calls `std::terminate` (`:238`) or lets the exception
  leave the thread.
* each server has one work queue, the default of `make`, and no calls arrive (they do in ServerRpc): a
  handler waits until the gRPC server is shut down. `ServersStopFirst` says whether the application shuts its servers down
  without waiting for `stop`, as `main.cpp` does by the order of its declarations.
* time is abstract: a delay ends at any moment, and `post(thunk, deadline)` may take either way.

`ContextContract` is what is left of all this for the code that posts: `Give`, `Refuse`, `Return`, `Call`,
`Close` and `Finish`, and the conditions on them. A post is refused only when a stop has begun; what was
given a home is called at most once and never after the stop is over; the stop is not over before everything
it promised was called; and the only posts that return true without a promise are those that overlap a stop
(again `queue_leftover`). The mapping: `closing` and `stopped` are values of `state`, an item is `given` from
`push` or `leave_posted` on, `accepted` and `refused` are ends of `ppc`, `promised` is `Due`.
`called` is `calls`, a history variable that counts how often the callback of each item was called: a second call is
a step that the contract has not.
So `PostThunk` is `Give` or `Refuse`, `PostCqCheck` is `Refuse` or a stutter, `PostCqBind` is `Give`, `PostInsert`
and `PostCqLeave` are `Return`, the three steps that run a callback are `Call`, `StopBegin` is `Close` and
`StopLock` is `Finish`.

### ClientRpc and StatusCodes

An element of `Ops` is an operation state; `CopyOf` gives the sender it was connected from and so the
`CallData` it shares. `Invoke` stores the completion handler in the `CallData`, `PostCreatesRpc` is the
factory moving it into an `InflightRpc`, `PostRefused` the refusal, `Answer` gRPC's answer (external) and
`Complete` is `InflightRpc::complete` with the handler of `RpcSenderOpState::invoke`. The context is
reduced to `open`: what `context_work` shows of a post. Messages and payloads are left out. A value is
tagged with the call it comes from. Receivers' `set_value` does not throw (P2300 requires it);
`ResultType = void` does not compile with `std::optional<ResultType>` and is left out.

### ServerRpc

`<<m, k>>` is the `k`-th `ServerRpcHandler` of method `m`, a heap object that is the tag of its request and
then of its `Finish`. `call[h]` is gRPC's side of the call it serves; `finishes` and `made` count.

| Action | Code |
|---|---|
| `TakeEvent`, `TakeThunk`, `Leave`, `Drain`, `DrainCheck`, `DrainRun` | the worker loop of ExecutionContext, a pass reduced to what it finds |
| `Delete`, `Spawn` | `ServerRpcHandler::complete`: `delete this`, or the successor and `delete_on_next_complete_ = true` |
| `FinishNow` | immediate mode: `Finish` with the result, or with INTERNAL from the `catch` |
| `LogicThrows` | sender mode: the call of the logic that makes the sender throws |
| `Schedule`, `Scheduled`, `RunThunk` | sender mode: the logic has returned its sender; `start_detached`, the `post` inside `Scheduler::Op_` (refused or queued); the thunk, which starts that sender, with `then` or `upon_error` |
| `StopServer`, `ServerStopped` | `ServerContainer::Impl::stop`: `Shutdown`, and `Wait` returning |
| `StopContext`, `ContextStopped` | `ExecutionContext::stop` as far as the work queue and the workers see it |
| `Arrive`, `RequestFails`, `AnswerSent` | gRPC and the client (external) |

Two things end the process, and no step follows them. gRPC aborts it if an operation is started on a queue that
is shut down (`StartOn`, `process = "aborted"`). And in sender mode `complete`, which is `noexcept`, calls the logic
outside any `try`: if it throws before it has returned its sender the process is terminated (`LogicThrows`,
`process = "terminated"`; `Throwing` names the methods whose logic may). Immediate mode catches and answers INTERNAL.

`server_first` says whether the application keeps to the order of
`main.cpp`, where the server is declared after the context and so stopped before it. Both orders are
explored; the properties that need main's order say so. Without it the handler's constructor or `Finish`
aborts, or the context refuses the thunk of a call (`scheduler.hpp:22` ignores the answer), the call is
never finished and `Wait` never returns. `AnsweredOnce`, `OneHandlerListens` and the types hold in any
order. `EveryCallAnswered` is stated for both: a call is answered, or the process was terminated by a logic, or,
outside main's order only, it aborted or the post of the call was refused. The sender a logic returns completes where
it is started; `set_stopped` is not among the completion signatures of the library's senders (`scheduler.hpp`,
`rpc_sender.hpp`), and logic that completes on another thread is not modelled.

### RunLoop

One action per critical section. `next`, `tail` and `finishing` are the members, `head` is the sentinel node;
`rpc`/`op` are a runner's place in `run` and its operation, `opc` the owner's place in `sync_wait`;
`waiting` are the runners asleep in `cv.wait`. `pushed`, `popped`, `emptied` are history.

| Action | Code |
|---|---|
| `Start` | `start`, `push_back` with `notify_one` |
| `RunBegin`, `PopWait`, `Wake`, `Pop`, `PopNothing` | `run`, `pop_front`: the wait (a spurious wake-up is possible), `std::exchange`, `nullptr` |
| `Execute`, `SetValue` | `execute`: `set_value` of the last receiver sets `is_done` |
| `Leave` | `execute` returns to the loop of `run`; the owner may have returned from `sync_wait` before that |
| `OwnerSleep`, `OwnerWake`, `OwnerReturn` | `sync_wait` |
| `Finish` | `finish` with `notify_all` |

A `push_back` through a `tail` that points to a destroyed operation is undefined behaviour: `wild` is set
and no step follows. What the code guarantees is therefore stated twice: `ListIsQueue` up to the first
`pop_front` that empties the list, and `PoppedInOrder`, `OperationOutlivesUse`, `LinkedRuns`
for as long as the process is defined. `PoppedInOrder` is about `pop_front`: two runners may execute what they
popped in another order. `OperationOutlivesUse` holds up to the call of the receiver: `set_value` wakes the owner,
which may destroy the operation while the runner is on its way out of `execute` (`from-scratch.cpp:183`, `:234`);
nothing is read from the operation there. The run `runloop_lost` shows what happens afterwards. Only
`set_value` reaches a receiver: nothing in the file calls `set_error` or `set_stopped` on an operation of
the loop.

## 3. Runs

| Run | Instance | Question and result |
|---|---|---|
| `queue` | 2 workers, 1 poster, 2 thunks, 3 deques, index modulo 3 | the safety properties of the queue, that it implements `TaskPool`, and that every `stop_and_eject` returns: hold |
| `queue_leftover` | 1 worker, 1 poster, 1 thunk, 2 deques | "returning all the thunks" (`atomic_task_stealing_queue.hpp:129`): **violated** |
| `context` | 2 workers, 2 queues, an alarm, a call, a deadline, a notification, 1 run, 1 stop, predicates | safety of post and notification against shutdown, and the contract: hold |
| `context_live` | 2 workers, 1 queue, a thunk, a call, a server | `stop` never waits for what cannot happen any more (`StopWaitsForSomething`) and returns, accepted work runs, `servers_` is fixed once running, nothing terminates the process: hold |
| `context_predicate` | 2 workers, predicates | a predicate that stops the context: **terminates the process** |
| `context_stop_twice` | 1 worker, 2 callers of stop | "Blocking waits for orderly shutdown": **violated** for the second caller |
| `context_server_outlives` | 1 worker, 1 server that lives until after stop | `stop` returns: **violated** |
| `client` | 2 copies of a sender started in turn, all codes | exactly one signal, the right one: hold |
| `client_copies` | 2 copies started concurrently | "Put result on Receiver": **violated** |
| `server` | 2 workers, 2 calls of an immediate method, 1 of a sender-mode method whose logic may throw, both orders of shutdown | listening, answers, lifetimes and both shutdowns: hold |
| `runloop` | 2 runners, 3 operations, 2 of them in `sync_wait` | order of `pop_front`, the list, lifetimes, no lost wake-up (`NoLostWakeup` and the liveness that follows from it): hold |
| `runloop_lost` | the same | "insert operation into the queue" (`from-scratch.cpp:187`): **violated** |

Bounds. Two workers give every pairwise race between drains, pops and passes, and with a third thread
that pushes every race of the handshakes; three deques make "already swept", "being swept" and "not yet
swept" distinct and leave a free deque (the context has `n_threads + 1`). One thunk is
enough to be lost, duplicated or left behind; with two, two pushes overlap each other and a drain, one settled and
the other late, or one admitted and the other refused, and two thunks share a deque. One item of each kind is enough for the context because items meet only in counters and sets;
two completion queues are needed for the round robin and for "all queues shut down". Symmetry is used in
`context` only, which checks no liveness. The second call of the immediate method needs the successor of a
successor; two workers let a successor's event overtake the end of its predecessor's. Three operations and
two runners are the least with which a list is emptied, pushed to again and popped behind the other
runner's back.

That there are more deques than workers matters: with two deques and two workers, `EveryDrainReturns`
fails, because two drains can hold both mutexes whenever the pusher tries them. `n_threads + 1` in the
constructor is what makes the drain end; `WorkersLeaveADeque` (section 4) is that fact for any number of threads.
`EveryDrainReturns` is about finitely many pushes, as in every instance. Each push that overlaps a drain puts its
end off, a refused one too (it raises `in_push_` before it looks at `is_done_`); if pushes never ceased to
overlap each other, the drain might never read `in_push_ = 0`, and nothing in the code would prevent that.

Fairness. Threads that are inside a call keep running (weak fairness). Strong fairness stands for things the
code leaves to the platform: a mutex, or a `try_lock` repeated for ever, that is free again and again is obtained
some time; and a worker's `try_pop` does not find every deque locked each time. In `queue` one strong fairness
condition, `GetsIn`, covers the `try_lock` of a push and the start of a drain; the steps it names happen finitely
often, so that each of them that is possible again and again is taken. gRPC completes every operation it was given:
a delay ends, a call is answered or fails, a server that is shut down returns its handlers. In `server` a pass of
the worker loop looks at the completion queue and at the thunk queue in turn, hence the strong fairness of
`TakeEvent` and of `TakeThunk` by some worker. In `runloop` weak fairness of a thread that is not asleep is
all: spurious wake-ups are possible and not relied on. Nothing is assumed about the
application: it need not post, run, call or stop.

Deadlock is checked in the runs of ExecutionContext and ServerRpc: `Next` allows stuttering only when
everything has stopped, or after `std::terminate` or an abort. It is off in the runs of TaskQueue, ClientRpc
and RunLoop, where the environment simply runs out of thunks, calls or operations.

## 4. Proofs

`TaskQueueProofs`, `TaskQueueDrainProofs` and `TaskQueueRefinement` prove, for any finite set of threads, any set of thunks, any `N` and `IndexMod` above
zero:

* `TypeCorrect`: `Spec => []TypeOK`. `TypeOK` alone is not inductive: `in_push - 1` must stay natural and
  `thunk[th]` must be a thunk when it is queued. `TypeInv` adds `ThunkInv` (a thread inside push has a
  thunk) and `CountInv` (`in_push` is the number of threads between the two updates); the latter needs
  the cardinality theorems and is why the set of threads is assumed finite.
* `NothingQueued`: `Spec => NothingQueuedAfterDrain`. `HandshakeInv` says that `is_done` is set when a
  thread drains or has drained (`DoneInv`), and that once a drain has returned no pusher is past its check
  (`QuietInv`). The step that matters is `EjectCheck`: `in_push = 0` means, by `CountInv`, nobody is inside
  push, and later pushes read `is_done = TRUE`.
* `ThunksAreNotLost`, `ThunksAreNotDuplicated`: the two invariants are inductive together with `HeldInv`
  (two pushers own different thunks) and `DeliveredInv` (where the thunk of a pusher is after
  `emplace_back`). The three ways the deques change (append, take the first, swap out) are the lemmas
  `EmplaceContents`, `PopContents`, `SwapContents` and their `...Unique` counterparts; `StepCases` shows that
  every other step leaves the deques alone.
* `SettledDrained`: `Spec => []SettledAreDrained`. A drain that has returned must have looked everywhere,
  although the deques change behind it. `SweptInv` says that the deques the current pass of a drain has
  behind it hold no settled thunk: a thunk that arrives behind the pass was admitted before `is_done` and
  delivered after it, so it is not settled, and `settled` no longer grows (`SettledStays`, `SweptGrows`).
  `LoopInv` (a loop starts at 0) and `PlacedInv` (a settled thunk is queued or handed out) carry this from
  one pass to the next. Unsettled thunks are exactly those of the finding `queue_leftover`.
* `DequeMutualExclusion`: no two threads are in one deque. `PadlockInv` is the usual reading of a lock: the mutex of
  a deque belongs to the thread that is in it, which is the deque the thread's own `offset` and `i` still point to.
  The steps fall into three kinds, one lemma each: they take a free mutex (`TakesPadlock`), give back their own
  (`ReleasesPadlock`), or are taken by a thread in no deque (`KeepsPadlocks`).
* `WorkersLeaveADeque`: if there are fewer workers than deques, some mutex is not in a worker's hands. Under
  `PadlockInv` the map from deques to holders is injective, so workers that held every deque would be as many as
  the deques. `DrainsWaitForOthers`: a drain blocked on a mutex is blocked by another thread, which is inside the
  deque and releases it with its next step, and a drain that loops on `in_push_` has a push in progress to wait for
  (`CountInv`).
* `RoundVisitsEveryDeque`: the rounds of `push` and `try_pop` miss no deque, except a round in which the unsigned sum
  wraps when `N` does not divide `IndexMod`. `RowCovers`: `N` numbers in a row have all the remainders of a division
  by `N`; the rest is that the wrap changes no remainder if `N` divides `IndexMod`. A `try_pop` of such an exceptional
  round may return false although a thunk is in a free deque; the worker's next round finds it.
* `QueueImplementsPool`: `Spec => ImplementsTaskPool`. The mapping puts the thunks of threads between their
  check and `emplace_back` for `admitted`, the contents of all deques for `pool`. `PushCheck` is `Admit` or
  the start of a refusal, `PushEmplace` is `Accept`, `PopFront` and `EjectSwap` are `Take`, `EjectBegin` is
  `SignalDone`; everything else stutters. `RefusedInv` is needed because the refusal is recorded one step
  after the check, `CarriedIsNew` (from the ownership invariants) because `Admit` and `Refuse` want a new
  thunk.

`RunLoopProofs` proves, for any sets of operations, owners and runners:

* `TypeCorrect`. Not inductive by itself: that the first node of a list that is not empty is an operation
  needs to know that `next` leads from operations to operations or `head`.
* `ListImplementsQueue`: `LinkInv` adds to `ListIsQueue` that the list is empty once it was emptied
  (`EmptiedInv`): what is pushed after that never gets into it. With it `PopLinks` and `StartLinks` show
  that the two operations keep the chain.
* `PopsInOrder`: `OrderInv` adds that what was pushed is not `connected` any more, so nothing is pushed
  twice. It needs `LinkInv`, because that `pop_front` returns the oldest operation is a fact about the list.
* `OperationsOutlive`: `HandInv` says that a runner's operation was popped and is no other runner's, and that one it
  has yet to execute is not done; the owner returns only from one that is.
* `WakeupsKept`: `Spec => []NoLostWakeup`, for finitely many runners. `push_back` notifies one runner, whoever it is,
  so the argument is a count: while a runner sleeps, at least as many are awake in `pop_front` as operations are left.
  `Backlog` counts those by the histories (`LinkedCounts` shows that it bounds the nodes in the list), so that each
  step changes it by one at most: `Start` adds one and wakes one or finds nobody asleep (`StartWakes`), `Pop` takes one
  and one runner away, `PopWait` happens only on an empty list. `WakeInv` adds that only runners in `pop_front` sleep.

`ServerRpcProofs` proves, for any methods, any number of calls per method and any set of workers:

* `TypeCorrect`, and `AnswersOnce` from `HomeInv`: a handler that was not
  made yet is nowhere (`FreshInv`), no handler is in two places (`DisjointInv`), what is true of its call
  where it is (`PhaseInv`: waiting on the queue, returned by `AsyncNext`, being served), and how many
  handlers a worker has in hand (`HandInv`). `SpawnIs` and `FinishIs` say what the two steps that start an
  operation do under it.
* `NothingStarts`: in main's order no operation is started on the queue after `Shutdown`. `OrderInv`: the
  context's queue is shut down only after `Wait` has returned, `Wait` returns when every call is closed, and
  from then on no call arrives; hence no worker can be between a call and its `Finish` (`NoCallAfterWait`).
* `HandlersHaveOneHome`, `HandlersAreFreed`: `QuietInv` says that nobody leaves the worker loop before the
  queue is drained, `AliveInv` that in main's order every handler that is allocated is on the queue, in the
  pool or in the hands of a worker, so that a drained queue leaves none.
* `CallsCarried`: in main's order an open call is in a ready event, in the pool, or in the hands of a worker, all
  workers are still in their loop, and a call that is being answered has its `Finish` on the queue. `CarryInv` says
  that the handler of a call that is not closed has not deleted itself; `AliveInv` then gives it a place, `PhaseInv` says
  which, and `OrderInv` that no worker has gone. This is the safety half of `EveryCallAnswered`.
* `OneListens`: a method always has exactly one handler without a call (`ListenInv`, `StillListens`); main's
  order is not needed.

`ClientRpcProofs` proves, for any operations and senders, `TypeCorrect`, and, as long as copies of a sender
are not started at the same time (`~ConcurrentCopies`; without that the finding `client_copies` refutes
them), `SignalsOnce`, `HearsOwnAnswer`, `ResultIsPut` and `NoReceiverForgotten` (a receiver that was told nothing yet
still has its own handler in the `CallData` or in its `InflightRpc`; the safety half of `EveryStartSignals`). `OwnerInv`: between `Invoke` and its `post` an
operation owns the `CallData` it shares with its copies. `ToldInv` lists the four situations of an operation
together with what its receiver was told. `RoundTrip` shows that the two conversions of status codes are
inverse to each other but for codes without an enumerator.

`ExecutionContextProofs` and `ExecutionContextDrainProofs` prove every safety property that the runs check of
ExecutionContext, for any numbers of threads and queues and any finite set of posts, servers, notifications and
callers:

* `TypeCorrect`. Inductive with `CountInv` (`within_cq_post_` is the number of posts between its two updates),
  `SpawnInv` (one `run_while` at most fills `threads_`, in order, while the state is Running) and `StopInv` (one stop
  at most is under way, what it has joined so far, and that no worker is left from the last join on). These
  four are `IInv`, on which all the rest is built.
* `ServersAreFixed`, from `LockInv`: who holds `padlock_` in which place, and that an `attach_server` that is about
  to append read Ready and still sees Ready.
* `NoBind`, from `HandshakeInv`: a queue is shut down only by a stop that is past its wait, and a post that has
  read `can_post` and not left yet (`Binding`) keeps every stop in that wait. The step that matters is `StopWait`: by
  `CountInv`, `within_cq_post_ = 0` leaves nobody in `Binding`.
* `NeverTerminated`, under `~PredicateFires`: without a predicate no worker calls stop (`AloneInv`), so stop joins no
  thread that waits for it, and `StopInv` makes the vector empty when it is cleared. The finding `context_predicate`
  shows that the condition is needed.
* `NotificationsAreDelivered`, from `NoteInv`: an added notification is in the vector, in the local copy of the stop
  under way, or was called, and after Stopped the vector takes nothing.
* `WorkHasAHome`, `RejectedNeverRun`, from `WorkInv`: `OneHome` lists where an item can be, and that these places
  exclude each other; `HandInv` says what a worker has in hand at each place of its loop, `HeapInv` that the event of
  a call is allocated only while it can still come. `StaysHome` is the frame: a step about one item leaves the
  others where they are.
* `StoppedQuiescent`. A worker leaves its loop when it has counted as many drained queues as there are, over a pass
  that visits them one after the other while others work. `DrainStays`: a drained queue stays drained (it is shut
  down, and by `HandshakeInv` nothing is started on it). `PassInv`: `shutdown_cq_count` reaches the number of queues
  behind the worker only if each of them was drained. `PassCovers`: `(thread_number + i) % n` for `i < n` visits every
  queue; it needs two facts on division. Hence `AllDrained` when a worker is past its loop. `DoneInv`: a thunk that was
  queued before `done` is out of the queue once a worker has drained it. When all have exited (`AllExited`), an
  owed item has no home left but `ran`.
* `NothingStarts`: in state Stopped no worker is left, `done` is signalled, and no post is in `Binding`.
* `ContextKeepsContract`: `Spec => ImplementsContract`, one lemma each for posts, workers and stop. `CallsInv` says that
  `calls` is 1 for what is in `ran` and 0 for the rest, so that what a worker has in hand, which by `WorkInv` is not in
  `ran`, was never called: the contract's at most once. `PathInv` adds
  that what is in the thunk queue or came out of it was accepted, that `try_pop` hands out one thunk, and that `done`
  is signalled only when a stop has begun (by `PassInv` and `HandshakeInv`): so a refusal by the thunk queue is a
  refusal the contract allows.
* `StopsWaitForSomething`: `Spec => []StopWaitsForSomething`, the safety half of `StopReturns`, with predicates or
  without. By `CountInv` a `within_cq_post_` above zero is a post that has yet to leave; `ProgressInv` says how many
  queues the loop of `stop` has shut down and that a thread in the vector has been started; with `StopInv` and
  `PassInv`, a thread that is joined is in its vector and its pass polls only queues that are shut down; and
  `PadlockIsReleased` is inductive by itself. Only the thread's own join (`context_predicate`) is exempt.

Assumptions: `ThreadsFinite`, `NoneIsNone`, `NAssumption`, `IndexModAssumption` in TaskQueue; `NThreadsAssumption`,
`NCqsAssumption` (the asserts of the constructor), `IndexModIsPositive`, `ItemsAssumption` (finitely many posts, of one
kind each) and `NamesAssumption` in ExecutionContext; `MaxCallsAssumption`, `WorkersAssumption`, `ThrowingAssumption` in ServerRpc;
`RunnersFinite` in RunLoop (a process has finitely many threads; the counts of `NoLostWakeup` need it); the named
assumptions of the other modules. TLC evaluates them in the runs.

Only model-checked: every liveness property (temporal reasoning with fairness is outside what the installed
provers do): `EveryDrainReturns`, `StopReturns`, `AcceptedWorkRuns`, `EveryStartSignals`, `EveryCallAnswered`,
`StopsReturn`, `RunReturns`, `LinkedRuns`. What can be proved of them is that nobody ever waits for nothing:
`DrainsWaitForOthers` and `WorkersLeaveADeque`, `StopsWaitForSomething`, `NoReceiverForgotten`, `CallsCarried`,
`WakeupsKept`. What then remains for TLC is that, under the fairness of section 3, the steps waited for are taken.
The contract is safety as well; that promised work is called some time is `AcceptedWorkRuns`. `DequesAreExclusive`,
`DequeToSpare`, `DrainWaitsForOthers`, `CallsAreCarried` and `UntoldIsUnderway` are stated next to their proofs; no run lists
them, the theorems hold for every instance.

## 5. Not modelled

* `PureClientRpcSender` and `PureRpcSenderOpState`: `connect` passes four arguments to a constructor that
  takes three, so it cannot be instantiated.
* Messages, ports, credentials, protobuf, the error category's texts; `RpcStatus` keeps an
  `std::error_code` that refers to a destroyed temporary category, a lifetime error outside a model of
  states.
* What the greeting application computes and the building of its server (`main`'s order and the server's
  `stop` are in ServerRpc), and `scratch_sender.hpp`, which nothing includes.
* `just`, `then` and `printing_receiver` of the from-scratch example: values on one thread.
  `just_sender::connect` refers to a member that does not exist.
* `duration_to_grp_timespec`: arithmetic on a duration; time is abstract in the models.
* Several work queues per server, ports of several servers, and the composition of ServerRpc with the
  posts of application threads: ServerRpc keeps of the context what its handlers meet.

Known and not covered by a property: an `Alarm` is never deleted (`alarm.hpp:22`), although
`execution_context.cpp:69` says that the completion queue manages its lifecycle; each delayed post leaks its
event. No interleaving is involved.

## 6. Plan

1. **Done**: TaskPool, TaskQueue and its proofs; CompletionQueue, ExecutionContext; StatusCodes, ClientRpc;
   ServerRpc and RunLoop, with proofs for the last three.
2. **Done**: ContextContract, and its refinement by ExecutionContext checked and proved.
3. **Done**: proofs of every safety property of ExecutionContext.
4. **Done**: proofs of the safety half of every liveness property (nobody waits for nothing).
5. Left to prove: what the contract implies for its users, from ContextContract alone; an abstract FIFO executor
   and its refinement by RunLoop.
6. Left to model: ClientRpc and ServerRpc on an instance of ContextContract in place of `open` and of their reduced worker
   loop; several work queues per server.
