------------------------------ MODULE ServerRpc ------------------------------
(***************************************************************************)
(* Calls that arrive at a server: ServerRpcHandler                         *)
(* (src/src/sgrpc/server_rpc_handler.hpp) on the server's work queue, the  *)
(* Scheduler its sender mode starts on, and the order in which the         *)
(* application shuts the gRPC server and the execution context down.       *)
(*                                                                         *)
(* <<m, k>> is the k-th handler made for the method m, an object on the    *)
(* heap that is the tag of its own operations: the request for the next    *)
(* call, then the Finish of that call.  The worker loop is that of         *)
(* ExecutionContext with one queue, its pass reduced to what it finds; the *)
(* thunk queue is TaskPool.                                                *)
(***************************************************************************)
EXTENDS Naturals, FiniteSets, CompletionQueue

CONSTANTS
  Methods,          \* the methods wire_rpcs makes a handler for
  Immediate,        \* those whose logic returns the response, not a sender
  Throwing,         \* those of the others whose logic may throw before it returns its sender
  MaxCalls,         \* bound: how many calls arrive for each method
  Workers,          \* the context's threads
  Orders            \* TRUE: the server is shut down before stop is called, as in main;
                    \* FALSE: in any order

ASSUME ImmediateAssumption == Immediate \subseteq Methods
ASSUME ThrowingAssumption == Throwing \subseteq Methods \ Immediate
ASSUME MaxCallsAssumption == MaxCalls \in [Methods -> Nat]
ASSUME OrdersAssumption == Orders \subseteq BOOLEAN
ASSUME WorkersAssumption == Workers # {}       \* assert(n_threads > 0)

Handlers == UNION {{m} \X (1 .. MaxCalls[m] + 1) : m \in Methods}
Deferred == {h \in Handlers : h[1] \notin Immediate}

VARIABLES
  cq,               \* the server's work queue
  okay,             \* is_ok of a handler's last event
  made,             \* how many handlers were made for each method
  alive,            \* the handlers that are allocated
  delete_on_next,   \* those with delete_on_next_complete_
  call,             \* gRPC's side of the call a handler serves
  finishes,         \* how often Finish was called on a handler's call
  server,           \* the gRPC server
  context,          \* the execution context
  admitted, pool, taken, refused, done,     \* task_queue_, see TaskPool
  pc,               \* where each worker is
  hand,             \* the handlers, or their thunks, a worker is busy with
  server_first,     \* the member of Orders this program keeps to
  process           \* "aborted": an operation was started on a queue that is shut down;
                    \* "terminated": an exception left a noexcept function

poolVars == <<admitted, pool, taken, refused, done>>
heap == <<made, alive, delete_on_next>>
calls == <<call, finishes>>
workerVars == <<pc, hand>>
vars == <<cq, okay, heap, calls, server, context, poolVars, workerVars, server_first, process>>

TP == INSTANCE TaskPool WITH Tasks <- Deferred

WorkerLabels == {"poll", "complete", "logic", "push", "thunk",
                 "drain", "drain_check", "drain_run", "exited"}

Goto(w, from, to) == process = "running" /\ pc[w] = from /\ pc' = [pc EXCEPT ![w] = to]

\* The context runs and wire_rpcs has made the first handler of each method.
Init ==
  /\ alive = {<<m, 1>> : m \in Methods}
  /\ cq = [NewQueue EXCEPT !.pending = alive]
  /\ okay = [h \in Handlers |-> FALSE]
  /\ made = [m \in Methods |-> 1]
  /\ delete_on_next = {}
  /\ call = [h \in Handlers |-> "none"]
  /\ finishes = [h \in Handlers |-> 0]
  /\ server = "serving"
  /\ context = "running"
  /\ TP!PoolInit
  /\ pc = [w \in Workers |-> "poll"]
  /\ hand = [w \in Workers |-> {}]
  /\ server_first \in Orders
  /\ process = "running"

-----------------------------------------------------------------------------
(* gRPC                                                                    *)

\* A client calls: the request of a handler completes.
Arrive(h) ==
  /\ process = "running"
  /\ server = "serving" /\ h[2] <= MaxCalls[h[1]]
  /\ h \in cq.pending /\ call[h] = "none"
  /\ cq' = Fire(cq, h)
  /\ okay' = [okay EXCEPT ![h] = TRUE]
  /\ call' = [call EXCEPT ![h] = "open"]
  /\ UNCHANGED <<server_first, heap, finishes, server, context, poolVars, workerVars, process>>

\* The server was shut down: a request without a call completes, not ok.
RequestFails(h) ==
  /\ process = "running"
  /\ server # "serving"
  /\ h \in cq.pending /\ call[h] = "none"
  /\ cq' = Fire(cq, h)
  /\ okay' = [okay EXCEPT ![h] = FALSE]
  /\ UNCHANGED <<server_first, heap, calls, server, context, poolVars, workerVars, process>>

\* A Finish completes; not ok if the client has gone.
AnswerSent(h) ==
  /\ process = "running"
  /\ h \in cq.pending /\ call[h] = "finishing"
  /\ cq' = Fire(cq, h)
  /\ \E b \in BOOLEAN : okay' = [okay EXCEPT ![h] = b]
  /\ call' = [call EXCEPT ![h] = "closed"]
  /\ UNCHANGED <<server_first, heap, finishes, server, context, poolVars, workerVars, process>>

-----------------------------------------------------------------------------
(* ServerRpcHandler::complete                                              *)

\* Starting an operation on a queue after its Shutdown aborts the process.
StartOn(h) ==
  /\ cq' = Start(cq, h)
  /\ process' = IF cq.shutdown THEN "aborted" ELSE process

\* response_writer_.Finish, with OK or an error
FinishCall(h) ==
  /\ StartOn(h)
  /\ call' = [call EXCEPT ![h] = "finishing"]
  /\ finishes' = [finishes EXCEPT ![h] = @ + 1]

\* AsyncNext returns a tag
TakeEvent(w) ==
  /\ Goto(w, "poll", "complete")
  /\ \E h \in cq.ready : cq' = TakeTag(cq, h) /\ hand' = [hand EXCEPT ![w] = {h}]
  /\ UNCHANGED <<server_first, okay, heap, calls, server, context, poolVars, process>>

\* Mutant: an event that is not ok is ignored.
DeleteIgnoresNotOk(w) ==
  /\ Goto(w, "complete", "poll")
  /\ \E h \in hand[w] :
       /\ h \in delete_on_next \/ ~okay[h]
       /\ alive' = IF h \in delete_on_next THEN alive \ {h} ELSE alive
  /\ hand' = [hand EXCEPT ![w] = {}]
  /\ UNCHANGED <<server_first, cq, okay, made, delete_on_next, calls, server, context, poolVars, process>>

\* delete_on_next_complete_ || !is_okay: delete this
Delete(w) ==
  /\ Goto(w, "complete", "poll")
  /\ \E h \in hand[w] : (h \in delete_on_next \/ ~okay[h]) /\ alive' = alive \ {h}
  /\ hand' = [hand EXCEPT ![w] = {}]
  /\ UNCHANGED <<server_first, cq, okay, made, delete_on_next, calls, server, context, poolVars, process>>

\* Mutant: delete_on_next_complete_ is not set.
SpawnUnmarked(w) ==
  /\ Goto(w, "complete", "logic")
  /\ \E h \in hand[w] \ delete_on_next :
       /\ okay[h] /\ made[h[1]] <= MaxCalls[h[1]]
       /\ made' = [made EXCEPT ![h[1]] = @ + 1]
       /\ alive' = alive \cup {<<h[1], made[h[1]] + 1>>}
       /\ StartOn(<<h[1], made[h[1]] + 1>>)
  /\ UNCHANGED <<server_first, okay, delete_on_next, calls, server, context, poolVars, hand>>

\* Mutant: no successor.
SpawnNot(w) ==
  /\ Goto(w, "complete", "logic")
  /\ \E h \in hand[w] \ delete_on_next :
       okay[h] /\ delete_on_next' = delete_on_next \cup {h}
  /\ UNCHANGED <<server_first, cq, okay, made, alive, calls, server, context, poolVars, hand, process>>

\* Mutant: two successors.
SpawnTwo(w) ==
  /\ Goto(w, "complete", "logic")
  /\ \E h \in hand[w] \ delete_on_next :
       LET new == {<<h[1], made[h[1]] + 1>>, <<h[1], made[h[1]] + 2>>} IN
       /\ okay[h] /\ made[h[1]] <= MaxCalls[h[1]]
       /\ made' = [made EXCEPT ![h[1]] = @ + 2]
       /\ alive' = alive \cup new
       /\ cq' = [cq EXCEPT !.pending = @ \cup new]
       /\ process' = IF cq.shutdown THEN "aborted" ELSE process
       /\ delete_on_next' = delete_on_next \cup {h}
  /\ UNCHANGED <<server_first, okay, calls, server, context, poolVars, hand>>

\* new ServerRpcHandler, whose constructor binds it to the queue;
\* delete_on_next_complete_ = true
Spawn(w) ==
  /\ Goto(w, "complete", "logic")
  /\ \E h \in hand[w] \ delete_on_next :
       /\ okay[h] /\ made[h[1]] <= MaxCalls[h[1]]
       /\ made' = [made EXCEPT ![h[1]] = @ + 1]
       /\ alive' = alive \cup {<<h[1], made[h[1]] + 1>>}
       /\ StartOn(<<h[1], made[h[1]] + 1>>)
       /\ delete_on_next' = delete_on_next \cup {h}
  /\ UNCHANGED <<server_first, okay, calls, server, context, poolVars, hand>>

\* Mutant: the handler deletes itself after Finish.
FinishNowDeletes(w) ==
  /\ Goto(w, "logic", "poll")
  /\ \E h \in hand[w] \ Deferred : FinishCall(h) /\ alive' = alive \ {h}
  /\ hand' = [hand EXCEPT ![w] = {}]
  /\ UNCHANGED <<server_first, okay, made, delete_on_next, server, context, poolVars>>

\* Mutant: a logic that throws leaves no answer.
FinishNowUnlessThrown(w) ==
  /\ Goto(w, "logic", "poll")
  /\ \E h \in hand[w] \ Deferred :
       FinishCall(h) \/ UNCHANGED <<cq, calls, process>>
  /\ hand' = [hand EXCEPT ![w] = {}]
  /\ UNCHANGED <<server_first, okay, heap, server, context, poolVars>>

\* immediate mode: Finish with what logic_ returned, or INTERNAL if it threw
FinishNow(w) ==
  /\ Goto(w, "logic", "poll")
  /\ \E h \in hand[w] \ Deferred : FinishCall(h)
  /\ hand' = [hand EXCEPT ![w] = {}]
  /\ UNCHANGED <<server_first, okay, heap, server, context, poolVars>>

\* sender mode: the logic is called for its sender before anything is
\* scheduled.  No try surrounds the call and complete is noexcept.
LogicThrows(w) ==
  /\ process = "running" /\ pc[w] = "logic"
  /\ \E h \in hand[w] \cap Deferred : h[1] \in Throwing
  /\ process' = "terminated"
  /\ UNCHANGED <<server_first, cq, okay, heap, calls, server, context, poolVars, workerVars>>

\* sender mode: the logic has returned; start_detached starts schedule's Op_, which posts its thunk.
\* It ignores a post that is refused.
Schedule(w) ==
  \/ /\ Goto(w, "logic", "push")
     /\ \E h \in hand[w] \cap Deferred : TP!Admit(h)
     /\ UNCHANGED <<server_first, cq, okay, heap, calls, server, context, hand, process>>
  \/ /\ Goto(w, "logic", "poll")
     /\ \E h \in hand[w] \cap Deferred : TP!Refuse(h)
     /\ hand' = [hand EXCEPT ![w] = {}]
     /\ UNCHANGED <<server_first, cq, okay, heap, calls, server, context, process>>

\* the thunk is queued
Scheduled(w) ==
  /\ Goto(w, "push", "poll")
  /\ \E h \in hand[w] : TP!Accept(h)
  /\ hand' = [hand EXCEPT ![w] = {}]
  /\ UNCHANGED <<server_first, cq, okay, heap, calls, server, context, process>>

-----------------------------------------------------------------------------
(* The worker loop, see ExecutionContext                                   *)

TakeThunk(w) ==
  /\ Goto(w, "poll", "thunk")
  /\ \E h \in pool : TP!Take({h}) /\ hand' = [hand EXCEPT ![w] = {h}]
  /\ UNCHANGED <<server_first, cq, okay, heap, calls, server, context, process>>

\* Op_'s thunk: set_value starts the sender the logic has returned, which
\* completes here, and then `then' or `upon_error' calls Finish.
RunThunk(w) ==
  /\ Goto(w, "thunk", "poll")
  /\ \E h \in hand[w] : FinishCall(h)
  /\ hand' = [hand EXCEPT ![w] = {}]
  /\ UNCHANGED <<server_first, okay, heap, server, context, poolVars>>

\* every queue says SHUTDOWN; stop_and_eject begins with signal_done
Leave(w) ==
  /\ Goto(w, "poll", "drain")
  /\ IsDrained(cq)
  /\ TP!SignalDone
  /\ UNCHANGED <<server_first, cq, okay, heap, calls, server, context, hand, process>>

Drain(w) ==
  /\ Goto(w, "drain", "drain_check")
  /\ \/ pool = {} /\ UNCHANGED <<poolVars, hand>>
     \/ TP!Take(pool) /\ hand' = [hand EXCEPT ![w] = @ \cup pool]
  /\ UNCHANGED <<server_first, cq, okay, heap, calls, server, context, process>>

DrainCheck(w) ==
  /\ Goto(w, "drain_check", IF admitted # {} THEN "drain" ELSE "drain_run")
  /\ UNCHANGED <<server_first, cq, okay, heap, calls, server, context, poolVars, hand, process>>

DrainRun(w) ==
  \/ /\ Goto(w, "drain_run", "drain_run")
     /\ \E h \in hand[w] : FinishCall(h) /\ hand' = [hand EXCEPT ![w] = @ \ {h}]
     /\ UNCHANGED <<server_first, okay, heap, server, context, poolVars>>
  \/ /\ Goto(w, "drain_run", "exited")
     /\ hand[w] = {}
     /\ UNCHANGED <<server_first, cq, okay, heap, calls, server, context, poolVars, hand, process>>

Worker(w) ==
  \/ TakeEvent(w) \/ Delete(w) \/ Spawn(w) \/ FinishNow(w) \/ LogicThrows(w)
  \/ Schedule(w) \/ Scheduled(w)
  \/ TakeThunk(w) \/ RunThunk(w) \/ Leave(w) \/ Drain(w) \/ DrainCheck(w) \/ DrainRun(w)

-----------------------------------------------------------------------------
(* The application                                                         *)

\* ServerContainer::Impl::stop: grpc_server().Shutdown()
StopServer ==
  /\ process = "running"
  /\ server = "serving"
  /\ server' = "stopping"
  /\ UNCHANGED <<server_first, cq, okay, heap, calls, context, poolVars, workerVars, process>>

\* Mutant: without Wait.
ServerStoppedAtOnce ==
  /\ process = "running"
  /\ server = "stopping"
  /\ server' = "stopped"
  /\ UNCHANGED <<server_first, cq, okay, heap, calls, context, poolVars, workerVars, process>>

\* grpc_server().Wait() returns: every call that arrived is closed.
ServerStopped ==
  /\ process = "running"
  /\ server = "stopping"
  /\ \A h \in Handlers : call[h] \in {"none", "closed"}
  /\ server' = "stopped"
  /\ UNCHANGED <<server_first, cq, okay, heap, calls, context, poolVars, workerVars, process>>

\* Mutant: main declares the server before the context.
MayStopContextAlways == TRUE

\* main declares the context before the server: the destructor of the server
\* has returned when that of the context begins.
MayStopContext == server_first => server = "stopped"

\* ExecutionContext::stop shuts the work queue down.
StopContext ==
  /\ process = "running"
  /\ context = "running"
  /\ MayStopContext
  /\ context' = "stopping"
  /\ cq' = ShutDown(cq)
  /\ UNCHANGED <<server_first, okay, heap, calls, server, poolVars, workerVars, process>>

\* it has joined the workers
ContextStopped ==
  /\ process = "running"
  /\ context = "stopping"
  /\ \A w \in Workers : pc[w] = "exited"
  /\ context' = "stopped"
  /\ UNCHANGED <<server_first, cq, okay, heap, calls, server, poolVars, workerVars, process>>

\* Nothing happens any more.  Without the order of main that may be so while
\* Wait still waits for the call of a handler whose thunk was refused.
Finished ==
  \/ process # "running"
  \/ context = "stopped" /\ (server = "stopped" \/ refused # {})

Next ==
  \/ \E h \in Handlers : Arrive(h) \/ RequestFails(h) \/ AnswerSent(h)
  \/ \E w \in Workers : Worker(w)
  \/ StopServer \/ ServerStopped \/ StopContext \/ ContextStopped
  \/ Finished /\ UNCHANGED vars

Spec == Init /\ [][Next]_vars

\* Threads run; one pass of the worker loop looks at the completion queue
\* and at the thunk queue, so the workers together pass neither over for
\* ever (strong fairness).  gRPC completes what it was given.  Nothing makes clients call
\* or the application stop anything.
Fairness ==
  /\ \A w \in Workers : WF_vars(Worker(w))
  /\ SF_vars(\E w \in Workers : TakeEvent(w))
  /\ SF_vars(\E w \in Workers : TakeThunk(w))
  /\ \A h \in Handlers : WF_vars(RequestFails(h) \/ AnswerSent(h))
  /\ WF_vars(ServerStopped) /\ WF_vars(ContextStopped)

FairSpec == Spec /\ Fairness

-----------------------------------------------------------------------------
TypeOK ==
  /\ cq \in QueueType(Handlers)
  /\ okay \in [Handlers -> BOOLEAN]
  /\ made \in [Methods -> Nat]
  /\ \A m \in Methods : made[m] \in 1 .. MaxCalls[m]+1
  /\ alive \subseteq Handlers
  /\ delete_on_next \subseteq Handlers
  /\ call \in [Handlers -> {"none", "open", "finishing", "closed"}]
  /\ finishes \in [Handlers -> Nat]
  /\ server \in {"serving", "stopping", "stopped"}
  /\ context \in {"running", "stopping", "stopped"}
  /\ TP!PoolTypeOK
  /\ pc \in [Workers -> WorkerLabels]
  /\ hand \in [Workers -> SUBSET Handlers]
  /\ server_first \in Orders
  /\ process \in {"running", "aborted", "terminated"}

\* gRPC forbids starting an operation on a queue that was shut down; complete
\* and the scheduled thunk do so without looking.  The order of the
\* application's destructors keeps the process from aborting.
NothingStartsAfterShutdown == server_first => process # "aborted"

Holders(h) == {w \in Workers : h \in hand[w]}

\* While the server serves, the newest handler of a method waits for a call,
\* or has got one and is about to make its successor, and no other handler
\* waits: a method is never left without a handler and never has two.
OneHandlerListens ==
  server = "serving" =>
    \A m \in Methods :
      LET last == <<m, made[m]>> IN
        /\ \/ call[last] = "none" /\ last \in cq.pending
           \/ call[last] = "open" /\ last \notin delete_on_next
                /\ (last \in cq.ready \/ \E w \in Holders(last) : pc[w] = "complete")
        /\ \A k \in 1 .. made[m]-1 : call[<<m, k>>] # "none" /\ <<m, k>> \in delete_on_next

In(x, S) == IF x \in S THEN 1 ELSE 0

\* A handler is referred to from exactly one place while it is allocated, and
\* from none once it has deleted itself: it is not used after that, not
\* deleted twice, and not forgotten.
HandlerHasOneHome ==
  server_first =>
  \A h \in Handlers :
    In(h, cq.pending) + In(h, cq.ready) + In(h, pool) + Cardinality(Holders(h)) = In(h, alive)

\* A call is answered once: Finish is called on no call twice, and on none
\* that has not arrived.
AnsweredOnce ==
  \A h \in Handlers :
    finishes[h] = IF call[h] \in {"finishing", "closed"} THEN 1 ELSE 0

\* When the server and the context are stopped no handler is left.
StoppedFreesHandlers == server_first /\ context = "stopped" => alive = {}

\* Every call that arrives is answered, if it does not end the process.  Two
\* things do: a logic in sender mode that throws before it has returned its
\* sender, in any order, and outside the order of main an operation started
\* on a queue that is shut down.  Outside that order a call is also never
\* answered when the post of its thunk is refused; in that order no post is.
EveryCallAnswered ==
  \A h \in Handlers :
    call[h] = "open" ~>
      \/ call[h] = "closed"
      \/ process = "terminated"
      \/ ~server_first /\ (process = "aborted" \/ h \in refused)

\* ServerContainer::stop returns, and then so does ExecutionContext::stop,
\* unless an exception of a logic has ended the process.
StopsReturn ==
  /\ server_first /\ server = "stopping" ~> server = "stopped" \/ process = "terminated"
  /\ server_first /\ context = "stopping" ~> context = "stopped" \/ process = "terminated"
=============================================================================
