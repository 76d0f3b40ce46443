------------------------------- MODULE RunLoop -------------------------------
(***************************************************************************)
(* run_loop, thread_context and sync_wait of the from-scratch example      *)
(* (src/examples/from-scratch.cpp): operations in an intrusive circular    *)
(* list under a mutex, threads inside run() that pop and execute them, and *)
(* threads that start an operation and wait for its value.                 *)
(*                                                                         *)
(* A critical section of padlock is one action; so is one of a sync_wait   *)
(* control block.  cv.wait is explicit: a runner that finds its condition  *)
(* false sleeps until a notification or a spurious wake-up, and looks      *)
(* again.                                                                  *)
(***************************************************************************)
EXTENDS Naturals, Sequences, FiniteSets

CONSTANTS
  Ops,          \* operation states, each started at most once
  Waited,       \* the operations whose owner is in sync_wait
  Runners,      \* threads that call run
  head,         \* the run_loop's member `head'
  None          \* a runner has no operation in hand

ASSUME WaitedAssumption == Waited \subseteq Ops
ASSUME HeadIsNoOp == head \notin Ops
ASSUME RunnersFinite == IsFiniteSet(Runners)
ASSUME NoneIsNone == None \notin Ops \cup {head}

Nodes == Ops \cup {head}

VARIABLES
  next,         \* task::next of every node
  tail,         \* tail
  finishing,    \* finishing
  waiting,      \* the runners asleep in cv.wait
  rpc,          \* where each runner is in run
  op,           \* the operation a runner has popped, until it is out of execute
  opc,          \* where the owner of each operation is
  done,         \* operations whose receiver was called; is_done of a sync_wait
  pushed,       \* history: operations in the order of push_back
  popped,       \* history: operations in the order of pop_front
  emptied,      \* history: a pop_front has taken the last operation of the list
  wild          \* a push_back wrote into an operation state that is gone

list == <<next, tail>>
history == <<pushed, popped, emptied>>
vars == <<list, finishing, waiting, rpc, op, opc, done, history, wild>>

RunnerLabels == {"idle", "pop", "execute", "leave", "returned"}
OwnerLabels == {"connected", "started", "asleep", "returned"}

Init ==
  /\ next = [n \in Nodes |-> n]
  /\ tail = head
  /\ finishing = FALSE
  /\ waiting = {}
  /\ rpc = [r \in Runners |-> "idle"]
  /\ op = [r \in Runners |-> None]
  /\ opc = [t \in Ops |-> "connected"]
  /\ done = {}
  /\ pushed = <<>>
  /\ popped = <<>>
  /\ emptied = FALSE
  /\ wild = FALSE

RunGoto(r, from, to) == ~wild /\ rpc[r] = from /\ rpc' = [rpc EXCEPT ![r] = to]
OwnerGoto(t, from, to) == ~wild /\ opc[t] = from /\ opc' = [opc EXCEPT ![t] = to]

\* An owner that has returned from sync_wait has destroyed its operation.
Gone(n) == n \in Ops /\ opc[n] = "returned"

NotifyOne == \/ waiting = {} /\ waiting' = {}
             \/ \E r \in waiting : waiting' = waiting \ {r}
NotifyAll == waiting' = {}

-----------------------------------------------------------------------------
\* Mutant: push_back does not notify.
StartSilently(t) ==
  /\ OwnerGoto(t, "connected", "started")
  /\ next' = [next EXCEPT ![t] = head, ![tail] = t]
  /\ tail' = t
  /\ UNCHANGED waiting
  /\ pushed' = Append(pushed, t)
  /\ wild' = Gone(tail)
  /\ UNCHANGED <<finishing, rpc, op, done, popped, emptied>>

\* Mutant: push_back inserts behind head.
StartInFront(t) ==
  /\ OwnerGoto(t, "connected", "started")
  /\ next' = [next EXCEPT ![t] = next[head], ![head] = t]
  /\ UNCHANGED tail
  /\ NotifyOne
  /\ pushed' = Append(pushed, t)
  /\ UNCHANGED <<finishing, rpc, op, done, popped, emptied, wild>>

\* start: push_back.  Nothing is said of what a write through a tail that
\* points to a destroyed operation does: no step follows it.
Start(t) ==
  /\ OwnerGoto(t, "connected", "started")
  /\ next' = [next EXCEPT ![t] = head, ![tail] = t]
  /\ tail' = t
  /\ NotifyOne
  /\ pushed' = Append(pushed, t)
  /\ wild' = Gone(tail)
  /\ UNCHANGED <<finishing, rpc, op, done, popped, emptied>>

\* run is called
RunBegin(r) ==
  /\ RunGoto(r, "idle", "pop")
  /\ UNCHANGED <<list, finishing, waiting, op, opc, done, history, wild>>

\* pop_front: the condition is false, the runner goes to sleep.
PopWait(r) ==
  /\ RunGoto(r, "pop", "pop")
  /\ r \notin waiting
  /\ next[head] = head /\ ~finishing
  /\ waiting' = waiting \cup {r}
  /\ UNCHANGED <<list, finishing, op, opc, done, history, wild>>

\* a wake-up that nobody asked for
Wake(r) ==
  /\ ~wild
  /\ r \in waiting
  /\ waiting' = waiting \ {r}
  /\ UNCHANGED <<list, finishing, rpc, op, opc, done, history, wild>>

\* Mutant: the rest of the list is forgotten.
PopForgetsRest(r) ==
  /\ RunGoto(r, "pop", "execute")
  /\ r \notin waiting
  /\ next[head] # head
  /\ op' = [op EXCEPT ![r] = next[head]]
  /\ next' = [next EXCEPT ![head] = head]
  /\ popped' = Append(popped, next[head])
  /\ emptied' = (emptied \/ next[next[head]] = head)
  /\ UNCHANGED <<tail, finishing, waiting, opc, done, pushed, wild>>

\* Mutant: nullptr is not returned when the wait ended with an empty list.
PopUnchecked(r) ==
  /\ RunGoto(r, "pop", "execute")
  /\ r \notin waiting
  /\ next[head] # head \/ finishing
  /\ op' = [op EXCEPT ![r] = next[head]]
  /\ next' = [next EXCEPT ![head] = next[next[head]]]
  /\ popped' = Append(popped, next[head])
  /\ emptied' = (emptied \/ next[next[head]] = head)
  /\ UNCHANGED <<tail, finishing, waiting, opc, done, pushed, wild>>

\* pop_front: std::exchange(head.next, head.next->next).  tail stays.
Pop(r) ==
  /\ RunGoto(r, "pop", "execute")
  /\ r \notin waiting
  /\ next[head] # head
  /\ op' = [op EXCEPT ![r] = next[head]]
  /\ next' = [next EXCEPT ![head] = next[next[head]]]
  /\ popped' = Append(popped, next[head])
  /\ emptied' = (emptied \/ next[next[head]] = head)
  /\ UNCHANGED <<tail, finishing, waiting, opc, done, pushed, wild>>

\* pop_front returns nullptr: run returns.
PopNothing(r) ==
  /\ RunGoto(r, "pop", "returned")
  /\ r \notin waiting
  /\ next[head] = head /\ finishing
  /\ UNCHANGED <<list, finishing, waiting, op, opc, done, history, wild>>

\* set_value of the last receiver: that of sync_wait sets is_done and notifies
\* its owner.
SetValue(t) ==
  /\ done' = done \cup {t}
  /\ opc' = [opc EXCEPT ![t] = IF @ = "asleep" THEN "started" ELSE @]

\* execute: set_value, through the receivers of `then' to the last one.  The
\* runner is still inside the operation's execute when the owner may return.
Execute(r) ==
  /\ RunGoto(r, "execute", "leave")
  /\ SetValue(op[r])
  /\ UNCHANGED <<list, finishing, waiting, op, history, wild>>

\* execute returns to the loop of run; it reads nothing of the operation.
Leave(r) ==
  /\ RunGoto(r, "leave", "pop")
  /\ op' = [op EXCEPT ![r] = None]
  /\ UNCHANGED <<list, finishing, waiting, opc, done, history, wild>>

\* sync_wait: is_done is false, the owner goes to sleep.
OwnerSleep(t) ==
  /\ t \in Waited \ done
  /\ OwnerGoto(t, "started", "asleep")
  /\ UNCHANGED <<list, finishing, waiting, rpc, op, done, history, wild>>

\* a wake-up that nobody asked for
OwnerWake(t) ==
  /\ OwnerGoto(t, "asleep", "started")
  /\ UNCHANGED <<list, finishing, waiting, rpc, op, done, history, wild>>

\* Mutant: cv.wait(lock) without a condition.
OwnerReturnUnchecked(t) ==
  /\ t \in Waited
  /\ OwnerGoto(t, "started", "returned")
  /\ UNCHANGED <<list, finishing, waiting, rpc, op, done, history, wild>>

\* sync_wait: is_done is true, it returns and the operation state is gone.
OwnerReturn(t) ==
  /\ t \in Waited \cap done
  /\ OwnerGoto(t, "started", "returned")
  /\ UNCHANGED <<list, finishing, waiting, rpc, op, done, history, wild>>

\* Mutant: finish notifies one runner.
FinishNotifiesOne ==
  /\ ~wild /\ ~finishing
  /\ finishing' = TRUE
  /\ NotifyOne
  /\ UNCHANGED <<list, rpc, op, opc, done, history, wild>>

\* finish
Finish ==
  /\ ~wild /\ ~finishing
  /\ finishing' = TRUE
  /\ NotifyAll
  /\ UNCHANGED <<list, rpc, op, opc, done, history, wild>>

Runner(r) == PopWait(r) \/ Pop(r) \/ PopNothing(r) \/ Execute(r) \/ Leave(r)
Owner(t) == OwnerSleep(t) \/ OwnerReturn(t)

Next ==
  \/ \E r \in Runners : RunBegin(r) \/ Wake(r) \/ Runner(r)
  \/ \E t \in Ops : Start(t) \/ OwnerWake(t) \/ Owner(t)
  \/ Finish

Spec == Init /\ [][Next]_vars

\* A thread inside run or sync_wait keeps running unless it is asleep.
\* Nothing makes the program start an operation, call run or call finish.
Fairness ==
  /\ \A r \in Runners : WF_vars(Runner(r))
  /\ \A t \in Ops : WF_vars(Owner(t))

FairSpec == Spec /\ Fairness

-----------------------------------------------------------------------------
TypeOK ==
  /\ next \in [Nodes -> Nodes]
  /\ tail \in Nodes
  /\ finishing \in BOOLEAN
  /\ waiting \subseteq Runners
  /\ rpc \in [Runners -> RunnerLabels]
  /\ op \in [Runners -> Ops \cup {None}]
  /\ opc \in [Ops -> OwnerLabels]
  /\ done \subseteq Ops
  /\ pushed \in Seq(Ops)
  /\ popped \in Seq(Ops)
  /\ emptied \in BOOLEAN
  /\ wild \in BOOLEAN

\* pop_front hands the operations out in the order of push_back, none twice,
\* and none before it was started: what it has returned is a prefix of what
\* push_back was given, also after the list has lost an operation.  Two
\* runners may still execute them in another order.
PoppedInOrder ==
  /\ Len(popped) <= Len(pushed)
  /\ \A k \in DOMAIN popped : popped[k] = pushed[k]
  /\ \A j, k \in DOMAIN pushed : pushed[j] = pushed[k] => j = k

\* As long as no pop_front has emptied it, the list read from head is exactly
\* the operations that were pushed and not popped, and it ends in tail.
ListIsQueue ==
  LET n == Len(pushed)  k == Len(popped) IN
    ~emptied =>
      /\ next[head] = IF k < n THEN pushed[k+1] ELSE head
      /\ \A j \in k+1 .. n-1 : next[pushed[j]] = pushed[j+1]
      /\ k < n => next[pushed[n]] = head
      /\ tail = IF n > 0 THEN pushed[n] ELSE head

\* The operations that pop_front can reach: those in every set that holds the
\* first one and with an operation the next.
Linked ==
  {t \in Ops : \A S \in SUBSET Nodes :
     next[head] \in S /\ (\A n \in S \cap Ops : next[n] \in S) => t \in S}

\* An operation state outlives its use: when sync_wait has returned, the
\* operation is not in the list, and no runner has it in hand and has still to
\* call its receiver.  A runner may still be on its way out of its execute.
OperationOutlivesUse ==
  \A t \in Ops : opc[t] = "returned" =>
    /\ \A r \in Runners : op[r] = t => rpc[r] = "leave"
    /\ \E k \in DOMAIN popped : popped[k] = t
    /\ t \notin Linked

\* The runners inside run, and those of them that no notification has to wake.
InRun == {r \in Runners : rpc[r] \in {"pop", "execute", "leave"}}
Awake == InRun \ waiting

\* No wake-up is lost.  push_back notifies one runner and finish all of them,
\* whatever the others are doing: while a runner sleeps in pop_front, every
\* operation in the list has a runner of its own that is awake and will look
\* at the list, and no runner sleeps once finish was called.  No owner sleeps
\* in sync_wait when its value is there.
NoLostWakeup ==
  /\ waiting # {} => Cardinality(Linked) <= Cardinality(Awake)
  /\ finishing => waiting = {}
  /\ \A t \in done : opc[t] # "asleep"

\* Once finish was called, every run returns: no runner sleeps through it.
RunReturns ==
  \A r \in Runners : (finishing /\ rpc[r] # "idle") ~> (wild \/ rpc[r] = "returned")

\* While a thread is inside run, an operation in the list is executed, and
\* then the sync_wait on it returns: no wake-up is lost.
LinkedRuns ==
  \A t \in Ops :
    (t \in Linked /\ InRun # {})
      ~> (wild \/ (t \in done /\ (t \in Waited => opc[t] = "returned")))

\* "insert operation into the queue" (from-scratch.cpp:187): an operation
\* that was started and not popped yet is in the list.
StartedIsInserted ==
  \A k \in DOMAIN pushed : k > Len(popped) => pushed[k] \in Linked
=============================================================================
