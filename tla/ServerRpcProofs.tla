-------------------------- MODULE ServerRpcProofs --------------------------
(***************************************************************************)
(* Safety of ServerRpc for any methods, numbers of calls and workers.      *)
(*                                                                         *)
(* HomeInv says where a handler can be and what is true of it there; from  *)
(* it everything else follows: which handler listens, how often a call is  *)
(* answered, and that nobody works on a call once Wait has returned.       *)
(***************************************************************************)
EXTENDS ServerRpc, FiniteSetTheorems, TLAPS

Held(h) == \E w \in Workers : h \in hand[w]

\* A handler that was not made yet: nothing is known of it.
FreshInv ==
  \A h \in Handlers : h[2] > made[h[1]] =>
    /\ h \notin cq.pending /\ h \notin cq.ready /\ h \notin pool /\ ~Held(h) /\ h \notin alive
    /\ call[h] = "none" /\ h \notin delete_on_next

\* No handler is in two places.
DisjointInv ==
  \A h \in Handlers :
    /\ h \in cq.pending => h \notin cq.ready /\ h \notin pool /\ ~Held(h)
    /\ h \in cq.ready => h \notin pool /\ ~Held(h)
    /\ h \in pool => ~Held(h)
    /\ \A v, w \in Workers : h \in hand[v] /\ h \in hand[w] => v = w

\* What is true of a handler ...
Waits(h) == \/ call[h] = "none" /\ h \notin delete_on_next        \* for a call
            \/ call[h] = "finishing" /\ h \in delete_on_next      \* for its Finish
Returned(h) ==                                                    \* by AsyncNext
  \/ call[h] = "open" /\ okay[h] /\ h \notin delete_on_next
  \/ call[h] = "none" /\ ~okay[h] /\ h \notin delete_on_next
  \/ call[h] = "closed" /\ h \in delete_on_next
Serves(h) == call[h] = "open" /\ h \in delete_on_next

\* ... where it is
PhaseInv ==
  \A h \in Handlers :
    /\ h \in cq.pending => Waits(h)
    /\ h \in cq.ready => Returned(h)
    /\ h \in pool => Serves(h)
    /\ \A w \in Workers : h \in hand[w] =>
         /\ pc[w] = "complete" => Returned(h)
         /\ pc[w] # "complete" => Serves(h)

\* A worker that polls or has left has nothing in hand, one that completes an
\* event, runs a logic, pushes or runs a thunk exactly one handler.
HandInv ==
  \A w \in Workers :
    /\ pc[w] \in {"poll", "exited"} => hand[w] = {}
    /\ pc[w] \in {"complete", "logic", "push", "thunk"} => \E h \in Handlers : hand[w] = {h}

HomeInv == FreshInv /\ DisjointInv /\ PhaseInv /\ HandInv

-----------------------------------------------------------------------------
(* Handlers                                                                *)

LEMMA HandlerIs ==
  /\ \A h \in Handlers : /\ h[1] \in Methods /\ h[2] \in Nat
                         /\ h[2] \in 1 .. MaxCalls[h[1]] + 1 /\ h = <<h[1], h[2]>>
  /\ \A m \in Methods : \A k \in 1 .. MaxCalls[m] + 1 : <<m, k>> \in Handlers
BY MaxCallsAssumption DEF Handlers

\* The successor of a handler is a handler that was not made yet.
LEMMA Successor ==
  ASSUME TypeOK, NEW h \in Handlers, made[h[1]] <= MaxCalls[h[1]]
  PROVE  LET n == <<h[1], made[h[1]] + 1>> IN
           n \in Handlers /\ n[1] = h[1] /\ n[2] = made[h[1]] + 1
BY HandlerIs, MaxCallsAssumption DEF TypeOK

LEMMA FirstHandlers == \A m \in Methods : <<m, 1>> \in Handlers
BY HandlerIs, MaxCallsAssumption

-----------------------------------------------------------------------------
(* Types                                                                   *)

LEMMA InitType == Init => TypeOK
<1> SUFFICES ASSUME Init PROVE TypeOK
  OBVIOUS
<1> USE DEF Init
<1>1. alive \subseteq Handlers /\ cq \in QueueType(Handlers)
  BY FirstHandlers DEF NewQueue, QueueType
<1>2. made \in [Methods -> Nat] /\ \A m \in Methods : made[m] \in 1 .. MaxCalls[m] + 1
  BY MaxCallsAssumption
<1>3. TP!PoolTypeOK
  BY DEF TP!PoolInit, TP!PoolTypeOK
<1> QED
  BY <1>1, <1>2, <1>3 DEF TypeOK, WorkerLabels

LEMMA StepType == TypeOK /\ [Next]_vars => TypeOK'
<1> SUFFICES ASSUME TypeOK, [Next]_vars PROVE TypeOK'
  OBVIOUS
<1> USE DEF TypeOK, QueueType, poolVars, heap, calls, workerVars, Start, Fire, TakeTag, ShutDown,
            StartOn, FinishCall, WorkerLabels, Goto, TP!PoolTypeOK
<1>0. Deferred \subseteq Handlers
  BY DEF Deferred
<1>1. ASSUME NEW h \in Handlers, Arrive(h) \/ RequestFails(h) \/ AnswerSent(h)
      PROVE  TypeOK'
  <2>1. CASE Arrive(h)
    BY <2>1 DEF Arrive
  <2>2. CASE RequestFails(h)
    BY <2>2 DEF RequestFails
  <2>3. CASE AnswerSent(h)
    BY <2>3 DEF AnswerSent
  <2> QED
    BY <1>1, <2>1, <2>2, <2>3
<1>2. ASSUME NEW w \in Workers, Worker(w)
      PROVE  TypeOK'
  <2>1. CASE TakeEvent(w) \/ Delete(w)
    BY <2>1 DEF TakeEvent, Delete
  <2>2. CASE Spawn(w)
    <3>1. PICK h \in hand[w] :
            /\ made[h[1]] <= MaxCalls[h[1]]
            /\ made' = [made EXCEPT ![h[1]] = @ + 1]
            /\ alive' = alive \cup {<<h[1], made[h[1]] + 1>>}
            /\ StartOn(<<h[1], made[h[1]] + 1>>)
            /\ delete_on_next' = delete_on_next \cup {h}
      BY <2>2 DEF Spawn
    <3>2. h \in Handlers /\ h[1] \in Methods /\ <<h[1], made[h[1]] + 1>> \in Handlers
      BY <3>1, Successor, HandlerIs
    <3>3. /\ made' \in [Methods -> Nat]
          /\ \A m \in Methods : made'[m] \in 1 .. MaxCalls[m] + 1
      <4>1. made'[h[1]] = made[h[1]] + 1 /\ made[h[1]] \in Nat /\ MaxCalls[h[1]] \in Nat
        BY <3>1, <3>2, MaxCallsAssumption
      <4>2. made'[h[1]] \in 1 .. MaxCalls[h[1]] + 1
        BY <3>1, <4>1
      <4> QED
        BY <3>1, <3>2, <4>1, <4>2
    <3> QED
      BY <2>2, <3>1, <3>2, <3>3 DEF Spawn
  <2>3. CASE FinishNow(w) \/ RunThunk(w) \/ DrainRun(w)
    <3>1. CASE FinishNow(w)
      BY <3>1 DEF FinishNow
    <3>2. CASE RunThunk(w)
      BY <3>2 DEF RunThunk
    <3>3. CASE DrainRun(w)
      BY <3>3 DEF DrainRun
    <3> QED
      BY <2>3, <3>1, <3>2, <3>3
  <2>4. CASE Schedule(w) \/ Scheduled(w) \/ TakeThunk(w)
    <3>1. CASE Schedule(w)
      BY <1>0, <3>1 DEF Schedule, TP!Admit, TP!Refuse
    <3>2. CASE Scheduled(w)
      BY <1>0, <3>2 DEF Scheduled, TP!Accept
    <3>3. CASE TakeThunk(w)
      BY <1>0, <3>3 DEF TakeThunk, TP!Take
    <3> QED
      BY <2>4, <3>1, <3>2, <3>3
  <2>5. CASE Leave(w) \/ Drain(w) \/ DrainCheck(w)
    <3>1. CASE Leave(w)
      BY <3>1 DEF Leave, TP!SignalDone
    <3>2. CASE Drain(w)
      BY <1>0, <3>2 DEF Drain, TP!Take
    <3>3. CASE DrainCheck(w)
      BY <3>3 DEF DrainCheck
    <3> QED
      BY <2>5, <3>1, <3>2, <3>3
  <2>6. CASE LogicThrows(w)
    BY <2>6 DEF LogicThrows
  <2> QED
    BY <1>2, <2>1, <2>2, <2>3, <2>4, <2>5, <2>6 DEF Worker
<1>3. CASE StopServer \/ ServerStopped \/ StopContext \/ ContextStopped
  BY <1>3 DEF StopServer, ServerStopped, StopContext, ContextStopped
<1>4. CASE UNCHANGED vars
  BY <1>4 DEF vars
<1> QED
  BY <1>1, <1>2, <1>3, <1>4 DEF Next

-----------------------------------------------------------------------------
(* Homes                                                                   *)

LEMMA InitHome == Init => HomeInv
<1> SUFFICES ASSUME Init PROVE HomeInv
  OBVIOUS
<1> USE DEF Init, NewQueue, Held
<1>1. \A h \in Handlers : h \in alive => h[2] = 1
  OBVIOUS
<1>2. /\ cq.pending = alive /\ cq.ready = {} /\ pool = {} /\ delete_on_next = {}
      /\ \A w \in Workers : hand[w] = {}
  BY DEF TP!PoolInit
<1>3. FreshInv
  BY <1>1, <1>2, HandlerIs DEF FreshInv
<1>4. DisjointInv
  BY <1>2 DEF DisjointInv
<1>5. PhaseInv
  BY <1>2 DEF PhaseInv, Waits
<1>6. HandInv
  BY <1>2 DEF HandInv
<1> QED
  BY <1>3, <1>4, <1>5, <1>6 DEF HomeInv

\* gRPC completes an operation: the handler goes from pending to ready.
LEMMA GrpcHome ==
  ASSUME TypeOK, HomeInv, NEW h \in Handlers, Arrive(h) \/ RequestFails(h) \/ AnswerSent(h)
  PROVE  HomeInv'
<1> USE DEF TypeOK, QueueType
<1>1. /\ h \in cq.pending
      /\ cq'.pending = cq.pending \ {h} /\ cq'.ready = cq.ready \cup {h}
      /\ UNCHANGED <<made, alive, delete_on_next, pool, pc, hand>>
      /\ \A g \in Handlers : g # h => call'[g] = call[g] /\ okay'[g] = okay[g]
  <2> USE DEF Fire, heap, calls, poolVars, workerVars
  <2>1. CASE Arrive(h)
    BY <2>1 DEF Arrive
  <2>2. CASE RequestFails(h)
    BY <2>2 DEF RequestFails
  <2>3. CASE AnswerSent(h)
    BY <2>3 DEF AnswerSent
  <2> QED
    BY <2>1, <2>2, <2>3
<1>2. Returned(h)'
  BY DEF Arrive, RequestFails, AnswerSent, heap, calls, Returned, HomeInv, PhaseInv, Waits
<1>3. h[2] <= made[h[1]]
  BY <1>1, HandlerIs DEF HomeInv, FreshInv
<1>4. FreshInv'
  BY <1>1, <1>3, HandlerIs DEF HomeInv, FreshInv, Held
<1>5. DisjointInv'
  BY <1>1 DEF HomeInv, DisjointInv, Held
<1>6. PhaseInv'
  BY <1>1, <1>2 DEF HomeInv, DisjointInv, PhaseInv, Waits, Returned, Serves, Held
<1>7. HandInv'
  BY <1>1 DEF HomeInv, HandInv
<1> QED
  BY <1>4, <1>5, <1>6, <1>7 DEF HomeInv

\* Places: what a worker has in hand moves with its step; everything below
\* names the place a handler leaves and the one it comes to.
LEMMA TakeEventHome ==
  ASSUME TypeOK, HomeInv, NEW w \in Workers, TakeEvent(w)
  PROVE  HomeInv'
<1> USE DEF TypeOK, QueueType
<1>1. PICK h \in cq.ready :
        /\ cq'.pending = cq.pending /\ cq'.ready = cq.ready \ {h}
        /\ hand' = [hand EXCEPT ![w] = {h}]
  BY DEF TakeEvent, TakeTag
<1>2. /\ pc[w] = "poll" /\ pc' = [pc EXCEPT ![w] = "complete"]
      /\ UNCHANGED <<okay, made, alive, delete_on_next, call, pool>>
  BY DEF TakeEvent, Goto, heap, calls, poolVars
<1>3. hand[w] = {} /\ h \in Handlers /\ ~Held(h) /\ h \notin pool /\ h \notin cq.pending
  BY <1>2 DEF HomeInv, HandInv, DisjointInv
<1>4. hand'[w] = {h} /\ \A v \in Workers : v # w => hand'[v] = hand[v]
  BY <1>1
<1>5. \A g \in Handlers : Held(g)' <=> Held(g) \/ g = h
  BY <1>3, <1>4 DEF Held
<1>6. FreshInv'
  BY <1>1, <1>2, <1>5, HandlerIs DEF HomeInv, FreshInv
<1>7. DisjointInv'
  BY <1>1, <1>2, <1>3, <1>4, <1>5 DEF HomeInv, DisjointInv, Held
<1>8. PhaseInv'
  BY <1>1, <1>2, <1>3, <1>4 DEF HomeInv, PhaseInv, Waits, Returned, Serves
<1>9. HandInv'
  BY <1>2, <1>3, <1>4 DEF HomeInv, HandInv
<1> QED
  BY <1>6, <1>7, <1>8, <1>9 DEF HomeInv

LEMMA DeleteHome ==
  ASSUME TypeOK, HomeInv, NEW w \in Workers, Delete(w)
  PROVE  HomeInv'
<1> USE DEF TypeOK
<1>1. /\ hand' = [hand EXCEPT ![w] = {}] /\ pc' = [pc EXCEPT ![w] = "poll"] /\ alive' \subseteq alive
      /\ UNCHANGED <<cq, okay, made, delete_on_next, call, pool>>
  BY DEF Delete, Goto, calls, poolVars
<1>2. \A v \in Workers : IF v = w THEN hand'[v] = {} /\ pc'[v] = "poll"
                                  ELSE hand'[v] = hand[v] /\ pc'[v] = pc[v]
  BY <1>1
<1>3. \A g : Held(g)' => Held(g)
  BY <1>2 DEF Held
<1>4. FreshInv'
  BY <1>1, <1>3, HandlerIs DEF HomeInv, FreshInv
<1>5. DisjointInv'
  BY <1>1, <1>2, <1>3 DEF HomeInv, DisjointInv
<1>6. PhaseInv'
  BY <1>1, <1>2 DEF HomeInv, PhaseInv, Waits, Returned, Serves
<1>7. HandInv'
  BY <1>2 DEF HomeInv, HandInv
<1> QED
  BY <1>4, <1>5, <1>6, <1>7 DEF HomeInv

\* What Spawn does, with the handler h it is done for and its successor n.
LEMMA SpawnIs ==
  ASSUME TypeOK, HomeInv, NEW w \in Workers, Spawn(w)
  PROVE  \E h, n \in Handlers :
           /\ hand[w] = {h} /\ okay[h] /\ h \notin delete_on_next /\ call[h] = "open"
           /\ pc[w] = "complete" /\ pc' = [pc EXCEPT ![w] = "logic"]
           /\ h[1] \in Methods /\ n[1] = h[1] /\ n[2] = made[h[1]] + 1 /\ n # h
           /\ made' = [made EXCEPT ![h[1]] = @ + 1]
           /\ alive' = alive \cup {n}
           /\ cq'.pending = cq.pending \cup {n} /\ cq'.ready = cq.ready /\ cq'.shutdown = cq.shutdown
           /\ process' = IF cq.shutdown THEN "aborted" ELSE process
           /\ delete_on_next' = delete_on_next \cup {h}
           /\ n \notin cq.pending /\ n \notin cq.ready /\ n \notin pool /\ ~Held(n) /\ n \notin alive
           /\ call[n] = "none" /\ n \notin delete_on_next
           /\ UNCHANGED <<okay, call, finishes, server, context, poolVars, hand, server_first>>
<1>1. PICK h \in hand[w] \ delete_on_next :
        /\ okay[h] /\ made[h[1]] <= MaxCalls[h[1]]
        /\ made' = [made EXCEPT ![h[1]] = @ + 1]
        /\ alive' = alive \cup {<<h[1], made[h[1]] + 1>>}
        /\ StartOn(<<h[1], made[h[1]] + 1>>)
        /\ delete_on_next' = delete_on_next \cup {h}
  BY DEF Spawn
<1>2. h \in Handlers /\ h[1] \in Methods /\ made[h[1]] \in Nat
  BY <1>1, HandlerIs DEF TypeOK
<1>3. PICK n : n = <<h[1], made[h[1]] + 1>>
  OBVIOUS
<1>4. n \in Handlers /\ n[1] = h[1] /\ n[2] = made[h[1]] + 1
  BY <1>1, <1>2, <1>3, Successor
<1>5. /\ n \notin cq.pending /\ n \notin cq.ready /\ n \notin pool /\ ~Held(n) /\ n \notin alive
      /\ call[n] = "none" /\ n \notin delete_on_next
  BY <1>2, <1>4 DEF HomeInv, FreshInv
<1>6. n # h
  BY <1>1, <1>5 DEF Held
<1>7. /\ pc[w] = "complete" /\ pc' = [pc EXCEPT ![w] = "logic"]
      /\ UNCHANGED <<okay, call, finishes, server, context, poolVars, hand, server_first>>
  BY DEF Spawn, Goto, calls
<1>8. hand[w] = {h} /\ call[h] = "open"
  BY <1>1, <1>2, <1>7 DEF HomeInv, HandInv, PhaseInv, Returned
<1>9. /\ cq'.pending = cq.pending \cup {n} /\ cq'.ready = cq.ready /\ cq'.shutdown = cq.shutdown
      /\ process' = IF cq.shutdown THEN "aborted" ELSE process
  BY <1>1, <1>3 DEF StartOn, Start, TypeOK, QueueType
<1> QED
  BY <1>1, <1>2, <1>3, <1>4, <1>5, <1>6, <1>7, <1>8, <1>9

LEMMA SpawnHome ==
  ASSUME TypeOK, HomeInv, NEW w \in Workers, Spawn(w)
  PROVE  HomeInv'
<1> USE DEF TypeOK
<1>1. PICK h, n \in Handlers :
           /\ hand[w] = {h} /\ call[h] = "open"
           /\ pc' = [pc EXCEPT ![w] = "logic"]
           /\ h[1] \in Methods /\ n[1] = h[1] /\ n[2] = made[h[1]] + 1 /\ n # h
           /\ made' = [made EXCEPT ![h[1]] = @ + 1]
           /\ alive' = alive \cup {n}
           /\ cq'.pending = cq.pending \cup {n} /\ cq'.ready = cq.ready
           /\ delete_on_next' = delete_on_next \cup {h}
           /\ n \notin cq.ready /\ n \notin pool /\ ~Held(n)
           /\ call[n] = "none" /\ n \notin delete_on_next
           /\ UNCHANGED <<okay, call, pool, hand>>
  BY SpawnIs, SMTT(30) DEF poolVars
<1>2. Held(h) /\ \A v \in Workers : v # w => h \notin hand[v]
  BY <1>1 DEF Held, HomeInv, DisjointInv
<1>3. h \notin cq.pending /\ h \notin cq.ready /\ h \notin pool
  BY <1>2 DEF HomeInv, DisjointInv
<1>4. \A g \in Handlers : Held(g)' <=> Held(g)
  BY <1>1 DEF Held
<1>5. h[2] <= made[h[1]]
  BY <1>1, <1>2, HandlerIs DEF HomeInv, FreshInv
<1>6. \A g \in Handlers : g[2] > made'[g[1]] => g[2] > made[g[1]] /\ g # h /\ g # n
  BY <1>1, <1>5, HandlerIs
<1>7. FreshInv'
  BY <1>1, <1>4, <1>6 DEF HomeInv, FreshInv
<1>8. DisjointInv'
  BY <1>1, <1>4 DEF HomeInv, DisjointInv
<1>9. PhaseInv'
  BY <1>1, <1>2, <1>3 DEF HomeInv, PhaseInv, Waits, Returned, Serves
<1>10. HandInv'
  BY <1>1 DEF HomeInv, HandInv
<1> QED
  BY <1>7, <1>8, <1>9, <1>10 DEF HomeInv

\* The steps that call Finish: with the handler h, after which pc[w] = to.
LEMMA FinishIs ==
  ASSUME TypeOK, HomeInv, NEW w \in Workers,
         FinishNow(w) \/ RunThunk(w) \/ (DrainRun(w) /\ hand[w] # {})
  PROVE  \E h \in hand[w] : \E to \in {"poll", "drain_run"} :
           /\ FinishCall(h) /\ Serves(h)
           /\ pc[w] # "complete" /\ pc' = [pc EXCEPT ![w] = to]
           /\ hand' = [hand EXCEPT ![w] = @ \ {h}] /\ (to = "poll" => hand[w] = {h})
           /\ UNCHANGED <<okay, heap, server, context, poolVars, server_first>>
<1> USE DEF TypeOK, Goto
<1>1. \A h \in hand[w] : pc[w] # "complete" => h \in Handlers /\ Serves(h)
  BY DEF HomeInv, PhaseInv
<1>2. \A h \in hand[w] : pc[w] \in {"logic", "thunk"} => hand[w] = {h} /\ hand[w] \ {h} = {}
  BY DEF HomeInv, HandInv
<1>3. CASE FinishNow(w)
  <2>1. PICK h \in hand[w] : FinishCall(h)
    BY <1>3 DEF FinishNow
  <2> QED
    BY <1>1, <1>2, <1>3, <2>1 DEF FinishNow
<1>4. CASE RunThunk(w)
  <2>1. PICK h \in hand[w] : FinishCall(h)
    BY <1>4 DEF RunThunk
  <2> QED
    BY <1>1, <1>2, <1>4, <2>1 DEF RunThunk
<1>5. CASE DrainRun(w) /\ hand[w] # {}
  <2>1. PICK h \in hand[w] : FinishCall(h) /\ hand' = [hand EXCEPT ![w] = @ \ {h}]
    BY <1>5 DEF DrainRun
  <2> QED
    BY <1>1, <1>5, <2>1 DEF DrainRun
<1> QED
  BY <1>3, <1>4, <1>5

LEMMA FinishHome ==
  ASSUME TypeOK, HomeInv, NEW w \in Workers,
         FinishNow(w) \/ RunThunk(w) \/ (DrainRun(w) /\ hand[w] # {})
  PROVE  HomeInv'
<1> USE DEF TypeOK, QueueType
<1>1. PICK h \in hand[w], to \in {"poll", "drain_run"} :
           /\ FinishCall(h) /\ Serves(h)
           /\ pc[w] # "complete" /\ pc' = [pc EXCEPT ![w] = to]
           /\ hand' = [hand EXCEPT ![w] = @ \ {h}] /\ (to = "poll" => hand[w] = {h})
           /\ UNCHANGED <<okay, made, alive, delete_on_next, pool>>
  BY FinishIs DEF heap, poolVars
<1>2. /\ h \in Handlers
      /\ cq'.pending = cq.pending \cup {h} /\ cq'.ready = cq.ready
      /\ call' = [call EXCEPT ![h] = "finishing"]
  BY <1>1 DEF FinishCall, StartOn, Start
<1>3. Held(h) /\ \A v \in Workers : v # w => h \notin hand[v]
  BY <1>1, <1>2 DEF Held, HomeInv, DisjointInv
<1>4. h \notin cq.pending /\ h \notin cq.ready /\ h \notin pool
  BY <1>2, <1>3 DEF HomeInv, DisjointInv
<1>5. hand'[w] = hand[w] \ {h} /\ \A v \in Workers : v # w => hand'[v] = hand[v]
  BY <1>1
<1>6. ~Held(h)' /\ \A g \in Handlers : g # h => (Held(g)' <=> Held(g))
  BY <1>3, <1>5 DEF Held
<1>7. FreshInv'
  BY <1>1, <1>2, <1>3, <1>6, HandlerIs DEF HomeInv, FreshInv
<1>8. DisjointInv'
  BY <1>1, <1>2, <1>4, <1>5, <1>6 DEF HomeInv, DisjointInv
<1>9. PhaseInv'
  BY <1>1, <1>2, <1>3, <1>4, <1>5 DEF HomeInv, PhaseInv, Waits, Returned, Serves
<1>10. HandInv'
  BY <1>1, <1>5 DEF HomeInv, HandInv
<1> QED
  BY <1>7, <1>8, <1>9, <1>10 DEF HomeInv

\* The thunk queue: handlers go from a hand to the pool and back.
LEMMA PoolHome ==
  ASSUME TypeOK, HomeInv, NEW w \in Workers,
         Schedule(w) \/ Scheduled(w) \/ TakeThunk(w) \/ Drain(w)
  PROVE  HomeInv'
<1> USE DEF TypeOK, Goto
<1>0. UNCHANGED <<cq, okay, made, alive, delete_on_next, call>>
  BY DEF Schedule, Scheduled, TakeThunk, Drain, heap, calls
<1>1. PICK to : pc' = [pc EXCEPT ![w] = to] /\ pc[w] # "complete" /\ to # "complete"
  BY DEF Schedule, Scheduled, TakeThunk, Drain
<1>2. /\ pool' \cup hand'[w] \subseteq pool \cup hand[w]
      /\ pool' \cap hand'[w] = {}
      /\ \A v \in Workers : v # w => hand'[v] = hand[v]
      /\ hand' \in [Workers -> SUBSET Handlers]
  <2>1. pool \cap hand[w] = {} /\ pool \subseteq Handlers
    BY DEF HomeInv, DisjointInv, Held, TP!PoolTypeOK, Deferred
  <2>2. CASE Schedule(w)
    BY <2>1, <2>2 DEF Schedule, TP!Admit, TP!Refuse
  <2>3. CASE Scheduled(w)
    <3>1. \A h \in hand[w] : hand[w] = {h}
      BY <2>3 DEF Scheduled, HomeInv, HandInv
    <3> QED
      BY <2>1, <2>3, <3>1 DEF Scheduled, TP!Accept
  <2>4. CASE TakeThunk(w)
    BY <2>1, <2>4 DEF TakeThunk, TP!Take
  <2>5. CASE Drain(w)
    BY <2>1, <2>5 DEF Drain, TP!Take, poolVars
  <2> QED
    BY <2>2, <2>3, <2>4, <2>5
<1>3. \A g \in Handlers : Held(g)' \/ g \in pool' => Held(g) \/ g \in pool
  BY <1>2 DEF Held
<1>4. \A g \in Handlers : g \in hand'[w] \/ g \in pool' => \A v \in Workers : v # w => g \notin hand'[v]
  <2>1. \A g \in Handlers : g \in hand[w] \/ g \in pool => \A v \in Workers : v # w => g \notin hand[v]
    BY DEF HomeInv, DisjointInv, Held
  <2> QED
    BY <1>2, <2>1
<1>5. FreshInv'
  BY <1>0, <1>3, HandlerIs DEF HomeInv, FreshInv
<1>6. DisjointInv'
  <2>1. ASSUME NEW g \in Handlers, g \in cq.pending \/ g \in cq.ready
        PROVE  ~Held(g)' /\ g \notin pool'
    BY <1>3, <2>1 DEF HomeInv, DisjointInv
  <2>2. ASSUME NEW g \in Handlers, g \in pool'
        PROVE  ~Held(g)'
    BY <1>2, <1>4, <2>2 DEF Held
  <2>3. ASSUME NEW g \in Handlers, NEW u \in Workers, NEW v \in Workers, g \in hand'[u], g \in hand'[v]
        PROVE  u = v
    BY <1>2, <1>4, <2>3 DEF HomeInv, DisjointInv
  <2> QED
    BY <1>0, <2>1, <2>2, <2>3 DEF HomeInv, DisjointInv
<1>7. PhaseInv'
  <2>1. \A g \in Handlers : g \in pool' \/ g \in hand'[w] => Serves(g)
    BY <1>1, <1>2 DEF HomeInv, PhaseInv
  <2> QED
    BY <1>0, <1>1, <1>2, <2>1 DEF HomeInv, PhaseInv, Waits, Returned, Serves
<1>8. HandInv'
  <2>1. CASE Schedule(w)
    BY <1>0, <2>1 DEF Schedule, HomeInv, HandInv
  <2>2. CASE Scheduled(w)
    BY <1>0, <2>2 DEF Scheduled, HomeInv, HandInv
  <2>3. CASE TakeThunk(w)
    BY <1>0, <2>3 DEF TakeThunk, HomeInv, HandInv, TP!PoolTypeOK, Deferred
  <2>4. CASE Drain(w)
    BY <1>0, <2>4 DEF Drain, HomeInv, HandInv
  <2> QED
    BY <2>1, <2>2, <2>3, <2>4
<1> QED
  BY <1>5, <1>6, <1>7, <1>8 DEF HomeInv

LEMMA QuietHome ==
  ASSUME TypeOK, HomeInv,
         UNCHANGED <<okay, heap, calls, pool, hand>>,
         cq'.pending = cq.pending, cq'.ready = cq.ready,
         \A w \in Workers : /\ pc'[w] = "complete" <=> pc[w] = "complete"
                            /\ pc'[w] \in {"poll", "exited"} => hand[w] = {}
                            /\ pc'[w] \in {"complete", "logic", "push", "thunk"} =>
                                 pc[w] \in {"complete", "logic", "push", "thunk"}
  PROVE  HomeInv'
<1> USE DEF heap, calls
<1>1. FreshInv'
  BY DEF HomeInv, FreshInv, Held
<1>2. DisjointInv'
  BY DEF HomeInv, DisjointInv, Held
<1>3. PhaseInv'
  BY DEF HomeInv, PhaseInv, Waits, Returned, Serves
<1>4. HandInv'
  BY DEF HomeInv, HandInv
<1> QED
  BY <1>1, <1>2, <1>3, <1>4 DEF HomeInv

LEMMA StepHome == TypeOK /\ HomeInv /\ [Next]_vars => HomeInv'
<1> SUFFICES ASSUME TypeOK, HomeInv, [Next]_vars PROVE HomeInv'
  OBVIOUS
<1>1. ASSUME NEW h \in Handlers, Arrive(h) \/ RequestFails(h) \/ AnswerSent(h)
      PROVE  HomeInv'
  BY <1>1, GrpcHome
<1>2. ASSUME NEW w \in Workers, Worker(w)
      PROVE  HomeInv'
  <2>1. CASE Leave(w) \/ DrainCheck(w) \/ (DrainRun(w) /\ hand[w] = {})
    <3>1. /\ UNCHANGED <<okay, heap, calls, pool, hand>>
          /\ cq' = cq
          /\ pc' = [pc EXCEPT ![w] = pc'[w]]
          /\ pc[w] \notin {"complete", "logic", "push", "thunk"}
          /\ pc'[w] \notin {"complete", "logic", "push", "thunk", "poll"}
          /\ pc'[w] = "exited" => hand[w] = {}
      BY <2>1 DEF Leave, DrainCheck, DrainRun, Goto, TypeOK, TP!SignalDone, poolVars
    <3> QED
      BY <3>1, QuietHome DEF TypeOK, HomeInv, HandInv
  <2>2. CASE LogicThrows(w)
    <3>1. UNCHANGED <<okay, heap, calls, pool, hand, cq, pc>>
      BY <2>2 DEF LogicThrows, poolVars, workerVars
    <3> QED
      BY <3>1, QuietHome DEF HomeInv, HandInv
  <2> QED
    BY <1>2, <2>1, <2>2, TakeEventHome, DeleteHome, SpawnHome, FinishHome, PoolHome DEF Worker
<1>3. CASE StopServer \/ ServerStopped \/ StopContext \/ ContextStopped
  <2>1. /\ UNCHANGED <<okay, heap, calls, pool, hand, pc>>
        /\ cq'.pending = cq.pending /\ cq'.ready = cq.ready
    BY <1>3 DEF StopServer, ServerStopped, StopContext, ContextStopped, ShutDown, TypeOK, QueueType,
                poolVars, workerVars
  <2> QED
    BY <2>1, QuietHome DEF HomeInv, HandInv
<1>4. CASE UNCHANGED vars
  BY <1>4, QuietHome DEF vars, poolVars, workerVars, HomeInv, HandInv
<1> QED
  BY <1>1, <1>2, <1>3, <1>4 DEF Next

IInv == TypeOK /\ HomeInv

\* The variables keep their types.
THEOREM TypeCorrect == Spec => []TypeOK
<1>1. Init => TypeOK
  BY InitType
<1>2. TypeOK /\ [Next]_vars => TypeOK'
  BY StepType
<1> QED
  BY <1>1, <1>2, PTL DEF Spec

LEMMA Inductive == Spec => []IInv
<1>1. Init => IInv
  BY InitType, InitHome DEF IInv
<1>2. IInv /\ [Next]_vars => IInv'
  BY StepType, StepHome DEF IInv
<1> QED
  BY <1>1, <1>2, PTL DEF Spec

-----------------------------------------------------------------------------
(* Answers                                                                 *)

LEMMA StepAnswered == IInv /\ AnsweredOnce /\ [Next]_vars => AnsweredOnce'
<1> SUFFICES ASSUME TypeOK, HomeInv, AnsweredOnce, [Next]_vars PROVE AnsweredOnce'
  BY DEF IInv
<1> USE DEF TypeOK, AnsweredOnce, calls
<1>1. ASSUME NEW h \in Handlers, Arrive(h) \/ RequestFails(h) \/ AnswerSent(h)
      PROVE  AnsweredOnce'
  BY <1>1 DEF Arrive, RequestFails, AnswerSent
<1>2. ASSUME NEW w \in Workers, FinishNow(w) \/ RunThunk(w) \/ (DrainRun(w) /\ hand[w] # {})
      PROVE  AnsweredOnce'
  <2>1. PICK h \in hand[w] : FinishCall(h) /\ Serves(h)
    BY <1>2, FinishIs
  <2>2. h \in Handlers /\ call[h] = "open" /\ finishes[h] = 0
    BY <2>1 DEF Serves
  <2> QED
    BY <2>1, <2>2 DEF FinishCall
<1>3. ASSUME NEW w \in Workers, Worker(w), ~(FinishNow(w) \/ RunThunk(w) \/ (DrainRun(w) /\ hand[w] # {}))
      PROVE  UNCHANGED calls
  BY <1>3 DEF Worker, TakeEvent, Delete, Spawn, LogicThrows, Schedule, Scheduled, TakeThunk, Leave, Drain,
              DrainCheck, DrainRun
<1>4. CASE StopServer \/ ServerStopped \/ StopContext \/ ContextStopped \/ UNCHANGED vars
  BY <1>4 DEF StopServer, ServerStopped, StopContext, ContextStopped, vars
<1> QED
  BY <1>1, <1>2, <1>3, <1>4 DEF Next

\* Finish is called once on every call that arrived and never on another,
\* whatever the order in which server and context are stopped.
THEOREM AnswersOnce == Spec => []AnsweredOnce
<1>1. Init => AnsweredOnce
  BY DEF Init, AnsweredOnce
<1> QED
  BY <1>1, Inductive, StepAnswered, PTL DEF Spec

-----------------------------------------------------------------------------
(* Shutdown in main's order                                                *)

Leaving == {"drain", "drain_check", "drain_run", "exited"}

\* The context's queue is shut down after Wait has returned, Wait returns
\* when every call is closed, and from then on no call arrives.
OrderInv ==
  /\ cq.shutdown <=> context # "running"
  /\ server_first /\ context # "running" => server = "stopped"
  /\ server = "stopped" => \A h \in Handlers : call[h] \in {"none", "closed"}
  /\ NothingStartsAfterShutdown

\* Nobody works on a call, and nobody leaves the worker loop before the
\* queue is drained.
QuietInv ==
  server_first =>
    /\ done => cq.shutdown
    /\ \A w \in Workers : pc[w] \in Leaving => IsDrained(cq)
    /\ context = "stopped" => \A w \in Workers : pc[w] = "exited"

\* After Wait no handler is bound and no Finish is called.
LEMMA NoCallAfterWait ==
  ASSUME TypeOK, HomeInv, OrderInv, server_first, cq.shutdown, NEW w \in Workers
  PROVE  /\ ~Spawn(w) /\ ~FinishNow(w) /\ ~RunThunk(w) /\ ~Schedule(w)
         /\ ~(DrainRun(w) /\ hand[w] # {})
<1>1. \A h \in Handlers : call[h] # "open"
  BY DEF OrderInv
<1>2. ~Spawn(w)
  <2> SUFFICES ASSUME Spawn(w) PROVE FALSE
    OBVIOUS
  <2>1. \E h \in Handlers : call[h] = "open"
    BY SpawnIs, ZenonT(30)
  <2> QED
    BY <1>1, <2>1
<1>3. ~FinishNow(w) /\ ~RunThunk(w) /\ ~(DrainRun(w) /\ hand[w] # {})
  <2>1. \A h \in hand[w] : ~Serves(h)
    BY <1>1 DEF Serves, TypeOK
  <2> QED
    BY <2>1, FinishIs
<1>4. ~Schedule(w)
  <2>1. \A h \in hand[w] : pc[w] = "logic" => Serves(h) /\ h \in Handlers
    BY DEF HomeInv, PhaseInv, TypeOK
  <2> QED
    BY <1>1, <2>1 DEF Schedule, Serves, Goto
<1> QED
  BY <1>2, <1>3, <1>4

LEMMA StepOrder == IInv /\ OrderInv /\ [Next]_vars => OrderInv'
<1> SUFFICES ASSUME TypeOK, HomeInv, OrderInv, [Next]_vars PROVE OrderInv'
  BY DEF IInv
<1> USE DEF TypeOK, QueueType, calls, poolVars, workerVars
<1>1. ASSUME NEW h \in Handlers, Arrive(h) \/ RequestFails(h) \/ AnswerSent(h)
      PROVE  OrderInv'
  <2>1. /\ cq'.shutdown = cq.shutdown /\ UNCHANGED <<server, context, process, server_first>>
        /\ server = "stopped" => \A g \in Handlers : call'[g] = call[g] \/ call'[g] = "closed"
    BY <1>1 DEF Arrive, RequestFails, AnswerSent, Fire
  <2> QED
    BY <2>1 DEF OrderInv, NothingStartsAfterShutdown
<1>2. ASSUME NEW w \in Workers, Worker(w)
      PROVE  OrderInv'
  <2>1. UNCHANGED <<server, context, server_first>> /\ cq'.shutdown = cq.shutdown
    BY <1>2 DEF Worker, TakeEvent, Delete, Spawn, FinishNow, LogicThrows, Schedule, Scheduled, TakeThunk, RunThunk,
                Leave, Drain, DrainCheck, DrainRun, TakeTag, StartOn, FinishCall, Start
  <2>2. server = "stopped" => \A h \in Handlers : call'[h] = call[h]
    <3>1. CASE FinishNow(w) \/ RunThunk(w) \/ (DrainRun(w) /\ hand[w] # {})
      BY <3>1, FinishIs DEF OrderInv, Serves
    <3>2. CASE ~(FinishNow(w) \/ RunThunk(w) \/ (DrainRun(w) /\ hand[w] # {}))
      BY <1>2, <3>2 DEF Worker, TakeEvent, Delete, Spawn, LogicThrows, Schedule, Scheduled, TakeThunk, Leave, Drain,
                        DrainCheck, DrainRun
    <3> QED
      BY <3>1, <3>2
  <2>3. server_first => process' # "aborted"
    <3>1. CASE Spawn(w) \/ FinishNow(w) \/ RunThunk(w) \/ (DrainRun(w) /\ hand[w] # {})
      <4>1. process' = IF cq.shutdown THEN "aborted" ELSE process
        BY <3>1, SpawnIs, FinishIs DEF FinishCall, StartOn
      <4> QED
        BY <3>1, <4>1, NoCallAfterWait DEF OrderInv, NothingStartsAfterShutdown
    <3>2. CASE ~(Spawn(w) \/ FinishNow(w) \/ RunThunk(w) \/ (DrainRun(w) /\ hand[w] # {}) \/ LogicThrows(w))
      <4>1. UNCHANGED process
        BY <1>2, <3>2 DEF Worker, TakeEvent, Delete, Schedule, Scheduled, TakeThunk, Leave, Drain,
                          DrainCheck, DrainRun
      <4> QED
        BY <4>1 DEF OrderInv, NothingStartsAfterShutdown
    <3>3. CASE LogicThrows(w)
      BY <3>3 DEF LogicThrows
    <3> QED
      BY <3>1, <3>2, <3>3
  <2> QED
    BY <2>1, <2>2, <2>3 DEF OrderInv, NothingStartsAfterShutdown
<1>3. CASE StopServer \/ ServerStopped \/ StopContext \/ ContextStopped
  BY <1>3 DEF StopServer, ServerStopped, StopContext, ContextStopped, MayStopContext, ShutDown,
              OrderInv, NothingStartsAfterShutdown
<1>4. CASE UNCHANGED vars
  BY <1>4 DEF vars, OrderInv, NothingStartsAfterShutdown
<1> QED
  BY <1>1, <1>2, <1>3, <1>4 DEF Next

LEMMA InitOrder == Init => OrderInv /\ QuietInv
BY DEF Init, OrderInv, QuietInv, NewQueue, NothingStartsAfterShutdown, TP!PoolInit, Leaving

\* When the server is stopped before the context, no operation is started on
\* a queue that is shut down.
THEOREM NothingStarts == Spec => []NothingStartsAfterShutdown
<1>1. OrderInv => NothingStartsAfterShutdown
  BY DEF OrderInv
<1> QED
  BY <1>1, InitOrder, Inductive, StepOrder, PTL DEF Spec

LEMMA StepQuiet == IInv /\ OrderInv /\ QuietInv /\ [Next]_vars => QuietInv'
<1> SUFFICES ASSUME TypeOK, HomeInv, OrderInv, QuietInv, [Next]_vars, server_first PROVE QuietInv'
  <2>1. server_first' = server_first \/ ~[Next]_vars
    BY DEF Next, Arrive, RequestFails, AnswerSent, Worker, TakeEvent, Delete, Spawn, FinishNow, LogicThrows, Schedule,
           Scheduled, TakeThunk, RunThunk, Leave, Drain, DrainCheck, DrainRun, StopServer, ServerStopped,
           StopContext, ContextStopped, vars
  <2> QED
    BY <2>1 DEF IInv, QuietInv
<1> USE DEF TypeOK, QueueType, poolVars, workerVars, Goto, IsDrained, Leaving
<1>1. ASSUME NEW h \in Handlers, Arrive(h) \/ RequestFails(h) \/ AnswerSent(h)
      PROVE  QuietInv'
  BY <1>1 DEF Arrive, RequestFails, AnswerSent, Fire, QuietInv
<1>2. ASSUME NEW w \in Workers, Worker(w)
      PROVE  QuietInv'
  <2>1. CASE TakeEvent(w) \/ Delete(w)
    BY <2>1 DEF TakeEvent, Delete, TakeTag, QuietInv
  <2>2. CASE Scheduled(w) \/ TakeThunk(w)
    BY <2>2 DEF Scheduled, TakeThunk, TP!Accept, TP!Take, QuietInv
  <2>3. CASE Leave(w)
    BY <2>3 DEF Leave, TP!SignalDone, QuietInv
  <2>4. CASE Drain(w) \/ DrainCheck(w) \/ (DrainRun(w) /\ hand[w] = {})
    BY <2>4 DEF Drain, DrainCheck, DrainRun, TP!Take, QuietInv
  <2>5. CASE Spawn(w) \/ FinishNow(w) \/ RunThunk(w) \/ Schedule(w) \/ (DrainRun(w) /\ hand[w] # {})
    <3>1. ~cq.shutdown
      BY <2>5, NoCallAfterWait
    <3>2. /\ \A v \in Workers : pc[v] \notin Leaving
          /\ context = "running" /\ ~done
      BY <3>1 DEF QuietInv, OrderInv
    <3>3. /\ \A v \in Workers : pc'[v] \notin Leaving
          /\ context' = "running" /\ ~done'
      <4>1. /\ pc[w] \notin Leaving
            /\ pc' = [pc EXCEPT ![w] = pc'[w]] /\ pc'[w] \notin Leaving
        BY <2>5, <3>2 DEF Spawn, FinishNow, RunThunk, Schedule, DrainRun
      <4>2. context' = context /\ done' = done
        BY <2>5 DEF Spawn, FinishNow, RunThunk, Schedule, DrainRun, TP!Admit, TP!Refuse
      <4> QED
        BY <3>2, <4>1, <4>2
    <3> QED
      BY <3>3 DEF QuietInv
  <2>6. CASE LogicThrows(w)
    BY <2>6 DEF LogicThrows, QuietInv, poolVars, workerVars
  <2> QED
    BY <1>2, <2>1, <2>2, <2>3, <2>4, <2>5, <2>6 DEF Worker
<1>3. CASE StopServer \/ ServerStopped \/ StopContext \/ ContextStopped
  BY <1>3 DEF StopServer, ServerStopped, StopContext, ContextStopped, ShutDown, QuietInv
<1>4. CASE UNCHANGED vars
  BY <1>4 DEF vars, QuietInv
<1> QED
  BY <1>1, <1>2, <1>3, <1>4 DEF Next

-----------------------------------------------------------------------------
(* Handlers are deleted once                                               *)

Homed(h) == h \in cq.pending \/ h \in cq.ready \/ h \in pool \/ Held(h)

\* In main's order no handler is forgotten: that could only happen where the
\* context refuses its thunk.
AliveInv == server_first => \A h \in Handlers : h \in alive <=> Homed(h)

LEMMA InitAlive == Init => AliveInv
BY DEF Init, AliveInv, Homed, Held, NewQueue, TP!PoolInit

LEMMA StepAlive == IInv /\ OrderInv /\ QuietInv /\ AliveInv /\ [Next]_vars => AliveInv'
<1> SUFFICES ASSUME TypeOK, HomeInv, OrderInv, QuietInv, AliveInv, [Next]_vars, server_first
             PROVE  AliveInv'
  <2>1. server_first' = server_first \/ ~[Next]_vars
    BY DEF Next, Arrive, RequestFails, AnswerSent, Worker, TakeEvent, Delete, Spawn, FinishNow, LogicThrows, Schedule,
           Scheduled, TakeThunk, RunThunk, Leave, Drain, DrainCheck, DrainRun, StopServer, ServerStopped,
           StopContext, ContextStopped, vars
  <2> QED
    BY <2>1 DEF IInv, AliveInv
<1> USE DEF TypeOK, QueueType
<1>0. \A h \in Handlers : h \in alive <=> Homed(h)
  BY DEF AliveInv
<1>1. ASSUME NEW h \in Handlers, Arrive(h) \/ RequestFails(h) \/ AnswerSent(h)
      PROVE  AliveInv'
  <2>1. /\ h \in cq.pending /\ UNCHANGED <<alive, pool, hand>>
        /\ cq'.pending = cq.pending \ {h} /\ cq'.ready = cq.ready \cup {h}
    BY <1>1 DEF Arrive, RequestFails, AnswerSent, Fire, heap, poolVars, workerVars
  <2> QED
    BY <1>0, <2>1 DEF AliveInv, Homed, Held
<1>2. ASSUME NEW w \in Workers, Worker(w)
      PROVE  AliveInv'
  <2>1. CASE TakeEvent(w)
    <3>1. PICK h \in cq.ready : /\ cq'.pending = cq.pending /\ cq'.ready = cq.ready \ {h}
                                /\ hand' = [hand EXCEPT ![w] = {h}]
      BY <2>1 DEF TakeEvent, TakeTag
    <3>2. hand[w] = {} /\ UNCHANGED <<alive, pool>>
      BY <2>1 DEF TakeEvent, heap, poolVars, Goto, HomeInv, HandInv
    <3>3. \A g \in Handlers : Held(g)' <=> Held(g) \/ g = h
      BY <3>1, <3>2 DEF Held
    <3> QED
      BY <1>0, <3>1, <3>2, <3>3 DEF AliveInv, Homed
  <2>2. CASE Delete(w)
    <3>1. PICK h : hand[w] = {h} /\ h \in Handlers /\ alive' = alive \ {h}
      BY <2>2 DEF Delete, Goto, HomeInv, HandInv
    <3>2. hand' = [hand EXCEPT ![w] = {}] /\ UNCHANGED <<cq, pool>>
      BY <2>2 DEF Delete, poolVars
    <3>3. ~Held(h)' /\ \A g \in Handlers : g # h => (Held(g)' <=> Held(g))
      BY <3>1, <3>2 DEF Held, HomeInv, DisjointInv
    <3>4. h \notin cq.pending /\ h \notin cq.ready /\ h \notin pool
      BY <3>1 DEF Held, HomeInv, DisjointInv
    <3> QED
      BY <1>0, <3>1, <3>2, <3>3, <3>4 DEF AliveInv, Homed
  <2>3. CASE Spawn(w)
    <3>1. PICK n \in Handlers : /\ alive' = alive \cup {n}
                                /\ cq'.pending = cq.pending \cup {n} /\ cq'.ready = cq.ready
                                /\ UNCHANGED <<pool, hand>>
      <4> HIDE DEF TypeOK, QueueType
      <4> QED
        BY <2>3, SpawnIs, ZenonT(30) DEF poolVars
    <3> QED
      <4>1. n \in cq'.pending /\ \A g \in Handlers : Held(g)' <=> Held(g)
        BY <3>1 DEF Held
      <4> QED
        BY <1>0, <3>1, <4>1 DEF AliveInv, Homed
  <2>4. CASE FinishNow(w) \/ RunThunk(w) \/ (DrainRun(w) /\ hand[w] # {})
    <3>1. PICK h \in hand[w] : /\ FinishCall(h) /\ hand' = [hand EXCEPT ![w] = @ \ {h}]
                               /\ UNCHANGED <<alive, pool>>
      BY <2>4, FinishIs DEF heap, poolVars
    <3>2. h \in Handlers /\ cq'.pending = cq.pending \cup {h} /\ cq'.ready = cq.ready
      BY <3>1 DEF FinishCall, StartOn, Start
    <3>3. \A g \in Handlers : g # h => (Held(g)' <=> Held(g))
      BY <3>1 DEF Held
    <3>4. Held(h)
      BY <3>1 DEF Held
    <3> QED
      BY <1>0, <3>1, <3>2, <3>3, <3>4 DEF AliveInv, Homed
  <2>5. CASE Schedule(w) \/ Scheduled(w) \/ TakeThunk(w) \/ Drain(w)
    <3>1. UNCHANGED <<cq, alive>> /\ \A v \in Workers : v # w => hand'[v] = hand[v]
      BY <2>5 DEF Schedule, Scheduled, TakeThunk, Drain, heap
    <3>2. pool \cup hand[w] = pool' \cup hand'[w]
      <4>1. CASE Schedule(w)
        <5>1. ~done
          BY <4>1, NoCallAfterWait DEF QuietInv
        <5> QED
          BY <4>1, <5>1 DEF Schedule, TP!Admit, TP!Refuse
      <4>2. CASE Scheduled(w)
        <5>1. \A h \in hand[w] : hand[w] = {h}
          BY <4>2 DEF Scheduled, Goto, HomeInv, HandInv
        <5> QED
          BY <4>2, <5>1 DEF Scheduled, TP!Accept
      <4>3. CASE TakeThunk(w)
        BY <4>3 DEF TakeThunk, Goto, TP!Take, HomeInv, HandInv
      <4>4. CASE Drain(w)
        BY <4>4 DEF Drain, TP!Take, poolVars
      <4> QED
        BY <2>5, <4>1, <4>2, <4>3, <4>4
    <3>3. \A g \in Handlers : Held(g)' \/ g \in pool' <=> Held(g) \/ g \in pool
      BY <3>1, <3>2 DEF Held
    <3> QED
      BY <1>0, <3>1, <3>3 DEF AliveInv, Homed
  <2>6. CASE LogicThrows(w) \/ Leave(w) \/ DrainCheck(w) \/ (DrainRun(w) /\ hand[w] = {})
    <3>1. UNCHANGED <<cq, alive, pool, hand>>
      BY <2>6 DEF LogicThrows, workerVars, Leave, DrainCheck, DrainRun, heap, poolVars, TP!SignalDone
    <3> QED
      BY <1>0, <3>1 DEF AliveInv, Homed, Held
  <2> QED
    BY <1>2, <2>1, <2>2, <2>3, <2>4, <2>5, <2>6 DEF Worker
<1>3. CASE StopServer \/ ServerStopped \/ StopContext \/ ContextStopped \/ UNCHANGED vars
  <2>1. UNCHANGED <<alive, pool, hand>> /\ cq'.pending = cq.pending /\ cq'.ready = cq.ready
    BY <1>3 DEF StopServer, ServerStopped, StopContext, ContextStopped, ShutDown, vars, heap, poolVars,
                workerVars
  <2> QED
    BY <1>0, <2>1 DEF AliveInv, Homed, Held
<1> QED
  BY <1>1, <1>2, <1>3 DEF Next

\* AliveInv, which relates a handler to its places, counts them.
LEMMA OneHome == IInv /\ AliveInv => HandlerHasOneHome
<1> SUFFICES ASSUME TypeOK, HomeInv, AliveInv, server_first, NEW h \in Handlers
             PROVE  In(h, cq.pending) + In(h, cq.ready) + In(h, pool) + Cardinality(Holders(h)) = In(h, alive)
  BY DEF IInv, HandlerHasOneHome
<1>1. CASE Held(h)
  <2>1. PICK w \in Workers : h \in hand[w]
    BY <1>1 DEF Held
  <2>2. Holders(h) = {w}
    BY <2>1 DEF Holders, HomeInv, DisjointInv
  <2>3. Cardinality(Holders(h)) = 1
    BY <2>2, FS_Singleton
  <2>4. h \notin cq.pending /\ h \notin cq.ready /\ h \notin pool /\ h \in alive
    BY <1>1 DEF HomeInv, DisjointInv, AliveInv, Homed
  <2> QED
    BY <2>3, <2>4 DEF In
<1>2. CASE ~Held(h)
  <2>1. Holders(h) = {}
    BY <1>2 DEF Holders, Held
  <2>2. Cardinality(Holders(h)) = 0
    BY <2>1, FS_EmptySet
  <2>3. /\ h \in cq.pending => h \notin cq.ready /\ h \notin pool
        /\ h \in cq.ready => h \notin pool
        /\ h \in alive <=> h \in cq.pending \/ h \in cq.ready \/ h \in pool
    BY <1>2 DEF HomeInv, DisjointInv, AliveInv, Homed
  <2> QED
    BY <2>2, <2>3 DEF In
<1> QED
  BY <1>1, <1>2

\* In main's order a handler is referred to from one place as long as it is
\* allocated, and from none after that.
THEOREM HandlersHaveOneHome == Spec => []HandlerHasOneHome
<1>1. Init => OrderInv /\ QuietInv /\ AliveInv
  BY InitOrder, InitAlive
<1> QED
  BY <1>1, Inductive, StepOrder, StepQuiet, StepAlive, OneHome, PTL DEF Spec

\* In main's order no handler is left when the context has stopped.
THEOREM HandlersAreFreed == Spec => []StoppedFreesHandlers
<1>1. IInv /\ OrderInv /\ QuietInv /\ AliveInv => StoppedFreesHandlers
  <2> SUFFICES ASSUME TypeOK, HomeInv, OrderInv, QuietInv, AliveInv, server_first, context = "stopped"
               PROVE  alive = {}
    BY DEF IInv, StoppedFreesHandlers
  <2>1. PICK w \in Workers : pc[w] = "exited"
    BY WorkersAssumption DEF QuietInv
  <2>2. cq.pending = {} /\ cq.ready = {}
    BY <2>1 DEF QuietInv, Leaving, IsDrained
  <2>3. \A v \in Workers : hand[v] = {}
    BY DEF QuietInv, HomeInv, HandInv
  <2>4. \A h \in Handlers : h \notin pool
    BY DEF OrderInv, HomeInv, PhaseInv, Serves
  <2>5. \A h \in Handlers : ~Homed(h)
    BY <2>2, <2>3, <2>4 DEF Homed, Held
  <2> QED
    BY <2>5 DEF AliveInv, TypeOK
<1>2. Init => OrderInv /\ QuietInv /\ AliveInv
  BY InitOrder, InitAlive
<1> QED
  BY <1>1, <1>2, Inductive, StepOrder, StepQuiet, StepAlive, PTL DEF Spec

-----------------------------------------------------------------------------
(* A method is always listened to                                          *)

\* The handler is bound for the next call, or that call has just come.
Listens(h) ==
  \/ call[h] = "none" /\ h \in cq.pending
  \/ call[h] = "open" /\ h \notin delete_on_next
       /\ (h \in cq.ready \/ \E w \in Workers : h \in hand[w] /\ pc[w] = "complete")
Past(h) == call[h] # "none" /\ h \in delete_on_next

ListenInv ==
  server = "serving" =>
    \A h \in Handlers : /\ h[2] = made[h[1]] => Listens(h)
                        /\ h[2] < made[h[1]] => Past(h)

LEMMA InitListen == Init => ListenInv
<1> SUFFICES ASSUME Init PROVE ListenInv
  OBVIOUS
<1>1. ASSUME NEW h \in Handlers
      PROVE  ~(h[2] < made[h[1]]) /\ (h[2] = made[h[1]] => h \in cq.pending /\ call[h] = "none")
  BY HandlerIs DEF Init, NewQueue
<1> QED
  BY <1>1 DEF ListenInv, Listens

\* A step that is not about the handler h leaves it listening or past.
LEMMA StillListens ==
  ASSUME NEW h \in Handlers,
         call'[h] = call[h], h \in delete_on_next' <=> h \in delete_on_next,
         h \in cq.pending => h \in cq'.pending, h \in cq.ready => h \in cq'.ready,
         \A w \in Workers : h \in hand[w] /\ pc[w] = "complete" =>
                              h \in hand'[w] /\ pc'[w] = "complete"
  PROVE  (Listens(h) => Listens(h)') /\ (Past(h) => Past(h)')
BY DEF Listens, Past

LEMMA StepListen == IInv /\ ListenInv /\ [Next]_vars => ListenInv'
<1> SUFFICES ASSUME TypeOK, HomeInv, ListenInv, [Next]_vars, server' = "serving" PROVE ListenInv'
  BY DEF IInv, ListenInv
<1> USE DEF TypeOK, QueueType
<1>0. /\ server = "serving"
      /\ \A h \in Handlers : /\ h[2] = made[h[1]] => Listens(h)
                             /\ h[2] < made[h[1]] => Past(h)
  <2>1. server = "serving"
    BY DEF Next, Arrive, RequestFails, AnswerSent, Worker, TakeEvent, Delete, Spawn, FinishNow, LogicThrows, Schedule,
           Scheduled, TakeThunk, RunThunk, Leave, Drain, DrainCheck, DrainRun, StopServer, ServerStopped,
           StopContext, ContextStopped, vars
  <2> QED
    BY <2>1 DEF ListenInv
<1>1. ASSUME NEW h \in Handlers, Arrive(h) \/ RequestFails(h) \/ AnswerSent(h)
      PROVE  ListenInv'
  <2>1. /\ h \in cq.pending /\ UNCHANGED <<made, delete_on_next, hand, pc>>
        /\ cq'.pending = cq.pending \ {h} /\ cq'.ready = cq.ready \cup {h}
        /\ \A g \in Handlers : g # h => call'[g] = call[g]
        /\ call'[h] \in {"open", "closed"} /\ (call'[h] = "closed" => h \in delete_on_next)
    <3>1. Waits(h)
      BY <1>1 DEF Arrive, RequestFails, AnswerSent, HomeInv, PhaseInv
    <3>2. CASE Arrive(h)
      BY <3>2 DEF Arrive, Fire, heap, workerVars
    <3>3. CASE AnswerSent(h)
      BY <3>1, <3>3 DEF AnswerSent, Fire, heap, workerVars, Waits
    <3> QED
      BY <1>0, <1>1, <3>2, <3>3 DEF RequestFails
  <2>2. h[2] = made[h[1]] => Listens(h)'
    BY <1>0, <2>1 DEF Listens, HomeInv, PhaseInv, Waits
  <2>3. h[2] < made[h[1]] => Past(h)'
    BY <1>0, <2>1 DEF Past
  <2>4. ASSUME NEW g \in Handlers, g # h
        PROVE  (Listens(g) => Listens(g)') /\ (Past(g) => Past(g)')
    BY <2>1, <2>4, StillListens
  <2> QED
    BY <1>0, <2>1, <2>2, <2>3, <2>4 DEF ListenInv
<1>2. ASSUME NEW w \in Workers, Worker(w)
      PROVE  ListenInv'
  <2>1. CASE TakeEvent(w)
    <3>1. PICK h \in cq.ready : cq'.ready = cq.ready \ {h} /\ hand' = [hand EXCEPT ![w] = {h}]
      BY <2>1 DEF TakeEvent, TakeTag
    <3>2. /\ pc[w] = "poll" /\ pc' = [pc EXCEPT ![w] = "complete"]
          /\ UNCHANGED <<made, delete_on_next, call>> /\ cq'.pending = cq.pending
      BY <2>1 DEF TakeEvent, TakeTag, Goto, heap, calls
    <3>3. \A g \in Handlers : (Listens(g) => Listens(g)') /\ (Past(g) => Past(g)')
      BY <3>1, <3>2 DEF Listens, Past
    <3> QED
      BY <1>0, <3>2, <3>3 DEF ListenInv
  <2>2. CASE Delete(w)
    <3>1. PICK h : /\ hand[w] = {h} /\ h \in Handlers /\ (h \in delete_on_next \/ ~okay[h])
                   /\ pc[w] = "complete"
      BY <2>2 DEF Delete, Goto, HomeInv, HandInv
    <3>2. /\ hand' = [hand EXCEPT ![w] = {}] /\ pc' = [pc EXCEPT ![w] = "poll"]
          /\ UNCHANGED <<made, delete_on_next, call, cq>>
      BY <2>2 DEF Delete, Goto, heap, calls
    <3>3. ~Listens(h)
      BY <3>1 DEF HomeInv, PhaseInv, DisjointInv, Held, Returned, Listens
    <3>4. \A g \in Handlers : (Listens(g) => Listens(g)') /\ (Past(g) => Past(g)')
      BY <3>1, <3>2, <3>3 DEF Listens, Past
    <3> QED
      BY <1>0, <3>2, <3>4 DEF ListenInv
  <2>3. CASE Spawn(w)
    <3>1. PICK h, n \in Handlers :
           /\ hand[w] = {h} /\ call[h] = "open" /\ pc[w] = "complete" /\ pc' = [pc EXCEPT ![w] = "logic"]
           /\ h[1] \in Methods /\ n[1] = h[1] /\ n[2] = made[h[1]] + 1 /\ n # h
           /\ made' = [made EXCEPT ![h[1]] = @ + 1]
           /\ cq'.pending = cq.pending \cup {n} /\ cq'.ready = cq.ready
           /\ h \notin delete_on_next /\ delete_on_next' = delete_on_next \cup {h}
           /\ call[n] = "none" /\ n \notin delete_on_next
           /\ UNCHANGED <<call, hand>>
      <4> HIDE DEF TypeOK, QueueType
      <4> QED
        BY <2>3, SpawnIs, SMTT(30)
    <3>2. Listens(n)' /\ Past(h)'
      BY <3>1 DEF Listens, Past
    <3>3. \A v \in Workers : v # w => h \notin hand[v]
      BY <3>1 DEF HomeInv, DisjointInv
    <3>4. ASSUME NEW g \in Handlers, g # h, g # n
          PROVE  (Listens(g) => Listens(g)') /\ (Past(g) => Past(g)')
      BY <3>1, <3>4, StillListens
    <3>5. ~(h[2] < made[h[1]]) /\ h[2] <= made[h[1]]
      BY <1>0, <3>1, HandlerIs DEF Past, HomeInv, FreshInv, Held
    <3>6. h[2] = made[h[1]]
      <4>1. made[h[1]] \in Nat /\ h[2] \in Nat
        BY <3>1, HandlerIs
      <4> HIDE DEF TypeOK, QueueType
      <4> QED
        BY <3>5, <4>1
    <3>7. ASSUME NEW g \in Handlers
          PROVE  /\ g[2] = made'[g[1]] => Listens(g)'
                 /\ g[2] < made'[g[1]] => Past(g)'
      <4>1. CASE g[1] # h[1]
        BY <1>0, <3>1, <3>4, <4>1, HandlerIs
      <4>2. CASE g[1] = h[1]
        <5>1. made'[g[1]] = made[h[1]] + 1 /\ made[h[1]] \in Nat /\ g[2] \in Nat
          BY <3>1, <4>2, HandlerIs
        <5>2. (g[2] = h[2] => g = h) /\ (g[2] = n[2] => g = n)
          <6>1. g = <<g[1], g[2]>> /\ h = <<h[1], h[2]>> /\ n = <<n[1], n[2]>>
            BY HandlerIs
          <6>2. g[1] = h[1] /\ n[1] = h[1]
            BY <3>1, <4>2
          <6> HIDE DEF TypeOK, QueueType
          <6> QED
            BY ONLY <6>1, <6>2
        <5>3. g = h => g[2] < made'[g[1]] /\ g[2] # made'[g[1]]
          BY <3>6, <5>1
        <5>4. g = n => g[2] = made'[g[1]] /\ ~(g[2] < made'[g[1]])
          BY <3>1, <5>1
        <5>5. CASE g # h /\ g # n
          <6>1. g[2] # made'[g[1]] /\ (g[2] < made'[g[1]] => g[2] < made[g[1]])
            BY <3>1, <3>6, <4>2, <5>1, <5>2, <5>5
          <6> QED
            BY <1>0, <3>4, <5>5, <6>1
        <5> QED
          BY <3>2, <5>3, <5>4, <5>5
      <4> QED
        BY <4>1, <4>2
    <3> QED
      BY <3>7 DEF ListenInv
  <2>4. CASE FinishNow(w) \/ RunThunk(w) \/ (DrainRun(w) /\ hand[w] # {})
    <3>1. PICK h \in hand[w] :
            /\ FinishCall(h) /\ Serves(h) /\ pc[w] # "complete"
            /\ UNCHANGED <<made, delete_on_next>>
            /\ \A v \in Workers : v # w => hand'[v] = hand[v] /\ pc'[v] = pc[v]
      <4> HIDE DEF QueueType
      <4>1. PICK h \in hand[w], to \in {"poll", "drain_run"} :
            /\ FinishCall(h) /\ Serves(h)
            /\ pc[w] # "complete" /\ pc' = [pc EXCEPT ![w] = to]
            /\ hand' = [hand EXCEPT ![w] = @ \ {h}]
            /\ UNCHANGED heap
        BY <2>4, FinishIs
      <4> QED
        BY <4>1 DEF heap
    <3>2. /\ h \in Handlers /\ call' = [call EXCEPT ![h] = "finishing"]
          /\ cq'.pending = cq.pending \cup {h} /\ cq'.ready = cq.ready
      BY <3>1 DEF FinishCall, StartOn, Start
    <3>3. ~Listens(h) /\ Past(h)'
      BY <3>1, <3>2 DEF Serves, Listens, Past
    <3>4. ASSUME NEW g \in Handlers, g # h
          PROVE  (Listens(g) => Listens(g)') /\ (Past(g) => Past(g)')
      BY <3>1, <3>2, <3>4, StillListens
    <3> QED
      BY <1>0, <3>1, <3>3, <3>4 DEF ListenInv
  <2>5. CASE \/ LogicThrows(w) \/ Schedule(w) \/ Scheduled(w) \/ TakeThunk(w) \/ Leave(w)
             \/ Drain(w) \/ DrainCheck(w) \/ (DrainRun(w) /\ hand[w] = {})
    <3>1. /\ UNCHANGED <<made, delete_on_next, call, cq>> /\ pc[w] # "complete"
          /\ \A v \in Workers : v # w => hand'[v] = hand[v] /\ pc'[v] = pc[v]
      BY <2>5 DEF LogicThrows, Schedule, Scheduled, TakeThunk, Leave, Drain, DrainCheck, DrainRun, Goto,
                  heap, calls, workerVars
    <3>2. \A g \in Handlers : (Listens(g) => Listens(g)') /\ (Past(g) => Past(g)')
      BY <3>1, StillListens
    <3> QED
      BY <1>0, <3>1, <3>2 DEF ListenInv
  <2> QED
    BY <1>2, <2>1, <2>2, <2>3, <2>4, <2>5 DEF Worker
<1>3. CASE StopServer \/ ServerStopped \/ StopContext \/ ContextStopped \/ UNCHANGED vars
  <2>1. /\ UNCHANGED <<made, delete_on_next, call, hand, pc>>
        /\ cq'.pending = cq.pending /\ cq'.ready = cq.ready
    BY <1>3 DEF StopServer, ServerStopped, StopContext, ContextStopped, ShutDown, vars, heap, calls,
                workerVars
  <2>2. \A g \in Handlers : (Listens(g) => Listens(g)') /\ (Past(g) => Past(g)')
    BY <2>1, StillListens
  <2> QED
    BY <1>0, <2>1, <2>2 DEF ListenInv
<1> QED
  BY <1>1, <1>2, <1>3 DEF Next

\* While the server serves, exactly the newest handler of each method is bound
\* for its next call, or about to make its successor; in any order of shutdown.
THEOREM OneListens == Spec => []OneHandlerListens
<1>1. IInv /\ ListenInv => OneHandlerListens
  <2> SUFFICES ASSUME TypeOK, ListenInv, server = "serving", NEW m \in Methods
               PROVE  LET last == <<m, made[m]>> IN
        /\ \/ call[last] = "none" /\ last \in cq.pending
           \/ call[last] = "open" /\ last \notin delete_on_next
                /\ (last \in cq.ready \/ \E w \in Holders(last) : pc[w] = "complete")
        /\ \A k \in 1 .. made[m]-1 : call[<<m, k>>] # "none" /\ <<m, k>> \in delete_on_next
    BY DEF IInv, OneHandlerListens
  <2>1. made[m] \in 1 .. MaxCalls[m] + 1 /\ MaxCalls[m] \in Nat
    BY MaxCallsAssumption DEF TypeOK
  <2>2. ASSUME NEW k \in 1 .. made[m]
        PROVE  <<m, k>> \in Handlers
    BY <2>1, HandlerIs
  <2>3. Listens(<<m, made[m]>>)
    BY <2>1, <2>2 DEF ListenInv
  <2>4. ASSUME NEW k \in 1 .. made[m] - 1
        PROVE  Past(<<m, k>>)
    BY <2>1, <2>2 DEF ListenInv
  <2> QED
    BY <2>3, <2>4 DEF Listens, Past, Holders
<1> QED
  BY <1>1, InitListen, Inductive, StepListen, PTL DEF Spec

-----------------------------------------------------------------------------
(* No call is dropped                                                      *)

\* In main's order an open call is with somebody who will answer it: its
\* event is ready, its thunk is queued, or a worker has its handler in hand;
\* and no worker has left its loop.  A call that is being answered waits for
\* its Finish on the queue.
CallsAreCarried ==
  server_first =>
    \A h \in Handlers :
      /\ call[h] = "open" =>
           /\ h \in cq.ready \/ h \in pool \/ Held(h)
           /\ \A w \in Workers : pc[w] \notin Leaving
      /\ call[h] = "finishing" => h \in cq.pending

\* The handler of a call that is not closed has not deleted itself.
CarryInv ==
  server_first => \A h \in Handlers : call[h] \in {"open", "finishing"} => h \in alive

LEMMA InitCarry == Init => CarryInv
BY DEF Init, CarryInv

LEMMA StepCarry == IInv /\ AliveInv /\ CarryInv /\ [Next]_vars => CarryInv'
<1> SUFFICES ASSUME TypeOK, HomeInv, AliveInv, CarryInv, [Next]_vars, server_first
             PROVE  CarryInv'
  <2>1. server_first' = server_first \/ ~[Next]_vars
    BY DEF Next, Arrive, RequestFails, AnswerSent, Worker, TakeEvent, Delete, Spawn, FinishNow, LogicThrows, Schedule,
           Scheduled, TakeThunk, RunThunk, Leave, Drain, DrainCheck, DrainRun, StopServer, ServerStopped,
           StopContext, ContextStopped, vars
  <2> QED
    BY <2>1 DEF IInv, CarryInv
<1>0. /\ \A h \in Handlers : call[h] \in {"open", "finishing"} => h \in alive
      /\ \A h \in Handlers : h \in alive <=> Homed(h)
      /\ call \in [Handlers -> {"none", "open", "finishing", "closed"}]
  BY DEF AliveInv, CarryInv, TypeOK
<1>1. ASSUME NEW h \in Handlers, Arrive(h) \/ RequestFails(h) \/ AnswerSent(h)
      PROVE  CarryInv'
  <2>1. /\ h \in cq.pending /\ alive' = alive
        /\ \A g \in Handlers \ {h} : call'[g] = call[g]
    BY <1>0, <1>1 DEF Arrive, RequestFails, AnswerSent, heap, calls
  <2>2. h \in alive
    BY <1>0, <2>1 DEF Homed
  <2> QED
    BY <1>0, <2>1, <2>2 DEF CarryInv
<1>2. ASSUME NEW w \in Workers, Delete(w)
      PROVE  CarryInv'
  <2>1. PICK h \in hand[w] : /\ h \in delete_on_next \/ ~okay[h]
                             /\ alive' = alive \ {h}
    BY <1>2 DEF Delete
  <2>2. Returned(h) /\ call' = call
    BY <1>2, <2>1 DEF Delete, Goto, HomeInv, PhaseInv, TypeOK, calls
  <2>3. call[h] \notin {"open", "finishing"}
    BY <2>1, <2>2 DEF Returned
  <2> QED
    BY <1>0, <2>1, <2>2, <2>3 DEF CarryInv
<1>3. ASSUME NEW w \in Workers, Spawn(w)
      PROVE  CarryInv'
  <2>1. call' = call /\ \E n : alive' = alive \cup {n}
    BY <1>3 DEF Spawn, calls
  <2> QED
    BY <1>0, <2>1 DEF CarryInv
<1>4. ASSUME NEW w \in Workers, FinishNow(w) \/ RunThunk(w) \/ (DrainRun(w) /\ hand[w] # {})
      PROVE  CarryInv'
  <2>1. PICK h \in hand[w] : FinishCall(h) /\ alive' = alive
    BY <1>4, FinishIs DEF heap
  <2>2. h \in Handlers /\ h \in alive
    BY <1>0, <2>1 DEF Homed, Held, TypeOK
  <2>3. \A g \in Handlers \ {h} : call'[g] = call[g]
    BY <1>0, <2>1 DEF FinishCall
  <2> QED
    BY <1>0, <2>1, <2>2, <2>3 DEF CarryInv
<1>5. ASSUME NEW w \in Workers,
             \/ TakeEvent(w) \/ LogicThrows(w) \/ Schedule(w) \/ Scheduled(w) \/ TakeThunk(w)
             \/ Leave(w) \/ Drain(w) \/ DrainCheck(w) \/ (DrainRun(w) /\ hand[w] = {})
      PROVE  CarryInv'
  <2>1. UNCHANGED <<alive, call>>
    BY <1>5 DEF TakeEvent, LogicThrows, Schedule, Scheduled, TakeThunk, Leave, Drain, DrainCheck, DrainRun, heap, calls
  <2> QED
    BY <1>0, <2>1 DEF CarryInv
<1>6. CASE StopServer \/ ServerStopped \/ StopContext \/ ContextStopped \/ UNCHANGED vars
  <2>1. UNCHANGED <<alive, call>>
    BY <1>6 DEF StopServer, ServerStopped, StopContext, ContextStopped, vars, heap, calls
  <2> QED
    BY <1>0, <2>1 DEF CarryInv
<1> QED
  BY <1>1, <1>2, <1>3, <1>4, <1>5, <1>6 DEF Next, Worker

LEMMA Carried == IInv /\ OrderInv /\ QuietInv /\ AliveInv /\ CarryInv => CallsAreCarried
<1> SUFFICES ASSUME TypeOK, HomeInv, OrderInv, QuietInv, AliveInv, CarryInv, server_first,
                    NEW h \in Handlers
             PROVE  /\ call[h] = "open" =>
                         /\ h \in cq.ready \/ h \in pool \/ Held(h)
                         /\ \A w \in Workers : pc[w] \notin Leaving
                    /\ call[h] = "finishing" => h \in cq.pending
  BY DEF IInv, CallsAreCarried
<1>1. call[h] \in {"open", "finishing"} => Homed(h)
  BY DEF AliveInv, CarryInv
<1>2. CASE call[h] = "open"
  <2>1. h \notin cq.pending
    BY <1>2 DEF HomeInv, PhaseInv, Waits
  <2>2. ~cq.shutdown
    BY <1>2 DEF OrderInv
  <2>3. \A w \in Workers : pc[w] \notin Leaving
    BY <2>2 DEF QuietInv, IsDrained
  <2> QED
    BY <1>1, <1>2, <2>1, <2>3 DEF Homed
<1>3. CASE call[h] = "finishing"
  <2>1. h \notin cq.ready /\ h \notin pool
    BY <1>3 DEF HomeInv, PhaseInv, Returned, Serves
  <2>2. ~Held(h)
    BY <1>3 DEF HomeInv, PhaseInv, Returned, Serves, Held
  <2> QED
    BY <1>1, <1>3, <2>1, <2>2 DEF Homed
<1> QED
  BY <1>2, <1>3

\* In main's order no call is ever dropped on the way from AsyncNext through
\* the scheduler's thunk to Finish: what is left of EveryCallAnswered is that
\* no logic ends the process, threads keep running and gRPC completes what it
\* was given.
THEOREM CallsCarried == Spec => []CallsAreCarried
<1>1. Init => OrderInv /\ QuietInv /\ AliveInv /\ CarryInv
  BY InitOrder, InitAlive, InitCarry
<1> QED
  BY <1>1, Inductive, StepOrder, StepQuiet, StepAlive, StepCarry, Carried, PTL DEF Spec
=============================================================================
