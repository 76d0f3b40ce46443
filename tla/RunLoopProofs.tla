---------------------------- MODULE RunLoopProofs ----------------------------
(***************************************************************************)
(* Safety of RunLoop for every set of operations and runners: the          *)
(* intrusive list is a FIFO until pop_front first empties it, operations   *)
(* are popped in order and once, none is linked, or has its receiver still *)
(* to be called, after its owner has returned from sync_wait, and no       *)
(* wake-up of a runner is lost.                                            *)
(***************************************************************************)
EXTENDS RunLoop, FiniteSetTheorems, TLAPS

\* Once the list has been emptied it stays empty: tail no longer leads to
\* head, so no push_back changes head.next.  Before that, an operation that
\* was pushed is followed by one that has not been popped.
EmptiedInv ==
  /\ emptied => next[head] = head /\ tail \in Ops
  /\ ~emptied /\ pushed # <<>> => Len(popped) < Len(pushed)

LinkInv == EmptiedInv /\ ListIsQueue

\* start is called once per operation.
OrderInv ==
  /\ PoppedInOrder
  /\ \A k \in DOMAIN pushed : opc[pushed[k]] # "connected"

IsPopped(t) == \E k \in DOMAIN popped : popped[k] = t

\* An operation in the hands of a runner is popped, and in the hands of that
\* runner only; its receiver is called once, on the way through execute, and
\* owners return after that.
HandInv ==
  /\ \A r \in Runners : op[r] # None <=> rpc[r] \in {"execute", "leave"}
  /\ \A r \in Runners : op[r] # None => IsPopped(op[r])
  /\ \A r \in Runners : rpc[r] = "execute" => op[r] \notin done
  /\ \A r, q \in Runners : r # q /\ op[r] # None => op[r] # op[q]
  /\ \A t \in done : IsPopped(t)
  /\ \A t \in Ops : opc[t] = "returned" => t \in done

IInv == TypeOK /\ LinkInv /\ OrderInv /\ HandInv

USE DEF Nodes

LEMMA InitIInv == Init => IInv
<1> SUFFICES ASSUME Init PROVE IInv
  OBVIOUS
<1> USE WaitedAssumption, HeadIsNoOp, NoneIsNone DEF Init
<1>1. TypeOK
  <2>1. <<>> \in Seq(Ops)
    OBVIOUS
  <2>2. /\ next \in [Nodes -> Nodes] /\ op \in [Runners -> Ops \cup {None}]
        /\ opc \in [Ops -> OwnerLabels] /\ rpc \in [Runners -> RunnerLabels]
    BY DEF RunnerLabels, OwnerLabels
  <2> QED
    BY <2>1, <2>2 DEF TypeOK
<1>2. LinkInv
  BY DEF LinkInv, EmptiedInv, ListIsQueue
<1>3. OrderInv
  BY DEF OrderInv, PoppedInOrder
<1>4. HandInv
  BY DEF HandInv, IsPopped
<1> QED
  BY <1>1, <1>2, <1>3, <1>4 DEF IInv

LEMMA TypeStep == ASSUME TypeOK, HandInv, [Next]_vars PROVE TypeOK'
<1> USE WaitedAssumption, HeadIsNoOp, NoneIsNone
    DEF TypeOK, RunnerLabels, OwnerLabels, list, history
<1>1. ASSUME NEW r \in Runners, RunBegin(r) \/ Wake(r) \/ PopWait(r) \/ PopNothing(r)
      PROVE  TypeOK'
  BY <1>1 DEF RunBegin, Wake, PopWait, PopNothing, RunGoto
<1>2. ASSUME NEW r \in Runners, Pop(r) PROVE TypeOK'
  <2>1. next[head] \in Ops
    BY <1>2 DEF Pop
  <2>2. next' \in [Nodes -> Nodes] /\ op' \in [Runners -> Ops \cup {None}]
    BY <1>2, <2>1 DEF Pop
  <2>3. popped' \in Seq(Ops)
    BY <1>2, <2>1 DEF Pop
  <2>4. rpc' \in [Runners -> {"idle", "pop", "execute", "leave", "returned"}] /\ emptied' \in BOOLEAN
    BY <1>2 DEF Pop, RunGoto
  <2> QED
    BY <1>2, <2>2, <2>3, <2>4 DEF Pop
<1>0. ASSUME NEW r \in Runners, Leave(r) PROVE TypeOK'
  BY <1>0 DEF Leave, RunGoto
<1>3. ASSUME NEW r \in Runners, Execute(r) PROVE TypeOK'
  <2>1. op[r] \in Ops
    BY <1>3 DEF Execute, SetValue, RunGoto, HandInv
  <2>2. opc' \in [Ops -> {"connected", "started", "asleep", "returned"}]
    BY <1>3, <2>1 DEF Execute, SetValue
  <2> QED
    BY <1>3, <2>1, <2>2 DEF Execute, SetValue, RunGoto
<1>4. ASSUME NEW t \in Ops, Start(t) PROVE TypeOK'
  <2>1. waiting' \subseteq Runners
    BY <1>4 DEF Start, NotifyOne
  <2>2. next' \in [Nodes -> Nodes] /\ tail' \in Nodes
    BY <1>4 DEF Start
  <2>3. pushed' \in Seq(Ops)
    BY <1>4 DEF Start
  <2>4. opc' \in [Ops -> {"connected", "started", "asleep", "returned"}] /\ wild' \in BOOLEAN
    BY <1>4 DEF Start, OwnerGoto, Gone
  <2> QED
    BY <1>4, <2>1, <2>2, <2>3, <2>4 DEF Start
<1>5. ASSUME NEW t \in Ops, OwnerWake(t) \/ OwnerSleep(t) \/ OwnerReturn(t) PROVE TypeOK'
  BY <1>5 DEF OwnerWake, OwnerSleep, OwnerReturn, OwnerGoto
<1>6. ASSUME Finish PROVE TypeOK'
  BY <1>6 DEF Finish, NotifyAll
<1>7. CASE UNCHANGED vars
  BY <1>7 DEF vars
<1> QED
  BY <1>0, <1>1, <1>2, <1>3, <1>4, <1>5, <1>6, <1>7 DEF Next, Runner, Owner

-----------------------------------------------------------------------------
(* The list.                                                               *)

\* What the list looks like while it has not been emptied.
LEMMA FirstLinked ==
  ASSUME TypeOK, LinkInv, OrderInv, next[head] # head
  PROVE  /\ ~emptied
         /\ Len(popped) < Len(pushed)
         /\ next[head] = pushed[Len(popped) + 1]
         /\ next[head] \in Ops
         /\ next[next[head]] = IF Len(popped) + 1 < Len(pushed)
                               THEN pushed[Len(popped) + 2] ELSE head
<1> USE HeadIsNoOp DEF TypeOK
<1>1. ~emptied
  BY DEF LinkInv, EmptiedInv
<1>2. Len(popped) < Len(pushed) /\ next[head] = pushed[Len(popped) + 1]
  BY <1>1 DEF LinkInv, ListIsQueue
<1>3. next[head] \in Ops
  BY <1>2
<1>4. CASE Len(popped) + 1 < Len(pushed)
  <2>1. Len(popped) + 1 \in Len(popped)+1 .. Len(pushed)-1
    BY <1>4
  <2>2. next[pushed[Len(popped) + 1]] = pushed[(Len(popped) + 1) + 1]
    BY <1>1, <2>1 DEF LinkInv, ListIsQueue
  <2> QED
    BY <1>1, <1>2, <1>3, <1>4, <2>2
<1>5. CASE ~(Len(popped) + 1 < Len(pushed))
  <2>1. Len(popped) + 1 = Len(pushed)
    BY <1>2, <1>5
  <2>2. next[pushed[Len(pushed)]] = head
    BY <1>1, <1>2 DEF LinkInv, ListIsQueue
  <2> QED
    BY <1>1, <1>2, <1>3, <1>5, <2>1, <2>2
<1> QED
  BY <1>4, <1>5

\* push_back appends to the list, or to nothing once the list was emptied.
LEMMA StartLinks ==
  ASSUME TypeOK, LinkInv, OrderInv, NEW t \in Ops, Start(t)
  PROVE  LinkInv' /\ OrderInv'
<1> USE HeadIsNoOp DEF TypeOK
<1> DEFINE n == Len(pushed)
           k == Len(popped)
<1>1. /\ pushed' = Append(pushed, t) /\ popped' = popped /\ emptied' = emptied /\ tail' = t
      /\ next' = [next EXCEPT ![t] = head, ![tail] = t]
      /\ opc[t] = "connected" /\ opc' = [opc EXCEPT ![t] = "started"]
  BY DEF Start, OwnerGoto
<1>2. /\ Len(pushed') = n + 1 /\ pushed'[n+1] = t /\ DOMAIN pushed' = 1 .. n+1
      /\ \A j \in 1 .. n : pushed'[j] = pushed[j] /\ pushed[j] \in Ops
      /\ n \in Nat /\ k \in Nat /\ DOMAIN pushed = 1 .. n /\ DOMAIN popped = 1 .. k
  BY <1>1
<1>3. \A j \in 1 .. n : pushed[j] # t
  BY <1>1, <1>2 DEF OrderInv
<1>4. OrderInv'
  <2>1. PoppedInOrder'
    BY <1>1, <1>2, <1>3 DEF OrderInv, PoppedInOrder
  <2>2. \A j \in DOMAIN pushed' : opc'[pushed'[j]] # "connected"
    BY <1>1, <1>2 DEF OrderInv
  <2> QED
    BY <2>1, <2>2 DEF OrderInv
<1>5. CASE emptied
  <2>1. next[head] = head /\ tail \in Ops
    BY <1>5 DEF LinkInv, EmptiedInv
  <2> QED
    BY <1>1, <1>4, <1>5, <2>1 DEF LinkInv, EmptiedInv, ListIsQueue
<1>6. CASE ~emptied
  <2>1. /\ next[head] = IF k < n THEN pushed[k+1] ELSE head
        /\ \A j \in k+1 .. n-1 : next[pushed[j]] = pushed[j+1]
        /\ k < n => next[pushed[n]] = head
        /\ tail = IF n > 0 THEN pushed[n] ELSE head
    BY <1>6 DEF LinkInv, ListIsQueue
  <2>2. k <= n /\ (n > 0 => k < n)
    BY <1>2, <1>6 DEF LinkInv, EmptiedInv, OrderInv, PoppedInOrder
  <2>3. \A j \in 1 .. n-1 : pushed[j] # pushed[n]
    BY <1>2 DEF OrderInv, PoppedInOrder
  <2>4. tail # t
    BY <1>2, <1>3, <2>1
  <2>5. /\ next'[t] = head
        /\ next'[tail] = t
        /\ \A m \in Nodes \ {t, tail} : next'[m] = next[m]
    BY <1>1, <2>4
  <2>6. next'[head] = pushed'[k+1]
    <3>1. CASE n = 0
      BY <3>1, <1>2, <2>1, <2>2, <2>5
    <3>2. CASE n > 0
      BY <3>2, <1>2, <2>1, <2>2, <2>5
    <3> QED
      BY <1>2, <3>1, <3>2
  <2>7. ASSUME NEW j \in k+1 .. n PROVE next'[pushed'[j]] = pushed'[j+1]
    <3>1. j \in 1 .. n /\ pushed'[j] = pushed[j] /\ pushed[j] # t
      BY <1>2, <1>3
    <3>2. CASE j = n
      BY <3>1, <3>2, <1>2, <2>1, <2>5
    <3>3. CASE j # n
      <4>1. j \in k+1 .. n-1 /\ j+1 \in 1 .. n
        BY <3>3, <1>2
      <4>2. pushed[j] # tail
        BY <1>2, <2>1, <2>3, <4>1
      <4> QED
        BY <1>2, <2>1, <2>5, <3>1, <4>1, <4>2
    <3> QED
      BY <3>2, <3>3
  <2>8. ListIsQueue'
    <3>1. next'[pushed'[n+1]] = head /\ tail' = pushed'[n+1]
      BY <1>1, <1>2, <2>5
    <3> QED
      <4>1. Len(pushed') = n+1 /\ Len(popped') = k /\ k < n+1 /\ (n+1)-1 = n /\ n+1 > 0
        BY <1>1, <1>2, <2>2
      <4>2. \A j \in k+1 .. n : next'[pushed'[j]] = pushed'[j+1]
        BY <2>7
      <4> HIDE DEF TypeOK, n, k
      <4> QED
        BY <2>6, <3>1, <4>1, <4>2 DEF ListIsQueue
  <2>9. EmptiedInv'
    BY <1>1, <1>2, <1>6, <2>2 DEF EmptiedInv
  <2> QED
    BY <1>4, <2>8, <2>9 DEF LinkInv
<1> QED
  BY <1>5, <1>6

\* pop_front takes the oldest operation.
LEMMA PopLinks ==
  ASSUME TypeOK, LinkInv, OrderInv, NEW r \in Runners, Pop(r)
  PROVE  LinkInv' /\ OrderInv'
<1> USE HeadIsNoOp DEF TypeOK
<1> DEFINE n == Len(pushed)
           k == Len(popped)
           t == next[head]
<1>1. /\ ~emptied /\ k < n /\ t = pushed[k+1] /\ t \in Ops
      /\ next[t] = IF k + 1 < n THEN pushed[k+2] ELSE head
  BY FirstLinked DEF Pop
<1>2. /\ popped' = Append(popped, t) /\ next' = [next EXCEPT ![head] = next[t]]
      /\ (emptied' <=> next[t] = head) /\ UNCHANGED <<tail, pushed, opc>>
  BY <1>1 DEF Pop
<1>3. /\ Len(popped') = k + 1 /\ popped'[k+1] = t /\ DOMAIN popped' = 1 .. k+1
      /\ \A j \in 1 .. k : popped'[j] = popped[j]
      /\ n \in Nat /\ k \in Nat /\ DOMAIN pushed = 1 .. n /\ DOMAIN popped = 1 .. k
      /\ \A j \in 1 .. n : pushed[j] \in Ops
  <2>1. /\ n \in Nat /\ k \in Nat /\ DOMAIN pushed = 1 .. n /\ DOMAIN popped = 1 .. k
        /\ \A j \in 1 .. n : pushed[j] \in Ops
    OBVIOUS
  <2>2. popped \in Seq(Ops) /\ t \in Ops /\ popped' = Append(popped, t)
    BY <1>1, <1>2
  <2>3. /\ Len(popped') = k + 1 /\ DOMAIN popped' = 1 .. k+1
        /\ popped'[k+1] = t /\ \A j \in 1 .. k : popped'[j] = popped[j]
    <3> HIDE DEF TypeOK, t
    <3> QED
      BY <2>1, <2>2
  <2> QED
    BY <2>1, <2>3
<1>4. OrderInv'
  <2>1. ASSUME NEW j \in 1 .. k+1
        PROVE  popped'[j] = pushed[j]
    <3>1. j \in DOMAIN popped => popped[j] = pushed[j]
      BY DEF OrderInv, PoppedInOrder
    <3> HIDE DEF TypeOK, n, k, t
    <3> QED
      BY <1>1, <1>3, <3>1
  <2> QED
    BY <1>1, <1>2, <1>3, <2>1 DEF OrderInv, PoppedInOrder
<1>5. next'[head] = next[t] /\ \A m \in Ops : next'[m] = next[m]
  BY <1>2
<1>6. /\ \A j \in k+1 .. n-1 : next[pushed[j]] = pushed[j+1]
      /\ next[pushed[n]] = head /\ tail = pushed[n]
  BY <1>1, <1>3 DEF LinkInv, ListIsQueue
<1>7. emptied' <=> k + 1 = n
  <2>1. CASE k + 1 = n
    BY <1>1, <1>2, <2>1
  <2>2. CASE k + 1 # n
    <3>1. k \in Nat /\ n \in Nat /\ k < n
      BY <1>1, <1>3
    <3>2. k + 1 < n /\ k + 2 \in 1 .. n
      BY <2>2, <3>1
    <3>3. next[t] = pushed[k+2]
      BY <1>1, <3>2
    <3>4. pushed[k+2] \in Ops
      BY <1>3, <3>2
    <3> QED
      BY <1>2, <2>2, <3>3, <3>4
  <2> QED
    BY <2>1, <2>2
<1>8. Len(popped') = k + 1 /\ Len(pushed') = n /\ pushed' = pushed /\ tail' = tail
  BY <1>2, <1>3
<1>9. CASE k + 1 = n
  <2>1. emptied' /\ next'[head] = head /\ tail' \in Ops
    BY <1>1, <1>3, <1>5, <1>6, <1>7, <1>8, <1>9
  <2>2. EmptiedInv' /\ ListIsQueue'
    BY <2>1 DEF EmptiedInv, ListIsQueue
  <2> QED
    BY <1>4, <2>2 DEF LinkInv
<1>10. CASE k + 1 # n
  <2>0. k \in Nat /\ n \in Nat /\ k < n /\ k + 1 < n
    <3>1. k \in Nat /\ n \in Nat /\ k < n
      BY <1>1, <1>3
    <3> QED
      BY <3>1, <1>10
  <2>1. ~emptied' /\ next'[head] = pushed[k+2]
    BY <1>1, <1>5, <1>7, <1>10, <2>0
  <2>2. \A j \in k+2 .. n-1 : next'[pushed[j]] = pushed[j+1]
    BY <1>3, <1>5, <1>6
  <2>3. next'[pushed[n]] = head /\ tail = pushed[n]
    BY <1>1, <1>3, <1>5, <1>6
  <2>4. EmptiedInv'
    BY <1>8, <2>0, <2>1 DEF EmptiedInv
  <2>5. ListIsQueue'
    BY <1>3, <1>8, <2>0, <2>1, <2>2, <2>3 DEF ListIsQueue
  <2> QED
    BY <1>4, <2>4, <2>5 DEF LinkInv
<1> QED
  BY <1>9, <1>10

LEMMA LinkStep ==
  ASSUME TypeOK, LinkInv, OrderInv, [Next]_vars
  PROVE  LinkInv' /\ OrderInv'
<1>1. ASSUME NEW t \in Ops, Start(t) PROVE LinkInv' /\ OrderInv'
  BY <1>1, StartLinks
<1>2. ASSUME NEW r \in Runners, Pop(r) PROVE LinkInv' /\ OrderInv'
  BY <1>2, PopLinks
<1>3. ASSUME UNCHANGED <<next, tail, pushed, popped, emptied>>,
             \A t \in Ops : opc[t] # "connected" => opc'[t] # "connected"
      PROVE  LinkInv' /\ OrderInv'
  <2>1. LinkInv'
    BY <1>3 DEF LinkInv, EmptiedInv, ListIsQueue
  <2>2. PoppedInOrder'
    BY <1>3 DEF OrderInv, PoppedInOrder
  <2>3. \A k \in DOMAIN pushed' : opc'[pushed'[k]] # "connected"
    BY <1>3 DEF TypeOK, OrderInv
  <2> QED
    BY <2>1, <2>2, <2>3 DEF OrderInv
<1>4. ASSUME NEW r \in Runners,
             RunBegin(r) \/ Wake(r) \/ PopWait(r) \/ PopNothing(r) \/ Leave(r)
      PROVE  LinkInv' /\ OrderInv'
  BY <1>3, <1>4 DEF RunBegin, Wake, PopWait, PopNothing, Leave, list, history
<1>5. ASSUME NEW r \in Runners, Execute(r) PROVE LinkInv' /\ OrderInv'
  BY <1>3, <1>5 DEF Execute, SetValue, list, history, TypeOK
<1>6. ASSUME NEW t \in Ops, OwnerWake(t) \/ OwnerSleep(t) \/ OwnerReturn(t)
      PROVE  LinkInv' /\ OrderInv'
  BY <1>3, <1>6 DEF OwnerWake, OwnerSleep, OwnerReturn, OwnerGoto, list, history, TypeOK
<1>7. ASSUME Finish PROVE LinkInv' /\ OrderInv'
  BY <1>3, <1>7 DEF Finish, list, history
<1>8. CASE UNCHANGED vars
  BY <1>3, <1>8 DEF vars, list, history
<1> QED
  BY <1>1, <1>2, <1>4, <1>5, <1>6, <1>7, <1>8 DEF Next, Runner, Owner

-----------------------------------------------------------------------------
(* Who holds an operation.                                                 *)

LEMMA HandStep ==
  ASSUME IInv, [Next]_vars
  PROVE  HandInv'
<1> USE HeadIsNoOp, NoneIsNone DEF IInv
<1>1. ASSUME NEW r \in Runners, Pop(r) PROVE HandInv'
  <2> DEFINE k == Len(popped)
  <2>0. PICK t \in Ops : t = next[head]
    BY <1>1, FirstLinked DEF Pop
  <2>1. k < Len(pushed) /\ t = pushed[k+1]
    BY <1>1, <2>0, FirstLinked DEF Pop
  <2>2. /\ op' = [op EXCEPT ![r] = t] /\ rpc' = [rpc EXCEPT ![r] = "execute"]
        /\ rpc[r] = "pop" /\ popped' = Append(popped, t) /\ UNCHANGED <<opc, done>>
    BY <1>1, <2>0 DEF Pop, RunGoto
  <2>3. ~IsPopped(t)
    <3>1. ASSUME NEW j \in DOMAIN popped, popped[j] = t PROVE FALSE
      <4>1. j \in 1 .. k /\ k \in Nat /\ Len(pushed) \in Nat /\ DOMAIN pushed = 1 .. Len(pushed)
        BY DEF TypeOK
      <4>2. pushed[j] = pushed[k+1] /\ j \in DOMAIN pushed /\ k+1 \in DOMAIN pushed
        BY <2>1, <3>1, <4>1 DEF OrderInv, PoppedInOrder
      <4>3. j = k+1
        BY <4>2 DEF OrderInv, PoppedInOrder
      <4> QED
        BY <4>1, <4>3
    <3> QED
      BY <3>1 DEF IsPopped
  <2>4. /\ \A u : IsPopped(u) => IsPopped(u)'
        /\ IsPopped(t)'
    <3>1. /\ \A j \in DOMAIN popped : j \in DOMAIN popped' /\ popped'[j] = popped[j]
          /\ k+1 \in DOMAIN popped' /\ popped'[k+1] = t
      BY <2>1, <2>2 DEF TypeOK
    <3>2. ASSUME NEW u, IsPopped(u) PROVE IsPopped(u)'
      <4>1. PICK j \in DOMAIN popped : popped[j] = u
        BY <3>2 DEF IsPopped
      <4> QED
        BY <3>1, <4>1 DEF IsPopped
    <3>3. IsPopped(t)'
      <4> HIDE DEF k
      <4> QED
        BY <3>1 DEF IsPopped
    <3> QED
      BY <3>2, <3>3
  <2>5. t \notin done /\ \A q \in Runners : op[q] # t
    BY <2>1, <2>3 DEF HandInv
  <2> HIDE DEF k
  <2>6. \A q \in Runners : q # r => op'[q] = op[q] /\ rpc'[q] = rpc[q]
    BY <2>2 DEF TypeOK
  <2>7. op'[r] = t /\ rpc'[r] = "execute" /\ t # None
    BY <2>1, <2>2 DEF TypeOK
  <2>8. \A q \in Runners : op'[q] # None <=> rpc'[q] \in {"execute", "leave"}
    BY <2>6, <2>7 DEF HandInv
  <2>9. \A q \in Runners : op'[q] # None => IsPopped(op[q])'
    BY <2>2, <2>4, <2>5, <2>6, <2>7 DEF HandInv
  <2>13. \A q \in Runners : rpc'[q] = "execute" => op'[q] \notin done'
    BY <2>2, <2>5, <2>6, <2>7 DEF HandInv
  <2>10. \A p, q \in Runners : p # q /\ op'[p] # None => op'[p] # op'[q]
    BY <2>5, <2>6, <2>7 DEF HandInv
  <2>11. \A u \in done' : IsPopped(u)'
    BY <2>2, <2>4 DEF HandInv
  <2>12. \A u \in Ops : opc'[u] = "returned" => u \in done'
    BY <2>2 DEF HandInv
  <2> QED
    BY <2>8, <2>9, <2>10, <2>11, <2>12, <2>13 DEF HandInv
<1>2. ASSUME NEW r \in Runners, Execute(r) PROVE HandInv'
  <2>1. op[r] \in Ops /\ IsPopped(op[r])
    BY <1>2 DEF Execute, RunGoto, HandInv, TypeOK
  <2>2. /\ rpc[r] = "execute" /\ rpc' = [rpc EXCEPT ![r] = "leave"]
        /\ done' = done \cup {op[r]} /\ UNCHANGED <<op, popped>>
    BY <1>2 DEF Execute, SetValue, RunGoto, history
  <2>3. \A t \in Ops : opc'[t] = "returned" => opc[t] = "returned"
    BY <1>2, <2>1 DEF Execute, SetValue, TypeOK
  <2>4. \A q \in Runners : op'[q] # None <=> rpc'[q] \in {"execute", "leave"}
    BY <2>2 DEF HandInv, TypeOK
  <2>5. \A q \in Runners : rpc'[q] = "execute" => op'[q] \notin done'
    BY <2>1, <2>2 DEF HandInv, TypeOK
  <2>6. /\ \A q \in Runners : op'[q] # None => IsPopped(op[q])'
        /\ \A t \in done' : IsPopped(t)'
    BY <2>1, <2>2 DEF HandInv, IsPopped
  <2> QED
    BY <2>2, <2>3, <2>4, <2>5, <2>6 DEF HandInv
<1>9. ASSUME NEW r \in Runners, Leave(r) PROVE HandInv'
  <2>1. /\ rpc[r] = "leave" /\ rpc' = [rpc EXCEPT ![r] = "pop"]
        /\ op' = [op EXCEPT ![r] = None] /\ UNCHANGED <<opc, done, popped>>
    BY <1>9 DEF Leave, RunGoto, history
  <2>2. op'[r] = None /\ rpc'[r] = "pop"
    BY <2>1 DEF TypeOK
  <2>3. \A q \in Runners : q # r => op'[q] = op[q] /\ rpc'[q] = rpc[q]
    BY <2>1 DEF TypeOK
  <2>4. \A q \in Runners : op'[q] # None <=> rpc'[q] \in {"execute", "leave"}
    BY <2>2, <2>3 DEF HandInv
  <2>5. /\ \A q \in Runners : op'[q] # None => IsPopped(op[q])'
        /\ \A t \in done' : IsPopped(t)'
    BY <2>1, <2>2, <2>3 DEF HandInv, IsPopped
  <2>6. \A q \in Runners : rpc'[q] = "execute" => op'[q] \notin done'
    BY <2>1, <2>2, <2>3 DEF HandInv
  <2>7. \A p, q \in Runners : p # q /\ op'[p] # None => op'[p] # op'[q]
    BY <2>2, <2>3 DEF HandInv
  <2> QED
    BY <2>1, <2>4, <2>5, <2>6, <2>7 DEF HandInv
<1>3. ASSUME UNCHANGED <<op, done, popped>>,
             \A r \in Runners : rpc'[r] \in {"execute", "leave"} => rpc'[r] = rpc[r],
             \A r \in Runners : rpc[r] \in {"execute", "leave"} => rpc'[r] = rpc[r],
             \A t \in Ops : opc'[t] = "returned" => opc[t] = "returned" \/ t \in done
      PROVE  HandInv'
  BY <1>3 DEF HandInv, IsPopped
<1>4. ASSUME NEW r \in Runners, RunBegin(r) \/ Wake(r) \/ PopWait(r) \/ PopNothing(r)
      PROVE  HandInv'
  BY <1>3, <1>4 DEF RunBegin, Wake, PopWait, PopNothing, RunGoto, history, TypeOK
<1>5. ASSUME NEW t \in Ops, Start(t) \/ OwnerWake(t) \/ OwnerSleep(t) \/ OwnerReturn(t)
      PROVE  HandInv'
  BY <1>3, <1>5 DEF Start, OwnerWake, OwnerSleep, OwnerReturn, OwnerGoto, history, TypeOK
<1>6. ASSUME Finish PROVE HandInv'
  BY <1>3, <1>6 DEF Finish, history
<1>7. CASE UNCHANGED vars
  BY <1>3, <1>7 DEF vars, history
<1> QED
  BY <1>1, <1>2, <1>4, <1>5, <1>6, <1>7, <1>9 DEF Next, Runner, Owner

LEMMA Invariance == Spec => []IInv
<1>1. IInv /\ [Next]_vars => IInv'
  BY TypeStep, LinkStep, HandStep DEF IInv
<1> QED
  BY InitIInv, <1>1, PTL DEF Spec

\* What can be reached from head was pushed and is not popped.
LEMMA LinkedIs ==
  ASSUME IInv, NEW t \in Linked
  PROVE  ~emptied /\ \E j \in Len(popped)+1 .. Len(pushed) : t = pushed[j]
<1> USE HeadIsNoOp DEF IInv
<1> DEFINE n == Len(pushed)
           k == Len(popped)
           S == {head} \cup {pushed[j] : j \in k+1 .. n}
<1>1. /\ n \in Nat /\ k \in Nat /\ DOMAIN pushed = 1 .. n /\ DOMAIN popped = 1 .. k
      /\ \A j \in 1 .. n : pushed[j] \in Ops
  BY DEF TypeOK
<1>2. S \in SUBSET Nodes
  BY <1>1
<1>3. CASE next[head] = head
  <2>1. {head} \in SUBSET Nodes /\ next[head] \in {head} /\ {head} \cap Ops = {}
    BY <1>3
  <2>2. t \in {head} /\ t \in Ops
    BY <2>1 DEF Linked
  <2> QED
    BY <2>2
<1>4. CASE next[head] # head
  <2>1. ~emptied /\ k < n /\ next[head] = pushed[k+1]
    BY <1>4, FirstLinked
  <2>2. next[head] \in S
    BY <1>1, <2>1
  <2>3. ASSUME NEW m \in S \cap Ops PROVE next[m] \in S
    <3>1. PICK j \in k+1 .. n : m = pushed[j]
      BY <2>3
    <3>2. CASE j = n
      BY <1>1, <2>1, <3>1, <3>2 DEF LinkInv, ListIsQueue
    <3>3. CASE j # n
      <4>1. j \in k+1 .. n-1 /\ j+1 \in k+1 .. n
        <5>1. k \in Nat /\ n \in Nat
          BY <1>1
        <5> HIDE DEF n, k
        <5> QED
          BY <3>3, <5>1
      <4>2. next[m] = pushed[j+1]
        BY <2>1, <3>1, <4>1 DEF LinkInv, ListIsQueue
      <4> QED
        BY <4>1, <4>2
    <3> QED
      BY <3>2, <3>3
  <2>4. t \in S /\ t \in Ops
    BY <1>2, <2>2, <2>3 DEF Linked
  <2> QED
    BY <2>1, <2>4
<1> QED
  BY <1>3, <1>4

\* A popped operation cannot be reached from head any more.
LEMMA LinkedNotPopped ==
  ASSUME IInv, NEW t \in Linked
  PROVE  ~IsPopped(t)
<1> USE DEF IInv
<1>1. PICK j \in Len(popped)+1 .. Len(pushed) : t = pushed[j]
  BY LinkedIs
<1>2. ASSUME NEW i \in DOMAIN popped, popped[i] = t PROVE FALSE
  <2>1. i \in DOMAIN pushed /\ j \in DOMAIN pushed /\ i # j
    BY DEF TypeOK, OrderInv, PoppedInOrder
  <2>2. pushed[i] = pushed[j]
    BY <1>1, <1>2 DEF OrderInv, PoppedInOrder
  <2> QED
    BY <2>1, <2>2 DEF OrderInv, PoppedInOrder
<1> QED
  BY <1>2 DEF IsPopped

-----------------------------------------------------------------------------
(* Wake-ups.  What is left in the list is counted by the histories, so     *)
(* that each step changes the count by one at most.                        *)

Backlog == IF emptied THEN 0 ELSE Len(pushed) - Len(popped)

WakeInv ==
  /\ waiting \subseteq {r \in Runners : rpc[r] = "pop"}
  /\ finishing => waiting = {}
  /\ waiting # {} => Backlog <= Cardinality(Awake)

SleepInv == \A t \in done : opc[t] # "asleep"

LEMMA BacklogIs ==
  ASSUME IInv
  PROVE  /\ Backlog \in Nat
         /\ next[head] = head => Backlog = 0
         /\ IsFiniteSet(Awake) /\ Cardinality(Awake) \in Nat
<1>1. Len(pushed) \in Nat /\ Len(popped) \in Nat /\ Len(popped) <= Len(pushed)
  BY DEF IInv, TypeOK, OrderInv, PoppedInOrder
<1>2. next[head] = head /\ ~emptied => Len(popped) = Len(pushed)
  <2>1. \A j \in 1 .. Len(pushed) : pushed[j] \in Ops
    BY DEF IInv, TypeOK
  <2> QED
    BY <1>1, <2>1, HeadIsNoOp DEF IInv, LinkInv, ListIsQueue
<1>3. Awake \in SUBSET Runners
  BY DEF Awake, InRun
<1> QED
  BY <1>1, <1>2, <1>3, RunnersFinite, FS_Subset, FS_CardinalityType DEF Backlog

LEMMA BacklogNext ==
  ASSUME IInv'
  PROVE  Backlog' \in Nat /\ IsFiniteSet(Awake') /\ Cardinality(Awake') \in Nat
<1>1. Len(pushed') \in Nat /\ Len(popped') \in Nat /\ Len(popped') <= Len(pushed')
  BY DEF IInv, TypeOK, OrderInv, PoppedInOrder
<1>2. Awake' \in SUBSET Runners
  BY DEF Awake, InRun
<1> QED
  BY <1>1, <1>2, RunnersFinite, FS_Subset, FS_CardinalityType DEF Backlog

\* More runners are awake, or the backlog is smaller.
LEMMA AwakeSuffices ==
  ASSUME IInv, IInv', Awake \subseteq Awake', Backlog <= Cardinality(Awake), Backlog' <= Backlog
  PROVE  Backlog' <= Cardinality(Awake')
BY BacklogIs, BacklogNext, FS_Subset

LEMMA StartWakes ==
  ASSUME IInv, IInv', WakeInv, NEW t \in Ops, Start(t)
  PROVE  WakeInv'
<1>1. UNCHANGED <<finishing, rpc, popped, emptied>> /\ pushed' = Append(pushed, t) /\ NotifyOne
  BY DEF Start
<1>2. CASE waiting' = {}
  BY <1>2 DEF WakeInv
<1>3. CASE waiting' # {}
  <2>1. PICK r \in waiting : waiting' = waiting \ {r}
    BY <1>1, <1>3 DEF NotifyOne
  <2>2. Awake' = Awake \cup {r} /\ r \notin Awake
    BY <1>1, <2>1 DEF WakeInv, Awake, InRun
  <2>3. Cardinality(Awake') = Cardinality(Awake) + 1
    BY <2>2, BacklogIs, FS_AddElement
  <2>4. Backlog' <= Backlog + 1
    BY <1>1, BacklogIs DEF Backlog, IInv, TypeOK
  <2> QED
    BY <1>1, <2>1, <2>3, <2>4, BacklogIs, BacklogNext DEF WakeInv
<1> QED
  BY <1>2, <1>3

LEMMA WakeStep ==
  ASSUME IInv, IInv', WakeInv, [Next]_vars
  PROVE  WakeInv'
<1> USE DEF IInv, TypeOK
<1>1. ASSUME NEW t \in Ops, Start(t) PROVE WakeInv'
  BY <1>1, StartWakes
<1>2. ASSUME NEW r \in Runners, PopWait(r) PROVE WakeInv'
  <2>1. /\ Backlog = 0 /\ Backlog' = Backlog /\ ~finishing' /\ rpc' = rpc
        /\ rpc[r] = "pop" /\ waiting' = waiting \cup {r}
    BY <1>2, BacklogIs DEF PopWait, RunGoto, Backlog, history
  <2> QED
    BY <2>1, BacklogNext DEF WakeInv
<1>3. ASSUME NEW r \in Runners, Pop(r) PROVE WakeInv'
  <2>1. rpc[r] = "pop" /\ r \notin waiting /\ rpc' = [rpc EXCEPT ![r] = "execute"]
        /\ UNCHANGED <<waiting, finishing, pushed>>
    BY <1>3 DEF Pop, RunGoto
  <2>2. Awake' = Awake /\ waiting' \subseteq {q \in Runners : rpc'[q] = "pop"}
    BY <2>1 DEF Awake, InRun, WakeInv
  <2>3. Backlog' <= Backlog
    <3>1. next[head] \in Ops /\ ~emptied
      BY <1>3, FirstLinked DEF Pop
    <3>2. Len(popped') = Len(popped) + 1
      BY <1>3, <3>1 DEF Pop
    <3> QED
      BY <2>1, <3>1, <3>2, BacklogIs DEF Backlog
  <2> QED
    BY <2>1, <2>2, <2>3, BacklogIs, BacklogNext DEF WakeInv
<1>4. ASSUME NEW r \in Runners, PopNothing(r) PROVE WakeInv'
  BY <1>4 DEF PopNothing, WakeInv
<1>5. ASSUME UNCHANGED <<finishing, history>>, waiting' \subseteq waiting,
             \A r \in Runners : rpc[r] = rpc'[r] \/ rpc'[r] = "pop", Awake \subseteq Awake'
      PROVE  WakeInv'
  <2>1. Backlog' = Backlog
    BY <1>5 DEF Backlog, history
  <2> QED
    BY <1>5, <2>1, AwakeSuffices, BacklogIs DEF WakeInv
<1>6. ASSUME NEW r \in Runners, RunBegin(r) \/ Wake(r) \/ Leave(r) PROVE WakeInv'
  BY <1>5, <1>6 DEF RunBegin, Wake, Leave, RunGoto, Awake, InRun
<1>10. ASSUME NEW r \in Runners, Execute(r) PROVE WakeInv'
  <2>1. /\ rpc[r] = "execute" /\ rpc' = [rpc EXCEPT ![r] = "leave"]
        /\ UNCHANGED <<finishing, waiting, history>>
    BY <1>10 DEF Execute, RunGoto
  <2>2. Awake' = Awake /\ Backlog' = Backlog
    BY <2>1 DEF Awake, InRun, Backlog, history
  <2> QED
    BY <2>1, <2>2 DEF WakeInv
<1>7. ASSUME NEW t \in Ops, OwnerWake(t) \/ OwnerSleep(t) \/ OwnerReturn(t) PROVE WakeInv'
  BY <1>5, <1>7 DEF OwnerWake, OwnerSleep, OwnerReturn, Awake, InRun
<1>8. ASSUME Finish PROVE WakeInv'
  BY <1>8 DEF Finish, NotifyAll, WakeInv
<1>9. CASE UNCHANGED vars
  BY <1>5, <1>9 DEF vars, Awake, InRun
<1> QED
  BY <1>1, <1>2, <1>3, <1>4, <1>6, <1>7, <1>8, <1>9, <1>10 DEF Next, Runner, Owner

LEMMA SleepStep ==
  ASSUME IInv, SleepInv, [Next]_vars
  PROVE  SleepInv'
<1> USE DEF IInv, TypeOK
<1>1. ASSUME NEW r \in Runners, Execute(r) PROVE SleepInv'
  <2>1. op[r] \in Ops
    BY <1>1 DEF Execute, RunGoto, HandInv
  <2> QED
    BY <1>1, <2>1 DEF Execute, SetValue, SleepInv
<1>2. ASSUME NEW t \in Ops, Start(t) \/ OwnerWake(t) \/ OwnerSleep(t) \/ OwnerReturn(t)
      PROVE  SleepInv'
  BY <1>2 DEF Start, OwnerWake, OwnerSleep, OwnerReturn, OwnerGoto, SleepInv
<1>3. CASE UNCHANGED <<done, opc>>
  BY <1>3 DEF SleepInv
<1> QED
  BY <1>1, <1>2, <1>3 DEF Next, Runner, Owner, RunBegin, Wake, PopWait, Pop, PopNothing, Leave, Finish, vars

\* The list is not longer than the backlog.
LEMMA LinkedCounts ==
  ASSUME IInv
  PROVE  Cardinality(Linked) \in Nat /\ Cardinality(Linked) <= Backlog
<1> DEFINE K == Len(popped)+1 .. Len(pushed)
           T == {pushed[j] : j \in K}
           f == [j \in K |-> pushed[j]]
<1>1. Len(pushed) \in Nat /\ Len(popped) \in Nat /\ Len(popped) <= Len(pushed)
  BY DEF IInv, TypeOK, OrderInv, PoppedInOrder
<1>2. CASE Linked = {}
  BY <1>2, BacklogIs, FS_EmptySet
<1>3. CASE Linked # {}
  <2>1. ~emptied /\ Linked \in SUBSET T
    BY <1>3, LinkedIs
  <2>2. f \in Surjection(K, T)
    BY DEF Surjection
  <2>3. IsFiniteSet(K) /\ Cardinality(K) = Len(pushed) - Len(popped)
    <3>1. /\ IsFiniteSet(K)
          /\ Cardinality(K) = IF Len(popped)+1 > Len(pushed) THEN 0
                               ELSE Len(pushed) - (Len(popped)+1) + 1
      <4>1. Len(popped)+1 \in Int /\ Len(pushed) \in Int
        BY <1>1
      <4> QED
        BY <4>1, FS_Interval
    <3> QED
      BY <1>1, <3>1
  <2> HIDE DEF K, T, f
  <2>4. IsFiniteSet(T) /\ Cardinality(T) <= Cardinality(K)
    BY <2>2, <2>3, FS_Surjection
  <2>5. IsFiniteSet(Linked) /\ Cardinality(Linked) <= Cardinality(T)
    BY <2>1, <2>4, FS_Subset
  <2> QED
    BY <1>1, <2>1, <2>3, <2>4, <2>5, FS_CardinalityType DEF Backlog
<1> QED
  BY <1>2, <1>3

-----------------------------------------------------------------------------
\* Every variable keeps its type; what a runner has in hand is always an
\* operation, never head.
THEOREM TypeCorrect == Spec => []TypeOK
<1>1. IInv => TypeOK
  BY DEF IInv
<1> QED
  BY Invariance, <1>1, PTL

\* pop_front hands out the operations in the order in which start pushed them,
\* and none twice, to whichever runners call it.
THEOREM PopsInOrder == Spec => []PoppedInOrder
<1>1. IInv => PoppedInOrder
  BY DEF IInv, OrderInv
<1> QED
  BY Invariance, <1>1, PTL

\* Until pop_front first empties it the intrusive list is the queue of the
\* operations that were pushed and not popped.
THEOREM ListImplementsQueue == Spec => []ListIsQueue
<1>1. IInv => ListIsQueue
  BY DEF IInv, LinkInv
<1> QED
  BY Invariance, <1>1, PTL

\* sync_wait returns, and destroys its operation, only when the list does not
\* refer to it and no runner has still to call its receiver.
THEOREM OperationsOutlive == Spec => []OperationOutlivesUse
<1>1. ASSUME IInv PROVE OperationOutlivesUse
  <2>1. ASSUME NEW t \in Ops, opc[t] = "returned"
        PROVE  t \in done /\ IsPopped(t)
    BY <1>1, <2>1 DEF IInv, HandInv
  <2>2. ASSUME NEW t \in Ops, opc[t] = "returned", NEW r \in Runners, op[r] = t
        PROVE  rpc[r] = "leave"
    BY <1>1, <2>1, <2>2, NoneIsNone DEF IInv, HandInv
  <2>3. ASSUME NEW t \in Ops, opc[t] = "returned" PROVE t \notin Linked
    BY <1>1, <2>1, <2>3, LinkedNotPopped
  <2> QED
    BY <2>1, <2>2, <2>3 DEF OperationOutlivesUse, IsPopped
<1> QED
  BY Invariance, <1>1, PTL

\* push_back's notify_one and finish's notify_all lose no wake-up, whatever
\* the runners are doing when they are made: a runner sleeps only while every
\* operation in the list has an awake runner of its own.
THEOREM WakeupsKept == Spec => []NoLostWakeup
<1>1. Init => WakeInv /\ SleepInv
  BY DEF Init, WakeInv, SleepInv
<1>2. IInv /\ IInv' /\ WakeInv /\ [Next]_vars => WakeInv'
  BY WakeStep
<1>3. IInv /\ SleepInv /\ [Next]_vars => SleepInv'
  BY SleepStep
<1>4. IInv /\ WakeInv /\ SleepInv => NoLostWakeup
  BY LinkedCounts, BacklogIs DEF WakeInv, SleepInv, NoLostWakeup
<1> QED
  BY Invariance, <1>1, <1>2, <1>3, <1>4, PTL DEF Spec
=============================================================================
