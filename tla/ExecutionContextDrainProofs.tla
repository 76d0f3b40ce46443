--------------------- MODULE ExecutionContextDrainProofs ---------------------
(***************************************************************************)
(* What becomes of the work given to an ExecutionContext: where a posted   *)
(* item can be, that the shutdown leaves none behind, that nothing starts  *)
(* after it, that the context keeps its contract, and that a stop always   *)
(* has something to wait for.                                              *)
(***************************************************************************)
EXTENDS ExecutionContextProofs

Posted(x) == ppc[x] \in {"push", "leave_posted", "accepted"}
Held(x) == \E w \in Workers : x \in hand[w]
OnQueue(x, c) == x \in cqs[c].pending \/ x \in cqs[c].ready
Queued(x) == \E c \in Cqs : OnQueue(x, c)

\* Where an item is that was posted: nowhere before, in one place from then on.
OneHome(x) ==
  /\ Posted(x) <=> x \in admitted \/ x \in pool \/ x \in ran \/ Held(x) \/ Queued(x)
  /\ x \in heap => Posted(x)
  /\ x \in admitted <=> ppc[x] = "push"
  /\ x \in admitted => x \notin pool /\ x \notin ran /\ ~Held(x) /\ ~Queued(x)
  /\ x \in pool => x \notin ran /\ ~Held(x) /\ ~Queued(x)
  /\ x \in ran => ~Held(x) /\ ~Queued(x)
  /\ Held(x) => ~Queued(x)
  /\ \A v, w \in Workers : x \in hand[v] /\ x \in hand[w] => v = w
  /\ \A c \in Cqs : x \in cqs[c].pending => x \notin cqs[c].ready
  /\ \A c, d \in Cqs : OnQueue(x, c) /\ OnQueue(x, d) => c = d

HomeInv == \A x \in Items : OneHome(x)

\* A worker has something in hand only between fetching and running it, and
\* then either thunks or one event.
HandInv ==
  \A w \in Workers :
    /\ wpc[w] \in {"unborn", "top", "in_stop", "scan", "pop", "eject", "exited"} => hand[w] = {}
    /\ wpc[w] \in {"run", "drain", "drain_check", "drain_run"} => hand[w] \subseteq Thunks \cup Deadlined
    /\ wpc[w] = "complete" => \E e \in Tags : hand[w] = {e}

\* The event of an rpc is allocated as long as it can still come.
HeapInv == \A x \in Rpcs : x \in heap => Held(x) \/ Queued(x)

WorkInv == HomeInv /\ HandInv /\ HeapInv

\* A step leaves y where it is ...
LEMMA StaysHome ==
  ASSUME NEW y \in Items, OneHome(y), ppc'[y] = ppc[y],
         y \in admitted' <=> y \in admitted, y \in pool' <=> y \in pool,
         y \in ran' <=> y \in ran, y \in heap' => y \in heap,
         \A w \in Workers : y \in hand'[w] <=> y \in hand[w],
         \A c \in Cqs : /\ y \in cqs'[c].pending <=> y \in cqs[c].pending
                        /\ y \in cqs'[c].ready <=> y \in cqs[c].ready
  PROVE  /\ OneHome(y)' /\ (Held(y)' <=> Held(y)) /\ (Queued(y)' <=> Queued(y))
<1>1. (Held(y)' <=> Held(y)) /\ (Queued(y)' <=> Queued(y)) /\ (Posted(y)' <=> Posted(y))
  BY DEF Held, Queued, OnQueue, Posted
<1>2. \A c \in Cqs : OnQueue(y, c)' <=> OnQueue(y, c)
  BY DEF OnQueue
<1> QED
  BY <1>1, <1>2 DEF OneHome

\* ... and it goes on being allocated only where it could before.
LEMMA HomeUnchanged ==
  ASSUME WorkInv, UNCHANGED <<ppc, admitted, pool, ran, heap, hand, cqs>>,
         \A w \in Workers : wpc'[w] = wpc[w]
  PROVE  WorkInv'
BY DEF WorkInv, HomeInv, OneHome, HandInv, HeapInv, Posted, Held, Queued, OnQueue

LEMMA InitWork == Init => WorkInv
BY DEF Init, WorkInv, HomeInv, OneHome, HandInv, HeapInv, Posted, Held, Queued, OnQueue, NewQueue,
       TP!PoolInit

-----------------------------------------------------------------------------
(* Posts                                                                   *)

LEMMA PostWork ==
  ASSUME TypeOK, WorkInv, NEW x \in Items, Post(x)
  PROVE  WorkInv'
<1>0. /\ hand' = hand /\ wpc' = wpc /\ ran' = ran
      /\ \A y \in Items \ {x} : ppc'[y] = ppc[y]
  <2>1. \A y \in Items \ {x} : ppc'[y] = ppc[y]
    BY DEF Post, PostThunk, PostInsert, PostCqEnter, PostCqCheck, PostCqBind, PostCqLeave, PostGoto,
           TypeOK
  <2> QED
    BY <2>1, PostKeeps DEF workerVars
<1>1. HandInv'
  BY <1>0 DEF WorkInv, HandInv
<1>2. OneHome(x)
  BY DEF WorkInv, HomeInv
<1>3. ASSUME UNCHANGED <<cqs, heap>>,
             \A y \in Items \ {x} : /\ y \in admitted' <=> y \in admitted
                                    /\ y \in pool' <=> y \in pool,
             OneHome(x)'
      PROVE  HomeInv' /\ HeapInv'
  <2>1. \A y \in Items \ {x} : OneHome(y)'
    BY <1>0, <1>3, StaysHome DEF WorkInv, HomeInv
  <2>2. HomeInv'
    BY <1>3, <2>1 DEF HomeInv
  <2>3. HeapInv'
    BY <1>0, <1>3 DEF WorkInv, HeapInv, Held, Queued, OnQueue
  <2> QED
    BY <2>2, <2>3
<1>4. CASE PostThunk(x)
  <2>1. ppc[x] = "fresh" /\ UNCHANGED <<cqs, heap>>
    BY <1>4 DEF PostThunk, PostGoto, queueVars, outcome
  <2>2. CASE ppc' = [ppc EXCEPT ![x] = "push"] /\ admitted' = admitted \cup {x} /\ pool' = pool
    <3>1. OneHome(x)'
      BY <1>0, <1>2, <2>1, <2>2 DEF OneHome, Posted, Held, Queued, OnQueue, TypeOK
    <3> QED
      BY <1>1, <1>3, <2>1, <2>2, <3>1 DEF WorkInv
  <2>3. CASE ppc' = [ppc EXCEPT ![x] = "rejected"] /\ UNCHANGED <<admitted, pool>>
    <3>1. OneHome(x)'
      BY <1>0, <1>2, <2>1, <2>3 DEF OneHome, Posted, Held, Queued, OnQueue, TypeOK
    <3> QED
      BY <1>1, <1>3, <2>1, <2>3, <3>1 DEF WorkInv
  <2> QED
    BY <1>4, <2>2, <2>3 DEF PostThunk, PostGoto, TP!Admit, TP!Refuse
<1>5. CASE PostInsert(x)
  <2>1. /\ ppc[x] = "push" /\ ppc' = [ppc EXCEPT ![x] = "accepted"] /\ UNCHANGED <<cqs, heap>>
        /\ x \in admitted /\ admitted' = admitted \ {x} /\ pool' = pool \cup {x}
    BY <1>5 DEF PostInsert, PostGoto, TP!Accept, queueVars
  <2>2. OneHome(x)'
    BY <1>0, <1>2, <2>1 DEF OneHome, Posted, Held, Queued, OnQueue, TypeOK
  <2> QED
    BY <1>1, <1>3, <2>1, <2>2 DEF WorkInv
<1>6. CASE PostCqEnter(x) \/ PostCqCheck(x)
  <2>1. /\ ~Posted(x) /\ ~Posted(x)' /\ ppc'[x] # "push" /\ UNCHANGED <<cqs, heap, admitted, pool>>
    BY <1>6 DEF PostCqEnter, PostCqCheck, PostGoto, Posted, TypeOK, queueVars, poolVars, outcome
  <2>2. OneHome(x)'
    BY <1>0, <1>2, <2>1 DEF OneHome, Held, Queued, OnQueue
  <2> QED
    BY <1>1, <1>3, <2>1, <2>2 DEF WorkInv
<1>7. CASE PostCqLeave(x)
  <2>1. /\ (Posted(x) <=> Posted(x)') /\ ppc[x] # "push" /\ ppc'[x] # "push"
        /\ UNCHANGED <<cqs, heap, admitted, pool>>
    BY <1>7 DEF PostCqLeave, PostGoto, Posted, TypeOK, queueVars, poolVars, outcome
  <2>2. OneHome(x)'
    BY <1>0, <1>2, <2>1 DEF OneHome, Held, Queued, OnQueue
  <2> QED
    BY <1>1, <1>3, <2>1, <2>2 DEF WorkInv
<1>8. CASE PostCqBind(x)
  <2> DEFINE b == next_cq % NCqs
  <2>1. b \in Cqs
    <3>1. next_cq \in Nat
      BY IndexModIsPositive DEF TypeOK
    <3> QED
      BY <3>1, IndexIs
  <2>2. /\ ppc[x] = "bind" /\ ppc' = [ppc EXCEPT ![x] = "leave_posted"]
        /\ cqs' = [cqs EXCEPT ![b] = Start(@, x)] /\ heap' = heap \cup {x}
        /\ UNCHANGED <<admitted, pool>>
    BY <1>8 DEF PostCqBind, PostGoto, poolVars
  <2> HIDE DEF b
  <2>3. /\ cqs'[b].pending = cqs[b].pending \cup {x} /\ cqs'[b].ready = cqs[b].ready
        /\ \A c \in Cqs \ {b} : cqs'[c] = cqs[c]
    BY <2>1, <2>2 DEF Start, TypeOK, QueueType
  <2>4. \A y \in Items \ {x}, c \in Cqs : /\ y \in cqs'[c].pending <=> y \in cqs[c].pending
                                          /\ y \in cqs'[c].ready <=> y \in cqs[c].ready
    BY <2>3
  <2>5. \A y \in Items \ {x} : OneHome(y)' /\ (Held(y)' <=> Held(y)) /\ (Queued(y)' <=> Queued(y))
    BY <1>0, <2>2, <2>4, StaysHome DEF WorkInv, HomeInv
  <2>6. \A c \in Cqs : x \notin cqs[c].pending /\ x \notin cqs[c].ready
    BY <1>2, <2>2 DEF OneHome, Posted, Queued, OnQueue
  <2>7. Queued(x)' /\ \A c \in Cqs : /\ OnQueue(x, c)' <=> c = b
                                     /\ x \notin cqs'[c].ready
    BY <2>1, <2>3, <2>6 DEF Queued, OnQueue
  <2>8. OneHome(x)'
    BY <1>0, <1>2, <2>2, <2>7 DEF OneHome, Posted, Held, TypeOK
  <2>9. HomeInv'
    BY <2>5, <2>8 DEF HomeInv
  <2>10. HeapInv'
    BY <2>2, <2>5, <2>7 DEF WorkInv, HeapInv, Items
  <2> QED
    BY <1>1, <2>9, <2>10 DEF WorkInv
<1> QED
  BY <1>4, <1>5, <1>6, <1>7, <1>8 DEF Post

-----------------------------------------------------------------------------
(* Workers                                                                 *)

\* A step of w that fetches and runs nothing and keeps what it has in hand.
LEMMA IdleWork ==
  ASSUME TypeOK, WorkInv, NEW w \in Workers, NEW l \in WorkerLabels, wpc' = [wpc EXCEPT ![w] = l],
         UNCHANGED <<ppc, admitted, pool, ran, heap, hand, cqs>>,
         l \in {"unborn", "top", "in_stop", "scan", "pop", "eject", "exited"} => hand[w] = {},
         l \in {"run", "drain", "drain_check", "drain_run"} => hand[w] \subseteq Thunks \cup Deadlined,
         l # "complete"
  PROVE  WorkInv'
<1>1. wpc'[w] = l /\ \A v \in Workers \ {w} : wpc'[v] = wpc[v]
  BY DEF TypeOK
<1>2. HandInv'
  BY <1>1 DEF WorkInv, HandInv
<1> QED
  BY <1>2 DEF WorkInv, HomeInv, OneHome, HeapInv, Posted, Held, Queued, OnQueue

LEMMA GetWork ==
  ASSUME TypeOK, WorkInv, NEW w \in Workers, WorkerGetOwn(w) \/ WorkerGetServer(w)
  PROVE  WorkInv'
<1>1. wpc[w] = "scan" /\ wpc' = [wpc EXCEPT ![w] = "complete"]
  BY DEF WorkerGetOwn, WorkerGetServer, WorkerGoto
<1>2. hand[w] = {}
  BY <1>1 DEF WorkInv, HandInv
<1>3. UNCHANGED <<ppc, admitted, pool, ran, heap>>
  BY DEF WorkerGetOwn, WorkerGetServer, poolVars, outcome
<1>4. CASE WorkerGetOwn(w)
  <2> DEFINE b == OwnCq(w)
  <2>1. PICK e \in cqs[b].ready : /\ cqs' = [cqs EXCEPT ![b] = TakeTag(@, e)]
                                  /\ hand' = [hand EXCEPT ![w] = {e}]
    BY <1>4 DEF WorkerGetOwn
  <2>2. b \in Cqs
    BY OwnIs
  <2> HIDE DEF b
  <2>3. e \in Items
    <3>1. cqs[b] \in QueueType(Items)
      BY <2>2 DEF TypeOK
    <3> QED
      BY <2>1, <3>1, QueueTypes
  <2>4. /\ cqs'[b].pending = cqs[b].pending /\ cqs'[b].ready = cqs[b].ready \ {e}
        /\ \A c \in Cqs \ {b} : cqs'[c] = cqs[c]
    BY <2>1, <2>2 DEF TakeTag, TypeOK, QueueType
  <2>5. hand'[w] = {e} /\ \A v \in Workers \ {w} : hand'[v] = hand[v]
    BY <2>1 DEF TypeOK
  <2>6. \A y \in Items \ {e} : /\ \A c \in Cqs : /\ y \in cqs'[c].pending <=> y \in cqs[c].pending
                                                 /\ y \in cqs'[c].ready <=> y \in cqs[c].ready
                               /\ \A v \in Workers : y \in hand'[v] <=> y \in hand[v]
    BY <1>2, <2>4, <2>5
  <2>7. \A y \in Items \ {e} : OneHome(y)' /\ (Held(y)' <=> Held(y)) /\ (Queued(y)' <=> Queued(y))
    BY <1>3, <2>6, StaysHome DEF WorkInv, HomeInv
  <2>8. OneHome(e) /\ OnQueue(e, b)
    BY <2>1, <2>3 DEF WorkInv, HomeInv, OnQueue
  <2>9. /\ Held(e)' /\ ~Queued(e)' /\ \A v \in Workers : e \in hand'[v] <=> v = w
    <3>1. \A v \in Workers : e \in hand'[v] <=> v = w
      BY <2>2, <2>5, <2>8 DEF OneHome, Held, Queued
    <3>2. \A c \in Cqs : ~OnQueue(e, c)'
      BY <2>1, <2>2, <2>4, <2>8 DEF OneHome, OnQueue
    <3> QED
      BY <3>1, <3>2 DEF Held, Queued
  <2>10. OneHome(e)'
    <3>1. Posted(e)' <=> Posted(e)
      BY <1>3 DEF Posted
    <3>2. Queued(e)
      BY <2>2, <2>8 DEF Queued
    <3>3. \A c \in Cqs : ~OnQueue(e, c)'
      BY <2>9 DEF Queued
    <3> QED
      BY <1>3, <2>8, <2>9, <3>1, <3>2, <3>3 DEF OneHome, OnQueue
  <2>11. HomeInv'
    BY <2>7, <2>10 DEF HomeInv
  <2>12. HeapInv'
    BY <1>3, <2>7, <2>9 DEF WorkInv, HeapInv, Items
  <2>13. HandInv'
    BY <1>1, <2>3, <2>5 DEF WorkInv, HandInv, TypeOK, Tags
  <2> QED
    BY <2>11, <2>12, <2>13 DEF WorkInv
<1>5. CASE WorkerGetServer(w)
  <2> DEFINE s == ServerAt(pos[w])
  <2>1. PICK e \in server_cqs[s].ready : hand' = [hand EXCEPT ![w] = {e}]
    BY <1>5 DEF WorkerGetServer
  <2>2. cqs' = cqs
    BY <1>5 DEF WorkerGetServer, queueVars
  <2>3. e \in Servers
    <3>1. s \in Servers
      BY <1>5, NCqsAssumption DEF WorkerGetServer, ServerAt, TotalCqs, TypeOK
    <3>2. server_cqs[s] \in QueueType(Servers)
      BY <3>1 DEF TypeOK
    <3> HIDE DEF s
    <3> QED
      BY <2>1, <3>2, QueueTypes
  <2>4. hand'[w] = {e} /\ \A v \in Workers \ {w} : hand'[v] = hand[v]
    BY <2>1 DEF TypeOK
  <2>5. \A y \in Items, v \in Workers : y \in hand'[v] <=> y \in hand[v]
    BY <1>2, <2>3, <2>4, ItemsAssumption
  <2>6. \A y \in Items : OneHome(y)' /\ (Held(y)' <=> Held(y)) /\ (Queued(y)' <=> Queued(y))
    BY <1>3, <2>2, <2>5, StaysHome DEF WorkInv, HomeInv
  <2>7. HomeInv' /\ HeapInv'
    BY <1>3, <2>6 DEF WorkInv, HomeInv, HeapInv, Items
  <2>8. HandInv'
    BY <1>1, <2>3, <2>4 DEF WorkInv, HandInv, TypeOK, Tags
  <2> QED
    BY <2>7, <2>8 DEF WorkInv
<1> QED
  BY <1>4, <1>5

\* w takes thunks out of the pool.
LEMMA TakeWork ==
  ASSUME TypeOK, WorkInv, NEW w \in Workers, NEW T, T \subseteq pool,
         pool' = pool \ T, hand' = [hand EXCEPT ![w] = hand[w] \cup T],
         \/ wpc' = [wpc EXCEPT ![w] = "run"]
         \/ wpc[w] = "drain" /\ wpc' = [wpc EXCEPT ![w] = "drain_check"],
         hand[w] \subseteq Thunks \cup Deadlined,
         UNCHANGED <<ppc, admitted, ran, heap, cqs>>
  PROVE  WorkInv'
<1>1. T \subseteq Thunks \cup Deadlined
  BY DEF TypeOK, TP!PoolTypeOK
<1>2. hand'[w] = hand[w] \cup T /\ \A v \in Workers \ {w} : hand'[v] = hand[v]
  BY DEF TypeOK
<1>3. \A y \in Items \ T : OneHome(y)' /\ (Held(y)' <=> Held(y)) /\ (Queued(y)' <=> Queued(y))
  BY <1>2, StaysHome DEF WorkInv, HomeInv
<1>4. ASSUME NEW y \in Items, y \in T PROVE OneHome(y)' /\ (Queued(y)' <=> Queued(y))
  <2>1. OneHome(y) /\ y \in pool /\ y \notin pool'
    BY <1>4 DEF WorkInv, HomeInv
  <2>2. Held(y)' /\ \A v \in Workers : y \in hand'[v] <=> v = w
    BY <1>2, <1>4, <2>1 DEF OneHome, Held
  <2>3. /\ Queued(y)' <=> Queued(y)
        /\ Posted(y)' <=> Posted(y)
        /\ \A c \in Cqs : OnQueue(y, c)' <=> OnQueue(y, c)
    BY DEF Queued, OnQueue, Posted
  <2> QED
    BY <2>1, <2>2, <2>3 DEF OneHome
<1>5. HomeInv'
  BY <1>3, <1>4 DEF HomeInv
<1>6. HeapInv'
  BY <1>1, <1>3, ItemsAssumption DEF WorkInv, HeapInv, Items
<1>7. HandInv'
  BY <1>1, <1>2 DEF WorkInv, HandInv, TypeOK
<1> QED
  BY <1>5, <1>6, <1>7 DEF WorkInv

\* w calls back what it has in hand.
LEMMA RunWork ==
  ASSUME TypeOK, WorkInv, NEW w \in Workers, NEW T, T \subseteq hand[w],
         ran' = ran \cup T, hand' = [hand EXCEPT ![w] = hand[w] \ T],
         heap' \subseteq heap, T \cap Rpcs \cap heap' = {},
         \/ T = hand[w] /\ wpc' = [wpc EXCEPT ![w] = "scan"]
         \/ T = hand[w] /\ wpc' = [wpc EXCEPT ![w] = "top"]
         \/ wpc[w] = "drain_run" /\ wpc' = wpc,
         UNCHANGED <<ppc, admitted, pool, cqs>>
  PROVE  WorkInv'
<1>1. hand'[w] = hand[w] \ T /\ \A v \in Workers \ {w} : hand'[v] = hand[v]
  BY DEF TypeOK
<1>2. \A y \in Items \ T : OneHome(y)' /\ (Held(y)' <=> Held(y)) /\ (Queued(y)' <=> Queued(y))
  BY <1>1, StaysHome DEF WorkInv, HomeInv
<1>3. ASSUME NEW y \in Items, y \in T PROVE OneHome(y)'
  <2>1. OneHome(y) /\ Held(y) /\ y \in hand[w]
    BY <1>3 DEF WorkInv, HomeInv, Held
  <2>2. ~Held(y)'
    BY <1>1, <1>3, <2>1 DEF OneHome, Held
  <2>3. /\ Queued(y)' <=> Queued(y)
        /\ Posted(y)' <=> Posted(y)
        /\ \A c \in Cqs : OnQueue(y, c)' <=> OnQueue(y, c)
    BY DEF Queued, OnQueue, Posted
  <2>4. y \in ran' /\ y \notin ran
    BY <1>3, <2>1 DEF OneHome
  <2>5. \A v \in Workers : y \notin hand'[v]
    BY <2>2 DEF Held
  <2> QED
    BY <2>1, <2>2, <2>3, <2>4, <2>5 DEF OneHome
<1>4. HomeInv'
  BY <1>2, <1>3 DEF HomeInv
<1>5. HeapInv'
  BY <1>2 DEF WorkInv, HeapInv, Items
<1>6. HandInv'
  BY <1>1 DEF WorkInv, HandInv, TypeOK
<1> QED
  BY <1>4, <1>5, <1>6 DEF WorkInv

LEMMA WorkerWork ==
  ASSUME TypeOK, WorkInv, NEW w \in Workers, Worker(w)
  PROVE  WorkInv'
<1>0. ppc' = ppc
  BY WorkerKeeps
<1>1. CASE WorkerGetOwn(w) \/ WorkerGetServer(w)
  BY <1>1, GetWork
<1>2. CASE WorkerPop(w)
  <2>1. PICK t \in pool : TP!Take({t}) /\ hand' = [hand EXCEPT ![w] = {t}]
    BY <1>2 DEF WorkerPop
  <2>2. wpc[w] = "pop" /\ wpc' = [wpc EXCEPT ![w] = "run"] /\ UNCHANGED <<ran, heap, cqs>>
    BY <1>2 DEF WorkerPop, WorkerGoto, queueVars, outcome
  <2>3. hand[w] = {}
    BY <2>2 DEF WorkInv, HandInv
  <2>4. pool' = pool \ {t} /\ admitted' = admitted /\ hand' = [hand EXCEPT ![w] = hand[w] \cup {t}]
    BY <2>1, <2>3 DEF TP!Take
  <2> QED
    BY <1>0, <2>2, <2>3, <2>4, TakeWork
<1>3. CASE WorkerDrain(w)
  <2>1. /\ wpc[w] = "drain" /\ wpc' = [wpc EXCEPT ![w] = "drain_check"]
        /\ UNCHANGED <<ran, heap, cqs>>
    BY <1>3 DEF WorkerDrain, WorkerGoto, queueVars, outcome
  <2>2. hand[w] \subseteq Thunks \cup Deadlined
    BY <2>1 DEF WorkInv, HandInv
  <2>3. /\ pool' = pool \ pool /\ admitted' = admitted
        /\ hand' = [hand EXCEPT ![w] = hand[w] \cup pool]
    <3>1. CASE pool = {} /\ UNCHANGED <<poolVars, hand>>
      BY <3>1 DEF poolVars, TypeOK
    <3>2. CASE TP!Take(pool) /\ hand' = [hand EXCEPT ![w] = @ \cup pool]
      BY <3>2 DEF TP!Take
    <3> QED
      BY <1>3, <3>1, <3>2 DEF WorkerDrain
  <2> QED
    BY <1>0, <2>1, <2>2, <2>3, TakeWork
<1>4. CASE WorkerComplete(w)
  <2>1. /\ wpc' = [wpc EXCEPT ![w] = "scan"] /\ UNCHANGED <<admitted, pool, cqs>>
        /\ ran' = ran \cup hand[w] /\ heap' = heap \ (hand[w] \cap (Rpcs \cup Servers))
        /\ hand' = [hand EXCEPT ![w] = hand[w] \ hand[w]]
    BY <1>4 DEF WorkerComplete, WorkerGoto, queueVars, poolVars
  <2>2. heap' \subseteq heap /\ hand[w] \cap Rpcs \cap heap' = {}
    BY <2>1
  <2> QED
    BY <1>0, <2>1, <2>2, RunWork
<1>5. CASE WorkerRun(w)
  <2>1. /\ wpc[w] = "run" /\ wpc' = [wpc EXCEPT ![w] = "top"] /\ UNCHANGED <<admitted, pool, cqs>>
        /\ ran' = ran \cup hand[w] /\ heap' = heap
        /\ hand' = [hand EXCEPT ![w] = hand[w] \ hand[w]]
    BY <1>5 DEF WorkerRun, WorkerGoto, queueVars, poolVars
  <2>2. hand[w] \cap Rpcs \cap heap' = {}
    BY <2>1, ItemsAssumption DEF WorkInv, HandInv
  <2> QED
    BY <1>0, <2>1, <2>2, RunWork
<1>6. CASE WorkerDrainRun(w)
  <2>1. wpc[w] = "drain_run" /\ UNCHANGED <<admitted, pool, cqs, heap>>
    BY <1>6 DEF WorkerDrainRun, WorkerGoto, queueVars, poolVars
  <2>2. CASE hand[w] = {} /\ wpc' = [wpc EXCEPT ![w] = "exited"] /\ UNCHANGED <<ran, hand>>
    BY <1>0, <2>1, <2>2, IdleWork DEF WorkerLabels
  <2>3. ASSUME NEW t \in hand[w], wpc' = [wpc EXCEPT ![w] = "drain_run"], ran' = ran \cup {t},
               hand' = [hand EXCEPT ![w] = @ \ {t}]
        PROVE  WorkInv'
    <3>1. wpc' = wpc
      BY <2>1, <2>3 DEF TypeOK
    <3>2. hand' = [hand EXCEPT ![w] = hand[w] \ {t}] /\ {t} \subseteq hand[w]
      BY <2>3
    <3>3. {t} \cap Rpcs \cap heap' = {}
      BY <2>1, ItemsAssumption DEF WorkInv, HandInv
    <3> QED
      BY <1>0, <2>1, <2>3, <3>1, <3>2, <3>3, RunWork
  <2> QED
    BY <1>6, <2>2, <2>3 DEF WorkerDrainRun, WorkerGoto
<1>7. CASE \/ WorkerTop(w) \/ WorkerPredicate(w) \/ WorkerAfterStop(w) \/ WorkerGetNone(w)
           \/ WorkerEndPass(w) \/ WorkerPopNothing(w) \/ WorkerEject(w) \/ WorkerDrainCheck(w)
  <2>1. UNCHANGED <<admitted, pool, ran, heap, hand, cqs>>
    BY <1>7 DEF WorkerTop, WorkerPredicate, WorkerAfterStop, WorkerGetNone, WorkerEndPass,
                WorkerPopNothing, WorkerEject, WorkerDrainCheck, TP!SignalDone, queueVars, poolVars,
                outcome
  <2>2. \/ /\ wpc[w] \in {"top", "in_stop", "scan", "pop"}
           /\ \E l \in {"in_stop", "scan", "top", "pop", "eject"} : wpc' = [wpc EXCEPT ![w] = l]
        \/ wpc[w] = "eject" /\ wpc' = [wpc EXCEPT ![w] = "drain"]
        \/ /\ wpc[w] = "drain_check"
           /\ \E l \in {"drain", "drain_run"} : wpc' = [wpc EXCEPT ![w] = l]
    BY <1>7 DEF WorkerTop, WorkerPredicate, WorkerAfterStop, WorkerGetNone, WorkerEndPass,
                WorkerPopNothing, WorkerEject, WorkerDrainCheck, WorkerGoto
  <2>3. /\ wpc[w] \in {"top", "in_stop", "scan", "pop", "eject"} => hand[w] = {}
        /\ wpc[w] = "drain_check" => hand[w] \subseteq Thunks \cup Deadlined
    BY DEF WorkInv, HandInv
  <2>4. CASE wpc[w] \in {"top", "in_stop", "scan", "pop", "eject"}
    <3>1. PICK l \in {"in_stop", "scan", "top", "pop", "eject", "drain"} : wpc' = [wpc EXCEPT ![w] = l]
      BY <2>2, <2>4
    <3> QED
      BY <1>0, <2>1, <2>3, <2>4, <3>1, IdleWork DEF WorkerLabels
  <2>5. CASE wpc[w] = "drain_check"
    <3>1. PICK l \in {"drain", "drain_run"} : wpc' = [wpc EXCEPT ![w] = l]
      BY <2>2, <2>5
    <3> QED
      BY <1>0, <2>1, <2>3, <2>5, <3>1, IdleWork DEF WorkerLabels
  <2> QED
    BY <2>2, <2>4, <2>5
<1> QED
  BY <1>1, <1>2, <1>3, <1>4, <1>5, <1>6, <1>7 DEF Worker

-----------------------------------------------------------------------------
(* The other steps                                                         *)

LEMMA FireWork ==
  ASSUME TypeOK, WorkInv, NEW x \in Items, FireEvent(x)
  PROVE  WorkInv'
<1>1. PICK b \in Cqs : x \in cqs[b].pending /\ cqs' = [cqs EXCEPT ![b] = Fire(@, x)]
  BY DEF FireEvent
<1>2. UNCHANGED <<ppc, admitted, pool, ran, heap, hand, wpc>>
  BY DEF FireEvent, poolVars, workerVars, outcome
<1>3. /\ cqs'[b].pending = cqs[b].pending \ {x} /\ cqs'[b].ready = cqs[b].ready \cup {x}
      /\ \A c \in Cqs \ {b} : cqs'[c] = cqs[c]
  BY <1>1 DEF Fire, TypeOK, QueueType
<1>4. \A y \in Items \ {x}, c \in Cqs : /\ y \in cqs'[c].pending <=> y \in cqs[c].pending
                                        /\ y \in cqs'[c].ready <=> y \in cqs[c].ready
  BY <1>3
<1>5. \A y \in Items \ {x} : OneHome(y)' /\ (Held(y)' <=> Held(y)) /\ (Queued(y)' <=> Queued(y))
  BY <1>2, <1>4, StaysHome DEF WorkInv, HomeInv
<1>6. OneHome(x)
  BY DEF WorkInv, HomeInv
<1>7. \A c \in Cqs : OnQueue(x, c)' <=> OnQueue(x, c)
  BY <1>1, <1>3 DEF OnQueue
<1>8. \A c \in Cqs : x \in cqs'[c].pending => x \notin cqs'[c].ready
  BY <1>1, <1>3, <1>6 DEF OneHome
<1>9. (Queued(x)' <=> Queued(x)) /\ (Held(x)' <=> Held(x)) /\ (Posted(x)' <=> Posted(x))
  BY <1>2, <1>7 DEF Queued, Held, Posted
<1>10. OneHome(x)'
  BY <1>2, <1>6, <1>7, <1>8, <1>9 DEF OneHome
<1>11. HomeInv' /\ HeapInv'
  BY <1>2, <1>5, <1>9, <1>10 DEF WorkInv, HomeInv, HeapInv, Items
<1> QED
  BY <1>2, <1>11 DEF WorkInv, HandInv

LEMMA StepWork == IInv /\ WorkInv /\ [Next]_vars => WorkInv'
<1> SUFFICES ASSUME TypeOK, SpawnInv, WorkInv, [Next]_vars PROVE WorkInv'
  BY DEF IInv
<1>1. ASSUME NEW r \in Runners, RunBegin(r) \/ RunSpawn(r) PROVE WorkInv'
  <2>1. UNCHANGED <<ppc, admitted, pool, ran, heap, hand, cqs>>
    BY <1>1, RunKeeps DEF queueVars, poolVars, outcome
  <2>2. CASE RunBegin(r)
    BY <2>1, <2>2, HomeUnchanged DEF RunBegin, workerVars
  <2>3. CASE RunSpawn(r)
    <3>1. PICK k \in Workers : wpc' = [wpc EXCEPT ![k] = "top"] /\ wpc[k] = "unborn"
      BY <2>3, SpawnIs
    <3>2. hand[k] = {}
      BY <3>1 DEF WorkInv, HandInv
    <3> QED
      BY <2>1, <3>1, <3>2, IdleWork DEF WorkerLabels
  <2> QED
    BY <1>1, <2>2, <2>3
<1>2. ASSUME NEW c \in Callers, StopBegin(c) \/ StopStep(c) PROVE WorkInv'
  <2>1. UNCHANGED <<ppc, admitted, pool, ran, heap, hand, wpc>>
    BY <1>2, StopKeeps DEF poolVars, workerVars
  <2>2. \A d \in Cqs : cqs'[d].pending = cqs[d].pending /\ cqs'[d].ready = cqs[d].ready
    <3>1. CASE StopShutdown(c)
      <4>1. cqs' = cqs \/ cqs' = [cqs EXCEPT ![at] = ShutDown(@)]
        BY <3>1 DEF StopShutdown
      <4>2. cqs \in [Cqs -> QueueType(Items)]
        BY DEF TypeOK
      <4> QED
        BY <4>1, <4>2 DEF ShutDown, QueueType
    <3>2. CASE ~StopShutdown(c)
      BY <1>2, <3>2 DEF StopBegin, StopStep, StopWait, StopJoin, StopClear, StopLock, StopSwap,
                        StopNotify, queueVars
    <3> QED
      BY <3>1, <3>2
  <2> QED
    BY <2>1, <2>2 DEF WorkInv, HomeInv, OneHome, HandInv, HeapInv, Posted, Held, Queued, OnQueue
<1>3. ASSUME NEW s \in Servers, ServerInit(s) PROVE WorkInv'
  <2>1. UNCHANGED <<ppc, admitted, pool, ran, hand, wpc, cqs>> /\ heap' = heap \cup {s}
    BY <1>3 DEF ServerInit, queueVars, poolVars, workerVars
  <2>2. \A x \in Items : x \in heap' <=> x \in heap
    BY <2>1, ItemsAssumption
  <2>3. \A y \in Items : OneHome(y)' /\ (Held(y)' <=> Held(y)) /\ (Queued(y)' <=> Queued(y))
    BY <2>1, <2>2, StaysHome DEF WorkInv, HomeInv
  <2> QED
    BY <2>1, <2>2, <2>3 DEF WorkInv, HomeInv, HeapInv, HandInv, Items
<1>4. CASE \/ \E n \in Notes : NoteLock(n) \/ NotePush(n)
           \/ \E s \in Servers : FireServer(s) \/ AttachLock(s) \/ AttachPush(s)
           \/ UNCHANGED vars
  <2>1. UNCHANGED <<ppc, admitted, pool, ran, heap, hand, cqs, wpc>>
    BY <1>4 DEF NoteLock, NotePush, FireServer, AttachLock, AttachPush, vars, queueVars, poolVars,
                workerVars, outcome
  <2> QED
    BY <2>1, HomeUnchanged
<1> QED
  BY <1>1, <1>2, <1>3, <1>4, PostWork, WorkerWork, FireWork DEF Next

LEMMA WorkInductive == Spec => []WorkInv
BY InitWork, StepWork, Inductive, PTL DEF Spec

\* A post that returned false has left nothing behind that could call back.
THEOREM RejectedNeverRun == Spec => []RejectedNeverRuns
<1>1. WorkInv => RejectedNeverRuns
  BY DEF WorkInv, HomeInv, OneHome, Posted, Held, RejectedNeverRuns
<1> QED
  BY <1>1, WorkInductive, PTL

\* A callback is in one place from the moment post has handed it over until
\* it was called: it is called at most once, and never lost.
THEOREM WorkHasAHome == Spec => []WorkHasOneHome
<1>1. ASSUME WorkInv, NEW x \in Items, ppc[x] \in {"push", "leave_posted", "accepted"}
      PROVE  In(x, admitted) + In(x, pool) + In(x, ran)
               + Cardinality({w \in Workers : x \in hand[w]})
               + Cardinality({c \in Cqs : x \in cqs[c].pending})
               + Cardinality({c \in Cqs : x \in cqs[c].ready}) = 1
  <2>1. OneHome(x) /\ Posted(x)
    BY <1>1 DEF WorkInv, HomeInv, Posted
  <2> DEFINE H == {w \in Workers : x \in hand[w]}
             P == {c \in Cqs : x \in cqs[c].pending}
             R == {c \in Cqs : x \in cqs[c].ready}
  <2>2. \A S : (S = {} => Cardinality(S) = 0) /\ ((\E e : S = {e}) => Cardinality(S) = 1)
    BY FS_EmptySet, FS_Singleton
  <2>3. CASE Held(x)
    <3>0. PICK w \in Workers : x \in hand[w]
      BY <2>3 DEF Held
    <3>1. H = {w} /\ P = {} /\ R = {} /\ x \notin admitted /\ x \notin pool /\ x \notin ran
      BY <2>1, <2>3, <3>0 DEF OneHome, Queued, OnQueue
    <3> HIDE DEF H, P, R
    <3>2. Cardinality(H) = 1 /\ Cardinality(P) = 0 /\ Cardinality(R) = 0
      BY <2>2, <3>1
    <3> QED
      BY <3>1, <3>2 DEF In, H, P, R
  <2>4. CASE ~Held(x) /\ Queued(x)
    <3>1. PICK c \in Cqs : OnQueue(x, c)
      BY <2>4 DEF Queued
    <3>2. \/ H = {} /\ P = {c} /\ R = {}
          \/ H = {} /\ P = {} /\ R = {c}
      BY <2>1, <2>4, <3>1 DEF OneHome, Held, Queued, OnQueue
    <3>3. x \notin admitted /\ x \notin pool /\ x \notin ran
      BY <2>1, <2>4 DEF OneHome
    <3> HIDE DEF H, P, R
    <3>4. Cardinality(H) = 0 /\ Cardinality(P) + Cardinality(R) = 1
      BY <2>2, <3>2
    <3>5. Cardinality(P) \in Nat /\ Cardinality(R) \in Nat
      BY <2>2, <3>2
    <3> QED
      BY <3>3, <3>4, <3>5 DEF In, H, P, R
  <2>5. CASE ~Held(x) /\ ~Queued(x)
    <3>1. H = {} /\ P = {} /\ R = {}
      BY <2>5 DEF Held, Queued, OnQueue
    <3>2. \/ x \in admitted /\ x \notin pool /\ x \notin ran
          \/ x \notin admitted /\ x \in pool /\ x \notin ran
          \/ x \notin admitted /\ x \notin pool /\ x \in ran
      BY <2>1, <2>5 DEF OneHome
    <3> HIDE DEF H, P, R
    <3>3. Cardinality(H) = 0 /\ Cardinality(P) = 0 /\ Cardinality(R) = 0
      BY <2>2, <3>1
    <3> QED
      BY <3>2, <3>3 DEF In, H, P, R
  <2> QED
    BY <2>3, <2>4, <2>5
<1>2. WorkInv => WorkHasOneHome
  BY <1>1 DEF WorkHasOneHome
<1> QED
  BY <1>2, WorkInductive, PTL

-----------------------------------------------------------------------------
(* Queues that are shut down                                               *)

\* A pass visits each of the context's queues.
LEMMA DivisionIs ==
  ASSUME NEW N \in Int, N > 0, NEW a \in Int
  PROVE  a \div N \in Int /\ a % N \in 0 .. N-1 /\ a % N = a - N * (a \div N)
OBVIOUS

LEMMA RemainderIs ==
  ASSUME NEW N \in Int, N > 0, NEW q \in Int, NEW r \in 0 .. N-1
  PROVE  (N * q + r) % N = r
OBVIOUS

LEMMA PassCovers ==
  ASSUME NEW w \in Workers, NEW c \in Cqs
  PROVE  \E k \in 0 .. NCqs-1 : (w + k) % NCqs = c
<1> DEFINE q == w \div NCqs
           m == w % NCqs
<1>1. w \in Int /\ c \in Int /\ NCqs \in Int /\ NCqs > 0 /\ c \in 0 .. NCqs-1
  BY NThreadsAssumption, NCqsAssumption DEF Workers, Cqs
<1>2. q \in Int /\ m \in 0 .. NCqs-1 /\ m = w - NCqs * q
  BY <1>1, DivisionIs
<1> HIDE DEF q, m
<1>3. NCqs * q \in Int /\ NCqs * (q + 1) = NCqs * q + NCqs
  BY <1>1, <1>2
<1>4. CASE c >= m
  <2>1. c - m \in 0 .. NCqs-1 /\ w + (c - m) = NCqs * q + c
    BY <1>1, <1>2, <1>3, <1>4
  <2>2. (NCqs * q + c) % NCqs = c
    BY <1>1, <1>2, RemainderIs
  <2> QED
    BY <2>1, <2>2
<1>5. CASE c < m
  <2>1. c - m + NCqs \in 0 .. NCqs-1 /\ w + (c - m + NCqs) = NCqs * (q + 1) + c
    BY <1>1, <1>2, <1>3, <1>5
  <2>2. (NCqs * (q + 1) + c) % NCqs = c
    BY <1>1, <1>2, RemainderIs
  <2> QED
    BY <2>1, <2>2
<1> QED
  BY <1>1, <1>2, <1>4, <1>5

\* A server whose queue is used by the context is attached.
ServerInv ==
  /\ \A k \in DOMAIN servers : servers[k] \in Servers /\ apc[servers[k]] = "attached"
  /\ \A s \in Servers : server_cqs[s].shutdown => apc[s] = "attached"

LEMMA StepServer == IInv /\ ServerInv /\ [Next]_vars => ServerInv'
<1> SUFFICES ASSUME TypeOK, ServerInv, [Next]_vars PROVE ServerInv'
  BY DEF IInv
<1>1. ASSUME NEW s \in Servers, AttachPush(s) PROVE ServerInv'
  <2>1. server_cqs' = server_cqs /\ \A t \in Servers : apc[t] = "attached" => apc'[t] = "attached"
    BY <1>1 DEF AttachPush, AttachGoto, TypeOK
  <2>2. \/ servers' = servers
        \/ servers' = Append(servers, s) /\ apc'[s] = "attached"
    BY <1>1 DEF AttachPush, AttachGoto, TypeOK
  <2>3. \A k \in DOMAIN servers' : servers'[k] \in Servers /\ apc'[servers'[k]] = "attached"
    <3>1. CASE servers' = servers
      BY <2>1, <3>1 DEF ServerInv
    <3>2. CASE servers' = Append(servers, s) /\ apc'[s] = "attached"
      <4>1. /\ servers \in Seq(Servers) /\ DOMAIN servers' = 1 .. Len(servers)+1
            /\ servers'[Len(servers)+1] = s
            /\ \A k \in 1 .. Len(servers) : servers'[k] = servers[k] /\ k \in DOMAIN servers
        BY <3>2 DEF TypeOK
      <4>2. \A k \in DOMAIN servers' : k \in 1 .. Len(servers) \/ k = Len(servers)+1
        BY <4>1
      <4> QED
        BY <2>1, <3>2, <4>1, <4>2 DEF ServerInv
    <3> QED
      BY <2>2, <3>1, <3>2
  <2> QED
    BY <2>1, <2>3 DEF ServerInv
<1>2. ASSUME NEW s \in Servers, ServerInit(s) \/ FireServer(s) \/ AttachLock(s) PROVE ServerInv'
  <2>1. servers' = servers
    BY <1>2 DEF ServerInit, FireServer, AttachLock, control
  <2>2. \A t \in Servers : /\ apc[t] = "attached" => apc'[t] = "attached"
                           /\ server_cqs'[t].shutdown = server_cqs[t].shutdown
    <3>1. server_cqs \in [Servers -> QueueType(Servers)] /\ apc \in [Servers -> AttachLabels]
      BY DEF TypeOK
    <3>2. \A t \in Servers : apc[t] = "attached" => apc'[t] = "attached"
      BY <1>2, <3>1 DEF ServerInit, FireServer, AttachLock, AttachGoto
    <3>3. \/ server_cqs' = server_cqs
          \/ server_cqs' = [server_cqs EXCEPT ![s] = Start(@, s)]
          \/ server_cqs' = [server_cqs EXCEPT ![s] = Fire(@, s)]
      BY <1>2 DEF ServerInit, FireServer, AttachLock
    <3>4. \A t \in Servers : server_cqs'[t].shutdown = server_cqs[t].shutdown
      <4>1. \A cq \in QueueType(Servers) : /\ Start(cq, s).shutdown = cq.shutdown
                                           /\ Fire(cq, s).shutdown = cq.shutdown
        BY DEF Start, Fire, QueueType
      <4> QED
        BY <3>1, <3>3, <4>1
    <3> QED
      BY <3>2, <3>4
  <2> QED
    BY <2>1, <2>2 DEF ServerInv
<1>3. ASSUME NEW w \in Workers, Worker(w) PROVE ServerInv'
  <2>1. \A t \in Servers : server_cqs'[t].shutdown = server_cqs[t].shutdown
    <3>1. CASE WorkerGetServer(w)
      <4>1. PICK e : server_cqs' = [server_cqs EXCEPT ![ServerAt(pos[w])] = TakeTag(@, e)]
        BY <3>1 DEF WorkerGetServer
      <4>2. server_cqs \in [Servers -> QueueType(Servers)]
        BY DEF TypeOK
      <4> QED
        BY <4>1, <4>2 DEF TakeTag, QueueType
    <3>2. CASE server_cqs' = server_cqs
      BY <3>2
    <3> QED
      BY <1>3, <3>1, <3>2
      DEF Worker, WorkerTop, WorkerPredicate, WorkerAfterStop, WorkerGetOwn, WorkerGetNone,
          WorkerComplete, WorkerEndPass, WorkerPop, WorkerPopNothing, WorkerRun, WorkerEject,
          WorkerDrain, WorkerDrainCheck, WorkerDrainRun
  <2> QED
    BY <1>3, <2>1, WorkerKeeps DEF ServerInv, control
<1>4. ASSUME NEW c \in Callers, StopBegin(c) \/ StopStep(c) PROVE ServerInv'
  <2>1. servers' = servers /\ apc' = apc
    BY <1>4, StopKeeps
  <2>2. CASE server_cqs' = server_cqs
    BY <2>1, <2>2 DEF ServerInv
  <2>3. CASE StopShutdown(c) /\ server_cqs' # server_cqs
    <3>1. /\ NCqs <= at /\ at + 1 <= TotalCqs
          /\ server_cqs' = [server_cqs EXCEPT ![ServerAt(at)] = ShutDown(@)]
      BY <2>3, NCqsAssumption DEF StopShutdown, StopGoto, TypeOK, TotalCqs
    <3>2. apc[ServerAt(at)] = "attached"
      <4>1. at - NCqs + 1 \in DOMAIN servers
        BY <3>1, NCqsAssumption DEF TypeOK, TotalCqs
      <4> QED
        BY <4>1 DEF ServerInv, ServerAt
    <3>3. server_cqs \in [Servers -> QueueType(Servers)]
      BY DEF TypeOK
    <3>4. \A t \in Servers : server_cqs'[t].shutdown => server_cqs[t].shutdown \/ t = ServerAt(at)
      BY <3>1, <3>3
    <3> QED
      BY <2>1, <3>2, <3>4 DEF ServerInv
  <2> QED
    BY <1>4, <2>2, <2>3 DEF StopBegin, StopStep, StopWait, StopJoin, StopClear, StopLock, StopSwap,
                            StopNotify
<1>5. CASE \/ \E x \in Items : Post(x) \/ FireEvent(x)
           \/ \E r \in Runners : RunBegin(r) \/ RunSpawn(r)
           \/ \E n \in Notes : NoteLock(n) \/ NotePush(n)
           \/ UNCHANGED vars
  <2>1. UNCHANGED <<servers, server_cqs, apc>>
    BY <1>5, PostKeeps, RunKeeps DEF FireEvent, NoteLock, NotePush, vars, control
  <2> QED
    BY <2>1 DEF ServerInv
<1> QED
  BY <1>1, <1>2, <1>3, <1>4, <1>5 DEF Next

LEMMA ServersKnown == Spec => []ServerInv
<1>1. Init => ServerInv
  BY DEF Init, ServerInv, NewQueue
<1> QED
  BY <1>1, StepServer, Inductive, PTL DEF Spec

LEMMA CqsSteps ==
  ASSUME [Next]_vars
  PROVE  \/ cqs' = cqs
         \/ \E x \in Items : PostCqBind(x) \/ FireEvent(x)
         \/ \E w \in Workers : WorkerGetOwn(w)
         \/ \E c \in Callers : StopShutdown(c)
<1>1. ASSUME NEW x \in Items, Post(x), ~PostCqBind(x) PROVE cqs' = cqs
  BY <1>1 DEF Post, PostThunk, PostInsert, PostCqEnter, PostCqCheck, PostCqLeave, queueVars
<1>2. ASSUME NEW w \in Workers, Worker(w), ~WorkerGetOwn(w) PROVE cqs' = cqs
  BY <1>2
  DEF Worker, WorkerTop, WorkerPredicate, WorkerAfterStop, WorkerGetServer, WorkerGetNone,
      WorkerComplete, WorkerEndPass, WorkerPop, WorkerPopNothing, WorkerRun, WorkerEject,
      WorkerDrain, WorkerDrainCheck, WorkerDrainRun, queueVars
<1>3. ASSUME NEW c \in Callers, StopBegin(c) \/ StopStep(c), ~StopShutdown(c) PROVE cqs' = cqs
  BY <1>3 DEF StopBegin, StopStep, StopWait, StopJoin, StopClear, StopLock, StopSwap, StopNotify,
              queueVars
<1> QED
  BY <1>1, <1>2, <1>3, RunKeeps
  DEF Next, NoteLock, NotePush, ServerInit, FireServer, AttachLock, AttachPush, vars, queueVars

LEMMA ServerCqsSteps ==
  ASSUME [Next]_vars
  PROVE  \/ server_cqs' = server_cqs
         \/ \E s \in Servers : ServerInit(s) \/ FireServer(s)
         \/ \E w \in Workers : WorkerGetServer(w)
         \/ \E c \in Callers : StopShutdown(c)
<1>1. ASSUME NEW w \in Workers, Worker(w), ~WorkerGetServer(w) PROVE server_cqs' = server_cqs
  BY <1>1
  DEF Worker, WorkerTop, WorkerPredicate, WorkerAfterStop, WorkerGetOwn, WorkerGetNone,
      WorkerComplete, WorkerEndPass, WorkerPop, WorkerPopNothing, WorkerRun, WorkerEject,
      WorkerDrain, WorkerDrainCheck, WorkerDrainRun
<1>2. ASSUME NEW c \in Callers, StopBegin(c) \/ StopStep(c), ~StopShutdown(c)
      PROVE  server_cqs' = server_cqs
  BY <1>2 DEF StopBegin, StopStep, StopWait, StopJoin, StopClear, StopLock, StopSwap, StopNotify
<1> QED
  BY <1>1, <1>2, PostKeeps, RunKeeps
  DEF Next, FireEvent, NoteLock, NotePush, AttachLock, AttachPush, vars

\* A queue that is drained stays so: no post is about to start something on
\* it, and the server of an attached queue does not begin to listen again.
LEMMA DrainStays ==
  ASSUME TypeOK, HandshakeInv, ServerInv, [Next]_vars
  PROVE  /\ \A c \in Cqs : IsDrained(cqs[c]) => IsDrained(cqs'[c])
         /\ \A s \in Servers : IsDrained(server_cqs[s]) => IsDrained(server_cqs'[s])
<1>0. cqs \in [Cqs -> QueueType(Items)] /\ server_cqs \in [Servers -> QueueType(Servers)]
  BY DEF TypeOK
<1>1. \A c \in Cqs : IsDrained(cqs[c]) => IsDrained(cqs'[c])
  <2>1. ASSUME NEW x \in Items, PostCqBind(x), NEW c \in Cqs, IsDrained(cqs[c]) PROVE FALSE
    <3>1. x \in Binding
      BY <2>1 DEF PostCqBind, PostGoto, Binding
    <3> QED
      BY <2>1, <3>1 DEF HandshakeInv, IsDrained, Ready, Running, ShuttingDown, Stopped
  <2>2. ASSUME NEW x \in Items, FireEvent(x), NEW c \in Cqs, IsDrained(cqs[c])
        PROVE  IsDrained(cqs'[c])
    <3>1. PICK d \in Cqs : x \in cqs[d].pending /\ cqs' = [cqs EXCEPT ![d] = Fire(@, x)]
      BY <2>2 DEF FireEvent
    <3> QED
      BY <1>0, <2>2, <3>1 DEF IsDrained
  <2>3. ASSUME NEW w \in Workers, WorkerGetOwn(w), NEW c \in Cqs, IsDrained(cqs[c])
        PROVE  IsDrained(cqs'[c])
    <3>1. PICK e \in cqs[OwnCq(w)].ready : cqs' = [cqs EXCEPT ![OwnCq(w)] = TakeTag(@, e)]
      BY <2>3 DEF WorkerGetOwn
    <3> QED
      BY <1>0, <2>3, <3>1 DEF IsDrained
  <2>4. ASSUME NEW u \in Callers, StopShutdown(u), NEW c \in Cqs, IsDrained(cqs[c])
        PROVE  IsDrained(cqs'[c])
    <3>1. cqs' = cqs \/ cqs' = [cqs EXCEPT ![at] = ShutDown(@)]
      BY <2>4 DEF StopShutdown
    <3> QED
      BY <1>0, <2>4, <3>1 DEF IsDrained, ShutDown, QueueType
  <2> QED
    BY <2>1, <2>2, <2>3, <2>4, CqsSteps
<1>2. \A s \in Servers : IsDrained(server_cqs[s]) => IsDrained(server_cqs'[s])
  <2>1. ASSUME NEW t \in Servers, ServerInit(t) \/ FireServer(t),
               NEW s \in Servers, IsDrained(server_cqs[s])
        PROVE  IsDrained(server_cqs'[s])
    <3>1. t # s
      BY <2>1 DEF ServerInit, FireServer, AttachGoto, ServerInv, IsDrained
    <3> QED
      BY <1>0, <2>1, <3>1 DEF ServerInit, FireServer
  <2>2. ASSUME NEW w \in Workers, WorkerGetServer(w), NEW s \in Servers, IsDrained(server_cqs[s])
        PROVE  IsDrained(server_cqs'[s])
    <3> DEFINE t == ServerAt(pos[w])
    <3>1. PICK e \in server_cqs[t].ready : server_cqs' = [server_cqs EXCEPT ![t] = TakeTag(@, e)]
      BY <2>2 DEF WorkerGetServer
    <3> HIDE DEF t
    <3> QED
      BY <1>0, <2>2, <3>1 DEF IsDrained
  <2>3. ASSUME NEW u \in Callers, StopShutdown(u), NEW s \in Servers, IsDrained(server_cqs[s])
        PROVE  IsDrained(server_cqs'[s])
    <3>1. server_cqs' = server_cqs \/ server_cqs' = [server_cqs EXCEPT ![ServerAt(at)] = ShutDown(@)]
      BY <2>3 DEF StopShutdown
    <3> QED
      BY <1>0, <2>3, <3>1 DEF IsDrained, ShutDown, QueueType
  <2> QED
    BY <2>1, <2>2, <2>3, ServerCqsSteps
<1> QED
  BY <1>1, <1>2

-----------------------------------------------------------------------------
(* A worker leaves the loop when everything is drained                     *)

QueueAt(w, k) == IF k < NCqs THEN cqs[(w + k) % NCqs] ELSE server_cqs[ServerAt(k)]

AllDrained ==
  /\ \A c \in Cqs : IsDrained(cqs[c])
  /\ \A k \in DOMAIN servers : IsDrained(server_cqs[servers[k]])

\* The queues that a pass has behind it; shutdown_cq_count is their number
\* only if each of them was drained.
Seen(w) ==
  /\ shut[w] <= pos[w] /\ pos[w] <= TotalCqs
  /\ shut[w] = pos[w] => \A k \in 0 .. pos[w]-1 : IsDrained(QueueAt(w, k))

Leaving == {"eject", "drain", "drain_check", "drain_run", "exited"}

PassInv ==
  \A w \in Workers :
    /\ wpc[w] \in {"scan", "complete"} => Seen(w)
    /\ wpc[w] \notin {"scan", "complete"} => pos[w] = 0 /\ shut[w] = 0
    /\ wpc[w] \in Leaving => AllDrained

LEMMA TotalIs ==
  ASSUME TypeOK
  PROVE  /\ NCqs \in Nat \ {0} /\ Len(servers) \in Nat /\ TotalCqs \in Nat /\ NCqs <= TotalCqs
         /\ \A k \in NCqs .. TotalCqs-1 : k - NCqs + 1 \in DOMAIN servers /\ ServerAt(k) \in Servers
BY NCqsAssumption DEF TypeOK, TotalCqs, ServerAt

LEMMA PassStays ==
  ASSUME TypeOK, HandshakeInv, ServerInv, [Next]_vars, servers' = servers, NEW w \in Workers
  PROVE  /\ \A k \in 0 .. TotalCqs-1 : IsDrained(QueueAt(w, k)) => IsDrained(QueueAt(w, k)')
         /\ AllDrained => AllDrained'
         /\ TotalCqs' = TotalCqs
         /\ Seen(w) /\ pos'[w] = pos[w] /\ shut'[w] = shut[w] => Seen(w)'
<1>1. TotalCqs' = TotalCqs /\ \A k : ServerAt(k)' = ServerAt(k)
  BY DEF TotalCqs, ServerAt
<1>2. ASSUME NEW k \in 0 .. TotalCqs-1, IsDrained(QueueAt(w, k)) PROVE IsDrained(QueueAt(w, k)')
  <2>1. CASE k < NCqs
    <3>1. (w + k) % NCqs \in Cqs
      <4>1. w + k \in Nat
        BY NThreadsAssumption DEF Workers
      <4> QED
        BY <4>1, IndexIs
    <3> QED
      BY <1>2, <2>1, <3>1, DrainStays DEF QueueAt
  <2>2. CASE ~(k < NCqs)
    <3>1. ServerAt(k) \in Servers
      BY <2>2, TotalIs
    <3> QED
      BY <1>1, <1>2, <2>2, <3>1, DrainStays DEF QueueAt
  <2> QED
    BY <2>1, <2>2
<1>3. AllDrained => AllDrained'
  BY DrainStays DEF AllDrained, ServerInv
<1>4. ASSUME Seen(w), pos'[w] = pos[w], shut'[w] = shut[w] PROVE Seen(w)'
  <2>1. pos[w] \in Nat /\ shut[w] \in Nat
    BY DEF TypeOK
  <2>2. shut[w] = pos[w] => \A k \in 0 .. pos[w]-1 : IsDrained(QueueAt(w, k)')
    BY <1>2, <1>4, <2>1, TotalIs DEF Seen
  <2> QED
    BY <1>1, <1>4, <2>2 DEF Seen
<1> QED
  BY <1>1, <1>2, <1>3, <1>4

\* A pass that has counted every queue has found every queue drained.
LEMMA PassEnds ==
  ASSUME TypeOK, NEW w \in Workers, Seen(w), pos[w] = TotalCqs, shut[w] = TotalCqs
  PROVE  AllDrained
<1>1. \A k \in 0 .. TotalCqs-1 : IsDrained(QueueAt(w, k))
  BY DEF Seen
<1>2. ASSUME NEW c \in Cqs PROVE IsDrained(cqs[c])
  <2>1. PICK k \in 0 .. NCqs-1 : (w + k) % NCqs = c
    BY PassCovers
  <2>2. k \in 0 .. TotalCqs-1 /\ k < NCqs
    BY TotalIs
  <2> QED
    BY <1>1, <2>1, <2>2 DEF QueueAt
<1>3. ASSUME NEW k \in DOMAIN servers PROVE IsDrained(server_cqs[servers[k]])
  <2> DEFINE j == k + NCqs - 1
  <2>1. /\ j \in 0 .. TotalCqs-1 /\ ~(j < NCqs) /\ j - NCqs + 1 = k
    BY TotalIs DEF TypeOK, TotalCqs
  <2> HIDE DEF j
  <2> QED
    BY <1>1, <2>1 DEF QueueAt, ServerAt
<1> QED
  BY <1>2, <1>3 DEF AllDrained

LEMMA WorkerPass ==
  ASSUME TypeOK, HandshakeInv, ServerInv, PassInv, NEW w \in Workers, Worker(w), [Next]_vars
  PROVE  /\ \A v \in Workers \ {w} : wpc'[v] = wpc[v] /\ pos'[v] = pos[v] /\ shut'[v] = shut[v]
         /\ wpc'[w] \in {"scan", "complete"} => Seen(w)'
         /\ wpc'[w] \notin {"scan", "complete"} => pos'[w] = 0 /\ shut'[w] = 0
         /\ wpc'[w] \in Leaving => AllDrained'
<1>0. servers' = servers
  BY WorkerKeeps DEF control
<1>1. PICK l \in WorkerLabels \ {"unborn"} : wpc' = [wpc EXCEPT ![w] = l]
  BY WorkerKeeps
<1>2. \A v \in Workers \ {w} : wpc'[v] = wpc[v]
  BY <1>1 DEF TypeOK
<1>3. pos[w] \in Nat /\ shut[w] \in Nat /\ TotalCqs' = TotalCqs
  BY <1>0, PassStays DEF TypeOK
<1>4. CASE WorkerGetOwn(w) \/ WorkerGetServer(w)
  <2>1. /\ wpc[w] = "scan" /\ wpc'[w] = "complete" /\ shut' = shut
        /\ \A v \in Workers \ {w} : pos'[v] = pos[v]
    BY <1>4 DEF WorkerGetOwn, WorkerGetServer, WorkerGoto, TypeOK
  <2>2. Seen(w)
    BY <2>1 DEF PassInv
  <2>3. pos'[w] \in Nat /\ pos[w] < pos'[w] /\ pos'[w] <= TotalCqs
    BY <1>3, <1>4, TotalIs DEF WorkerGetOwn, WorkerGetServer, TypeOK
  <2>4. Seen(w)'
    <3>1. shut'[w] = shut[w] /\ shut[w] <= pos[w]
      BY <2>1, <2>2 DEF Seen
    <3>2. shut'[w] <= pos'[w] /\ shut'[w] # pos'[w] /\ pos'[w] <= TotalCqs'
      BY <1>3, <2>3, <3>1, TotalIs
    <3> QED
      BY <3>2 DEF Seen
  <2> QED
    BY <1>2, <2>1, <2>4 DEF Leaving
<1>5. CASE WorkerGetNone(w)
  <2>1. /\ wpc[w] = "scan" /\ wpc'[w] = "scan" /\ pos[w] < TotalCqs /\ pos'[w] = pos[w] + 1
        /\ shut'[w] = IF IsDrained(CqAt(w)) THEN shut[w] + 1 ELSE shut[w]
        /\ \A v \in Workers \ {w} : pos'[v] = pos[v] /\ shut'[v] = shut[v]
    BY <1>5 DEF WorkerGetNone, WorkerGoto, TypeOK
  <2>2. Seen(w)
    BY <2>1 DEF PassInv
  <2>3. CqAt(w) = QueueAt(w, pos[w])
    BY DEF CqAt, QueueAt, OwnCq
  <2>4. ASSUME shut'[w] = pos'[w], NEW k \in 0 .. pos'[w]-1 PROVE IsDrained(QueueAt(w, k)')
    <3>1. shut[w] = pos[w] /\ IsDrained(QueueAt(w, pos[w]))
      BY <1>3, <2>1, <2>2, <2>3, <2>4 DEF Seen
    <3>2. k \in 0 .. pos[w]-1 \/ k = pos[w]
      BY <1>3, <2>1
    <3>3. IsDrained(QueueAt(w, k))
      BY <2>2, <3>1, <3>2 DEF Seen
    <3>4. k \in 0 .. TotalCqs-1
      BY <1>3, <2>1, TotalIs
    <3> QED
      BY <1>0, <3>3, <3>4, PassStays
  <2>5. shut'[w] <= pos'[w] /\ pos'[w] <= TotalCqs'
    BY <1>3, <2>1, <2>2, TotalIs DEF Seen
  <2>6. Seen(w)'
    BY <2>4, <2>5 DEF Seen
  <2> QED
    BY <1>2, <2>1, <2>6 DEF Leaving
<1>6. CASE WorkerComplete(w)
  <2>1. wpc[w] = "complete" /\ wpc'[w] = "scan" /\ UNCHANGED <<pos, shut>>
    BY <1>6 DEF WorkerComplete, WorkerGoto, TypeOK
  <2>2. Seen(w)'
    BY <1>0, <2>1, PassStays DEF PassInv
  <2> QED
    BY <1>2, <2>1, <2>2 DEF Leaving
<1>7. CASE WorkerEndPass(w)
  <2>1. /\ wpc[w] = "scan" /\ pos[w] = TotalCqs /\ pos'[w] = 0 /\ shut'[w] = 0
        /\ wpc'[w] = IF shut[w] = TotalCqs THEN "eject" ELSE "pop"
        /\ \A v \in Workers \ {w} : pos'[v] = pos[v] /\ shut'[v] = shut[v]
    BY <1>7 DEF WorkerEndPass, WorkerGoto, TypeOK
  <2>2. wpc'[w] \in Leaving => AllDrained
    <3>1. Seen(w)
      BY <2>1 DEF PassInv
    <3> QED
      BY <2>1, <3>1, PassEnds DEF Leaving
  <2> QED
    BY <1>0, <1>2, <2>1, <2>2, PassStays
<1>8. CASE \/ WorkerTop(w) \/ WorkerPredicate(w) \/ WorkerAfterStop(w) \/ WorkerPop(w)
           \/ WorkerPopNothing(w) \/ WorkerRun(w)
  <2>1. /\ wpc[w] \notin {"scan", "complete"} /\ wpc'[w] \notin Leaving /\ wpc'[w] # "complete"
        /\ UNCHANGED <<pos, shut>>
    BY <1>8 DEF WorkerTop, WorkerPredicate, WorkerAfterStop, WorkerPop, WorkerPopNothing, WorkerRun,
                WorkerGoto, TypeOK, Leaving
  <2>2. pos'[w] = 0 /\ shut'[w] = 0
    BY <2>1 DEF PassInv
  <2>3. Seen(w)'
    BY <1>3, <2>2, TotalIs DEF Seen
  <2> QED
    BY <1>2, <2>1, <2>2, <2>3
<1>9. CASE WorkerEject(w) \/ WorkerDrain(w) \/ WorkerDrainCheck(w) \/ WorkerDrainRun(w)
  <2>1. wpc[w] \in Leaving /\ wpc'[w] \in Leaving /\ UNCHANGED <<pos, shut>>
    BY <1>9 DEF WorkerEject, WorkerDrain, WorkerDrainCheck, WorkerDrainRun, WorkerGoto, TypeOK, Leaving
  <2>2. AllDrained' /\ pos'[w] = 0 /\ shut'[w] = 0
    BY <1>0, <2>1, PassStays DEF PassInv, Leaving
  <2> QED
    BY <1>2, <2>1, <2>2 DEF Leaving
<1> QED
  BY <1>4, <1>5, <1>6, <1>7, <1>8, <1>9 DEF Worker

LEMMA StepPass ==
  IInv /\ LockInv /\ HandshakeInv /\ ServerInv /\ PassInv /\ [Next]_vars => PassInv'
<1> SUFFICES ASSUME IInv, TypeOK, SpawnInv, LockInv, HandshakeInv, ServerInv, PassInv, [Next]_vars
             PROVE  PassInv'
  BY DEF IInv
<1>1. CASE state = Ready
  <2>1. \A w \in Workers : wpc[w] = "unborn"
    BY <1>1 DEF SpawnInv
  <2>2. UNCHANGED <<wpc, pos, shut>>
    <3>1. ASSUME NEW w \in Workers, Worker(w) PROVE FALSE
      BY <2>1, <3>1, WorkerKeeps
    <3>2. ASSUME NEW r \in Runners, RunSpawn(r) PROVE FALSE
      BY <1>1, <3>2, SpawnIs DEF Ready, Running
    <3> QED
      BY <3>1, <3>2, PostKeeps, StopKeeps, OtherKeeps DEF Next, RunBegin, vars, workerVars
  <2> QED
    BY <2>1, <2>2 DEF PassInv, Leaving
<1>2. CASE state # Ready
  <2>0. servers' = servers
    BY <1>2, ServersStay
  <2>1. ASSUME NEW w \in Workers, Worker(w) PROVE PassInv'
    <3>1. \A v \in Workers \ {w} : wpc'[v] = wpc[v] /\ pos'[v] = pos[v] /\ shut'[v] = shut[v]
      BY <2>1, WorkerPass
    <3>2. \A v \in Workers \ {w} : Seen(v) => Seen(v)'
      BY <2>0, <3>1, PassStays
    <3>3. AllDrained => AllDrained'
      BY <2>0, <2>1, PassStays
    <3>4. /\ wpc'[w] \in {"scan", "complete"} => Seen(w)'
          /\ wpc'[w] \notin {"scan", "complete"} => pos'[w] = 0 /\ shut'[w] = 0
          /\ wpc'[w] \in Leaving => AllDrained'
      BY <2>1, WorkerPass
    <3> QED
      BY <3>1, <3>2, <3>3, <3>4 DEF PassInv
  <2>2. ASSUME UNCHANGED <<pos, shut>>,
               \A w \in Workers : wpc'[w] = wpc[w] \/ (wpc[w] = "unborn" /\ wpc'[w] = "top")
        PROVE  PassInv'
    <3>1. \A w \in Workers : /\ Seen(w) => Seen(w)'
                             /\ AllDrained => AllDrained'
      BY <2>0, <2>2, PassStays
    <3> QED
      BY <2>2, <3>1 DEF PassInv, Leaving
  <2>3. ASSUME NEW r \in Runners, RunBegin(r) \/ RunSpawn(r) PROVE PassInv'
    <3>1. UNCHANGED <<pos, shut>>
      BY <2>3, RunKeeps
    <3>2. \A w \in Workers : wpc'[w] = wpc[w] \/ (wpc[w] = "unborn" /\ wpc'[w] = "top")
      <4>1. CASE RunBegin(r)
        BY <4>1 DEF RunBegin, workerVars
      <4>2. CASE RunSpawn(r)
        <5>1. PICK k \in Workers : wpc' = [wpc EXCEPT ![k] = "top"] /\ wpc[k] = "unborn"
          BY <4>2, SpawnIs
        <5> QED
          BY <5>1 DEF TypeOK
      <4> QED
        BY <2>3, <4>1, <4>2
    <3> QED
      BY <2>2, <3>1, <3>2
  <2>4. CASE UNCHANGED workerVars
    BY <2>2, <2>4 DEF workerVars
  <2> QED
    BY <2>1, <2>3, <2>4, PostKeeps, StopKeeps, OtherKeeps DEF Next, vars
<1> QED
  BY <1>1, <1>2

LEMMA Passed == Spec => []PassInv
<1>1. Init => PassInv
  BY DEF Init, PassInv, Leaving
<1> QED
  BY <1>1, StepPass, Inductive, Locked, Handshaken, ServersKnown, PTL DEF Spec

-----------------------------------------------------------------------------
(* What the drain of the thunk queue leaves behind                         *)

\* A thunk that was queued before `done' was signalled is not in the queue
\* any more once a worker has drained it.
DoneInv ==
  /\ \A w \in Workers :
       /\ wpc[w] \in {"drain", "drain_check", "drain_run", "exited"} => done
       /\ wpc[w] \in {"drain_check", "drain_run", "exited"} => pool \cap settled = {}
  /\ \A x \in settled : ppc[x] = "accepted"

LEMMA StepDone == IInv /\ DoneInv /\ [Next]_vars => DoneInv'
<1> SUFFICES ASSUME TypeOK, SpawnInv, DoneInv, [Next]_vars PROVE DoneInv'
  BY DEF IInv
<1>1. ASSUME NEW x \in Items, Post(x) PROVE DoneInv'
  <2>1. wpc' = wpc
    BY <1>1, PostKeeps DEF workerVars
  <2>2. CASE PostInsert(x)
    <3>1. /\ ppc[x] = "push" /\ ppc' = [ppc EXCEPT ![x] = "accepted"]
          /\ pool' = pool \cup {x} /\ done' = done
          /\ settled' = IF done THEN settled ELSE settled \cup {x}
      BY <2>2 DEF PostInsert, PostGoto, TP!Accept
    <3>2. x \notin settled
      BY <3>1 DEF DoneInv
    <3>3. settled \subseteq Items
      BY DEF TypeOK, Items
    <3> QED
      BY <2>1, <3>1, <3>2, <3>3 DEF DoneInv, TypeOK
  <2>3. CASE ~PostInsert(x)
    <3>1. UNCHANGED <<pool, done, settled>>
      BY <1>1, <2>3 DEF Post, PostThunk, PostCqEnter, PostCqCheck, PostCqBind, PostCqLeave,
                        TP!Admit, TP!Refuse, poolVars, outcome
    <3>2. \A y \in Items : ppc[y] = "accepted" => ppc'[y] = "accepted"
      BY <1>1, <2>3 DEF Post, PostThunk, PostCqEnter, PostCqCheck, PostCqBind, PostCqLeave, PostGoto,
                        TypeOK
    <3>3. settled \subseteq Items
      BY DEF TypeOK, Items
    <3> QED
      BY <2>1, <3>1, <3>2, <3>3 DEF DoneInv
  <2> QED
    BY <2>2, <2>3
<1>2. ASSUME NEW w \in Workers, Worker(w) PROVE DoneInv'
  <2>1. settled' = settled /\ ppc' = ppc
    BY <1>2, WorkerKeeps
  <2>2. CASE WorkerDrain(w)
    <3>1. pool' = {} /\ done' = done
      BY <2>2 DEF WorkerDrain, TP!Take, poolVars, TypeOK
    <3>2. wpc[w] = "drain" /\ \A v \in Workers \ {w} : wpc'[v] = wpc[v]
      BY <2>2 DEF WorkerDrain, WorkerGoto, TypeOK
    <3> QED
      BY <2>1, <3>1, <3>2 DEF DoneInv
  <2>3. CASE WorkerEject(w)
    <3>1. pool' = pool /\ done' = TRUE /\ wpc'[w] = "drain" /\ \A v \in Workers \ {w} : wpc'[v] = wpc[v]
      BY <2>3 DEF WorkerEject, TP!SignalDone, WorkerGoto, TypeOK
    <3> QED
      BY <2>1, <3>1 DEF DoneInv
  <2>4. CASE ~WorkerDrain(w) /\ ~WorkerEject(w)
    <3>1. pool' \subseteq pool /\ done' = done
      BY <1>2, <2>4
      DEF Worker, WorkerTop, WorkerPredicate, WorkerAfterStop, WorkerGetOwn, WorkerGetServer,
          WorkerGetNone, WorkerComplete, WorkerEndPass, WorkerPop, WorkerPopNothing, WorkerRun,
          WorkerDrainCheck, WorkerDrainRun, TP!Take, poolVars
    <3>2. /\ \A v \in Workers \ {w} : wpc'[v] = wpc[v]
          /\ wpc'[w] \in {"drain", "drain_check", "drain_run", "exited"} =>
               wpc[w] \in {"drain_check", "drain_run"}
      BY <1>2, <2>4
      DEF Worker, WorkerTop, WorkerPredicate, WorkerAfterStop, WorkerGetOwn, WorkerGetServer,
          WorkerGetNone, WorkerComplete, WorkerEndPass, WorkerPop, WorkerPopNothing, WorkerRun,
          WorkerDrainCheck, WorkerDrainRun, WorkerGoto, TypeOK
    <3> QED
      BY <2>1, <3>1, <3>2 DEF DoneInv
  <2> QED
    BY <2>2, <2>3, <2>4
<1>3. ASSUME NEW r \in Runners, RunBegin(r) \/ RunSpawn(r) PROVE DoneInv'
  <2>1. UNCHANGED <<pool, done, settled, ppc>>
    BY <1>3, RunKeeps DEF poolVars, outcome
  <2>2. \A w \in Workers : wpc'[w] = wpc[w] \/ wpc'[w] = "top"
    BY <1>3 DEF RunBegin, RunSpawn, workerVars, TypeOK
  <2> QED
    BY <2>1, <2>2 DEF DoneInv
<1>4. CASE UNCHANGED <<poolVars, settled, ppc, workerVars>>
  BY <1>4 DEF DoneInv, poolVars, workerVars
<1> QED
  BY <1>1, <1>2, <1>3, <1>4, StopKeeps, OtherKeeps DEF Next, vars, outcome

LEMMA DoneStays == Spec => []DoneInv
<1>1. Init => DoneInv
  BY DEF Init, DoneInv
<1> QED
  BY <1>1, StepDone, Inductive, PTL DEF Spec

-----------------------------------------------------------------------------
(* The orderly shutdown                                                    *)

LEMMA AllExited ==
  ASSUME TypeOK, WorkInv, PassInv, DoneInv, \A w \in Workers : wpc[w] = "exited"
  PROVE  AllDrained /\ Due \subseteq ran /\ heap \cap Rpcs = {}
<1>1. 0 \in Workers
  BY NThreadsAssumption DEF Workers
<1>2. AllDrained
  BY <1>1 DEF PassInv, Leaving
<1>3. \A x : ~Held(x) /\ ~Queued(x)
  BY <1>2 DEF WorkInv, HandInv, Held, Queued, OnQueue, AllDrained, IsDrained
<1>4. ASSUME NEW x \in Due PROVE x \in ran
  <2>1. x \in Items /\ ppc[x] = "accepted" /\ x \notin pool
    <3>1. CASE x \in settled
      BY <1>1, <3>1 DEF TypeOK, Items, DoneInv
    <3>2. CASE x \notin settled
      BY <1>4, <3>2 DEF Due
    <3> QED
      BY <3>1, <3>2
  <2> QED
    BY <1>3, <2>1 DEF WorkInv, HomeInv, OneHome, Posted
<1>5. heap \cap Rpcs = {}
  BY <1>3 DEF WorkInv, HeapInv
<1> QED
  BY <1>2, <1>4, <1>5

LEMMA Quiescent == IInv /\ WorkInv /\ PassInv /\ DoneInv => StoppedIsQuiescent
BY AllExited DEF IInv, StopInv, AllDrained, StoppedIsQuiescent

\* "Blocking waits for orderly shutdown": in state Stopped no worker is left,
\* every queue is drained, every callback that was owed was called and the
\* events of the calls are freed.
THEOREM StoppedQuiescent == Spec => []StoppedIsQuiescent
BY Quiescent, Inductive, WorkInductive, Passed, DoneStays, PTL

LEMMA StoppedStep ==
  ASSUME IInv, WorkInv, HandshakeInv, PassInv, DoneInv, [Next]_vars, state = Stopped
  PROVE  admitted' \subseteq admitted /\ UNCHANGED <<ran, calls, cqs>>
<1> USE DEF Ready, Running, ShuttingDown, Stopped
<1>1. TypeOK /\ StopInv /\ SpawnInv
  BY DEF IInv
<1>2. \A w \in Workers : wpc[w] = "exited"
  BY <1>1 DEF StopInv
<1>3. done /\ \A c \in Cqs : IsDrained(cqs[c])
  <2>1. 0 \in Workers
    BY NThreadsAssumption DEF Workers
  <2> QED
    BY <1>2, <2>1 DEF DoneInv, PassInv, Leaving, AllDrained
<1>4. ASSUME NEW w \in Workers, Worker(w) PROVE FALSE
  BY <1>1, <1>2, <1>4, WorkerKeeps
<1>5. cqs' = cqs
  <2>1. ASSUME NEW x \in Items, PostCqBind(x) PROVE FALSE
    <3>1. x \in Binding
      BY <2>1 DEF PostCqBind, PostGoto, Binding
    <3>2. \A d \in Callers : spc[d] # "wait"
      BY <1>1 DEF StopInv
    <3> QED
      BY <3>1, <3>2 DEF HandshakeInv
  <2>2. ASSUME NEW x \in Items, FireEvent(x) PROVE FALSE
    BY <1>3, <2>2 DEF FireEvent, IsDrained
  <2>3. ASSUME NEW c \in Callers, StopShutdown(c) PROVE FALSE
    BY <1>1, <2>3 DEF StopShutdown, StopGoto, StopInv
  <2>4. ASSUME NEW w \in Workers, WorkerGetOwn(w) PROVE FALSE
    BY <1>4, <2>4 DEF Worker
  <2> QED
    BY <2>1, <2>2, <2>3, <2>4, CqsSteps
<1>6. admitted' \subseteq admitted
  <2>1. ASSUME NEW x \in Items, Post(x) PROVE admitted' \subseteq admitted
    BY <1>3, <2>1 DEF Post, PostThunk, PostInsert, PostCqEnter, PostCqCheck, PostCqBind, PostCqLeave,
                      TP!Admit, TP!Refuse, TP!Accept, poolVars
  <2>2. CASE UNCHANGED poolVars
    BY <2>2 DEF poolVars
  <2> QED
    BY <1>4, <2>1, <2>2, RunKeeps, StopKeeps, OtherKeeps DEF Next, vars
<1>7. ran' = ran /\ calls' = calls
  BY <1>4, PostKeeps, RunKeeps, StopKeeps, OtherKeeps DEF Next, vars, outcome
<1> QED
  BY <1>5, <1>6, <1>7

\* After stop has set the state to Stopped nothing is admitted, started or
\* called back any more: the workers are gone and the queues are closed.
THEOREM NothingStarts == Spec => NothingStartsAfterStopped
<1>1. IInv /\ WorkInv /\ HandshakeInv /\ PassInv /\ DoneInv /\ [Next]_vars =>
        [state = Stopped => admitted' \subseteq admitted /\ UNCHANGED <<ran, calls, cqs>>]_vars
  BY StoppedStep
<1> QED
  BY <1>1, Inductive, WorkInductive, Handshaken, Passed, DoneStays, PTL
  DEF Spec, NothingStartsAfterStopped
-----------------------------------------------------------------------------
(* The context implements its contract                                     *)

\* What leaves the thunk queue or is in it was accepted; a worker pops one
\* thunk at a time; nobody signals done before a stop.
PathInv ==
  /\ \A x \in pool \cup taken : ppc[x] = "accepted"
  /\ \A w \in Workers : wpc[w] = "run" => \E t \in Thunks \cup Deadlined : hand[w] = {t}
  /\ done => state \in {ShuttingDown, Stopped}

LEMMA StepPath == IInv /\ HandshakeInv /\ PassInv /\ PathInv /\ [Next]_vars => PathInv'
<1> SUFFICES ASSUME TypeOK, SpawnInv, StopInv, HandshakeInv, PassInv, PathInv, [Next]_vars PROVE PathInv'
  BY DEF IInv
<1> USE DEF Ready, Running, ShuttingDown, Stopped
<1>0. pool \cup taken \subseteq Items
  BY DEF TypeOK, TP!PoolTypeOK, Items
<1>1. ASSUME NEW x \in Items, Post(x) PROVE PathInv'
  <2>1. state' = state /\ wpc' = wpc /\ hand' = hand
    BY <1>1, PostKeeps DEF control, workerVars
  <2>2. done' = done /\ taken' = taken
    BY <1>1 DEF Post, PostThunk, PostInsert, PostCqEnter, PostCqCheck, PostCqBind, PostCqLeave,
                TP!Admit, TP!Refuse, TP!Accept, poolVars
  <2>3. pool' \subseteq pool \cup {x} /\ (x \in pool' => x \in pool \/ ppc'[x] = "accepted")
    BY <1>1 DEF Post, PostThunk, PostInsert, PostCqEnter, PostCqCheck, PostCqBind, PostCqLeave,
                PostGoto, TP!Admit, TP!Refuse, TP!Accept, poolVars, TypeOK
  <2>4. \A y \in Items : ppc[y] = "accepted" => ppc'[y] = "accepted"
    BY <1>1 DEF Post, PostThunk, PostInsert, PostCqEnter, PostCqCheck, PostCqBind, PostCqLeave,
                PostGoto, TypeOK
  <2> QED
    BY <1>0, <2>1, <2>2, <2>3, <2>4 DEF PathInv
<1>2. ASSUME NEW w \in Workers, Worker(w) PROVE PathInv'
  <2>1. state' = state /\ ppc' = ppc
    BY <1>2, WorkerKeeps DEF control
  <2>2. pool' \cup taken' \subseteq pool \cup taken
    BY <1>2
    DEF Worker, WorkerTop, WorkerPredicate, WorkerAfterStop, WorkerGetOwn, WorkerGetServer,
        WorkerGetNone, WorkerComplete, WorkerEndPass, WorkerPop, WorkerPopNothing, WorkerRun,
        WorkerEject, WorkerDrain, WorkerDrainCheck, WorkerDrainRun, TP!Take, TP!SignalDone, poolVars
  <2>3. \A v \in Workers \ {w} : wpc'[v] = wpc[v] /\ hand'[v] = hand[v]
    BY <1>2
    DEF Worker, WorkerTop, WorkerPredicate, WorkerAfterStop, WorkerGetOwn, WorkerGetServer,
        WorkerGetNone, WorkerComplete, WorkerEndPass, WorkerPop, WorkerPopNothing, WorkerRun,
        WorkerEject, WorkerDrain, WorkerDrainCheck, WorkerDrainRun, WorkerGoto, TypeOK
  <2>4. wpc'[w] = "run" => \E t \in Thunks \cup Deadlined : hand'[w] = {t}
    <3>1. CASE WorkerPop(w)
      BY <3>1 DEF WorkerPop, TypeOK, TP!PoolTypeOK
    <3>2. CASE ~WorkerPop(w)
      BY <1>2, <3>2
      DEF Worker, WorkerTop, WorkerPredicate, WorkerAfterStop, WorkerGetOwn, WorkerGetServer,
          WorkerGetNone, WorkerComplete, WorkerEndPass, WorkerPopNothing, WorkerRun, WorkerEject,
          WorkerDrain, WorkerDrainCheck, WorkerDrainRun, WorkerGoto, TypeOK
    <3> QED
      BY <3>1, <3>2
  <2>5. done' => state \in {ShuttingDown, Stopped}
    <3>1. CASE WorkerEject(w)
      <4>1. AllDrained /\ 0 \in Cqs
        BY <3>1, NCqsAssumption DEF WorkerEject, WorkerGoto, PassInv, Leaving, Cqs
      <4> QED
        BY <4>1 DEF AllDrained, IsDrained, HandshakeInv
    <3>2. CASE ~WorkerEject(w)
      <4>1. done' = done
        BY <1>2, <3>2
        DEF Worker, WorkerTop, WorkerPredicate, WorkerAfterStop, WorkerGetOwn, WorkerGetServer,
            WorkerGetNone, WorkerComplete, WorkerEndPass, WorkerPop, WorkerPopNothing, WorkerRun,
            WorkerDrain, WorkerDrainCheck, WorkerDrainRun, TP!Take, poolVars
      <4> QED
        BY <4>1 DEF PathInv
    <3> QED
      BY <3>1, <3>2
  <2> QED
    BY <2>1, <2>2, <2>3, <2>4, <2>5 DEF PathInv
<1>3. ASSUME NEW r \in Runners, RunBegin(r) \/ RunSpawn(r) PROVE PathInv'
  <2>1. UNCHANGED <<pool, taken, done, ppc, hand>>
    BY <1>3, RunKeeps DEF poolVars
  <2>2. \A w \in Workers : wpc'[w] = "run" => wpc[w] = "run"
    BY <1>3 DEF RunBegin, RunSpawn, workerVars, TypeOK
  <2>3. state' = state \/ state = Ready
    BY <1>3 DEF RunBegin, RunSpawn
  <2> QED
    BY <2>1, <2>2, <2>3 DEF PathInv
<1>4. ASSUME NEW c \in Callers, StopBegin(c) \/ StopStep(c) PROVE PathInv'
  <2>1. UNCHANGED <<pool, taken, done, ppc, wpc, hand>>
    BY <1>4, StopKeeps DEF poolVars, workerVars
  <2>2. state' = state \/ state' \in {ShuttingDown, Stopped}
    BY <1>4 DEF StopBegin, StopStep, StopWait, StopShutdown, StopJoin, StopClear, StopLock, StopSwap,
                StopNotify, control
  <2> QED
    BY <2>1, <2>2 DEF PathInv
<1>5. CASE UNCHANGED <<state, poolVars, ppc, workerVars>>
  BY <1>5 DEF PathInv, poolVars, workerVars
<1> QED
  BY <1>1, <1>2, <1>3, <1>4, <1>5, OtherKeeps DEF Next, vars, control

LEMMA PathStays == Spec => []PathInv
<1>1. Init => PathInv
  BY DEF Init, PathInv, TP!PoolInit
<1> QED
  BY <1>1, StepPath, Inductive, Handshaken, Passed, PTL DEF Spec

\* What a worker has in hand was not called yet, so that no count is above one.
CallsInv == \A x \in Items : calls[x] = In(x, ran)

LEMMA CalledCounts ==
  ASSUME TypeOK, CallsInv, NEW S, S \cap Items \cap ran = {}, Called(S), ran' = ran \cup S
  PROVE  CallsInv'
BY DEF CallsInv, Called, In, TypeOK

LEMMA StepCalls == IInv /\ WorkInv /\ CallsInv /\ [Next]_vars => CallsInv'
<1> SUFFICES ASSUME TypeOK, WorkInv, CallsInv, [Next]_vars PROVE CallsInv'
  BY DEF IInv
<1>1. CASE UNCHANGED <<ran, calls>>
  BY <1>1 DEF CallsInv, In
<1>2. ASSUME NEW w \in Workers, Worker(w) PROVE CallsInv'
  <2>1. hand[w] \cap Items \cap ran = {}
    BY DEF WorkInv, HomeInv, OneHome, Held
  <2>2. CASE WorkerComplete(w) \/ WorkerRun(w)
    BY <2>1, <2>2, CalledCounts DEF WorkerComplete, WorkerRun
  <2>3. ASSUME NEW t \in hand[w], ran' = ran \cup {t}, Called({t}) PROVE CallsInv'
    BY <2>1, <2>3, CalledCounts
  <2> QED
    BY <1>1, <1>2, <2>2, <2>3
    DEF Worker, WorkerTop, WorkerPredicate, WorkerAfterStop, WorkerGetOwn, WorkerGetServer,
        WorkerGetNone, WorkerEndPass, WorkerPop, WorkerPopNothing, WorkerEject, WorkerDrain,
        WorkerDrainCheck, WorkerDrainRun, outcome
<1> QED
  BY <1>1, <1>2, PostKeeps, RunKeeps, StopKeeps, OtherKeeps DEF Next, vars, outcome

LEMMA CallsCounted == Spec => []CallsInv
<1>1. Init => CallsInv
  BY DEF Init, CallsInv, In
<1> QED
  BY <1>1, StepCalls, Inductive, WorkInductive, PTL DEF Spec

Given == {x \in Items : ppc[x] \in {"push", "leave_posted", "accepted"}}
Accepted == {x \in Items : ppc[x] = "accepted"}
Refusals == {x \in Items : ppc[x] \in {"leave_refused", "rejected"}}
Closing == state \in {ShuttingDown, Stopped}
Halted == state = Stopped
ContractView == <<Closing, Halted, Given, Accepted, Due, calls, Refusals>>

LEMMA PostContract ==
  ASSUME IInv, HandshakeInv, DoneInv, PathInv, NEW x \in Items, Post(x)
  PROVE  Contract!Give(x) \/ Contract!Refuse(x) \/ Contract!Return(x) \/ UNCHANGED ContractView
<1> USE DEF Ready, Running, ShuttingDown, Stopped
<1>0. TypeOK /\ StopInv
  BY DEF IInv
<1>1. /\ Closing' = Closing /\ Halted' = Halted
      /\ calls' = calls
  BY PostKeeps DEF control, Closing, Halted
<1>2. Halted => done
  <2>1. 0 \in Workers
    BY NThreadsAssumption DEF Workers
  <2> QED
    BY <1>0, <2>1 DEF StopInv, DoneInv, Halted
<1>3. Binding # {} => ~Halted
  BY <1>0 DEF StopInv, HandshakeInv, Halted
<1>4. done => Closing
  BY DEF PathInv, Closing
<1>5. CASE PostThunk(x)
  <2>1. ppc[x] = "fresh" /\ settled' = settled
    BY <1>5 DEF PostThunk, PostGoto, outcome
  <2>2. CASE ppc' = [ppc EXCEPT ![x] = "push"] /\ ~done /\ pool' = pool /\ taken' = taken
    <3>1. x \notin Given \cup Refusals /\ Given' = Given \cup {x} /\ Refusals' = Refusals
      BY <1>0, <2>1, <2>2 DEF Given, Refusals, TypeOK
    <3>2. Accepted' = Accepted /\ Due' = Due
      BY <1>0, <2>1, <2>2 DEF Accepted, Due, TypeOK
    <3> QED
      BY <1>1, <1>2, <2>2, <3>1, <3>2
      DEF Contract!Give, Given, Refusals, Accepted, Closing, Halted
  <2>3. CASE ppc' = [ppc EXCEPT ![x] = "rejected"] /\ done /\ pool' = pool /\ taken' = taken
    <3>1. x \notin Given \cup Refusals /\ Given' = Given /\ Refusals' = Refusals \cup {x}
      BY <1>0, <2>1, <2>3 DEF Given, Refusals, TypeOK
    <3>2. Accepted' = Accepted /\ Due' = Due
      BY <1>0, <2>1, <2>3 DEF Accepted, Due, TypeOK
    <3> QED
      BY <1>1, <1>4, <2>3, <3>1, <3>2
      DEF Contract!Refuse, Given, Refusals, Accepted, Closing, Halted
  <2> QED
    BY <1>5, <2>2, <2>3 DEF PostThunk, PostGoto, TP!Admit, TP!Refuse
<1>6. CASE PostInsert(x)
  <2>1. /\ ppc[x] = "push" /\ ppc' = [ppc EXCEPT ![x] = "accepted"]
        /\ pool' = pool \cup {x} /\ taken' = taken /\ done' = done
        /\ settled' = IF done THEN settled ELSE settled \cup {x}
    BY <1>6 DEF PostInsert, PostGoto, TP!Accept
  <2>2. /\ x \in Given \ Accepted /\ Given' = Given /\ Refusals' = Refusals
        /\ Accepted' = Accepted \cup {x}
    BY <1>0, <2>1 DEF Given, Accepted, Refusals, TypeOK
  <2>3. Due' = IF done THEN Due ELSE Due \cup {x}
    BY <1>0, <2>1 DEF Due, TypeOK
  <2> QED
    BY <1>1, <1>2, <1>4, <2>2, <2>3
    DEF Contract!Return, Given, Refusals, Accepted, Closing, Halted
<1>7. CASE PostCqEnter(x)
  <2>1. /\ ppc[x] = "fresh" /\ ppc' = [ppc EXCEPT ![x] = "check"]
        /\ UNCHANGED <<pool, taken, settled>>
    BY <1>7 DEF PostCqEnter, PostGoto, poolVars, outcome
  <2> QED
    BY <1>0, <1>1, <2>1 DEF Given, Accepted, Refusals, Due, ContractView, TypeOK
<1>8. CASE PostCqCheck(x)
  <2>1. /\ ppc[x] = "check" /\ UNCHANGED <<pool, taken, settled>>
        /\ ppc' = [ppc EXCEPT ![x] = IF state <= Running THEN "bind" ELSE "leave_refused"]
    BY <1>8 DEF PostCqCheck, PostGoto, poolVars, outcome
  <2>2. CASE state <= Running
    BY <1>0, <1>1, <2>1, <2>2 DEF Given, Accepted, Refusals, Due, ContractView, TypeOK
  <2>3. CASE ~(state <= Running)
    <3>1. x \notin Given \cup Refusals /\ Given' = Given /\ Refusals' = Refusals \cup {x}
      BY <1>0, <2>1, <2>3 DEF Given, Refusals, TypeOK
    <3>2. Accepted' = Accepted /\ Due' = Due
      BY <1>0, <2>1, <2>3 DEF Accepted, Due, TypeOK
    <3>3. Closing
      BY <1>0, <2>3 DEF Closing, TypeOK
    <3> QED
      BY <1>1, <3>1, <3>2, <3>3
      DEF Contract!Refuse, Given, Refusals, Accepted, Closing, Halted
  <2> QED
    BY <2>2, <2>3
<1>9. CASE PostCqBind(x)
  <2>1. /\ ppc[x] = "bind" /\ ppc' = [ppc EXCEPT ![x] = "leave_posted"]
        /\ UNCHANGED <<pool, taken, settled>>
    BY <1>9 DEF PostCqBind, PostGoto, poolVars
  <2>2. x \notin Given \cup Refusals /\ Given' = Given \cup {x} /\ Refusals' = Refusals
    BY <1>0, <2>1 DEF Given, Refusals, TypeOK
  <2>3. Accepted' = Accepted /\ Due' = Due
    BY <1>0, <2>1 DEF Accepted, Due, TypeOK
  <2>4. ~Halted
    BY <1>3, <2>1 DEF Binding
  <2> QED
    BY <1>1, <2>2, <2>3, <2>4
    DEF Contract!Give, Given, Refusals, Accepted, Closing, Halted
<1>10. CASE PostCqLeave(x)
  <2>1. UNCHANGED <<pool, taken, settled>>
    BY <1>10 DEF PostCqLeave, poolVars, outcome
  <2>2. CASE ppc[x] = "leave_posted" /\ ppc' = [ppc EXCEPT ![x] = "accepted"]
    <3>1. /\ x \in Given \ Accepted /\ Given' = Given /\ Refusals' = Refusals
          /\ Accepted' = Accepted \cup {x}
      BY <1>0, <2>2 DEF Given, Accepted, Refusals, TypeOK
    <3>2. x \notin pool \cup taken
      BY <2>2 DEF PathInv
    <3>3. Due' = Due \cup {x}
      BY <1>0, <2>1, <2>2, <3>2 DEF Due, TypeOK
    <3>4. ~Halted
      BY <1>3, <2>2 DEF Binding
    <3> QED
      BY <1>1, <3>1, <3>3, <3>4
      DEF Contract!Return, Given, Refusals, Accepted, Closing, Halted
  <2>3. CASE ppc[x] = "leave_refused" /\ ppc' = [ppc EXCEPT ![x] = "rejected"]
    BY <1>0, <1>1, <2>1, <2>3 DEF Given, Accepted, Refusals, Due, ContractView, TypeOK
  <2> QED
    BY <1>10, <2>2, <2>3 DEF PostCqLeave, PostGoto
<1> QED
  BY <1>5, <1>6, <1>7, <1>8, <1>9, <1>10 DEF Post

LEMMA WorkerContract ==
  ASSUME IInv, WorkInv, CallsInv, PathInv, NEW w \in Workers, Worker(w)
  PROVE  (\E x \in Items : Contract!Call(x)) \/ UNCHANGED ContractView
<1>0. TypeOK /\ StopInv
  BY DEF IInv
<1>1. /\ Closing' = Closing /\ Halted' = Halted /\ Given' = Given /\ Accepted' = Accepted
      /\ Refusals' = Refusals
  BY <1>0, WorkerKeeps DEF control, Closing, Halted, Given, Accepted, Refusals
<1>2. Due' = Due
  <2>1. pool' \cup taken' = pool \cup taken
    BY DEF Worker, WorkerTop, WorkerPredicate, WorkerAfterStop, WorkerGetOwn, WorkerGetServer,
           WorkerGetNone, WorkerComplete, WorkerEndPass, WorkerPop, WorkerPopNothing, WorkerRun,
           WorkerEject, WorkerDrain, WorkerDrainCheck, WorkerDrainRun, TP!Take, TP!SignalDone,
           poolVars
  <2> QED
    BY <1>0, <2>1, WorkerKeeps DEF Due
<1>3. ~Halted
  BY <1>0, WorkerKeeps DEF StopInv, Halted
<1>4. ASSUME NEW e \in hand[w], Called({e})
      PROVE  (\E x \in Items : Contract!Call(x)) \/ UNCHANGED ContractView
  <2>1. CASE e \in Items
    <3>1. OneHome(e) /\ Held(e)
      BY <1>4, <2>1 DEF WorkInv, HomeInv, Held
    <3>2. e \in Given /\ calls[e] = 0
      BY <2>1, <3>1 DEF OneHome, Posted, Given, CallsInv, In
    <3>3. calls' = [calls EXCEPT ![e] = 1]
      <4>1. \A x \in Items : calls'[x] = IF x = e THEN 1 ELSE calls[x]
        BY <1>4, <3>2 DEF Called
      <4>2. calls' = [x \in Items |-> calls'[x]] /\ calls = [x \in Items |-> calls[x]]
        BY <1>0, <1>4 DEF Called, TypeOK
      <4> QED
        BY <2>1, <4>1, <4>2
    <3>4. Contract!Call(e)
      BY <1>1, <1>2, <1>3, <3>2, <3>3
      DEF Contract!Call, Given, Refusals, Accepted, Closing, Halted
    <3> QED
      BY <2>1, <3>4
  <2>2. CASE e \notin Items
    <3>1. calls' = calls
      BY <1>0, <1>4, <2>2 DEF Called, TypeOK
    <3> QED
      BY <1>1, <1>2, <3>1 DEF ContractView
  <2> QED
    BY <2>1, <2>2
<1>5. CASE WorkerComplete(w) \/ WorkerRun(w)
  <2>1. Called(hand[w]) /\ \E e : hand[w] = {e}
    BY <1>5 DEF WorkerComplete, WorkerRun, WorkerGoto, WorkInv, HandInv, PathInv
  <2> QED
    BY <1>4, <2>1
<1>6. CASE WorkerDrainRun(w)
  <2>1. calls' = calls \/ \E e \in hand[w] : Called({e})
    BY <1>6 DEF WorkerDrainRun
  <2> QED
    BY <1>1, <1>2, <1>4, <2>1 DEF ContractView
<1>7. CASE calls' = calls
  BY <1>1, <1>2, <1>7 DEF ContractView
<1> QED
  BY <1>5, <1>6, <1>7
  DEF Worker, WorkerTop, WorkerPredicate, WorkerAfterStop, WorkerGetOwn, WorkerGetServer,
      WorkerGetNone, WorkerEndPass, WorkerPop, WorkerPopNothing, WorkerEject, WorkerDrain,
      WorkerDrainCheck, outcome

LEMMA StopContract ==
  ASSUME IInv, WorkInv, CallsInv, PassInv, DoneInv, NEW c \in Callers, StopBegin(c) \/ StopStep(c)
  PROVE  Contract!Close \/ Contract!Finish \/ UNCHANGED ContractView
<1> USE DEF Ready, Running, ShuttingDown, Stopped
<1>0. TypeOK /\ StopInv
  BY DEF IInv
<1>1. /\ Given' = Given /\ Accepted' = Accepted /\ Refusals' = Refusals /\ Due' = Due
      /\ calls' = calls
  BY StopKeeps DEF Given, Accepted, Refusals, Due, poolVars
<1>2. CASE StopBegin(c)
  <2>1. state' = state \/ (state = Running /\ state' = ShuttingDown)
    BY <1>2 DEF StopBegin
  <2> QED
    BY <1>1, <2>1
    DEF ContractView, Contract!Close, Given, Refusals, Accepted, Closing, Halted
<1>3. CASE StopLock(c)
  <2>1. state = ShuttingDown /\ state' = Stopped /\ \A w \in Workers : wpc[w] = "exited"
    BY <1>0, <1>3 DEF StopLock, StopGoto, StopInv
  <2>2. \A x \in Due : calls[x] = 1
    <3>1. Due \subseteq ran
      BY <1>0, <2>1, AllExited
    <3>2. Due \subseteq Items
      BY <1>0 DEF Due, TypeOK, Items
    <3> QED
      BY <3>1, <3>2 DEF CallsInv, In
  <2> QED
    BY <1>1, <2>1, <2>2
    DEF Contract!Finish, Given, Refusals, Accepted, Closing, Halted
<1>4. CASE state' = state
  BY <1>1, <1>4 DEF ContractView, Closing, Halted
<1> QED
  BY <1>2, <1>3, <1>4
  DEF StopStep, StopWait, StopShutdown, StopJoin, StopClear, StopSwap, StopNotify, control

LEMMA StepContract ==
  ASSUME IInv, WorkInv, CallsInv, HandshakeInv, PassInv, DoneInv, PathInv, [Next]_vars
  PROVE  Contract!ContractNext \/ UNCHANGED ContractView
<1>1. ASSUME NEW x \in Items, Post(x) PROVE Contract!ContractNext \/ UNCHANGED ContractView
  BY <1>1, PostContract DEF Contract!ContractNext
<1>2. ASSUME NEW w \in Workers, Worker(w) PROVE Contract!ContractNext \/ UNCHANGED ContractView
  BY <1>2, WorkerContract DEF Contract!ContractNext
<1>3. ASSUME NEW c \in Callers, StopBegin(c) \/ StopStep(c)
      PROVE  Contract!ContractNext \/ UNCHANGED ContractView
  BY <1>3, StopContract DEF Contract!ContractNext
<1>4. CASE UNCHANGED <<poolVars, ppc, calls, settled>> /\ (state' = state \/ (state = Ready /\ state' = Running))
  BY <1>4 DEF ContractView, Given, Accepted, Refusals, Due, Closing, Halted, poolVars, Ready, Running,
              ShuttingDown, Stopped
<1>5. ASSUME NEW r \in Runners, RunBegin(r) \/ RunSpawn(r)
      PROVE  UNCHANGED ContractView
  <2>1. state' = state \/ (state = Ready /\ state' = Running)
    BY <1>5 DEF RunBegin, RunSpawn
  <2> QED
    BY <1>4, <1>5, <2>1, RunKeeps DEF outcome, ContractView, Given, Accepted, Refusals, Due, Closing,
       Halted, poolVars, Ready, Running, ShuttingDown, Stopped
<1> QED
  BY <1>1, <1>2, <1>3, <1>4, <1>5, OtherKeeps DEF Next, vars, control, outcome

\* To the code that posts work the context keeps its contract, for any
\* numbers of threads, queues and posts: a refusal only when a stop has begun,
\* one call at most of what it took, and no end before all it promised.
THEOREM ContextKeepsContract == Spec => ImplementsContract
<1> DEFINE Inv == IInv /\ WorkInv /\ CallsInv /\ HandshakeInv /\ PassInv /\ DoneInv /\ PathInv
<1>1. Init => Contract!ContractInit
  BY DEF Init, Contract!ContractInit, Due, Ready, ShuttingDown, Stopped
<1>2. Inv /\ [Next]_vars => [Contract!ContractNext]_(Contract!contractVars)
  <2> SUFFICES ASSUME Inv, [Next]_vars
               PROVE  Contract!ContractNext \/ UNCHANGED Contract!contractVars
    OBVIOUS
  <2>1. Contract!ContractNext \/ UNCHANGED ContractView
    BY StepContract
  <2>2. UNCHANGED ContractView => UNCHANGED Contract!contractVars
    BY DEF ContractView, Contract!contractVars, Given, Accepted, Refusals, Closing, Halted
  <2> QED
    BY <2>1, <2>2
<1>3. Spec => []Inv
  BY Inductive, WorkInductive, CallsCounted, Handshaken, Passed, DoneStays, PathStays, PTL
<1> HIDE DEF Inv
<1> QED
  BY <1>1, <1>2, <1>3, PTL DEF Spec, ImplementsContract, Contract!ContractSpec

-----------------------------------------------------------------------------
(* What a stop waits for                                                   *)

\* Position k of a pass, and of the loop of stop over the queues.
ShutAt(k) == IF k < NCqs THEN cqs[k].shutdown ELSE server_cqs[ServerAt(k)].shutdown

\* How far the loops of a stop have come; the threads in the vector run.
ProgressInv ==
  /\ \A c \in Callers :
       /\ spc[c] = "shutdown" => at < TotalCqs /\ \A k \in 0 .. at-1 : ShutAt(k)
       /\ spc[c] = "join" => \A k \in 0 .. TotalCqs-1 : ShutAt(k)
  /\ \A w \in threads : wpc[w] # "unborn"

\* Nothing opens a queue again.
LEMMA ShutStays ==
  ASSUME TypeOK, [Next]_vars
  PROVE  /\ \A c \in Cqs : cqs[c].shutdown => cqs'[c].shutdown
         /\ \A s \in Servers : server_cqs[s].shutdown => server_cqs'[s].shutdown
<1>0. cqs \in [Cqs -> QueueType(Items)] /\ server_cqs \in [Servers -> QueueType(Servers)]
  BY DEF TypeOK
<1>1. \A T, cq, e : cq \in QueueType(T) /\ cq.shutdown =>
        Start(cq, e).shutdown /\ Fire(cq, e).shutdown /\ TakeTag(cq, e).shutdown /\ ShutDown(cq).shutdown
  BY DEF Start, Fire, TakeTag, ShutDown, QueueType
<1>2. ASSUME NEW c \in Cqs, cqs[c].shutdown PROVE cqs'[c].shutdown
  <2>1. \/ cqs' = cqs
        \/ \E d, e : \/ cqs' = [cqs EXCEPT ![d] = Start(cqs[d], e)]
                      \/ cqs' = [cqs EXCEPT ![d] = Fire(cqs[d], e)]
                      \/ cqs' = [cqs EXCEPT ![d] = TakeTag(cqs[d], e)]
                      \/ cqs' = [cqs EXCEPT ![d] = ShutDown(cqs[d])]
    <3>1. ASSUME NEW x \in Items, PostCqBind(x)
          PROVE  cqs' = [cqs EXCEPT ![next_cq % NCqs] = Start(cqs[next_cq % NCqs], x)]
      BY <3>1 DEF PostCqBind
    <3>2. ASSUME NEW x \in Items, FireEvent(x)
          PROVE  \E d \in Cqs : cqs' = [cqs EXCEPT ![d] = Fire(cqs[d], x)]
      BY <3>2 DEF FireEvent
    <3>3. ASSUME NEW w \in Workers, WorkerGetOwn(w)
          PROVE  \E e : cqs' = [cqs EXCEPT ![OwnCq(w)] = TakeTag(cqs[OwnCq(w)], e)]
      BY <3>3 DEF WorkerGetOwn
    <3>4. ASSUME NEW u \in Callers, StopShutdown(u)
          PROVE  cqs' = cqs \/ cqs' = [cqs EXCEPT ![at] = ShutDown(cqs[at])]
      BY <3>4 DEF StopShutdown
    <3> QED
      BY <3>1, <3>2, <3>3, <3>4, CqsSteps
  <2>2. cqs[c] \in QueueType(Items)
    BY <1>0
  <2>3. \A e : /\ Start(cqs[c], e).shutdown /\ Fire(cqs[c], e).shutdown
               /\ TakeTag(cqs[c], e).shutdown /\ ShutDown(cqs[c]).shutdown
    BY <1>1, <1>2, <2>2
  <2> QED
    BY <1>0, <1>2, <2>1, <2>3
<1>3. ASSUME NEW s \in Servers, server_cqs[s].shutdown PROVE server_cqs'[s].shutdown
  <2>1. \/ server_cqs' = server_cqs
        \/ \E d, e : \/ server_cqs' = [server_cqs EXCEPT ![d] = Start(server_cqs[d], e)]
                      \/ server_cqs' = [server_cqs EXCEPT ![d] = Fire(server_cqs[d], e)]
                      \/ server_cqs' = [server_cqs EXCEPT ![d] = TakeTag(server_cqs[d], e)]
                      \/ server_cqs' = [server_cqs EXCEPT ![d] = ShutDown(server_cqs[d])]
    <3>1. ASSUME NEW t \in Servers, ServerInit(t)
          PROVE  server_cqs' = [server_cqs EXCEPT ![t] = Start(server_cqs[t], t)]
      BY <3>1 DEF ServerInit
    <3>2. ASSUME NEW t \in Servers, FireServer(t)
          PROVE  server_cqs' = [server_cqs EXCEPT ![t] = Fire(server_cqs[t], t)]
      BY <3>2 DEF FireServer
    <3>3. ASSUME NEW w \in Workers, WorkerGetServer(w)
          PROVE  \E d, e : server_cqs' = [server_cqs EXCEPT ![d] = TakeTag(server_cqs[d], e)]
      BY <3>3 DEF WorkerGetServer
    <3>4. ASSUME NEW u \in Callers, StopShutdown(u)
          PROVE  \/ server_cqs' = server_cqs
                 \/ \E d : server_cqs' = [server_cqs EXCEPT ![d] = ShutDown(server_cqs[d])]
      BY <3>4 DEF StopShutdown
    <3> QED
      BY <3>1, <3>2, <3>3, <3>4, ServerCqsSteps
  <2>2. server_cqs[s] \in QueueType(Servers)
    BY <1>0
  <2>3. \A e : /\ Start(server_cqs[s], e).shutdown /\ Fire(server_cqs[s], e).shutdown
               /\ TakeTag(server_cqs[s], e).shutdown /\ ShutDown(server_cqs[s]).shutdown
    BY <1>1, <1>3, <2>2
  <2> QED
    BY <1>0, <1>3, <2>1, <2>3
<1> QED
  BY <1>2, <1>3

\* A step of something else keeps what a stop has done.
LEMMA ShutAtStays ==
  ASSUME TypeOK, [Next]_vars, servers' = servers
  PROVE  /\ TotalCqs' = TotalCqs
         /\ \A k \in 0 .. TotalCqs-1 : ShutAt(k) => ShutAt(k)'
<1>1. TotalCqs' = TotalCqs /\ \A k : ServerAt(k)' = ServerAt(k)
  BY DEF TotalCqs, ServerAt
<1>2. ASSUME NEW k \in 0 .. TotalCqs-1, ShutAt(k) PROVE ShutAt(k)'
  <2>1. k < NCqs => k \in Cqs
    BY TotalIs DEF Cqs
  <2>2. ~(k < NCqs) => ServerAt(k) \in Servers
    BY TotalIs
  <2> QED
    BY <1>1, <1>2, <2>1, <2>2, ShutStays DEF ShutAt
<1> QED
  BY <1>1, <1>2

\* One round of the loop shuts one more queue down.
LEMMA StopShuts ==
  ASSUME TypeOK, SpawnInv, StopInv, ProgressInv, NEW c \in Callers, StopShutdown(c), [Next]_vars
  PROVE  /\ spc'[c] = "shutdown" => at' < TotalCqs' /\ \A k \in 0 .. at'-1 : ShutAt(k)'
         /\ spc'[c] = "join" => \A k \in 0 .. TotalCqs'-1 : ShutAt(k)'
<1>0. /\ servers' = servers /\ spc[c] = "shutdown" /\ at \in Nat
      /\ cqs \in [Cqs -> QueueType(Items)] /\ server_cqs \in [Servers -> QueueType(Servers)]
      /\ spc \in [Callers -> StopLabels]
  BY StopKeeps DEF StopShutdown, StopGoto, StopStep, TypeOK
<1>1. PICK m \in Nat : m = at
  BY <1>0
<1>2. m < TotalCqs /\ \A k \in 0 .. m-1 : ShutAt(k)
  BY <1>0, <1>1 DEF ProgressInv
<1>3. \A k \in 0 .. m-1 : ShutAt(k)'
  <2>1. \A k \in 0 .. m-1 : k \in 0 .. TotalCqs-1
    BY <1>2, TotalIs
  <2> QED
    BY <1>0, <1>2, <2>1, ShutAtStays
<1>4. ShutAt(m)'
  <2>1. CASE m < NCqs
    <3>1. cqs' = [cqs EXCEPT ![m] = ShutDown(@)] /\ m \in Cqs
      BY <1>0, <1>1, <2>1, TotalIs DEF StopShutdown, Cqs
    <3>2. cqs'[m].shutdown
      BY <1>0, <3>1 DEF ShutDown, QueueType
    <3> QED
      BY <2>1, <3>2 DEF ShutAt
  <2>2. CASE ~(m < NCqs)
    <3>1. server_cqs' = [server_cqs EXCEPT ![ServerAt(m)] = ShutDown(@)] /\ ServerAt(m) \in Servers
      BY <1>0, <1>1, <1>2, <2>2, TotalIs DEF StopShutdown
    <3>2. server_cqs'[ServerAt(m)].shutdown /\ ServerAt(m)' = servers'[m - NCqs + 1]
      BY <1>0, <3>1 DEF ShutDown, QueueType, ServerAt
    <3> QED
      BY <1>0, <2>2, <3>2 DEF ShutAt, ServerAt
  <2> QED
    BY <2>1, <2>2
<1>5. \A k \in 0 .. m : ShutAt(k)'
  BY <1>3, <1>4
<1>6. CASE spc' = [spc EXCEPT ![c] = "shutdown"] /\ m + 1 < TotalCqs /\ at' = m + 1
  BY <1>0, <1>5, <1>6, ShutAtStays
<1>7. CASE spc' = [spc EXCEPT ![c] = "join"] /\ m + 1 = TotalCqs
  BY <1>0, <1>5, <1>7, ShutAtStays
<1> QED
  BY <1>1, <1>6, <1>7 DEF StopShutdown, StopGoto

LEMMA StepProgress == IInv /\ LockInv /\ ProgressInv /\ [Next]_vars => ProgressInv'
<1> SUFFICES ASSUME TypeOK, SpawnInv, StopInv, LockInv, ProgressInv, [Next]_vars PROVE ProgressInv'
  BY DEF IInv
<1> USE DEF Ready, Running, ShuttingDown, Stopped
\* A step that moves no stop and ends no thread.
<1>1. ASSUME at' = at, threads' \subseteq threads, state # Ready => servers' = servers,
             \A c \in Callers : spc'[c] \in {"shutdown", "join"} => spc'[c] = spc[c],
             \A w \in Workers : wpc[w] # "unborn" => wpc'[w] # "unborn"
      PROVE  ProgressInv'
  <2>1. \A w \in threads' : wpc'[w] # "unborn"
    BY <1>1 DEF ProgressInv, TypeOK
  <2>2. ASSUME NEW c \in Callers, spc'[c] \in {"shutdown", "join"}
        PROVE  /\ spc'[c] = "shutdown" => at' < TotalCqs' /\ \A k \in 0 .. at'-1 : ShutAt(k)'
               /\ spc'[c] = "join" => \A k \in 0 .. TotalCqs'-1 : ShutAt(k)'
    <3>1. spc[c] = spc'[c] /\ servers' = servers
      BY <1>1, <2>2 DEF StopInv
    <3>2. PICK m \in Nat : m = at
      BY DEF TypeOK
    <3>3. /\ spc[c] = "shutdown" => m < TotalCqs /\ \A k \in 0 .. m-1 : ShutAt(k)
          /\ spc[c] = "join" => \A k \in 0 .. TotalCqs-1 : ShutAt(k)
      BY <3>2 DEF ProgressInv
    <3>4. spc[c] = "shutdown" => \A k \in 0 .. m-1 : k \in 0 .. TotalCqs-1
      BY <3>2, <3>3, TotalIs
    <3>5. /\ TotalCqs' = TotalCqs
          /\ \A k \in 0 .. TotalCqs-1 : ShutAt(k) => ShutAt(k)'
      BY <3>1, ShutAtStays
    <3> QED
      BY <1>1, <3>1, <3>2, <3>3, <3>4, <3>5
  <2> QED
    BY <2>1, <2>2 DEF ProgressInv
<1>2. ASSUME NEW c \in Callers, StopBegin(c) \/ StopStep(c) PROVE ProgressInv'
  <2>1. servers' = servers /\ wpc' = wpc
    BY <1>2, StopKeeps DEF workerVars
  <2>2. threads' \subseteq threads
    BY <1>2 DEF StopBegin, StopStep, StopWait, StopShutdown, StopJoin, StopClear, StopLock, StopSwap,
                StopNotify, control
  <2>3. \A d \in Callers \ {c} : spc'[d] = spc[d]
    BY <1>2 DEF StopBegin, StopStep, StopWait, StopShutdown, StopJoin, StopClear, StopLock, StopSwap,
                StopNotify, StopGoto, TypeOK
  <2>4. ASSUME spc[c] \in {"shutdown", "join"}, NEW d \in Callers \ {c}
        PROVE  spc'[d] \notin {"shutdown", "join"}
    BY <2>3, <2>4 DEF StopInv, Stopping
  <2>5. \A w \in threads' : wpc'[w] # "unborn"
    BY <2>1, <2>2 DEF ProgressInv
  <2>6. CASE StopShutdown(c)
    <3>1. spc[c] = "shutdown"
      BY <2>6 DEF StopShutdown, StopGoto
    <3> QED
      BY <2>4, <2>5, <2>6, <3>1, StopShuts DEF ProgressInv
  <2>7. CASE StopWait(c)
    <3>1. spc[c] = "wait" /\ spc'[c] = "shutdown" /\ at' = at
      BY <2>7 DEF StopWait, StopGoto, TypeOK
    <3>2. \A d \in Callers : spc[d] \notin {"shutdown", "join"}
      BY <3>1 DEF StopInv, Stopping
    <3>3. at = 0
      BY <3>2 DEF StopInv
    <3>4. at' < TotalCqs' /\ \A k \in 0 .. at'-1 : ShutAt(k)'
      <4>1. TotalCqs' = TotalCqs /\ TotalCqs \in Nat \ {0}
        BY <2>1, TotalIs DEF TotalCqs
      <4> QED
        BY <3>1, <3>3, <4>1
    <3> QED
      BY <2>3, <2>5, <3>1, <3>2, <3>4 DEF ProgressInv
  <2>8. CASE StopJoin(c)
    <3>1. spc[c] = "join" /\ spc'[c] = "join"
      BY <2>8 DEF StopJoin, StopGoto, TypeOK
    <3>2. \A k \in 0 .. TotalCqs-1 : ShutAt(k)
      BY <3>1 DEF ProgressInv
    <3>3. \A k \in 0 .. TotalCqs'-1 : ShutAt(k)'
      BY <2>1, <3>2, ShutAtStays
    <3> QED
      BY <2>4, <2>5, <3>1, <3>3 DEF ProgressInv
  <2>9. CASE StopClear(c)
    <3>1. spc[c] = "join" /\ spc'[c] = "lock"
      BY <2>9 DEF StopClear, StopGoto, TypeOK
    <3> QED
      BY <2>4, <2>5, <3>1 DEF ProgressInv
  <2>10. CASE StopBegin(c) \/ StopLock(c) \/ StopSwap(c) \/ StopNotify(c)
    <3>1. at' = at /\ spc'[c] \notin {"shutdown", "join"}
      BY <2>10 DEF StopBegin, StopLock, StopSwap, StopNotify, StopGoto, TypeOK
    <3> QED
      BY <1>1, <2>1, <2>2, <2>3, <3>1
  <2> QED
    BY <1>2, <2>6, <2>7, <2>8, <2>9, <2>10 DEF StopStep
<1>3. ASSUME NEW r \in Runners, RunSpawn(r) PROVE ProgressInv'
  <2>1. PICK k \in Workers :
          /\ threads = 0 .. k-1 /\ threads' = 0 .. k /\ wpc' = [wpc EXCEPT ![k] = "top"]
          /\ state = Running /\ UNCHANGED <<state, stopVars>>
    BY <1>3, SpawnIs
  <2>2. \A w \in threads' : w \in threads \/ w = k
    BY <2>1, NThreadsAssumption DEF Workers
  <2>3. \A c \in Callers : spc'[c] \notin {"shutdown", "join"}
    BY <2>1 DEF StopInv, stopVars
  <2> QED
    BY <2>1, <2>2, <2>3 DEF ProgressInv, TypeOK
<1>4. ASSUME NEW w \in Workers, Worker(w) PROVE ProgressInv'
  <2>1. /\ UNCHANGED <<at, threads, servers>>
        /\ \A c \in Callers : spc'[c] \in {"shutdown", "join"} => spc'[c] = spc[c]
        /\ \A v \in Workers : wpc[v] # "unborn" => wpc'[v] # "unborn"
    BY <1>4, WorkerKeeps DEF control, TypeOK
  <2> QED
    BY <1>1, <2>1
<1>5. CASE UNCHANGED <<at, threads, spc, wpc>>
  BY <1>1, <1>5, ServersStay
<1> QED
  BY <1>2, <1>3, <1>4, <1>5, PostKeeps, RunKeeps, OtherKeeps
  DEF Next, RunBegin, vars, control, stopVars, workerVars

LEMMA Progresses == Spec => []ProgressInv
<1>1. Init => ProgressInv
  BY DEF Init, ProgressInv
<1> QED
  BY <1>1, StepProgress, Inductive, Locked, PTL DEF Spec

LEMMA StepPadlock == IInv /\ PadlockIsReleased /\ [Next]_vars => PadlockIsReleased'
<1> SUFFICES ASSUME TypeOK, PadlockIsReleased, [Next]_vars PROVE PadlockIsReleased'
  BY DEF IInv
\* A step of somebody who is outside the critical sections.
<1>1. ASSUME padlock' = padlock,
             \A c \in Callers : spc[c] = "swap" => spc'[c] = "swap",
             \A n \in Notes : npc[n] \in {"push", "drop"} => npc'[n] = npc[n],
             \A s \in Servers : apc[s] \in {"push", "throw"} => apc'[s] = apc[s]
      PROVE  PadlockIsReleased'
  BY <1>1 DEF PadlockIsReleased
<1>2. ASSUME NEW c \in Callers, StopBegin(c) \/ StopStep(c) PROVE PadlockIsReleased'
  <2>1. npc' = npc /\ apc' = apc
    BY <1>2, StopKeeps
  <2>2. CASE StopLock(c)
    BY <2>2 DEF StopLock, StopGoto, PadlockIsReleased, TypeOK
  <2>3. CASE StopSwap(c)
    BY <2>3 DEF StopSwap, PadlockIsReleased
  <2>4. CASE StopBegin(c) \/ StopWait(c) \/ StopShutdown(c) \/ StopJoin(c) \/ StopClear(c) \/ StopNotify(c)
    <3>1. padlock' = padlock /\ spc[c] # "swap" /\ \A d \in Callers \ {c} : spc'[d] = spc[d]
      BY <2>4 DEF StopBegin, StopWait, StopShutdown, StopJoin, StopClear, StopNotify, StopGoto,
                  control, TypeOK
    <3> QED
      BY <1>1, <2>1, <3>1
  <2> QED
    BY <1>2, <2>2, <2>3, <2>4 DEF StopStep
<1>3. ASSUME NEW n \in Notes, NoteLock(n) PROVE PadlockIsReleased'
  BY <1>3 DEF NoteLock, NoteGoto, PadlockIsReleased, TypeOK
<1>4. ASSUME NEW s \in Servers, AttachLock(s) PROVE PadlockIsReleased'
  BY <1>4 DEF AttachLock, AttachGoto, PadlockIsReleased, TypeOK
<1>5. CASE (\E n \in Notes : NotePush(n)) \/ (\E s \in Servers : AttachPush(s))
  BY <1>5 DEF NotePush, AttachPush, PadlockIsReleased
<1>6. ASSUME NEW s \in Servers, ServerInit(s) PROVE PadlockIsReleased'
  BY <1>1, <1>6 DEF ServerInit, AttachGoto, control, stopVars, TypeOK
<1>7. ASSUME NEW w \in Workers, Worker(w) PROVE PadlockIsReleased'
  <2>1. \A c \in Callers : spc[c] = "swap" => spc'[c] = "swap"
    BY <1>7, WorkerKeeps DEF TypeOK
  <2> QED
    BY <1>1, <1>7, <2>1, WorkerKeeps DEF control
<1>8. CASE UNCHANGED <<padlock, spc, npc, apc>>
  BY <1>1, <1>8
<1> QED
  BY <1>2, <1>3, <1>4, <1>5, <1>6, <1>7, <1>8, PostKeeps, RunKeeps
  DEF Next, FireEvent, FireServer, vars, control, stopVars

\* No stop waits in vain: as long as one waits for the posts, for a thread or
\* for padlock_, there is a post inside, a thread that runs and whose queues
\* are all shut down, or a holder that is about to unlock.
THEOREM StopsWaitForSomething == Spec => []StopWaitsForSomething
<1>1. Init => PadlockIsReleased
  BY DEF Init, PadlockIsReleased
<1>2. ASSUME IInv, PassInv, ProgressInv, PadlockIsReleased, NEW c \in Callers
      PROVE  /\ spc[c] = "wait" /\ within_cq_post > 0 => \E x \in Items : ppc[x] \in CqPosting
             /\ spc[c] = "shutdown" => at < TotalCqs
             /\ spc[c] = "join" =>
                  /\ \A k \in Cqs : cqs[k].shutdown
                  /\ \A k \in DOMAIN servers : server_cqs[servers[k]].shutdown
                  /\ at # NThreads =>
                       /\ at \in threads /\ wpc[at] # "unborn" /\ pos[at] <= TotalCqs
                       /\ at = c \/ spc[at] \in {"idle", "returned"}
             /\ spc[c] = "lock" => PadlockIsReleased
  <2> USE <1>2 DEF IInv
  <2>1. within_cq_post > 0 => \E x \in Items : ppc[x] \in CqPosting
    <3>1. CqPosters = {} => within_cq_post = 0
      BY FS_EmptySet DEF CountInv
    <3> QED
      BY <3>1 DEF CqPosters
  <2>2. ASSUME spc[c] = "join", NEW k \in Cqs PROVE cqs[k].shutdown
    <3>1. k \in 0 .. TotalCqs-1 /\ k < NCqs
      BY TotalIs DEF Cqs
    <3> QED
      BY <2>2, <3>1 DEF ProgressInv, ShutAt
  <2>3. ASSUME spc[c] = "join", NEW k \in DOMAIN servers PROVE server_cqs[servers[k]].shutdown
    <3> DEFINE j == k + NCqs - 1
    <3>1. j \in 0 .. TotalCqs-1 /\ ~(j < NCqs) /\ j - NCqs + 1 = k
      BY TotalIs DEF TypeOK, TotalCqs
    <3> HIDE DEF j
    <3> QED
      BY <2>3, <3>1 DEF ProgressInv, ShutAt, ServerAt
  <2>4. ASSUME spc[c] = "join", at # NThreads
        PROVE  /\ at \in threads /\ wpc[at] # "unborn" /\ pos[at] <= TotalCqs
               /\ at = c \/ spc[at] \in {"idle", "returned"}
    <3>1. at <= NThreads /\ threads = at .. NThreads-1 /\ at \in Nat
      BY <2>4 DEF StopInv, TypeOK
    <3>2. at \in threads /\ at \in Workers
      BY <2>4, <3>1, NThreadsAssumption DEF Workers
    <3>3. pos[at] <= TotalCqs
      BY <3>2, TotalIs DEF PassInv, Seen
    <3>4. at = c \/ spc[at] \in {"idle", "returned"}
      BY <2>4, <3>2 DEF StopInv, Stopping, TypeOK, Callers, StopLabels
    <3> QED
      BY <3>2, <3>3, <3>4 DEF ProgressInv
  <2> QED
    BY <2>1, <2>2, <2>3, <2>4 DEF ProgressInv
<1>3. IInv /\ PassInv /\ ProgressInv /\ PadlockIsReleased => StopWaitsForSomething
  BY <1>2 DEF StopWaitsForSomething
<1> QED
  BY <1>1, <1>3, Inductive, Passed, Progresses, StepPadlock, PTL DEF Spec
=============================================================================
