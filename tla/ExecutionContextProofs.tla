----------------------- MODULE ExecutionContextProofs -----------------------
(***************************************************************************)
(* Safety of ExecutionContext for any numbers of threads and queues, any   *)
(* posts, servers, notifications, runners and stoppers: the protocol of    *)
(* run and stop, the handshake of stop with the posts, and padlock_.       *)
(***************************************************************************)
EXTENDS ExecutionContext, FiniteSetTheorems, TLAPS

\* within_cq_post_ counts the posts between its two updates.
CqPosters == {x \in Items : ppc[x] \in CqPosting}
CountInv == within_cq_post = Cardinality(CqPosters)

\* One run_while at most fills threads_, in order, and nobody stops the
\* context meanwhile; when it has returned threads_ is complete.
SpawnInv ==
  /\ state = Ready => threads = {}
  /\ \A r \in Runners : runpc[r] = "spawn" =>
       /\ state = Running
       /\ \E k \in Workers : threads = 0 .. k-1
       /\ \A q \in Runners : runpc[q] = "spawn" => q = r
  /\ state = Running /\ (\A r \in Runners : runpc[r] # "spawn") => threads = Workers
  /\ state \in {Ready, Running} => \A w \in Workers : w \notin threads => wpc[w] = "unborn"

\* One stop at most is under way; what it has done so far.
Stopping(c) == spc[c] \in {"wait", "shutdown", "join", "lock", "swap", "notify"}
StopInv ==
  /\ \A c \in Callers :
       /\ spc[c] \in {"wait", "shutdown", "join", "lock"} => state = ShuttingDown
       /\ spc[c] \in {"swap", "notify"} => state = Stopped
       /\ spc[c] \in {"wait", "shutdown"} => threads = Workers
       /\ spc[c] = "join" =>
            /\ at <= NThreads /\ threads = at .. NThreads-1
            /\ \A w \in Workers : w < at => wpc[w] = "exited"
       /\ spc[c] = "lock" => \A w \in Workers : wpc[w] = "exited"
       /\ \A d \in Callers : Stopping(c) /\ Stopping(d) => c = d
  /\ (\A c \in Callers : spc[c] \notin {"shutdown", "join"}) => at = 0
  /\ state = Stopped => \A w \in Workers : wpc[w] = "exited"

IInv == TypeOK /\ CountInv /\ SpawnInv /\ StopInv

-----------------------------------------------------------------------------
(* What the steps of posts and workers leave alone                         *)

LEMMA PostKeeps ==
  ASSUME NEW x \in Items, Post(x)
  PROVE  UNCHANGED <<control, server_cqs, workerVars, runpc, stopVars, npc, apc, ran, calls,
                     notified, terminated>>
BY DEF Post, PostThunk, PostInsert, PostCqEnter, PostCqCheck, PostCqBind, PostCqLeave, control,
       workerVars, stopVars, queueVars, outcome

LEMMA WorkerKeeps ==
  ASSUME TypeOK, NEW w \in Workers, Worker(w)
  PROVE  /\ UNCHANGED <<control, within_cq_post, next_cq, ppc, runpc, at, notes_due, npc, apc,
                        notified, settled, terminated>>
         /\ \E l \in WorkerLabels \ {"unborn"} : wpc' = [wpc EXCEPT ![w] = l]
         /\ wpc[w] \notin {"unborn", "exited"}
         /\ spc' = spc \/ (spc[w] = "returned" /\ spc' = [spc EXCEPT ![w] = "idle"])
BY DEF Worker, WorkerTop, WorkerPredicate, WorkerAfterStop, WorkerGetOwn, WorkerGetServer,
       WorkerGetNone, WorkerComplete, WorkerEndPass, WorkerPop, WorkerPopNothing, WorkerRun,
       WorkerEject, WorkerDrain, WorkerDrainCheck, WorkerDrainRun, WorkerGoto, StopGoto, control,
       workerVars, stopVars, queueVars, outcome, TypeOK, WorkerLabels

LEMMA OtherKeeps ==
  ASSUME \/ \E x \in Items : FireEvent(x)
         \/ \E n \in Notes : NoteLock(n) \/ NotePush(n)
         \/ \E s \in Servers : ServerInit(s) \/ FireServer(s) \/ AttachLock(s) \/ AttachPush(s)
  PROVE  UNCHANGED <<state, threads, within_cq_post, next_cq, poolVars, ppc, workerVars, runpc,
                     stopVars, ran, calls, notified, settled, terminated>>
BY DEF FireEvent, NoteLock, NotePush, ServerInit, FireServer, AttachLock, AttachPush, control,
       queueVars, outcome

LEMMA StopKeeps ==
  ASSUME NEW c \in Callers, StopBegin(c) \/ StopStep(c)
  PROVE  UNCHANGED <<servers, within_cq_post, next_cq, poolVars, ppc, workerVars, runpc, npc, apc,
                     ran, calls, heap, settled>>
BY DEF StopBegin, StopStep, StopWait, StopShutdown, StopJoin, StopClear, StopLock, StopSwap,
       StopNotify, control, queueVars, outcome

LEMMA RunKeeps ==
  ASSUME NEW r \in Runners, RunBegin(r) \/ RunSpawn(r)
  PROVE  UNCHANGED <<padlock, servers, notifications, queueVars, server_cqs, poolVars, ppc, pos,
                     shut, hand, stopVars, npc, apc, outcome>>
BY DEF RunBegin, RunSpawn, workerVars

-----------------------------------------------------------------------------
LEMMA InitIInv == Init => IInv
<1> SUFFICES ASSUME Init PROVE IInv
  OBVIOUS
<1>1. TypeOK
  <2>1. \A T : NewQueue \in QueueType(T)
    BY DEF NewQueue, QueueType
  <2>2. cqs \in [Cqs -> QueueType(Items)] /\ server_cqs \in [Servers -> QueueType(Servers)]
    BY <2>1 DEF Init
  <2>3. servers \in Seq(Servers)
    BY DEF Init
  <2>4. TP!PoolTypeOK
    BY DEF Init, TP!PoolInit, TP!PoolTypeOK
  <2>5. next_cq \in 0 .. IndexMod-1 /\ state \in Ready .. Stopped /\ within_cq_post \in Nat /\ at \in Nat
    BY IndexModIsPositive DEF Init, Ready, Stopped
  <2>6. /\ pos \in [Workers -> Nat] /\ shut \in [Workers -> Nat] /\ hand \in [Workers -> SUBSET Tags]
        /\ ppc \in [Items -> PostLabels] /\ wpc \in [Workers -> WorkerLabels]
        /\ runpc \in [Runners -> RunLabels] /\ spc \in [Callers -> StopLabels]
        /\ npc \in [Notes -> NoteLabels] /\ apc \in [Servers -> AttachLabels]
    BY DEF Init, PostLabels, WorkerLabels, RunLabels, StopLabels, NoteLabels, AttachLabels
  <2> QED
    BY <2>2, <2>3, <2>4, <2>5, <2>6 DEF Init, TypeOK
<1>2. CqPosters = {}
  BY DEF Init, CqPosters, CqPosting
<1>3. CountInv
  BY <1>2, FS_EmptySet DEF Init, CountInv
<1>4. SpawnInv
  BY DEF Init, SpawnInv, Ready, Running
<1>5. StopInv
  BY DEF Init, StopInv, Stopping, Ready, Stopped
<1> QED
  BY <1>1, <1>3, <1>4, <1>5 DEF IInv

-----------------------------------------------------------------------------
(* Posts                                                                   *)

LEMMA CountIs ==
  ASSUME TypeOK
  PROVE  /\ IsFiniteSet(CqPosters) /\ Cardinality(CqPosters) \in Nat
         /\ CountInv /\ within_cq_post = 0 => CqPosters = {}
<1>1. IsFiniteSet(CqPosters)
  BY ItemsAssumption, FS_Subset DEF CqPosters
<1> QED
  BY <1>1, FS_CardinalityType, FS_EmptySet DEF CountInv

LEMMA PostCounts ==
  ASSUME TypeOK, CountInv, NEW x \in Items, Post(x)
  PROVE  within_cq_post' \in Nat /\ CountInv'
<1> USE DEF CqPosting, PostLabels
<1>1. CASE PostCqEnter(x)
  <2>1. CqPosters' = CqPosters \cup {x} /\ x \notin CqPosters
    BY <1>1 DEF PostCqEnter, PostGoto, TypeOK, CqPosters
  <2>2. Cardinality(CqPosters \cup {x}) = Cardinality(CqPosters) + 1
    BY <2>1, CountIs, FS_AddElement
  <2> QED
    BY <1>1, <2>1, <2>2, CountIs DEF PostCqEnter, CountInv
<1>2. CASE PostCqLeave(x)
  <2>1. CqPosters' = CqPosters \ {x} /\ x \in CqPosters
    BY <1>2 DEF PostCqLeave, PostGoto, TypeOK, CqPosters
  <2> QED
    BY <1>2, <2>1, CountIs, FS_RemoveElement DEF PostCqLeave, CountInv
<1>3. CASE PostThunk(x) \/ PostInsert(x) \/ PostCqCheck(x) \/ PostCqBind(x)
  <2>1. CqPosters' = CqPosters
    BY <1>3 DEF PostThunk, PostInsert, PostCqCheck, PostCqBind, PostGoto, TypeOK, CqPosters
  <2> QED
    BY <1>3, <2>1, CountIs
    DEF PostThunk, PostInsert, PostCqCheck, PostCqBind, CountInv, queueVars
<1> QED
  BY <1>1, <1>2, <1>3 DEF Post

LEMMA QueueTypes ==
  \A T, cq, e : cq \in QueueType(T) =>
    /\ cq.pending \subseteq T /\ cq.ready \subseteq T /\ cq.shutdown \in BOOLEAN
    /\ e \in T => Start(cq, e) \in QueueType(T) /\ Fire(cq, e) \in QueueType(T)
    /\ TakeTag(cq, e) \in QueueType(T) /\ ShutDown(cq) \in QueueType(T)
<1> SUFFICES ASSUME NEW T, NEW cq, NEW e, cq \in QueueType(T)
             PROVE  /\ cq.pending \subseteq T /\ cq.ready \subseteq T /\ cq.shutdown \in BOOLEAN
                    /\ e \in T => Start(cq, e) \in QueueType(T) /\ Fire(cq, e) \in QueueType(T)
                    /\ TakeTag(cq, e) \in QueueType(T) /\ ShutDown(cq) \in QueueType(T)
  OBVIOUS
<1>1. cq.pending \subseteq T /\ cq.ready \subseteq T /\ cq.shutdown \in BOOLEAN
  BY DEF QueueType
<1>2. e \in T => Start(cq, e) \in QueueType(T)
  BY DEF QueueType, Start
<1>3. e \in T => Fire(cq, e) \in QueueType(T)
  BY DEF QueueType, Fire
<1>4. TakeTag(cq, e) \in QueueType(T) /\ ShutDown(cq) \in QueueType(T)
  BY DEF QueueType, TakeTag, ShutDown
<1> QED
  BY <1>1, <1>2, <1>3, <1>4

LEMMA IndexIs == \A k \in Nat : k % NCqs \in Cqs /\ k % IndexMod \in 0 .. IndexMod-1
BY NCqsAssumption, IndexModIsPositive DEF Cqs

LEMMA PostType ==
  ASSUME TypeOK, CountInv, NEW x \in Items, Post(x)
  PROVE  TypeOK'
<1>1. within_cq_post' \in Nat
  BY PostCounts
<1>2. ppc' \in [Items -> PostLabels]
  BY DEF Post, PostThunk, PostInsert, PostCqEnter, PostCqCheck, PostCqBind, PostCqLeave, PostGoto,
         PostLabels, CqPosting, TypeOK
<1>3. cqs' \in [Cqs -> QueueType(Items)] /\ next_cq' \in 0 .. IndexMod-1 /\ heap' \subseteq Tags
  <2>1. CASE PostCqBind(x)
    <3>1. next_cq \in Nat
      BY IndexModIsPositive DEF TypeOK
    <3>2. next_cq % NCqs \in Cqs /\ (next_cq + 1) % IndexMod \in 0 .. IndexMod-1
      BY <3>1, IndexIs
    <3>3. Start(cqs[next_cq % NCqs], x) \in QueueType(Items)
      BY <3>2, QueueTypes DEF TypeOK
    <3> QED
      BY <2>1, <3>2, <3>3 DEF PostCqBind, TypeOK, Tags
  <2>2. CASE UNCHANGED <<cqs, next_cq, heap>>
    BY <2>2 DEF TypeOK
  <2> QED
    BY <2>1, <2>2 DEF Post, PostThunk, PostInsert, PostCqEnter, PostCqCheck, PostCqLeave,
                      queueVars, outcome
<1>4. TP!PoolTypeOK' /\ settled' \subseteq Thunks \cup Deadlined
  BY DEF Post, PostThunk, PostInsert, PostCqEnter, PostCqCheck, PostCqBind, PostCqLeave, TypeOK,
         TP!PoolTypeOK, TP!Admit, TP!Refuse, TP!Accept, poolVars, outcome
<1> QED
  BY <1>1, <1>2, <1>3, <1>4, PostKeeps DEF TypeOK, control, workerVars, stopVars

-----------------------------------------------------------------------------
(* Workers                                                                 *)

LEMMA OwnIs == ASSUME TypeOK, NEW w \in Workers PROVE OwnCq(w) \in Cqs
<1>1. w + pos[w] \in Nat
  BY NThreadsAssumption DEF TypeOK, Workers
<1> QED
  BY <1>1, IndexIs DEF OwnCq

LEMMA WorkerType ==
  ASSUME TypeOK, NEW w \in Workers, Worker(w)
  PROVE  TypeOK'
<1>1. wpc' \in [Workers -> WorkerLabels] /\ spc' \in [Callers -> StopLabels]
  BY WorkerKeeps DEF TypeOK, StopLabels
<1>2. pos' \in [Workers -> Nat] /\ shut' \in [Workers -> Nat]
  <2>1. pos \in [Workers -> Nat] /\ shut \in [Workers -> Nat] /\ NCqs \in Nat
    BY NCqsAssumption DEF TypeOK
  <2>2. /\ pos' = pos \/ \E k \in {0, NCqs, pos[w] + 1} : pos' = [pos EXCEPT ![w] = k]
        /\ shut' = shut \/ \E k \in {0, shut[w], shut[w] + 1} : shut' = [shut EXCEPT ![w] = k]
    <3>1. CASE WorkerGetOwn(w) \/ WorkerGetServer(w)
      BY <3>1 DEF WorkerGetOwn, WorkerGetServer
    <3>2. CASE WorkerGetNone(w)
      BY <3>2 DEF WorkerGetNone
    <3>3. CASE WorkerEndPass(w)
      BY <3>3 DEF WorkerEndPass
    <3>4. CASE UNCHANGED <<pos, shut>>
      BY <3>4
    <3> QED
      BY <3>1, <3>2, <3>3, <3>4
      DEF Worker, WorkerTop, WorkerPredicate, WorkerAfterStop, WorkerComplete, WorkerPop,
          WorkerPopNothing, WorkerRun, WorkerEject, WorkerDrain, WorkerDrainCheck, WorkerDrainRun,
          workerVars
  <2>3. pos[w] + 1 \in Nat /\ shut[w] + 1 \in Nat /\ shut[w] \in Nat
    BY <2>1
  <2> QED
    BY <2>1, <2>2, <2>3
<1>3. /\ cqs' \in [Cqs -> QueueType(Items)] /\ server_cqs' \in [Servers -> QueueType(Servers)]
      /\ hand' \in [Workers -> SUBSET Tags] /\ TP!PoolTypeOK' /\ ran' \subseteq Tags
      /\ heap' \subseteq Tags
  <2>1. CASE WorkerGetOwn(w)
    <3>1. PICK e \in cqs[OwnCq(w)].ready : /\ cqs' = [cqs EXCEPT ![OwnCq(w)] = TakeTag(@, e)]
                                           /\ hand' = [hand EXCEPT ![w] = {e}]
      BY <2>1 DEF WorkerGetOwn
    <3>2. e \in Items /\ TakeTag(cqs[OwnCq(w)], e) \in QueueType(Items)
      <4>1. cqs[OwnCq(w)] \in QueueType(Items)
        BY OwnIs DEF TypeOK
      <4> QED
        BY <3>1, <4>1, QueueTypes
    <3> QED
      BY <2>1, <3>1, <3>2 DEF WorkerGetOwn, TypeOK, Tags, outcome, poolVars, TP!PoolTypeOK
  <2>2. CASE WorkerGetServer(w)
    <3> DEFINE s == ServerAt(pos[w])
    <3>1. PICK e \in server_cqs[s].ready : /\ server_cqs' = [server_cqs EXCEPT ![s] = TakeTag(@, e)]
                                           /\ hand' = [hand EXCEPT ![w] = {e}]
      BY <2>2 DEF WorkerGetServer
    <3>2. s \in Servers
      BY <2>2, NCqsAssumption DEF WorkerGetServer, ServerAt, TotalCqs, TypeOK
    <3>3. e \in Servers /\ TakeTag(server_cqs[s], e) \in QueueType(Servers)
      <4>1. server_cqs[s] \in QueueType(Servers)
        BY <3>2 DEF TypeOK
      <4> HIDE DEF s
      <4> QED
        BY <3>1, <4>1, QueueTypes
    <3> HIDE DEF s
    <3> QED
      BY <2>2, <3>1, <3>2, <3>3
      DEF WorkerGetServer, TypeOK, Tags, outcome, queueVars, poolVars, TP!PoolTypeOK
  <2>3. CASE WorkerComplete(w) \/ WorkerRun(w) \/ WorkerDrainRun(w)
    BY <2>3 DEF WorkerComplete, WorkerRun, WorkerDrainRun, TypeOK, queueVars, poolVars, TP!PoolTypeOK
  <2>4. CASE WorkerPop(w) \/ WorkerDrain(w)
    <3>1. pool \subseteq Tags /\ pool \subseteq Thunks \cup Deadlined
      BY DEF TypeOK, TP!PoolTypeOK, Tags, Items
    <3>2. hand' \in [Workers -> SUBSET Tags]
      BY <2>4, <3>1 DEF WorkerPop, WorkerDrain, TypeOK
    <3>3. TP!PoolTypeOK'
      BY <2>4, <3>1 DEF WorkerPop, WorkerDrain, TP!Take, TypeOK, poolVars, TP!PoolTypeOK
    <3> QED
      BY <2>4, <3>2, <3>3 DEF WorkerPop, WorkerDrain, TypeOK, outcome, queueVars
  <2>5. CASE WorkerEject(w)
    BY <2>5 DEF WorkerEject, TP!SignalDone, TypeOK, outcome, queueVars, TP!PoolTypeOK
  <2>6. CASE UNCHANGED <<cqs, server_cqs, hand, poolVars, ran, heap>>
    BY <2>6 DEF TypeOK, poolVars, TP!PoolTypeOK
  <2> QED
    BY <2>1, <2>2, <2>3, <2>4, <2>5, <2>6
    DEF Worker, WorkerTop, WorkerPredicate, WorkerAfterStop, WorkerGetNone, WorkerEndPass,
        WorkerPopNothing, WorkerDrainCheck, workerVars, queueVars, outcome
<1>4. calls' \in [Items -> Nat]
  <2>1. calls' = calls \/ \E S : Called(S)
    BY DEF Worker, WorkerTop, WorkerPredicate, WorkerAfterStop, WorkerGetOwn, WorkerGetServer,
           WorkerGetNone, WorkerComplete, WorkerEndPass, WorkerPop, WorkerPopNothing, WorkerRun,
           WorkerEject, WorkerDrain, WorkerDrainCheck, WorkerDrainRun, outcome
  <2>2. ASSUME NEW S, Called(S) PROVE calls' \in [Items -> Nat]
    <3>1. \A x \in Items : calls[x] \in Nat /\ calls[x] + 1 \in Nat
      BY DEF TypeOK
    <3> QED
      BY <2>2, <3>1, Zenon DEF Called
  <2> QED
    BY <2>1, <2>2 DEF TypeOK
<1> QED
  BY <1>1, <1>2, <1>3, <1>4, WorkerKeeps DEF TypeOK, control

-----------------------------------------------------------------------------
(* run, stop, notifications and servers                                    *)

LEMMA SpawnIs ==
  ASSUME TypeOK, SpawnInv, NEW r \in Runners, RunSpawn(r)
  PROVE  \E k \in Workers :
           /\ threads = 0 .. k-1 /\ threads' = 0 .. k
           /\ wpc' = [wpc EXCEPT ![k] = "top"]
           /\ runpc' = [runpc EXCEPT ![r] = IF k = NThreads-1 THEN "returned" ELSE "spawn"]
           /\ state = Running /\ runpc[r] = "spawn" /\ wpc[k] = "unborn"
           /\ UNCHANGED <<state, padlock, servers, notifications, queueVars, server_cqs, poolVars,
                          ppc, pos, shut, hand, stopVars, npc, apc, outcome>>
<1>1. runpc[r] = "spawn"
  BY DEF RunSpawn, RunGoto
<1>2. PICK k \in Workers : threads = 0 .. k-1
  BY <1>1 DEF SpawnInv
<1>3. k \in Nat /\ Cardinality(threads) = k
  BY <1>2, NThreadsAssumption, FS_Interval DEF Workers
<1>4. threads \cup {k} = 0 .. k
  BY <1>2, <1>3
<1>5. state = Running /\ wpc[k] = "unborn"
  BY <1>1, <1>2, <1>3 DEF SpawnInv
<1>6. k + 1 = NThreads <=> k = NThreads-1
  BY <1>3, NThreadsAssumption
<1> QED
  BY <1>1, <1>2, <1>3, <1>4, <1>5, <1>6 DEF RunSpawn, RunGoto

LEMMA RunType ==
  ASSUME TypeOK, SpawnInv, NEW r \in Runners, RunBegin(r) \/ RunSpawn(r)
  PROVE  TypeOK'
<1>1. CASE RunBegin(r)
  <2>1. state' \in Ready .. Stopped
    BY <1>1 DEF RunBegin, TypeOK, Ready, Running, Stopped
  <2>2. runpc' \in [Runners -> RunLabels]
    BY <1>1 DEF RunBegin, RunGoto, TypeOK, RunLabels
  <2> QED
    BY <1>1, <2>1, <2>2 DEF RunBegin, TypeOK, queueVars, poolVars, workerVars, stopVars, outcome,
                      TP!PoolTypeOK
<1>2. CASE RunSpawn(r)
  <2>1. PICK k \in Workers : /\ threads' = 0 .. k /\ wpc' = [wpc EXCEPT ![k] = "top"]
                             /\ runpc' = [runpc EXCEPT ![r] = IF k = NThreads-1 THEN "returned" ELSE "spawn"]
    BY <1>2, SpawnIs
  <2>2. threads' \subseteq Workers
    BY <2>1, NThreadsAssumption DEF Workers
  <2>3. runpc' \in [Runners -> RunLabels] /\ wpc' \in [Workers -> WorkerLabels]
    BY <2>1 DEF TypeOK, RunLabels, WorkerLabels
  <2> QED
    BY <1>2, <2>2, <2>3 DEF RunSpawn, TypeOK, queueVars, poolVars, stopVars, outcome, TP!PoolTypeOK
<1> QED
  BY <1>1, <1>2

LEMMA StopType ==
  ASSUME TypeOK, NEW c \in Callers, StopBegin(c) \/ StopStep(c)
  PROVE  TypeOK'
<1> USE DEF Ready, Running, ShuttingDown, Stopped
<1>1. spc' \in [Callers -> StopLabels]
  BY DEF StopBegin, StopStep, StopWait, StopShutdown, StopJoin, StopClear, StopLock, StopSwap,
         StopNotify, StopGoto, TypeOK, StopLabels
<1>2. state' \in Ready .. Stopped /\ at' \in Nat
  BY DEF StopBegin, StopStep, StopWait, StopShutdown, StopJoin, StopClear, StopLock, StopSwap,
         StopNotify, TypeOK, control
<1> HIDE DEF Ready, Running, ShuttingDown, Stopped
<1>5. /\ threads' \subseteq Workers /\ terminated' \in BOOLEAN
      /\ padlock' \in Callers \cup Notes \cup Servers \cup {None}
  BY DEF StopBegin, StopStep, StopWait, StopShutdown, StopJoin, StopClear, StopLock, StopSwap,
         StopNotify, TypeOK, control, outcome
<1>6. notifications' \subseteq Notes /\ notes_due' \subseteq Notes /\ notified' \subseteq Notes
  BY DEF StopBegin, StopStep, StopWait, StopShutdown, StopJoin, StopClear, StopLock, StopSwap,
         StopNotify, TypeOK, control, outcome
<1>3. cqs' \in [Cqs -> QueueType(Items)] /\ server_cqs' \in [Servers -> QueueType(Servers)]
  <2>1. CASE StopShutdown(c)
    <3>1. CASE at < NCqs /\ cqs' = [cqs EXCEPT ![at] = ShutDown(@)] /\ UNCHANGED server_cqs
      <4>1. at \in Cqs
        BY <3>1, NCqsAssumption DEF TypeOK, Cqs
      <4>2. cqs[at] \in QueueType(Items)
        BY <4>1 DEF TypeOK
      <4>3. ShutDown(cqs[at]) \in QueueType(Items)
        BY <4>2, QueueTypes
      <4> QED
        BY <3>1, <4>1, <4>3 DEF TypeOK
    <3>2. CASE NCqs <= at /\ server_cqs' = [server_cqs EXCEPT ![ServerAt(at)] = ShutDown(@)] /\ UNCHANGED cqs
      BY <3>2, QueueTypes DEF TypeOK
    <3> QED
      BY <2>1, <3>1, <3>2 DEF StopShutdown
  <2>2. CASE UNCHANGED <<cqs, server_cqs>>
    BY <2>2 DEF TypeOK
  <2> QED
    BY <2>1, <2>2 DEF StopBegin, StopStep, StopWait, StopJoin, StopClear, StopLock, StopSwap,
                      StopNotify, queueVars
<1> QED
  BY <1>1, <1>2, <1>3, <1>5, <1>6, StopKeeps DEF TypeOK, workerVars, poolVars, TP!PoolTypeOK

LEMMA OtherType ==
  ASSUME TypeOK,
         \/ \E x \in Items : FireEvent(x)
         \/ \E n \in Notes : NoteLock(n) \/ NotePush(n)
         \/ \E s \in Servers : ServerInit(s) \/ FireServer(s) \/ AttachLock(s) \/ AttachPush(s)
  PROVE  TypeOK'
<1>1. ASSUME NEW x \in Items, FireEvent(x) PROVE TypeOK'
  <2>1. PICK c \in Cqs : cqs' = [cqs EXCEPT ![c] = Fire(@, x)]
    BY <1>1 DEF FireEvent
  <2>2. cqs' \in [Cqs -> QueueType(Items)]
    BY <2>1, QueueTypes DEF TypeOK
  <2> QED
    BY <1>1, <2>2 DEF FireEvent, TypeOK, control, poolVars, workerVars, stopVars, outcome, TP!PoolTypeOK
<1>2. ASSUME NEW n \in Notes, NoteLock(n) \/ NotePush(n) PROVE TypeOK'
  BY <1>2 DEF NoteLock, NotePush, NoteGoto, TypeOK, NoteLabels, queueVars, poolVars, workerVars,
              stopVars, outcome, TP!PoolTypeOK
<1>3. ASSUME NEW s \in Servers, ServerInit(s) \/ FireServer(s) PROVE TypeOK'
  <2>1. server_cqs' \in [Servers -> QueueType(Servers)]
    <3>1. server_cqs[s] \in QueueType(Servers)
      BY DEF TypeOK
    <3>2. /\ Start(server_cqs[s], s) \in QueueType(Servers)
          /\ Fire(server_cqs[s], s) \in QueueType(Servers)
      BY <3>1, QueueTypes
    <3> QED
      BY <1>3, <3>2 DEF ServerInit, FireServer, TypeOK
  <2>2. apc' \in [Servers -> AttachLabels] /\ heap' \subseteq Tags
    BY <1>3 DEF ServerInit, FireServer, AttachGoto, TypeOK, AttachLabels, outcome, Tags
  <2> QED
    BY <1>3, <2>1, <2>2 DEF ServerInit, FireServer, TypeOK, control, queueVars, poolVars, workerVars,
                            stopVars, outcome, TP!PoolTypeOK
<1>4. ASSUME NEW s \in Servers, AttachLock(s) \/ AttachPush(s) PROVE TypeOK'
  <2>1. servers' \in Seq(Servers)
    <3>1. servers \in Seq(Servers) /\ Append(servers, s) \in Seq(Servers)
      BY DEF TypeOK
    <3> QED
      BY <1>4, <3>1 DEF AttachLock, AttachPush
  <2>2. apc' \in [Servers -> AttachLabels]
    BY <1>4 DEF AttachLock, AttachPush, AttachGoto, TypeOK, AttachLabels
  <2> QED
    BY <1>4, <2>1, <2>2 DEF AttachLock, AttachPush, TypeOK, queueVars, poolVars, workerVars,
                            stopVars, outcome, TP!PoolTypeOK
<1> QED
  BY <1>1, <1>2, <1>3, <1>4

-----------------------------------------------------------------------------
(* The protocol of run and stop                                            *)

\* A step that starts, ends and stops no thread.
LEMMA WorkersProtocol ==
  ASSUME TypeOK, SpawnInv, StopInv, UNCHANGED <<state, threads, runpc, at>>,
         \A w \in Workers : \/ wpc'[w] = wpc[w]
                            \/ wpc[w] \notin {"unborn", "exited"} /\ wpc'[w] # "unborn",
         \A c \in Callers : spc'[c] = spc[c] \/ (spc[c] = "returned" /\ spc'[c] = "idle")
  PROVE  SpawnInv' /\ StopInv'
<1>1. SpawnInv'
  BY DEF SpawnInv
<1>2. \A c \in Callers : /\ Stopping(c)' => Stopping(c)
                         /\ spc[c] \in {"shutdown", "join"} => spc'[c] = spc[c]
                         /\ Stopping(c)' => spc'[c] = spc[c]
  BY DEF Stopping
<1>3. \A w \in Workers : wpc[w] = "exited" => wpc'[w] = "exited"
  OBVIOUS
<1>4. StopInv'
  BY <1>2, <1>3 DEF StopInv, Stopping
<1> QED
  BY <1>1, <1>4

LEMMA RunProtocol ==
  ASSUME TypeOK, SpawnInv, StopInv, NEW r \in Runners, RunBegin(r) \/ RunSpawn(r)
  PROVE  SpawnInv' /\ StopInv'
<1> USE DEF Ready, Running, ShuttingDown, Stopped
<1>0. spc' = spc /\ at' = at
  BY RunKeeps DEF stopVars
<1>1. CASE RunBegin(r)
  <2>0. threads' = threads /\ wpc' = wpc
    BY <1>1 DEF RunBegin, workerVars
  <2>1. CASE state = Ready
    <3>1. state' = Running /\ runpc' = [runpc EXCEPT ![r] = "spawn"]
      BY <1>1, <2>1 DEF RunBegin, RunGoto
    <3>2. threads = 0 .. 0-1 /\ 0 \in Workers
      BY <2>1, NThreadsAssumption DEF SpawnInv, Workers
    <3>3. SpawnInv'
      BY <2>0, <2>1, <3>1, <3>2 DEF SpawnInv, TypeOK
    <3>4. \A c \in Callers : ~Stopping(c)
      BY <2>1 DEF StopInv, Stopping
    <3>5. StopInv'
      BY <1>0, <3>1, <3>4 DEF StopInv, Stopping
    <3> QED
      BY <3>3, <3>5
  <2>2. CASE state # Ready
    <3>1. state' = state /\ runpc' = [runpc EXCEPT ![r] = "returned"] /\ runpc[r] = "idle"
      BY <1>1, <2>2 DEF RunBegin, RunGoto
    <3>2. \A q \in Runners : runpc'[q] = "spawn" <=> runpc[q] = "spawn"
      BY <3>1 DEF TypeOK
    <3>3. SpawnInv'
      BY <2>0, <3>1, <3>2 DEF SpawnInv
    <3>4. StopInv'
      BY <1>0, <2>0, <3>1 DEF StopInv, Stopping
    <3> QED
      BY <3>3, <3>4
  <2> QED
    BY <2>1, <2>2
<1>2. CASE RunSpawn(r)
  <2>1. PICK k \in Workers :
           /\ threads = 0 .. k-1 /\ threads' = 0 .. k
           /\ wpc' = [wpc EXCEPT ![k] = "top"]
           /\ runpc' = [runpc EXCEPT ![r] = IF k = NThreads-1 THEN "returned" ELSE "spawn"]
           /\ state = Running /\ state' = state /\ runpc[r] = "spawn"
    BY <1>2, SpawnIs
  <2>2. \A q \in Runners : runpc'[q] = "spawn" => q = r
    BY <2>1 DEF SpawnInv, TypeOK
  <2>3. ASSUME runpc'[r] = "spawn" PROVE \E j \in Workers : threads' = 0 .. j-1
    <3>1. k # NThreads-1
      BY <2>1, <2>3 DEF TypeOK
    <3>2. k+1 \in Workers /\ threads' = 0 .. (k+1)-1
      BY <2>1, <3>1, NThreadsAssumption DEF Workers
    <3> QED
      BY <3>2
  <2>4. ASSUME runpc'[r] # "spawn" PROVE threads' = Workers
    BY <2>1, <2>4 DEF TypeOK, Workers
  <2>5. \A w \in Workers : w \notin threads' => w # k /\ w \notin threads
    BY <2>1, NThreadsAssumption DEF Workers
  <2>6. \A w \in Workers : w \notin threads' => wpc'[w] = "unborn"
    BY <2>1, <2>5 DEF SpawnInv, TypeOK
  <2>7. SpawnInv'
    BY <2>1, <2>2, <2>3, <2>4, <2>6 DEF SpawnInv
  <2>8. \A c \in Callers : ~Stopping(c)
    BY <2>1 DEF StopInv, Stopping
  <2>9. StopInv'
    BY <1>0, <2>1, <2>8 DEF StopInv, Stopping
  <2> QED
    BY <2>7, <2>9
<1> QED
  BY <1>1, <1>2

LEMMA StopProtocol ==
  ASSUME TypeOK, SpawnInv, StopInv, NEW c \in Callers, StopBegin(c) \/ StopStep(c)
  PROVE  SpawnInv' /\ StopInv'
<1> USE DEF Ready, Running, ShuttingDown, Stopped
<1>0. wpc' = wpc /\ runpc' = runpc
  BY StopKeeps DEF workerVars
<1>1. CASE StopBegin(c) /\ state = Running
  <2>1. /\ state' = ShuttingDown /\ threads' = threads /\ at' = at
        /\ spc[c] = "idle" /\ spc' = [spc EXCEPT ![c] = "wait"]
        /\ \A r \in Runners : runpc[r] # "spawn"
    BY <1>1 DEF StopBegin, StopGoto
  <2>2. threads = Workers
    BY <1>1, <2>1 DEF SpawnInv
  <2>3. \A d \in Callers : ~Stopping(d)
    BY <1>1 DEF StopInv, Stopping
  <2>4. \A d \in Callers : d # c => spc'[d] = spc[d]
    BY <2>1 DEF TypeOK
  <2>5. spc'[c] = "wait"
    BY <2>1 DEF TypeOK
  <2>6. SpawnInv'
    BY <1>0, <2>1 DEF SpawnInv
  <2>7. \A d \in Callers : spc[d] \notin {"shutdown", "join"}
    BY <2>3 DEF Stopping
  <2>8. at' = 0
    BY <2>1, <2>7 DEF StopInv
  <2>9. StopInv'
    BY <1>0, <2>1, <2>2, <2>3, <2>4, <2>5, <2>8 DEF StopInv, Stopping
  <2> QED
    BY <2>6, <2>9
<1>2. CASE StopBegin(c) /\ state # Running
  <2>1. /\ state' = state /\ threads' = threads /\ at' = at
        /\ spc[c] = "idle" /\ spc' = [spc EXCEPT ![c] = "returned"]
    BY <1>2 DEF StopBegin, StopGoto
  <2>2. \A d \in Callers : spc'[d] = spc[d] \/ (spc[d] = "idle" /\ spc'[d] = "returned")
    BY <2>1 DEF TypeOK
  <2>3. SpawnInv'
    BY <1>0, <2>1 DEF SpawnInv
  <2>4. StopInv'
    BY <1>0, <2>1, <2>2 DEF StopInv, Stopping
  <2> QED
    BY <2>3, <2>4
<1>3. CASE StopStep(c)
  <2>1. Stopping(c) /\ \A d \in Callers : d # c => spc'[d] = spc[d] /\ ~Stopping(d) /\ ~Stopping(d)'
    <3>1. Stopping(c) /\ \A d \in Callers : d # c => spc'[d] = spc[d]
      BY <1>3 DEF StopStep, StopWait, StopShutdown, StopJoin, StopClear, StopLock, StopSwap,
                  StopNotify, StopGoto, Stopping, TypeOK
    <3> QED
      BY <3>1 DEF StopInv, Stopping
  <2>2. state \in {ShuttingDown, Stopped}
    BY <2>1 DEF StopInv, Stopping
  <2>3. state' \in {ShuttingDown, Stopped}
    BY <1>3, <2>2 DEF StopStep, StopWait, StopShutdown, StopJoin, StopClear, StopLock, StopSwap,
                      StopNotify, control
  <2>4. SpawnInv'
    BY <1>0, <2>2, <2>3 DEF SpawnInv
  <2>5. CASE StopWait(c)
    <3>1. spc[c] = "wait" /\ spc'[c] = "shutdown" /\ UNCHANGED <<state, threads, at>>
      BY <2>5 DEF StopWait, StopGoto, TypeOK, control
    <3> QED
      BY <1>0, <2>1, <2>4, <3>1 DEF StopInv, Stopping
  <2>6. CASE StopShutdown(c)
    <3>1. /\ spc[c] = "shutdown" /\ UNCHANGED <<state, threads>>
          /\ spc'[c] = "shutdown" \/ (spc'[c] = "join" /\ at' = 0)
      BY <2>6 DEF StopShutdown, StopGoto, TypeOK, control
    <3>2. state = ShuttingDown /\ threads = Workers
      BY <3>1 DEF StopInv
    <3>3. spc'[c] = "join" =>
            /\ at' <= NThreads /\ threads' = at' .. NThreads-1
            /\ \A w \in Workers : w < at' => wpc'[w] = "exited"
      BY <3>1, <3>2, NThreadsAssumption DEF Workers
    <3> QED
      BY <1>0, <2>1, <2>4, <3>1, <3>2, <3>3 DEF StopInv, Stopping
  <2>7. CASE StopJoin(c)
    <3>1. spc[c] = "join" /\ spc'[c] = "join" /\ state' = state /\ state = ShuttingDown
      BY <2>7 DEF StopJoin, StopGoto, TypeOK, StopInv
    <3>2. /\ at <= NThreads /\ threads = at .. NThreads-1
          /\ \A w \in Workers : w < at => wpc[w] = "exited"
      BY <3>1 DEF StopInv
    <3>3. /\ at' <= NThreads /\ threads' = at' .. NThreads-1
          /\ \A w \in Workers : w < at' => wpc'[w] = "exited"
      <4>1. CASE UNCHANGED <<threads, at>>
        BY <1>0, <3>2, <4>1
      <4>2. CASE at \in threads /\ wpc[at] = "exited" /\ threads' = threads \ {at} /\ at' = at + 1
        <5>1. at \in Nat /\ at + 1 <= NThreads
          BY <3>2, <4>2, NThreadsAssumption DEF TypeOK
        <5>2. threads' = at+1 .. NThreads-1
          BY <3>2, <4>2, <5>1, NThreadsAssumption
        <5>3. \A w \in Workers : w < at+1 => w < at \/ w = at
          BY <5>1, NThreadsAssumption DEF Workers
        <5> QED
          BY <1>0, <3>2, <4>2, <5>1, <5>2, <5>3
      <4> QED
        BY <2>7, <4>1, <4>2 DEF StopJoin
    <3> QED
      BY <1>0, <2>1, <2>4, <3>1, <3>3 DEF StopInv, Stopping
  <2>8. CASE StopClear(c)
    <3>1. /\ spc[c] = "join" /\ spc'[c] = "lock" /\ state' = state /\ state = ShuttingDown
          /\ at = NThreads /\ at' = 0
      BY <2>8 DEF StopClear, StopGoto, TypeOK, StopInv
    <3>2. \A w \in Workers : wpc[w] = "exited"
      BY <3>1, NThreadsAssumption DEF StopInv, Workers
    <3> QED
      BY <1>0, <2>1, <2>4, <3>1, <3>2 DEF StopInv, Stopping
  <2>9. CASE StopLock(c)
    <3>1. spc[c] = "lock" /\ spc'[c] = "swap" /\ state' = Stopped /\ UNCHANGED <<threads, at>>
      BY <2>9 DEF StopLock, StopGoto, TypeOK
    <3>2. \A w \in Workers : wpc[w] = "exited"
      BY <3>1 DEF StopInv
    <3>3. at = 0
      BY <2>1, <3>1 DEF StopInv, Stopping
    <3> QED
      BY <1>0, <2>1, <2>4, <3>1, <3>2, <3>3 DEF StopInv, Stopping
  <2>10. CASE StopSwap(c) \/ StopNotify(c)
    <3>1. /\ spc[c] \in {"swap", "notify"} /\ spc'[c] \in {"notify", "returned"}
          /\ UNCHANGED <<state, threads, at>>
      BY <2>10 DEF StopSwap, StopNotify, StopGoto, TypeOK, control
    <3>2. state = Stopped /\ \A w \in Workers : wpc[w] = "exited"
      BY <3>1 DEF StopInv
    <3>3. at = 0
      BY <2>1, <3>1 DEF StopInv, Stopping
    <3> QED
      BY <1>0, <2>1, <2>4, <3>1, <3>2, <3>3 DEF StopInv, Stopping
  <2> QED
    BY <1>3, <2>5, <2>6, <2>7, <2>8, <2>9, <2>10 DEF StopStep
<1> QED
  BY <1>1, <1>2, <1>3

LEMMA StepIInv == IInv /\ [Next]_vars => IInv'
<1> SUFFICES ASSUME TypeOK, CountInv, SpawnInv, StopInv, [Next]_vars PROVE IInv'
  BY DEF IInv
<1>1. ASSUME NEW x \in Items, Post(x) PROVE IInv'
  <2>1. SpawnInv' /\ StopInv'
    BY <1>1, PostKeeps, WorkersProtocol DEF control, workerVars, stopVars
  <2> QED
    BY <1>1, <2>1, PostCounts, PostType DEF IInv
<1>2. ASSUME NEW w \in Workers, Worker(w) PROVE IInv'
  <2>1. SpawnInv' /\ StopInv'
    BY <1>2, WorkerKeeps, WorkersProtocol DEF control, TypeOK
  <2>2. CountInv'
    BY <1>2, WorkerKeeps DEF CountInv, CqPosters
  <2> QED
    BY <1>2, <2>1, <2>2, WorkerType DEF IInv
<1>3. ASSUME NEW r \in Runners, RunBegin(r) \/ RunSpawn(r) PROVE IInv'
  BY <1>3, RunProtocol, RunType, RunKeeps DEF IInv, CountInv, CqPosters, queueVars
<1>4. ASSUME NEW c \in Callers, StopBegin(c) \/ StopStep(c) PROVE IInv'
  BY <1>4, StopProtocol, StopType, StopKeeps DEF IInv, CountInv, CqPosters
<1>5. ASSUME \/ \E x \in Items : FireEvent(x)
             \/ \E n \in Notes : NoteLock(n) \/ NotePush(n)
             \/ \E s \in Servers : ServerInit(s) \/ FireServer(s) \/ AttachLock(s) \/ AttachPush(s)
      PROVE  IInv'
  <2>1. SpawnInv' /\ StopInv'
    BY <1>5, OtherKeeps, WorkersProtocol DEF workerVars, stopVars
  <2> QED
    BY <1>5, <2>1, OtherKeeps, OtherType DEF IInv, CountInv, CqPosters
<1>6. CASE UNCHANGED vars
  BY <1>6 DEF vars, control, queueVars, poolVars, workerVars, stopVars, outcome, IInv, TypeOK,
              TP!PoolTypeOK, CountInv, CqPosters, SpawnInv, StopInv, Stopping
<1> QED
  BY <1>1, <1>2, <1>3, <1>4, <1>5, <1>6 DEF Next

LEMMA Inductive == Spec => []IInv
BY InitIInv, StepIInv, PTL DEF Spec

\* Every variable keeps its type: within_cq_post_ never wraps below zero, and
\* run_while gives the threads numbers below n_threads_.
THEOREM TypeCorrect == Spec => []TypeOK
<1>1. IInv => TypeOK
  BY DEF IInv
<1> QED
  BY <1>1, Inductive, PTL

-----------------------------------------------------------------------------
(* padlock_                                                                *)

\* Who is inside a critical section holds padlock_, and what it has read of
\* the state is still true.
LockInv ==
  /\ \A c \in Callers : spc[c] = "swap" => padlock = c
  /\ \A n \in Notes : npc[n] \in {"push", "drop"} =>
       padlock = n /\ (npc[n] = "push" => state # Stopped)
  /\ \A s \in Servers : apc[s] \in {"push", "throw"} =>
       padlock = s /\ (apc[s] = "push" => state = Ready)

LEMMA StepLock == IInv /\ LockInv /\ [Next]_vars => LockInv'
<1> SUFFICES ASSUME TypeOK, StopInv, LockInv, [Next]_vars PROVE LockInv'
  BY DEF IInv
<1> USE DEF Ready, Running, ShuttingDown, Stopped
<1>1. ASSUME NEW x \in Items, Post(x) PROVE LockInv'
  BY <1>1, PostKeeps DEF LockInv, control, stopVars
<1>2. ASSUME NEW w \in Workers, Worker(w) PROVE LockInv'
  <2>1. \A c \in Callers : spc'[c] = "swap" => spc[c] = "swap"
    BY <1>2, WorkerKeeps DEF TypeOK
  <2> QED
    BY <1>2, <2>1, WorkerKeeps DEF LockInv, control
<1>3. ASSUME NEW r \in Runners, RunBegin(r) \/ RunSpawn(r) PROVE LockInv'
  <2>1. UNCHANGED <<padlock, npc, apc, spc>>
    BY <1>3, RunKeeps DEF stopVars
  <2>2. state' = state \/ (padlock = None /\ state' = Running)
    BY <1>3 DEF RunBegin, RunSpawn
  <2> QED
    BY <2>1, <2>2, NamesAssumption DEF LockInv
<1>4. ASSUME NEW c \in Callers, StopBegin(c) \/ StopStep(c) PROVE LockInv'
  <2>1. npc' = npc /\ apc' = apc
    BY <1>4, StopKeeps
  <2>2. CASE StopLock(c)
    <3>1. padlock = None /\ padlock' = c /\ spc' = [spc EXCEPT ![c] = "swap"]
      BY <2>2 DEF StopLock, StopGoto
    <3>2. /\ \A n \in Notes : npc[n] \notin {"push", "drop"}
          /\ \A s \in Servers : apc[s] \notin {"push", "throw"}
          /\ \A d \in Callers : spc[d] # "swap"
      BY <3>1, NamesAssumption DEF LockInv
    <3> QED
      BY <2>1, <3>1, <3>2 DEF LockInv, TypeOK
  <2>3. CASE StopSwap(c)
    <3>1. spc[c] = "swap" /\ state' = state /\ spc' = [spc EXCEPT ![c] = "notify"]
      BY <2>3 DEF StopSwap, StopGoto
    <3>2. padlock = c
      BY <3>1 DEF LockInv
    <3>3. /\ \A n \in Notes : npc[n] \notin {"push", "drop"}
          /\ \A s \in Servers : apc[s] \notin {"push", "throw"}
          /\ \A d \in Callers : spc[d] = "swap" => d = c
      BY <3>2, NamesAssumption DEF LockInv
    <3> QED
      BY <2>1, <3>1, <3>3 DEF LockInv, TypeOK
  <2>4. CASE StopBegin(c) \/ StopWait(c) \/ StopShutdown(c) \/ StopJoin(c) \/ StopClear(c) \/ StopNotify(c)
    <3>1. padlock' = padlock /\ (state' = state \/ (state = Running /\ state' = ShuttingDown))
      BY <2>4 DEF StopBegin, StopWait, StopShutdown, StopJoin, StopClear, StopNotify, control
    <3>2. \A d \in Callers : spc'[d] = "swap" => spc[d] = "swap"
      BY <2>4 DEF StopBegin, StopWait, StopShutdown, StopJoin, StopClear, StopNotify, StopGoto, TypeOK
    <3> QED
      BY <2>1, <3>1, <3>2 DEF LockInv
  <2> QED
    BY <1>4, <2>2, <2>3, <2>4 DEF StopStep
<1>5. ASSUME NEW n \in Notes, NoteLock(n) \/ NotePush(n) PROVE LockInv'
  <2>1. UNCHANGED <<state, spc, apc>>
    BY <1>5 DEF NoteLock, NotePush, stopVars
  <2>2. CASE NoteLock(n)
    <3>1. /\ padlock = None /\ padlock' = n
          /\ npc' = [npc EXCEPT ![n] = IF state < Stopped THEN "push" ELSE "drop"]
      BY <2>2 DEF NoteLock, NoteGoto
    <3>2. /\ \A m \in Notes : npc[m] \notin {"push", "drop"}
          /\ \A s \in Servers : apc[s] \notin {"push", "throw"}
          /\ \A d \in Callers : spc[d] # "swap"
      BY <3>1, NamesAssumption DEF LockInv
    <3> QED
      BY <2>1, <3>1, <3>2 DEF LockInv, TypeOK
  <2>3. CASE NotePush(n)
    <3>1. npc[n] \in {"push", "drop"} /\ npc'[n] \notin {"push", "drop"}
          /\ \A m \in Notes \ {n} : npc'[m] = npc[m]
      BY <2>3 DEF NotePush, NoteGoto, TypeOK
    <3>2. padlock = n
      BY <3>1 DEF LockInv
    <3>3. /\ \A m \in Notes : npc'[m] \notin {"push", "drop"}
          /\ \A s \in Servers : apc[s] \notin {"push", "throw"}
          /\ \A d \in Callers : spc[d] # "swap"
      BY <3>1, <3>2, NamesAssumption DEF LockInv
    <3> QED
      BY <2>1, <3>3 DEF LockInv
  <2> QED
    BY <1>5, <2>2, <2>3
<1>6. ASSUME NEW s \in Servers, ServerInit(s) \/ FireServer(s) \/ AttachLock(s) \/ AttachPush(s)
      PROVE  LockInv'
  <2>1. UNCHANGED <<state, spc, npc>>
    BY <1>6 DEF ServerInit, FireServer, AttachLock, AttachPush, stopVars, control
  <2>2. CASE AttachLock(s)
    <3>1. /\ padlock = None /\ padlock' = s
          /\ apc' = [apc EXCEPT ![s] = IF state = Ready THEN "push" ELSE "throw"]
      BY <2>2 DEF AttachLock, AttachGoto
    <3>2. /\ \A m \in Notes : npc[m] \notin {"push", "drop"}
          /\ \A t \in Servers : apc[t] \notin {"push", "throw"}
          /\ \A d \in Callers : spc[d] # "swap"
      BY <3>1, NamesAssumption DEF LockInv
    <3> QED
      BY <2>1, <3>1, <3>2 DEF LockInv, TypeOK
  <2>3. CASE AttachPush(s)
    <3>1. apc[s] \in {"push", "throw"} /\ apc'[s] \notin {"push", "throw"}
          /\ \A t \in Servers \ {s} : apc'[t] = apc[t]
      BY <2>3 DEF AttachPush, AttachGoto, TypeOK
    <3>2. padlock = s
      BY <3>1 DEF LockInv
    <3>3. /\ \A m \in Notes : npc[m] \notin {"push", "drop"}
          /\ \A t \in Servers : apc'[t] \notin {"push", "throw"}
          /\ \A d \in Callers : spc[d] # "swap"
      BY <3>1, <3>2, NamesAssumption DEF LockInv
    <3> QED
      BY <2>1, <3>3 DEF LockInv
  <2>4. CASE ServerInit(s) \/ FireServer(s)
    <3>1. padlock' = padlock /\ \A t \in Servers : apc'[t] = apc[t] \/ apc'[t] = "built"
      BY <2>4 DEF ServerInit, FireServer, AttachGoto, TypeOK, control
    <3> QED
      BY <2>1, <3>1 DEF LockInv
  <2> QED
    BY <1>6, <2>2, <2>3, <2>4
<1>7. CASE (\E x \in Items : FireEvent(x)) \/ UNCHANGED vars
  <2>1. UNCHANGED <<state, padlock, spc, npc, apc>>
    BY <1>7 DEF FireEvent, vars, control, stopVars
  <2> QED
    BY <2>1 DEF LockInv
<1> QED
  BY <1>1, <1>2, <1>3, <1>4, <1>5, <1>6, <1>7 DEF Next

LEMMA Locked == Spec => []LockInv
<1>1. Init => LockInv
  BY DEF Init, LockInv
<1> QED
  BY <1>1, Inductive, StepLock, PTL DEF Spec

LEMMA ServersStay ==
  ASSUME LockInv, [Next]_vars, state # Ready
  PROVE  servers' = servers
<1>1. ASSUME NEW x \in Items, Post(x) PROVE servers' = servers
  BY <1>1, PostKeeps DEF control
<1>2. ASSUME NEW s \in Servers, AttachPush(s) PROVE servers' = servers
  BY <1>2 DEF AttachPush, AttachGoto, LockInv
<1>3. ASSUME NEW w \in Workers, Worker(w) PROVE servers' = servers
  BY <1>3 DEF Worker, WorkerTop, WorkerPredicate, WorkerAfterStop, WorkerGetOwn, WorkerGetServer,
              WorkerGetNone, WorkerComplete, WorkerEndPass, WorkerPop, WorkerPopNothing,
              WorkerRun, WorkerEject, WorkerDrain, WorkerDrainCheck, WorkerDrainRun, control
<1> QED
  BY <1>1, <1>2, <1>3, RunKeeps, StopKeeps
  DEF Next, FireEvent, NoteLock, NotePush, ServerInit, FireServer, AttachLock, vars, control

\* attach_server appends to servers_ only in state Ready: padlock_ keeps
\* run_while from leaving that state between its test and its push_back, so
\* the workers and stop may read the vector without a lock.
THEOREM ServersAreFixed == Spec => ServersFixedOnceRunning
<1>1. LockInv /\ [Next]_vars => [state # Ready => servers' = servers]_vars
  BY ServersStay
<1> QED
  BY <1>1, Locked, PTL DEF Spec, ServersFixedOnceRunning

-----------------------------------------------------------------------------
(* The handshake of stop with the posts                                    *)

\* A queue is shut down only after a stop has waited, and a post that has
\* passed its test is one that stop is still waiting for.
Binding == {x \in Items : ppc[x] \in {"bind", "leave_posted"}}
HandshakeInv ==
  /\ \A c \in Cqs : cqs[c].shutdown =>
       state \in {ShuttingDown, Stopped} /\ \A d \in Callers : spc[d] # "wait"
  /\ Binding # {} => state \in {Ready, Running} \/ \E d \in Callers : spc[d] = "wait"

LEMMA StepHandshake == IInv /\ HandshakeInv /\ [Next]_vars => HandshakeInv'
<1> SUFFICES ASSUME TypeOK, CountInv, StopInv, HandshakeInv, [Next]_vars PROVE HandshakeInv'
  BY DEF IInv
<1> USE DEF Ready, Running, ShuttingDown, Stopped
<1>1. ASSUME NEW x \in Items, Post(x) PROVE HandshakeInv'
  <2>1. state' = state /\ spc' = spc
    BY <1>1, PostKeeps DEF control, stopVars
  <2>2. \A c \in Cqs : cqs'[c].shutdown = cqs[c].shutdown
    <3>1. CASE PostCqBind(x)
      BY <3>1 DEF PostCqBind, Start, TypeOK, QueueType
    <3>2. CASE cqs' = cqs
      BY <3>2
    <3> QED
      BY <1>1, <3>1, <3>2 DEF Post, PostThunk, PostInsert, PostCqEnter, PostCqCheck, PostCqLeave,
                              queueVars
  <2>3. Binding' \subseteq Binding \/ state \in {Ready, Running}
    <3>1. CASE PostCqCheck(x)
      <4>1. state \in {Ready, Running} \/ (ppc' = [ppc EXCEPT ![x] = "leave_refused"])
        <5>1. state <= Running => state \in {Ready, Running}
          BY DEF TypeOK
        <5>2. ppc' = [ppc EXCEPT ![x] = IF state <= Running THEN "bind" ELSE "leave_refused"]
          BY <3>1 DEF PostCqCheck, PostGoto
        <5> QED
          BY <5>1, <5>2
      <4> QED
        BY <4>1 DEF Binding, TypeOK
    <3>2. CASE PostThunk(x) \/ PostInsert(x) \/ PostCqEnter(x) \/ PostCqBind(x) \/ PostCqLeave(x)
      BY <3>2 DEF PostThunk, PostInsert, PostCqEnter, PostCqBind, PostCqLeave, PostGoto, Binding, TypeOK
    <3> QED
      BY <1>1, <3>1, <3>2 DEF Post
  <2> QED
    BY <2>1, <2>2, <2>3 DEF HandshakeInv
<1>2. ASSUME NEW w \in Workers, Worker(w) PROVE HandshakeInv'
  <2>1. state' = state /\ Binding' = Binding
    BY <1>2, WorkerKeeps DEF control, Binding
  <2>2. \A d \in Callers : spc'[d] = "wait" <=> spc[d] = "wait"
    BY <1>2, WorkerKeeps DEF TypeOK
  <2>3. \A c \in Cqs : cqs'[c].shutdown = cqs[c].shutdown
    <3>1. CASE WorkerGetOwn(w)
      <4>1. PICK e \in cqs[OwnCq(w)].ready : cqs' = [cqs EXCEPT ![OwnCq(w)] = TakeTag(@, e)]
        BY <3>1 DEF WorkerGetOwn
      <4> QED
        BY <4>1 DEF TakeTag, TypeOK, QueueType
    <3>2. CASE cqs' = cqs
      BY <3>2
    <3> QED
      BY <1>2, <3>1, <3>2
      DEF Worker, WorkerTop, WorkerPredicate, WorkerAfterStop, WorkerGetServer, WorkerGetNone,
          WorkerComplete, WorkerEndPass, WorkerPop, WorkerPopNothing, WorkerRun, WorkerEject,
          WorkerDrain, WorkerDrainCheck, WorkerDrainRun, queueVars
  <2> QED
    BY <2>1, <2>2, <2>3 DEF HandshakeInv
<1>3. ASSUME NEW r \in Runners, RunBegin(r) \/ RunSpawn(r) PROVE HandshakeInv'
  <2>1. UNCHANGED <<cqs, spc, ppc>> /\ (state' = state \/ (state = Ready /\ state' = Running))
    BY <1>3, RunKeeps DEF RunBegin, RunSpawn, queueVars, stopVars
  <2> QED
    BY <2>1 DEF HandshakeInv, Binding
<1>4. ASSUME NEW c \in Callers, StopBegin(c) PROVE HandshakeInv'
  <2>1. UNCHANGED <<cqs, ppc>>
    BY <1>4 DEF StopBegin, queueVars
  <2>2. CASE state = Running
    <3>1. state' = ShuttingDown /\ spc'[c] = "wait"
      BY <1>4, <2>2 DEF StopBegin, StopGoto, TypeOK
    <3> QED
      BY <2>1, <2>2, <3>1 DEF HandshakeInv, Binding
  <2>3. CASE state # Running
    <3>1. state' = state /\ \A d \in Callers : spc'[d] = "wait" <=> spc[d] = "wait"
      BY <1>4, <2>3 DEF StopBegin, StopGoto, TypeOK
    <3> QED
      BY <2>1, <3>1 DEF HandshakeInv, Binding
  <2> QED
    BY <2>2, <2>3
<1>5. ASSUME NEW c \in Callers, StopStep(c) PROVE HandshakeInv'
  <2>0. ppc' = ppc /\ within_cq_post' = within_cq_post
    BY <1>5, StopKeeps
  <2>1. Stopping(c) /\ \A d \in Callers : d # c => ~Stopping(d) /\ ~Stopping(d)'
    <3>1. Stopping(c) /\ \A d \in Callers : d # c => spc'[d] = spc[d]
      BY <1>5 DEF StopStep, StopWait, StopShutdown, StopJoin, StopClear, StopLock, StopSwap,
                  StopNotify, StopGoto, Stopping, TypeOK
    <3> QED
      BY <3>1 DEF StopInv, Stopping
  <2>2. CASE StopWait(c)
    <3>1. CqPosters = {}
      BY <2>2, CountIs DEF StopWait
    <3>2. Binding' = {}
      BY <2>0, <3>1 DEF Binding, CqPosters, CqPosting
    <3>3. UNCHANGED <<cqs, state>> /\ spc'[c] = "shutdown"
      BY <2>2 DEF StopWait, StopGoto, queueVars, control, TypeOK
    <3>4. state = ShuttingDown
      BY <2>2 DEF StopWait, StopGoto, StopInv
    <3> QED
      BY <2>1, <3>2, <3>3, <3>4 DEF HandshakeInv, Stopping
  <2>3. CASE ~StopWait(c)
    <3>1. spc[c] # "wait" /\ spc'[c] # "wait"
      BY <1>5, <2>3 DEF StopStep, StopShutdown, StopJoin, StopClear, StopLock, StopSwap, StopNotify,
                        StopGoto, TypeOK
    <3>2. \A d \in Callers : spc[d] # "wait" /\ spc'[d] # "wait"
      BY <2>1, <3>1 DEF Stopping
    <3>3. state \in {ShuttingDown, Stopped} /\ state' \in {ShuttingDown, Stopped}
      <4>1. state \in {ShuttingDown, Stopped}
        BY <2>1 DEF StopInv, Stopping
      <4> QED
        BY <1>5, <4>1 DEF StopStep, StopWait, StopShutdown, StopJoin, StopClear, StopLock, StopSwap,
                          StopNotify, control
    <3> QED
      BY <2>0, <3>2, <3>3 DEF HandshakeInv, Binding
  <2> QED
    BY <2>2, <2>3
<1>6. CASE \/ \E x \in Items : FireEvent(x)
           \/ \E n \in Notes : NoteLock(n) \/ NotePush(n)
           \/ \E s \in Servers : ServerInit(s) \/ FireServer(s) \/ AttachLock(s) \/ AttachPush(s)
  <2>1. UNCHANGED <<state, spc, ppc>>
    BY <1>6, OtherKeeps DEF stopVars
  <2>2. \A c \in Cqs : cqs'[c].shutdown = cqs[c].shutdown
    <3>1. ASSUME NEW x \in Items, FireEvent(x) PROVE \A c \in Cqs : cqs'[c].shutdown = cqs[c].shutdown
      <4>1. PICK d \in Cqs : cqs' = [cqs EXCEPT ![d] = Fire(@, x)]
        BY <3>1 DEF FireEvent
      <4> QED
        BY <4>1 DEF Fire, TypeOK, QueueType
    <3> QED
      BY <1>6, <3>1 DEF NoteLock, NotePush, ServerInit, FireServer, AttachLock, AttachPush, queueVars
  <2> QED
    BY <2>1, <2>2 DEF HandshakeInv, Binding
<1>7. CASE UNCHANGED vars
  BY <1>7 DEF vars, control, queueVars, stopVars, HandshakeInv, Binding
<1> QED
  BY <1>1, <1>2, <1>3, <1>4, <1>5, <1>6, <1>7 DEF Next

LEMMA Handshaken == Spec => []HandshakeInv
<1>1. Init => HandshakeInv
  BY DEF Init, HandshakeInv, Binding, NewQueue
<1> QED
  BY <1>1, Inductive, StepHandshake, PTL DEF Spec

\* No post is about to start an operation on a completion queue that stop
\* has shut down, whatever the post read before stop changed the state.
THEOREM NoBind == Spec => []NoBindAfterShutdown
<1>1. HandshakeInv => NoBindAfterShutdown
  BY DEF HandshakeInv, NoBindAfterShutdown, Binding, Ready, Running, ShuttingDown, Stopped
<1> QED
  BY <1>1, Handshaken, PTL

-----------------------------------------------------------------------------
(* No std::terminate                                                       *)

\* Without a predicate that fires no worker calls stop.
AloneInv ==
  /\ \A w \in Workers : wpc[w] # "in_stop" /\ ~Stopping(w)
  /\ ~terminated

LEMMA StepAlone == ~PredicateFires /\ IInv /\ AloneInv /\ [Next]_vars => AloneInv'
<1> SUFFICES ASSUME ~PredicateFires, TypeOK, SpawnInv, StopInv, AloneInv, [Next]_vars PROVE AloneInv'
  BY DEF IInv
<1>1. ASSUME NEW x \in Items, Post(x) PROVE AloneInv'
  BY <1>1, PostKeeps DEF AloneInv, Stopping, workerVars, stopVars
<1>2. ASSUME NEW w \in Workers, Worker(w) PROVE AloneInv'
  <2>1. \A v \in Workers : wpc'[v] # "in_stop"
    BY <1>2 DEF Worker, WorkerTop, WorkerPredicate, WorkerAfterStop, WorkerGetOwn, WorkerGetServer,
       WorkerGetNone, WorkerComplete, WorkerEndPass, WorkerPop, WorkerPopNothing, WorkerRun,
       WorkerEject, WorkerDrain, WorkerDrainCheck, WorkerDrainRun, WorkerGoto, AloneInv, TypeOK
  <2>2. \A v \in Workers : ~Stopping(v)'
    BY <1>2, WorkerKeeps DEF AloneInv, Stopping, TypeOK, Callers
  <2> QED
    BY <1>2, <2>1, <2>2, WorkerKeeps DEF AloneInv
<1>3. ASSUME NEW r \in Runners, RunBegin(r) \/ RunSpawn(r) PROVE AloneInv'
  BY <1>3, RunKeeps DEF RunBegin, RunSpawn, workerVars, AloneInv, Stopping, stopVars, outcome, TypeOK
<1>4. ASSUME NEW c \in Callers, StopBegin(c) \/ StopStep(c) PROVE AloneInv'
  <2>1. c \notin Workers
    BY <1>4 DEF StopBegin, StopStep, StopWait, StopShutdown, StopJoin, StopClear, StopLock, StopSwap,
                StopNotify, StopGoto, AloneInv, Stopping
  <2>2. \A w \in Workers : ~Stopping(w)' /\ wpc'[w] # "in_stop"
    <3>1. \A d \in Callers : d # c => spc'[d] = spc[d]
      BY <1>4 DEF StopBegin, StopStep, StopWait, StopShutdown, StopJoin, StopClear, StopLock, StopSwap,
                StopNotify, StopGoto, TypeOK
    <3> QED
      BY <1>4, <2>1, <3>1, StopKeeps DEF AloneInv, Stopping, Callers, workerVars
  <2>3. CASE StopJoin(c)
    BY <2>1, <2>2, <2>3 DEF StopJoin, AloneInv, TypeOK
  <2>4. CASE StopClear(c)
    <3>1. threads = {}
      <4>1. spc[c] = "join" /\ at = NThreads
        BY <2>4 DEF StopClear, StopGoto
      <4>2. threads = NThreads .. NThreads-1
        BY <4>1 DEF StopInv
      <4> QED
        BY <4>2, NThreadsAssumption
    <3> QED
      BY <2>2, <2>4, <3>1 DEF StopClear, AloneInv
  <2>5. CASE terminated' = terminated
    BY <2>2, <2>5 DEF AloneInv
  <2> QED
    BY <1>4, <2>3, <2>4, <2>5 DEF StopBegin, StopStep, StopWait, StopShutdown, StopLock, StopSwap,
                                  StopNotify, outcome
<1>5. CASE \/ \E x \in Items : FireEvent(x)
           \/ \E n \in Notes : NoteLock(n) \/ NotePush(n)
           \/ \E s \in Servers : ServerInit(s) \/ FireServer(s) \/ AttachLock(s) \/ AttachPush(s)
  BY <1>5, OtherKeeps DEF AloneInv, Stopping, workerVars, stopVars
<1>6. CASE UNCHANGED vars
  BY <1>6 DEF vars, AloneInv, Stopping, workerVars, stopVars, outcome
<1> QED
  BY <1>1, <1>2, <1>3, <1>4, <1>5, <1>6 DEF Next

\* Unless a predicate of run_while makes a worker call stop, stop joins every
\* thread before it clears the vector, and never itself.
THEOREM NeverTerminated == ~PredicateFires /\ Spec => []NeverTerminates
<1> SUFFICES ASSUME ~PredicateFires PROVE Spec => []NeverTerminates
  OBVIOUS
<1>1. Init => AloneInv
  BY DEF Init, AloneInv, Stopping, Callers
<1>2. IInv /\ AloneInv /\ [Next]_vars => AloneInv'
  BY StepAlone
<1>3. AloneInv => NeverTerminates
  BY DEF AloneInv, NeverTerminates
<1> QED
  BY <1>1, <1>2, <1>3, Inductive, PTL DEF Spec

-----------------------------------------------------------------------------
(* Notifications                                                           *)

\* Where a notification is that was added, and when the vectors are empty.
NoteInv ==
  /\ \A n \in Notes : npc[n] = "added" => n \in notifications \cup notes_due \cup notified
  /\ state = Stopped /\ (\A c \in Callers : spc[c] # "swap") => notifications = {}
  /\ (\A c \in Callers : spc[c] # "notify") => notes_due = {}
  /\ notified # {} => state = Stopped

LEMMA StepNote == IInv /\ LockInv /\ NoteInv /\ [Next]_vars => NoteInv'
<1> SUFFICES ASSUME TypeOK, StopInv, LockInv, NoteInv, [Next]_vars PROVE NoteInv'
  BY DEF IInv
<1> USE DEF Ready, Running, ShuttingDown, Stopped
<1>1. ASSUME NEW x \in Items, Post(x) PROVE NoteInv'
  BY <1>1, PostKeeps DEF NoteInv, control, stopVars
<1>2. ASSUME NEW w \in Workers, Worker(w) PROVE NoteInv'
  <2>1. \A c \in Callers : /\ spc'[c] = "swap" <=> spc[c] = "swap"
                           /\ spc'[c] = "notify" <=> spc[c] = "notify"
    BY <1>2, WorkerKeeps DEF TypeOK
  <2> QED
    BY <1>2, <2>1, WorkerKeeps DEF NoteInv, control
<1>3. ASSUME NEW r \in Runners, RunBegin(r) \/ RunSpawn(r) PROVE NoteInv'
  <2>1. UNCHANGED <<notifications, notes_due, notified, npc, spc>>
    BY <1>3, RunKeeps DEF stopVars, outcome
  <2>2. state' = state \/ (state = Ready /\ state' = Running)
    BY <1>3 DEF RunBegin, RunSpawn
  <2> QED
    BY <2>1, <2>2 DEF NoteInv
<1>4. ASSUME NEW c \in Callers, StopBegin(c) \/ StopStep(c) PROVE NoteInv'
  <2>1. npc' = npc
    BY <1>4, StopKeeps
  <2>2. \A d \in Callers : d # c => spc'[d] = spc[d]
    BY <1>4 DEF StopBegin, StopStep, StopWait, StopShutdown, StopJoin, StopClear, StopLock, StopSwap,
                StopNotify, StopGoto, TypeOK
  <2>3. ASSUME StopStep(c), NEW d \in Callers, d # c PROVE ~Stopping(d) /\ ~Stopping(d)'
    <3>1. Stopping(c)
      BY <2>3 DEF StopStep, StopWait, StopShutdown, StopJoin, StopClear, StopLock, StopSwap,
                  StopNotify, StopGoto, Stopping
    <3> QED
      BY <2>2, <2>3, <3>1 DEF StopInv, Stopping
  <2>4. CASE StopSwap(c)
    <3>1. /\ notes_due' = notifications /\ notifications' = {} /\ UNCHANGED <<state, notified>>
          /\ spc[c] = "swap" /\ spc'[c] = "notify"
      BY <2>4 DEF StopSwap, StopGoto, TypeOK, outcome
    <3>2. notes_due = {}
      BY <2>3, <2>4, <3>1 DEF NoteInv, Stopping, StopStep
    <3> QED
      BY <2>1, <3>1, <3>2 DEF NoteInv
  <2>5. CASE StopNotify(c)
    <3>1. /\ spc[c] = "notify" /\ UNCHANGED <<state, notifications>>
          /\ spc'[c] # "swap" /\ (spc'[c] # "notify" => notes_due' = {})
          /\ notes_due' \cup notified' = notes_due \cup notified
      <4>1. CASE notes_due = {} /\ UNCHANGED <<notes_due, notified>>
        BY <2>5, <4>1 DEF StopNotify, StopGoto, TypeOK, control
      <4>2. CASE /\ StopGoto(c, "notify", "notify")
                 /\ \E n \in notes_due : notes_due' = notes_due \ {n} /\ notified' = notified \cup {n}
        BY <2>5, <4>2 DEF StopNotify, StopGoto, TypeOK, control
      <4> QED
        BY <2>5, <4>1, <4>2 DEF StopNotify
    <3>2. state = Stopped
      BY <3>1 DEF StopInv
    <3>3. \A d \in Callers : spc[d] # "swap" /\ spc'[d] # "swap"
      BY <2>3, <2>5, <3>1 DEF Stopping, StopStep
    <3>4. notifications = {}
      BY <3>2, <3>3 DEF NoteInv
    <3> QED
      BY <2>1, <3>1, <3>2, <3>4 DEF NoteInv
  <2>6. CASE StopLock(c)
    <3>1. /\ state' = Stopped /\ UNCHANGED <<notifications, notes_due, notified>>
          /\ spc[c] = "lock" /\ spc'[c] = "swap"
      BY <2>6 DEF StopLock, StopGoto, TypeOK, outcome
    <3>2. notes_due = {}
      BY <2>3, <2>6, <3>1 DEF NoteInv, Stopping, StopStep
    <3> QED
      BY <2>1, <3>1, <3>2 DEF NoteInv
  <2>7. CASE StopBegin(c) \/ StopWait(c) \/ StopShutdown(c) \/ StopJoin(c) \/ StopClear(c)
    <3>1. /\ UNCHANGED <<notifications, notes_due, notified>>
          /\ state' = state \/ (state = Running /\ state' = ShuttingDown)
      BY <2>7 DEF StopBegin, StopWait, StopShutdown, StopJoin, StopClear, control, outcome
    <3>2. spc[c] \notin {"swap", "notify"} /\ spc'[c] \notin {"swap", "notify"}
      BY <2>7 DEF StopBegin, StopWait, StopShutdown, StopJoin, StopClear, StopGoto, TypeOK
    <3> QED
      BY <2>1, <2>2, <3>1, <3>2 DEF NoteInv
  <2> QED
    BY <1>4, <2>4, <2>5, <2>6, <2>7 DEF StopStep
<1>5. ASSUME NEW n \in Notes, NotePush(n) PROVE NoteInv'
  <2>1. UNCHANGED <<state, notes_due, notified, spc>>
    BY <1>5 DEF NotePush, stopVars, outcome
  <2>2. CASE npc[n] = "push"
    <3>1. notifications' = notifications \cup {n} /\ npc' = [npc EXCEPT ![n] = "added"]
      BY <1>5, <2>2 DEF NotePush, NoteGoto
    <3>2. state # Stopped
      BY <2>2 DEF LockInv
    <3> QED
      BY <2>1, <3>1, <3>2 DEF NoteInv, TypeOK
  <2>3. CASE npc[n] # "push"
    <3>1. notifications' = notifications /\ npc' = [npc EXCEPT ![n] = "dropped"]
      BY <1>5, <2>3 DEF NotePush, NoteGoto
    <3> QED
      BY <2>1, <3>1 DEF NoteInv, TypeOK
  <2> QED
    BY <2>2, <2>3
<1>6. CASE \/ \E x \in Items : FireEvent(x)
           \/ \E n \in Notes : NoteLock(n)
           \/ \E s \in Servers : ServerInit(s) \/ FireServer(s) \/ AttachLock(s) \/ AttachPush(s)
           \/ UNCHANGED vars
  <2>1. UNCHANGED <<state, notifications, notes_due, notified, spc>>
    BY <1>6 DEF FireEvent, NoteLock, ServerInit, FireServer, AttachLock, AttachPush, vars, control,
                stopVars, outcome
  <2>2. \A n \in Notes : npc'[n] = "added" => npc[n] = "added"
    BY <1>6 DEF FireEvent, NoteLock, ServerInit, FireServer, AttachLock, AttachPush, vars, NoteGoto,
                TypeOK
  <2> QED
    BY <2>1, <2>2 DEF NoteInv
<1> QED
  BY <1>1, <1>2, <1>3, <1>4, <1>5, <1>6 DEF Next

\* A notification that was added is called by the stop that stopped the
\* context, however the two interleave, and only when no worker runs.
THEOREM NotificationsAreDelivered == Spec => []NotificationsDelivered
<1>1. Init => NoteInv
  BY DEF Init, NoteInv, Ready, Stopped
<1>2. IInv /\ NoteInv => NotificationsDelivered
  BY DEF IInv, StopInv, NoteInv, NotificationsDelivered
<1> QED
  BY <1>1, <1>2, Inductive, Locked, StepNote, PTL DEF Spec
=============================================================================
