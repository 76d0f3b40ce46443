------------------------------ MODULE TaskPool ------------------------------
(***************************************************************************)
(* What AtomicTaskStealingQueue promises to its users, with the deques,    *)
(* their locks and the round-robin indices left out: a pool of thunks that *)
(* are each handed out at most once, and a `done' switch after which no    *)
(* new push is admitted.  A push that was admitted before the switch may   *)
(* still deliver its thunk after it: the implementation counts such pushes *)
(* (in_push_) instead of excluding them.                                   *)
(*                                                                         *)
(* TaskQueue implements this module; ExecutionContext is written on top of *)
(* it.                                                                     *)
(***************************************************************************)

CONSTANT Tasks      \* the thunks that may be pushed, each one at most once

VARIABLES
  admitted,         \* thunks of pushes that saw done = FALSE and are not queued yet
  pool,             \* thunks that are queued
  taken,            \* thunks handed to a thread by try_pop or stop_and_eject
  refused,          \* thunks whose push returned false
  done              \* is_done_

poolVars == <<admitted, pool, taken, refused, done>>

PoolTypeOK ==
  /\ admitted \subseteq Tasks
  /\ pool \subseteq Tasks
  /\ taken \subseteq Tasks
  /\ refused \subseteq Tasks
  /\ done \in BOOLEAN

PoolInit ==
  /\ admitted = {}
  /\ pool = {}
  /\ taken = {}
  /\ refused = {}
  /\ done = FALSE

Known == admitted \cup pool \cup taken \cup refused

\* push: `if (!is_done)' holds, the thunk will be queued.
Admit(t) ==
  /\ t \notin Known
  /\ ~done
  /\ admitted' = admitted \cup {t}
  /\ UNCHANGED <<pool, taken, refused, done>>

\* push: done was signalled, push returns false.
Refuse(t) ==
  /\ t \notin Known
  /\ done
  /\ refused' = refused \cup {t}
  /\ UNCHANGED <<admitted, pool, taken, done>>

\* push: some try_push moved the thunk into a deque.
Accept(t) ==
  /\ t \in admitted
  /\ admitted' = admitted \ {t}
  /\ pool' = pool \cup {t}
  /\ UNCHANGED <<taken, refused, done>>

\* try_pop takes one thunk, one eject takes everything in one deque.
Take(S) ==
  /\ S # {}
  /\ S \subseteq pool
  /\ pool' = pool \ S
  /\ taken' = taken \cup S
  /\ UNCHANGED <<admitted, refused, done>>

\* signal_done: idempotent.
SignalDone ==
  /\ done' = TRUE
  /\ UNCHANGED <<admitted, pool, taken, refused>>

PoolNext ==
  \/ \E t \in Tasks : Admit(t) \/ Refuse(t) \/ Accept(t)
  \/ \E S \in SUBSET pool : Take(S)
  \/ SignalDone

PoolSpec == PoolInit /\ [][PoolNext]_poolVars
=============================================================================
