--------------------------- MODULE ContextContract ---------------------------
(***************************************************************************)
(* What an execution context promises to the code that posts work to it,   *)
(* with threads, queues and the steps of stop left out.  A post is either  *)
(* given a home or refused, and refused only once somebody stops the       *)
(* context.  Work is called at most once, not when it was refused and not  *)
(* after the context has stopped.  A context does not stop before it has   *)
(* called all it has promised, and it promises every post that has         *)
(* returned true before the stop began.                                    *)
(*                                                                         *)
(* ExecutionContext implements this module.                                *)
(***************************************************************************)

CONSTANT Work       \* what may be posted, each one at most once

VARIABLES
  closing,          \* a stop has begun
  stopped,          \* it has finished its work
  given,            \* work the context holds, or has called
  accepted,         \* posts that have returned true
  promised,         \* accepted work that will be called
  called,           \* how often the callback of each work was called
  refused           \* posts that return false

contractVars == <<closing, stopped, given, accepted, promised, called, refused>>

ContractInit ==
  /\ closing = FALSE
  /\ stopped = FALSE
  /\ given = {}
  /\ accepted = {}
  /\ promised = {}
  /\ called = [x \in Work |-> 0]
  /\ refused = {}

\* post takes the work.
Give(x) ==
  /\ x \notin given \cup refused
  /\ ~stopped
  /\ given' = given \cup {x}
  /\ UNCHANGED <<closing, stopped, accepted, promised, called, refused>>

\* post does not take the work.
Refuse(x) ==
  /\ x \notin given \cup refused
  /\ closing
  /\ refused' = refused \cup {x}
  /\ UNCHANGED <<closing, stopped, given, accepted, promised, called>>

\* post returns true.  Only a post that overlaps a stop is not a promise.
Return(x) ==
  /\ x \in given \ accepted
  /\ accepted' = accepted \cup {x}
  /\ \/ ~stopped /\ promised' = promised \cup {x}
     \/ closing /\ UNCHANGED promised
  /\ UNCHANGED <<closing, stopped, given, called, refused>>

\* The callback is called, maybe before post has returned.
Call(x) ==
  /\ x \in given
  /\ called[x] = 0
  /\ ~stopped
  /\ called' = [called EXCEPT ![x] = 1]
  /\ UNCHANGED <<closing, stopped, given, accepted, promised, refused>>

Close ==
  /\ closing' = TRUE
  /\ UNCHANGED <<stopped, given, accepted, promised, called, refused>>

Finish ==
  /\ closing
  /\ \A x \in promised : called[x] = 1
  /\ stopped' = TRUE
  /\ UNCHANGED <<closing, given, accepted, promised, called, refused>>

ContractNext ==
  \/ \E x \in Work : Give(x) \/ Refuse(x) \/ Return(x) \/ Call(x)
  \/ Close
  \/ Finish

ContractSpec == ContractInit /\ [][ContractNext]_contractVars
=============================================================================
