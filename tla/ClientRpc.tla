------------------------------ MODULE ClientRpc ------------------------------
(***************************************************************************)
(* A client call as a sender: ClientRpcStub::call, ClientRpcSender,        *)
(* RpcSenderOpState, CallData and InflightRpc                              *)
(* (src/src/sgrpc/client_rpc_stub.hpp, rpc_sender.hpp,                     *)
(* detail/rpc_sender_operation_states.hpp, detail/inflight_rpc.hpp).       *)
(*                                                                         *)
(* Every element of Ops is an operation state: a copy of a sender that was *)
(* connected to a receiver.  Copies of one sender share one CallData       *)
(* through a shared_ptr, and the completion handler of an operation passes *)
(* through that object on its way into the InflightRpc.                    *)
(*                                                                         *)
(* The execution context is what ExecutionContext shows it to be: a post   *)
(* is refused, or its factory is called and the event it returns is        *)
(* completed once, by one worker.                                          *)
(***************************************************************************)
EXTENDS Naturals, Sequences, StatusCodes

CONSTANTS
  Ops,                \* operation states
  Senders,            \* results of ClientRpcStub::call, each with its CallData
  CopyOf,             \* the sender an operation state was connected from
  Statuses,           \* the status codes gRPC may report
  None,               \* an empty std::function
  ConcurrentCopies    \* copies of one sender may be started at the same time

ASSUME CopyOfAssumption == CopyOf \in [Ops -> Senders]
ASSUME StatusesAssumption == Statuses \subseteq GrpcCodes
ASSUME NoneIsNoOp == None \notin Ops
ASSUME ConcurrentCopiesAssumption == ConcurrentCopies \in BOOLEAN

VARIABLES
  open,               \* the execution context takes new calls
  data_completion,    \* CallData::completion of every sender: the op it signals, or None
  pc,                 \* where each operation state is in invoke
  inflight,           \* the InflightRpc an operation's post created
  signals             \* what each receiver was told, in order

vars == <<open, data_completion, pc, inflight, signals>>

\* What the completion queue hands to InflightRpc::complete: its is_ok, the
\* call's status, and whether the ConversionFunction can convert the response.
Answers == [is_ok : BOOLEAN, status : Statuses, converts : BOOLEAN]

NoRpc == [phase |-> "none"]
Pending(c) == [phase |-> "pending", completion |-> c]
Ready(c, a) == [phase |-> "ready", completion |-> c, answer |-> a]
Deleted(a) == [phase |-> "deleted", answer |-> a]

InflightType ==
  {NoRpc} \cup {Pending(c) : c \in Ops \cup {None}} \cup {Deleted(a) : a \in Answers}
    \cup {Ready(c, a) : c \in Ops \cup {None}, a \in Answers}

Value(o) == [kind |-> "value", of |-> o]
Error(code) == [kind |-> "error", code |-> code]
SignalType == {Value(o) : o \in Ops} \cup {Error(code) : code \in RpcCodes}

Init ==
  /\ open = TRUE
  /\ data_completion = [s \in Senders |-> None]
  /\ pc = [o \in Ops |-> "connected"]
  /\ inflight = [o \in Ops |-> NoRpc]
  /\ signals = [o \in Ops |-> <<>>]

Goto(o, from, to) == pc[o] = from /\ pc' = [pc EXCEPT ![o] = to]

Signal(o, sig) == signals' = [signals EXCEPT ![o] = Append(@, sig)]

\* RpcSenderOpState::invoke calls the WrappedRpcFactory, which stores the
\* operation's completion handler in the CallData.
Invoke(o) ==
  /\ Goto(o, "connected", "posting")
  /\ ConcurrentCopies \/ \A p \in Ops : CopyOf[p] = CopyOf[o] => pc[p] # "posting"
  /\ data_completion' = [data_completion EXCEPT ![CopyOf[o]] = o]
  /\ UNCHANGED <<open, inflight, signals>>

\* Mutant: `if(invoked)' where the code has `if(!invoked)' at the end of invoke.
PostCreatesRpcAndFails(o) ==
  /\ open
  /\ Goto(o, "posting", "posted")
  /\ inflight' = [inflight EXCEPT ![o] = Pending(data_completion[CopyOf[o]])]
  /\ data_completion' = [data_completion EXCEPT ![CopyOf[o]] = None]
  /\ Signal(o, Error("Unavailable"))
  /\ UNCHANGED open

\* context_.post calls the RpcFactory: CallData::operator() moves its
\* completion into a new InflightRpc, whose constructor starts the call.
PostCreatesRpc(o) ==
  /\ open
  /\ Goto(o, "posting", "posted")
  /\ inflight' = [inflight EXCEPT ![o] = Pending(data_completion[CopyOf[o]])]
  /\ data_completion' = [data_completion EXCEPT ![CopyOf[o]] = None]
  /\ UNCHANGED <<open, signals>>

\* Mutant: the result of post is ignored.
PostRefusedIgnored(o) ==
  /\ ~open
  /\ Goto(o, "posting", "refused")
  /\ UNCHANGED <<open, data_completion, inflight, signals>>

\* context_.post returns false
PostRefused(o) ==
  /\ ~open
  /\ Goto(o, "posting", "refused")
  /\ Signal(o, Error("Unavailable"))
  /\ UNCHANGED <<open, data_completion, inflight>>

\* The call is over: gRPC makes the tag of Finish ready.
Answer(o, a) ==
  /\ inflight[o].phase = "pending"
  /\ inflight' = [inflight EXCEPT ![o] = Ready(inflight[o].completion, a)]
  /\ UNCHANGED <<open, data_completion, pc, signals>>

\* Mutant: the status of the call decides, a failed conversion goes unnoticed.
StatusOfIgnoresConversion(a) == a.status

\* The curried completion converts the response first; an exception of the
\* conversion replaces the status, whatever it was.
StatusOf(a) == IF a.converts THEN a.status ELSE "INTERNAL"

\* Mutant: gRPC's own code is passed on.
OutcomeRawCode(o, a) ==
  CASE ~a.is_ok -> Error("Unavailable")
    [] a.is_ok /\ StatusOf(a) # "OK" -> Error(StatusOf(a))
    [] a.is_ok /\ StatusOf(a) = "OK" -> Value(o)

\* The completion handler of RpcSenderOpState::invoke, for the call of op o.
Outcome(o, a) ==
  CASE ~a.is_ok -> Error("Unavailable")
    [] a.is_ok /\ StatusOf(a) # "OK" -> Error(ToRpcStatusCode[StatusOf(a)])
    [] a.is_ok /\ StatusOf(a) = "OK" -> Value(o)

\* InflightRpc::complete: calls the handler, and deletes itself.  An empty
\* handler throws std::bad_function_call, which is caught and dropped.
Complete(o) ==
  /\ inflight[o].phase = "ready"
  /\ LET c == inflight[o].completion IN
       IF c = None THEN UNCHANGED signals ELSE Signal(c, Outcome(o, inflight[o].answer))
  /\ inflight' = [inflight EXCEPT ![o] = Deleted(inflight[o].answer)]
  /\ UNCHANGED <<open, data_completion, pc>>

\* ExecutionContext::stop: later posts are refused.
Close ==
  /\ open
  /\ open' = FALSE
  /\ UNCHANGED <<data_completion, pc, inflight, signals>>

Next ==
  \/ \E o \in Ops :
       \/ Invoke(o) \/ PostCreatesRpc(o) \/ PostRefused(o) \/ Complete(o)
       \/ \E a \in Answers : Answer(o, a)
  \/ Close

Spec == Init /\ [][Next]_vars

\* invoke runs on; gRPC ends every call; the context's workers complete
\* every event, also during shutdown.
Fairness ==
  \A o \in Ops :
    /\ WF_vars(PostCreatesRpc(o) \/ PostRefused(o))
    /\ WF_vars(\E a \in Answers : Answer(o, a))
    /\ WF_vars(Complete(o))

FairSpec == Spec /\ Fairness

-----------------------------------------------------------------------------
TypeOK ==
  /\ open \in BOOLEAN
  /\ data_completion \in [Senders -> Ops \cup {None}]
  /\ pc \in [Ops -> {"connected", "posting", "posted", "refused"}]
  /\ inflight \in [Ops -> InflightType]
  /\ signals \in [Ops -> Seq(SignalType)]

\* A receiver is signalled at most once: the completion of the call and the
\* refusal of post exclude each other, and no other call's completion ever
\* reaches the receiver, whose operation state may be gone by then.
SignalledOnce == \A o \in Ops : Len(signals[o]) <= 1

\* A receiver hears of its own call, and the truth: a value only if the call
\* succeeded and its response could be converted, the error the peer reported
\* (as far as the two enumerations agree), Internal for a response that could
\* not be converted, and Unavailable when the context refused the call.
OwnAnswer ==
  \A o \in Ops : \A k \in DOMAIN signals[o] :
    LET sig == signals[o][k] IN
    \/ pc[o] = "refused" /\ sig = Error("Unavailable")
    \/ /\ inflight[o].phase = "deleted"
       /\ LET a == inflight[o].answer IN
          IF sig.kind = "value"
          THEN sig.of = o /\ a.is_ok /\ a.converts /\ a.status = "OK"
          ELSE \/ ~a.is_ok /\ sig.code = "Unavailable"
               \/ a.is_ok /\ ~a.converts /\ sig.code = "Internal"
               \/ a.is_ok /\ a.status = "other" /\ sig.code = "Unspecified"
               \/ a.is_ok /\ a.status # "OK" /\ ToGrpcStatusCode[sig.code] = a.status

\* Every operation that was started signals its receiver: nobody waits on a
\* call that was refused, or whose answer came.
EveryStartSignals == \A o \in Ops : pc[o] = "posting" ~> signals[o] # <<>>

\* "Put result on Receiver" (rpc_sender_operation_states.hpp:117), of
\* CallData::completion: when its call has been completed, the receiver of an
\* operation has been signalled, and by that call.
ResultPutOnReceiver ==
  \A o \in Ops : inflight[o].phase = "deleted" => signals[o] # <<>>
=============================================================================
