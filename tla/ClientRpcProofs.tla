-------------------------- MODULE ClientRpcProofs --------------------------
(***************************************************************************)
(* Safety of ClientRpc for any operations and senders, as long as copies   *)
(* of one sender are not started at the same time.                         *)
(***************************************************************************)
EXTENDS ClientRpc, TLAPS

\* An operation between Invoke and its post owns the CallData it shares, and
\* an InflightRpc carries the handler of the operation it was made for.
OwnerInv ==
  \A o \in Ops :
    /\ pc[o] = "posting" => data_completion[CopyOf[o]] = o
    /\ inflight[o].phase \in {"pending", "ready"} => inflight[o].completion = o

\* Where an operation is, and what its receiver was told.
ToldInv ==
  \A o \in Ops :
    \/ pc[o] \in {"connected", "posting"} /\ inflight[o] = NoRpc /\ signals[o] = <<>>
    \/ pc[o] = "refused" /\ inflight[o] = NoRpc /\ signals[o] = <<Error("Unavailable")>>
    \/ pc[o] = "posted" /\ inflight[o].phase \in {"pending", "ready"} /\ signals[o] = <<>>
    \/ pc[o] = "posted" /\ inflight[o].phase = "deleted"
         /\ signals[o] = <<Outcome(o, inflight[o].answer)>>

IInv == TypeOK /\ OwnerInv /\ ToldInv

-----------------------------------------------------------------------------
(* Codes                                                                   *)

\* The conversions are inverse to each other but for codes without an
\* enumerator.
LEMMA RoundTrip == \A c \in GrpcCodes \ {"other"} : ToGrpcStatusCode[ToRpcStatusCode[c]] = c
BY DEF GrpcCodes, ToGrpcStatusCode, ToRpcStatusCode

LEMMA Converted ==
  /\ \A c \in GrpcCodes : ToRpcStatusCode[c] \in RpcCodes
  /\ ToRpcStatusCode["other"] = "Unspecified" /\ ToRpcStatusCode["INTERNAL"] = "Internal"
  /\ "Unavailable" \in RpcCodes /\ "INTERNAL" \in GrpcCodes
BY DEF GrpcCodes, RpcCodes, ToGrpcStatusCode, ToRpcStatusCode

LEMMA AnswerType ==
  ASSUME NEW a \in Answers
  PROVE  a.is_ok \in BOOLEAN /\ a.converts \in BOOLEAN /\ a.status \in GrpcCodes
           /\ StatusOf(a) \in GrpcCodes
BY StatusesAssumption, Converted DEF Answers, StatusOf

LEMMA OutcomeIs ==
  ASSUME NEW o \in Ops, NEW a \in Answers
  PROVE  /\ ~a.is_ok => Outcome(o, a) = Error("Unavailable")
         /\ a.is_ok /\ StatusOf(a) # "OK" => Outcome(o, a) = Error(ToRpcStatusCode[StatusOf(a)])
         /\ a.is_ok /\ StatusOf(a) = "OK" => Outcome(o, a) = Value(o)
BY AnswerType, ZenonT(30) DEF Outcome

LEMMA OutcomeType == \A o \in Ops, a \in Answers : Outcome(o, a) \in SignalType
BY OutcomeIs, AnswerType, Converted DEF SignalType

\* The outcome of a call is the truth about it.
LEMMA OutcomeIsTrue ==
  ASSUME NEW o \in Ops, NEW a \in Answers
  PROVE  LET sig == Outcome(o, a) IN
           IF sig.kind = "value"
           THEN sig.of = o /\ a.is_ok /\ a.converts /\ a.status = "OK"
           ELSE \/ ~a.is_ok /\ sig.code = "Unavailable"
                \/ a.is_ok /\ ~a.converts /\ sig.code = "Internal"
                \/ a.is_ok /\ a.status = "other" /\ sig.code = "Unspecified"
                \/ a.is_ok /\ a.status # "OK" /\ ToGrpcStatusCode[sig.code] = a.status
<1> USE OutcomeIs, AnswerType, Converted, RoundTrip DEF Error, Value
<1>1. CASE ~a.is_ok
  BY <1>1
<1>2. CASE a.is_ok /\ ~a.converts
  BY <1>2 DEF StatusOf
<1>3. CASE a.is_ok /\ a.converts /\ a.status = "OK"
  BY <1>3 DEF StatusOf
<1>4. CASE a.is_ok /\ a.converts /\ a.status # "OK"
  BY <1>4 DEF StatusOf
<1> QED
  BY <1>1, <1>2, <1>3, <1>4

-----------------------------------------------------------------------------
LEMMA InflightTypes ==
  /\ \A c \in Ops \cup {None} : Pending(c) \in InflightType
  /\ \A a \in Answers : Deleted(a) \in InflightType
  /\ \A c \in Ops \cup {None}, a \in Answers : Ready(c, a) \in InflightType
BY DEF InflightType

LEMMA InflightIs ==
  ASSUME TypeOK, NEW o \in Ops
  PROVE  /\ inflight[o].phase = "pending" => inflight[o].completion \in Ops \cup {None}
         /\ inflight[o].phase = "ready" => /\ inflight[o].completion \in Ops \cup {None}
                                           /\ inflight[o].answer \in Answers
         /\ inflight[o].phase = "deleted" => inflight[o].answer \in Answers
BY DEF TypeOK, InflightType, NoRpc, Pending, Ready, Deleted

LEMMA InitIInv == Init => IInv
<1> SUFFICES ASSUME Init PROVE IInv
  OBVIOUS
<1> USE DEF Init
<1>1. TypeOK
  <2>1. <<>> \in Seq(SignalType)
    OBVIOUS
  <2> QED
    BY <2>1 DEF TypeOK, InflightType
<1>2. OwnerInv /\ ToldInv
  BY DEF OwnerInv, ToldInv, NoRpc
<1> QED
  BY <1>1, <1>2 DEF IInv

LEMMA StepType == TypeOK /\ [Next]_vars => TypeOK'
<1> SUFFICES ASSUME TypeOK, [Next]_vars PROVE TypeOK'
  OBVIOUS
<1> USE CopyOfAssumption DEF TypeOK, Goto
<1>0. Error("Unavailable") \in SignalType
  BY Converted DEF SignalType
<1>1. ASSUME NEW o \in Ops, Invoke(o)
      PROVE  TypeOK'
  BY <1>1 DEF Invoke
<1>2. ASSUME NEW o \in Ops, PostCreatesRpc(o)
      PROVE  TypeOK'
  <2>1. Pending(data_completion[CopyOf[o]]) \in InflightType
    BY InflightTypes
  <2> QED
    BY <1>2, <2>1 DEF PostCreatesRpc
<1>3. ASSUME NEW o \in Ops, PostRefused(o)
      PROVE  TypeOK'
  BY <1>0, <1>3 DEF PostRefused, Signal
<1>4. ASSUME NEW o \in Ops, Complete(o)
      PROVE  TypeOK'
  <2>1. /\ inflight[o].completion \in Ops \cup {None} /\ inflight[o].answer \in Answers
    BY <1>4, InflightIs DEF Complete
  <2>2. Outcome(o, inflight[o].answer) \in SignalType
    BY <2>1, OutcomeType
  <2>3. \A c \in Ops : Append(signals[c], Outcome(o, inflight[o].answer)) \in Seq(SignalType)
    BY <2>2
  <2>4. Deleted(inflight[o].answer) \in InflightType
    BY <2>1, InflightTypes
  <2>5. inflight' \in [Ops -> InflightType] /\ UNCHANGED <<open, data_completion, pc>>
    BY <1>4, <2>4 DEF Complete
  <2>6. signals' \in [Ops -> Seq(SignalType)]
    <3>1. CASE inflight[o].completion = None
      BY <1>4, <3>1 DEF Complete
    <3>2. CASE inflight[o].completion \in Ops
      <4>1. PICK c \in Ops : c = inflight[o].completion
        BY <3>2
      <4>2. signals' = [signals EXCEPT ![c] = Append(@, Outcome(o, inflight[o].answer))]
        BY <1>4, <4>1, NoneIsNoOp DEF Complete, Signal
      <4> QED
        BY <2>3, <4>2
    <3> QED
      BY <2>1, <3>1, <3>2
  <2> QED
    BY <2>5, <2>6
<1>5. ASSUME NEW o \in Ops, NEW a \in Answers, Answer(o, a)
      PROVE  TypeOK'
  <2>0. inflight[o].completion \in Ops \cup {None}
    BY <1>5, InflightIs DEF Answer
  <2>1. Ready(inflight[o].completion, a) \in InflightType
    BY <2>0, InflightTypes
  <2> QED
    BY <1>5, <2>1 DEF Answer
<1>6. CASE Close \/ UNCHANGED vars
  BY <1>6 DEF Close, vars
<1> QED
  BY <1>1, <1>2, <1>3, <1>4, <1>5, <1>6 DEF Next

\* The variables keep their types, also if copies are started concurrently.
THEOREM TypeCorrect == Spec => []TypeOK
<1>1. Init => TypeOK
  BY InitIInv DEF IInv
<1> QED
  BY <1>1, StepType, PTL DEF Spec

LEMMA StepTold == ~ConcurrentCopies /\ IInv /\ [Next]_vars => OwnerInv' /\ ToldInv'
<1> SUFFICES ASSUME ~ConcurrentCopies, TypeOK, OwnerInv, ToldInv, [Next]_vars PROVE OwnerInv' /\ ToldInv'
  BY DEF IInv
<1> USE CopyOfAssumption, NoneIsNoOp DEF TypeOK, Goto, OwnerInv, ToldInv
<1>1. ASSUME NEW o \in Ops, Invoke(o)
      PROVE  OwnerInv' /\ ToldInv'
  BY <1>1 DEF Invoke, NoRpc
<1>2. ASSUME NEW o \in Ops, PostCreatesRpc(o)
      PROVE  OwnerInv' /\ ToldInv'
  <2>1. /\ pc[o] = "posting" /\ pc' = [pc EXCEPT ![o] = "posted"]
        /\ inflight' = [inflight EXCEPT ![o] = Pending(o)]
        /\ data_completion' = [data_completion EXCEPT ![CopyOf[o]] = None]
        /\ UNCHANGED signals
    BY <1>2 DEF PostCreatesRpc
  <2>2. inflight'[o].phase = "pending" /\ inflight'[o].completion = o
    BY <2>1 DEF Pending
  <2>3. OwnerInv'
    BY <2>1, <2>2
  <2>4. ToldInv'
    BY <2>1, <2>2
  <2> QED
    BY <2>3, <2>4
<1>3. ASSUME NEW o \in Ops, PostRefused(o)
      PROVE  OwnerInv' /\ ToldInv'
  <2>1. signals[o] = <<>> /\ inflight[o] = NoRpc
    BY <1>3 DEF PostRefused
  <2>2. Append(signals[o], Error("Unavailable")) = <<Error("Unavailable")>>
    BY <2>1
  <2> QED
    BY <1>3, <2>1, <2>2 DEF PostRefused, Signal
<1>4. ASSUME NEW o \in Ops, Complete(o)
      PROVE  OwnerInv' /\ ToldInv'
  <2>1. pc[o] = "posted" /\ signals[o] = <<>> /\ inflight[o].completion = o
    BY <1>4 DEF Complete, NoRpc
  <2>2. Append(signals[o], Outcome(o, inflight[o].answer)) = <<Outcome(o, inflight[o].answer)>>
    BY <2>1
  <2>3. /\ signals' = [signals EXCEPT ![o] = <<Outcome(o, inflight[o].answer)>>]
        /\ inflight' = [inflight EXCEPT ![o] = Deleted(inflight[o].answer)]
        /\ UNCHANGED <<data_completion, pc>>
    BY <1>4, <2>1, <2>2 DEF Complete, Signal
  <2>4. inflight'[o].phase = "deleted" /\ inflight'[o].answer = inflight[o].answer
    BY <2>3 DEF Deleted
  <2>5. OwnerInv'
    BY <2>3, <2>4
  <2>6. ToldInv'
    BY <2>1, <2>3, <2>4
  <2> QED
    BY <2>5, <2>6
<1>5. ASSUME NEW o \in Ops, NEW a \in Answers, Answer(o, a)
      PROVE  OwnerInv' /\ ToldInv'
  <2>1. /\ inflight[o].phase = "pending" /\ inflight[o].completion = o
        /\ inflight' = [inflight EXCEPT ![o] = Ready(o, a)]
        /\ UNCHANGED <<data_completion, pc, signals>>
    BY <1>5 DEF Answer
  <2>2. inflight'[o].phase = "ready" /\ inflight'[o].completion = o
    BY <2>1 DEF Ready
  <2>3. OwnerInv'
    BY <2>1, <2>2
  <2>4. ToldInv'
    BY <2>1, <2>2 DEF NoRpc
  <2> QED
    BY <2>3, <2>4
<1>6. CASE Close \/ UNCHANGED vars
  BY <1>6 DEF Close, vars
<1> QED
  BY <1>1, <1>2, <1>3, <1>4, <1>5, <1>6 DEF Next

LEMMA Inductive == ~ConcurrentCopies /\ Spec => []IInv
<1> SUFFICES ASSUME ~ConcurrentCopies PROVE Spec => []IInv
  OBVIOUS
<1>1. IInv /\ [Next]_vars => IInv'
  BY StepType, StepTold DEF IInv
<1> QED
  BY <1>1, InitIInv, PTL DEF Spec

\* Unless copies of one sender are started at the same time, no receiver is
\* signalled twice, neither by a refusal and an answer nor by two answers.
THEOREM SignalsOnce == ~ConcurrentCopies /\ Spec => []SignalledOnce
<1>1. IInv => SignalledOnce
  <2> SUFFICES ASSUME ToldInv, NEW o \in Ops PROVE Len(signals[o]) <= 1
    BY DEF IInv, SignalledOnce
  <2>1. signals[o] = <<>> \/ \E sig : signals[o] = <<sig>>
    BY DEF ToldInv
  <2>2. ASSUME NEW sig, signals[o] = <<sig>>
        PROVE  Len(signals[o]) = 1
    BY <2>2
  <2>3. signals[o] = <<>> => Len(signals[o]) = 0
    OBVIOUS
  <2>4. Len(signals[o]) = 0 \/ Len(signals[o]) = 1
    BY <2>1, <2>2, <2>3, Zenon
  <2>5. \A n \in {0, 1} : n <= 1
    OBVIOUS
  <2> QED
    BY <2>4, <2>5, Zenon
<1> QED
  BY <1>1, Inductive, PTL

\* Unless copies of one sender are started at the same time, what a receiver
\* hears is the outcome of its own call.
THEOREM HearsOwnAnswer == ~ConcurrentCopies /\ Spec => []OwnAnswer
<1>1. IInv => OwnAnswer
  <2> SUFFICES ASSUME TypeOK, ToldInv, NEW o \in Ops, NEW k \in DOMAIN signals[o]
               PROVE  LET sig == signals[o][k] IN
    \/ pc[o] = "refused" /\ sig = Error("Unavailable")
    \/ /\ inflight[o].phase = "deleted"
       /\ LET a == inflight[o].answer IN
          IF sig.kind = "value"
          THEN sig.of = o /\ a.is_ok /\ a.converts /\ a.status = "OK"
          ELSE \/ ~a.is_ok /\ sig.code = "Unavailable"
               \/ a.is_ok /\ ~a.converts /\ sig.code = "Internal"
               \/ a.is_ok /\ a.status = "other" /\ sig.code = "Unspecified"
               \/ a.is_ok /\ a.status # "OK" /\ ToGrpcStatusCode[sig.code] = a.status
    BY DEF IInv, OwnAnswer
  <2>1. \/ pc[o] = "refused" /\ signals[o] = <<Error("Unavailable")>>
        \/ inflight[o].phase = "deleted" /\ signals[o] = <<Outcome(o, inflight[o].answer)>>
    BY DEF ToldInv
  <2>2. CASE pc[o] = "refused" /\ signals[o] = <<Error("Unavailable")>>
    BY <2>2
  <2>3. CASE inflight[o].phase = "deleted" /\ signals[o] = <<Outcome(o, inflight[o].answer)>>
    <3>1. signals[o][k] = Outcome(o, inflight[o].answer)
      BY <2>3
    <3>2. inflight[o].answer \in Answers
      BY <2>3, InflightIs
    <3> QED
      BY <2>3, <3>1, <3>2, OutcomeIsTrue
  <2> QED
    BY <2>1, <2>2, <2>3
<1> QED
  BY <1>1, Inductive, PTL

\* Unless copies of one sender are started at the same time, the completion
\* of a call has signalled the receiver it was made for.
THEOREM ResultIsPut == ~ConcurrentCopies /\ Spec => []ResultPutOnReceiver
<1>1. IInv => ResultPutOnReceiver
  BY DEF IInv, ToldInv, ResultPutOnReceiver, NoRpc
<1> QED
  BY <1>1, Inductive, PTL

\* Somebody will tell a receiver that was told nothing yet: its operation has
\* not been started, or is about to post its call with its own handler in the
\* CallData, or has an InflightRpc that holds that handler.
UntoldIsUnderway ==
  \A o \in Ops : signals[o] = <<>> =>
    \/ pc[o] = "connected"
    \/ pc[o] = "posting" /\ data_completion[CopyOf[o]] = o
    \/ inflight[o].phase \in {"pending", "ready"} /\ inflight[o].completion = o

\* Unless copies of one sender are started at the same time, no receiver is
\* forgotten: the handler moves from the CallData to the InflightRpc and is
\* not lost on the way, neither by a refusal nor by a copy of the sender.
THEOREM NoReceiverForgotten == ~ConcurrentCopies /\ Spec => []UntoldIsUnderway
<1>1. IInv => UntoldIsUnderway
  <2> SUFFICES ASSUME OwnerInv, ToldInv, NEW o \in Ops, signals[o] = <<>>
               PROVE  \/ pc[o] = "connected"
                      \/ pc[o] = "posting" /\ data_completion[CopyOf[o]] = o
                      \/ inflight[o].phase \in {"pending", "ready"} /\ inflight[o].completion = o
    BY DEF IInv, UntoldIsUnderway
  <2>1. \A sig : signals[o] # <<sig>>
    OBVIOUS
  <2> QED
    BY <2>1 DEF OwnerInv, ToldInv
<1> QED
  BY <1>1, Inductive, PTL
=============================================================================
