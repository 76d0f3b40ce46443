--------------------------- MODULE CompletionQueue ---------------------------
(***************************************************************************)
(* grpc::CompletionQueue (external), as sgrpc uses it.                     *)
(*                                                                         *)
(* An operation started on a queue (an alarm, the Finish of a client call, *)
(* a server's request for the next call) is `pending' until gRPC completes *)
(* it; its tag is then `ready' until one AsyncNext returns it.  AsyncNext  *)
(* reports SHUTDOWN once Shutdown was called and nothing is pending or     *)
(* ready, and TIMEOUT when there is just nothing ready.  gRPC requires     *)
(* that nothing is started on a queue after its Shutdown.                  *)
(***************************************************************************)

QueueType(Tags) == [shutdown : BOOLEAN, pending : SUBSET Tags, ready : SUBSET Tags]

NewQueue == [shutdown |-> FALSE, pending |-> {}, ready |-> {}]

Start(cq, e) == [cq EXCEPT !.pending = @ \cup {e}]

Fire(cq, e) == [cq EXCEPT !.pending = @ \ {e}, !.ready = @ \cup {e}]

TakeTag(cq, e) == [cq EXCEPT !.ready = @ \ {e}]

ShutDown(cq) == [cq EXCEPT !.shutdown = TRUE]

\* AsyncNext returns SHUTDOWN.
IsDrained(cq) == cq.shutdown /\ cq.pending = {} /\ cq.ready = {}
=============================================================================
