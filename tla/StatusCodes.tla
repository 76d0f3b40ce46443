----------------------------- MODULE StatusCodes -----------------------------
(***************************************************************************)
(* The two enumerations of status codes and the conversions between them   *)
(* (src/src/sgrpc/detail/utils.hpp, src/src/sgrpc/rpc_status_code.hpp).    *)
(* A code is its enumerator's name; "other" stands for every value of the  *)
(* underlying int of grpc::StatusCode that has no enumerator: a peer may   *)
(* send any number.                                                        *)
(***************************************************************************)

\* to_rpc_status_code
ToRpcStatusCode ==
  [OK |-> "Ok", CANCELLED |-> "Cancelled", UNKNOWN |-> "Unknown",
   INVALID_ARGUMENT |-> "InvalidArgument", DEADLINE_EXCEEDED |-> "DeadlineExceeded",
   NOT_FOUND |-> "NotFound", ALREADY_EXISTS |-> "AlreadyExists",
   PERMISSION_DENIED |-> "PermissionDenied", UNAUTHENTICATED |-> "Unauthenticated",
   RESOURCE_EXHAUSTED |-> "ResourceExhausted", FAILED_PRECONDITION |-> "FailedPrecondition",
   ABORTED |-> "Aborted", OUT_OF_RANGE |-> "OutOfRange", UNIMPLEMENTED |-> "Unimplemented",
   INTERNAL |-> "Internal", UNAVAILABLE |-> "Unavailable", DATA_LOSS |-> "DataLoss",
   DO_NOT_USE |-> "Unspecified", other |-> "Unspecified"]

\* to_grpc_status_code
ToGrpcStatusCode ==
  [Ok |-> "OK", Cancelled |-> "CANCELLED", Unknown |-> "UNKNOWN",
   InvalidArgument |-> "INVALID_ARGUMENT", DeadlineExceeded |-> "DEADLINE_EXCEEDED",
   NotFound |-> "NOT_FOUND", AlreadyExists |-> "ALREADY_EXISTS",
   PermissionDenied |-> "PERMISSION_DENIED", Unauthenticated |-> "UNAUTHENTICATED",
   ResourceExhausted |-> "RESOURCE_EXHAUSTED", FailedPrecondition |-> "FAILED_PRECONDITION",
   Aborted |-> "ABORTED", OutOfRange |-> "OUT_OF_RANGE", Unimplemented |-> "UNIMPLEMENTED",
   Internal |-> "INTERNAL", Unavailable |-> "UNAVAILABLE", DataLoss |-> "DATA_LOSS",
   Unspecified |-> "DO_NOT_USE"]

GrpcCodes == DOMAIN ToRpcStatusCode
RpcCodes == DOMAIN ToGrpcStatusCode
=============================================================================
