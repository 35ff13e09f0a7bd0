------------------------------- MODULE Answers -------------------------------
(***************************************************************************)
(* From what happened on the wire to the state of an execution: the        *)
(* transports (HttpTransport.cpp, GrpcTransport.cpp) turn an exchange into *)
(* a response, A2AClient::rpcCall or streamCall classifies the response,   *)
(* and finish() of the control plane settles the execution by that class.  *)
(*                                                                         *)
(* An HTTP status is its class.  A body is what the client can tell about  *)
(* it: not JSON ("garbled"), JSON but no object ("bare"), the answer to    *)
(* another request ("foreign"), an error object, an object without result  *)
(* ("empty"), or a result: a task, a message, broken ones, a list, another *)
(* object.  Of a stream it is what its events amount to.                   *)
(***************************************************************************)
EXTENDS Naturals

Results == {"task", "badTask", "message", "badMessage", "list", "other"}
Bodies == {"garbled", "bare", "foreign", "error", "empty"} \cup Results

\* Methods whose result may be any object; the others expect a task or message.
ConfigMethods == {"CreateTaskPushNotificationConfig", "DeleteTaskPushNotificationConfig"}
\* The calls behind submit and respond, stream_submit, cancel, and the push operations.
Methods == {"SendMessage", "SendStreamingMessage", "CancelTask"} \cup ConfigMethods
Streamed(x) == x.method = "SendStreamingMessage"

HttpExchange ==
    [binding : {"JSONRPC", "HTTP+JSON"}, method : Methods,
     wire : {"unsent", "cut", "oversized", "answered"},
     status : {"2xx", "3xx", "401", "403", "4xx", "5xx"}, body : Bodies]
\* A call by gRPC ends in a status, of which INTERNAL stands for all that are not
\* named; two more are found by a2ad itself, a request that cannot be encoded and an
\* answer that came with OK and cannot be decoded.
GrpcExchange ==
    [binding : {"GRPC"}, method : Methods,
     status : {"OK", "UNENCODABLE", "UNDECODABLE", "UNAUTHENTICATED", "PERMISSION_DENIED",
               "NOT_FOUND", "INVALID_ARGUMENT", "FAILED_PRECONDITION", "UNIMPLEMENTED",
               "UNAVAILABLE", "DEADLINE_EXCEEDED", "INTERNAL", "RESOURCE_EXHAUSTED"},
     body : {"task", "badTask", "message", "badMessage", "other"}]

Response(status, body) ==
    [transport_error |-> FALSE, too_large |-> FALSE, status |-> status, body |-> body]
TransportError == [Response("none", "garbled") EXCEPT !.transport_error = TRUE]
TooLarge == [Response("none", "garbled") EXCEPT !.too_large = TRUE]

\* CurlTransport::request and its write callback.
CurlRequest(x) ==
    CASE x.wire \in {"unsent", "cut"} -> TransportError
      [] x.wire = "oversized" -> TooLarge
      [] x.wire = "answered" -> Response(x.status, x.body)

\* fromStatus()
FromStatus(x) ==
    CASE x.status = "OK" -> Response("2xx", x.body)
      [] x.status = "UNAUTHENTICATED" -> Response("401", "garbled")
      [] x.status = "PERMISSION_DENIED" -> Response("403", "garbled")
      [] x.status \in {"NOT_FOUND", "INVALID_ARGUMENT", "FAILED_PRECONDITION"} ->
            Response("4xx", "garbled")
      [] x.status \in {"UNAVAILABLE", "DEADLINE_EXCEEDED"} -> TransportError
      [] OTHER -> Response("5xx", "garbled")

\* grpcCall(), fromJson() and setJson()
GrpcCall(x) ==
    CASE x.status = "UNENCODABLE" -> Response("4xx", "garbled")
      [] x.status = "UNDECODABLE" -> Response("5xx", "garbled")
      [] OTHER -> FromStatus(x)

\* The bodies of REST and gRPC become the result of a JSON-RPC answer: whatever
\* JSON is no task, message or list is then just another result.
Wrapped(r) ==
    IF r.transport_error \/ r.status # "2xx" \/ r.body \in {"garbled"} \cup Results THEN r
    ELSE [r EXCEPT !.body = "other"]

Answer(x) ==
    CASE x.binding = "GRPC" -> Wrapped(GrpcCall(x))
      [] x.binding = "HTTP+JSON" -> Wrapped(CurlRequest(x))
      [] OTHER -> CurlRequest(x)

\* CurlTransport::stream has no size limit; grpcStream skips an event that cannot be
\* decoded.
StreamAnswer(x) ==
    IF x.binding = "GRPC"
    THEN CASE x.status = "UNENCODABLE" -> Response("4xx", "garbled")
           [] x.status = "UNDECODABLE" -> Response("2xx", "garbled")
           [] OTHER -> FromStatus(x)
    ELSE IF x.wire \in {"unsent", "cut"} THEN TransportError ELSE Response(x.status, x.body)

Ok == [ok |-> TRUE, error_kind |-> ""]
Error(kind) == [ok |-> FALSE, error_kind |-> kind]

\* What rpcCall makes of a JSON body.  Only a JSON-RPC body can be bare or
\* foreign; asking a bare one for its version raises an exception, which the
\* control plane catches.
ResultOf(method, body) ==
    CASE body = "bare" -> Error("dispatch_exception")
      [] body \in {"foreign", "empty", "badTask", "badMessage"} -> Error("malformed_response")
      [] body = "error" -> Error("protocol_error")
      [] body \in {"task", "message", "list"} -> Ok
      [] body = "other" -> IF method \in ConfigMethods THEN Ok ELSE Error("malformed_response")

RpcCallByStatus(x) ==
    LET r == Answer(x)
    IN IF r.too_large \/ r.transport_error THEN Error("local_network")
       ELSE IF r.status \in {"401", "403"} THEN Error("auth_required")
       ELSE IF r.status # "2xx" \/ r.body = "garbled" THEN Error("protocol_error")
       ELSE ResultOf(x.method, r.body)
\* The checks of rpcCall in their order.
RpcCall(x) ==
    LET r == Answer(x)
    IN IF r.too_large THEN Error("malformed_response")
       ELSE IF r.transport_error THEN Error("local_network")
       ELSE IF r.status \in {"401", "403"} THEN Error("auth_required")
       ELSE IF r.status # "2xx" THEN Error("protocol_error")
       ELSE IF r.body = "garbled" THEN Error("malformed_response")
       ELSE ResultOf(x.method, r.body)

\* Those of streamCall, which looks at no body: its events went to the caller.  No
\* stop is requested, since dispatch passes no token.
StreamCall(x) ==
    LET r == StreamAnswer(x)
    IN IF r.transport_error THEN Error("local_network")
       ELSE IF r.status # "2xx" THEN Error("protocol_error")
       ELSE Ok

Classify(x) == IF Streamed(x) THEN StreamCall(x) ELSE RpcCall(x)

\* finish(): the state the execution gets.
Outcome(x) ==
    LET result == Classify(x)
    IN IF result.error_kind \in {"local_network", "malformed_response", "dispatch_exception"}
       THEN "UNCERTAIN" ELSE IF result.ok THEN "DELIVERED" ELSE "FAILED"

-----------------------------------------------------------------------------

\* What the exchange itself says, whatever the client makes of it.
\* The whole answer has come; a stream may be of any size.
Arrived(x) == x.wire = "answered" \/ (x.wire = "oversized" /\ Streamed(x))
Accepted(x) ==
    IF x.binding = "GRPC" THEN x.status \in {"OK", "UNDECODABLE"} ELSE Arrived(x) /\ x.status = "2xx"
Silent(x) ==
    IF x.binding = "GRPC" THEN x.status \in {"UNAVAILABLE", "DEADLINE_EXCEEDED"} ELSE ~Arrived(x)
\* An acceptance that says nothing about this request.  REST answers carry no id.
Unreadable(x) ==
    /\ Accepted(x)
    /\ IF x.binding = "GRPC" THEN x.status = "UNDECODABLE"
       ELSE x.body = "garbled" \/ (x.binding = "JSONRPC" /\ x.body \in {"bare", "foreign"})
Readable(x) ==
    /\ Accepted(x) /\ ~Unreadable(x)
    /\ x.method \in ConfigMethods \/ x.body \in {"task", "message", "list"}
\* The agent's own answer is no, or a2ad found that it could not ask.
Refused(x) ==
    IF x.binding = "GRPC"
    THEN x.status \in {"UNENCODABLE", "UNAUTHENTICATED", "PERMISSION_DENIED", "NOT_FOUND",
                       "INVALID_ARGUMENT", "FAILED_PRECONDITION", "UNIMPLEMENTED"}
    ELSE /\ Arrived(x)
         /\ x.status \in {"3xx", "401", "403", "4xx"} \/ (x.binding = "JSONRPC" /\ x.status = "2xx" /\ x.body = "error")

\* Where the code judges without knowing.  A stream that was accepted counts as
\* delivered whatever its events say, an error or nothing included.
TakenForDelivered(x) == Streamed(x) /\ Accepted(x)
\* And these count as refusals although the agent may have done what was asked: a
\* failure of the server, an answer by gRPC that is too large, or that came with OK
\* and cannot be decoded.
TakenForRefused(x) ==
    IF x.binding = "GRPC" THEN x.status \in {"INTERNAL", "RESOURCE_EXHAUSTED"}
                               \/ (x.status = "UNDECODABLE" /\ ~Streamed(x))
    ELSE Arrived(x) /\ x.status = "5xx"
=============================================================================
