---------------------------- MODULE OrderStatus ----------------------------
(***************************************************************************)
(* The local order states and the transitions the orders table accepts,    *)
(* from storage/repositories/status_map.py, and the classification of the  *)
(* answers of the broker's HTTP interface that decides which of them an    *)
(* order enters (broker/kis/client.py, broker/kis/order.py,                *)
(* broker/kis/parsers.py).                                                 *)
(***************************************************************************)

EXTENDS Naturals

DbOrderStatus ==
  {"PENDING", "SUBMITTED", "UNKNOWN", "PARTIAL",
   "FILLED", "CANCELLED", "REJECTED", "FAILED"}

TERMINAL_DB_ORDER_STATUSES == {"FILLED", "CANCELLED", "REJECTED", "FAILED"}

UNRESOLVED_DB_ORDER_STATUSES == {"PENDING", "SUBMITTED", "UNKNOWN", "PARTIAL"}

\* PENDING and UNKNOWN may become anything; a terminal status only itself.
ALLOWED_TRANSITIONS(current) ==
  CASE current \in {"PENDING", "UNKNOWN"} -> DbOrderStatus
    [] current = "SUBMITTED" -> DbOrderStatus \ {"PENDING"}
    [] current = "PARTIAL" ->
         {"PARTIAL", "UNKNOWN", "FILLED", "CANCELLED", "FAILED"}
    [] OTHER -> {current}

\* assert_transition_allowed raises IllegalStateTransition when this is false;
\* the transaction that called it then rolls back.
TransitionAllowed(current, target) == target \in ALLOWED_TRANSITIONS(current)

(***************************************************************************)
(* What became of one HTTP POST: a well-formed success, a success without  *)
(* an order number, an explicit refusal (rt_cd # "0"), a status other than *)
(* 200 and 401, a 200 whose body is not JSON, a requests exception (the    *)
(* connection failed or the reply timed out), or 401.                      *)
(***************************************************************************)
HttpOutcome ==
  {"ok", "no_order_no", "rt_cd_error", "http_error", "bad_json",
   "network_error", "unauthorized"}

\* The outcomes after which the broker may have taken the request ...
MayHaveBeenTaken == HttpOutcome \ {"rt_cd_error", "unauthorized"}

\* ... and those after which it may not have.
MayHaveBeenLost == HttpOutcome \ {"ok", "no_order_no"}

\* The exception KisClient.request_post ends with ("none": a KisResponse).
\* _execute_post wraps every requests exception in KisApiError;
\* _validate_response raises KisApiError for a non-200 status, an unreadable
\* body and rt_cd # "0", and KisAuthError for 401.
PostException(http) ==
  CASE http \in {"ok", "no_order_no"} -> "none"
    [] http = "unauthorized" -> "KisAuthError"
    [] OTHER -> "KisApiError"

\* What OrderService.place_order catches. Order.place_order passes KisApiError
\* on unchanged and turns everything else, the missing ODNO among it
\* (KisParseError), into KisOrderError.
PlaceReply(http) ==
  CASE PostException(http) = "KisApiError" -> "KisApiError"
    [] http = "ok" -> "accepted"
    [] OTHER -> "KisOrderError"

PlaceReplies == {"accepted", "KisApiError", "KisOrderError"}

\* The local status place_order ends in after each reply.
StatusAfterPlace(reply) ==
  CASE reply = "accepted" -> "SUBMITTED"
    [] reply = "KisApiError" -> "REJECTED"
    [] OTHER -> "UNKNOWN"

\* _parse_order_status_from_qty: the status of one row of an order inquiry.
BrokerOrderStatus(ord_qty, filled, cancelled) ==
  CASE cancelled -> "CANCELLED"
    [] ~cancelled /\ filled = 0 -> "ACCEPTED"
    [] ~cancelled /\ filled >= ord_qty -> "FILLED"
    [] OTHER -> "PARTIAL"
=============================================================================
