------------------------------ MODULE ApiErrors ------------------------------
(***************************************************************************)
(* What an error becomes on its way to a client: a status of CUPS, the     *)
(* CupsError the IPP client makes of it (src/cups/mod.rs), the AppError    *)
(* with its HTTP status and code (src/error.rs), and what the two clients  *)
(* conclude from those: the page, whether to send the same key again       *)
(* (isRetryable in frontend/src/api.ts), the MCP tools, what they tell the *)
(* agent (to_error in src/mcp/backend.rs).                                 *)
(***************************************************************************)
EXTENDS Integers

-----------------------------------------------------------------------------
(* CUPS to CupsError.                                                      *)
GoneStatuses == {"NotFound", "Gone"}
InvalidStatuses == {"BadRequest", "AttributesOrValuesNotSupported",
                    "ConflictingAttributes", "DocumentFormatNotSupported",
                    "DocumentFormatError", "RequestValueTooLong"}
BusyStatuses == {"NotAcceptingJobs", "Busy", "TemporaryError",
                 "ServiceUnavailable", "DeviceError"}

FromStatus(status) ==
    CASE status \in GoneStatuses    -> "NotFound"
      [] status \in InvalidStatuses -> "Invalid"
      [] status = "NotPossible"     -> "Conflict"
      [] status \in BusyStatuses    -> "PrinterUnavailable"
      [] OTHER                      -> "Protocol"

\* An exchange that did not end in a status.
FromExchange == [timeout |-> "Timeout", no_connection |-> "Unavailable",
                 http_error |-> "Protocol", not_ready |-> "PrinterUnavailable",
                 unreadable |-> "Protocol"]

-----------------------------------------------------------------------------
(* CupsError to AppError, AppError to a response.                          *)
FromCups == [Unavailable |-> "ServiceUnavailable", Timeout |-> "GatewayTimeout",
             NotFound |-> "NotFound", Invalid |-> "BadRequest",
             Conflict |-> "Conflict",
             PrinterUnavailable |-> "PrinterUnavailable",
             Protocol |-> "BadGateway"]

Status == [Unauthorized |-> 401, InvalidTicket |-> 401,
           BadRequest |-> 400, InvalidControls |-> 400,
           FileNotFound |-> 404, JobNotFound |-> 404, PrinterNotFound |-> 404,
           NotFound |-> 404,
           PrinterUnavailable |-> 409, Conflict |-> 409,
           IdempotencyConflict |-> 409,
           UnsupportedMediaType |-> 415, PayloadTooLarge |-> 413,
           ConversionFailed |-> 422, ServiceUnavailable |-> 503,
           GatewayTimeout |-> 504, BadGateway |-> 502, Internal |-> 500]

AppErrors == DOMAIN Status

\* Four errors share one code; the others have a code each.
Code(e) == IF Status[e] = 404 THEN "NotFound" ELSE e

-----------------------------------------------------------------------------
(* The page.  A call can also end without a response.                      *)
Transport == {"network", "timeout"}

\* Mutant: a timeout of the gateway counts as final.
IsRetryableBut504(e) == e \in Transport \cup {x \in AppErrors : Status[x] \in {502, 503}}

IsRetryable(e) == e \in Transport \cup {x \in AppErrors : Status[x] \in {502, 503, 504}}

SendsAgain(e) == IsRetryable(e) \/ e = "IdempotencyConflict"

-----------------------------------------------------------------------------
(* The MCP tools.                                                          *)
ErrorKind(e) == IF Status[e] \in {400, 404, 409, 413, 415, 422}
                THEN "invalid_params" ELSE "internal_error"

\* Mutant: no hint for a key that is still at work.
RepeatBut409(e) == Code(e) \in {"ServiceUnavailable", "GatewayTimeout"}

TellsToRepeat(e) ==
    Code(e) \in {"IdempotencyConflict", "ServiceUnavailable", "GatewayTimeout"}

\* The agent is told that the mistake is its own.
BlamesAgent(e) == ErrorKind(e) = "invalid_params" /\ ~TellsToRepeat(e)
=============================================================================
