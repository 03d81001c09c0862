---------------------------- MODULE FetchLatest ----------------------------
(***************************************************************************)
(* fetchNpmLatest of src/src/update.ts: one request to the npm registry    *)
(* that is raced against a time limit, whose answer is checked before its  *)
(* body is read, and whose body is read chunk by chunk up to a limit.      *)
(***************************************************************************)
EXTENDS Integers

CONSTANTS
  MaximumBytes,   \* UPDATE_RESPONSE_MAX_BYTES
  BodyBytes       \* bound: the most that the registry sends

ASSUME FetchAssumption ==
  /\ MaximumBytes \in Nat \ {0}
  /\ BodyBytes \in Nat

VARIABLES
  request,    \* "unsent", "sent", "reading", "cancelling", "settled"
  response,   \* what the registry has answered
  sent,       \* bytes of the body that have arrived
  kept,       \* bytes, of the chunks that were pushed
  deadline,   \* the timer: "unset", "armed", "fired", "cleared"
  fetched     \* what the race was won with: "none", "ok" or a reason

fetchVars == <<request, response, sent, kept, deadline, fetched>>

\* What a Response shows before its body is read.  length is content-length:
\* Absent, Bad when it is no safe integer, or a number.
Absent == -1
Bad == -2
Answers ==
  [redirected : BOOLEAN, status : {"2xx", "3xx", "other"}, json : BOOLEAN,
   length : {Absent, Bad} \cup 0..BodyBytes, body : BOOLEAN]
NoAnswer ==
  [redirected |-> FALSE, status |-> "other", json |-> FALSE, length |-> Absent,
   body |-> FALSE]

Reasons ==
  {"redirect_rejected", "registry_error", "invalid_content_type",
   "response_too_large", "invalid_response", "timeout", "network_error"}

FetchTypeOK ==
  /\ request \in {"unsent", "sent", "reading", "cancelling", "settled"}
  /\ response \in Answers
  /\ sent \in 0..BodyBytes /\ kept \in 0..BodyBytes
  /\ deadline \in {"unset", "armed", "fired", "cleared"}
  /\ fetched \in {"none", "ok"} \cup Reasons

FetchInit ==
  /\ request = "unsent" /\ response = NoAnswer
  /\ sent = 0 /\ kept = 0
  /\ deadline = "unset"
  /\ fetched = "none"

\* Promise.race settles once; the finally block clears the timer.  A request
\* that settles when the race is over changes nothing.
Wins(result) ==
  /\ fetched' = IF fetched = "none" THEN result ELSE fetched
  /\ deadline' = IF deadline = "armed" THEN "cleared" ELSE deadline

Settles(result) == request' = "settled" /\ Wins(result)

\* A faulty start that relies on the registry to answer or to close.
StartUntimed ==
  /\ request = "unsent"
  /\ request' = "sent"
  /\ UNCHANGED <<response, sent, kept, deadline, fetched>>

\* The timer is set before the request is sent.
StartFetch ==
  /\ request = "unsent"
  /\ request' = "sent" /\ deadline' = "armed"
  /\ UNCHANGED <<response, sent, kept, fetched>>

\* fetch or a read of the body rejects: DNS, TLS, a reset, the abort.  Only the
\* body's failures are caught where they happen, as an invalid response.
RequestFails ==
  /\ request \in {"sent", "reading"}
  /\ Settles(IF request = "reading" THEN "invalid_response"
             ELSE IF deadline = "fired" THEN "timeout"
             ELSE "network_error")
  /\ UNCHANGED <<response, sent, kept>>

\* Why an answer is rejected before its body is read, "none" if it is not.
HeaderProblem(r) ==
  IF r.redirected \/ r.status = "3xx" THEN "redirect_rejected"
  ELSE IF r.status # "2xx" THEN "registry_error"
  ELSE IF ~r.json THEN "invalid_content_type"
  ELSE IF r.length = Bad \/ r.length > MaximumBytes THEN "response_too_large"
  ELSE IF ~r.body THEN "invalid_response"
  ELSE "none"

Answered ==
  /\ request = "sent" /\ deadline # "fired"
  /\ response' \in Answers
  /\ IF HeaderProblem(response') = "none"
     THEN request' = "reading" /\ UNCHANGED <<deadline, fetched>>
     ELSE Settles(HeaderProblem(response'))
  /\ UNCHANGED <<sent, kept>>

\* A chunk: it is pushed unless it goes over the limit.
TakeChunk(n) ==
  /\ UNCHANGED <<deadline, fetched>>
  /\ IF sent + n > MaximumBytes
     THEN request' = "cancelling" /\ UNCHANGED kept
     ELSE kept' = kept + n /\ UNCHANGED request

ReadChunk ==
  /\ request = "reading" /\ deadline # "fired"
  /\ \E n \in 1..(BodyBytes - sent) : sent' = sent + n /\ TakeChunk(n)
  /\ UNCHANGED response

\* reader.cancel() is awaited before the error is thrown, whatever it does.
Cancelled ==
  /\ request = "cancelling"
  /\ Settles("response_too_large")
  /\ UNCHANGED <<response, sent, kept>>

\* The body ends: it is parsed, and has a stable version or has not.
ReadDone ==
  /\ request = "reading" /\ deadline # "fired"
  /\ Settles("ok") \/ Settles("invalid_response")
  /\ UNCHANGED <<response, sent, kept>>

\* The time limit: abort, and the race is over.
FetchTimeout ==
  /\ deadline = "armed"
  /\ deadline' = "fired" /\ fetched' = "timeout"
  /\ UNCHANGED <<request, response, sent, kept>>

Fetching == request # "unsent"

\* What the event loop owes the caller, and what the registry does.
FetchStep ==
  \/ RequestFails \/ Answered \/ ReadChunk \/ Cancelled \/ ReadDone \/ FetchTimeout
=============================================================================
