------------------------------- MODULE Response -------------------------------
(***************************************************************************)
(* The requests a request editor sends and the response it shows           *)
(* (send_request of crates/request_editor/src/request_editor.rs, Response  *)
(* of crates/response_panel/src/response_panel.rs).  A send is detached    *)
(* and never cancelled: its task tells the response what arrives under the *)
(* id it was given, and stops when the response says the id is not its own *)
(* any more.  What a send receives is known by its id.                     *)
(***************************************************************************)
EXTENDS Naturals

CONSTANT MaxSends  \* bound: requests ever sent; ids are 64 bits in the code

ASSUME ResponseAssumption == MaxSends \in Nat

VARIABLES
  requestId,  \* the id of the last send
  state,      \* ResponseState and the send that set it
  headers,    \* the send whose headers are shown, 0 for none
  cookies,
  payload,
  sent        \* where the task of each send is

responseVars == <<requestId, state, headers, cookies, payload, sent>>

Ids == 0 .. MaxSends
Statuses == {"Idle", "Fetching", "Completed", "Error"}
SendSteps == {"none", "sending", "reading", "language", "done"}

ResponseType ==
  /\ requestId \in Ids
  /\ state \in [status : Statuses, of : Ids]
  /\ headers \in Ids /\ cookies \in Ids /\ payload \in Ids
  /\ sent \in [Ids \ {0} -> SendSteps]

ResponseInit ==
  /\ requestId = 0 /\ state = [status |-> "Idle", of |-> 0]
  /\ headers = 0 /\ cookies = 0 /\ payload = 0
  /\ sent = [k \in Ids \ {0} |-> "none"]
-----------------------------------------------------------------------------
(* The setters change nothing for an id that is not the current one.       *)
Always(k) == TRUE  \* variant: the id is not looked at
IsActive(k) == requestId = k

SetState(k, status) ==
  state' = IF IsActive(k) THEN [status |-> status, of |-> k] ELSE state
SetHeaders(k) == headers' = IF IsActive(k) THEN k ELSE headers
SetCookies(k) == cookies' = IF IsActive(k) THEN k ELSE cookies
SetPayload(k) == payload' = IF IsActive(k) THEN k ELSE payload

(* begin_response, and the first state of the send.                        *)
BeginKeepsAnswer(k) ==  \* variant: only the state is reset
  /\ requestId' = k /\ state' = [status |-> "Fetching", of |-> k]
  /\ UNCHANGED <<headers, cookies, payload>>
BeginResponse(k) ==
  /\ requestId' = k /\ state' = [status |-> "Fetching", of |-> k]
  /\ headers' = 0 /\ cookies' = 0 /\ payload' = 0

SendRequest ==
  /\ requestId < MaxSends
  /\ BeginResponse(requestId + 1)
  /\ sent' = [sent EXCEPT ![requestId + 1] = "sending"]

(* The URL or a header is not valid, or the client fails.                  *)
SendFail(k) ==
  /\ sent[k] = "sending"
  /\ sent' = [sent EXCEPT ![k] = "done"]
  /\ SetState(k, "Error") /\ SetPayload(k)
  /\ UNCHANGED <<requestId, headers, cookies>>

(* The progress timer, while the answer or its body is awaited.            *)
Progress(k) ==
  /\ sent[k] \in {"sending", "reading"}
  /\ SetState(k, "Fetching")
  /\ sent' = IF IsActive(k) THEN sent ELSE [sent EXCEPT ![k] = "done"]
  /\ UNCHANGED <<requestId, headers, cookies, payload>>

Receive(k) ==
  /\ sent[k] = "sending"
  /\ SetHeaders(k) /\ SetCookies(k)
  /\ sent' = [sent EXCEPT ![k] = IF IsActive(k) THEN "reading" ELSE "done"]
  /\ UNCHANGED <<requestId, state, payload>>

(* The body ends, and its language is awaited; the timer is not any more.  *)
ReadEnd(k) ==
  /\ sent[k] = "reading"
  /\ sent' = [sent EXCEPT ![k] = "language"]
  /\ UNCHANGED <<requestId, state, headers, cookies, payload>>

ReadFail(k) ==
  /\ sent[k] = "reading"
  /\ sent' = [sent EXCEPT ![k] = "done"]
  /\ SetState(k, "Error") /\ SetPayload(k)
  /\ UNCHANGED <<requestId, headers, cookies>>

Complete(k) ==
  /\ sent[k] = "language"
  /\ sent' = [sent EXCEPT ![k] = "done"]
  /\ SetState(k, "Completed") /\ SetPayload(k)
  /\ UNCHANGED <<requestId, headers, cookies>>
-----------------------------------------------------------------------------
(* What the panel shows is the answer of one request, the last one sent,   *)
(* whatever arrives for those before it: a result is never put beside the  *)
(* headers, the cookies or the body of another request.                    *)
ShowsOneAnswer ==
  /\ state.of = requestId
  /\ headers \in {0, requestId} /\ cookies \in {0, requestId} /\ payload \in {0, requestId}
  /\ state.status = "Completed" =>
       headers = requestId /\ cookies = requestId /\ payload = requestId
  /\ state.status = "Error" => payload = requestId

(* The last request sent is either answered on screen or still awaited by  *)
(* its task: no older task can end it, so "Fetching" is never shown for    *)
(* nobody.                                                                 *)
FetchingIsAwaited ==
  requestId # 0 =>
    (state.status = "Fetching") = (sent[requestId] \in {"sending", "reading", "language"})
=============================================================================
