------------------------------ MODULE RuntimeServer -----------------------------
(***************************************************************************)
(* The HTTP server of a Session runtime and its shutdown                   *)
(* (src/src/session-runtime-server.ts, src/src/session-runtime-routes.ts,  *)
(* src/src/session-runtime-adapter.ts 142-170).  Long polls wait for a     *)
(* value; close() makes them answer, waits for every request in flight,    *)
(* and only then ends the lifetime that terminals, logins and harnesses    *)
(* hang on.                                                                *)
(***************************************************************************)
EXTENDS Naturals

CONSTANT Request            \* requests to one incarnation

VARIABLES
    server,      \* "created", "listening", "failed", "closing" or "closed"
    closing,     \* the closing signal is aborted
    lifetime,    \* the lifetime is not aborted, the database not closed
    bound,       \* a Session is bound
    request,     \* per request: "idle", "body" (being read), "waiting" (a poll), "value" or
                 \* "error" (its wait is over), "working" (a recovery), "attached" (a
                 \* terminal), "answered" or "left" (its client is gone)
    kind,        \* per request: its route
    status       \* per request: the status of its answer, or 0
serverVars == <<server, closing, lifetime, bound, request, kind, status>>

Polls    == {"read", "completions", "quiescence"}
WithBody == {"message", "recovery", "acknowledge"}
Routes   == Polls \cup WithBody \cup {"attach", "status"}
InFlight(r) == request[r] \notin {"idle", "answered", "left"}

ServerTypeOK ==
    /\ server \in {"created", "listening", "failed", "closing", "closed"}
    /\ closing \in BOOLEAN /\ lifetime \in BOOLEAN /\ bound \in BOOLEAN
    /\ request \in [Request -> {"idle", "body", "waiting", "value", "error", "working",
                                "attached", "answered", "left"}]
    /\ kind \in [Request -> Routes] /\ status \in [Request -> {0, 200, 202, 408, 409, 500, 503}]

ServerInit ==
    /\ server = "created" /\ closing = FALSE /\ lifetime = TRUE /\ bound = FALSE
    /\ request = [r \in Request |-> "idle"] /\ kind \in [Request -> Routes]
    /\ status = [r \in Request |-> 0]

(* listen: one of its two listeners removes the other.                       *)
Listen ==
    /\ server = "created" /\ server' \in {"listening", "failed"}
    /\ UNCHANGED <<closing, lifetime, bound, request, kind, status>>

Becomes(r, state) == request' = [request EXCEPT ![r] = state]
Answers(r, code) == Becomes(r, "answered") /\ status' = [status EXCEPT ![r] = code]

(* Seeded fault: the poll registers its waiter on a signal already aborted.  *)
BeginPollUnchecked(r) ==
    \/ ~closing /\ Becomes(r, "value")
    \/ Becomes(r, "error")
    \/ Becomes(r, "waiting")
(* longPoll: its wait looks at the signal, then at what is there, then       *)
(* parks; a cursor out of range is an error.                                 *)
BeginPoll(r) ==
    \/ ~closing /\ Becomes(r, "value")
    \/ Becomes(r, "error")
    \/ ~closing /\ Becomes(r, "waiting")

(* A request is dispatched, also on a connection left open while closing:    *)
(* quiescence needs a Session, a terminal has one reader, and a refusal of   *)
(* any kind answers at once.                                                 *)
DispatchRequest(r) ==
    /\ server \in {"listening", "closing"} /\ request[r] = "idle"
    /\ \/ kind[r] \in Polls /\ (kind[r] = "quiescence" => bound) /\ BeginPoll(r) /\ UNCHANGED status
       \/ kind[r] \in WithBody /\ Becomes(r, "body") /\ UNCHANGED status
       \/ /\ kind[r] = "attach" /\ bound /\ \A other \in Request : request[other] # "attached"
          /\ Becomes(r, "attached") /\ UNCHANGED status
       \/ kind[r] = "status" /\ Answers(r, 200)
       \/ Answers(r, 409)
    /\ UNCHANGED <<server, closing, lifetime, bound, kind>>

(* The body is there: a Message or a recovery binds the Session; a recovery  *)
(* runs, the others answer.  One that is refused may have bound it before.   *)
BodyRead(r) ==
    /\ request[r] = "body"
    /\ \/ kind[r] = "message" /\ bound' = TRUE /\ Answers(r, 202)
       \/ kind[r] = "recovery" /\ bound' = TRUE /\ Becomes(r, "working") /\ UNCHANGED status
       \/ kind[r] = "acknowledge" /\ UNCHANGED bound /\ Answers(r, 200)
       \/ bound' \in {bound, bound \/ kind[r] # "acknowledge"} /\ Answers(r, 409)
    /\ UNCHANGED <<server, closing, lifetime, kind>>
(* The recovery of the Session returns, or throws.                           *)
RecoveryReturns(r) ==
    /\ request[r] = "working" /\ \E code \in {200, 500} : Answers(r, code)
    /\ UNCHANGED <<server, closing, lifetime, bound, kind>>
(* The terminal's process closes.                                            *)
TerminalCloses(r) ==
    /\ request[r] = "attached" /\ Answers(r, 200)
    /\ UNCHANGED <<server, closing, lifetime, bound, kind>>

(* A wait is over: what it waits for came, or LONG_POLL_MS has passed.       *)
WaitEnds(r) ==
    /\ request[r] = "waiting" /\ \E how \in {"value", "error"} : Becomes(r, how)
    /\ UNCHANGED <<server, closing, lifetime, bound, kind, status>>
(* An error is answered by the reason the poll has then.                     *)
AnswerPoll(r) ==
    /\ \/ request[r] = "value" /\ Answers(r, 200)
       \/ /\ request[r] = "error"
          /\ IF closing THEN Answers(r, 503)
             ELSE \E code \in IF kind[r] = "quiescence" THEN {500} ELSE {408, 409} : Answers(r, code)
    /\ UNCHANGED <<server, closing, lifetime, bound, kind>>
(* The client leaves: a poll drops its waiter, a terminal is stopped, a      *)
(* recovery goes on for nobody.                                              *)
ClientLeaves(r) ==
    /\ InFlight(r) /\ Becomes(r, "left")
    /\ UNCHANGED <<server, closing, lifetime, bound, kind, status>>

(* close: every waiting poll is woken; no new connection is taken.           *)
CloseServer ==
    /\ server = "listening" /\ server' = "closing" /\ closing' = TRUE
    /\ request' = [r \in Request |-> IF request[r] = "waiting" THEN "error" ELSE request[r]]
    /\ UNCHANGED <<lifetime, bound, kind, status>>
(* The last connection is done, or there never was a listener: dispose.      *)
ServerClosed ==
    /\ \/ server = "closing" /\ \A r \in Request : ~InFlight(r)
       \/ server = "failed"
    /\ server' = "closed" /\ closing' = TRUE /\ lifetime' = FALSE
    /\ UNCHANGED <<bound, request, kind, status>>

ServerNext ==
    \/ Listen \/ CloseServer \/ ServerClosed
    \/ \E r \in Request : \/ DispatchRequest(r) \/ BodyRead(r) \/ RecoveryReturns(r) \/ TerminalCloses(r)
                          \/ WaitEnds(r) \/ AnswerPoll(r) \/ ClientLeaves(r)
ServerSpec == ServerInit /\ [][ServerNext]_serverVars

-----------------------------------------------------------------------------
(* Shutdown is orderly: once it has begun no long poll waits, not even one   *)
(* that came on an open connection after it began, so it never waits a poll  *)
(* window; and the lifetime of the runtime ends only when nobody waits for   *)
(* an answer, so no request is served by a disposed runtime                  *)
(* (session-runtime-server.ts 68-77).                                        *)
OrderlyShutdown ==
    /\ closing => \A r \in Request : request[r] # "waiting"
    /\ ~lifetime => \A r \in Request : ~InFlight(r)
=============================================================================
