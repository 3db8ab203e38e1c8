------------------------------ MODULE AuthLogins ------------------------------
(***************************************************************************)
(* Native logins of a Workspace's auth Sandbox: the terminal relayed to a  *)
(* browser (src/src/auth-terminal.ts) and the link-and-code login          *)
(* (auth-code-login.ts).  Auth commands run one at a time in the mailbox   *)
(* of the Session (session-runtime-adapter.ts 310-321); beside them go the *)
(* timers, the attach route, the process's own output and exit, and the    *)
(* end of the Sandbox.  A command is the sequence of steps it has left,    *)
(* each up to its next await.  A process may ignore SIGTERM, and its pipes *)
(* may stay open long after SIGKILL.                                       *)
(***************************************************************************)
EXTENDS Naturals, Sequences, FiniteSets

CONSTANTS
    Process,       \* login processes the provider may spawn
    NoProcess,
    MaxCommands    \* bound: auth commands

ASSUME LoginAssumption == NoProcess \notin Process /\ MaxCommands \in Nat

VARIABLES
    process,    \* Process -> "new", "live", "termed", "killed" or "closed"
    terminal,   \* AuthTerminals.#current
    attempt,    \* AuthCodeLogin.#attempt
    logins,     \* processes started as code logins
    attached,   \* terminals a browser is or was attached to
    prompted,   \* code logins that have shown their link and asked for a code
    failed,     \* code logins that failed (stream error or too much output)
    stopping,   \* processes some stop() awaits
    todo,       \* steps left of the command that runs; <<>> between commands
    commands,   \* commands so far (bound)
    ended       \* the lifetime signal has been aborted
loginVars == <<process, terminal, attempt, logins, attached, prompted, failed, stopping,
               todo, commands, ended>>

Steps == {"stopTerminal", "terminalStops", "stopLogin", "loginStops", "admit", "login", "status",
          "startTerminal", "startLogin", "prompt", "code", "answer"}
Alive(p) == process[p] \in {"live", "termed", "killed"}
active == terminal # NoProcess \/ attempt # NoProcess     \* what quiescence waits for

LoginsTypeOK ==
    /\ process \in [Process -> {"new", "live", "termed", "killed", "closed"}]
    /\ terminal \in Process \cup {NoProcess} /\ attempt \in Process \cup {NoProcess}
    /\ \A S \in {logins, attached, prompted, failed, stopping} : S \subseteq Process
    /\ todo \in Seq(Steps) /\ commands \in 0..MaxCommands /\ ended \in BOOLEAN

LoginsInit ==
    /\ process = [p \in Process |-> "new"] /\ terminal = NoProcess /\ attempt = NoProcess
    /\ logins = {} /\ attached = {} /\ prompted = {} /\ failed = {} /\ stopping = {}
    /\ todo = <<>> /\ commands = 0 /\ ended = FALSE

slots == <<terminal, attempt>>
marks == <<logins, attached, prompted, failed>>
control == <<todo, commands, ended>>

(* #kill and stopWithGrace: SIGTERM now, SIGKILL after the grace.            *)
Termed(P) == [p \in Process |-> IF p \in P /\ process[p] = "live" THEN "termed" ELSE process[p]]
Stop(P) == /\ process' = Termed(P)
           /\ stopping' = stopping \cup P

(* The steps of each command (handle, login, code, cancel).                  *)
Programs ==
    {<<"stopTerminal", "admit", "login">>,                                    \* login
     <<"stopTerminal", "admit", "stopLogin", "status", "startLogin", "prompt">>, \* forced
     <<"stopLogin">>,                                                         \* cancel
     <<"stopLogin", "stopTerminal", "status">>,                               \* logout
     <<"stopTerminal">>,                                                      \* close
     <<"stopLogin", "stopTerminal", "admit", "startTerminal">>}               \* terminal
Submitted ==                                                                  \* code
    IF attempt \notin prompted \ failed THEN {}
    ELSE {IF Alive(attempt) THEN <<"code">> ELSE <<"status", "stopLogin">>}
Command ==
    /\ todo = <<>> /\ commands < MaxCommands /\ commands' = commands + 1
    /\ todo' \in Programs \cup Submitted
    /\ UNCHANGED <<process, slots, marks, stopping, ended>>

(* Once the terminal has stopped: nothing starts after the lifetime's end,   *)
(* and a login that still runs is joined.                                    *)
Decide ==
    /\ todo # <<>>
    /\ \/ Head(todo) = "admit" /\ todo' = IF ended THEN <<>> ELSE Tail(todo)
       \/ Head(todo) = "login"
          /\ todo' = IF attempt # NoProcess /\ Alive(attempt) THEN <<"prompt">>
                     ELSE <<"stopLogin", "status", "startLogin", "prompt">>
    /\ UNCHANGED <<process, slots, marks, stopping, commands, ended>>

(* stop() of a slot begins, and the command awaits it.                       *)
BeginStop ==
    /\ \/ todo # <<>> /\ Head(todo) = "stopTerminal"
          /\ IF terminal = NoProcess THEN todo' = Tail(todo) /\ UNCHANGED <<process, stopping>>
             ELSE Stop({terminal}) /\ todo' = <<"terminalStops">> \o Tail(todo)
       \/ todo # <<>> /\ Head(todo) = "stopLogin"
          /\ IF attempt = NoProcess THEN todo' = Tail(todo) /\ UNCHANGED <<process, stopping>>
             ELSE Stop({attempt}) /\ todo' = <<"loginStops">> \o Tail(todo)
    /\ UNCHANGED <<slots, marks, commands, ended>>
StopsAwaited ==
    /\ todo # <<>>
    /\ \/ Head(todo) = "terminalStops" /\ stopping \subseteq logins
       \/ Head(todo) = "loginStops" /\ stopping \cap logins = {}
    /\ todo' = Tail(todo)
    /\ UNCHANGED <<process, slots, marks, stopping, commands, ended>>

(* stop() resumes: for a login when it has closed, for a terminal also after *)
(* STOP_MS, which is longer than the grace; each clears only its own slot.   *)
Stopped(p) ==
    /\ p \in stopping
    /\ process[p] = "closed" \/ (p \notin logins /\ process[p] = "killed")
    /\ stopping' = stopping \ {p}
    /\ terminal' = IF terminal = p THEN NoProcess ELSE terminal
    /\ attempt' = IF attempt = p THEN NoProcess ELSE attempt
    /\ UNCHANGED <<process, marks, control>>

(* The provider's status or logout answers, ends the command, or throws.     *)
Status ==
    /\ todo # <<>> /\ Head(todo) = "status"
    /\ todo' \in {Tail(todo), <<>>}
    /\ UNCHANGED <<process, slots, marks, stopping, commands, ended>>

(* The provider spawns a process, or throws.  A code login stops itself when *)
(* the lifetime ended meanwhile; a terminal was refused before only.         *)
Spawn(p) ==
    /\ todo # <<>> /\ process[p] = "new"
    /\ \/ /\ Head(todo) = "startTerminal" /\ terminal' = p
          /\ process' = [process EXCEPT ![p] = "live"]
          /\ todo' = <<>>
          /\ UNCHANGED <<attempt, logins, stopping>>
       \/ /\ Head(todo) = "startLogin" /\ attempt' = p /\ logins' = logins \cup {p}
          /\ process' = [process EXCEPT ![p] = IF ended THEN "termed" ELSE "live"]
          /\ stopping' = IF ended THEN stopping \cup {p} ELSE stopping
          /\ todo' = IF ended THEN <<"loginStops">> \o Tail(todo) ELSE Tail(todo)
          /\ UNCHANGED terminal
    /\ UNCHANGED <<attached, prompted, failed, commands, ended>>
SpawnFails ==
    /\ todo # <<>> /\ Head(todo) \in {"startTerminal", "startLogin"}
    /\ todo' = <<>>
    /\ UNCHANGED <<process, slots, marks, stopping, commands, ended>>

(* login() has its prompt, or gives up: the process ended or failed, or 20 s *)
(* have passed.                                                              *)
Prompt ==
    /\ todo = <<"prompt">>
    /\ todo' = IF attempt \in prompted \ failed /\ Alive(attempt) THEN <<>> ELSE <<"stopLogin">>
    /\ UNCHANGED <<process, slots, marks, stopping, commands, ended>>
(* code() has written the code, or the process was gone; then it waits: the  *)
(* process exits, fails, prompts again (Output) or says nothing for 20 s.    *)
Write ==
    /\ todo = <<"code">>
    /\ todo' \in {<<"answer">>, <<>>}
    /\ UNCHANGED <<process, slots, marks, stopping, commands, ended>>
Answer ==
    /\ todo = <<"answer">>
    /\ todo' = IF attempt # NoProcess /\ ~Alive(attempt) /\ attempt \notin failed
               THEN <<"status", "stopLogin">> ELSE <<"stopLogin">>
    /\ UNCHANGED <<process, slots, marks, stopping, commands, ended>>

(* A code login prints its link and a prompt, one more after a wrong code,   *)
(* or fails: an error of its streams, or more output than is kept.           *)
Output(p) ==
    /\ p \in logins /\ p = attempt /\ Alive(p)
    /\ \/ prompted' = prompted \cup {p} /\ UNCHANGED <<process, stopping, failed>>
          /\ todo' = IF p \in prompted /\ todo \in {<<"code">>, <<"answer">>}
                     THEN <<>> ELSE todo
       \/ failed' = failed \cup {p} /\ Stop({p}) /\ UNCHANGED <<prompted, todo>>
    /\ UNCHANGED <<slots, logins, attached, commands, ended>>

(* Seeded fault: the close of an old terminal clears the slot too.          *)
ClosesAny(p) ==
    /\ Alive(p)
    /\ process' = [process EXCEPT ![p] = "closed"]
    /\ terminal' = IF p \in logins THEN terminal ELSE NoProcess
    /\ UNCHANGED <<attempt, marks, stopping, control>>
(* The close event: a terminal leaves its slot, a code login keeps it.       *)
Closes(p) ==
    /\ Alive(p)
    /\ process' = [process EXCEPT ![p] = "closed"]
    /\ terminal' = IF terminal = p THEN NoProcess ELSE terminal
    /\ UNCHANGED <<attempt, marks, stopping, control>>
(* Seeded fault: a code login is only asked to stop.                        *)
GraceEndsTerminal(p) ==
    /\ process[p] = "termed" /\ p \notin logins
    /\ process' = [process EXCEPT ![p] = "killed"]
    /\ UNCHANGED <<slots, marks, stopping, control>>
GraceEnds(p) ==
    /\ process[p] = "termed"
    /\ process' = [process EXCEPT ![p] = "killed"]
    /\ UNCHANGED <<slots, marks, stopping, control>>

(* A browser attaches once; leaving ends the login.                          *)
Attach(p) ==
    /\ p = terminal /\ Alive(p) /\ p \notin attached
    /\ attached' = attached \cup {p}
    /\ UNCHANGED <<process, slots, logins, prompted, failed, stopping, control>>
Detach(p) ==
    /\ p = terminal /\ p \in attached
    /\ Stop({p})
    /\ UNCHANGED <<slots, marks, control>>

(* A terminal is killed when nobody attaches within a minute, when its       *)
(* reader stalls and after ten minutes; a code login is stopped after ten,   *)
(* its process running or not.                                               *)
TerminalTimer(p) ==
    /\ process[p] = "live" /\ p \notin logins
    /\ process' = Termed({p})
    /\ UNCHANGED <<slots, marks, stopping, control>>
LoginTimer(p) ==
    /\ p \in logins /\ attempt = p /\ p \notin stopping
    /\ Stop({p})
    /\ UNCHANGED <<slots, marks, control>>

(* The Sandbox ends: both slots are stopped.                                 *)
LifetimeEnds ==
    /\ ~ended /\ ended' = TRUE
    /\ Stop({terminal, attempt} \ {NoProcess})
    /\ UNCHANGED <<slots, marks, todo, commands>>

LoginSteps == Decide \/ BeginStop \/ StopsAwaited \/ Status \/ SpawnFails \/ Prompt \/ Write \/ Answer
LoginsNext ==
    \/ Command \/ LoginSteps \/ LifetimeEnds
    \/ \E p \in Process :
        \/ Spawn(p) \/ Stopped(p) \/ Output(p) \/ Closes(p) \/ GraceEnds(p)
        \/ Attach(p) \/ Detach(p) \/ TerminalTimer(p) \/ LoginTimer(p)

(* Fairness: the event loop, the timers and the provider's calls; a killed   *)
(* process closes in the end.                                                *)
LoginsFair ==
    /\ WF_loginVars(LoginSteps)
    /\ \A p \in Process :
        /\ WF_loginVars(Stopped(p)) /\ WF_loginVars(GraceEnds(p))
        /\ WF_loginVars(TerminalTimer(p)) /\ WF_loginVars(LoginTimer(p))
        /\ WF_loginVars(process[p] = "killed" /\ Closes(p))
LoginsSpec == LoginsInit /\ [][LoginsNext]_loginVars /\ LoginsFair

-----------------------------------------------------------------------------
(* A login that runs is known: its process holds one of the slots that keep  *)
(* the Sandbox from being released, until it has been killed.  The close of  *)
(* an earlier terminal, or a stop that resumes late, does not take the slot  *)
(* from its successor (auth-terminal.ts 150-158, 172-180, auth-code-login.ts *)
(* 104-115; docs/native-auth.md "stays non-quiescent while a login is        *)
(* running").                                                                *)
RunningLoginIsHeld ==
    \A p \in Process : Alive(p) /\ process[p] # "killed" => p \in {terminal, attempt}

(* "Each Workspace has at most one login": a terminal and a code login never *)
(* run side by side, nor two of a kind, but for one already killed           *)
(* (auth-terminal.ts 61-81; docs/native-auth.md 85).                         *)
OneLogin ==
    \A p, q \in Process : {process[p], process[q]} \subseteq {"live", "termed"} => p = q

(* "A login ends after 10 minutes": every slot is given up in the end, also  *)
(* that of a code login whose process has exited and whose code never comes  *)
(* (auth-terminal.ts 138, auth-code-login.ts 50, 128).                       *)
LoginsEnd == \A p \in Process : (p \in {terminal, attempt}) ~> (p \notin {terminal, attempt})

(* No auth command blocks the mailbox for ever: whatever the process does    *)
(* while a code is submitted, the command is answered (auth-code-login.ts    *)
(* 75-97, 104-115, 158-169).                                                 *)
CommandsEnd == todo # <<>> ~> todo = <<>>

(* At most one login, and the one that runs is known.                        *)
LoginIsKnown == RunningLoginIsHeld /\ OneLogin

(* Logins and auth commands come to an end.                                  *)
LoginsFinish == LoginsEnd /\ CommandsEnd
=============================================================================
