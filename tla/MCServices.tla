------------------------------- MODULE MCServices -------------------------------
(* The parts of the SDK that share no state with each other or with the      *)
(* Session intake, checked in one run: the initial state chooses one of      *)
(* them, the subject, and only its module takes steps.  The others stay in   *)
(* an initial state, where none of the actions they are fair to is enabled.  *)
EXTENDS WorkspaceDatabase, NativeTurns, AuthLogins, TerminalBridge, ClientStream,
        HarnessOperations, RuntimeLog, ClaudeDeltas, RuntimeServer, AppCommands

VARIABLE subject
vars == <<databaseVars, turnVars, loginVars, bridgeVars, streamVars, harnessVars,
          logVars, deltaVars, serverVars, commandVars, subject>>

Init ==
    /\ subject \in {"database", "turns", "logins", "bridge", "stream", "harness",
                   "log", "deltas", "server", "submissions", "reference"}
    /\ DatabaseInit /\ TurnsInit /\ LoginsInit /\ BridgeInit /\ StreamInit
    /\ HarnessInit /\ LogInit /\ DeltasInit /\ ServerInit
    /\ SubmissionsInit /\ ReferenceInit
    /\ subject # "turns" => file.id = 0
    /\ subject # "server" => \A r \in Request : kind[r] = "status"
    /\ subject # "submissions" => capability = "default"
    /\ subject # "reference" => ~slugged

DatabaseStep ==
    /\ subject = "database" /\ DatabaseNext
    /\ UNCHANGED <<turnVars, loginVars, bridgeVars, streamVars, harnessVars,
                   logVars, deltaVars, serverVars, commandVars, subject>>
TurnsStep ==
    /\ subject = "turns" /\ TurnsNext
    /\ UNCHANGED <<databaseVars, loginVars, bridgeVars, streamVars, harnessVars,
                   logVars, deltaVars, serverVars, commandVars, subject>>
LoginsStep ==
    /\ subject = "logins" /\ LoginsNext
    /\ UNCHANGED <<databaseVars, turnVars, bridgeVars, streamVars, harnessVars,
                   logVars, deltaVars, serverVars, commandVars, subject>>
BridgeStep ==
    /\ subject = "bridge" /\ BridgeNext
    /\ UNCHANGED <<databaseVars, turnVars, loginVars, streamVars, harnessVars,
                   logVars, deltaVars, serverVars, commandVars, subject>>
StreamStep ==
    /\ subject = "stream" /\ StreamNext
    /\ UNCHANGED <<databaseVars, turnVars, loginVars, bridgeVars, harnessVars,
                   logVars, deltaVars, serverVars, commandVars, subject>>
HarnessStep ==
    /\ subject = "harness" /\ HarnessNext
    /\ UNCHANGED <<databaseVars, turnVars, loginVars, bridgeVars, streamVars,
                   logVars, deltaVars, serverVars, commandVars, subject>>
LogStep ==
    /\ subject = "log" /\ LogNext
    /\ UNCHANGED <<databaseVars, turnVars, loginVars, bridgeVars, streamVars,
                   harnessVars, deltaVars, serverVars, commandVars, subject>>
DeltasStep ==
    /\ subject = "deltas" /\ DeltasNext
    /\ UNCHANGED <<databaseVars, turnVars, loginVars, bridgeVars, streamVars,
                   harnessVars, logVars, serverVars, commandVars, subject>>
ServerStep ==
    /\ subject = "server" /\ ServerNext
    /\ UNCHANGED <<databaseVars, turnVars, loginVars, bridgeVars, streamVars,
                   harnessVars, logVars, deltaVars, commandVars, subject>>
CommandsStep ==
    /\ \/ subject = "submissions" /\ SubmissionsNext
       \/ subject = "reference" /\ ReferenceNext
    /\ UNCHANGED <<databaseVars, turnVars, loginVars, bridgeVars, streamVars,
                   harnessVars, logVars, deltaVars, serverVars, subject>>

Next ==
    \/ DatabaseStep \/ TurnsStep \/ LoginsStep \/ BridgeStep \/ StreamStep
    \/ HarnessStep \/ LogStep \/ DeltasStep \/ ServerStep \/ CommandsStep
Spec == Init /\ [][Next]_vars /\ TurnsFair /\ LoginsFair /\ BridgeFair /\ HarnessFair

(* The types of every part, and the bound of the one queue that has one:     *)
(* the bridge's backlog (auth-terminal-bridge.ts 42-61).                     *)
ServicesTypeOK ==
    /\ DatabaseTypeOK /\ TurnsTypeOK /\ LoginsTypeOK /\ BridgeTypeOK /\ StreamTypeOK
    /\ HarnessTypeOK /\ LogTypeOK /\ DeltasTypeOK /\ ServerTypeOK
    /\ CommandsTypeOK
    /\ BacklogIsBounded
=============================================================================
