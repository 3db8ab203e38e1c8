------------------------------ MODULE NativeTurns ------------------------------
(***************************************************************************)
(* Turns of a native harness: the queue that runs them one at a time       *)
(* (src/src/harnesses/queue.ts), the process group of a turn and its       *)
(* cleanup (cli.ts runJsonProcess, process-stop.ts) and the conversation a *)
(* Claude turn claims or resumes (claude.ts, claude-launch.ts).  A process *)
(* may ignore SIGTERM, leave descendants behind when it closes its pipes,  *)
(* fail, or report events the platform never collects.  The runtime may be *)
(* lost at any point; what it saved of the conversation remains.           *)
(***************************************************************************)
EXTENDS Naturals, Sequences, SequencesExt, FiniteSets

CONSTANTS
    Turn,          \* submissions
    Steering,      \* those queued with priority, which cancel the current turn
    NoTurn,
    MaxWaiting,    \* capacity of the queue (256 in the code)
    MaxLosses      \* bound: lost runtimes

ASSUME TurnAssumption ==
    /\ Steering \subseteq Turn /\ NoTurn \notin Turn
    /\ MaxWaiting \in Nat /\ MaxLosses \in Nat

VARIABLES
    phase,      \* Turn -> where it is
    line,       \* the waiting turns
    current,    \* the turn that runs, or NoTurn
    due,        \* a microtask will drain the queue
    aborted,    \* turns whose signal has been aborted
    group,      \* Turn -> its process group
    rest,       \* turns whose process closed and left descendants in its group
    loaded,     \* what was saved has been read: "no", "yes" or "failed"
    talk,       \* the conversation in memory: [id, resumable]; id 0 is none
    file,       \* and as saved
    issued,     \* conversation identifiers made so far
    claims,     \* sequence of identifiers given to a process as new
    losses      \* lost runtimes (bound)
turnVars == <<phase, line, current, due, aborted, group, rest, loaded, talk, file, issued, claims,
              losses>>

Running == {"start", "saving", "launch", "reading", "publishing", "stopping"}
SettledTurn == {"resolved", "rejected", "lost"}
Talk == [id : Nat, resumable : BOOLEAN]

TurnsTypeOK ==
    /\ phase \in [Turn -> {"new", "waiting"} \cup Running \cup SettledTurn]
    /\ line \in Seq(Turn) /\ Len(line) <= MaxWaiting
    /\ current \in Turn \cup {NoTurn} /\ due \in BOOLEAN
    /\ aborted \subseteq Turn /\ rest \subseteq Turn
    /\ group \in [Turn -> {"none", "alive", "termed", "killed", "closed"}]
    /\ loaded \in {"no", "yes", "failed"} /\ talk \in Talk /\ file \in Talk
    /\ issued \in Nat /\ claims \in Seq(Nat) /\ losses \in 0..MaxLosses

(* An earlier runtime of this Session may have claimed conversation 1.       *)
TurnsInit ==
    /\ phase = [t \in Turn |-> "new"] /\ line = <<>> /\ current = NoTurn /\ due = FALSE
    /\ aborted = {} /\ group = [t \in Turn |-> "none"] /\ rest = {} /\ losses = 0
    /\ file \in {[id |-> 0, resumable |-> FALSE]} \cup [id : {1}, resumable : BOOLEAN]
    /\ loaded = "no" /\ talk = file /\ issued = file.id
    /\ claims = IF file.id = 0 THEN <<>> ELSE <<1>>

queueVars == <<line, current, due>>
talkVars == <<loaded, talk, file, issued, claims>>
To(t, where) == phase' = [phase EXCEPT ![t] = where]

(* Seeded fault: a publication under way is awaited, whatever the signal.   *)
InterruptWaits(x, moved) ==
    /\ aborted' = aborted \cup {x}
    /\ phase' = [moved EXCEPT ![x] = IF @ = "waiting" THEN "rejected" ELSE @]
    /\ group' = [group EXCEPT ![x] = IF @ = "alive" THEN "termed" ELSE @]
(* The signal of turn x fires: a waiting one is rejected, a publication      *)
(* under way is given up (handoff), and a process gets SIGTERM (stop).       *)
Interrupt(x, moved) ==
    /\ aborted' = aborted \cup {x}
    /\ phase' = [moved EXCEPT ![x] = CASE @ = "waiting" -> "rejected"
                                       [] @ = "publishing" -> "stopping"
                                       [] OTHER -> @]
    /\ group' = [group EXCEPT ![x] = IF @ = "alive" THEN "termed" ELSE @]

(* enqueue(); steer, with priority, also cancels the current turn.           *)
Enqueue(t) ==
    /\ phase[t] = "new" /\ t \notin aborted /\ Len(line) < MaxWaiting
    /\ line' = Append(line, t) /\ due' = TRUE
    /\ IF t \in Steering /\ current # NoTurn
       THEN Interrupt(current, [phase EXCEPT ![t] = "waiting"])
       ELSE To(t, "waiting") /\ UNCHANGED <<aborted, group>>
    /\ UNCHANGED <<current, rest, losses, talkVars>>

(* The Session aborts a turn, or cancel() the current one.                   *)
AbortTurn(t) ==
    /\ t \notin aborted
    /\ Interrupt(t, phase)
    /\ IF phase[t] = "waiting"
       THEN \E i \in DOMAIN line : line[i] = t /\ line' = RemoveAt(line, i)
       ELSE UNCHANGED line
    /\ UNCHANGED <<current, due, rest, losses, talkVars>>

(* drain(): the first turn with priority, else the first.                    *)
IsFirst(i) ==
    \/ line[i] \in Steering /\ \A j \in 1..(i - 1) : line[j] \notin Steering
    \/ i = 1 /\ \A j \in DOMAIN line : line[j] \notin Steering

Drain(moved) ==
    \/ line = <<>> /\ current' = NoTurn /\ phase' = moved /\ UNCHANGED line
    \/ \E i \in DOMAIN line :
        /\ IsFirst(i)
        /\ current' = line[i] /\ line' = RemoveAt(line, i)
        /\ phase' = [moved EXCEPT ![line[i]] = "start"]

DrainJob ==
    /\ due /\ due' = FALSE
    /\ IF current = NoTurn THEN Drain(phase) ELSE UNCHANGED <<current, phase, line>>
    /\ UNCHANGED <<aborted, group, rest, losses, talkVars>>

(* A turn settles once execute has: what waits next starts first.            *)
Settle(t, how) ==
    /\ Drain([phase EXCEPT ![t] = IF t \in aborted THEN "rejected" ELSE how])
    /\ UNCHANGED <<due, aborted, losses>>

(* execute begins: it loads what was saved, once per runtime, and every turn *)
(* of a runtime that cannot fails.  A conversation that never reported itself*)
(* gets a new identifier, for an interrupted process may have claimed the old*)
(* one.                                                                      *)
Renewed == [id |-> issued + 1, resumable |-> FALSE]
Claim == IF talk.resumable THEN talk ELSE Renewed
Begin(t) ==
    /\ phase[t] = "start"
    /\ IF t \in aborted
       THEN Settle(t, "rejected") /\ UNCHANGED <<loaded, talk, issued>>
       ELSE \/ /\ loaded # "failed" /\ loaded' = "yes"
               /\ talk' = Claim /\ issued' = IF Claim.id > issued THEN Claim.id ELSE issued
               /\ To(t, IF talk.resumable THEN "launch" ELSE "saving")
               /\ UNCHANGED <<queueVars, aborted, losses>>
            \/ /\ loaded # "yes" /\ loaded' = "failed"
               /\ Settle(t, "rejected") /\ UNCHANGED <<talk, issued>>
    /\ UNCHANGED <<group, rest, file, claims>>
Saved(t) ==
    /\ phase[t] = "saving"
    /\ \/ file' = talk /\ To(t, "launch") /\ UNCHANGED <<queueVars, aborted, losses>>
       \/ file' = file /\ Settle(t, "rejected")
    /\ UNCHANGED <<group, rest, loaded, talk, issued, claims>>

(* runClaude spawns the process, unless aborted meanwhile or spawn fails.    *)
Launch(t) ==
    /\ phase[t] = "launch"
    /\ \/ /\ t \notin aborted
          /\ group' = [group EXCEPT ![t] = "alive"]
          /\ claims' = IF talk.resumable THEN claims ELSE Append(claims, talk.id)
          /\ To(t, "reading")
          /\ UNCHANGED <<queueVars, aborted, losses>>
       \/ Settle(t, "rejected") /\ UNCHANGED <<group, claims>>
    /\ UNCHANGED <<rest, loaded, talk, file, issued>>

(* The process reports an event, which is handed off unless the turn has     *)
(* been aborted; "init" says that the conversation exists, and is saved first.*)
Report(t) ==
    /\ phase[t] = "reading" /\ group[t] \in {"alive", "termed"}
    /\ \E init, saved \in BOOLEAN :
        /\ init \/ saved
        /\ talk' = IF init THEN [talk EXCEPT !.resumable = TRUE] ELSE talk
        /\ file' = IF init /\ saved THEN talk' ELSE file
        /\ IF saved /\ t \notin aborted
           THEN To(t, "publishing") /\ UNCHANGED group
           ELSE To(t, "stopping") /\ group' = [group EXCEPT ![t] = "termed"]
    /\ UNCHANGED <<queueVars, aborted, rest, loaded, issued, claims, losses>>
Published(t) ==
    /\ phase[t] = "publishing"
    /\ To(t, "reading")
    /\ UNCHANGED <<queueVars, aborted, group, rest, losses, talkVars>>

(* The pipes of the process close; descendants may live on in its group.     *)
GroupCloses(t) ==
    /\ group[t] \in {"alive", "termed", "killed"}
    /\ rest' \in IF group[t] = "killed" THEN {rest} ELSE {rest, rest \cup {t}}
    /\ group' = [group EXCEPT ![t] = "closed"]
    /\ UNCHANGED <<phase, queueVars, aborted, losses, talkVars>>
GroupGraceEnds(t) ==
    /\ group[t] = "termed"
    /\ group' = [group EXCEPT ![t] = "killed"]
    /\ UNCHANGED <<phase, queueVars, aborted, rest, losses, talkVars>>

(* Its output ends, or cannot be read: the process is stopped and awaited.   *)
ReadingEnds(t) ==
    /\ phase[t] = "reading"
    /\ To(t, "stopping")
    /\ group' = [group EXCEPT ![t] = IF @ = "alive" THEN "termed" ELSE @]
    /\ UNCHANGED <<queueVars, aborted, rest, losses, talkVars>>

(* Seeded fault: an aborted turn does not wait for its process.             *)
FinishAtOnce(t) ==
    /\ phase[t] = "stopping" /\ (group[t] = "closed" \/ t \in aborted)
    /\ rest' = rest \ {t}
    /\ \E how \in {"resolved", "rejected"} : Settle(t, how)
    /\ UNCHANGED <<group, talkVars>>
(* Once it has closed, what is left of its group is killed and the turn      *)
(* settles.                                                                  *)
FinishTurn(t) ==
    /\ phase[t] = "stopping" /\ group[t] = "closed"
    /\ rest' = rest \ {t}
    /\ \E how \in {"resolved", "rejected"} : Settle(t, how)
    /\ UNCHANGED <<group, talkVars>>

(* The runtime is lost with its processes; a new one loads what was saved.   *)
RuntimeLost ==
    /\ losses < MaxLosses /\ losses' = losses + 1
    /\ phase' = [t \in Turn |-> IF phase[t] \in Running \cup {"waiting"} THEN "lost" ELSE phase[t]]
    /\ line' = <<>> /\ current' = NoTurn /\ due' = FALSE /\ rest' = {}
    /\ group' = [t \in Turn |-> IF group[t] = "none" THEN "none" ELSE "closed"]
    /\ loaded' = "no" /\ talk' = file
    /\ UNCHANGED <<aborted, file, issued, claims>>

Turns(t) == Begin(t) \/ Saved(t) \/ Launch(t) \/ FinishTurn(t)
TurnsNext ==
    \/ \E t \in Turn : \/ Enqueue(t) \/ AbortTurn(t) \/ Turns(t) \/ Report(t) \/ Published(t)
                       \/ GroupCloses(t) \/ GroupGraceEnds(t) \/ ReadingEnds(t)
    \/ DrainJob \/ RuntimeLost

(* Fairness: the event loop and the file system go on, the grace timer fires *)
(* and a killed process closes; nothing is asked of a process that runs, of  *)
(* SIGTERM or of the platform that collects what is published.               *)
TurnsFair ==
    /\ WF_turnVars(DrainJob)
    /\ \A t \in Turn : /\ WF_turnVars(Turns(t))
                       /\ WF_turnVars(GroupGraceEnds(t))
                       /\ WF_turnVars(group[t] = "killed" /\ GroupCloses(t))
                       /\ WF_turnVars(group[t] = "closed" /\ ReadingEnds(t))
TurnsSpec == TurnsInit /\ [][TurnsNext]_turnVars /\ TurnsFair

-----------------------------------------------------------------------------
(* At most one turn has processes, and it is the one that runs: a turn has   *)
(* not settled, nor the next one begun, before the whole process group of a  *)
(* stopped one is gone (queue.ts 85-93, cli.ts 183-192).                     *)
ProcessesAreTheCurrentTurns ==
    \A t \in Turn : group[t] \in {"alive", "termed", "killed"} \/ t \in rest => current = t

(* No turn is stranded in the queue: while one waits, a turn runs or a drain *)
(* is due (queue.ts 46, 57, 87, 91).                                         *)
NoStrandedTurn == line # <<>> => current # NoTurn \/ due

(* "An interrupted turn may have claimed its --session-id before init; never *)
(* reuse it": no identifier is given to two processes as a new conversation, *)
(* not even by the runtimes of two losses (claude.ts 27-28).                 *)
ClaimedOnce == \A i, j \in DOMAIN claims : claims[i] = claims[j] => i = j

(* A cancelled or aborted turn settles, though its process ignores SIGTERM   *)
(* and the platform never collects what it is publishing (queue.ts 64-73,    *)
(* process-stop.ts 16-22).                                                   *)
AbortedTurnsSettle ==
    \A t \in Turn : (t \in aborted /\ phase[t] # "new") ~> phase[t] \in SettledTurn

(* Turns are exclusive in all they hold: the place of the current turn, the  *)
(* processes and the identifier of a new conversation.                       *)
TurnsAreExclusive == ProcessesAreTheCurrentTurns /\ NoStrandedTurn /\ ClaimedOnce
=============================================================================
