------------------------------ MODULE ClaudeDeltas ------------------------------
(***************************************************************************)
(* What a Claude run observes on its way to the store                      *)
(* (src/src/harnesses/claude-runtime.ts 133-183, 250-281).  Text deltas    *)
(* are buffered and committed by a timer; any other event commits the      *)
(* buffer at once, and the reader awaits that commit.  Commits are applied *)
(* in order (claude-durable-state.ts 147-153); one may fail for lack of    *)
(* room, or fence the store for good.  Events are numbered.  Claude        *)
(* (external) reports nothing after the result of its last turn.           *)
(***************************************************************************)
EXTENDS Naturals, Sequences, SequencesExt

CONSTANT MaxEventsRead      \* bound: events of the run

ASSUME DeltaAssumption == MaxEventsRead \in Nat

VARIABLES
    observed,    \* events the reader has handed over
    over,        \* the result of the last turn is one of them
    deltas,      \* run.buffered
    timer,       \* run.timer is set
    commits,     \* batches in the store's queue; <<0>> is the commit of the end
    reading,     \* "reading", or "awaiting" the commit of its batch
    awaited,     \* batches to settle before that one is settled
    persisted,   \* events in the store, in the order of their commits
    run,         \* "live", "stopped" (cancelled, its reader may go on), "closing"
                 \* (the end's commit is queued), "completed" or "failed"
    outcome,     \* what the end will say
    fenced
deltaVars == <<observed, over, deltas, timer, commits, reading, awaited, persisted, run, outcome,
               fenced>>

End == <<0>>

DeltasTypeOK ==
    /\ observed \in 0..MaxEventsRead /\ over \in BOOLEAN /\ deltas \in Seq(Nat) /\ timer \in BOOLEAN
    /\ commits \in Seq(Seq(Nat)) /\ persisted \in Seq(Nat)
    /\ reading \in {"reading", "awaiting"} /\ awaited \in Nat
    /\ run \in {"live", "stopped", "closing", "completed", "failed"}
    /\ outcome \in {"completed", "failed"} /\ fenced \in BOOLEAN

DeltasInit ==
    /\ observed = 0 /\ over = FALSE /\ deltas = <<>> /\ timer = FALSE /\ commits = <<>> /\ persisted = <<>>
    /\ reading = "reading" /\ awaited = 0 /\ run = "live" /\ outcome = "completed" /\ fenced = FALSE

(* Seeded fault: the buffer is emptied when its commit has succeeded.        *)
CommitKeeping(batch) == commits' = Append(commits, batch) /\ deltas' = batch /\ timer' = FALSE
(* commitObserved: the timer is cleared and the buffer taken at once.        *)
CommitObserved(batch) == commits' = Append(commits, batch) /\ deltas' = <<>> /\ timer' = FALSE

(* observe(): the next event of the process, also of one told to stop.  A    *)
(* result is no delta.                                                       *)
Observe ==
    /\ run \in {"live", "stopped"} /\ reading = "reading" /\ ~over /\ observed < MaxEventsRead
    /\ observed' = observed + 1
    /\ \/ /\ deltas' = Append(deltas, observed') /\ timer' = TRUE
          /\ UNCHANGED <<over, commits, reading, awaited>>
       \/ /\ CommitObserved(Append(deltas, observed'))
          /\ reading' = "awaiting" /\ awaited' = Len(commits) + 1 /\ over' \in BOOLEAN
    /\ UNCHANGED <<persisted, run, outcome, fenced>>
DeltaTimer ==
    /\ timer /\ CommitObserved(deltas)
    /\ UNCHANGED <<observed, over, reading, awaited, persisted, run, outcome, fenced>>

(* The end of the run: the timer is cleared and a commit of its own queued.  *)
Closing(how) == commits' = Append(Tail(commits), End) /\ run' = "closing" /\ outcome' = how
(* The head of the queue settles: applied, refused or fenced.  The reader    *)
(* goes on with its own; a refused one of the timer stops the stream, a      *)
(* refused one of the reader ends the reading.                               *)
CommitSettles ==
    /\ commits # <<>>
    /\ \E ok \in IF fenced THEN {FALSE} ELSE BOOLEAN :
        /\ persisted' = IF ok /\ Head(commits) # End THEN persisted \o Head(commits) ELSE persisted
        /\ \E fences \in BOOLEAN : /\ fences => ~ok
                                   /\ fenced' = (fenced \/ fences)
        /\ awaited' = IF awaited > 0 THEN awaited - 1 ELSE 0
        /\ IF Head(commits) = End
           THEN /\ run' = IF ok THEN outcome ELSE "failed"
                /\ commits' = Tail(commits) /\ UNCHANGED <<reading, outcome, timer, deltas>>
           ELSE IF awaited = 1
           THEN /\ reading' = "reading"
                /\ IF ok THEN commits' = Tail(commits) /\ UNCHANGED <<run, outcome, timer, deltas>>
                   ELSE Closing("failed") /\ timer' = FALSE /\ UNCHANGED deltas
           ELSE /\ commits' = Tail(commits)
                /\ run' = IF ~ok /\ run = "live" THEN "stopped" ELSE run
                /\ UNCHANGED <<reading, outcome, timer, deltas>>
    /\ UNCHANGED <<observed, over>>

(* The process ends.  It ends well only after the result of its last turn,   *)
(* and not after it has been told to stop.                                   *)
StreamDone ==
    /\ run \in {"live", "stopped"} /\ reading = "reading"
    /\ run' = "closing" /\ timer' = FALSE
    /\ outcome' \in IF run = "live" /\ over THEN {"completed", "failed"} ELSE {"failed"}
    /\ commits' = Append(commits, End)
    /\ UNCHANGED <<observed, over, deltas, reading, awaited, persisted, fenced>>
StopRun ==
    /\ run = "live" /\ run' = "stopped"
    /\ UNCHANGED <<observed, over, deltas, timer, commits, reading, awaited, persisted, outcome, fenced>>

DeltasNext == Observe \/ DeltaTimer \/ CommitSettles \/ StreamDone \/ StopRun
DeltasSpec == DeltasInit /\ [][DeltasNext]_deltaVars

-----------------------------------------------------------------------------
(* Whoever commits them, the timer or the next event, the events of a run    *)
(* are stored once and in the order Claude reported them, and a run is       *)
(* completed only with all of them stored (claude-runtime.ts 134-144,        *)
(* 150-153).                                                                 *)
EventsAreStored ==
    /\ \A i, j \in DOMAIN persisted : i < j => persisted[i] < persisted[j]
    /\ run = "completed" => persisted = [i \in 1..observed |-> i]
=============================================================================
