----------------------------- MODULE ClaudeRuntime -----------------------------
(***************************************************************************)
(* createClaudeRuntime (src/harnesses/claude-runtime.ts) on a native       *)
(* stream (claude-stream.ts): inputs, runs, cancellation and recovery.     *)
(*                                                                         *)
(* Four activities of the event loop share the store: the mailbox's        *)
(* `handler` (one command at a time), the `work` of the managed activity,  *)
(* the `reader` of native events and the onCancel `hook`.  Each waits for  *)
(* one commit at a time.  An action is one job: it runs to the next await. *)
(*                                                                         *)
(* ClaudeStore models the store's file and outbox.  Here a commit succeeds *)
(* or fails, in the order of the requests; a flush takes any time, and may *)
(* fail.  Settings, limits, text deltas and the view are left out; failed, *)
(* cancelled and interrupted inputs are all "stopped".  Inputs are named   *)
(* by their order of admission.                                            *)
(***************************************************************************)
EXTENDS Integers, Sequences, FiniteSets

CONSTANTS MaxInputs,    \* bound: inputs admitted
          MaxCancels,   \* bound: cancel commands, aborted activities and resets
          MaxFailures   \* bound: failed writes and lost processes

ASSUME RuntimeAssumption ==
  MaxInputs \in Nat /\ MaxCancels \in Nat /\ MaxFailures \in Nat

Inputs == 1..MaxInputs
Runs == 1..2 * MaxInputs + MaxCancels + 8   \* more names than are in use at once
Actors == {"handler", "work", "reader", "hook"}

VARIABLES
  disk, memory,   \* durable state: the file, and store.snapshot
  up, fenced,     \* the process has initialized; a write of it failed
  operations,     \* the commits that wait, by the actor that waits for them
  at,             \* at[a]: what actor a awaits
  on, to,         \* on[a], to[a]: the input and the run it is about (0: none)
  then,           \* what the handler does after its flush
  todo,           \* the inputs `work` has still to deliver
  run, active,    \* the last run that was started; whether `active` is set
  slot,           \* the managed activity owns the slot
  aborted,        \* run.controller
  killed,         \* activity.signal
  stream,         \* run.stream
  sent, consumed, \* `pending` and `consumed` of the stream
  written,        \* history: how often each input was written to Claude
  cancels, failures

storeVars == <<disk, memory, up, fenced>>
actorVars == <<at, on, to, then, todo>>
runVars == <<run, active, slot, aborted, killed>>
streamVars == <<stream, sent, consumed>>
counters == <<cancels, failures>>
vars == <<storeVars, operations, actorVars, runVars, streamVars, written, counters>>

-----------------------------------------------------------------------------
(* The stream.  "halting" was cancelled before it was ready and "stopping"  *)
(* after; "unstarted" and "settled" are over.  A run that is over before    *)
(* its stream is constructed has "refused".                                 *)
HasStream == stream \notin {"none", "refused"}
accepting == stream \in {"starting", "open"}
Reading == stream \in {"open", "ending", "stopping"}
Settled == stream \in {"unstarted", "settled"}

(* Seeded fault: a stream that is starting is not cancelled.                *)
CancelledLate(s) == IF s \in {"open", "ending"} THEN "stopping" ELSE s

Cancelled(s) == CASE s = "starting" -> "halting"
                  [] s \in {"open", "ending"} -> "stopping"
                  [] OTHER -> s

-----------------------------------------------------------------------------
(* What the transactions make of the state, by what their actor awaits.     *)
pending(state, i) == state.status[i] \in {"delivering", "running"}
Pending(state) == {i \in Inputs : pending(state, i)}
Accepted(state) == {i \in Inputs : state.status[i] = "accepted"}
Running(state) == {i \in Inputs : state.status[i] = "running"}
OfRun(state, r) == {i \in Inputs : state.runOf[i] = r}

SetStatus(state, is, s) ==
  [state EXCEPT !.status = [i \in Inputs |-> IF i \in is THEN s ELSE @[i]]]
SetRunOf(state, is, r) ==
  [state EXCEPT !.runOf = [i \in Inputs |-> IF i \in is THEN r ELSE @[i]]]
SetRun(state, r, s) == IF state.run.id = r THEN [state EXCEPT !.run.status = s] ELSE state

(* What was being delivered is not delivered again; the rest is retained    *)
(* for a run of its own, and a run that was open has ended.                 *)
Initialized(state, r) ==
  LET stopped == SetStatus(state, Pending(state), "stopped")
      retained == SetRunOf(stopped, Accepted(stopped), r)
  IN  IF state.run.status = "none" THEN retained ELSE [retained EXCEPT !.run.status = "ended"]

(* admitInput, and the detaching of an input that was not written.          *)
Admitted(state, i, r) == SetRunOf(SetStatus(state, {i}, "accepted"), {i}, r)

Begun(state, i, r) ==
  [SetStatus(state, {i}, "delivering") EXCEPT !.run = [id |-> r, status |-> "running"]]

Delivering(state, i) == SetStatus(state, {i} \cap Accepted(state), "delivering")

Echoed(state, i, r) ==
  IF i \in OfRun(state, r) /\ state.status[i] = "delivering" THEN SetStatus(state, {i}, "running") ELSE state

Resulted(state, r, s) ==
  LET settled == SetStatus(state, OfRun(state, r) \cap Running(state), s)
  IN  IF ~accepting /\ state.run.status = "running" THEN [settled EXCEPT !.run.status = "finishing"]
      ELSE settled

(* Seeded fault: the end of a run settles only what Claude has echoed.      *)
FinishedEchoed(state, r) ==
  SetRun(SetStatus(state, OfRun(state, r) \cap Running(state), "stopped"), r, "ended")

Finished(state, r) ==
  SetRun(SetStatus(state, OfRun(state, r) \cap (Pending(state) \cup Accepted(state)), "stopped"), r, "ended")

(* cancel: of run r if one was requested (r # 0), of dormant input i.       *)
CancelRecorded(state, i, r) ==
  LET dormant == SetStatus(state, {i}, "stopped")
  IN  IF r = 0 THEN dormant ELSE [SetRun(dormant, r, "cancelling") EXCEPT !.controls = @ \cup {r}]

WasReset(state) ==
  [SetStatus(state, Accepted(state), "stopped") EXCEPT !.run = [id |-> 0, status |-> "none"]]

Mutated(a) ==
  CASE at[a] = "initialize"        -> Initialized(memory, to[a])
    [] at[a] \in {"admit", "detach"} -> Admitted(memory, on[a], to[a])
    [] at[a] = "begin"   -> Begun(memory, on[a], run)
    [] at[a] = "deliver" -> Delivering(memory, on[a])
    [] at[a] = "echo"    -> Echoed(memory, on[a], run)
    [] at[a] = "result"  -> Resulted(memory, run, "completed")
    [] at[a] = "error"   -> Resulted(memory, run, "stopped")
    [] at[a] = "final"   -> Finished(memory, run)
    [] at[a] = "cancel"  -> CancelRecorded(memory, on[a], to[a])
    [] at[a] = "hook"    -> SetRun(memory, to[a], "cancelling")
    [] at[a] = "reset"   -> WasReset(memory)

-----------------------------------------------------------------------------

Init ==
  /\ disk = [status |-> [i \in Inputs |-> "none"], runOf |-> [i \in Inputs |-> 0],
             run |-> [id |-> 0, status |-> "none"], controls |-> {}]
  /\ memory = disk
  /\ up = FALSE /\ fenced = FALSE /\ operations = <<>>
  /\ at = [a \in Actors |-> "idle"]
  /\ on = [a \in Actors |-> 0] /\ to = [a \in Actors |-> 0]
  /\ then = "none" /\ todo = {}
  /\ run = 0 /\ active = FALSE /\ slot = FALSE /\ aborted = FALSE /\ killed = FALSE
  /\ stream = "none" /\ sent = {} /\ consumed = {}
  /\ written = [i \in Inputs |-> 0]
  /\ cancels = 0 /\ failures = 0

-----------------------------------------------------------------------------
(* Where a step leaves actor a: it awaits something, and has asked for a    *)
(* commit or not.  `queue` is what the step left of the waiting commits.    *)

Awaits(a, what) == at' = [at EXCEPT ![a] = what]
Commits(a, what, queue) == Awaits(a, what) /\ operations' = Append(queue, a)
Continues(a, what, queue) == Awaits(a, what) /\ operations' = queue

(* randomUUID: an identity that nothing refers to.                          *)
InUse == {run, memory.run.id, disk.run.id} \cup memory.controls \cup disk.controls
         \cup {to[a] : a \in Actors} \cup {memory.runOf[i] : i \in Inputs} \cup {disk.runOf[i] : i \in Inputs}
NewRun(a) == to' = [to EXCEPT ![a] = CHOOSE r \in Runs \ InUse : \A other \in Runs \ InUse : r <= other]

SameInput == UNCHANGED <<on, to, todo>>
Interrupt == aborted' = TRUE /\ stream' = Cancelled(stream)
Uninterrupted == UNCHANGED <<aborted, stream>>

(* work: the first of those left that is still accepted is delivered, or    *)
(* none is and the stream's end is awaited.                                 *)
NextDelivery(left, queue) ==
  LET next == left \cap Accepted(memory)
  IN  IF next = {} THEN Continues("work", "done", queue) /\ UNCHANGED on /\ todo' = {}
      ELSE \E i \in next : /\ \A j \in next : i <= j
                           /\ Commits("work", "deliver", queue)
                           /\ on' = [on EXCEPT !["work"] = i]
                           /\ todo' = left \ 1..i

(* deliver returns.                                                         *)
Delivered(a, queue) ==
  IF a = "work" THEN NextDelivery(todo, queue)
  ELSE Continues(a, "idle", queue) /\ UNCHANGED <<on, todo>>

(* An actor's call throws.  The catch of work cancels the stream.           *)
Throws(a, queue) == Continues(a, IF a = "work" THEN "done" ELSE "idle", queue)

(* stream.send throws: deliver stops the run.  The first send is work's own.*)
SendThrows(a, queue) ==
  /\ IF at[a] \in {"first", "firstWrite"} THEN stream' = Cancelled(stream) /\ UNCHANGED aborted ELSE Interrupt
  /\ Throws(a, queue)
  /\ UNCHANGED to

(* The stream closed before the input was written: deliver detaches it,     *)
(* unless the run was aborted.                                              *)
Closed(a, queue) ==
  IF aborted THEN SendThrows(a, queue)
  ELSE NewRun(a) /\ Commits(a, "detach", queue) /\ Uninterrupted

(* deliver, once its input is "delivering": stream.send, which writes to an  *)
(* open stream and waits for one that is starting.                          *)
Written(as) == written' = [i \in Inputs |-> written[i] + Cardinality({a \in as : on[a] = i})]

BeginSend(a, queue) ==
  IF ~accepting THEN Closed(a, queue) /\ UNCHANGED <<sent, written>>
  ELSE /\ sent' = sent \cup {on[a]}
       /\ IF stream = "open" /\ killed THEN SendThrows(a, queue) /\ UNCHANGED written
          ELSE /\ Continues(a, IF stream = "open" THEN "write" ELSE "send", queue)
               /\ Written(IF stream = "open" THEN {a} ELSE {})
               /\ Uninterrupted /\ UNCHANGED to

-----------------------------------------------------------------------------
(* Commands.  The handler takes one at a time.                              *)

HandlerIsFree == up /\ at["handler"] = "idle"
HandlerFlushes(next) == Awaits("handler", "flush") /\ then' = next

(* onActivate of a new process: open, and commit the recovered state.       *)
Initialize ==
  /\ ~up /\ at["handler"] = "idle"
  /\ memory' = disk /\ fenced' = FALSE
  /\ NewRun("handler")
  /\ then' = "start"
  /\ Commits("handler", "initialize", operations)
  /\ UNCHANGED <<disk, up, on, todo, runVars, streamVars, written, cancels, failures>>

(* onRecover.                                                               *)
Recover ==
  /\ HandlerIsFree
  /\ HandlerFlushes("start")
  /\ UNCHANGED <<storeVars, operations, on, to, todo, runVars, streamVars, written, counters>>

(* A new input: admitInput.  It steers the active run, or waits for its own.*)
Input(i) ==
  /\ HandlerIsFree
  /\ memory.status[i] = "none" /\ (\A j \in 1..i - 1 : memory.status[j] # "none")
  /\ IF active THEN (HasStream => accepting) /\ ~aborted ELSE ~slot
  /\ IF active
     THEN to' = [to EXCEPT !["handler"] = run] /\ then' = "deliver"
     ELSE NewRun("handler") /\ then' = "start"
  /\ on' = [on EXCEPT !["handler"] = i]
  /\ Commits("handler", "admit", operations)
  /\ UNCHANGED <<storeVars, todo, runVars, streamVars, written, cancels, failures>>

(* An input that is known and still accepted: retryInput.                   *)
RetryInput(i) ==
  /\ HandlerIsFree
  /\ i \in Accepted(memory)
  /\ on' = [on EXCEPT !["handler"] = i] /\ to' = [to EXCEPT !["handler"] = memory.runOf[i]]
  /\ HandlerFlushes("retry")
  /\ UNCHANGED <<storeVars, operations, todo, runVars, streamVars, written, counters>>

(* cancel, of input i or of whatever runs (0).                              *)
Cancel(i) ==
  /\ HandlerIsFree /\ cancels < MaxCancels
  /\ i # 0 => memory.status[i] # "none"
  /\ LET open == i \in Pending(memory) \cup Accepted(memory)
         requested == active /\ (i = 0 \/ (memory.runOf[i] = run /\ open))
         dormant == ~requested /\ i \in Accepted(memory)
     IN  /\ to' = [to EXCEPT !["handler"] = IF requested THEN run ELSE 0]
         /\ on' = [on EXCEPT !["handler"] = IF dormant THEN i ELSE 0]
  /\ then' = "none" /\ cancels' = cancels + 1
  /\ Commits("handler", "cancel", operations)
  /\ UNCHANGED <<storeVars, todo, runVars, streamVars, written, failures>>

(* A cancel that was recorded, retried: control.                            *)
RetryCancel ==
  /\ HandlerIsFree
  /\ active /\ run \in memory.controls
  /\ Interrupt
  /\ HandlerFlushes("none")
  /\ UNCHANGED <<storeVars, operations, on, to, todo, run, active, slot, killed, sent, consumed, written, counters>>

Reset ==
  /\ HandlerIsFree /\ cancels < MaxCancels
  /\ ~active /\ ~slot
  /\ then' = "none" /\ cancels' = cancels + 1
  /\ Commits("handler", "reset", operations)
  /\ UNCHANGED <<storeVars, on, to, todo, runVars, streamVars, written, failures>>

(* start: the run of the first accepted input becomes active.  If the       *)
(* command's signal has aborted, activity.start throws, else work begins.   *)
Start ==
  IF active \/ slot \/ Accepted(memory) = {}
  THEN Awaits("handler", "idle") /\ UNCHANGED <<operations, on, runVars, streamVars>>
  ELSE \E first \in Accepted(memory) :
       /\ \A i \in Accepted(memory) : first <= i
       /\ run' = memory.runOf[first] /\ active' = TRUE
       /\ aborted' = FALSE /\ killed' = FALSE
       /\ stream' = "none" /\ sent' = {} /\ consumed' = {}
       /\ \/ /\ slot' = TRUE
             /\ at' = [at EXCEPT !["handler"] = "idle", !["work"] = "begin", !["reader"] = "idle"]
             /\ on' = [on EXCEPT !["work"] = first]
             /\ operations' = Append(operations, "work")
          \/ Awaits("handler", "idle") /\ UNCHANGED <<slot, on, operations>>

(* deliver, up to its first commit.  It waits for run.ready.                *)
HandlerDelivers ==
  IF stream = "none" THEN Continues("handler", "ready", operations)
  ELSE IF HasStream /\ on["handler"] \in Accepted(memory) THEN Commits("handler", "deliver", operations)
  ELSE Continues("handler", "idle", operations)

(* The handler's flush ends, and it goes on.                                *)
HandlerContinues ==
  LET ofRun == active /\ run = to["handler"]
  IN  /\ at["handler"] = "flush"
      /\ \/ /\ then = "start" \/ (then = "retry" /\ ~active)
            /\ Start
         \/ /\ then = "deliver" \/ (then = "retry" /\ ofRun)
            /\ HandlerDelivers
            /\ UNCHANGED <<on, runVars, streamVars>>
         \/ /\ then = "none" \/ (then = "retry" /\ active /\ ~ofRun)
            /\ Awaits("handler", "idle")
            /\ UNCHANGED <<operations, on, runVars, streamVars>>
      /\ UNCHANGED <<storeVars, to, then, todo, written, counters>>

(* A flush of the handler, of the reader or of a delivery fails.            *)
FlushFails(a) ==
  /\ at[a] = "flush"
  /\ Awaits(a, CASE a = "handler" -> "idle" [] a = "work" -> "done" [] OTHER -> "closed")
  /\ stream' = IF a = "work" THEN Cancelled(stream) ELSE stream
  /\ UNCHANGED <<storeVars, operations, on, to, then, todo, runVars, sent, consumed, written, counters>>

-----------------------------------------------------------------------------
(* stream.send, for the handler or for work.                                *)

(* The write was handed over.  After the first input of the run come those  *)
(* that were retained for it.                                               *)
WriteEnds(a) ==
  /\ at[a] \in {"write", "firstWrite"}
  /\ IF at[a] = "firstWrite" THEN NextDelivery(OfRun(memory, run) \cap Accepted(memory), operations)
     ELSE Continues(a, "flush", operations) /\ UNCHANGED <<on, todo>>
  /\ then' = IF a = "handler" THEN "none" ELSE then
  /\ UNCHANGED <<storeVars, to, runVars, streamVars, written, counters>>

(* It failed, perhaps after it reached Claude, or the stream did not start. *)
SendFails(a) ==
  /\ \/ at[a] \in {"write", "firstWrite"}
     \/ at[a] \in {"send", "first"} /\ stream = "unstarted"
  /\ SendThrows(a, operations)
  /\ UNCHANGED <<storeVars, on, then, todo, run, active, slot, killed, sent, consumed, written, cancels, failures>>

-----------------------------------------------------------------------------
(* The stream and its reader.                                               *)

(* The stream is ready: the inputs that wait for it are written.            *)
StreamOpens ==
  /\ stream = "starting" /\ ~killed
  /\ stream' = "open"
  /\ Written({a \in Actors : at[a] \in {"first", "send"}})
  /\ at' = [a \in Actors |-> CASE at[a] = "first" -> "firstWrite" [] at[a] = "send" -> "write" [] OTHER -> at[a]]
  /\ UNCHANGED <<storeVars, operations, on, to, then, todo, runVars, sent, consumed, counters>>

Observes(what) == Reading /\ at["reader"] = "idle" /\ Commits("reader", what, operations)

(* Claude echoes an input it was given.                                     *)
Echo(i) ==
  /\ i \in sent \ consumed /\ written[i] > 0
  /\ consumed' = consumed \cup {i}
  /\ on' = [on EXCEPT !["reader"] = i]
  /\ Observes("echo")
  /\ UNCHANGED <<storeVars, to, then, todo, runVars, stream, sent, written, counters>>

(* A turn ends: the stream closes when it failed, or nothing is left.  Only *)
(* a failure may come before Claude has echoed any input.                   *)
Result(what) ==
  /\ consumed # {} \/ (what = "error" /\ stream = "open")
  /\ sent' = sent \ consumed /\ consumed' = {}
  /\ stream' = IF stream = "open" /\ (sent' = {} \/ what = "error") THEN "ending" ELSE stream
  /\ Observes(what)
  /\ UNCHANGED <<storeVars, on, to, then, todo, runVars, written, counters>>

ReaderContinues ==
  /\ at["reader"] = "flush"
  /\ Awaits("reader", "idle")
  /\ UNCHANGED <<storeVars, operations, on, to, then, todo, runVars, streamVars, written, counters>>

(* The native process and its stream are over, well or not.                 *)
StreamEnds ==
  /\ at["reader"] \in {"idle", "closed"}
  /\ \/ stream \in {"starting", "halting"} /\ stream' = "unstarted"
     \/ Reading /\ stream' = "settled"
  /\ UNCHANGED <<storeVars, operations, actorVars, runVars, sent, consumed, written, counters>>

-----------------------------------------------------------------------------
(* The work of the run, between its commits.                                *)

(* A delivery has been flushed.                                             *)
WorkContinues ==
  /\ at["work"] = "flush"
  /\ NextDelivery(todo, operations)
  /\ UNCHANGED <<storeVars, to, then, runVars, streamVars, written, counters>>

(* stream.done has settled: the outcome of the run is committed.            *)
StreamIsDone ==
  /\ at["work"] = "done" /\ Settled
  /\ Commits("work", "final", operations)
  /\ UNCHANGED <<storeVars, on, to, then, todo, runVars, streamVars, written, counters>>

(* The last flush ends, well or not.                                        *)
RunEnds ==
  /\ at["work"] = "lastFlush"
  /\ Awaits("work", "idle") /\ active' = FALSE
  /\ UNCHANGED <<storeVars, operations, on, to, then, todo, run, slot, aborted, killed, streamVars, written, counters>>

(* Its hook has ended, or had its grace.                                    *)
SlotIsReleased ==
  /\ slot /\ at["work"] = "idle"
  /\ slot' = FALSE
  /\ UNCHANGED <<storeVars, operations, actorVars, run, active, aborted, killed, streamVars, written, counters>>

(* The activity is cancelled, or timed out: its signal aborts, and the      *)
(* onCancel hook records the request before it stops the run.               *)
ActivityAborts ==
  /\ slot /\ at["work"] # "idle" /\ ~killed /\ at["hook"] = "idle" /\ cancels < MaxCancels
  /\ cancels' = cancels + 1 /\ killed' = TRUE
  /\ to' = [to EXCEPT !["hook"] = run]
  /\ Commits("hook", "hook", operations)
  /\ UNCHANGED <<storeVars, on, then, todo, run, active, slot, aborted, streamVars, written, failures>>

-----------------------------------------------------------------------------
(* Commits.  What an actor does when its own resolved, and when it failed.  *)

StopsRun(a) == IF to[a] = run THEN Interrupt ELSE Uninterrupted
SameStream == Uninterrupted /\ UNCHANGED sent

(* run.ready settles, and a handler that waits for it goes on.              *)
RunIsReady(next, queue) ==
  LET waits == at["handler"] = "ready"
      delivers == waits /\ stream' # "refused" /\ on["handler"] \in Accepted(memory) \ {on["work"]}
  IN  /\ at' = [at EXCEPT !["work"] = next,
                          !["handler"] = IF delivers THEN "deliver" ELSE IF waits THEN "idle" ELSE @]
      /\ operations' = IF delivers THEN Append(queue, "handler") ELSE queue

Resolved(a, queue) ==
  \/ /\ at[a] \in {"initialize", "admit", "reset", "detach", "echo", "result", "error"}
     /\ Continues(a, "flush", queue)
     /\ then' = IF at[a] = "detach" /\ a = "handler" THEN "none" ELSE then
     /\ SameInput /\ SameStream /\ UNCHANGED <<active, written>>
  \/ /\ at[a] = "deliver"
     /\ IF on[a] \in Accepted(memory)
        THEN BeginSend(a, queue) /\ UNCHANGED <<on, todo>>
        ELSE Delivered(a, queue) /\ SameStream /\ UNCHANGED <<to, written>>
     /\ UNCHANGED <<then, active>>
  \/ /\ at[a] = "begin"
     /\ IF killed \/ aborted
        THEN stream' = "refused" /\ RunIsReady("final", Append(queue, a)) /\ UNCHANGED sent
        ELSE stream' = "starting" /\ RunIsReady("first", queue) /\ sent' = {on[a]}
     /\ SameInput /\ UNCHANGED <<then, aborted, active, written>>
  \/ /\ at[a] = "final"
     /\ Continues(a, IF killed THEN "idle" ELSE "lastFlush", queue)
     /\ active' = (active /\ ~killed)
     /\ SameInput /\ SameStream /\ UNCHANGED <<then, written>>
  \/ /\ at[a] \in {"cancel", "hook"}
     /\ Continues(a, IF a = "handler" THEN "flush" ELSE "idle", queue)
     /\ StopsRun(a)
     /\ SameInput /\ UNCHANGED <<sent, then, active, written>>

Rejected(a, queue) ==
  /\ \/ /\ at[a] \in {"initialize", "admit", "reset", "cancel", "deliver", "detach"}
        /\ Throws(a, queue)
        /\ stream' = IF a = "work" THEN Cancelled(stream) ELSE stream
        /\ UNCHANGED aborted
     \/ at[a] = "begin" /\ stream' = "refused" /\ RunIsReady("final", Append(queue, a)) /\ UNCHANGED aborted
     \/ at[a] = "final" /\ Continues(a, "idle", queue) /\ Uninterrupted
     \/ at[a] \in {"echo", "result", "error"} /\ Continues(a, "closed", queue) /\ Uninterrupted
     \/ at[a] = "hook" /\ Continues(a, "idle", queue) /\ StopsRun(a)
  /\ SameInput /\ UNCHANGED <<then, sent, active, written>>

Persist ==
  /\ operations # <<>> /\ ~fenced
  /\ memory' = Mutated(Head(operations)) /\ disk' = memory'
  /\ up' = (up \/ at[Head(operations)] = "initialize")
  /\ Resolved(Head(operations), Tail(operations))
  /\ UNCHANGED <<fenced, run, slot, killed, consumed, cancels, failures>>

(* The write fails, on disk or not, and every later commit with it.         *)
PersistFails ==
  /\ operations # <<>> /\ ~fenced /\ failures < MaxFailures
  /\ disk' \in {disk, Mutated(Head(operations))}
  /\ fenced' = TRUE /\ failures' = failures + 1
  /\ Rejected(Head(operations), Tail(operations))
  /\ UNCHANGED <<memory, up, run, slot, killed, consumed, cancels>>

RejectFenced ==
  /\ operations # <<>> /\ fenced
  /\ Rejected(Head(operations), Tail(operations))
  /\ UNCHANGED <<storeVars, run, slot, killed, consumed, cancels, failures>>

(* The process is lost, perhaps after the write it was in has landed.  A    *)
(* sandbox whose store is fenced is replaced at last.                       *)
Crash ==
  /\ up \/ operations # <<>>
  /\ \/ failures < MaxFailures /\ failures' = failures + 1
     \/ fenced /\ UNCHANGED failures
  /\ disk' \in {disk} \cup (IF operations = <<>> \/ fenced THEN {} ELSE {Mutated(Head(operations))})
  /\ memory' = disk'
  /\ up' = FALSE /\ fenced' = FALSE /\ operations' = <<>>
  /\ at' = [a \in Actors |-> "idle"]
  /\ on' = [a \in Actors |-> 0] /\ to' = [a \in Actors |-> 0]
  /\ then' = "none" /\ todo' = {}
  /\ run' = 0 /\ active' = FALSE /\ slot' = FALSE /\ aborted' = FALSE /\ killed' = FALSE
  /\ stream' = "none" /\ sent' = {} /\ consumed' = {}
  /\ UNCHANGED <<written, cancels>>

-----------------------------------------------------------------------------

Handler ==
  \/ Initialize \/ Recover \/ RetryCancel \/ Reset \/ HandlerContinues
  \/ \E i \in Inputs : Input(i) \/ RetryInput(i)
  \/ \E i \in Inputs \cup {0} : Cancel(i)

Delivery ==
  \E a \in {"handler", "work"} : WriteEnds(a) \/ SendFails(a)

Stream ==
  \/ StreamOpens \/ ReaderContinues \/ StreamEnds
  \/ \E i \in Inputs : Echo(i)
  \/ \E what \in {"result", "error"} : Result(what)

Work == WorkContinues \/ StreamIsDone \/ RunEnds \/ SlotIsReleased \/ ActivityAborts

Store == Persist \/ PersistFails \/ RejectFenced \/ Crash

Next ==
  \/ Handler \/ Delivery \/ Stream \/ Work \/ Store
  \/ \E a \in Actors \ {"hook"} : FlushFails(a)

Spec == Init /\ [][Next]_vars

(* Commits and flushes end, what was resolved goes on, and a stream that    *)
(* was cancelled, or lost its reader, ends: its process is killed at last.  *)
FairSpec ==
  /\ Spec
  /\ WF_vars(Persist \/ RejectFenced)
  /\ WF_vars(HandlerContinues) /\ WF_vars(ReaderContinues)
  /\ WF_vars(WorkContinues) /\ WF_vars(StreamIsDone) /\ WF_vars(RunEnds) /\ WF_vars(SlotIsReleased)
  /\ \A a \in {"handler", "work"} : WF_vars(WriteEnds(a) \/ SendFails(a))
  /\ WF_vars((stream \in {"halting", "stopping"} \/ killed \/ at["reader"] = "closed") /\ StreamEnds)

-----------------------------------------------------------------------------
(* Claude is given an input at most once, and never one the file still      *)
(* shows as accepted, which recovery delivers: neither a retry, nor two     *)
(* deliveries of one input, nor a crash repeats what may have run.          *)
WrittenOnce ==
  \A i \in Inputs : written[i] <= 1 /\ (written[i] = 1 => disk.status[i] \notin {"none", "accepted"})

(* An input that Claude was given is settled with its run: while it is      *)
(* open, its run is active and the work that settles it has not ended.      *)
WrittenInputsAreSettled ==
  up /\ ~fenced => \A i \in Pending(memory) :
    written[i] = 1 => active /\ memory.runOf[i] = run /\ at["work"] # "idle"

(* A run that was stopped releases the activity slot.                       *)
StoppedRunsRelease == (slot /\ (aborted \/ killed)) ~> ~slot

(* Claude is given each input at most once, and what it was given is        *)
(* settled with its run.                                                    *)
InputsAreWrittenTruly == WrittenOnce /\ WrittenInputsAreSettled

(* What the README shows a client to wait for: an input that has settled    *)
(* stays settled.  The code violates it: an interrupted input is accepted   *)
(* again when a delivery that had begun finds the stream closed.            *)
SettledInputsStaySettled ==
  [][\A i \in Inputs : disk.status[i] \in {"completed", "stopped"} => disk'.status[i] = disk.status[i]]_vars

=============================================================================
