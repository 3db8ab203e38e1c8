---------------------------- MODULE WorkspaceSync ---------------------------
(***************************************************************************)
(* startSync: the handle that keeps a local directory and a Workspace      *)
(* directory in agreement.  Cycles run one at a time on a tail of promises *)
(* (the poll loop's and the callers' flushes); a cycle is up to MaxPasses  *)
(* passes; a pass lists both sides, decides path by path from the listings *)
(* and the base, sends one conditional request at a time and saves the     *)
(* base.  Decisions are made from listings that may be stale: only the     *)
(* preconditions of the requests are checked against the present.          *)
(*                                                                         *)
(* Faults: a request fails or loses its reply (and may still execute), a   *)
(* path fails, the helper dies, the process dies.                          *)
(***************************************************************************)
EXTENDS WorkspaceFiles, Sequences

CONSTANTS MaxPasses, MaxQueue, MaxFaults

ASSUME SyncAssumption == {MaxPasses, MaxQueue} \subseteq Nat \ {0} /\ MaxFaults \in Nat

VARIABLES
    base,       \* last agreed version of each path, in memory
    saved,      \* the base in the state file
    listing,    \* what the pass was told of each side
    todo,       \* paths the pass has still to visit
    result,     \* what the pass found: conflicts, a failure, a changed file
    attempt,    \* passes begun in this cycle
    at,         \* where the cycle is; "down": no process, "idle": between cycles
    helper,     \* the helper process; it holds the directory lock while it lives
    queue,      \* cycles chained on the tail; the head is the running one
    poll,       \* the poll loop
    stopping,   \* stop() or the signal set `stopped` and aborted the transfers
    status,     \* what status() reports
    writes,     \* hosted mutations are enabled
    faults

passVars == <<listing, todo, result, attempt>>
syncVars == <<base, saved, passVars, at, helper, queue,
              poll, stopping, status, writes, faults>>
vars == <<filesVars, syncVars>>

Nothing == [p \in Path |-> Missing]
Clean == [conflicts |-> {}, failure |-> FALSE, changed |-> FALSE]

TypeOK ==
    /\ FilesTypeOK
    /\ {base, saved} \subseteq [Path -> Content]
    /\ listing \in [Side -> [Path -> Content]]
    /\ todo \subseteq Path
    /\ result \in [conflicts : SUBSET Path, failure : BOOLEAN, changed : BOOLEAN]
    /\ attempt \in 0..MaxPasses
    /\ at \in {"down", "idle", "scanRemote", "scanLocal", "visit", "await"}
    /\ helper \in {"none", "up", "dead", "lingering"}
    /\ queue \in Seq({"poll", "caller"}) /\ Len(queue) <= MaxQueue + 1
    /\ poll \in {"due", "flushing", "ended"}
    /\ {stopping, writes} \subseteq BOOLEAN
    /\ status \in [state : {"syncing", "synced", "conflict", "failed", "stopped", "crashed"},
                   conflicts : SUBSET Path]
    /\ faults \in 0..MaxFaults

Init ==
    /\ FilesInit
    /\ base = Nothing /\ saved = Nothing
    /\ listing = [s \in Side |-> Nothing]
    /\ todo = {} /\ result = Clean /\ attempt = 0
    /\ at = "down" /\ helper = "none"
    /\ queue = <<>> /\ poll = "ended" /\ stopping = FALSE
    /\ status = [state |-> "stopped", conflicts |-> {}]
    /\ writes \in BOOLEAN
    /\ faults \in 0..MaxFaults        \* those left are the bound

(* The variables of a pass are its own: nothing of them survives it. *)
ForgetPass ==
    /\ listing' = [s \in Side |-> Nothing]
    /\ todo' = {} /\ result' = Clean /\ attempt' = 0

-----------------------------------------------------------------------------
(* Lifetime of the handle. *)

(* localAgent: a helper process answers its handshake. *)
SpawnHelper == helper' = "up"

(* startSync: the helper takes the lock of the directory - or the start fails   *)
(* (sync_locked) while an earlier helper lives - and the state file is read.    *)
Start ==
    /\ at = "down" /\ helper = "none"
    /\ SpawnHelper
    /\ base' = saved
    /\ at' = "idle" /\ queue' = <<>> /\ poll' = "due" /\ stopping' = FALSE
    /\ status' = [state |-> "syncing", conflicts |-> {}]
    /\ UNCHANGED <<filesVars, saved, passVars, writes, faults>>

(* Requests that die with a helper are those served by it. *)
WithoutLocal(rs) == {r \in rs : r.side # "local"}

(* Every request the process waited for is one nobody waits for any more; one *)
(* abandoned request at a time is followed, further ones are cancelled.       *)
Abandon(rs) ==
    IF \E r \in rs : r.owner = "abandoned"
    THEN {r \in rs : r.owner = "abandoned"}
    ELSE {[r EXCEPT !.owner = "abandoned"] : r \in {q \in rs : q.stage \in {"sent", "checked"}}}

(* The process dies at any point: the helper sees the end of its input. *)
Crash ==
    /\ at # "down" /\ faults < MaxFaults
    /\ faults' = faults + 1
    /\ at' = "down"
    /\ helper' = IF helper = "up" THEN "lingering" ELSE "none"
    /\ requests' = Abandon(requests)
    /\ queue' = <<>> /\ poll' = "ended" /\ stopping' = FALSE
    /\ status' = [state |-> "crashed", conflicts |-> {}]
    /\ base' = Nothing /\ ForgetPass
    /\ UNCHANGED <<file, held, since, edits, saved, writes>>

(* It ends the requests it still serves and releases the lock. *)
HelperExits ==
    /\ helper = "lingering"
    /\ helper' = "none"
    /\ requests' = WithoutLocal(requests)
    /\ UNCHANGED <<file, held, since, edits, base, saved, passVars, at,
                   queue, poll, stopping, status, writes, faults>>

(* The helper dies alone; the handle learns it from the exit event. *)
HelperDies ==
    /\ helper = "up" /\ faults < MaxFaults
    /\ faults' = faults + 1
    /\ helper' = "dead"
    /\ requests' = WithoutLocal(requests)
    /\ UNCHANGED <<file, held, since, edits, base, saved, passVars, at,
                   queue, poll, stopping, status, writes>>

Stop ==
    /\ at # "down" /\ ~stopping
    /\ stopping' = TRUE
    /\ UNCHANGED <<filesVars, base, saved, passVars, at, helper, queue,
                   poll, status, writes, faults>>

(* stop() has awaited the tail; it ends the helper and then reports "stopped". *)
FinishStop ==
    /\ stopping /\ at = "idle" /\ queue = <<>>
    /\ at' = "down" /\ helper' = "none" /\ poll' = "ended" /\ stopping' = FALSE
    /\ requests' = WithoutLocal(requests)
    /\ status' = [state |-> "stopped", conflicts |-> {}]
    /\ base' = Nothing
    /\ UNCHANGED <<file, held, since, edits, saved, passVars, queue, writes, faults>>

-----------------------------------------------------------------------------
(* Cycles on the tail. *)

(* flush(): a caller's, at any time, or the poll loop's when its delay is over.  A *)
(* flush chained after stop() only rejects: stop() awaits the tail it found.       *)
Flush ==
    /\ at # "down" /\ ~stopping /\ Len(queue) < MaxQueue
    /\ queue' = Append(queue, "caller")
    /\ UNCHANGED <<filesVars, base, saved, passVars, at, helper, poll,
                   stopping, status, writes, faults>>

PollFlush ==
    /\ at # "down" /\ poll = "due" /\ ~stopping
    /\ queue' = Append(queue, "poll") /\ poll' = "flushing"
    /\ UNCHANGED <<filesVars, base, saved, passVars, at, helper,
                   stopping, status, writes, faults>>

(* Seeded fault: the poll loop ends with its first cycle. *)
LeaveAndEndPoll ==
    /\ at' = "idle" /\ queue' = Tail(queue) /\ ForgetPass
    /\ poll' = IF Head(queue) = "poll" THEN "ended" ELSE poll
(* The head of the tail settles; the poll loop sleeps again, or breaks. *)
Leave ==
    /\ at' = "idle"
    /\ queue' = Tail(queue)
    /\ poll' = IF Head(queue) = "poll" THEN (IF stopping THEN "ended" ELSE "due") ELSE poll
    /\ ForgetPass

BeginCycle ==
    /\ at = "idle" /\ queue # <<>> /\ ~stopping
    /\ SpawnHelper          \* a helper that exited is started again
    /\ at' = "scanRemote" /\ attempt' = 1
    /\ status' = [status EXCEPT !.state = "syncing"]
    /\ since' = [s \in Side |-> [p \in Path |-> {file[s][p]}]]
    /\ UNCHANGED <<file, held, requests, edits, base, saved, listing, todo, result, queue, poll,
                   stopping, writes, faults>>

(* A cycle whose turn comes after stop() rejects and changes nothing. *)
RefuseCycle ==
    /\ at = "idle" /\ queue # <<>> /\ stopping
    /\ Leave
    /\ UNCHANGED <<filesVars, base, saved, helper, stopping, status, writes, faults>>

(* The pass throws: the base keeps what was agreed but is not saved. *)
FailCycle ==
    /\ Leave
    /\ requests' = Abandon(requests)
    /\ status' = IF stopping THEN status ELSE [state |-> "failed", conflicts |-> {}]
    /\ UNCHANGED <<file, held, since, edits, base, helper, stopping, writes>>

-----------------------------------------------------------------------------
(* A pass. *)

ScanRemote ==
    /\ at = "scanRemote" /\ ~stopping /\ Unlocked("remote")
    /\ listing' = [listing EXCEPT !["remote"] = file["remote"]]
    /\ at' = "scanLocal"
    /\ UNCHANGED <<filesVars, base, saved, todo, result, attempt, helper, queue, poll, stopping,
                   status, writes, faults>>

ScanLocal ==
    /\ at = "scanLocal" /\ ~stopping /\ helper = "up" /\ Unlocked("local")
    /\ listing' = [listing EXCEPT !["local"] = file["local"]]
    /\ todo' = {p \in Path : {base[p], listing["remote"][p], file["local"][p]} # {Missing}}
    /\ result' = Clean
    /\ at' = "visit"
    /\ UNCHANGED <<filesVars, base, saved, attempt, helper, queue, poll, stopping, status, writes,
                   faults>>

(* Seeded fault: a change on both sides is decided for the Workspace. *)
DecisionForRemote(p) ==
    LET l == listing["local"][p]  r == listing["remote"][p] IN
    CASE l = r -> "agree"
      [] l # r /\ r = base[p] -> "local"
      [] OTHER -> "remote"
(* Three-way decision for path p: which side changed since the base. *)
Decision(p) ==
    LET l == listing["local"][p]  r == listing["remote"][p] IN
    CASE l = r -> "agree"
      [] l # r /\ l # base[p] /\ r # base[p] -> "conflict"
      [] l # base[p] /\ r = base[p] -> "local"
      [] OTHER -> "remote"

(* The first path not yet visited; the content of the side that changed goes to the *)
(* other side, on condition that it still holds what its listing said.              *)
IsNext(p) == p \in todo /\ \A q \in todo : p <= q
Target(p) == Other(Decision(p))
New(p) == listing[Decision(p)][p]
Transfer(p) ==
    [owner |-> "waiting", side |-> Target(p), path |-> p,
     base |-> listing[Target(p)][p], data |-> New(p), stage |-> "sent"]

(* Only the removal of a file of the Workspace does without the helper. *)
NeedsHelper(p) == Decision(p) \in Side /\ ~(Decision(p) = "local" /\ New(p) = Missing)

Settle(p) == todo' = todo \ {p} /\ UNCHANGED <<filesVars, at>>
Note(field) == result' = [result EXCEPT ![field] = TRUE]

Visit(p) ==
    /\ at = "visit" /\ ~stopping /\ IsNext(p)
    /\ \/ /\ Decision(p) = "agree"
          /\ base' = [base EXCEPT ![p] = listing["local"][p]]
          /\ Settle(p) /\ UNCHANGED result
       \/ /\ Decision(p) = "conflict"
          /\ result' = [result EXCEPT !.conflicts = @ \union {p}]
          /\ Settle(p) /\ UNCHANGED base
       \/ /\ Decision(p) = "local" /\ ~writes          \* sync_writes_not_enabled
          /\ Note("failure") /\ Settle(p) /\ UNCHANGED base
       \/ /\ Decision(p) \in Side /\ (Decision(p) = "local" => writes)
          /\ NeedsHelper(p) => helper = "up"
          /\ New(p) # Missing => Unlocked(Decision(p))
          /\ IF New(p) # Missing /\ file[Decision(p)][p] # New(p)
             THEN Note("changed") /\ Settle(p)         \* the conditional read is refused
             ELSE /\ requests' = requests \union {Transfer(p)} /\ at' = "await"
                  /\ UNCHANGED <<file, held, since, edits, result, todo>>
          /\ UNCHANGED base
    /\ UNCHANGED <<saved, listing, attempt, helper, queue, poll, stopping, status, writes, faults>>

Waiting == {r \in requests : r.owner = "waiting"}

(* Seeded fault: the base follows every transfer that was answered. *)
AnswerAgrees ==
    /\ at = "await" /\ at' = "visit"
    /\ \E r \in Waiting :
          /\ r.stage \in {"done", "refused"}
          /\ base' = [base EXCEPT ![r.path] = r.data]
          /\ result' = [result EXCEPT !.changed = @ \/ r.stage = "refused"]
          /\ requests' = requests \ {r} /\ todo' = todo \ {r.path}
    /\ UNCHANGED <<file, held, since, edits, saved, listing, attempt, helper, queue, poll,
                   stopping, status, writes, faults>>
(* Seeded fault: a refused transfer is dropped without a second listing. *)
AnswerQuietly ==
    /\ at = "await" /\ at' = "visit"
    /\ \E r \in Waiting :
          /\ r.stage \in {"done", "refused"}
          /\ base' = IF r.stage = "done" THEN [base EXCEPT ![r.path] = r.data] ELSE base
          /\ requests' = requests \ {r} /\ todo' = todo \ {r.path}
    /\ UNCHANGED <<file, held, since, edits, saved, listing, result, attempt, helper, queue, poll,
                   stopping, status, writes, faults>>
(* The reply: the base follows a transfer that was done; a refused one means that a *)
(* side changed since it was listed, so the cycle will list again.                  *)
Answer ==
    /\ at = "await"
    /\ \E r \in Waiting :
          /\ r.stage \in {"done", "refused"}
          /\ IF r.stage = "done" THEN base' = [base EXCEPT ![r.path] = r.data] /\ UNCHANGED result
                                 ELSE Note("changed") /\ UNCHANGED base
          /\ requests' = requests \ {r}
          /\ todo' = todo \ {r.path}
    /\ at' = "visit"
    /\ UNCHANGED <<file, held, since, edits, saved, listing, attempt, helper, queue, poll,
                   stopping, status, writes, faults>>

(* A file that is too large, fails its checksum, cannot be written, or whose write is not  *)
(* answered as it should be: the other paths go on.  All of it is transient: a file that   *)
(* stays too large fails in every cycle.                                                   *)
PathFails ==
    /\ at = "await" /\ faults < MaxFaults
    /\ \E r \in Waiting :
          /\ \/ r.stage = "sent"
             \/ r.stage = "done" /\ r.side = "remote" /\ r.data # Missing
          /\ requests' = requests \ {r} /\ todo' = todo \ {r.path}
    /\ faults' = faults + 1
    /\ Note("failure")
    /\ at' = "visit"
    /\ UNCHANGED <<file, held, since, edits, base, saved, listing, attempt, helper, queue, poll,
                   stopping, status, writes>>

(* The end of a pass: the base is saved by the helper if it has changed, then the cycle *)
(* lists again or reports.                                                              *)
Again == result.changed /\ attempt < MaxPasses
Verdict ==
    CASE result.conflicts # {} -> "conflict"
      [] result.conflicts = {} /\ (result.failure \/ result.changed) -> "failed"
      [] OTHER -> "synced"

Conclude ==
    /\ at = "visit" /\ todo = {} /\ ~stopping /\ (helper = "up" \/ base = saved)
    /\ saved' = base
    /\ IF Again
       THEN /\ at' = "scanRemote" /\ attempt' = attempt + 1
            /\ UNCHANGED <<listing, todo, result, queue, poll, status>>
       ELSE /\ Leave
            /\ status' = [state |-> Verdict, conflicts |-> result.conflicts]
    /\ UNCHANGED <<filesVars, base, helper, stopping, writes, faults>>

-----------------------------------------------------------------------------
(* How a pass throws. *)

Running == at \notin {"down", "idle"}

(* The network or a server fails a request, or its answer is lost; the state file *)
(* may have been replaced although the answer was lost.                           *)
RequestFails ==
    /\ Running /\ faults < MaxFaults
    /\ faults' = faults + 1
    /\ saved' \in IF at = "visit" /\ todo = {} THEN {saved, base} ELSE {saved}
    /\ FailCycle

(* The helper is gone when the pass needs it. *)
HelperGone ==
    /\ helper = "dead"
    /\ \/ at = "scanLocal"
       \/ at = "visit" /\ todo = {}
       \/ at = "visit" /\ \E p \in todo : IsNext(p) /\ NeedsHelper(p)
       \/ at = "await" /\ Waiting = {}
    /\ FailCycle /\ UNCHANGED <<saved, faults>>

(* The transfers of a handle that was stopped are aborted. *)
Aborted ==
    /\ Running /\ stopping
    /\ FailCycle /\ UNCHANGED <<saved, faults>>

-----------------------------------------------------------------------------
Pass == ScanRemote \/ ScanLocal \/ (\E p \in Path : Visit(p)) \/ Answer \/ Conclude
Cycle == PollFlush \/ BeginCycle \/ RefuseCycle \/ Pass \/ HelperGone \/ Aborted \/ FinishStop

Next ==
    \/ Cycle \/ Start \/ Stop \/ Flush
    \/ HelperExits
    \/ Crash \/ HelperDies \/ PathFails \/ RequestFails
    \/ FilesNext /\ UNCHANGED syncVars

(* The event loop goes on, and the servers answer. *)
Fairness == WF_vars(Cycle) /\ WF_vars(Serve /\ UNCHANGED syncVars)
Spec == Init /\ [][Next]_vars /\ Fairness

-----------------------------------------------------------------------------
(* The base is what both sides once held: neither a listing nor an unconfirmed  *)
(* transfer ever enters it, in memory or in the state file, so a deletion seen  *)
(* against the base is a deletion of a file the other side really had.          *)
BaseWasAgreed ==
    \A p \in Path : \A b \in {base[p], saved[p]} :
        b # Missing => \A s \in Side : b \in held[s][p]

(* "synced" is true of the cycle that says it: each side held the agreed version  *)
(* at some moment of that cycle, whatever writers and lost replies did meanwhile; *)
(* and the state keeps its types.                                                 *)
SyncedIsTrue ==
    /\ TypeOK
    /\ status.state = "synced" => \A p \in Path, s \in Side : base[p] \in since[s][p]

(* Synchronization never destroys the only copy of a content: what it overwrites or *)
(* removes has been held by the other side - unless another writer changed the file *)
(* between the last check and the rename, and never when the file is to be created. *)
EditedInWindow(s, p) ==
    \E r \in requests :
        /\ r.side = s /\ r.path = p /\ r.stage = "checked"
        /\ r.base \notin {Missing, file[s][p]}
NoContentLost ==
    [][\A s \in Side, p \in Path :
          \/ file'[s][p] = file[s][p] \/ edits' # edits \/ file[s][p] = Missing
          \/ file[s][p] \in held[Other(s)][p] \/ EditedInWindow(s, p)]_vars

(* When writers and faults stop (both are bounded) and the process lives on, every *)
(* path ends up equal on both sides or reported in conflict; when hosted writes    *)
(* are disabled, at least every remote change has arrived.                         *)
InAgreement(p) ==
    \/ file["local"][p] = file["remote"][p]
    \/ p \in status.conflicts
    \/ ~writes /\ file["remote"][p] = base[p]
Converges == <>[](at # "down") => <>[](\A p \in Path : InAgreement(p))

(* stop() always finishes: no cycle, request or helper can hold it up. *)
StopFinishes == stopping ~> ~stopping

(* The two sides converge, and stop() finishes.                                 *)
SyncFinishes == Converges /\ StopFinishes
=============================================================================
