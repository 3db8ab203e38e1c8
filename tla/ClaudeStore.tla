----------------------------- MODULE ClaudeStore ------------------------------
(***************************************************************************)
(* DurableClaudeStore (src/harnesses/claude-durable-state.ts) over         *)
(* writeDurableJson (durable-file.ts), with flush of claude-runtime.ts:    *)
(* transactions are serialized, each one writes a revision and its         *)
(* publication in one file, and flush delivers the outbox in batches.      *)
(* initialize opens the store and commits a first revision before any     *)
(* flush; when it fails, `initialization` is cleared and the next call, in   *)
(* practice that of a replacement process, opens another store.            *)
(* A write may fail before or after its rename, and the process may be     *)
(* lost at any time, also between the rename and the answer.               *)
(*                                                                         *)
(* The array `outbox` is a set here: its order is that of the revisions.   *)
(* A view stands for the content of a state.                               *)
(***************************************************************************)
EXTENDS Integers, Sequences, FiniteSets

CONSTANTS Views,                     \* contents a transaction may commit
          CLAUDE_MAX_PUBLICATIONS,   \* capacity of the outbox
          MaxRevision,               \* bound: no commit is requested beyond it
          MaxFailures                \* bound: failed writes and losses

ASSUME StoreAssumption ==
  /\ CLAUDE_MAX_PUBLICATIONS \in Nat \ {0}
  /\ MaxRevision \in Nat /\ MaxFailures \in Nat

VARIABLES
  disk, current,   \* the file and `current`: a revision and its outbox
  phase, fenced,   \* "closed", "initializing" or "ready"; `fenced` is set
  operations,      \* the serialized transactions that have not run
  pass,            \* where the flush stands
  batch,           \* what it has still to send, of the outbox it captured
  through,         \* the last revision of that outbox
  published,       \* what the platform received
  confirmed,       \* history: the last revision whose commit resolved
  log,             \* history: the views written to the file, by revision
  failures

fileVars == <<disk, log>>
storeVars == <<current, phase, fenced, operations>>
flushVars == <<pass, batch, through>>
vars == <<fileVars, storeVars, flushVars, published, confirmed, failures>>

Commit(view) == [kind |-> "commit", view |-> view]
Acknowledge(revision) == [kind |-> "acknowledge", revision |-> revision]

Larger(x, y) == IF x >= y THEN x ELSE y

(* What a transaction makes of the draft.                                   *)
Committed(state, view) ==
  [revision |-> state.revision + 1,
   outbox |-> state.outbox \cup {[revision |-> state.revision + 1, view |-> view]}]

(* Seeded fault: the outbox is emptied, whatever was committed meanwhile.   *)
AcknowledgedAll(state, revision) == [revision |-> state.revision, outbox |-> {}]

Acknowledged(state, revision) ==
  [revision |-> state.revision, outbox |-> {p \in state.outbox : p.revision > revision}]

Draft(operation) ==
  IF operation.kind = "commit" THEN Committed(current, operation.view)
  ELSE Acknowledged(current, operation.revision)

-----------------------------------------------------------------------------

Init ==
  /\ disk = [revision |-> 0, outbox |-> {}]
  /\ current = disk
  /\ phase = "closed" /\ fenced = FALSE
  /\ operations = <<>>
  /\ pass = "idle" /\ batch = {} /\ through = 0
  /\ published = {} /\ confirmed = 0 /\ log = <<>> /\ failures = 0

(* initialize: the store reads its file and commits a revision.             *)
Initialize(view) ==
  /\ phase = "closed"
  /\ phase' = "initializing" /\ fenced' = FALSE
  /\ current' = disk
  /\ operations' = <<Commit(view)>>
  /\ UNCHANGED <<fileVars, flushVars, published, confirmed, failures>>

(* commit: the transaction waits for its turn.                              *)
RequestCommit(view) ==
  /\ phase = "ready"
  /\ current.revision + Len(operations) < MaxRevision
  /\ operations' = Append(operations, Commit(view))
  /\ UNCHANGED <<fileVars, current, phase, fenced, flushVars, published, confirmed, failures>>

(* A state reaches the file: the view of a new revision is recorded, and    *)
(* so is one that replaces another.                                         *)
Land(state, operation) ==
  /\ disk' = state
  /\ log' = IF operation.kind = "acknowledge" THEN log
            ELSE IF state.revision > Len(log) THEN Append(log, operation.view)
            ELSE [log EXCEPT ![state.revision] = operation.view]

(* The flush after its acknowledgment: the loop goes on with what was       *)
(* committed meanwhile.                                                     *)
NextBatch(outbox) ==
  IF outbox = {} THEN pass' = "idle" /\ UNCHANGED <<batch, through>>
  ELSE /\ pass' = "sending"
       /\ batch' = outbox
       /\ \E last \in outbox : /\ \A p \in outbox : p.revision <= last.revision
                               /\ through' = last.revision

Full == Cardinality(current.outbox) >= CLAUDE_MAX_PUBLICATIONS

(* The first transaction has its turn, and its draft can be written.        *)
HasTurn == operations # <<>> /\ ~fenced /\ (Head(operations).kind = "commit" => ~Full)

(* The first transaction runs: its draft is written, then committed to      *)
(* memory, and its promise resolves.                                        *)
Persist ==
  /\ HasTurn
  /\ phase' = "ready"
  /\ LET operation == Head(operations)
         state == Draft(operation)
     IN  /\ Land(state, operation)
         /\ current' = state
         /\ operations' = Tail(operations)
         /\ confirmed' = IF operation.kind = "commit" THEN Larger(confirmed, state.revision) ELSE confirmed
         /\ IF operation.kind = "acknowledge" THEN NextBatch(state.outbox) ELSE UNCHANGED flushVars
  /\ UNCHANGED <<fenced, published, failures>>

(* Rejected: the operation fails and, if it was the flush's, so does the    *)
(* flush; if it was initialize's, `initialization` is cleared.              *)
RejectHead ==
  /\ operations' = Tail(operations)
  /\ phase' = IF phase = "initializing" THEN "closed" ELSE phase
  /\ pass' = IF Head(operations).kind = "acknowledge" THEN "idle" ELSE pass
  /\ UNCHANGED <<batch, through>>

(* Seeded fault: a failed write does not fence the store.                   *)
PersistFailsUnfenced ==
  /\ HasTurn
  /\ failures < MaxFailures
  /\ failures' = failures + 1
  /\ \/ Land(Draft(Head(operations)), Head(operations))
     \/ UNCHANGED fileVars
  /\ RejectHead
  /\ UNCHANGED <<current, fenced, published, confirmed>>

(* writeDurableJson fails, perhaps after its rename: the store is fenced.   *)
PersistFails ==
  /\ HasTurn
  /\ failures < MaxFailures
  /\ failures' = failures + 1
  /\ \/ Land(Draft(Head(operations)), Head(operations))
     \/ UNCHANGED fileVars
  /\ fenced' = TRUE
  /\ RejectHead
  /\ UNCHANGED <<current, published, confirmed>>

(* A failure before any write rejects only its own operation: the fence or  *)
(* a full outbox, and perhaps a mutation that throws.                       *)
RejectDue ==
  /\ operations # <<>> /\ ~HasTurn
  /\ RejectHead
  /\ UNCHANGED <<fileVars, current, fenced, published, confirmed, failures>>

(* Of initialize's only on a new state, which may be given an invalid       *)
(* conversation.                                                            *)
MutationThrows ==
  /\ HasTurn /\ Head(operations).kind = "commit"
  /\ phase = "ready" \/ current.revision = 0
  /\ RejectHead
  /\ UNCHANGED <<fileVars, current, fenced, published, confirmed, failures>>

(* flush begins, or joins the chain behind one that ends.                   *)
Flush ==
  /\ phase = "ready" /\ pass = "idle"
  /\ current.outbox # {}
  /\ NextBatch(current.outbox)
  /\ UNCHANGED <<fileVars, storeVars, published, confirmed, failures>>

Sent(p) ==
  /\ p \in batch
  /\ published' = published \cup {p}
  /\ batch' = batch \ {p}
  /\ IF batch' = {}
     THEN /\ pass' = "acknowledging"
          /\ operations' = Append(operations, Acknowledge(through))
     ELSE UNCHANGED <<pass, operations>>
  /\ UNCHANGED <<fileVars, current, phase, fenced, through, confirmed, failures>>

(* The batch is sent in the order of its revisions.                         *)
NextToSend == {p \in batch : \A q \in batch : p.revision <= q.revision}

(* The next publication of the batch is handed to the platform.             *)
SendNext == pass = "sending" /\ \E p \in NextToSend : Sent(p)

(* The handoff fails, with or without the platform receiving it: the        *)
(* outbox keeps the batch for the next flush.                               *)
SendFails ==
  /\ pass = "sending"
  /\ pass' = "idle"
  /\ \/ UNCHANGED published
     \/ published' = published \cup NextToSend
  /\ UNCHANGED <<fileVars, storeVars, batch, through, confirmed, failures>>

(* The process is lost.                                                     *)
Lost ==
  /\ phase' = "closed"
  /\ operations' = <<>>
  /\ pass' = "idle" /\ batch' = {} /\ through' = 0
  /\ UNCHANGED <<current, fenced, published, confirmed>>

(* At any time: the write in progress may have landed.                      *)
Crash ==
  /\ phase # "closed"
  /\ failures < MaxFailures
  /\ failures' = failures + 1
  /\ \/ HasTurn /\ Land(Draft(Head(operations)), Head(operations))
     \/ UNCHANGED fileVars
  /\ Lost

(* The platform replaces a sandbox whose store is fenced.                   *)
Replace == phase = "ready" /\ fenced /\ Lost /\ UNCHANGED <<fileVars, failures>>

Next ==
  \/ \E view \in Views : Initialize(view) \/ RequestCommit(view)
  \/ Persist \/ PersistFails \/ RejectDue \/ MutationThrows
  \/ Flush \/ SendNext \/ SendFails
  \/ Crash \/ Replace

Spec == Init /\ [][Next]_vars

LastRevision == MaxRevision + MaxFailures + 1

(* The event loop runs what is due, a closed store is initialized again,    *)
(* messages keep coming and flush, no publication fails every time it is    *)
(* tried, and a fenced sandbox is replaced.                                 *)
Fairness ==
  /\ WF_vars(\E view \in Views : Initialize(view))
  /\ WF_vars(Persist) /\ WF_vars(RejectDue)
  /\ SF_vars(Flush)
  /\ \A r \in 1..LastRevision : SF_vars(SendNext /\ r \in {p.revision : p \in NextToSend})
  /\ WF_vars(Replace)

FairSpec == Spec /\ Fairness

-----------------------------------------------------------------------------
(* A commit that resolved is in the file for good: whatever fails or is     *)
(* lost later, its revision is never taken back, and its publication is in  *)
(* the outbox or with the platform.                                         *)
ConfirmedIsDurable ==
  /\ confirmed <= disk.revision
  /\ \A r \in 1..confirmed : \E p \in disk.outbox \cup published : p.revision = r

(* The store and its flush implement the log: a revision has one content    *)
(* for ever, revisions arrive in order, and none leaves the outbox before   *)
(* it arrived.                                                              *)
Retired == {r \in 1..disk.revision : \A p \in disk.outbox : p.revision # r}
Log == INSTANCE PublicationLog WITH retired <- Retired
ImplementsLog == Log!LogSpec

(* Every revision in the file is published in the end: the comment on flush *)
(* says that a crash retains it for the retry.                              *)
EveryRevisionIsPublished ==
  \A r \in 1..LastRevision :
    (Len(log) >= r) ~> (\E p \in published : p.revision = r)

(* What does hold: so it is when no store is opened on a full outbox, which *)
(* leaves initialize no room for its own revision, and the flush that would *)
(* make room comes after it.                                                *)
OpensWithRoom == phase = "closed" => Cardinality(disk.outbox) < CLAUDE_MAX_PUBLICATIONS
RevisionsArePublished == []OpensWithRoom => EveryRevisionIsPublished

=============================================================================
