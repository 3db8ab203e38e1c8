--------------------------- MODULE RuntimeMessages ---------------------------
(***************************************************************************)
(* RuntimeMessages (src/runtime-messages.ts): the reservations and         *)
(* receipts of one sandbox, the pending-bytes budget, and the completion   *)
(* generation long polls wait on.  The operators below are conjuncts of    *)
(* the actions of SessionIntake, which supplies the delivery promise each  *)
(* receipt follows.                                                        *)
(*                                                                         *)
(* The collector of completions is the platform, which is not part of the  *)
(* repository: it polls for a generation after the last one it was given   *)
(* and then reads every receipt, as the comment on completions() asks.     *)
(***************************************************************************)
EXTENDS Integers, FiniteSets

CONSTANTS Messages,         \* message identities
          Collectors,       \* clients of completions()
          Sizes,            \* encoded sizes of the envelopes admitted
          MaxMessages,      \* maxMessages
          MAX_PENDING_BYTES

ASSUME MessagesAssumption ==
  /\ IsFiniteSet(Messages)
  /\ Sizes \subseteq Nat
  /\ MaxMessages \in Nat
  /\ MAX_PENDING_BYTES \in Nat

VARIABLES
  status,       \* receipt.state, "none" before the reservation
  cause,        \* receipt.error_code; set exactly when the controller is aborted
  startedAt,    \* receipt.started_at is set
  settledAt,    \* receipt.settled_at is set: the receipt left `unsettled`
  bytes,        \* encoded size of the admitted envelope
  pendingBytes, \* `pendingBytes`
  completionGeneration,
  poll,         \* poll[c]: where collector c stands in its completions() loop
  after,        \* after[c]: the generation collector c polls after
  known         \* known[c]: the settled receipts collector c has read

receiptVars == <<status, cause, startedAt, settledAt, bytes, pendingBytes, completionGeneration>>
collectorVars == <<poll, after, known>>

Open == {"queued", "running", "cancelling"}
Outcomes == {"succeeded", "failed", "timed_out"}
Codes == {"message_timed_out", "message_cancelled"}

Reservations == {m \in Messages : status[m] # "none"}
Unsettled == {m \in Reservations : ~settledAt[m]}
SettledReceipts == {m \in Messages : settledAt[m]}
aborted(m) == cause[m] # "none"

-----------------------------------------------------------------------------

MessagesInit ==
  /\ status = [m \in Messages |-> "none"]
  /\ cause = [m \in Messages |-> "none"]
  /\ startedAt = [m \in Messages |-> FALSE]
  /\ settledAt = [m \in Messages |-> FALSE]
  /\ bytes = [m \in Messages |-> 0]
  /\ pendingBytes = 0
  /\ completionGeneration = 0

CollectorInit ==
  /\ poll = [c \in Collectors |-> "idle"]
  /\ after = [c \in Collectors |-> 0]
  /\ known = [c \in Collectors |-> {}]

(* admit of an identity without a reservation.  A retry of a reserved       *)
(* identity answers its receipt, or message_conflict, and changes nothing;  *)
(* so do a full mailbox and a deadline outside the execution timeout.       *)
(* `immediate` says that the delivery called started() while it was made.   *)
Reserve(m, size, immediate) ==
  /\ status[m] = "none"
  /\ Cardinality(Reservations) < MaxMessages
  /\ pendingBytes + size <= MAX_PENDING_BYTES
  /\ status' = [status EXCEPT ![m] = IF immediate THEN "running" ELSE "queued"]
  /\ startedAt' = [startedAt EXCEPT ![m] = immediate]
  /\ bytes' = [bytes EXCEPT ![m] = size]
  /\ pendingBytes' = pendingBytes + size
  /\ UNCHANGED <<cause, settledAt, completionGeneration>>

(* The started() callback of a queued delivery: it records the start, and   *)
(* leaves the state of a receipt whose controller is aborted.               *)
Started(m) ==
  /\ status' = [status EXCEPT ![m] = IF aborted(m) THEN @ ELSE "running"]
  /\ startedAt' = [startedAt EXCEPT ![m] = TRUE]
  /\ UNCHANGED <<cause, settledAt, bytes, pendingBytes, completionGeneration>>

(* Seeded fault: cancel does not look at the state of the receipt.          *)
RequestCancelAlways(m, code) ==
  /\ status[m] # "none"
  /\ status' = [status EXCEPT ![m] = "cancelling"]
  /\ cause' = [cause EXCEPT ![m] = code]
  /\ UNCHANGED <<startedAt, settledAt, bytes, pendingBytes, completionGeneration>>

(* cancel of an open receipt; a later cancel and a late deadline do nothing.*)
RequestCancel(m, code) ==
  /\ status[m] \in {"queued", "running"}
  /\ status' = [status EXCEPT ![m] = "cancelling"]
  /\ cause' = [cause EXCEPT ![m] = code]
  /\ UNCHANGED <<startedAt, settledAt, bytes, pendingBytes, completionGeneration>>

(* The reaction on the delivery promise: the receipt takes its outcome.     *)
Outcome(m, delivery) ==
  IF aborted(m)
  THEN IF cause[m] = "message_timed_out" THEN "timed_out" ELSE "failed"
  ELSE IF delivery = "resolved" THEN "succeeded" ELSE "failed"

RecordOutcome(m, delivery) ==
  /\ status[m] \in Open
  /\ status' = [status EXCEPT ![m] = Outcome(m, delivery)]
  /\ UNCHANGED <<cause, startedAt, settledAt, bytes, pendingBytes, completionGeneration>>

(* Seeded fault: a settlement wakes none of the parked calls.               *)
FinalizeWakesNobody(m) ==
  /\ status[m] \in Outcomes
  /\ ~settledAt[m]
  /\ settledAt' = [settledAt EXCEPT ![m] = TRUE]
  /\ pendingBytes' = pendingBytes - bytes[m]
  /\ completionGeneration' = completionGeneration + 1
  /\ UNCHANGED <<status, cause, startedAt, bytes, poll, after, known>>

(* The finally after it: the budget is returned, the completion generation  *)
(* moves, and every parked completions() call is woken.                     *)
Finalize(m) ==
  /\ status[m] \in Outcomes
  /\ ~settledAt[m]
  /\ settledAt' = [settledAt EXCEPT ![m] = TRUE]
  /\ pendingBytes' = pendingBytes - bytes[m]
  /\ completionGeneration' = completionGeneration + 1
  /\ poll' = [c \in Collectors |-> IF poll[c] = "parked" THEN "woken" ELSE poll[c]]
  /\ UNCHANGED <<status, cause, startedAt, bytes, after, known>>

(* completions(after): parks on the current generation, else answers at     *)
(* once.  The platform only polls after a generation it was given, so the   *)
(* 409 on a generation ahead of the runtime's is not taken.                 *)
PollCompletions(c) ==
  /\ poll[c] = "idle"
  /\ after[c] <= completionGeneration
  /\ poll' = [poll EXCEPT ![c] = IF after[c] = completionGeneration THEN "parked" ELSE "woken"]
  /\ UNCHANGED <<receiptVars, after, known>>

(* The continuation after the wait: it answers the generation it sees now.  *)
AnswerCompletions(c) ==
  /\ poll[c] = "woken"
  /\ poll' = [poll EXCEPT ![c] = "answered"]
  /\ after' = [after EXCEPT ![c] = completionGeneration]
  /\ UNCHANGED <<receiptVars, known>>

(* The long poll ends or its connection closes before a completion.         *)
AbandonPoll(c) ==
  /\ poll[c] = "parked"
  /\ poll' = [poll EXCEPT ![c] = "idle"]
  /\ UNCHANGED <<receiptVars, after, known>>

(* The platform reads the receipts it was hinted about.                     *)
ReadReceipts(c) ==
  /\ poll[c] = "answered"
  /\ poll' = [poll EXCEPT ![c] = "idle"]
  /\ known' = [known EXCEPT ![c] = SettledReceipts]
  /\ UNCHANGED <<receiptVars, after>>

-----------------------------------------------------------------------------
(* The types of the receipts and of the collectors' positions.              *)
ReceiptTypeOK ==
  /\ status \in [Messages -> {"none"} \cup Open \cup Outcomes]
  /\ cause \in [Messages -> {"none"} \cup Codes]
  /\ startedAt \in [Messages -> BOOLEAN]
  /\ settledAt \in [Messages -> BOOLEAN]
  /\ bytes \in [Messages -> Nat]
  /\ pendingBytes \in Int
  /\ completionGeneration \in Nat

CollectorTypeOK ==
  /\ poll \in [Collectors -> {"idle", "parked", "woken", "answered"}]
  /\ after \in [Collectors -> Nat]
  /\ known \in [Collectors -> SUBSET Messages]

(* The bytes that receipts hold, each named by its message and a number.    *)
Held(ms) == UNION {{m} \X (1..bytes[m]) : m \in ms}

(* The budget is exactly the bytes of the unsettled receipts, and within    *)
(* its limit: nothing leaks when a message is cancelled, expires or fails.  *)
PendingBytesExact ==
  /\ pendingBytes = Cardinality(Held(Unsettled))
  /\ pendingBytes \in 0..MAX_PENDING_BYTES

(* A collector parked in completions() has read every settled receipt: no   *)
(* settlement falls between the poll that answered it and the next one.     *)
NoMissedCompletion ==
  \A c \in Collectors : poll[c] = "parked" => SettledReceipts \subseteq known[c]

(* A settled receipt never changes: not by a late cancel, a deadline that   *)
(* fires during the settlement, or a late started().                        *)
SettledReceiptIsFinal ==
  [][\A m \in Messages : status[m] \in Outcomes =>
       /\ status'[m] = status[m] /\ cause'[m] = cause[m] /\ startedAt'[m] = startedAt[m]
       /\ settledAt[m] => settledAt'[m]]_receiptVars

=============================================================================
