--------------------------- MODULE HarnessOperations ---------------------------
(***************************************************************************)
(* A Session of harness mode (src/src/session-runtime-adapter.ts 290-308,  *)
(* 323-443, 481-499): the intake only hands submissions over, in order,    *)
(* and the harness runs them as it likes.  The receipt of a dispatch is    *)
(* settled at the handoff, that of a request with its work; the adapter    *)
(* tracks each operation until the follow-ups of its work are admitted.    *)
(* The mailbox is a line and the message being received (Mailbox has it in  *)
(* detail).  Work may ignore nothing but time: it ends when it likes.      *)
(***************************************************************************)
EXTENDS Naturals, Sequences, SequencesExt, FiniteSets

CONSTANTS
    Message,         \* submissions and controls, those of follow-ups too
    Control,         \* cancel commands
    Reply,           \* requests: their receipts wait for their work
    Nothing,         \* no message is being received
    MaxOperations,   \* MAX_HARNESS_OPERATIONS
    MaxSent          \* bound: follow-ups of one operation

ASSUME HarnessAssumption ==
    /\ Control \subseteq Message /\ Reply \subseteq Message \ Control
    /\ Nothing \notin Message /\ MaxOperations \in Nat /\ MaxSent \in Nat

VARIABLES
    intake,      \* messages waiting in the mailbox
    receiving,   \* the message its receiver runs for, or Nothing
    step,        \* where that receiver is: "idle", "activate" or "cancel"
    harness,     \* the activation: "none", "creating", "ready" or "failed"
    receipt,     \* Message -> "new", "open" or "settled"
    admitted,    \* messages in the order of their admission (history)
    withdrawn,   \* messages whose own signal is aborted
    operation,   \* Message -> "none", "open", "flushing" or "gone"
    stopped,     \* operations whose controller is aborted
    work,        \* Message -> what the harness does: "none", "runs" or "ended"
    followups,   \* Message -> messages its work has sent and that wait
    disposed     \* the lifetime signal is aborted
harnessVars == <<intake, receiving, step, harness, receipt, admitted, withdrawn, operation, stopped,
                 work, followups, disposed>>

HarnessTypeOK ==
    /\ intake \in Seq(Message) /\ receiving \in Message \cup {Nothing}
    /\ step \in {"idle", "activate", "cancel"} /\ disposed \in BOOLEAN
    /\ harness \in {"none", "creating", "ready", "failed"}
    /\ receipt \in [Message -> {"new", "open", "settled"}]
    /\ admitted \in Seq(Message) /\ withdrawn \subseteq Message /\ stopped \subseteq Message
    /\ operation \in [Message -> {"none", "open", "flushing", "gone"}]
    /\ work \in [Message -> {"none", "runs", "ended"}]
    /\ followups \in [Message -> 0..MaxSent]

HarnessInit ==
    /\ intake = <<>> /\ receiving = Nothing /\ step = "idle" /\ harness = "none"
    /\ receipt = [m \in Message |-> "new"] /\ admitted = <<>> /\ withdrawn = {}
    /\ operation = [m \in Message |-> "none"] /\ stopped = {}
    /\ work = [m \in Message |-> "none"] /\ followups = [m \in Message |-> 0] /\ disposed = FALSE

receiver == <<intake, receiving, step>>
operations == <<operation, stopped, work, followups>>
Tracked(m) == operation[m] \in {"open", "flushing"}
quiescent == intake = <<>> /\ receiving = Nothing /\ \A m \in Message : ~Tracked(m)

(* receive() and sendMessage(): an entry of the mailbox, whatever its kind.  *)
Admit(m) ==
    /\ receipt[m] = "new"
    /\ receipt' = [receipt EXCEPT ![m] = "open"] /\ admitted' = Append(admitted, m)
    /\ intake' = Append(intake, m)
Arrive(m) ==
    /\ Admit(m)
    /\ UNCHANGED <<receiving, step, harness, withdrawn, operations, disposed>>

(* The mailbox takes the next entry; the first one starts the activation.    *)
(* An entry of an aborted message has left the line.                         *)
Receive ==
    /\ receiving = Nothing /\ intake # <<>>
    /\ receiving' = Head(intake) /\ intake' = Tail(intake) /\ step' = "activate"
    /\ harness' = IF harness = "none" THEN "creating" ELSE harness
    /\ UNCHANGED <<receipt, admitted, withdrawn, operations, disposed>>
Created ==
    /\ harness = "creating" /\ harness' \in {"ready", "failed"}
    /\ UNCHANGED <<receiver, receipt, admitted, withdrawn, operations, disposed>>

(* The receiver is over; `done` are messages whose receipt settles with it.  *)
Leave(done) ==
    /\ receiving' = Nothing /\ step' = "idle" /\ UNCHANGED intake
    /\ receipt' = [m \in Message |-> IF m \in done THEN "settled" ELSE receipt[m]]

(* startHarnessOperation: the operation is tracked from before the call of   *)
(* the harness; a call that throws closes it at once, with the follow-ups it *)
(* may have sent by then.                                                    *)
CanStart(m) == Cardinality({n \in Message : Tracked(n)}) < MaxOperations
Handoff ==
    /\ step = "activate" /\ harness = "ready" /\ receiving \notin Control
    /\ receiving \notin withdrawn /\ CanStart(receiving)
    /\ \/ /\ ~disposed
          /\ operation' = [operation EXCEPT ![receiving] = "open"]
          /\ work' = [work EXCEPT ![receiving] = "runs"]
          /\ Leave({receiving} \ Reply)
          /\ UNCHANGED followups
       \/ /\ operation' = [operation EXCEPT ![receiving] = "flushing"]
          /\ \E k \in 0..MaxSent : /\ disposed => k = 0
                                   /\ followups' = [followups EXCEPT ![receiving] = k]
          /\ UNCHANGED work
          /\ Leave({receiving})
    /\ UNCHANGED <<harness, admitted, withdrawn, stopped, disposed>>
CallCancel ==
    /\ step = "activate" /\ harness = "ready" /\ receiving \in Control \ withdrawn
    /\ step' = "cancel"
    /\ UNCHANGED <<intake, receiving, harness, receipt, admitted, withdrawn, operations, disposed>>
(* What keeps a receiver from its call: an activation that failed, a message *)
(* aborted meanwhile, too many operations.                                   *)
ReceiverThrows ==
    /\ step = "activate"
    /\ \/ harness = "failed"
       \/ harness = "ready" /\ (receiving \in withdrawn \/ (receiving \notin Control /\ ~CanStart(receiving)))
    /\ Leave({receiving})
    /\ UNCHANGED <<harness, admitted, withdrawn, operations, disposed>>
CancelReturns ==
    /\ step = "cancel"
    /\ Leave({receiving})
    /\ UNCHANGED <<harness, admitted, withdrawn, operations, disposed>>

(* The work sends a follow-up, which waits for its end.                      *)
SendFollowup(m) ==
    /\ work[m] = "runs" /\ m \notin stopped /\ m \notin withdrawn /\ ~disposed
    /\ followups[m] < MaxSent
    /\ followups' = [followups EXCEPT ![m] = @ + 1]
    /\ UNCHANGED <<receiver, harness, receipt, admitted, withdrawn, operation, stopped, work, disposed>>

(* Seeded fault: the operation is forgotten before its follow-ups are sent.  *)
CloseWorkAtOnce(m) == operation' = [operation EXCEPT ![m] = "gone"]
CloseWork(m) == operation' = [operation EXCEPT ![m] = "flushing"]
WorkEnds(m) ==
    /\ work[m] = "runs"
    /\ work' = [work EXCEPT ![m] = "ended"]
    /\ CloseWork(m)
    /\ receipt' = [receipt EXCEPT ![m] = "settled"]
    /\ UNCHANGED <<receiver, harness, admitted, withdrawn, stopped, followups, disposed>>
(* flush: the follow-ups are admitted one by one, or refused for capacity.   *)
FlushFollowup(m) ==
    /\ operation[m] = "flushing" /\ followups[m] > 0
    /\ followups' = [followups EXCEPT ![m] = @ - 1]
    /\ \/ \E n \in Message \ Control : Admit(n)
       \/ UNCHANGED <<receipt, admitted, intake>>
    /\ UNCHANGED <<receiving, step, harness, withdrawn, operation, stopped, work, disposed>>
FlushEnds(m) ==
    /\ operation[m] = "flushing" /\ followups[m] = 0
    /\ operation' = [operation EXCEPT ![m] = "gone"]
    /\ UNCHANGED <<receiver, harness, receipt, admitted, withdrawn, stopped, work, followups, disposed>>

(* RuntimeMessages.cancel, by its deadline or by the platform: only a        *)
(* message with an open receipt; waiting, it leaves the line and settles.    *)
Withdraw(m) ==
    /\ receipt[m] = "open" /\ m \notin withdrawn
    /\ withdrawn' = withdrawn \cup {m}
    /\ \/ /\ \E i \in DOMAIN intake : intake[i] = m /\ intake' = RemoveAt(intake, i)
          /\ receipt' = [receipt EXCEPT ![m] = "settled"]
       \/ ~Contains(intake, m) /\ UNCHANGED <<intake, receipt>>
    /\ stopped' = IF operation[m] = "open" THEN stopped \cup {m} ELSE stopped
    /\ UNCHANGED <<receiving, step, harness, admitted, operation, work, followups, disposed>>
(* Seeded fault: the deadline is left to the receipt.                        *)
StopOfReceipt(m) ==
    /\ operation[m] = "open" /\ m \notin stopped /\ receipt[m] = "open"
    /\ stopped' = stopped \cup {m}
    /\ UNCHANGED <<receiver, harness, receipt, admitted, withdrawn, operation, work, followups, disposed>>
(* The operation's own deadline, or a cancel by its identity.                *)
StopOperation(m) ==
    /\ operation[m] = "open" /\ m \notin stopped
    /\ stopped' = stopped \cup {m}
    /\ UNCHANGED <<receiver, harness, receipt, admitted, withdrawn, operation, work, followups, disposed>>
Dispose ==
    /\ ~disposed /\ disposed' = TRUE
    /\ UNCHANGED <<receiver, harness, receipt, admitted, withdrawn, operations>>

HarnessNext ==
    \/ Receive \/ Created \/ Handoff \/ CallCancel \/ ReceiverThrows \/ CancelReturns \/ Dispose
    \/ \E m \in Message :
        \/ Arrive(m) \/ SendFollowup(m) \/ WorkEnds(m) \/ FlushFollowup(m) \/ FlushEnds(m)
        \/ Withdraw(m) \/ StopOperation(m)

(* Fairness: promise reactions and the timer of an operation; a harness      *)
(* honours the signal of its work (what NativeTurns shows of native ones).   *)
HarnessFair == \A m \in Message :
    /\ WF_harnessVars(StopOperation(m))
    /\ WF_harnessVars(m \in stopped /\ WorkEnds(m))
    /\ WF_harnessVars(FlushFollowup(m) \/ FlushEnds(m))
HarnessSpec == HarnessInit /\ [][HarnessNext]_harnessVars /\ HarnessFair

-----------------------------------------------------------------------------
(* What the runtime reports is true: it is quiescent only when no harness    *)
(* works and every follow-up has been admitted or refused, and the receipt   *)
(* of a request settles only with its work (session-runtime-adapter.ts       *)
(* 128-129, 366, 412-420).                                                   *)
ReportsAreTrue ==
    /\ quiescent => \A m \in Message : work[m] # "runs" /\ followups[m] = 0
    /\ \A m \in Reply : receipt[m] = "settled" => work[m] # "runs"

(* "FIFO order lets cancel observe every submission admitted before it": the *)
(* harness is told to cancel when all of them are in its hands or settled    *)
(* (session-runtime-adapter.ts 302-304).                                     *)
CancelSeesEarlier ==
    step = "cancel" =>
        \A i, j \in DOMAIN admitted :
            i < j /\ admitted[j] = receiving =>
                receipt[admitted[i]] = "settled" \/ operation[admitted[i]] # "none"

(* "Dispatch receipts settle at handoff, so the operation carries the message*)
(* deadline itself": work is stopped at its deadline though its receipt has  *)
(* long settled, and the operation goes (session-runtime-adapter.ts 382-391).*)
OperationsEnd == \A m \in Message \ Control : operation[m] = "open" ~> operation[m] = "gone"

(* What the harness was given is tracked for those who ask: the platform,    *)
(* the requester and a cancel.                                               *)
SubmissionsAreTracked == ReportsAreTrue /\ CancelSeesEarlier
=============================================================================
