---------------------------- MODULE SessionIntake ----------------------------
(***************************************************************************)
(* The intake of one Session runtime incarnation, in behaviour mode: how   *)
(* SessionRuntimeAdapter (src/session-runtime-adapter.ts) composes the     *)
(* message registry, the FIFO mailbox and the quiescence tracker with      *)
(* activation, recovery, cancel commands and background work.              *)
(*                                                                         *)
(* Platform requests (admit, cancel, recover, waits), timers, user code    *)
(* and promise reactions are separate jobs of one event loop; each action  *)
(* is one job.  The behaviour's receive, onActivate and onRecover are user *)
(* code: they may take any time, fail, and ignore their abort signal.      *)
(***************************************************************************)
EXTENDS Mailbox, RuntimeMessages, RuntimeQuiescence

CONSTANTS Dispatches,           \* messages that carry a dispatch or steer command
          Cancels,              \* messages that carry a cancel command
          Auths,                \* messages that carry an auth command
          Recoveries,           \* recovery identities
          ReservedAuthSession,  \* the bound Session is a reserved auth Session
          MaxBackground         \* bound on background work outstanding at once

ASSUME IntakeAssumption ==
  /\ Messages = Dispatches \cup Cancels \cup Auths
  /\ Ids = Messages \cup Recoveries
  /\ Messages \cap Recoveries = {}
  /\ Dispatches \cap Cancels = {} /\ Dispatches \cap Auths = {} /\ Cancels \cap Auths = {}
  /\ Observable = Messages
  /\ ReservedAuthSession \in BOOLEAN
  /\ MaxBackground \in Nat

VARIABLES
  direct,           \* the delivery promise of a message that bypasses the mailbox
  pendingControls,  \* `pendingControls`
  activation,       \* the memoised activation promise
  stage,            \* how far the running mailbox entry got
  expired,          \* recoveries whose execution timeout has passed
  interrupted,      \* interrupted[r]: the message recovery r is about, or None
  background        \* background work that holds the runtime busy

intakeVars == <<direct, pendingControls, activation, stage, expired, interrupted, background>>
vars == <<mailboxVars, receiptVars, collectorVars, quiescenceVars, intakeVars>>

(* Which messages are refused for their Session, run at once, or queued.    *)
Refused == IF ReservedAuthSession THEN Dispatches \cup Cancels ELSE {}
Immediate == Cancels \ Refused
Queueable == Messages \ (Refused \cup Immediate)
Background == 0..MaxBackground

Delivery(m) == IF m \in Queueable THEN result[m] ELSE direct[m]
Aborted(id) == IF id \in Messages THEN aborted(id) ELSE id \in expired
Recovered == {r \in Recoveries : interrupted[r] # None}

(* The idle predicate the adapter gives the tracker, and its next value.    *)
Idle == isIdle /\ pendingControls = 0 /\ background = 0
(* Seeded fault: the idle predicate forgets background work.                *)
IdleNextForgetsWork == pending' = 0 /\ pendingControls' = 0

IdleNext == pending' = 0 /\ pendingControls' = 0 /\ background' = 0

NoChange == UNCHANGED <<wait, minimum>>
Unobserved == UNCHANGED <<generation, messageGenerations>>

-----------------------------------------------------------------------------

Init ==
  /\ MailboxInit /\ MessagesInit /\ CollectorInit /\ QuiescenceInit
  /\ direct = [m \in Messages |-> "none"]
  /\ pendingControls = 0
  /\ activation = "none"
  /\ stage = "idle"
  /\ expired = {}
  /\ interrupted = [r \in Recoveries |-> None]
  /\ background = 0

(* A dispatch, steer or auth message: receive observes its generation and   *)
(* enqueues it in the mailbox.                                              *)
AdmitQueued(m, size) ==
  /\ m \in Queueable
  /\ Reserve(m, size, FALSE)
  /\ ObserveMessage(m)
  /\ Enqueue(m)
  /\ UNCHANGED <<collectorVars, intakeVars>>
  /\ Changed(IdleNext)

(* A cancel command runs at once, ahead of everything queued: it signals    *)
(* the current activity while it is admitted and counts as a control until  *)
(* its promise settles.                                                     *)
AdmitControl(m, size) ==
  /\ m \in Immediate
  /\ Reserve(m, size, TRUE)
  /\ ObserveMessage(m)
  /\ direct' = [direct EXCEPT ![m] = "pending"]
  /\ pendingControls' = pendingControls + 1
  /\ NoChange
  /\ UNCHANGED <<mailboxVars, collectorVars, activation, stage, expired, interrupted, background>>

ControlSettles(m) ==
  /\ direct[m] = "pending"
  /\ direct' = [direct EXCEPT ![m] = "resolved"]
  /\ pendingControls' = pendingControls - 1
  /\ Unobserved
  /\ UNCHANGED <<mailboxVars, receiptVars, collectorVars, activation, stage, expired, interrupted, background>>
  /\ Changed(IdleNext)

(* A reserved auth Session refuses every command that is not auth; the      *)
(* generation was observed, and nothing is notified.                        *)
AdmitRefused(m, size) ==
  /\ m \in Refused
  /\ Reserve(m, size, TRUE)
  /\ ObserveMessage(m)
  /\ direct' = [direct EXCEPT ![m] = "rejected"]
  /\ NoChange
  /\ UNCHANGED <<mailboxVars, collectorVars, pendingControls, activation, stage, expired, interrupted, background>>

(* recover, for a recovery identity not seen before: a repeated one answers *)
(* the memoised recovery, or recovery_conflict.                             *)
Recover(r, m) ==
  /\ interrupted[r] = None
  /\ interrupted' = [interrupted EXCEPT ![r] = m]
  /\ ObserveMessage(m)
  /\ Enqueue(r)
  /\ UNCHANGED <<receiptVars, collectorVars, direct, pendingControls, activation, stage, expired, background>>
  /\ Changed(IdleNext)

(* AbortSignal.timeout of a recovery: nothing removes it from the mailbox.  *)
RecoveryExpires(r) ==
  /\ r \in Recovered \ expired
  /\ expired' = expired \cup {r}
  /\ UNCHANGED <<mailboxVars, receiptVars, collectorVars, quiescenceVars,
                 direct, pendingControls, activation, stage, interrupted, background>>

(* Seeded fault: a cancelled reservation stays in the mailbox.              *)
CancelLeavesQueued(m, code) ==
  /\ RequestCancel(m, code)
  /\ UNCHANGED <<mailboxVars, collectorVars, quiescenceVars, intakeVars>>

(* cancel of a reservation: its controller aborts and onCancel takes it out *)
(* of the mailbox if it still waits there.                                  *)
CancelMessage(m, code) ==
  /\ RequestCancel(m, code)
  /\ IF m \in Waiting THEN CancelQueued(m) ELSE UNCHANGED mailboxVars
  /\ UNCHANGED <<collectorVars, quiescenceVars, intakeVars>>

RequestCancellation(m) == CancelMessage(m, "message_cancelled")
(* The deadline timer, armed until the receipt's finally clears it.         *)
DeadlinePasses(m) == ~settledAt[m] /\ CancelMessage(m, "message_timed_out")

(* Seeded fault: an entry that finds a failed activation activates again.   *)
EnterReceiverRetries ==
  IF running' \in {None, running}
  THEN /\ stage' = (IF running' = None THEN "idle" ELSE stage)
       /\ UNCHANGED <<receiptVars, activation>>
  ELSE LET id == running' IN
       /\ IF Aborted(id)
          THEN stage' = "aborted" /\ UNCHANGED activation
          ELSE IF id \in Auths
          THEN stage' = "receiving" /\ UNCHANGED activation
          ELSE /\ stage' = "activating"
               /\ activation' = IF activation \in {"none", "failed"} THEN "pending" ELSE activation
       /\ IF id \in Messages /\ ~Aborted(id) THEN Started(id) ELSE UNCHANGED receiptVars

(* The first statements of a mailbox entry's receiver, which run in the     *)
(* step that starts it: an aborted entry throws before started(); an auth   *)
(* entry goes to the terminals; the others await activation, which the      *)
(* first of them begins.                                                    *)
EnterReceiver ==
  IF running' \in {None, running}
  THEN /\ stage' = (IF running' = None THEN "idle" ELSE stage)
       /\ UNCHANGED <<receiptVars, activation>>
  ELSE LET id == running' IN
       /\ IF Aborted(id)
          THEN stage' = "aborted" /\ UNCHANGED activation
          ELSE IF id \in Auths
          THEN stage' = "receiving" /\ UNCHANGED activation
          ELSE /\ stage' = "activating"
               /\ activation' = IF activation = "none" THEN "pending" ELSE activation
       /\ IF id \in Messages /\ ~Aborted(id) THEN Started(id) ELSE UNCHANGED receiptVars

Drain ==
  /\ DrainJob
  /\ EnterReceiver
  /\ UNCHANGED <<collectorVars, quiescenceVars, direct, pendingControls, expired, interrupted, background>>

ReleaseRunner ==
  /\ Release
  /\ EnterReceiver
  /\ UNCHANGED <<collectorVars, quiescenceVars, direct, pendingControls, expired, interrupted, background>>

(* onActivate returns or throws; a failure is as sticky as a success.       *)
ActivationSettles(outcome) ==
  /\ activation = "pending"
  /\ activation' = outcome
  /\ UNCHANGED <<mailboxVars, receiptVars, collectorVars, quiescenceVars,
                 direct, pendingControls, stage, expired, interrupted, background>>

(* After activation the entry checks its signal again, then runs user code. *)
BeginReceive ==
  /\ stage = "activating"
  /\ activation = "ready"
  /\ ~Aborted(running)
  /\ stage' = "receiving"
  /\ UNCHANGED <<mailboxVars, receiptVars, collectorVars, quiescenceVars,
                 direct, pendingControls, activation, expired, interrupted, background>>

LeaveReceiver(outcome) ==
  /\ ReceiverSettles(outcome)
  /\ stage' = "idle"
  /\ UNCHANGED <<receiptVars, collectorVars, quiescenceVars,
                 direct, pendingControls, activation, expired, interrupted, background>>

(* The entry throws without running user code.                              *)
RejectUnreceived ==
  /\ \/ stage = "aborted"
     \/ stage = "activating" /\ activation = "failed"
     \/ stage = "activating" /\ activation = "ready" /\ Aborted(running)
  /\ LeaveReceiver("rejected")

(* User code returns or throws.                                             *)
ReceiveSettles(outcome) == stage = "receiving" /\ LeaveReceiver(outcome)

(* Seeded fault: settle() does not notify the tracker.                      *)
SettleSilently(id) ==
  /\ Settle(id)
  /\ NoChange
  /\ Unobserved
  /\ UNCHANGED <<receiptVars, collectorVars, intakeVars>>

SettleEntry(id) ==
  /\ Settle(id)
  /\ Unobserved
  /\ UNCHANGED <<receiptVars, collectorVars, intakeVars>>
  /\ Changed(IdleNext)

RecordMessageOutcome(m) ==
  /\ Delivery(m) \in Settled
  /\ RecordOutcome(m, Delivery(m))
  /\ UNCHANGED <<mailboxVars, collectorVars, quiescenceVars, intakeVars>>

FinalizeMessage(m) ==
  /\ Finalize(m)
  /\ UNCHANGED <<mailboxVars, quiescenceVars, intakeVars>>

(* Background work (an activity or a terminal) is started by an open,        *)
(* unaborted invocation, or with the context of the activation, which only   *)
(* the end of the lifetime closes: the application may keep it and use it at *)
(* any later time.  It notifies the tracker when it begins and when it ends. *)
BackgroundStarts ==
  /\ (stage = "receiving" /\ ~Aborted(running)) \/ activation # "none"
  /\ background < MaxBackground
  /\ background' = background + 1
  /\ Unobserved
  /\ UNCHANGED <<mailboxVars, receiptVars, collectorVars, direct, pendingControls, activation, stage, expired, interrupted>>
  /\ Changed(IdleNext)

BackgroundEnds ==
  /\ background > 0
  /\ background' = background - 1
  /\ Unobserved
  /\ UNCHANGED <<mailboxVars, receiptVars, collectorVars, direct, pendingControls, activation, stage, expired, interrupted>>
  /\ Changed(IdleNext)

AwaitQuiescence(w, least) ==
  /\ Await(w, least, Idle)
  /\ UNCHANGED <<mailboxVars, receiptVars, collectorVars, intakeVars>>

LeaveWait(w) == AbandonWait(w) /\ UNCHANGED <<mailboxVars, receiptVars, collectorVars, intakeVars>>

Collect(c) ==
  /\ PollCompletions(c) \/ AnswerCompletions(c) \/ AbandonPoll(c) \/ ReadReceipts(c)
  /\ UNCHANGED <<mailboxVars, quiescenceVars, intakeVars>>

Next ==
  \/ \E m \in Messages, size \in Sizes : AdmitQueued(m, size) \/ AdmitControl(m, size) \/ AdmitRefused(m, size)
  \/ \E m \in Messages : \/ ControlSettles(m) \/ RequestCancellation(m) \/ DeadlinePasses(m)
                         \/ RecordMessageOutcome(m) \/ FinalizeMessage(m)
  \/ \E r \in Recoveries : RecoveryExpires(r) \/ \E m \in Messages : Recover(r, m)
  \/ \E id \in Ids : SettleEntry(id)
  \/ Drain \/ ReleaseRunner
  \/ \E outcome \in {"ready", "failed"} : ActivationSettles(outcome)
  \/ BeginReceive \/ RejectUnreceived
  \/ \E outcome \in Settled : ReceiveSettles(outcome)
  \/ BackgroundStarts \/ BackgroundEnds
  \/ \E w \in Waiters : LeaveWait(w) \/ \E least \in 0..MaxGeneration : AwaitQuiescence(w, least)
  \/ \E c \in Collectors : Collect(c)

Spec == Init /\ [][Next]_vars

(* Jobs the event loop runs, and timers.  User code is not among them.      *)
RuntimeFairness ==
  /\ WF_vars(Drain) /\ WF_vars(ReleaseRunner) /\ WF_vars(BeginReceive) /\ WF_vars(RejectUnreceived)
  /\ \A id \in Ids : WF_vars(SettleEntry(id))
  /\ \A m \in Messages : /\ WF_vars(ControlSettles(m)) /\ WF_vars(DeadlinePasses(m))
                         /\ WF_vars(RecordMessageOutcome(m)) /\ WF_vars(FinalizeMessage(m))

(* User code that settles: an assumption of the properties that need it.    *)
UserCodeSettles ==
  /\ WF_vars(\E outcome \in {"ready", "failed"} : ActivationSettles(outcome))
  /\ WF_vars(\E outcome \in Settled : ReceiveSettles(outcome))
  /\ WF_vars(BackgroundEnds)

FairSpec == Spec /\ RuntimeFairness

-----------------------------------------------------------------------------
(* The types of the adapter's own fields, beside those of its components.   *)
IntakeTypeOK ==
  /\ MailboxTypeOK /\ ReceiptTypeOK /\ CollectorTypeOK /\ QuiescenceTypeOK
  /\ direct \in [Messages -> ResultState]
  /\ pendingControls \in Int
  /\ activation \in {"none", "pending", "ready", "failed"}
  /\ stage \in {"idle", "aborted", "activating", "receiving"}
  /\ expired \in SUBSET Recoveries
  /\ interrupted \in [Recoveries -> Messages \cup {None}]
  /\ background \in Background

(* A quiescence wait is answered only when its generation was observed and  *)
(* no admitted message, recovery, control or background work is open: the   *)
(* counters behind `idle` never call a busy runtime idle.                   *)
AnsweredOnlyWhenQuiet ==
  [][\A w \in Waiters : wait'[w] = "answered" /\ wait[w] = "waiting" =>
       /\ minimum'[w] <= generation'
       /\ \A id \in Ids : result'[id] # "pending"
       /\ \A m \in Messages : direct'[m] # "pending"
       /\ background' = 0]_vars

(* A parked waiter has a reason to wait: the runtime is busy, or has not    *)
(* seen the generation it asks for.  Every step that makes the runtime idle *)
(* notifies the tracker.                                                    *)
NoStrandedWaiter ==
  \A w \in Waiters : wait[w] = "waiting" /\ Covered(w, generation) => ~Idle

(* A message cancelled or expired before it started never reaches user      *)
(* code, whichever of its two guards (queue removal, throwIfAborted) the    *)
(* interleaving exercises.                                                  *)
CancelledUnstartedNeverRuns ==
  \A m \in Queueable : aborted(m) /\ ~startedAt[m] => runs[m] = 0

(* A receipt's outcome is what its delivery and its cancellation say, also  *)
(* after further cancels and deadlines.                                     *)
OutcomeTellsCause ==
  \A m \in Messages : status[m] \in Outcomes =>
    Delivery(m) \in Settled /\ status[m] = Outcome(m, Delivery(m))

(* Cancellation is told as it was: neither a message cancelled in time that *)
(* runs, nor an outcome that hides the cancel or invents one.               *)
CancellationIsTrue == CancelledUnstartedNeverRuns /\ OutcomeTellsCause

(* Receipts are counted exactly, in the byte budget and by collectors, and   *)
(* the fields of the runtime keep their types.                              *)
ReceiptsAreCounted == IntakeTypeOK /\ PendingBytesExact /\ NoMissedCompletion

(* After onActivate failed, it is not called again and no entry that needs  *)
(* activation ever succeeds: the failure is final for the incarnation.      *)
FailedActivationIsFinal ==
  [][activation = "failed" =>
       /\ activation' = "failed"
       /\ \A id \in Ids \ Auths : result'[id] = "resolved" => result[id] = "resolved"]_vars

(* Whatever user code does, a queued message starts or settles: deadlines   *)
(* reach a message that waits behind a receiver that never returns.         *)
QueuedMessagesLeave ==
  \A m \in Queueable : (status[m] = "queued") ~> (startedAt[m] \/ settledAt[m])

(* When user code settles, so does every admitted message.                  *)
EveryMessageSettles ==
  UserCodeSettles => \A m \in Messages : (status[m] # "none") ~> settledAt[m]

(* Every message leaves the queue whatever user code does, and settles when *)
(* user code does.                                                          *)
MessagesFinish == QueuedMessagesLeave /\ EveryMessageSettles

=============================================================================
