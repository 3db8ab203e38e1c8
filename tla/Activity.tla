------------------------------- MODULE Activity -------------------------------
(***************************************************************************)
(* InMemoryActivity (src/activity.ts): one slot of background work per     *)
(* runtime incarnation, shared by immediate and queued work, with          *)
(* steering, cancellation through a provider hook, and completion messages *)
(* that are sent after the slot is released.                               *)
(*                                                                         *)
(* Each action is one job of the event loop: a call by user code or by the *)
(* platform, a timer, or a promise reaction.  The work, the onSteer        *)
(* adapter and the onCancel hook are user code: they may take any time.    *)
(* Deadlines are abstracted to a timer that may fire at any time while it  *)
(* is armed, so extend, which only moves the deadline, is no step here.    *)
(***************************************************************************)
EXTENDS Naturals, FiniteSets

CONSTANTS Activities,    \* the submissions of work, by start or by queue
          Messages,      \* the messages that submit them
          owner,         \* owner[a]: the message activity a belongs to
          Priority,      \* the submissions queued with priority
          Steerable,     \* the submissions with an onSteer adapter
          Hooked,        \* the submissions with an onCancel hook
          None,
          MAX_QUEUED,    \* bound of the queue, of steering and of follow-ups
          MaxSteers,     \* bound on the steering submissions of one activity
          MaxFollowups   \* bound on the follow-up messages of one activity

ASSUME ActivityAssumption ==
  /\ None \notin Activities
  /\ IsFiniteSet(Activities)
  /\ owner \in [Activities -> Messages]
  /\ Priority \subseteq Activities /\ Steerable \subseteq Activities /\ Hooked \subseteq Activities
  /\ MAX_QUEUED \in Nat /\ MaxSteers \in Nat /\ MaxFollowups \in Nat

VARIABLES
  current,    \* the activity that owns the slot, or None
  flushing,   \* activities sending their follow-ups after releasing the slot
  queued,     \* the submissions in the queue
  ahead,      \* ahead[a]: those before a in the queue
  drains,     \* drain() microtasks queued and not yet run
  work,       \* work[a]: where a's submission and its work promise stand
  settled,    \* activity.settled
  aborted,    \* activity.cancelledAt is set and its controller is aborted
  hook,       \* hook[a]: the onCancel hook of a
  steers,     \* steers[a]: steering deliveries chained and not settled
  steered,    \* steered[a]: how many were submitted, up to MaxSteers
  adapter,    \* adapter[a]: a's onSteer is running
  awaited,    \* awaited[a]: the promises settle() waits for before releasing
  graced,     \* graced[a]: the slot was released by the hook grace
  timer,      \* timer[a]: the deadline timer is armed
  followups,  \* followups[a]: messages buffered and not yet sent
  idleSeen    \* isIdle when stateChanged was last called

slotVars == <<current, flushing, queued, ahead, drains>>
workVars == <<work, settled, followups>>
cancelVars == <<aborted, hook, timer>>
steerVars == <<steers, steered, adapter>>
releaseVars == <<awaited, graced>>
vars == <<slotVars, workVars, cancelVars, steerVars, releaseVars, idleSeen>>

Ended == {"returned", "threw"}
isIdle == current = None /\ queued = {} /\ flushing = {}
stateChanged == idleSeen' = isIdle'

-----------------------------------------------------------------------------

Init ==
  /\ current = None /\ flushing = {} /\ queued = {} /\ drains = 0
  /\ ahead = [a \in Activities |-> {}]
  /\ work = [a \in Activities |-> "none"]
  /\ settled = [a \in Activities |-> FALSE]
  /\ followups = [a \in Activities |-> 0]
  /\ aborted = [a \in Activities |-> FALSE]
  /\ hook = [a \in Activities |-> "none"]
  /\ timer = [a \in Activities |-> FALSE]
  /\ steers = [a \in Activities |-> 0]
  /\ steered = [a \in Activities |-> 0]
  /\ adapter = [a \in Activities |-> FALSE]
  /\ awaited = [a \in Activities |-> {}]
  /\ graced = [a \in Activities |-> FALSE]
  /\ idleSeen = TRUE

(* launch: the activity owns the slot at once, its timer is armed, and its  *)
(* work begins in a later microtask.                                        *)
Launch(a) ==
  /\ current' = a
  /\ work' = [work EXCEPT ![a] = "scheduled"]

(* Entries leave the queue, from its head or from its middle.               *)
LeaveQueue(left) ==
  /\ queued' = queued \ left
  /\ ahead' = [a \in Activities |-> IF a \in left THEN {} ELSE ahead[a] \ left]

(* Seeded fault: drain takes the head whatever its priority.                *)
FirstInLineHead(a) == ahead[a] = {}

(* What drain takes: the first with priority, else the head.                *)
FirstInLine(a) ==
  IF a \in Priority THEN ahead[a] \cap Priority = {}
  ELSE ahead[a] = {} /\ queued \cap Priority = {}

(* drain, from a state without an owner of the slot.                        *)
LaunchNext ==
  IF queued = {}
  THEN current' = None /\ UNCHANGED <<queued, ahead, work>>
  ELSE \E a \in queued : FirstInLine(a) /\ Launch(a) /\ LeaveQueue({a})

(* The timers after drain: the launched activity's is armed, and that of    *)
(* the released one, if any, is cleared.                                    *)
ArmTimers(released) ==
  timer' = [a \in Activities |-> IF a \in released THEN FALSE ELSE timer[a] \/ (a = current' /\ a # current)]

(* start: refused while the slot is owned or work is queued.                *)
Start(a) ==
  /\ work[a] = "none"
  /\ current = None
  /\ queued = {}
  /\ Launch(a)
  /\ ArmTimers({})
  /\ UNCHANGED <<flushing, queued, ahead, drains, settled, followups, aborted, hook, steerVars, releaseVars>>
  /\ stateChanged

Queue(a) ==
  /\ work[a] = "none"
  /\ Cardinality(queued) < MAX_QUEUED
  /\ work' = [work EXCEPT ![a] = "queued"]
  /\ queued' = queued \cup {a}
  /\ ahead' = [ahead EXCEPT ![a] = queued]
  /\ drains' = drains + 1
  /\ UNCHANGED <<current, flushing, settled, followups, cancelVars, steerVars, releaseVars>>
  /\ stateChanged

(* The microtask queue() left.                                              *)
DrainJob ==
  /\ drains > 0
  /\ drains' = drains - 1
  /\ IF current = None THEN LaunchNext ELSE UNCHANGED <<current, queued, ahead, work>>
  /\ ArmTimers({})
  /\ UNCHANGED <<flushing, settled, followups, aborted, hook, steerVars, releaseVars>>
  /\ IF current' # current THEN stateChanged ELSE UNCHANGED idleSeen

(* The first microtask of launched work: aborted work never begins.         *)
BeginWork(a) ==
  /\ work[a] = "scheduled"
  /\ work' = [work EXCEPT ![a] = IF aborted[a] THEN "threw" ELSE "running"]
  /\ UNCHANGED <<slotVars, settled, followups, cancelVars, steerVars, releaseVars, idleSeen>>

WorkEnds(a, how) ==
  /\ work[a] = "running"
  /\ work' = [work EXCEPT ![a] = how]
  /\ UNCHANGED <<slotVars, settled, followups, cancelVars, steerVars, releaseVars, idleSeen>>

(* Seeded fault: send stays open after the activity settled.                *)
SendAnyTime(a) ==
  /\ work[a] \in {"running"} \cup Ended
  /\ followups[a] < MaxFollowups
  /\ followups' = [followups EXCEPT ![a] = @ + 1]
  /\ UNCHANGED <<slotVars, work, settled, cancelVars, steerVars, releaseVars, idleSeen>>

(* send of the activity's context: open until the activity settles.         *)
Send(a) ==
  /\ work[a] \in {"running"} \cup Ended
  /\ ~settled[a]
  /\ followups[a] < MaxFollowups
  /\ followups' = [followups EXCEPT ![a] = @ + 1]
  /\ UNCHANGED <<slotVars, work, settled, cancelVars, steerVars, releaseVars, idleSeen>>

(* steer: chained behind the steering already submitted to the current      *)
(* activity; refused once that activity settled or was aborted.             *)
Steer(a) ==
  /\ current = a
  /\ ~settled[a] /\ ~aborted[a]
  /\ a \in Steerable
  /\ steers[a] < MAX_QUEUED
  /\ steered[a] < MaxSteers
  /\ steers' = [steers EXCEPT ![a] = @ + 1]
  /\ steered' = [steered EXCEPT ![a] = @ + 1]
  /\ UNCHANGED <<slotVars, workVars, cancelVars, adapter, releaseVars, idleSeen>>

(* The next delivery of the chain: it fails if the activity was aborted     *)
(* meanwhile, else it invokes the adapter.                                  *)
AdapterBegins(a) ==
  /\ steers[a] > 0
  /\ ~adapter[a]
  /\ IF aborted[a]
     THEN steers' = [steers EXCEPT ![a] = @ - 1] /\ UNCHANGED adapter
     ELSE adapter' = [adapter EXCEPT ![a] = TRUE] /\ UNCHANGED steers
  /\ UNCHANGED <<slotVars, workVars, cancelVars, steered, releaseVars, idleSeen>>

(* The adapter returns or throws; a failure does not break the chain.       *)
AdapterEnds(a) ==
  /\ adapter[a]
  /\ adapter' = [adapter EXCEPT ![a] = FALSE]
  /\ steers' = [steers EXCEPT ![a] = @ - 1]
  /\ UNCHANGED <<slotVars, workVars, cancelVars, steered, releaseVars, idleSeen>>

(* Seeded fault: abort starts the hook of a flushing activity too.          *)
AbortAlwaysHooks(targets) ==
  /\ aborted' = [a \in Activities |-> aborted[a] \/ a \in targets]
  /\ hook' = [a \in Activities |->
       IF a \in targets \cap Hooked /\ ~aborted[a] THEN "running" ELSE hook[a]]

(* abort of each target: the first one starts the provider hook, unless the *)
(* target is flushing and no longer owns the provider.                      *)
Abort(targets) ==
  /\ aborted' = [a \in Activities |-> aborted[a] \/ a \in targets]
  /\ hook' = [a \in Activities |->
       IF a \in targets \cap Hooked /\ ~aborted[a] /\ a \notin flushing THEN "running" ELSE hook[a]]

Notify(targets) == IF \E a \in targets : ~aborted[a] THEN stateChanged ELSE UNCHANGED idleSeen

(* cancel: of the current activity, or by identity also of a flushing one.  *)
Cancel(a) ==
  /\ a \in {current} \cup flushing
  /\ a \in Activities
  /\ Abort({a})
  /\ UNCHANGED <<slotVars, workVars, timer, steerVars, releaseVars>>
  /\ Notify({a})

(* The deadline timer: abort of the current activity.                       *)
TimerFires(a) ==
  /\ timer[a]
  /\ timer' = [timer EXCEPT ![a] = FALSE]
  /\ Abort({a})
  /\ UNCHANGED <<slotVars, workVars, steerVars, releaseVars>>
  /\ Notify({a})

(* cancelMessage: the message's queued work is dropped and its launched     *)
(* work is aborted.                                                         *)
CancelMessage(m) ==
  LET dropped == {a \in queued : owner[a] = m}
      targets == {a \in Activities \cap ({current} \cup flushing) : owner[a] = m}
  IN  /\ dropped # {} \/ targets # {}
      /\ LeaveQueue(dropped)
      /\ work' = [a \in Activities |-> IF a \in dropped THEN "dropped" ELSE work[a]]
      /\ Abort(targets)
      /\ UNCHANGED <<current, flushing, drains, settled, followups, timer, steerVars, releaseVars>>
      /\ stateChanged

HookEnds(a) ==
  /\ hook[a] = "running"
  /\ hook' = [hook EXCEPT ![a] = "ended"]
  /\ UNCHANGED <<slotVars, workVars, aborted, timer, steerVars, releaseVars, idleSeen>>

(* settle, up to its wait: it captures the steering and cancellation        *)
(* promises as they are now.                                                *)
SettleBegins(a) ==
  /\ work[a] \in Ended
  /\ current = a
  /\ ~settled[a]
  /\ settled' = [settled EXCEPT ![a] = TRUE]
  /\ awaited' = [awaited EXCEPT ![a] =
       {p \in {"steering", "cancellation"} :
          (p = "steering" /\ steers[a] > 0) \/ (p = "cancellation" /\ hook[a] = "running")}]
  /\ UNCHANGED <<slotVars, work, followups, cancelVars, steerVars, graced, idleSeen>>

ProvidersDone(a) ==
  /\ "steering" \in awaited[a] => steers[a] = 0
  /\ "cancellation" \in awaited[a] => hook[a] # "running"

(* Seeded faults: the released slot is not drained; a hung provider is      *)
(* waited for without grace.                                                *)
ReleaseWithoutDrain(a, expired) ==
  /\ current = a
  /\ settled[a]
  /\ IF expired THEN ~ProvidersDone(a) ELSE ProvidersDone(a)
  /\ flushing' = flushing \cup {a}
  /\ graced' = [graced EXCEPT ![a] = expired]
  /\ current' = None
  /\ ArmTimers({a})
  /\ followups' = [followups EXCEPT ![a] = IF @ = 0 THEN 0 ELSE @ - 1]
  /\ UNCHANGED <<queued, ahead, work, drains, settled, aborted, hook, steerVars, awaited>>
  /\ stateChanged

ReleaseWithoutGrace(a, expired) ==
  /\ current = a
  /\ settled[a]
  /\ ~expired /\ ProvidersDone(a)
  /\ flushing' = flushing \cup {a}
  /\ LaunchNext
  /\ ArmTimers({a})
  /\ followups' = [followups EXCEPT ![a] = IF @ = 0 THEN 0 ELSE @ - 1]
  /\ UNCHANGED <<graced, drains, settled, aborted, hook, steerVars, awaited>>
  /\ stateChanged

(* settle, after its wait: the slot passes to the next queued activity and  *)
(* the first follow-up is sent.                                             *)
ReleaseSlot(a, expired) ==
  /\ current = a
  /\ settled[a]
  /\ IF expired THEN ~ProvidersDone(a) ELSE ProvidersDone(a)
  /\ flushing' = flushing \cup {a}
  /\ graced' = [graced EXCEPT ![a] = expired]
  /\ LaunchNext
  /\ ArmTimers({a})
  /\ followups' = [followups EXCEPT ![a] = IF @ = 0 THEN 0 ELSE @ - 1]
  /\ UNCHANGED <<drains, settled, aborted, hook, steerVars, awaited>>
  /\ stateChanged

(* flush goes on with the next follow-up, or finishes.                      *)
FlushNext(a) ==
  /\ a \in flushing
  /\ followups[a] > 0
  /\ followups' = [followups EXCEPT ![a] = @ - 1]
  /\ UNCHANGED <<slotVars, work, settled, cancelVars, steerVars, releaseVars, idleSeen>>

FlushEnds(a) ==
  /\ a \in flushing
  /\ followups[a] = 0
  /\ flushing' = flushing \ {a}
  /\ UNCHANGED <<current, queued, ahead, drains, workVars, cancelVars, steerVars, releaseVars>>
  /\ stateChanged

ActivityNext(a) ==
  \/ Start(a) \/ Queue(a) \/ BeginWork(a) \/ Send(a)
  \/ \E how \in Ended : WorkEnds(a, how)
  \/ Steer(a) \/ AdapterBegins(a) \/ AdapterEnds(a)
  \/ Cancel(a) \/ TimerFires(a) \/ HookEnds(a)
  \/ SettleBegins(a) \/ \E expired \in BOOLEAN : ReleaseSlot(a, expired)
  \/ FlushNext(a) \/ FlushEnds(a)

Next == DrainJob \/ (\E a \in Activities : ActivityNext(a)) \/ (\E m \in Messages : CancelMessage(m))

Spec == Init /\ [][Next]_vars

(* Jobs of the event loop and the hook grace, for every activity.           *)
LoopFairness ==
  /\ WF_vars(DrainJob)
  /\ \A a \in Activities :
       /\ WF_vars(BeginWork(a)) /\ WF_vars(SettleBegins(a)) /\ WF_vars(AdapterBegins(a))
       /\ \A expired \in BOOLEAN : WF_vars(ReleaseSlot(a, expired))
       /\ WF_vars(FlushNext(a)) /\ WF_vars(FlushEnds(a))

(* Work that ends; hooks and adapters may still hang.                       *)
WorkFairness == \A a \in Activities : WF_vars(\E how \in Ended : WorkEnds(a, how))

FairSpec == Spec /\ LoopFairness /\ WorkFairness

(* Providers quicker than the grace: the slot is never taken from them.     *)
PromptSpec == Init /\ [][Next /\ \A a \in Activities : ~ReleaseSlot(a, TRUE)]_vars

-----------------------------------------------------------------------------
FieldsTypeOK ==
  /\ current \in Activities \cup {None}
  /\ flushing \in SUBSET Activities
  /\ queued \in SUBSET Activities /\ ahead \in [Activities -> SUBSET Activities]
  /\ drains \in Nat
  /\ work \in [Activities -> {"none", "queued", "dropped", "scheduled", "running"} \cup Ended]
  /\ settled \in [Activities -> BOOLEAN]
  /\ followups \in [Activities -> Nat]
  /\ aborted \in [Activities -> BOOLEAN]
  /\ hook \in [Activities -> {"none", "running", "ended"}]
  /\ timer \in [Activities -> BOOLEAN]
  /\ steers \in [Activities -> Nat] /\ steered \in [Activities -> Nat]
  /\ adapter \in [Activities -> BOOLEAN]
  /\ awaited \in [Activities -> SUBSET {"steering", "cancellation"}]
  /\ graced \in [Activities -> BOOLEAN]

(* The types of the scheduler's fields, and of what it announced.           *)
ActivityTypeOK == FieldsTypeOK /\ idleSeen \in BOOLEAN

(* User work runs only while its activity owns the one slot: a cancelled,   *)
(* timed-out or slow activity keeps the slot until its work has ended.      *)
WorkHoldsSlot == \A a \in Activities : work[a] \in {"scheduled", "running"} => current = a

(* Queued work with a free slot always has a drain on its way.              *)
NoStrandedWork == queued # {} /\ current = None => drains > 0

(* Every step that changes isIdle calls stateChanged: the quiescence        *)
(* tracker never misses that the activity became idle.                      *)
IdleIsAnnounced == idleSeen = isIdle

(* An idle scheduler has no work, started or waiting, and no follow-up that *)
(* was not handed to the intake.                                            *)
IdleMeansDone ==
  isIdle => \A a \in Activities : followups[a] = 0 /\ work[a] \in {"none", "dropped"} \cup Ended

(* Unless the grace expired, an activity without the slot has no adapter    *)
(* running, and no hook of a cancellation requested before its work ended.  *)
ProviderHoldsSlot ==
  \A a \in Activities : current # a /\ ~graced[a] =>
    ~adapter[a] /\ ("cancellation" \in awaited[a] => hook[a] # "running")

(* A provider hook starts at most once, and only while its activity owns    *)
(* the slot: a flushing activity's cancel never reaches the next provider.  *)
HookStartsInSlot ==
  [][\A a \in Activities :
       /\ hook'[a] = "running" /\ hook[a] # "running" => hook[a] = "none" /\ current = a
       /\ hook[a] = "ended" => hook'[a] = "ended"]_vars

(* Work that takes the slot from the queue overtakes nothing but work       *)
(* without priority: nothing else that was submitted before it, or has      *)
(* priority over it, still waits, whatever was dropped in between.          *)
LaunchOrder ==
  [][\A a, b \in Activities :
       work[a] = "queued" /\ work'[a] = "scheduled" /\ work[b] = "queued" /\ a # b =>
         IF a \in Priority THEN b \in Priority => a \in ahead[b]
         ELSE b \notin Priority /\ a \in ahead[b]]_vars

(* The slot stays with an activity until its onCancel hook has ended, as    *)
(* the SessionActivityOptions comment on onCancel promises.                 *)
HookHoldsSlot == \A a \in Activities : hook[a] = "running" => current = a

(* Settled work gives the slot back, however long its adapter or its hook   *)
(* take, and its follow-ups are all sent.                                   *)
SettledActivityLeaves ==
  \A a \in Activities : settled[a] ~> (current # a /\ a \notin flushing /\ followups[a] = 0)

(* When work ends, queued work gets its turn or is dropped.                 *)
QueuedWorkLeaves == \A a \in Activities : (work[a] = "queued") ~> (work[a] # "queued")

(* The slot is respected: work runs only in it, its providers and queued    *)
(* work are waited for and none is stranded.                                *)
SlotIsRespected == ActivityTypeOK /\ WorkHoldsSlot /\ ProviderHoldsSlot /\ NoStrandedWork

(* Idle is true and told: what quiescence reads changes never unannounced,  *)
(* and says that nothing is left to run or to send.                         *)
IdlenessIsTrue == IdleIsAnnounced /\ IdleMeansDone

(* Neither settled nor queued work stays for ever.                          *)
ActivitiesLeave == SettledActivityLeaves /\ QueuedWorkLeaves

=============================================================================
