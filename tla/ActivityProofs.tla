---------------------------- MODULE ActivityProofs ----------------------------
(***************************************************************************)
(* Theorems about the background activity, for every set of submissions    *)
(* and every bound.  The slot, the queue, the flushing set and the fields  *)
(* of each activity change in different jobs; LifeInv says how they agree  *)
(* between jobs, and ProviderInv how the captured promises relate to the   *)
(* steering and the hook they stand for.                                   *)
(***************************************************************************)
EXTENDS Activity, TLAPS

Begun == {"scheduled", "running"} \cup Ended

(* Where a submission stands, and which of the scheduler's fields know it.  *)
LifeInv ==
  \A a \in Activities :
    /\ a \in queued <=> work[a] = "queued"
    /\ work[a] \in {"scheduled", "running"} => current = a
    /\ current = a => work[a] \in Begun
    /\ work[a] \in Ended /\ ~settled[a] => current = a
    /\ settled[a] => work[a] \in Ended
    /\ a \in flushing => settled[a] /\ current # a
    /\ followups[a] > 0 => current = a \/ a \in flushing

(* What settle() captured covers the steering, and whatever hook it saw.    *)
ProviderInv ==
  \A a \in Activities :
    /\ adapter[a] => steers[a] > 0
    /\ settled[a] /\ "steering" \notin awaited[a] => steers[a] = 0
    /\ awaited[a] # {} => settled[a]
    /\ "cancellation" \in awaited[a] => hook[a] # "none"
    /\ hook[a] # "none" => aborted[a]
    /\ timer[a] => current = a
    /\ current # a /\ ~graced[a] =>
         steers[a] = 0 /\ ("cancellation" \in awaited[a] => hook[a] # "running")

(* The queue is in line: of two waiting submissions one is ahead.           *)
OrderInv ==
  \A a, b \in queued : a # b => a \in ahead[b] \/ b \in ahead[a]

ActivityInv ==
  /\ FieldsTypeOK /\ LifeInv /\ ProviderInv /\ OrderInv
  /\ NoStrandedWork /\ IdleIsAnnounced

-----------------------------------------------------------------------------

(* The initial state satisfies the invariant.                               *)
LEMMA InitActivityInv == Init => ActivityInv
<1> SUFFICES ASSUME Init PROVE ActivityInv
  OBVIOUS
<1>1. FieldsTypeOK
  BY DEF Init, FieldsTypeOK
<1>2. LifeInv /\ OrderInv /\ NoStrandedWork
  BY ActivityAssumption DEF Init, LifeInv, OrderInv, NoStrandedWork, Ended
<1>3. ProviderInv
  BY DEF Init, ProviderInv
<1>4. IdleIsAnnounced
  <2>1. isIdle
    BY DEF Init, isIdle
  <2> QED BY <2>1, Zenon DEF Init, IdleIsAnnounced
<1> QED BY <1>1, <1>2, <1>3, <1>4 DEF ActivityInv

(* The drain launches a waiting submission, or finds none.                  *)
LEMMA Launches ==
  ASSUME ActivityInv, LaunchNext
  PROVE  /\ current' \in Activities \cup {None}
         /\ current' = None <=> queued = {}
         /\ current' # None => /\ current' \in queued /\ work[current'] = "queued" /\ FirstInLine(current')
         /\ queued' = queued \ {current'}
         /\ ahead' \in [Activities -> SUBSET Activities]
         /\ \A a \in Activities : work'[a] = IF a = current' THEN "scheduled" ELSE work[a]
         /\ work' \in [Activities -> {"none", "queued", "dropped", "scheduled", "running"} \cup Ended]
         /\ \A a, b \in queued' : a \in ahead[b] => a \in ahead'[b]
<1> USE DEF ActivityInv, FieldsTypeOK
<1>1. CASE queued = {}
  BY <1>1, ActivityAssumption DEF LaunchNext
<1>2. CASE queued # {}
  <2>1. PICK a \in queued : FirstInLine(a) /\ Launch(a) /\ LeaveQueue({a})
    BY <1>2 DEF LaunchNext
  <2>2. a \in Activities /\ a # None
    BY <2>1, ActivityAssumption
  <2> QED BY <1>2, <2>1, <2>2 DEF Launch, LeaveQueue, LifeInv
<1> QED BY <1>1, <1>2

-----------------------------------------------------------------------------

(* The fields keep their types.                                             *)
LEMMA TypeStep == ActivityInv /\ [Next]_vars => FieldsTypeOK'
<1> SUFFICES ASSUME ActivityInv, [Next]_vars PROVE FieldsTypeOK'
  OBVIOUS
<1> USE DEF ActivityInv, FieldsTypeOK, Ended, ArmTimers, Abort,
            slotVars, workVars, cancelVars, steerVars, releaseVars
<1>1. ASSUME NEW a \in Activities, Start(a) \/ Queue(a) PROVE FieldsTypeOK'
  <2>1. ArmTimers({}) => timer' \in [Activities -> BOOLEAN]
    OBVIOUS
  <2>2. CASE Start(a)
    BY <2>1, <2>2 DEF Start, Launch
  <2>3. CASE Queue(a)
    BY <2>3 DEF Queue
  <2> QED BY <1>1, <2>2, <2>3
<1>2. CASE DrainJob
  <2>1. current' \in Activities \cup {None} /\ queued' \in SUBSET Activities
        /\ ahead' \in [Activities -> SUBSET Activities]
        /\ work' \in [Activities -> {"none", "queued", "dropped", "scheduled", "running"} \cup Ended]
    BY <1>2, Launches DEF DrainJob
  <2> QED BY <1>2, <2>1 DEF DrainJob
<1>3. ASSUME NEW a \in Activities, NEW how \in Ended, BeginWork(a) \/ WorkEnds(a, how) \/ Send(a)
      PROVE  FieldsTypeOK'
  BY <1>3 DEF BeginWork, WorkEnds, Send
<1>4. ASSUME NEW a \in Activities, Steer(a) \/ AdapterBegins(a) \/ AdapterEnds(a)
      PROVE  FieldsTypeOK'
  <2>1. CASE Steer(a)
    BY <2>1 DEF Steer
  <2>2. CASE AdapterBegins(a)
    <3>1. steers[a] - 1 \in Nat
      BY <2>2 DEF AdapterBegins
    <3> QED BY <2>2, <3>1 DEF AdapterBegins
  <2>3. CASE AdapterEnds(a)
    <3>1. steers[a] - 1 \in Nat
      BY <2>3 DEF AdapterEnds, ProviderInv
    <3> QED BY <2>3, <3>1 DEF AdapterEnds
  <2> QED BY <1>4, <2>1, <2>2, <2>3
<1>5. ASSUME NEW a \in Activities, Cancel(a) \/ TimerFires(a) \/ HookEnds(a)
      PROVE  FieldsTypeOK'
  BY <1>5, ZenonT(60) DEF Cancel, TimerFires, HookEnds
<1>6. ASSUME NEW m \in Messages, CancelMessage(m)
      PROVE  FieldsTypeOK'
  BY <1>6 DEF CancelMessage, LeaveQueue
<1>7. ASSUME NEW a \in Activities, SettleBegins(a) \/ FlushNext(a) \/ FlushEnds(a)
      PROVE  FieldsTypeOK'
  <2>1. CASE SettleBegins(a)
    BY <2>1 DEF SettleBegins
  <2>2. CASE FlushNext(a)
    <3>1. followups[a] - 1 \in Nat
      BY <2>2 DEF FlushNext
    <3> QED BY <2>2, <3>1 DEF FlushNext
  <2>3. CASE FlushEnds(a)
    BY <2>3 DEF FlushEnds
  <2> QED BY <1>7, <2>1, <2>2, <2>3
<1>8. ASSUME NEW a \in Activities, NEW expired \in BOOLEAN, ReleaseSlot(a, expired)
      PROVE  FieldsTypeOK'
  <2>1. current' \in Activities \cup {None} /\ queued' \in SUBSET Activities
        /\ ahead' \in [Activities -> SUBSET Activities]
        /\ work' \in [Activities -> {"none", "queued", "dropped", "scheduled", "running"} \cup Ended]
    BY <1>8, Launches DEF ReleaseSlot
  <2>2. (IF followups[a] = 0 THEN 0 ELSE followups[a] - 1) \in Nat
    OBVIOUS
  <2> QED BY <1>8, <2>1, <2>2 DEF ReleaseSlot
<1>9. CASE UNCHANGED vars
  BY <1>9 DEF vars
<1> QED BY <1>1, <1>2, <1>3, <1>4, <1>5, <1>6, <1>7, <1>8, <1>9 DEF Next, ActivityNext

(* Every job keeps what the fields say about a submission consistent.       *)
LEMMA LifeStep == ActivityInv /\ [Next]_vars => LifeInv'
<1> SUFFICES ASSUME ActivityInv, [Next]_vars PROVE LifeInv'
  OBVIOUS
<1> USE DEF ActivityInv, FieldsTypeOK, Ended, Begun, slotVars, workVars, cancelVars, steerVars, releaseVars
<1>1. ASSUME NEW a \in Activities, Start(a) PROVE LifeInv'
  BY <1>1, ActivityAssumption DEF Start, Launch, LifeInv
<1>2. ASSUME NEW a \in Activities, Queue(a) PROVE LifeInv'
  BY <1>2 DEF Queue, LifeInv
<1>3. CASE DrainJob
  <2>1. CASE current = None
    BY <1>3, <2>1, Launches, ActivityAssumption DEF DrainJob, LifeInv
  <2>2. CASE current # None
    BY <1>3, <2>2 DEF DrainJob, LifeInv
  <2> QED BY <2>1, <2>2
<1>4. ASSUME NEW a \in Activities, BeginWork(a) PROVE LifeInv'
  BY <1>4 DEF BeginWork, LifeInv
<1>5. ASSUME NEW a \in Activities, NEW how \in Ended, WorkEnds(a, how) PROVE LifeInv'
  BY <1>5 DEF WorkEnds, LifeInv
<1>6. ASSUME NEW a \in Activities, Send(a) PROVE LifeInv'
  <2>1. current = a
    BY <1>6 DEF Send, LifeInv
  <2> QED BY <1>6, <2>1 DEF Send, LifeInv
<1>7. ASSUME NEW m \in Messages, CancelMessage(m) PROVE LifeInv'
  BY <1>7 DEF CancelMessage, LeaveQueue, LifeInv
<1>8. ASSUME NEW a \in Activities, SettleBegins(a) PROVE LifeInv'
  BY <1>8 DEF SettleBegins, LifeInv
<1>9. ASSUME NEW a \in Activities, NEW expired \in BOOLEAN, ReleaseSlot(a, expired) PROVE LifeInv'
  <2> SUFFICES ASSUME NEW b \in Activities
               PROVE  /\ b \in queued' <=> work'[b] = "queued"
                      /\ work'[b] \in {"scheduled", "running"} => current' = b
                      /\ current' = b => work'[b] \in Begun
                      /\ work'[b] \in Ended /\ ~settled'[b] => current' = b
                      /\ settled'[b] => work'[b] \in Ended
                      /\ b \in flushing' => settled'[b] /\ current' # b
                      /\ followups'[b] > 0 => current' = b \/ b \in flushing'
    BY DEF LifeInv
  <2>1. /\ current = a /\ settled[a] /\ settled' = settled /\ flushing' = flushing \cup {a}
        /\ b # a => followups'[b] = followups[b]
    BY <1>9 DEF ReleaseSlot
  <2>2. /\ current' \in Activities \cup {None}
        /\ current' # None => current' \in queued /\ work[current'] = "queued"
        /\ queued' = queued \ {current'}
        /\ work'[b] = IF b = current' THEN "scheduled" ELSE work[b]
    BY <1>9, Launches DEF ReleaseSlot
  <2>3. work[a] \in Ended /\ b # None
    BY <2>1, ActivityAssumption DEF LifeInv
  <2>4. CASE b = a
    BY <2>1, <2>2, <2>3, <2>4 DEF LifeInv
  <2>5. CASE b # a
    BY <2>1, <2>2, <2>3, <2>5 DEF LifeInv
  <2> QED BY <2>4, <2>5
<1>10. ASSUME NEW a \in Activities, FlushNext(a) PROVE LifeInv'
  BY <1>10 DEF FlushNext, LifeInv
<1>11. ASSUME NEW a \in Activities, FlushEnds(a) PROVE LifeInv'
  BY <1>11 DEF FlushEnds, LifeInv
<1>12. ASSUME UNCHANGED <<current, flushing, queued, work, settled, followups>> PROVE LifeInv'
  BY <1>12 DEF LifeInv
<1> QED BY <1>1, <1>2, <1>3, <1>4, <1>5, <1>6, <1>7, <1>8, <1>9, <1>10, <1>11, <1>12
     DEF Next, ActivityNext, Steer, AdapterBegins, AdapterEnds, Cancel, TimerFires, HookEnds, vars

(* The queue stays in line, and queued work has a drain on its way.         *)
LEMMA QueueStep == ActivityInv /\ [Next]_vars => OrderInv' /\ NoStrandedWork'
<1> SUFFICES ASSUME ActivityInv, [Next]_vars PROVE OrderInv' /\ NoStrandedWork'
  OBVIOUS
<1> USE DEF ActivityInv, FieldsTypeOK, slotVars, workVars, cancelVars, steerVars, releaseVars
<1>1. ASSUME NEW a \in Activities, Start(a) PROVE OrderInv' /\ NoStrandedWork'
  BY <1>1, ActivityAssumption DEF Start, Launch, OrderInv, NoStrandedWork
<1>2. ASSUME NEW a \in Activities, Queue(a) PROVE OrderInv' /\ NoStrandedWork'
  <2>1. a \notin queued
    BY <1>2 DEF Queue, LifeInv
  <2>2. OrderInv'
    BY <1>2, <2>1 DEF Queue, OrderInv
  <2> QED BY <1>2, <2>2 DEF Queue, NoStrandedWork
<1>3. CASE DrainJob
  <2>1. CASE current = None
    BY <1>3, <2>1, Launches DEF DrainJob, OrderInv, NoStrandedWork
  <2>2. CASE current # None
    BY <1>3, <2>2 DEF DrainJob, OrderInv, NoStrandedWork
  <2> QED BY <2>1, <2>2
<1>4. ASSUME NEW m \in Messages, CancelMessage(m) PROVE OrderInv' /\ NoStrandedWork'
  BY <1>4 DEF CancelMessage, LeaveQueue, OrderInv, NoStrandedWork
<1>5. ASSUME NEW a \in Activities, NEW expired \in BOOLEAN, ReleaseSlot(a, expired)
      PROVE  OrderInv' /\ NoStrandedWork'
  BY <1>5, Launches DEF ReleaseSlot, OrderInv, NoStrandedWork
<1>6. ASSUME UNCHANGED <<current, queued, ahead, drains>> PROVE OrderInv' /\ NoStrandedWork'
  BY <1>6 DEF OrderInv, NoStrandedWork
<1> QED BY <1>1, <1>2, <1>3, <1>4, <1>5, <1>6
     DEF Next, ActivityNext, BeginWork, WorkEnds, Send, Steer, AdapterBegins, AdapterEnds, Cancel, TimerFires,
         HookEnds, SettleBegins, FlushNext, FlushEnds, vars

(* A job that announces nothing leaves the scheduler as idle as it was.     *)
LEMMA AnnounceStep == ActivityInv /\ [Next]_vars => IdleIsAnnounced'
<1> SUFFICES ASSUME ActivityInv, [Next]_vars PROVE IdleIsAnnounced'
  OBVIOUS
<1> USE DEF ActivityInv, slotVars, workVars, cancelVars, steerVars, releaseVars
<1>1. ASSUME stateChanged PROVE IdleIsAnnounced'
  BY <1>1 DEF stateChanged, IdleIsAnnounced
<1>2. ASSUME UNCHANGED <<idleSeen, current, flushing, queued>> PROVE IdleIsAnnounced'
  BY <1>2, Zenon DEF IdleIsAnnounced, isIdle
<1>3. ASSUME DrainJob, ~stateChanged
      PROVE  UNCHANGED <<idleSeen, current, flushing, queued>>
  <2>1. current' = current /\ UNCHANGED <<idleSeen, flushing>>
    BY <1>3 DEF DrainJob
  <2>2. queued' = queued
    <3>1. CASE current = None
      BY <1>3, <2>1, <3>1, Launches DEF DrainJob, LaunchNext
    <3>2. CASE current # None
      BY <1>3, <3>2 DEF DrainJob
    <3> QED BY <3>1, <3>2
  <2> QED BY <2>1, <2>2
<1>4. stateChanged \/ UNCHANGED <<idleSeen, current, flushing, queued>>
  BY <1>3, ZenonT(60) DEF Next, ActivityNext, Start, Queue, BeginWork, WorkEnds, Send, Steer, AdapterBegins, AdapterEnds,
              Cancel, TimerFires, Notify, CancelMessage, HookEnds, SettleBegins, ReleaseSlot, FlushNext,
              FlushEnds, vars
<1> QED BY <1>1, <1>2, <1>4

(* Steering, hooks and timers stay within what settle() waits for.          *)
LEMMA ProviderStep == ActivityInv /\ [Next]_vars => ProviderInv'
<1> SUFFICES ASSUME ActivityInv, [Next]_vars PROVE ProviderInv'
  OBVIOUS
<1> USE DEF ActivityInv, FieldsTypeOK, slotVars, workVars, cancelVars, steerVars, releaseVars
<1>1. ASSUME NEW a \in Activities, Start(a) PROVE ProviderInv'
  BY <1>1, ActivityAssumption DEF Start, Launch, ArmTimers, ProviderInv
<1>2. CASE DrainJob
  <2>1. CASE current = None
    BY <1>2, <2>1, Launches, ActivityAssumption DEF DrainJob, ArmTimers, ProviderInv
  <2>2. CASE current # None
    BY <1>2, <2>2 DEF DrainJob, ArmTimers, ProviderInv
  <2> QED BY <2>1, <2>2
<1>3. ASSUME NEW a \in Activities, Steer(a) PROVE ProviderInv'
  BY <1>3 DEF Steer, ProviderInv
<1>4. ASSUME NEW a \in Activities, AdapterBegins(a) PROVE ProviderInv'
  BY <1>4 DEF AdapterBegins, ProviderInv
<1>5. ASSUME NEW a \in Activities, AdapterEnds(a) PROVE ProviderInv'
  <2>1. steers[a] \in Nat /\ steers[a] > 0 /\ steers'[a] = steers[a] - 1 /\ ~adapter'[a]
    BY <1>5 DEF AdapterEnds, ProviderInv
  <2> QED BY <1>5, <2>1 DEF AdapterEnds, ProviderInv
<1>6. ASSUME NEW targets, Abort(targets), targets \subseteq {current} \cup flushing,
             UNCHANGED <<current, flushing, settled, steerVars, releaseVars>>,
             \A b \in Activities : timer'[b] => timer[b]
      PROVE  ProviderInv'
  <2>1. \A b \in Activities : hook[b] # "none" => aborted[b] /\ hook'[b] = hook[b]
    BY <1>6 DEF Abort, ProviderInv
  <2>2. \A b \in Activities : hook'[b] # "none" => aborted'[b]
    BY <1>6, <2>1 DEF Abort
  <2> QED BY <1>6, <2>1, <2>2 DEF ProviderInv
<1>7. ASSUME NEW a \in Activities, Cancel(a) \/ TimerFires(a) PROVE ProviderInv'
  <2>1. Abort({a}) /\ a \in {current} \cup flushing
    BY <1>7 DEF Cancel, TimerFires, ProviderInv
  <2>2. UNCHANGED <<current, flushing, settled, steerVars, releaseVars>>
    BY <1>7 DEF Cancel, TimerFires
  <2>3. \A b \in Activities : timer'[b] => timer[b]
    BY <1>7 DEF Cancel, TimerFires
  <2> QED BY <1>6, <2>1, <2>2, <2>3
<1>8. ASSUME NEW m \in Messages, CancelMessage(m) PROVE ProviderInv'
  <2>1. PICK targets : targets \subseteq {current} \cup flushing /\ Abort(targets)
    BY <1>8 DEF CancelMessage
  <2>2. UNCHANGED <<current, flushing, settled, steerVars, releaseVars, timer>>
    BY <1>8 DEF CancelMessage
  <2> QED BY <1>6, <2>1, <2>2
<1>9. ASSUME NEW a \in Activities, HookEnds(a) PROVE ProviderInv'
  BY <1>9 DEF HookEnds, ProviderInv
<1>10. ASSUME NEW a \in Activities, SettleBegins(a) PROVE ProviderInv'
  <2>1. /\ awaited' \in [Activities -> SUBSET {"steering", "cancellation"}]
        /\ "steering" \in awaited'[a] <=> steers[a] > 0
        /\ "cancellation" \in awaited'[a] <=> hook[a] = "running"
        /\ \A b \in Activities \ {a} : awaited'[b] = awaited[b]
    BY <1>10 DEF SettleBegins
  <2>2. /\ current = a /\ settled' = [settled EXCEPT ![a] = TRUE]
        /\ UNCHANGED <<current, cancelVars, steerVars, graced>>
    BY <1>10 DEF SettleBegins
  <2> QED BY <2>1, <2>2 DEF ProviderInv
<1>11. ASSUME NEW a \in Activities, NEW expired \in BOOLEAN, ReleaseSlot(a, expired)
       PROVE  ProviderInv'
  <2>1. /\ current = a /\ settled[a]
        /\ UNCHANGED <<settled, aborted, hook, steerVars, awaited>>
        /\ graced' = [graced EXCEPT ![a] = expired]
        /\ ~expired => ProvidersDone(a)
        /\ ArmTimers({a})
    BY <1>11 DEF ReleaseSlot
  <2>2. current' = None \/ current' \in queued
    BY <1>11, Launches DEF ReleaseSlot
  <2>3. current' # a
    BY <2>1, <2>2, ActivityAssumption DEF LifeInv, Ended
  <2>4. ~expired => steers[a] = 0 /\ ("cancellation" \in awaited[a] => hook[a] # "running")
    BY <2>1 DEF ProvidersDone, ProviderInv
  <2>5. \A b \in Activities : timer'[b] => current' = b
    BY <2>1 DEF ArmTimers, ProviderInv
  <2> QED BY <2>1, <2>3, <2>4, <2>5 DEF ProviderInv
<1>12. ASSUME UNCHANGED <<current, settled, cancelVars, steerVars, releaseVars>> PROVE ProviderInv'
  BY <1>12 DEF ProviderInv
<1> QED BY <1>1, <1>2, <1>3, <1>4, <1>5, <1>7, <1>8, <1>9, <1>10, <1>11, <1>12
     DEF Next, ActivityNext, Queue, BeginWork, WorkEnds, Send, FlushNext, FlushEnds, vars

-----------------------------------------------------------------------------

(* The invariant holds of every behaviour of the activity.                  *)
THEOREM ActivityInvariant == Spec => []ActivityInv
<1>1. Init => ActivityInv
  BY InitActivityInv
<1>2. ActivityInv /\ [Next]_vars => ActivityInv'
  BY TypeStep, LifeStep, ProviderStep, QueueStep, AnnounceStep DEF ActivityInv
<1> QED BY <1>1, <1>2, PTL DEF Spec

(* The scheduler's fields keep their types.                                 *)
THEOREM ActivityTypes == Spec => []ActivityTypeOK
<1>1. ActivityInv => ActivityTypeOK
  <2> SUFFICES ASSUME ActivityInv PROVE idleSeen \in BOOLEAN
    BY DEF ActivityInv, ActivityTypeOK
  <2>1. isIdle \in BOOLEAN
    BY DEF isIdle
  <2> QED BY <2>1, Zenon DEF ActivityInv, IdleIsAnnounced
<1> QED BY <1>1, ActivityInvariant, PTL

(* User work runs only in the slot, however it is cancelled or timed out.   *)
THEOREM WorkIsInSlot == Spec => []WorkHoldsSlot
<1>1. ActivityInv => WorkHoldsSlot
  BY DEF ActivityInv, LifeInv, WorkHoldsSlot
<1> QED BY <1>1, ActivityInvariant, PTL

(* Queued work with a free slot has a drain on its way.                     *)
THEOREM QueuedWorkIsDrained == Spec => []NoStrandedWork
<1>1. ActivityInv => NoStrandedWork
  BY DEF ActivityInv
<1> QED BY <1>1, ActivityInvariant, PTL

(* Every change of idleness is announced by stateChanged.                   *)
THEOREM IdlenessIsAnnounced == Spec => []IdleIsAnnounced
<1>1. ActivityInv => IdleIsAnnounced
  BY DEF ActivityInv
<1> QED BY <1>1, ActivityInvariant, PTL

(* An idle scheduler has no work, and handed every follow-up over.          *)
THEOREM IdleIsDone == Spec => []IdleMeansDone
<1>1. ActivityInv => IdleMeansDone
  <2> SUFFICES ASSUME ActivityInv, isIdle, NEW a \in Activities
               PROVE  followups[a] = 0 /\ work[a] \in {"none", "dropped"} \cup Ended
    BY DEF IdleMeansDone
  <2>1. current # a /\ a \notin flushing /\ a \notin queued
    BY ActivityAssumption DEF isIdle
  <2> QED BY <2>1 DEF ActivityInv, FieldsTypeOK, LifeInv
<1> QED BY <1>1, ActivityInvariant, PTL

(* The slot covers the adapter and every hook that had started when the     *)
(* work ended, unless the grace expired.                                    *)
THEOREM ProvidersAreWaitedFor == Spec => []ProviderHoldsSlot
<1>1. ActivityInv => ProviderHoldsSlot
  BY DEF ActivityInv, FieldsTypeOK, ProviderInv, ProviderHoldsSlot
<1> QED BY <1>1, ActivityInvariant, PTL

(* A provider hook starts at most once, and only from the slot.             *)
THEOREM HooksStartInSlot == Spec => HookStartsInSlot
<1> DEFINE Once == \A a \in Activities :
             /\ hook'[a] = "running" /\ hook[a] # "running" => hook[a] = "none" /\ current = a
             /\ hook[a] = "ended" => hook'[a] = "ended"
<1>1. ActivityInv /\ [Next]_vars => [Once]_vars
  <2> SUFFICES ASSUME ActivityInv, Next, NEW b \in Activities
               PROVE  /\ hook'[b] = "running" /\ hook[b] # "running" => hook[b] = "none" /\ current = b
                      /\ hook[b] = "ended" => hook'[b] = "ended"
    OBVIOUS
  <2> USE DEF ActivityInv, FieldsTypeOK, cancelVars
  <2>1. ASSUME NEW targets, Abort(targets), targets \subseteq {current} \cup flushing
        PROVE  /\ hook'[b] = "running" /\ hook[b] # "running" => hook[b] = "none" /\ current = b
               /\ hook[b] = "ended" => hook'[b] = "ended"
    BY <2>1 DEF Abort, ProviderInv
  <2>2. ASSUME NEW a \in Activities, Cancel(a) \/ TimerFires(a)
        PROVE  Abort({a}) /\ {a} \subseteq {current} \cup flushing
    BY <2>2 DEF Cancel, TimerFires, ProviderInv
  <2>3. ASSUME NEW m \in Messages, CancelMessage(m)
        PROVE  \E targets : Abort(targets) /\ targets \subseteq {current} \cup flushing
    BY <2>3 DEF CancelMessage
  <2>4. ASSUME NEW a \in Activities, HookEnds(a)
        PROVE  /\ hook'[b] = "running" => hook[b] = "running"
               /\ hook[b] = "ended" => hook'[b] = "ended"
    BY <2>4 DEF HookEnds
  <2> QED BY <2>1, <2>2, <2>3, <2>4
       DEF Next, ActivityNext, Start, Queue, DrainJob, BeginWork, WorkEnds, Send, Steer, AdapterBegins,
           AdapterEnds, SettleBegins, ReleaseSlot, FlushNext, FlushEnds
<1> QED BY <1>1, ActivityInvariant, PTL DEF Spec, HookStartsInSlot

(* Work takes the slot in priority order, and in order of submission within *)
(* a priority, whatever leaves the queue in between.                        *)
THEOREM LaunchesInOrder == Spec => LaunchOrder
<1> DEFINE Ordered == \A a, b \in Activities :
             work[a] = "queued" /\ work'[a] = "scheduled" /\ work[b] = "queued" /\ a # b =>
               IF a \in Priority THEN b \in Priority => a \in ahead[b]
               ELSE b \notin Priority /\ a \in ahead[b]
<1>1. ActivityInv /\ [Next]_vars => [Ordered]_vars
  <2> SUFFICES ASSUME ActivityInv, Next, NEW a \in Activities, NEW b \in Activities,
                      work[a] = "queued", work'[a] = "scheduled", work[b] = "queued", a # b
               PROVE  IF a \in Priority THEN b \in Priority => a \in ahead[b]
                      ELSE b \notin Priority /\ a \in ahead[b]
    OBVIOUS
  <2> USE DEF ActivityInv, FieldsTypeOK
  <2>1. LaunchNext
    <3>1. a \in queued /\ b \in queued
      BY DEF LifeInv
    <3>2. ASSUME NEW c \in Activities, Start(c) \/ Queue(c) PROVE FALSE
      BY <3>1, <3>2 DEF Start, Queue
    <3>3. ASSUME NEW c \in Activities, NEW how \in Ended, BeginWork(c) \/ WorkEnds(c, how) PROVE FALSE
      BY <3>3 DEF BeginWork, WorkEnds, Ended
    <3>4. ASSUME NEW c \in Activities,
                 \/ Send(c) \/ Steer(c) \/ AdapterBegins(c) \/ AdapterEnds(c)
                 \/ Cancel(c) \/ TimerFires(c) \/ HookEnds(c) \/ SettleBegins(c)
                 \/ FlushNext(c) \/ FlushEnds(c)
          PROVE  FALSE
      <4>1. work' = work
        BY <3>4 DEF Send, Steer, AdapterBegins, AdapterEnds, Cancel, TimerFires, HookEnds, SettleBegins,
                    FlushNext, FlushEnds, workVars
      <4> QED BY <4>1
    <3>5. ASSUME NEW m \in Messages, CancelMessage(m) PROVE FALSE
      BY <3>5 DEF CancelMessage
    <3>6. ASSUME NEW c \in Activities, NEW expired \in BOOLEAN, ReleaseSlot(c, expired) PROVE LaunchNext
      BY <3>6 DEF ReleaseSlot
    <3>7. CASE DrainJob
      <4>1. IF current = None THEN LaunchNext ELSE work' = work
        BY <3>7 DEF DrainJob
      <4> QED BY <4>1
    <3> QED BY <3>2, <3>3, <3>4, <3>5, <3>6, <3>7 DEF Next, ActivityNext, Ended
  <2>2. FirstInLine(a)
    <3>1. a = current' /\ a # None
      BY <2>1, Launches, ActivityAssumption
    <3> QED BY <2>1, <3>1, Launches
  <2>3. b \in ahead[a] \/ a \in ahead[b]
    BY DEF LifeInv, OrderInv
  <2>4. b \in queued
    BY DEF LifeInv
  <2> QED BY <2>2, <2>3, <2>4 DEF FirstInLine
<1> QED BY <1>1, ActivityInvariant, PTL DEF Spec, LaunchOrder

(* The slot is respected: user work and the providers it started run only   *)
(* in it, and queued work with a free slot has a drain on its way.          *)
THEOREM SlotIsKept == Spec => []SlotIsRespected
BY ActivityTypes, WorkIsInSlot, ProvidersAreWaitedFor, QueuedWorkIsDrained, PTL DEF SlotIsRespected

(* What quiescence reads of the activities is true, and its changes are     *)
(* told.                                                                    *)
THEOREM IdlenessIsTold == Spec => []IdlenessIsTrue
BY IdlenessIsAnnounced, IdleIsDone, PTL DEF IdlenessIsTrue

=============================================================================
