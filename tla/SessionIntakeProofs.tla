-------------------------- MODULE SessionIntakeProofs --------------------------
(***************************************************************************)
(* Theorems about the intake, for all sets of messages, recoveries and     *)
(* waiters.  The intake implements the mailbox, so the mailbox's theorems  *)
(* hold of it; IntakeInv adds that the controls are counted, that what     *)
(* waits in the mailbox was not cancelled, that a receiver of a message    *)
(* ran only with started(), and that settled receipts follow their         *)
(* deliveries.                                                             *)
(***************************************************************************)
EXTENDS SessionIntake, SequencesExt, SequenceTheorems, FiniteSetTheorems, TLAPS

-----------------------------------------------------------------------------
(* The mailbox, for every set of identities.  MailboxInv says that the      *)
(* queue is ordered by sequence and holds open entries that never ran; that *)
(* a result is open exactly while its entry waits or runs; and that         *)
(* `pending` counts the open entries and the settled ones whose settle() is *)
(* on its way.                                                              *)

OpenEntries == {id \in Ids : result[id] = "pending" \/ id \in settles}

QueueInv ==
  /\ \A i \in 1..Len(queue) : result[queue[i]] = "pending" /\ runs[queue[i]] = 0
  /\ \A i, j \in 1..Len(queue) : i < j => sequence[queue[i]] < sequence[queue[j]]

RunnerInv == running # None => result[running] # "none" /\ runs[running] = 1

SettlesInv == \A id \in settles : result[id] \in Settled

SequenceInv ==
  \A id \in Ids :
    /\ runs[id] <= 1
    /\ IF result[id] = "none" THEN sequence[id] = 0 /\ runs[id] = 0
       ELSE sequence[id] \in 1..Cardinality(Enqueued)

MailboxInv ==
  /\ MailboxTypeOK
  /\ QueueInv
  /\ RunnerInv
  /\ SettlesInv
  /\ SequenceInv
  /\ OpenIsWaitingOrRunning
  /\ NoStrandedEntry
  /\ PendingCountsOpen

-----------------------------------------------------------------------------

(* RemoveAt, which stands for the splice of one element: what is left, and  *)
(* where it is.                                                             *)
LEMMA RemoveAtProperties ==
  ASSUME NEW S, NEW s \in Seq(S), NEW i \in 1..Len(s)
  PROVE  /\ RemoveAt(s, i) \in Seq(S)
         /\ Len(RemoveAt(s, i)) = Len(s) - 1
         /\ \A j \in 1..Len(s) - 1 : RemoveAt(s, i)[j] = IF j < i THEN s[j] ELSE s[j + 1]
<1> DEFINE front == SubSeq(s, 1, i - 1)
           back  == SubSeq(s, i + 1, Len(s))
<1>1. Len(s) \in Nat /\ \A j \in 1..Len(s) : s[j] \in S
  BY LenProperties, ElementOfSeq
<1>2. /\ front \in Seq(S)
      /\ Len(front) = i - 1
      /\ \A j \in 1..i - 1 : front[j] = s[j]
  <2>1. \A j \in 1..i - 1 : s[j] \in S
    BY <1>1
  <2> QED BY <1>1, <2>1, SubSeqProperties
<1>3. /\ back \in Seq(S)
      /\ Len(back) = Len(s) - i
      /\ \A j \in 1..Len(s) - i : back[j] = s[i + j]
  <2>1. \A j \in i + 1..Len(s) : s[j] \in S
    BY <1>1
  <2> QED BY <1>1, <2>1, SubSeqProperties
<1>4. RemoveAt(s, i) = front \o back
  BY DEF RemoveAt
<1> HIDE DEF front, back
<1>5. /\ front \o back \in Seq(S)
      /\ Len(front \o back) = Len(front) + Len(back)
      /\ \A j \in 1..Len(front) + Len(back) :
           (front \o back)[j] = IF j <= Len(front) THEN front[j] ELSE back[j - Len(front)]
  BY <1>2, <1>3, ConcatProperties
<1>6. ASSUME NEW j \in 1..Len(s) - 1
      PROVE  (front \o back)[j] = IF j < i THEN s[j] ELSE s[j + 1]
  <2>1. CASE j < i
    <3>1. j \in 1..i - 1 /\ j \in 1..Len(front) + Len(back) /\ j <= Len(front)
      BY <1>1, <1>2, <1>3, <2>1
    <3> QED BY <1>2, <1>5, <2>1, <3>1
  <2>2. CASE ~(j < i)
    <3>1. /\ j - (i - 1) \in 1..Len(s) - i /\ j \in 1..Len(front) + Len(back)
          /\ ~(j <= Len(front)) /\ i + (j - (i - 1)) = j + 1
      BY <1>1, <1>2, <1>3, <2>2
    <3> QED BY <1>2, <1>3, <1>5, <2>2, <3>1
  <2> QED BY <2>1, <2>2
<1> QED BY <1>1, <1>2, <1>3, <1>4, <1>5, <1>6

(* Enqueued and the open entries are finite sets, so they can be counted.   *)
LEMMA Countable ==
  /\ IsFiniteSet(Enqueued) /\ Cardinality(Enqueued) \in Nat
  /\ IsFiniteSet(OpenEntries) /\ Cardinality(OpenEntries) \in Nat
<1>1. Enqueued \subseteq Ids /\ OpenEntries \subseteq Ids
  BY DEF Enqueued, OpenEntries
<1>2. IsFiniteSet(Ids)
  BY MailboxAssumption
<1> QED BY <1>1, <1>2, FS_Subset, FS_CardinalityType

(* The initial mailbox satisfies the invariant.                             *)
LEMMA InitInv == MailboxInit => MailboxInv
<1> SUFFICES ASSUME MailboxInit PROVE MailboxInv
  OBVIOUS
<1>1. MailboxTypeOK
  BY DEF MailboxInit, MailboxTypeOK, ResultState
<1>2. QueueInv /\ RunnerInv /\ SettlesInv /\ SequenceInv /\ NoStrandedEntry
  BY DEF MailboxInit, QueueInv, RunnerInv, SettlesInv, SequenceInv, NoStrandedEntry
<1>3. OpenIsWaitingOrRunning
  BY MailboxAssumption DEF MailboxInit, OpenIsWaitingOrRunning, Waiting
<1>4. PendingCountsOpen
  <2>1. {id \in Ids : result[id] = "pending" \/ id \in settles} = {}
    BY DEF MailboxInit
  <2> QED BY <2>1, FS_EmptySet DEF MailboxInit, PendingCountsOpen
<1> QED BY <1>1, <1>2, <1>3, <1>4 DEF MailboxInv

(* An enqueued entry waits; a cancelled one no longer does.                 *)
LEMMA EnqueueWaits ==
  ASSUME MailboxTypeOK, NEW id \in Ids, Enqueue(id)
  PROVE  Waiting' = Waiting \cup {id}
<1>1. /\ Len(queue) \in Nat /\ Len(queue') = Len(queue) + 1
      /\ \A i \in 1..Len(queue) : queue'[i] = queue[i]
      /\ queue'[Len(queue) + 1] = id
  BY AppendProperties, LenProperties DEF MailboxTypeOK, Enqueue
<1> QED BY <1>1 DEF Waiting

(* A cancel takes exactly its own entry out of the queue. *)
LEMMA CancelUnwaits ==
  ASSUME MailboxTypeOK, QueueInv, NEW id \in Ids, CancelQueued(id)
  PROVE  id \in Waiting /\ Waiting' = Waiting \ {id}
<1> PICK index \in 1..Len(queue) : queue[index] = id /\ queue' = RemoveAt(queue, index)
  BY DEF CancelQueued
<1>1. /\ Len(queue) \in Nat /\ Len(queue') = Len(queue) - 1
      /\ \A i \in 1..Len(queue) : queue[i] \in Ids
      /\ \A j \in 1..Len(queue') : queue'[j] = IF j < index THEN queue[j] ELSE queue[j + 1]
  BY RemoveAtProperties, LenProperties, ElementOfSeq DEF MailboxTypeOK
<1>2. ASSUME NEW i \in 1..Len(queue), i # index
      PROVE  queue[i] # id
  <2>1. sequence[queue[i]] \in Nat /\ sequence[id] \in Nat
    BY <1>1 DEF MailboxTypeOK
  <2>2. sequence[queue[i]] < sequence[id] \/ sequence[id] < sequence[queue[i]]
    BY <1>1, <1>2 DEF QueueInv
  <2> QED BY <2>1, <2>2
<1>3. ASSUME NEW i \in 1..Len(queue), i # index
      PROVE  \E j \in 1..Len(queue') : queue'[j] = queue[i]
  <2>1. CASE i < index
    BY <1>1, <2>1
  <2>2. CASE i > index
    <3>1. i - 1 \in 1..Len(queue') /\ ~(i - 1 < index) /\ (i - 1) + 1 = i
      BY <1>1, <2>2
    <3>2. queue'[i - 1] = queue[(i - 1) + 1]
      BY <1>1, <3>1
    <3> QED BY <3>1, <3>2
  <2> QED BY <1>3, <2>1, <2>2, <1>1
<1>4. \A j \in 1..Len(queue') : \E i \in 1..Len(queue) : i # index /\ queue'[j] = queue[i]
  BY <1>1
<1>5. ASSUME NEW x PROVE x \in Waiting' <=> x \in Waiting \ {id}
  <2>1. x \in Waiting' => x \in Waiting \ {id}
    BY <1>2, <1>4, SMTT(30) DEF Waiting
  <2>2. x \in Waiting \ {id} => x \in Waiting'
    BY <1>3 DEF Waiting
  <2> QED BY <2>1, <2>2
<1> QED BY <1>5 DEF Waiting

(* The runner takes the head, which waited, was open and never ran.         *)
LEMMA StartUnwaits ==
  ASSUME MailboxTypeOK, QueueInv, StartNext, queue # <<>>
  PROVE  /\ running' \in Waiting /\ Waiting' = Waiting \ {running'}
         /\ running' \in Ids /\ result[running'] = "pending" /\ runs[running'] = 0
         /\ runs' = [runs EXCEPT ![running'] = 1]
<1>1. /\ running' = Head(queue) /\ queue' = Tail(queue) /\ runs' = [runs EXCEPT ![running'] = @ + 1]
      /\ queue \in Seq(Ids)
  BY DEF StartNext, MailboxTypeOK
<1>2. Len(queue) \in Nat \ {0} /\ \A i \in 1..Len(queue) : queue[i] \in Ids
  BY <1>1, EmptySeq, LenProperties, ElementOfSeq
<1>3. running' = queue[1]
  BY <1>1
<1>4. /\ Len(queue') = Len(queue) - 1
      /\ \A j \in 1..Len(queue') : queue'[j] = queue[j + 1]
  BY <1>1, HeadTailProperties
<1>5. running' \in Ids /\ result[running'] = "pending" /\ runs[running'] = 0
  BY <1>2, <1>3 DEF QueueInv
<1>6. ASSUME NEW i \in 2..Len(queue)
      PROVE  queue[i] # running'
  <2>1. sequence[queue[i]] \in Nat /\ sequence[queue[1]] \in Nat
    BY <1>2 DEF MailboxTypeOK
  <2>2. sequence[queue[1]] < sequence[queue[i]]
    BY <1>2 DEF QueueInv
  <2> QED BY <1>3, <2>1, <2>2
<1>7. \A i \in 2..Len(queue) : i - 1 \in 1..Len(queue') /\ queue'[i - 1] = queue[i]
  BY <1>2, <1>4
<1>8. \A j \in 1..Len(queue') : j + 1 \in 2..Len(queue) /\ queue'[j] = queue[j + 1]
  BY <1>2, <1>4
<1>9. ASSUME NEW x PROVE x \in Waiting' <=> x \in Waiting \ {running'}
  <2>1. x \in Waiting' => x \in Waiting \ {running'}
    BY <1>2, <1>6, <1>8 DEF Waiting
  <2>2. x \in Waiting \ {running'} => x \in Waiting'
    <3>1. \A i \in 1..Len(queue) : i = 1 \/ i \in 2..Len(queue)
      BY <1>2
    <3> QED BY <1>3, <1>7, <3>1 DEF Waiting
  <2> QED BY <2>1, <2>2
<1>10. running' \in Waiting
  BY <1>2, <1>3 DEF Waiting
<1>11. runs' = [runs EXCEPT ![running'] = 1]
  BY <1>1, <1>5 DEF MailboxTypeOK
<1> QED BY <1>5, <1>9, <1>10, <1>11

(* A new entry joins the queue behind the others and has a drain on its way.*)
LEMMA EnqueueInv ==
  ASSUME MailboxInv, NEW id \in Ids, Enqueue(id)
  PROVE  MailboxInv'
<1> USE DEF MailboxInv, Enqueue
<1>1. /\ queue \in Seq(Ids) /\ queue' \in Seq(Ids)
      /\ Len(queue) \in Nat /\ Len(queue') = Len(queue) + 1
      /\ \A i \in 1..Len(queue) : queue'[i] = queue[i] /\ queue[i] \in Ids
      /\ queue'[Len(queue) + 1] = id
  BY AppendProperties, LenProperties, ElementOfSeq DEF MailboxTypeOK
<1>2. Cardinality(Enqueued) \in Nat /\ Cardinality(Enqueued') = Cardinality(Enqueued) + 1
  <2>1. Enqueued' = Enqueued \cup {id} /\ id \notin Enqueued
    BY DEF Enqueued, MailboxTypeOK
  <2> QED BY <2>1, Countable, FS_AddElement
<1>3. MailboxTypeOK'
  BY <1>1, <1>2, SMTT(30) DEF MailboxTypeOK, ResultState
<1>4. QueueInv'
  <2>1. \A i \in 1..Len(queue) : queue[i] # id /\ sequence[queue[i]] \in 1..Cardinality(Enqueued)
    BY <1>1 DEF QueueInv, SequenceInv
  <2>2. \A i \in 1..Len(queue') : result'[queue'[i]] = "pending" /\ runs'[queue'[i]] = 0
    BY <1>1, <2>1 DEF QueueInv, SequenceInv, MailboxTypeOK
  <2>3. ASSUME NEW i \in 1..Len(queue'), NEW j \in 1..Len(queue'), i < j
        PROVE  sequence'[queue'[i]] < sequence'[queue'[j]]
    <3>1. i \in 1..Len(queue) /\ sequence'[queue'[i]] = sequence[queue[i]]
      BY <1>1, <2>1, <2>3, SMTT(30) DEF MailboxTypeOK
    <3>2. CASE j = Len(queue) + 1
      BY <1>1, <1>2, <2>1, <3>1, <3>2, SMTT(30) DEF MailboxTypeOK
    <3>3. CASE j # Len(queue) + 1
      <4>1. j \in 1..Len(queue) /\ sequence'[queue'[j]] = sequence[queue[j]]
        BY <1>1, <2>1, <3>3 DEF MailboxTypeOK
      <4> QED BY <2>3, <3>1, <4>1 DEF QueueInv
    <3> QED BY <3>2, <3>3
  <2> QED BY <2>2, <2>3 DEF QueueInv
<1>5. RunnerInv' /\ SettlesInv'
  BY DEF RunnerInv, SettlesInv, MailboxTypeOK, Settled
<1>6. SequenceInv'
  <2> SUFFICES ASSUME NEW other \in Ids
               PROVE  /\ runs'[other] <= 1
                      /\ IF result'[other] = "none" THEN sequence'[other] = 0 /\ runs'[other] = 0
                         ELSE sequence'[other] \in 1..Cardinality(Enqueued')
    BY DEF SequenceInv, Enqueued
  <2>1. CASE other = id
    BY <1>2, <2>1 DEF SequenceInv, MailboxTypeOK
  <2>2. CASE other # id
    <3>1. result'[other] = result[other] /\ sequence'[other] = sequence[other] /\ runs'[other] = runs[other]
      BY <2>2 DEF MailboxTypeOK
    <3> QED BY <1>2, <3>1 DEF SequenceInv
  <2> QED BY <2>1, <2>2
<1>7. OpenIsWaitingOrRunning'
  <2>1. Waiting' = Waiting \cup {id}
    BY EnqueueWaits
  <2>2. running # id
    BY MailboxAssumption DEF RunnerInv, MailboxTypeOK
  <2> QED BY <2>1, <2>2 DEF OpenIsWaitingOrRunning, MailboxTypeOK, Settled
<1>8. NoStrandedEntry'
  BY DEF NoStrandedEntry, MailboxTypeOK
<1>9. PendingCountsOpen'
  <2>1. OpenEntries' = OpenEntries \cup {id} /\ id \notin OpenEntries
    BY DEF OpenEntries, SettlesInv, Settled, MailboxTypeOK
  <2>2. Cardinality(OpenEntries') = Cardinality(OpenEntries) + 1
    BY <2>1, Countable, FS_AddElement
  <2> QED BY <2>2 DEF PendingCountsOpen, OpenEntries
<1> QED BY <1>3, <1>4, <1>5, <1>6, <1>7, <1>8, <1>9

(* A cancelled entry leaves the queue and its result rejects.               *)
LEMMA CancelInv ==
  ASSUME MailboxInv, NEW id \in Ids, CancelQueued(id)
  PROVE  MailboxInv'
<1> PICK index \in 1..Len(queue) :
      /\ queue[index] = id
      /\ queue' = RemoveAt(queue, index)
      /\ result' = [result EXCEPT ![id] = "rejected"]
      /\ settles' = settles \cup {id}
      /\ UNCHANGED <<running, pending, drains, sequence, runs>>
  BY DEF CancelQueued
<1> USE DEF MailboxInv
<1>1. /\ queue \in Seq(Ids) /\ queue' \in Seq(Ids)
      /\ Len(queue) \in Nat /\ Len(queue') = Len(queue) - 1
      /\ \A i \in 1..Len(queue) : queue[i] \in Ids
      /\ \A j \in 1..Len(queue') : queue'[j] = IF j < index THEN queue[j] ELSE queue[j + 1]
  BY RemoveAtProperties, LenProperties, ElementOfSeq DEF MailboxTypeOK
<1>2. \A i, j \in 1..Len(queue) : queue[i] = queue[j] => i = j
  <2> SUFFICES ASSUME NEW i \in 1..Len(queue), NEW j \in 1..Len(queue), queue[i] = queue[j]
               PROVE  ~(i < j)
    OBVIOUS
  <2> QED BY <1>1 DEF QueueInv, MailboxTypeOK
<1>3. /\ result[id] = "pending" /\ runs[id] = 0 /\ running # id
      /\ result'[id] = "rejected"
      /\ \A other \in Ids \ {id} : result'[other] = result[other]
  <2>1. result[id] = "pending" /\ runs[id] = 0
    BY DEF QueueInv
  <2>2. running # id
    BY <2>1, MailboxAssumption DEF RunnerInv
  <2> QED BY <2>1, <2>2 DEF MailboxTypeOK
<1>4. Enqueued' = Enqueued
  BY <1>3 DEF Enqueued
<1>5. MailboxTypeOK'
  BY <1>1 DEF MailboxTypeOK, ResultState, Settled
<1>6. QueueInv'
  <2>1. \A j \in 1..Len(queue') : \E i \in 1..Len(queue) :
          i = (IF j < index THEN j ELSE j + 1) /\ i # index /\ queue'[j] = queue[i]
    BY <1>1
  <2>2. \A j \in 1..Len(queue') : result'[queue'[j]] = "pending" /\ runs'[queue'[j]] = 0
    BY <1>1, <1>2, <1>3, <2>1 DEF QueueInv
  <2>3. ASSUME NEW i \in 1..Len(queue'), NEW j \in 1..Len(queue'), i < j
        PROVE  sequence'[queue'[i]] < sequence'[queue'[j]]
    <3>1. PICK k \in 1..Len(queue) : k = (IF i < index THEN i ELSE i + 1) /\ queue'[i] = queue[k]
      BY <2>1
    <3>2. PICK l \in 1..Len(queue) : l = (IF j < index THEN j ELSE j + 1) /\ queue'[j] = queue[l]
      BY <2>1
    <3>3. k < l
      BY <1>1, <2>3, <3>1, <3>2
    <3> QED BY <3>1, <3>2, <3>3 DEF QueueInv
  <2> QED BY <2>2, <2>3 DEF QueueInv
<1>7. RunnerInv' /\ SettlesInv'
  BY <1>3 DEF RunnerInv, SettlesInv, MailboxTypeOK, Settled
<1>8. SequenceInv'
  BY <1>3, <1>4 DEF SequenceInv
<1>9. OpenIsWaitingOrRunning'
  <2>1. Waiting' = Waiting \ {id}
    BY CancelUnwaits
  <2> QED BY <1>3, <2>1 DEF OpenIsWaitingOrRunning, Settled
<1>10. NoStrandedEntry'
  BY <1>1 DEF NoStrandedEntry
<1>11. PendingCountsOpen'
  <2>1. OpenEntries' = OpenEntries
    BY <1>3 DEF OpenEntries
  <2> QED BY <2>1 DEF PendingCountsOpen, OpenEntries
<1> QED BY <1>5, <1>6, <1>7, <1>8, <1>9, <1>10, <1>11

(* The runner takes the head of the queue, or there is none.                *)
LEMMA StartInv ==
  ASSUME MailboxInv, StartNext,
         running = None \/ result[running] \in Settled,
         UNCHANGED <<result, pending, settles, sequence>>, drains' \in Nat
  PROVE  MailboxInv'
<1> USE DEF MailboxInv
<1>1. Enqueued' = Enqueued /\ OpenEntries' = OpenEntries
  BY DEF Enqueued, OpenEntries
<1>2. SettlesInv' /\ PendingCountsOpen'
  BY <1>1 DEF SettlesInv, PendingCountsOpen, OpenEntries
<1>3. CASE queue = <<>>
  <2>1. running' = None /\ queue' = queue /\ runs' = runs
    BY <1>3 DEF StartNext
  <2>2. MailboxTypeOK' /\ QueueInv' /\ RunnerInv' /\ SequenceInv' /\ NoStrandedEntry'
    BY <1>1, <1>3, <2>1 DEF MailboxTypeOK, QueueInv, RunnerInv, SequenceInv, NoStrandedEntry
  <2>3. OpenIsWaitingOrRunning'
    <3>1. Waiting' = Waiting
      BY <2>1 DEF Waiting
    <3> QED BY <2>1, <3>1, MailboxAssumption DEF OpenIsWaitingOrRunning, Settled
  <2> QED BY <1>2, <2>2, <2>3
<1>4. CASE queue # <<>>
  <2> DEFINE head == Head(queue)
  <2>1. /\ running' = head /\ queue' = Tail(queue) /\ runs' = [runs EXCEPT ![head] = @ + 1]
        /\ queue \in Seq(Ids) /\ queue' \in Seq(Ids) /\ Len(queue) \in Nat \ {0}
        /\ Len(queue') = Len(queue) - 1 /\ head \in Ids /\ head = queue[1]
        /\ \A i \in 1..Len(queue) : queue[i] \in Ids
        /\ \A j \in 1..Len(queue') : queue'[j] = queue[j + 1]
    <3>1. queue \in Seq(Ids) /\ running' = head /\ queue' = Tail(queue) /\ runs' = [runs EXCEPT ![head] = @ + 1]
      BY <1>4 DEF StartNext, MailboxTypeOK
    <3>2. Len(queue) \in Nat \ {0} /\ \A i \in 1..Len(queue) : queue[i] \in Ids
      BY <1>4, <3>1, EmptySeq, LenProperties, ElementOfSeq
    <3>3. head = queue[1]
      BY <1>4, <3>1
    <3>4. /\ head \in Ids /\ Tail(queue) \in Seq(Ids) /\ Len(Tail(queue)) = Len(queue) - 1
          /\ \A j \in 1..Len(Tail(queue)) : Tail(queue)[j] = queue[j + 1]
      BY <1>4, <3>1, HeadTailProperties
    <3> QED BY <3>1, <3>2, <3>3, <3>4
  <2> HIDE DEF head
  <2>2. result[head] = "pending" /\ runs[head] = 0 /\ head # None
    BY <2>1, MailboxAssumption DEF QueueInv
  <2>3. \A i \in 2..Len(queue) : queue[i] # head /\ sequence[head] < sequence[queue[i]]
    BY <2>1 DEF QueueInv, MailboxTypeOK
  <2>4. MailboxTypeOK'
    BY <2>1 DEF MailboxTypeOK
  <2>5. QueueInv'
    <3>1. \A j \in 1..Len(queue') : j + 1 \in 2..Len(queue) /\ queue'[j] # head
      BY <2>1, <2>3
    <3> QED BY <2>1, <3>1 DEF QueueInv, MailboxTypeOK
  <2>6. RunnerInv' /\ NoStrandedEntry'
    BY <2>1, <2>2 DEF RunnerInv, NoStrandedEntry, MailboxTypeOK
  <2>7. SequenceInv'
    BY <1>1, <2>1, <2>2 DEF SequenceInv, MailboxTypeOK
  <2>8. OpenIsWaitingOrRunning'
    <3>1. Waiting' = Waiting \ {head}
      BY <1>4, <2>1, StartUnwaits
    <3>2. head \in Waiting
      BY <2>1 DEF Waiting
    <3> QED BY <2>1, <2>2, <3>1, <3>2, MailboxAssumption DEF OpenIsWaitingOrRunning, Settled
  <2> QED BY <1>2, <2>4, <2>5, <2>6, <2>7, <2>8
<1> QED BY <1>3, <1>4

(* The running entry settles: nothing but its result changes.               *)
LEMMA ReceiverSettlesInv ==
  ASSUME MailboxInv, NEW outcome \in Settled, ReceiverSettles(outcome)
  PROVE  MailboxInv'
<1> USE DEF MailboxInv, ReceiverSettles
<1>1. running \in Ids /\ result[running] = "pending" /\ outcome # "none" /\ outcome # "pending"
  BY DEF MailboxTypeOK, Settled
<1>2. /\ result'[running] = outcome
      /\ \A other \in Ids \ {running} : result'[other] = result[other]
      /\ \A i \in 1..Len(queue) : queue[i] \in Ids /\ queue[i] # running
  BY <1>1, ElementOfSeq DEF MailboxTypeOK, QueueInv, RunnerInv
<1>3. Enqueued' = Enqueued /\ OpenEntries' = OpenEntries /\ Waiting' = Waiting
  BY <1>1, <1>2 DEF Enqueued, OpenEntries, Waiting
<1>4. MailboxTypeOK'
  BY <1>1 DEF MailboxTypeOK, ResultState
<1>5. QueueInv' /\ RunnerInv' /\ SettlesInv' /\ NoStrandedEntry'
  BY <1>1, <1>2 DEF QueueInv, RunnerInv, SettlesInv, NoStrandedEntry, MailboxTypeOK
<1>6. SequenceInv' /\ OpenIsWaitingOrRunning' /\ PendingCountsOpen'
  <2>1. SequenceInv'
    BY <1>1, <1>2, <1>3 DEF SequenceInv
  <2>2. running \notin Waiting
    BY <1>2 DEF Waiting
  <2>3. OpenIsWaitingOrRunning'
    BY <1>1, <1>2, <1>3, <2>2 DEF OpenIsWaitingOrRunning
  <2>4. PendingCountsOpen'
    BY <1>3 DEF PendingCountsOpen, OpenEntries
  <2> QED BY <2>1, <2>3, <2>4
<1> QED BY <1>4, <1>5, <1>6

(* settle() takes one settled entry out of the count.                       *)
LEMMA SettleInv ==
  ASSUME MailboxInv, NEW id \in Ids, Settle(id)
  PROVE  MailboxInv'
<1> USE DEF MailboxInv, Settle
<1>1. OpenEntries' = OpenEntries \ {id} /\ id \in OpenEntries
  BY DEF OpenEntries, SettlesInv, Settled
<1>2. Cardinality(OpenEntries') = Cardinality(OpenEntries) - 1 /\ Cardinality(OpenEntries') \in Nat
  <2>1. IsFiniteSet(OpenEntries') /\ Cardinality(OpenEntries') = Cardinality(OpenEntries) - 1
    BY <1>1, Countable, FS_RemoveElement
  <2> QED BY <2>1, FS_CardinalityType
<1>3. pending' = Cardinality(OpenEntries') /\ pending' \in Nat
  BY <1>2 DEF PendingCountsOpen, OpenEntries
<1>4. MailboxTypeOK' /\ PendingCountsOpen'
  BY <1>3 DEF MailboxTypeOK, PendingCountsOpen, OpenEntries
<1>5. Enqueued' = Enqueued /\ Waiting' = Waiting
  BY DEF Enqueued, Waiting
<1>6. QueueInv' /\ RunnerInv' /\ SettlesInv' /\ SequenceInv' /\ OpenIsWaitingOrRunning' /\ NoStrandedEntry'
  BY <1>5 DEF QueueInv, RunnerInv, SettlesInv, SequenceInv, OpenIsWaitingOrRunning, NoStrandedEntry
<1> QED BY <1>4, <1>6

(* Every step of the mailbox keeps the invariant.                           *)
LEMMA StepInv == MailboxInv /\ [MailboxNext]_mailboxVars => MailboxInv'
<1> SUFFICES ASSUME MailboxInv, [MailboxNext]_mailboxVars PROVE MailboxInv'
  OBVIOUS
<1>1. ASSUME NEW id \in Ids, Enqueue(id) PROVE MailboxInv'
  BY <1>1, EnqueueInv
<1>2. ASSUME NEW id \in Ids, CancelQueued(id) PROVE MailboxInv'
  BY <1>2, CancelInv
<1>3. ASSUME NEW id \in Ids, Settle(id) PROVE MailboxInv'
  BY <1>3, SettleInv
<1>4. ASSUME NEW outcome \in Settled, ReceiverSettles(outcome) PROVE MailboxInv'
  BY <1>4, ReceiverSettlesInv
<1>5. CASE DrainJob
  <2>1. drains' \in Nat
    BY <1>5 DEF DrainJob, MailboxInv, MailboxTypeOK
  <2>2. CASE running = None
    BY <1>5, <2>1, <2>2, StartInv DEF DrainJob
  <2>3. CASE running # None
    <3>1. UNCHANGED <<result, queue, running, pending, settles, sequence, runs>>
      BY <1>5, <2>3 DEF DrainJob
    <3> QED BY <2>1, <2>3, <3>1
        DEF MailboxInv, MailboxTypeOK, QueueInv, RunnerInv, SettlesInv, SequenceInv,
            OpenIsWaitingOrRunning, NoStrandedEntry, PendingCountsOpen, Enqueued, Waiting
  <2> QED BY <2>2, <2>3
<1>6. CASE Release
  BY <1>6, StartInv DEF Release, MailboxInv, MailboxTypeOK
<1>7. CASE UNCHANGED mailboxVars
  BY <1>7 DEF mailboxVars, MailboxInv, MailboxTypeOK, QueueInv, RunnerInv, SettlesInv, SequenceInv,
              OpenIsWaitingOrRunning, NoStrandedEntry, PendingCountsOpen, Enqueued, Waiting
<1> QED BY <1>1, <1>2, <1>3, <1>4, <1>5, <1>6, <1>7 DEF MailboxNext

-----------------------------------------------------------------------------

(* The invariant holds of every behaviour of the mailbox.                   *)
THEOREM MailboxInvariant == MailboxSpec => []MailboxInv
<1>1. MailboxInit => MailboxInv
  BY InitInv
<1>2. MailboxInv /\ [MailboxNext]_mailboxVars => MailboxInv'
  BY StepInv
<1> QED BY <1>1, <1>2, PTL DEF MailboxSpec

(* The fields of the mailbox keep their types; `pending` is never negative. *)
THEOREM MailboxTypes == MailboxSpec => []MailboxTypeOK
<1>1. MailboxInv => MailboxTypeOK
  BY DEF MailboxInv
<1> QED BY <1>1, MailboxInvariant, PTL

(* drain and the finally of the runner never leave an entry in the queue    *)
(* with nobody to start it.                                                 *)
THEOREM NothingStranded == MailboxSpec => []NoStrandedEntry
<1>1. MailboxInv => NoStrandedEntry
  BY DEF MailboxInv
<1> QED BY <1>1, MailboxInvariant, PTL

(* isIdle is right: `pending` is the number of open entries.                *)
THEOREM PendingIsExact == MailboxSpec => []PendingCountsOpen
<1>1. MailboxInv => PendingCountsOpen
  BY DEF MailboxInv
<1> QED BY <1>1, MailboxInvariant, PTL

(* An open entry is waiting or running, so its promise still has somebody   *)
(* to settle it.                                                            *)
THEOREM OpenEntriesAreHeld == MailboxSpec => []OpenIsWaitingOrRunning
<1>1. MailboxInv => OpenIsWaitingOrRunning
  BY DEF MailboxInv
<1> QED BY <1>1, MailboxInvariant, PTL

(* Deliveries are deduplicated: a receiver runs at most once.               *)
THEOREM ReceiversRunOnce == MailboxSpec => []InvokedAtMostOnce
<1>1. MailboxInv => InvokedAtMostOnce
  <2> SUFFICES ASSUME MailboxInv, NEW id \in Ids
               PROVE  runs[id] <= 1 /\ (runs[id] = 1 => id \notin Waiting)
    BY DEF InvokedAtMostOnce
  <2> QED BY DEF MailboxInv, SequenceInv, QueueInv, Waiting
<1> QED BY <1>1, MailboxInvariant, PTL

(* Intake is first in first out: when an entry starts, every entry enqueued *)
(* before it has settled, by running or by cancellation.                    *)
THEOREM FirstInFirstOut == MailboxSpec => StartsInOrder
<1> DEFINE Ordered == \A id \in Ids : runs'[id] > runs[id] =>
             \A other \in Ids : sequence[other] \in 1..(sequence[id] - 1) => result[other] \in Settled
<1>1. MailboxInv /\ [MailboxNext]_mailboxVars => [Ordered]_mailboxVars
  <2> SUFFICES ASSUME MailboxInv, MailboxNext, NEW id \in Ids, runs'[id] > runs[id],
                      NEW other \in Ids, sequence[other] \in 1..(sequence[id] - 1)
               PROVE  result[other] \in Settled
    BY DEF mailboxVars
  <2>1. StartNext /\ queue # <<>> /\ (running = None \/ result[running] \in Settled)
    <3>1. runs[id] \in Nat
      BY DEF MailboxInv, MailboxTypeOK
    <3>2. runs' # runs
      BY <3>1
    <3> QED BY <3>2 DEF MailboxNext, Enqueue, CancelQueued, Settle, ReceiverSettles, DrainJob, Release, StartNext
  <2>2. id = queue[1]
    <3>1. runs' = [runs EXCEPT ![Head(queue)] = @ + 1]
      BY <2>1 DEF StartNext
    <3>2. id = Head(queue)
      BY <3>1 DEF MailboxInv, MailboxTypeOK
    <3> QED BY <2>1, <3>2 DEF MailboxInv, MailboxTypeOK
  <2>3. other \notin Waiting
    <3> SUFFICES ASSUME NEW i \in 1..Len(queue), other = queue[i] PROVE FALSE
      BY DEF Waiting
    <3>1. Len(queue) \in Nat /\ sequence[id] \in Nat /\ sequence[other] \in Nat
      BY LenProperties DEF MailboxInv, MailboxTypeOK
    <3>2. CASE i = 1
      BY <2>2, <3>1, <3>2
    <3>3. CASE i # 1
      BY <2>2, <3>1, <3>3 DEF MailboxInv, QueueInv
    <3> QED BY <3>2, <3>3
  <2>4. result[other] # "none"
    BY DEF MailboxInv, SequenceInv, MailboxTypeOK
  <2>5. result[other] # "pending"
    BY <2>1, <2>3, MailboxAssumption DEF MailboxInv, OpenIsWaitingOrRunning, Settled
  <2> QED BY <2>4, <2>5 DEF MailboxInv, MailboxTypeOK, ResultState
<1> QED BY <1>1, MailboxInvariant, PTL DEF MailboxSpec, StartsInOrder

(* A settled result is settled for good, and its receiver never starts.     *)
THEOREM SettlementIsFinal == MailboxSpec => SettledIsFinal
<1> DEFINE Final == \A id \in Ids : result[id] \in Settled =>
             result'[id] = result[id] /\ runs'[id] = runs[id]
<1>1. MailboxInv /\ [MailboxNext]_mailboxVars => [Final]_mailboxVars
  <2> SUFFICES ASSUME MailboxInv, MailboxNext, NEW id \in Ids, result[id] \in Settled
               PROVE  result'[id] = result[id] /\ runs'[id] = runs[id]
    BY DEF mailboxVars
  <2> USE DEF MailboxInv, MailboxTypeOK, Settled
  <2>1. ASSUME NEW other \in Ids, Enqueue(other) \/ CancelQueued(other) \/ Settle(other)
        PROVE  result'[id] = result[id] /\ runs'[id] = runs[id]
    BY <2>1 DEF Enqueue, CancelQueued, Settle, QueueInv
  <2>2. ASSUME NEW outcome \in Settled, ReceiverSettles(outcome)
        PROVE  result'[id] = result[id] /\ runs'[id] = runs[id]
    BY <2>2 DEF ReceiverSettles
  <2>3. ASSUME StartNext, result' = result
        PROVE  result'[id] = result[id] /\ runs'[id] = runs[id]
    <3>1. CASE queue = <<>>
      BY <2>3, <3>1 DEF StartNext
    <3>2. CASE queue # <<>>
      <4>1. result[Head(queue)] = "pending"
        BY <3>2, LenProperties, EmptySeq DEF QueueInv
      <4> QED BY <2>3, <3>2, <4>1 DEF StartNext
    <3> QED BY <3>1, <3>2
  <2> QED BY <2>1, <2>2, <2>3 DEF MailboxNext, DrainJob, Release
<1> QED BY <1>1, MailboxInvariant, PTL DEF MailboxSpec, SettledIsFinal

(* The mailbox as a whole: its fields are well typed, `pending` counts what *)
(* is open, whatever is open is waiting or running, a queue that can start  *)
(* is never left alone, and a receiver runs at most once.                   *)
THEOREM MailboxHoldsEntries == MailboxSpec => []EntriesAreHeld
BY MailboxTypes, NothingStranded, PendingIsExact, OpenEntriesAreHeld, ReceiversRunOnce, PTL DEF EntriesAreHeld

-----------------------------------------------------------------------------
(* The intake, which drives the mailbox.                                    *)

OpenControls == {m \in Messages : direct[m] = "pending"}

ReceiptInv ==
  /\ direct \in [Messages -> ResultState]
  /\ status \in [Messages -> {"none"} \cup Open \cup Outcomes]
  /\ cause \in [Messages -> {"none"} \cup Codes]
  /\ startedAt \in [Messages -> BOOLEAN]
  /\ settledAt \in [Messages -> BOOLEAN]
  /\ \A m \in Messages : status[m] = "none" => direct[m] = "none" /\ cause[m] = "none"
  /\ \A m \in Messages : result[m] # "none" => m \in Queueable /\ status[m] # "none"

ControlsInv == pendingControls = Cardinality(OpenControls)

CancelledInv ==
  \A m \in Messages : /\ aborted(m) => m \notin Waiting
                      /\ runs[m] > 0 => startedAt[m]

(* What the adapter adds to the mailbox's invariant.                        *)
AdapterInv == ReceiptInv /\ ControlsInv /\ CancelledInv /\ OutcomeTellsCause

IntakeInv == MailboxInv /\ AdapterInv

WaitsInv ==
  /\ wait \in [Waiters -> {"none", "waiting", "answered", "left"}]
  /\ generation \in Nat
  /\ minimum \in [Waiters -> Nat]
  /\ background \in Nat

-----------------------------------------------------------------------------

(* Every step of the intake is a step of the mailbox, or leaves it alone:   *)
(* the adapter uses the mailbox through its operations only.                *)
LEMMA MailboxStep == [Next]_vars => [MailboxNext]_mailboxVars
<1> SUFFICES ASSUME [Next]_vars PROVE [MailboxNext]_mailboxVars
  OBVIOUS
<1>a. Messages \subseteq Ids /\ Recoveries \subseteq Ids
  BY IntakeAssumption
<1>1. ASSUME NEW m \in Messages, NEW size \in Sizes,
             AdmitQueued(m, size) \/ AdmitControl(m, size) \/ AdmitRefused(m, size)
      PROVE  [MailboxNext]_mailboxVars
  BY <1>a, <1>1 DEF AdmitQueued, AdmitControl, AdmitRefused, MailboxNext
<1>2. ASSUME NEW m \in Messages,
             \/ ControlSettles(m) \/ RequestCancellation(m) \/ DeadlinePasses(m)
             \/ RecordMessageOutcome(m) \/ FinalizeMessage(m)
      PROVE  [MailboxNext]_mailboxVars
  BY <1>a, <1>2
     DEF ControlSettles, RequestCancellation, DeadlinePasses, CancelMessage,
         RecordMessageOutcome, FinalizeMessage, MailboxNext
<1>3. ASSUME NEW r \in Recoveries, RecoveryExpires(r) \/ \E m \in Messages : Recover(r, m)
      PROVE  [MailboxNext]_mailboxVars
  BY <1>a, <1>3 DEF RecoveryExpires, Recover, MailboxNext
<1>4. ASSUME NEW id \in Ids, SettleEntry(id)
      PROVE  [MailboxNext]_mailboxVars
  BY <1>4 DEF SettleEntry, MailboxNext
<1>5. ASSUME Drain \/ ReleaseRunner
      PROVE  [MailboxNext]_mailboxVars
  BY <1>5 DEF Drain, ReleaseRunner, MailboxNext
<1>6. ASSUME RejectUnreceived \/ \E outcome \in Settled : ReceiveSettles(outcome)
      PROVE  [MailboxNext]_mailboxVars
  BY <1>6 DEF RejectUnreceived, ReceiveSettles, LeaveReceiver, MailboxNext, Settled
<1>7. ASSUME \/ \E outcome \in {"ready", "failed"} : ActivationSettles(outcome)
             \/ BeginReceive \/ BackgroundStarts \/ BackgroundEnds
             \/ \E w \in Waiters : LeaveWait(w) \/ \E least \in 0..MaxGeneration : AwaitQuiescence(w, least)
             \/ \E c \in Collectors : Collect(c)
             \/ UNCHANGED vars
      PROVE  [MailboxNext]_mailboxVars
  BY <1>7 DEF ActivationSettles, BeginReceive, BackgroundStarts, BackgroundEnds,
              LeaveWait, AwaitQuiescence, Collect, vars
<1> QED BY <1>1, <1>2, <1>3, <1>4, <1>5, <1>6, <1>7 DEF Next

(* The intake implements the mailbox.                                       *)
THEOREM IntakeImplementsMailbox == Spec => MailboxSpec
<1>1. Init => MailboxInit
  BY DEF Init
<1> QED BY <1>1, MailboxStep, PTL DEF Spec, MailboxSpec

(* ... and so everything proved of the mailbox holds of the intake.         *)
LEMMA IntakeMailboxInv == Spec => []MailboxInv
BY IntakeImplementsMailbox, MailboxInvariant, PTL

-----------------------------------------------------------------------------

(* The controls in flight are a finite set, so they can be counted.         *)
LEMMA ControlsCountable == IsFiniteSet(OpenControls) /\ Cardinality(OpenControls) \in Nat
<1>1. IsFiniteSet(Messages) /\ OpenControls \subseteq Messages
  BY MessagesAssumption DEF OpenControls
<1> QED BY <1>1, FS_Subset, FS_CardinalityType

(* The initial intake satisfies the invariant.                              *)
LEMMA InitIntakeInv == Init => IntakeInv
<1> SUFFICES ASSUME Init PROVE IntakeInv
  OBVIOUS
<1>1. MailboxInv
  BY InitInv DEF Init
<1>2. Messages \subseteq Ids
  BY IntakeAssumption
<1>3. ReceiptInv
  BY <1>2 DEF Init, MessagesInit, MailboxInit, ReceiptInv, ResultState
<1>4. ControlsInv
  <2>1. OpenControls = {}
    BY DEF OpenControls, Init
  <2> QED BY <2>1, FS_EmptySet DEF Init, ControlsInv
<1>5. CancelledInv /\ OutcomeTellsCause
  BY <1>2 DEF Init, MessagesInit, MailboxInit, CancelledInv, OutcomeTellsCause, aborted, Outcomes
<1> QED BY <1>1, <1>3, <1>4, <1>5 DEF IntakeInv, AdapterInv

(* A step that leaves the mailbox, the receipts and the controls alone.     *)
LEMMA QuietInv ==
  ASSUME AdapterInv, UNCHANGED <<mailboxVars, receiptVars, direct, pendingControls>>
  PROVE  AdapterInv'
BY DEF AdapterInv, ReceiptInv, ControlsInv, OpenControls, CancelledInv, OutcomeTellsCause,
       mailboxVars, receiptVars, Waiting, aborted, Delivery, Outcome

(* A message enters the mailbox with a fresh reservation.                   *)
LEMMA AdmitQueuedInv ==
  ASSUME IntakeInv, NEW m \in Messages, NEW size, AdmitQueued(m, size)
  PROVE  AdapterInv'
<1> USE DEF IntakeInv, AdapterInv, AdmitQueued, Reserve, intakeVars
<1>1. Messages \subseteq Ids /\ m \in Ids
  BY IntakeAssumption
<1>2. /\ status[m] = "none" /\ status' = [status EXCEPT ![m] = "queued"]
      /\ startedAt' = [startedAt EXCEPT ![m] = FALSE]
      /\ result[m] = "none" /\ result' = [result EXCEPT ![m] = "pending"]
      /\ UNCHANGED <<cause, settledAt, direct, pendingControls, runs>>
  BY DEF Enqueue
<1>3. MailboxTypeOK /\ runs[m] = 0 /\ Waiting' = Waiting \cup {m}
  BY <1>1, <1>2, EnqueueWaits DEF MailboxInv, SequenceInv
<1>4. \A other \in Messages \ {m} :
        /\ status'[other] = status[other] /\ startedAt'[other] = startedAt[other]
        /\ result'[other] = result[other]
  BY <1>1, <1>2, <1>3 DEF MailboxTypeOK, ReceiptInv
<1>5. status'[m] = "queued" /\ result'[m] = "pending"
  BY <1>1, <1>2, <1>3 DEF MailboxTypeOK, ReceiptInv
<1>6. ReceiptInv'
  BY <1>2, <1>4, <1>5 DEF ReceiptInv, Open
<1>7. ControlsInv'
  BY <1>2 DEF ControlsInv, OpenControls
<1>8. CancelledInv'
  BY <1>2, <1>3, <1>4 DEF CancelledInv, ReceiptInv, aborted
<1>9. OutcomeTellsCause'
  BY <1>2, <1>4, <1>5 DEF OutcomeTellsCause, Outcomes, Delivery, Outcome, aborted
<1> QED BY <1>6, <1>7, <1>8, <1>9

(* A cancel command is answered beside the mailbox and counts as a control; *)
(* a refused command is answered at once.                                   *)
LEMMA AdmitDirectInv ==
  ASSUME IntakeInv, NEW m \in Messages, NEW size,
         AdmitControl(m, size) \/ AdmitRefused(m, size)
  PROVE  AdapterInv'
<1> USE DEF IntakeInv, AdapterInv, Reserve
<1>1. PICK answer \in {"pending", "rejected"} :
        /\ direct' = [direct EXCEPT ![m] = answer]
        /\ pendingControls' = IF answer = "pending" THEN pendingControls + 1 ELSE pendingControls
  BY DEF AdmitControl, AdmitRefused
<1>2. /\ status[m] = "none" /\ status' = [status EXCEPT ![m] = "running"]
      /\ startedAt' = [startedAt EXCEPT ![m] = TRUE]
      /\ UNCHANGED <<cause, settledAt, result, queue, runs>>
  BY DEF AdmitControl, AdmitRefused, mailboxVars
<1>3. /\ direct[m] = "none" /\ direct'[m] = answer
      /\ status'[m] = "running" /\ startedAt'[m]
      /\ \A other \in Messages \ {m} :
           /\ direct'[other] = direct[other]
           /\ status'[other] = status[other] /\ startedAt'[other] = startedAt[other]
  BY <1>1, <1>2 DEF ReceiptInv
<1>4. ReceiptInv'
  BY <1>1, <1>2, <1>3 DEF ReceiptInv, Open, ResultState, Settled
<1>5. ControlsInv'
  <2>1. CASE answer = "pending"
    <3>1. OpenControls' = OpenControls \cup {m} /\ m \notin OpenControls
      BY <1>3, <2>1 DEF OpenControls
    <3>2. Cardinality(OpenControls') = Cardinality(OpenControls) + 1
      BY <3>1, ControlsCountable, FS_AddElement
    <3> QED BY <1>1, <2>1, <3>2 DEF ControlsInv
  <2>2. CASE answer = "rejected"
    <3>1. OpenControls' = OpenControls
      BY <1>3, <2>2 DEF OpenControls
    <3> QED BY <1>1, <2>2, <3>1 DEF ControlsInv
  <2> QED BY <2>1, <2>2
<1>6. CancelledInv'
  BY <1>2, <1>3 DEF CancelledInv, aborted, Waiting
<1>7. OutcomeTellsCause'
  BY <1>2, <1>3 DEF OutcomeTellsCause, Outcomes, Delivery, Outcome, aborted
<1> QED BY <1>4, <1>5, <1>6, <1>7

(* A control leaves the count with its promise.                             *)
LEMMA ControlSettlesInv ==
  ASSUME IntakeInv, NEW m \in Messages, ControlSettles(m)
  PROVE  AdapterInv'
<1> USE DEF IntakeInv, AdapterInv, ControlSettles
<1>1. /\ direct[m] = "pending" /\ direct' = [direct EXCEPT ![m] = "resolved"]
      /\ pendingControls' = pendingControls - 1
      /\ UNCHANGED <<status, cause, startedAt, settledAt, result, queue, runs>>
  BY DEF receiptVars, mailboxVars
<1>2. /\ direct'[m] = "resolved"
      /\ \A other \in Messages \ {m} : direct'[other] = direct[other]
  BY <1>1 DEF ReceiptInv
<1>3. ReceiptInv'
  BY <1>1, <1>2 DEF ReceiptInv, ResultState, Settled
<1>4. ControlsInv'
  <2>1. OpenControls' = OpenControls \ {m} /\ m \in OpenControls
    BY <1>1, <1>2 DEF OpenControls
  <2>2. Cardinality(OpenControls') = Cardinality(OpenControls) - 1
    BY <2>1, ControlsCountable, FS_RemoveElement
  <2> QED BY <1>1, <2>2 DEF ControlsInv
<1>5. CancelledInv'
  BY <1>1 DEF CancelledInv, aborted, Waiting
<1>6. OutcomeTellsCause'
  <2>1. \A other \in Messages : Delivery(other) \in Settled => Delivery(other)' = Delivery(other)
    BY <1>1, <1>2 DEF Delivery, Settled
  <2> QED BY <1>1, <2>1 DEF OutcomeTellsCause, Outcome, aborted
<1> QED BY <1>3, <1>4, <1>5, <1>6

(* A cancel or a deadline: the message leaves the queue if it waits there.  *)
LEMMA CancelMessageInv ==
  ASSUME IntakeInv, NEW m \in Messages, NEW code \in Codes, CancelMessage(m, code)
  PROVE  AdapterInv'
<1> USE DEF IntakeInv, AdapterInv, CancelMessage, RequestCancel
<1>1. /\ status[m] \in {"queued", "running"} /\ status' = [status EXCEPT ![m] = "cancelling"]
      /\ cause' = [cause EXCEPT ![m] = code]
      /\ UNCHANGED <<startedAt, settledAt, direct, pendingControls, runs>>
  BY DEF CancelQueued, mailboxVars, intakeVars
<1>2. /\ status'[m] = "cancelling" /\ cause'[m] = code
      /\ \A other \in Messages \ {m} : status'[other] = status[other] /\ cause'[other] = cause[other]
  BY <1>1 DEF ReceiptInv
<1>3. /\ m \notin Waiting' /\ Waiting' \subseteq Waiting
      /\ \A id \in Ids \ {m} : result'[id] = result[id]
      /\ result[m] = "none" => result'[m] = "none"
  <2>1. CASE m \in Waiting
    <3>1. m \in Ids /\ CancelQueued(m) /\ MailboxTypeOK /\ QueueInv
      BY <2>1, IntakeAssumption DEF MailboxInv
    <3>2. m \in Waiting /\ Waiting' = Waiting \ {m}
      BY <3>1, CancelUnwaits
    <3>3. result[m] = "pending"
      BY <2>1, <3>1 DEF Waiting, QueueInv
    <3>4. \A id \in Ids \ {m} : result'[id] = result[id]
      BY <3>1 DEF CancelQueued, MailboxTypeOK
    <3> QED BY <3>2, <3>3, <3>4
  <2>2. CASE m \notin Waiting
    BY <2>2 DEF mailboxVars, Waiting
  <2> QED BY <2>1, <2>2
<1>4. ReceiptInv'
  BY <1>1, <1>2, <1>3, IntakeAssumption DEF ReceiptInv, Open
<1>5. ControlsInv'
  BY <1>1 DEF ControlsInv, OpenControls
<1>6. CancelledInv'
  BY <1>1, <1>2, <1>3 DEF CancelledInv, aborted
<1>7. OutcomeTellsCause'
  BY <1>1, <1>2, <1>3, IntakeAssumption DEF OutcomeTellsCause, Outcomes, Delivery, Outcome, aborted
<1> QED BY <1>4, <1>5, <1>6, <1>7

(* The receipt takes its outcome, and is settled afterwards.                *)
LEMMA RecordInv ==
  ASSUME IntakeInv, NEW m \in Messages, RecordMessageOutcome(m) \/ FinalizeMessage(m)
  PROVE  AdapterInv'
<1> USE DEF IntakeInv, AdapterInv
<1>1. CASE RecordMessageOutcome(m)
  <2>1. /\ Delivery(m) \in Settled /\ status[m] \in Open
        /\ status' = [status EXCEPT ![m] = Outcome(m, Delivery(m))]
        /\ UNCHANGED <<cause, startedAt, settledAt, direct, pendingControls, result, queue, runs>>
    BY <1>1 DEF RecordMessageOutcome, RecordOutcome, mailboxVars, intakeVars
  <2>2. Outcome(m, Delivery(m)) \in Outcomes
    BY DEF Outcome, Outcomes
  <2>3. /\ status'[m] = Outcome(m, Delivery(m))
        /\ \A other \in Messages \ {m} : status'[other] = status[other]
    BY <2>1 DEF ReceiptInv
  <2>4. ReceiptInv'
    BY <2>1, <2>2, <2>3 DEF ReceiptInv, Open, Outcomes
  <2>5. ControlsInv' /\ CancelledInv'
    BY <2>1 DEF ControlsInv, OpenControls, CancelledInv, aborted, Waiting
  <2>6. OutcomeTellsCause'
    BY <2>1, <2>3 DEF OutcomeTellsCause, Delivery, Outcome, aborted
  <2> QED BY <2>4, <2>5, <2>6
<1>2. CASE FinalizeMessage(m)
  <2>1. /\ settledAt' = [settledAt EXCEPT ![m] = TRUE]
        /\ UNCHANGED <<status, cause, startedAt, direct, pendingControls, result, queue, runs>>
    BY <1>2 DEF FinalizeMessage, Finalize, mailboxVars, intakeVars
  <2> QED BY <2>1 DEF ReceiptInv, ControlsInv, OpenControls, CancelledInv, OutcomeTellsCause,
                      aborted, Delivery, Outcome, Waiting
<1> QED BY <1>1, <1>2

(* A recovery enters the mailbox; it has no receipt.                        *)
LEMMA RecoverInv ==
  ASSUME IntakeInv, NEW r \in Recoveries, NEW m \in Messages, Recover(r, m)
  PROVE  AdapterInv'
<1> USE DEF IntakeInv, AdapterInv, Recover
<1>1. r \in Ids /\ r \notin Messages /\ Messages \subseteq Ids
  BY IntakeAssumption
<1>2. MailboxTypeOK /\ Waiting' = Waiting \cup {r}
  BY <1>1, EnqueueWaits DEF MailboxInv
<1>3. /\ \A other \in Messages : result'[other] = result[other]
      /\ UNCHANGED <<status, cause, startedAt, settledAt, direct, pendingControls, runs>>
  BY <1>1, <1>2 DEF Enqueue, receiptVars, MailboxTypeOK
<1>4. ReceiptInv'
  BY <1>3 DEF ReceiptInv
<1>5. ControlsInv' /\ OutcomeTellsCause'
  BY <1>3 DEF ControlsInv, OpenControls, OutcomeTellsCause, Delivery, Outcome, aborted
<1>6. CancelledInv'
  BY <1>1, <1>2, <1>3 DEF CancelledInv, aborted
<1> QED BY <1>4, <1>5, <1>6

(* An entry starts: it waited, so it was not cancelled, and a message's     *)
(* receipt records the start.                                               *)
LEMMA StartEntryInv ==
  ASSUME IntakeInv, Drain \/ ReleaseRunner
  PROVE  AdapterInv'
<1> USE DEF IntakeInv, AdapterInv
<1>1. /\ EnterReceiver
      /\ UNCHANGED <<result, direct, pendingControls>>
      /\ \/ StartNext /\ (running = None \/ result[running] \in Settled)
         \/ UNCHANGED <<running, queue, runs>>
  BY DEF Drain, ReleaseRunner, DrainJob, Release
<1>2. /\ MailboxTypeOK /\ QueueInv /\ RunnerInv /\ None \notin Ids
      /\ Messages \subseteq Ids
  BY IntakeAssumption, MailboxAssumption DEF MailboxInv
<1>3. ControlsInv'
  BY <1>1 DEF ControlsInv, OpenControls
<1>4. CASE running' \in {None, running}
  <2>1. UNCHANGED <<status, cause, startedAt, settledAt>>
    BY <1>1, <1>4 DEF EnterReceiver, receiptVars
  <2>2. UNCHANGED <<queue, runs>>
    <3>1. CASE StartNext /\ queue # <<>> /\ (running = None \/ result[running] \in Settled)
      <4>1. running' \in Ids /\ result[running'] = "pending"
        BY <1>2, <3>1, StartUnwaits
      <4> QED BY <1>2, <1>4, <3>1, <4>1 DEF Settled
    <3>2. CASE queue = <<>> /\ StartNext
      BY <3>2 DEF StartNext
    <3> QED BY <1>1, <3>1, <3>2
  <2>3. ReceiptInv' /\ CancelledInv' /\ OutcomeTellsCause'
    BY <1>1, <2>1, <2>2 DEF ReceiptInv, CancelledInv, OutcomeTellsCause, Delivery, Outcome, aborted, Waiting
  <2> QED BY <1>3, <2>3
<1>5. CASE running' \notin {None, running}
  <2> DEFINE id == running'
  <2>1. StartNext /\ queue # <<>>
    BY <1>1, <1>5 DEF StartNext
  <2>2. /\ id \in Waiting /\ Waiting' = Waiting \ {id} /\ id \in Ids
        /\ result[id] = "pending" /\ runs' = [runs EXCEPT ![id] = 1]
    BY <1>2, <2>1, StartUnwaits
  <2>3. id \in Messages => ~aborted(id) /\ id \in Queueable
    BY <2>2 DEF CancelledInv, ReceiptInv
  <2>4. IF id \in Messages THEN Started(id) ELSE UNCHANGED receiptVars
    BY <1>1, <1>5, <2>3 DEF EnterReceiver, Aborted
  <2> HIDE DEF id
  <2>5. /\ id \in Messages => status'[id] = "running" /\ startedAt'[id] /\ status[id] # "none"
        /\ \A m \in Messages \ {id} : status'[m] = status[m] /\ startedAt'[m] = startedAt[m]
        /\ UNCHANGED <<cause, settledAt>>
        /\ status' \in [Messages -> {"none"} \cup Open \cup Outcomes]
        /\ startedAt' \in [Messages -> BOOLEAN]
    BY <2>2, <2>3, <2>4 DEF Started, receiptVars, ReceiptInv, Open
  <2>6. ReceiptInv'
    BY <1>1, <2>5 DEF ReceiptInv
  <2>7. CancelledInv'
    BY <1>2, <2>2, <2>5 DEF CancelledInv, aborted, MailboxTypeOK
  <2>8. OutcomeTellsCause'
    BY <1>1, <2>5 DEF OutcomeTellsCause, Outcomes, Delivery, Outcome, aborted
  <2> QED BY <1>3, <2>6, <2>7, <2>8
<1> QED BY <1>4, <1>5

(* The running entry settles; an open result has no outcome to contradict.  *)
LEMMA LeaveReceiverInv ==
  ASSUME IntakeInv, NEW outcome \in Settled, LeaveReceiver(outcome)
  PROVE  AdapterInv'
<1> USE DEF IntakeInv, AdapterInv
<1>1. /\ result[running] = "pending" /\ result' = [result EXCEPT ![running] = outcome]
      /\ UNCHANGED <<status, cause, startedAt, settledAt, direct, pendingControls, queue, runs>>
  BY DEF LeaveReceiver, ReceiverSettles, receiptVars
<1>2. \A m \in Messages : /\ result[m] = "none" => result'[m] = "none"
                          /\ result[m] \in Settled => result'[m] = result[m]
  BY <1>1, IntakeAssumption DEF MailboxInv, MailboxTypeOK, Settled
<1>3. ReceiptInv' /\ ControlsInv' /\ CancelledInv'
  BY <1>1, <1>2 DEF ReceiptInv, ControlsInv, OpenControls, CancelledInv, aborted, Waiting
<1>4. OutcomeTellsCause'
  <2>1. \A m \in Messages : Delivery(m) \in Settled => Delivery(m)' = Delivery(m)
    BY <1>1, <1>2 DEF Delivery
  <2> QED BY <1>1, <2>1 DEF OutcomeTellsCause, Outcome, aborted
<1> QED BY <1>3, <1>4

(* Every step of the intake keeps the invariant.                            *)
LEMMA IntakeStepInv == IntakeInv /\ [Next]_vars => IntakeInv'
<1> SUFFICES ASSUME IntakeInv, [Next]_vars PROVE AdapterInv'
  BY MailboxStep, StepInv DEF IntakeInv
<1>1. ASSUME NEW m \in Messages, NEW size \in Sizes,
             AdmitQueued(m, size) \/ AdmitControl(m, size) \/ AdmitRefused(m, size)
      PROVE  AdapterInv'
  BY <1>1, AdmitQueuedInv, AdmitDirectInv
<1>2. ASSUME NEW m \in Messages, RequestCancellation(m) \/ DeadlinePasses(m)
      PROVE  AdapterInv'
  <2>1. PICK code \in Codes : CancelMessage(m, code)
    BY <1>2 DEF RequestCancellation, DeadlinePasses, Codes
  <2> QED BY <2>1, CancelMessageInv
<1>3. ASSUME NEW m \in Messages, ControlSettles(m) \/ RecordMessageOutcome(m) \/ FinalizeMessage(m)
      PROVE  AdapterInv'
  BY <1>3, ControlSettlesInv, RecordInv
<1>4. ASSUME NEW r \in Recoveries, NEW m \in Messages, Recover(r, m)
      PROVE  AdapterInv'
  BY <1>4, RecoverInv
<1>5. ASSUME Drain \/ ReleaseRunner
      PROVE  AdapterInv'
  BY <1>5, StartEntryInv
<1>6. ASSUME RejectUnreceived \/ \E outcome \in Settled : ReceiveSettles(outcome)
      PROVE  AdapterInv'
  <2>1. PICK outcome \in Settled : LeaveReceiver(outcome)
    BY <1>6 DEF RejectUnreceived, ReceiveSettles, Settled
  <2> QED BY <2>1, LeaveReceiverInv
<1>7. ASSUME NEW id \in Ids, SettleEntry(id)
      PROVE  AdapterInv'
  BY <1>7 DEF SettleEntry, Settle, receiptVars, intakeVars, IntakeInv, AdapterInv, ReceiptInv, ControlsInv,
              OpenControls, CancelledInv, OutcomeTellsCause, Waiting, aborted, Delivery, Outcome
<1>8. ASSUME \/ \E r \in Recoveries : RecoveryExpires(r)
             \/ \E outcome \in {"ready", "failed"} : ActivationSettles(outcome)
             \/ BeginReceive \/ BackgroundStarts \/ BackgroundEnds
             \/ \E w \in Waiters : LeaveWait(w) \/ \E least \in 0..MaxGeneration : AwaitQuiescence(w, least)
             \/ UNCHANGED vars
      PROVE  AdapterInv'
  <2>1. UNCHANGED <<mailboxVars, receiptVars, direct, pendingControls>>
    BY <1>8 DEF RecoveryExpires, ActivationSettles, BeginReceive, BackgroundStarts, BackgroundEnds,
                LeaveWait, AwaitQuiescence, intakeVars, vars
  <2> QED BY <2>1, QuietInv DEF IntakeInv
<1>9. ASSUME NEW c \in Collectors, Collect(c)
      PROVE  AdapterInv'
  <2>1. UNCHANGED <<mailboxVars, receiptVars, direct, pendingControls>>
    BY <1>9 DEF Collect, PollCompletions, AnswerCompletions, AbandonPoll, ReadReceipts, intakeVars
  <2> QED BY <2>1, QuietInv DEF IntakeInv
<1> QED BY <1>1, <1>2, <1>3, <1>4, <1>5, <1>6, <1>7, <1>8, <1>9 DEF Next

-----------------------------------------------------------------------------

(* The invariant holds of every behaviour of the intake.                    *)
THEOREM IntakeInvariant == Spec => []IntakeInv
<1>1. Init => IntakeInv
  BY InitIntakeInv
<1>2. IntakeInv /\ [Next]_vars => IntakeInv'
  BY IntakeStepInv
<1> QED BY <1>1, <1>2, PTL DEF Spec

(* A receipt tells what became of its delivery and why: a cancelled or      *)
(* expired message never reports success, whatever its delivery did.        *)
THEOREM OutcomesAreTrue == Spec => []OutcomeTellsCause
<1>1. IntakeInv => OutcomeTellsCause
  BY DEF IntakeInv, AdapterInv
<1> QED BY <1>1, IntakeInvariant, PTL

(* A message cancelled before it started never reaches user code.           *)
THEOREM CancelledNeverRuns == Spec => []CancelledUnstartedNeverRuns
<1>1. IntakeInv => CancelledUnstartedNeverRuns
  <2> SUFFICES ASSUME IntakeInv, NEW m \in Queueable, ~startedAt[m]
               PROVE  runs[m] = 0
    BY DEF CancelledUnstartedNeverRuns
  <2>1. m \in Messages /\ m \in Ids
    BY IntakeAssumption DEF Queueable
  <2>2. runs[m] \in Nat /\ ~(runs[m] > 0)
    BY <2>1 DEF IntakeInv, AdapterInv, CancelledInv, MailboxInv, MailboxTypeOK
  <2> QED BY <2>2
<1> QED BY <1>1, IntakeInvariant, PTL

AllSettled ==
  /\ \A id \in Ids : result[id] # "pending"
  /\ \A m \in Messages : direct[m] # "pending"

(* The counters behind idle never call a busy runtime idle.                 *)
LEMMA IdleIsQuiet == IntakeInv /\ pending = 0 /\ pendingControls = 0 => AllSettled
<1> SUFFICES ASSUME IntakeInv, pending = 0, pendingControls = 0 PROVE AllSettled
  OBVIOUS
<1> USE DEF IntakeInv, AdapterInv
<1>1. OpenEntries = {}
  <2>1. Cardinality(OpenEntries) = 0
    BY DEF MailboxInv, PendingCountsOpen, OpenEntries
  <2> QED BY <2>1, Countable, FS_EmptySet
<1>2. OpenControls = {}
  <2>1. Cardinality(OpenControls) = 0
    BY DEF ControlsInv
  <2> QED BY <2>1, ControlsCountable, FS_EmptySet
<1> QED BY <1>1, <1>2 DEF OpenEntries, OpenControls, AllSettled

(* What the steps of the intake do to the tracker and to the counters.      *)
TrackerStep ==
  \/ Changed(IdleNext) /\ (generation' = generation \/ generation' = generation + 1)
     /\ background' \in {background, background + 1, background - 1} /\ background' >= 0
  \/ /\ UNCHANGED <<wait, minimum, background>> /\ generation' \in {generation, generation + 1}
     /\ pendingControls' = pendingControls + 1 \/ ReservedAuthSession
  \/ /\ \E w \in Waiters : AbandonWait(w) \/ \E least \in 0..MaxGeneration : Await(w, least, Idle)
     /\ UNCHANGED <<pending, pendingControls, background>>
  \/ UNCHANGED <<wait, minimum, generation, pending, pendingControls, background>>

(* A step that can change the idleness calls changed(), or makes the *)
(* runtime busy.                                                     *)
LEMMA TrackerSteps ==
  ASSUME WaitsInv, [Next]_vars
  PROVE  TrackerStep
<1>1. ASSUME NEW m \in Messages, NEW size \in Sizes, AdmitQueued(m, size)
      PROVE  TrackerStep
  BY <1>1 DEF AdmitQueued, ObserveMessage, intakeVars, TrackerStep, WaitsInv
<1>2. ASSUME NEW m \in Messages, NEW size \in Sizes, AdmitControl(m, size) \/ AdmitRefused(m, size)
      PROVE  TrackerStep
  BY <1>2 DEF AdmitControl, AdmitRefused, Refused, ObserveMessage, NoChange, TrackerStep
<1>3. ASSUME NEW r \in Recoveries, NEW m \in Messages, Recover(r, m)
      PROVE  TrackerStep
  BY <1>3 DEF Recover, ObserveMessage, TrackerStep, WaitsInv
<1>4. ASSUME \/ \E m \in Messages : ControlSettles(m)
             \/ \E id \in Ids : SettleEntry(id)
             \/ BackgroundStarts \/ BackgroundEnds
      PROVE  TrackerStep
  BY <1>4 DEF ControlSettles, SettleEntry, BackgroundStarts, BackgroundEnds, Unobserved, intakeVars,
              TrackerStep, WaitsInv
<1>5. ASSUME NEW w \in Waiters, LeaveWait(w) \/ \E least \in 0..MaxGeneration : AwaitQuiescence(w, least)
      PROVE  TrackerStep
  BY <1>5 DEF LeaveWait, AwaitQuiescence, mailboxVars, intakeVars, TrackerStep
<1>6. ASSUME \/ \E m \in Messages : \/ RequestCancellation(m) \/ DeadlinePasses(m)
                                    \/ RecordMessageOutcome(m) \/ FinalizeMessage(m)
             \/ \E r \in Recoveries : RecoveryExpires(r)
             \/ Drain \/ ReleaseRunner
             \/ \E outcome \in {"ready", "failed"} : ActivationSettles(outcome)
             \/ BeginReceive \/ RejectUnreceived
             \/ \E outcome \in Settled : ReceiveSettles(outcome)
             \/ \E c \in Collectors : Collect(c)
             \/ UNCHANGED vars
      PROVE  TrackerStep
  <2>1. UNCHANGED <<wait, minimum, generation, pending, pendingControls, background>>
    BY <1>6 DEF RequestCancellation, DeadlinePasses, CancelMessage, CancelQueued, RecordMessageOutcome,
                FinalizeMessage, RecoveryExpires, Drain, DrainJob, ReleaseRunner, Release, ActivationSettles,
                BeginReceive, RejectUnreceived, ReceiveSettles, LeaveReceiver, ReceiverSettles, Collect,
                mailboxVars, quiescenceVars, intakeVars, vars
  <2> QED BY <2>1 DEF TrackerStep
<1> QED BY <1>1, <1>2, <1>3, <1>4, <1>5, <1>6 DEF Next

(* The tracker's fields keep their types.                                   *)
LEMMA WaitsStep == WaitsInv /\ [Next]_vars => WaitsInv'
<1> SUFFICES ASSUME WaitsInv, [Next]_vars PROVE WaitsInv'
  OBVIOUS
<1>1. TrackerStep
  BY TrackerSteps
<1>2. background' \in Nat /\ generation' \in Nat
  BY <1>1 DEF TrackerStep, WaitsInv, AbandonWait, Await
<1>3. ASSUME NEW w \in Waiters, AbandonWait(w) \/ \E least \in 0..MaxGeneration : Await(w, least, Idle)
      PROVE  WaitsInv'
  BY <1>2, <1>3 DEF WaitsInv, AbandonWait, Await
<1>4. ASSUME Changed(IdleNext) PROVE WaitsInv'
  BY <1>2, <1>4 DEF WaitsInv, Changed
<1>5. ASSUME UNCHANGED <<wait, minimum>> PROVE WaitsInv'
  BY <1>2, <1>5 DEF WaitsInv
<1> QED BY <1>1, <1>3, <1>4, <1>5 DEF TrackerStep

(* A parked wait always has a reason. *)
LEMMA WaitsInvariant == Spec => []WaitsInv
<1>1. Init => WaitsInv
  BY DEF Init, QuiescenceInit, WaitsInv
<1> QED BY <1>1, WaitsStep, PTL DEF Spec

(* A quiescence wait is answered only by a quiet runtime that has observed  *)
(* the generation it asks for, whatever is admitted, cancelled or recovered *)
(* in between.                                                              *)
THEOREM AnswersAreQuiet == Spec => AnsweredOnlyWhenQuiet
<1> DEFINE Quiet == \A w \in Waiters : wait'[w] = "answered" /\ wait[w] = "waiting" =>
      /\ minimum'[w] <= generation'
      /\ \A id \in Ids : result'[id] # "pending"
      /\ \A m \in Messages : direct'[m] # "pending"
      /\ background' = 0
<1>1. ASSUME WaitsInv, [Next]_vars, NEW w \in Waiters, wait'[w] = "answered", wait[w] = "waiting"
      PROVE  IdleNext /\ minimum'[w] <= generation'
  <2>1. Changed(IdleNext)
    BY <1>1, TrackerSteps DEF TrackerStep, AbandonWait, Await, WaitsInv
  <2> QED BY <1>1, <2>1 DEF Changed, Covered, WaitsInv
<1>2. (IntakeInv /\ pending = 0 /\ pendingControls = 0 => AllSettled)'
  BY IdleIsQuiet, PTL
<1>3. IntakeInv' /\ WaitsInv /\ [Next]_vars => [Quiet]_vars
  BY <1>1, <1>2 DEF IdleNext, AllSettled
<1> QED BY <1>3, IntakeInvariant, WaitsInvariant, PTL DEF Spec, AnsweredOnlyWhenQuiet

(* A parked wait has a reason, unless the Session is a reserved auth one:   *)
(* there a refused command moves the generation and notifies nobody.        *)
THEOREM NobodyIsStranded ==
  ASSUME ~ReservedAuthSession
  PROVE  Spec => []NoStrandedWaiter
<1>1. Init => NoStrandedWaiter
  BY DEF Init, QuiescenceInit, NoStrandedWaiter
<1>2. NoStrandedWaiter /\ WaitsInv /\ IntakeInv /\ [Next]_vars => NoStrandedWaiter'
  <2> SUFFICES ASSUME NoStrandedWaiter, WaitsInv, IntakeInv, [Next]_vars,
                      NEW w \in Waiters, wait'[w] = "waiting", minimum'[w] <= generation'
               PROVE  ~IdleNext
    BY DEF NoStrandedWaiter, Covered, Idle, isIdle, IdleNext
  <2>1. pendingControls \in Nat
    BY ControlsCountable DEF IntakeInv, AdapterInv, ControlsInv
  <2>2. TrackerStep
    BY TrackerSteps
  <2>3. CASE Changed(IdleNext)
    BY <2>3 DEF Changed, Covered, WaitsInv
  <2>4. CASE pendingControls' = pendingControls + 1
    BY <2>1, <2>4 DEF IdleNext
  <2>5. CASE UNCHANGED <<wait, minimum, generation, pending, pendingControls, background>>
    BY <2>5 DEF IdleNext, NoStrandedWaiter, Covered, Idle, isIdle
  <2>6. ASSUME UNCHANGED <<pending, pendingControls, background>>,
               NEW v \in Waiters, AbandonWait(v) \/ \E least \in 0..MaxGeneration : Await(v, least, Idle)
        PROVE  ~IdleNext
    <3>1. CASE v = w
      BY <2>6, <3>1 DEF AbandonWait, Await, WaitsInv, Idle, isIdle, IdleNext
    <3>2. CASE v # w
      <4>1. wait[w] = "waiting" /\ minimum[w] <= generation
        BY <2>6, <3>2 DEF AbandonWait, Await, WaitsInv
      <4> QED BY <2>6, <4>1 DEF NoStrandedWaiter, Covered, Idle, isIdle, IdleNext
    <3> QED BY <3>1, <3>2
  <2> QED BY <2>2, <2>3, <2>4, <2>5, <2>6 DEF TrackerStep
<1> QED BY <1>1, <1>2, IntakeInvariant, WaitsInvariant, PTL DEF Spec

(* Which entry a step of the runner starts, if any.                         *)
LEMMA StartedEntry ==
  ASSUME IntakeInv, Drain \/ ReleaseRunner, running' \notin {None, running}
  PROVE  running' \in Ids /\ result[running'] = "pending"
<1>1. StartNext /\ queue # <<>>
  BY DEF Drain, ReleaseRunner, DrainJob, Release, StartNext
<1> QED BY <1>1, StartUnwaits DEF IntakeInv, MailboxInv

(* A receipt with an outcome is final: no late cancel, no deadline that     *)
(* fires during the settlement, and no started() changes it.                *)
THEOREM SettledReceiptsAreFinal == Spec => SettledReceiptIsFinal
<1> DEFINE Same(m) == /\ status'[m] = status[m] /\ cause'[m] = cause[m] /\ startedAt'[m] = startedAt[m]
                      /\ settledAt[m] => settledAt'[m]
           Final == \A m \in Messages : status[m] \in Outcomes => Same(m)
<1>1. IntakeInv /\ [Next]_vars => [Final]_receiptVars
  <2> SUFFICES ASSUME IntakeInv, Next, receiptVars' # receiptVars, NEW m \in Messages, status[m] \in Outcomes
               PROVE  Same(m)
    BY DEF vars, receiptVars
  <2> USE DEF IntakeInv, AdapterInv, ReceiptInv, Outcomes, Open
  <2>1. ASSUME NEW other \in Messages, NEW size \in Sizes,
               AdmitQueued(other, size) \/ AdmitControl(other, size) \/ AdmitRefused(other, size)
        PROVE  Same(m)
    BY <2>1 DEF AdmitQueued, AdmitControl, AdmitRefused, Reserve
  <2>2. ASSUME NEW other \in Messages, RequestCancellation(other) \/ DeadlinePasses(other)
        PROVE  Same(m)
    BY <2>2 DEF RequestCancellation, DeadlinePasses, CancelMessage, RequestCancel
  <2>3. ASSUME NEW other \in Messages, RecordMessageOutcome(other) \/ FinalizeMessage(other)
        PROVE  Same(m)
    BY <2>3 DEF RecordMessageOutcome, RecordOutcome, FinalizeMessage, Finalize
  <2>4. ASSUME Drain \/ ReleaseRunner
        PROVE  Same(m)
    <3>1. running' \notin {None, running} /\ Started(running')
      BY <2>4 DEF Drain, ReleaseRunner, EnterReceiver, receiptVars
    <3>2. result[running'] = "pending"
      BY <2>4, <3>1, StartedEntry
    <3>3. m # running'
      BY <3>2 DEF OutcomeTellsCause, Delivery, Settled
    <3> QED BY <3>1, <3>3 DEF Started
  <2> QED BY <2>1, <2>2, <2>3, <2>4
       DEF Next, ControlSettles, Recover, RecoveryExpires, SettleEntry, ActivationSettles, BeginReceive,
           RejectUnreceived, ReceiveSettles, LeaveReceiver, BackgroundStarts, BackgroundEnds, LeaveWait,
           AwaitQuiescence, Collect, PollCompletions, AnswerCompletions, AbandonPoll, ReadReceipts
<1> QED BY <1>1, IntakeInvariant, PTL DEF Spec, SettledReceiptIsFinal

-----------------------------------------------------------------------------

(* Only an activated incarnation runs the receiver of an entry that needs   *)
(* activation.                                                              *)
ActivationInv ==
  /\ activation \in {"none", "pending", "ready", "failed"}
  /\ stage = "receiving" /\ running \notin Auths => activation = "ready"

(* Every step keeps a receiver behind a successful activation. *)
LEMMA ActivationStep == IntakeInv /\ ActivationInv /\ [Next]_vars => ActivationInv'
<1> SUFFICES ASSUME IntakeInv, ActivationInv, [Next]_vars PROVE ActivationInv'
  OBVIOUS
<1>1. ASSUME Drain \/ ReleaseRunner PROVE ActivationInv'
  BY <1>1 DEF Drain, ReleaseRunner, EnterReceiver, ActivationInv
<1>2. ASSUME NEW outcome \in {"ready", "failed"}, ActivationSettles(outcome) PROVE ActivationInv'
  BY <1>2 DEF ActivationSettles, ActivationInv, mailboxVars
<1>3. ASSUME BeginReceive PROVE ActivationInv'
  BY <1>3 DEF BeginReceive, ActivationInv
<1>4. ASSUME NEW outcome \in Settled, LeaveReceiver(outcome) PROVE ActivationInv'
  BY <1>4 DEF LeaveReceiver, ActivationInv
<1>5. ASSUME UNCHANGED <<running, stage, activation>> PROVE ActivationInv'
  BY <1>5 DEF ActivationInv
<1> QED BY <1>1, <1>2, <1>3, <1>4, <1>5
     DEF Next, AdmitQueued, AdmitControl, AdmitRefused, ControlSettles, RequestCancellation, DeadlinePasses,
         CancelMessage, CancelQueued, RecordMessageOutcome, FinalizeMessage, Recover, RecoveryExpires,
         SettleEntry, Settle, Enqueue, RejectUnreceived, ReceiveSettles, BackgroundStarts, BackgroundEnds,
         LeaveWait, AwaitQuiescence, Collect, mailboxVars, intakeVars, vars, Settled

(* After onActivate failed, it is not called again, and no entry that needs *)
(* activation succeeds.                                                     *)
THEOREM FailureIsFinal == Spec => FailedActivationIsFinal
<1> DEFINE Final == activation = "failed" =>
      /\ activation' = "failed"
      /\ \A id \in Ids \ Auths : result'[id] = "resolved" => result[id] = "resolved"
<1>1. Init => ActivationInv
  BY DEF Init, ActivationInv
<1>2. IntakeInv /\ ActivationInv /\ [Next]_vars => [Final]_vars
  <2> SUFFICES ASSUME IntakeInv, ActivationInv, Next, activation = "failed"
               PROVE  /\ activation' = "failed"
                      /\ \A id \in Ids \ Auths : result'[id] = "resolved" => result[id] = "resolved"
    OBVIOUS
  <2>0. result \in [Ids -> ResultState]
    BY DEF IntakeInv, MailboxInv, MailboxTypeOK
  <2>1. activation' = "failed"
    BY DEF Next, AdmitQueued, AdmitControl, AdmitRefused, ControlSettles, RequestCancellation, DeadlinePasses,
           CancelMessage, RecordMessageOutcome, FinalizeMessage, Recover, RecoveryExpires, SettleEntry, Drain,
           ReleaseRunner, EnterReceiver, ActivationSettles, BeginReceive, RejectUnreceived, ReceiveSettles,
           LeaveReceiver, BackgroundStarts, BackgroundEnds, LeaveWait, AwaitQuiescence, Collect, intakeVars
  <2>2. ASSUME NEW outcome \in Settled, ReceiveSettles(outcome)
        PROVE  \A id \in Ids \ Auths : result'[id] = "resolved" => result[id] = "resolved"
    BY <2>0, <2>2 DEF ReceiveSettles, LeaveReceiver, ReceiverSettles, ActivationInv
  <2>3. ASSUME RejectUnreceived
        PROVE  \A id \in Ids \ Auths : result'[id] = "resolved" => result[id] = "resolved"
    BY <2>0, <2>3 DEF RejectUnreceived, LeaveReceiver, ReceiverSettles
  <2>4. ASSUME NEW id \in Ids, Enqueue(id) \/ CancelQueued(id)
        PROVE  \A other \in Ids \ Auths : result'[other] = "resolved" => result[other] = "resolved"
    BY <2>0, <2>4 DEF Enqueue, CancelQueued
  <2>5. ASSUME UNCHANGED result
        PROVE  \A other \in Ids \ Auths : result'[other] = "resolved" => result[other] = "resolved"
    BY <2>5
  <2>6. Messages \subseteq Ids /\ Recoveries \subseteq Ids
    BY IntakeAssumption
  <2> QED BY <2>1, <2>2, <2>3, <2>4, <2>5, <2>6
       DEF Next, AdmitQueued, AdmitControl, AdmitRefused, ControlSettles, RequestCancellation, DeadlinePasses,
           CancelMessage, RecordMessageOutcome, FinalizeMessage, Recover, RecoveryExpires, SettleEntry, Settle,
           Drain, DrainJob, ReleaseRunner, Release, ActivationSettles, BeginReceive, BackgroundStarts,
           BackgroundEnds, LeaveWait, AwaitQuiescence, Collect, mailboxVars
<1>3. Spec => []ActivationInv
  BY <1>1, ActivationStep, IntakeInvariant, PTL DEF Spec
<1> QED BY <1>2, <1>3, IntakeInvariant, PTL DEF Spec, FailedActivationIsFinal

(* What the mailbox promises, the intake keeps, with controls, recoveries,  *)
(* deadlines and activation around it.                                      *)
THEOREM IntakeHoldsEntries == Spec => []EntriesAreHeld
BY IntakeImplementsMailbox, MailboxHoldsEntries, PTL

(* ... and deliveries start in the order in which they were accepted.       *)
THEOREM IntakeStartsInOrder == Spec => StartsInOrder
BY IntakeImplementsMailbox, FirstInFirstOut, PTL

(* A cancellation that is answered is true: the message never reaches user  *)
(* code, and its receipt says why it ended.                                 *)
THEOREM CancellationsAreTrue == Spec => []CancellationIsTrue
BY CancelledNeverRuns, OutcomesAreTrue, PTL DEF CancellationIsTrue

-----------------------------------------------------------------------------
(* The receipts: their budget, and those who collect them.                  *)

BudgetInv ==
  /\ bytes \in [Messages -> Nat]
  /\ completionGeneration \in Nat
  /\ \A m \in Messages : settledAt[m] => status[m] \in Outcomes
  /\ PendingBytesExact

(* A collector that does not hold an answer knows every receipt that was    *)
(* settled by the generation it polls after; a parked one polls after the   *)
(* current generation.                                                      *)
CollectInv ==
  /\ CollectorTypeOK
  /\ \A c \in Collectors :
       /\ after[c] <= completionGeneration
       /\ poll[c] = "parked" => after[c] = completionGeneration
       /\ poll[c] # "answered" /\ after[c] = completionGeneration => SettledReceipts \subseteq known[c]

FieldsInv ==
  /\ messageGenerations \in [Observable -> Nat]
  /\ stage \in {"idle", "aborted", "activating", "receiving"}
  /\ expired \in SUBSET Recoveries
  /\ interrupted \in [Recoveries -> Messages \cup {None}]
  /\ background \in Background

(* One message holds as many bytes as its envelope has.                     *)
LEMMA OneHolds ==
  ASSUME NEW m, NEW n \in Nat
  PROVE  IsFiniteSet({m} \X (1..n)) /\ Cardinality({m} \X (1..n)) = n
<1>1. IsFiniteSet({m}) /\ Cardinality({m}) = 1
  BY FS_Singleton
<1>2. IsFiniteSet(1..n)
  BY FS_Interval
<1>3. Cardinality(1..n) = n
  <2>1. Cardinality(1..n) = IF 1 > n THEN 0 ELSE n - 1 + 1
    BY FS_Interval
  <2> QED BY <2>1
<1>4. /\ IsFiniteSet({m} \X (1..n))
      /\ Cardinality({m} \X (1..n)) = Cardinality({m}) * Cardinality(1..n)
  BY <1>1, <1>2, FS_Product
<1>5. Cardinality({m} \X (1..n)) = 1 * n
  BY <1>1, <1>3, <1>4
<1> QED BY <1>4, <1>5

(* What a set of receipts holds is finite, and a receipt adds its own.      *)
LEMMA HeldIsFinite ==
  ASSUME bytes \in [Messages -> Nat], NEW ms \in SUBSET Messages
  PROVE  IsFiniteSet(Held(ms)) /\ Cardinality(Held(ms)) \in Nat
<1> DEFINE f == [m \in ms |-> {m} \X (1..bytes[m])]
           T == {{m} \X (1..bytes[m]) : m \in ms}
<1>1. IsFiniteSet(ms)
  BY MessagesAssumption, FS_Subset
<1>2. f \in Surjection(ms, T)
  BY DEF Surjection
<1>3. IsFiniteSet(T)
  BY <1>1, <1>2, FS_Surjection
<1>4. ASSUME NEW t \in T PROVE IsFiniteSet(t)
  <2>1. PICK m \in ms : t = {m} \X (1..bytes[m])
    OBVIOUS
  <2>2. bytes[m] \in Nat
    OBVIOUS
  <2> QED BY <2>1, <2>2, OneHolds
<1>5. IsFiniteSet(UNION T)
  <2> HIDE DEF T
  <2> QED BY <1>3, <1>4, FS_UNION
<1> QED BY <1>5, FS_CardinalityType DEF Held

(* Two sets that share nothing count as their sum.                          *)
LEMMA DisjointUnion ==
  ASSUME NEW S, NEW T, IsFiniteSet(S), IsFiniteSet(T), S \cap T = {}
  PROVE  Cardinality(S \cup T) = Cardinality(S) + Cardinality(T)
<1>1. Cardinality(S \cup T) = Cardinality(S) + Cardinality(T) - Cardinality(S \cap T)
  BY FS_Union
<1>2. Cardinality(S \cap T) = 0 /\ Cardinality(S) \in Nat /\ Cardinality(T) \in Nat
  BY FS_EmptySet, FS_CardinalityType
<1> QED BY <1>1, <1>2

(* A reservation holds its bytes beside those of the others.                *)
LEMMA HeldGrows ==
  ASSUME bytes \in [Messages -> Nat], NEW ms \in SUBSET Messages, NEW m \in Messages, m \notin ms
  PROVE  Cardinality(Held(ms \cup {m})) = Cardinality(Held(ms)) + bytes[m]
<1> DEFINE own == {m} \X (1..bytes[m])
<1>1. IsFiniteSet(own) /\ Cardinality(own) = bytes[m] /\ bytes[m] \in Nat
  <2>1. bytes[m] \in Nat
    OBVIOUS
  <2> QED BY <2>1, OneHolds
<1>2. IsFiniteSet(Held(ms)) /\ Cardinality(Held(ms)) \in Nat
  BY HeldIsFinite
<1>3. Held(ms \cup {m}) = Held(ms) \cup own
  BY DEF Held
<1>4. Held(ms) \cap own = {}
  BY DEF Held
<1> HIDE DEF own
<1>5. Cardinality(Held(ms) \cup own) = Cardinality(Held(ms)) + Cardinality(own) - Cardinality(Held(ms) \cap own)
  BY <1>1, <1>2, FS_Union
<1>6. Cardinality(Held(ms) \cap own) = 0
  BY <1>4, FS_EmptySet
<1>7. Cardinality(Held(ms) \cup own) = Cardinality(Held(ms)) + bytes[m]
  BY <1>1, <1>2, <1>5, <1>6
<1> QED BY <1>3, <1>7

(* A step that leaves the receipts alone, or changes only what is no part   *)
(* of the budget.                                                           *)
LEMMA SameBudget ==
  ASSUME BudgetInv, UNCHANGED <<settledAt, bytes, pendingBytes, completionGeneration>>,
         \A m \in Messages : /\ status'[m] = "none" <=> status[m] = "none"
                             /\ status[m] \in Outcomes => status'[m] \in Outcomes
  PROVE  BudgetInv'
<1>1. Reservations' = Reservations
  BY DEF Reservations
<1>2. Held(Unsettled)' = Held(Unsettled)
  BY <1>1 DEF Held, Unsettled
<1> QED BY <1>2 DEF BudgetInv, PendingBytesExact

(* A reservation takes its bytes out of the budget.                         *)
LEMMA ReserveBudget ==
  ASSUME BudgetInv, ReceiptInv, NEW m \in Messages, NEW size \in Nat, NEW immediate \in BOOLEAN,
         Reserve(m, size, immediate)
  PROVE  BudgetInv'
<1> USE DEF Reserve
<1>1. /\ bytes \in [Messages -> Nat] /\ bytes' \in [Messages -> Nat] /\ bytes'[m] = size
      /\ \A other \in Messages \ {m} : bytes'[other] = bytes[other]
  BY DEF BudgetInv
<1>2. /\ status[m] = "none" /\ status'[m] # "none" /\ ~settledAt[m] /\ settledAt' = settledAt
      /\ \A other \in Messages \ {m} : status'[other] = status[other]
  BY DEF BudgetInv, ReceiptInv, Outcomes
<1>3. /\ Unsettled' = Unsettled \cup {m} /\ m \notin Unsettled /\ Unsettled \subseteq Messages
  BY <1>2 DEF Unsettled, Reservations
<1>4. UNION {{o} \X (1..bytes'[o]) : o \in Unsettled} = Held(Unsettled)
  BY <1>1, <1>3 DEF Held
<1>5. Cardinality(Held(Unsettled)') = Cardinality(Held(Unsettled)) + size
  <2>1. Held(Unsettled)' = Held(Unsettled) \cup ({m} \X (1..size))
    <3>1. Held(Unsettled)' = UNION {{o} \X (1..bytes'[o]) : o \in Unsettled \cup {m}}
      BY <1>3 DEF Held
    <3> QED BY <1>1, <1>4, <3>1
  <2>2. Held(Unsettled) \cap ({m} \X (1..size)) = {}
    BY <1>3 DEF Held
  <2>3. IsFiniteSet(Held(Unsettled)) /\ Cardinality(Held(Unsettled)) \in Nat
    BY <1>1, <1>3, HeldIsFinite
  <2>4. IsFiniteSet({m} \X (1..size)) /\ Cardinality({m} \X (1..size)) = size
    BY OneHolds
  <2> QED BY <2>1, <2>2, <2>3, <2>4, DisjointUnion
<1>6. pendingBytes' = pendingBytes + size /\ pendingBytes' <= MAX_PENDING_BYTES
  OBVIOUS
<1>7. pendingBytes' \in 0..MAX_PENDING_BYTES /\ PendingBytesExact'
  BY <1>5, <1>6, MessagesAssumption DEF BudgetInv, PendingBytesExact
<1>8. \A o \in Messages : settledAt'[o] => status'[o] \in Outcomes
  BY <1>2 DEF BudgetInv
<1> QED BY <1>1, <1>7, <1>8 DEF BudgetInv

(* A settlement returns what its receipt held.                              *)
LEMMA FinalizeBudget ==
  ASSUME BudgetInv, ReceiptInv, NEW m \in Messages, Finalize(m)
  PROVE  BudgetInv'
<1> USE DEF Finalize
<1>1. /\ status[m] \in Outcomes /\ ~settledAt[m] /\ bytes' = bytes /\ status' = status
      /\ settledAt'[m] /\ \A other \in Messages \ {m} : settledAt'[other] = settledAt[other]
      /\ bytes \in [Messages -> Nat] /\ bytes[m] \in Nat
  BY DEF ReceiptInv, BudgetInv
<1> DEFINE rest == Unsettled \ {m}
<1>2. /\ Unsettled' = rest /\ rest \cup {m} = Unsettled /\ m \notin rest /\ rest \subseteq Messages
  BY <1>1 DEF Unsettled, Reservations, Outcomes
<1>3. Held(Unsettled)' = Held(rest)
  BY <1>1, <1>2 DEF Held
<1> HIDE DEF rest
<1>4. Cardinality(Held(Unsettled)) = Cardinality(Held(rest)) + bytes[m] /\ Cardinality(Held(rest)) \in Nat
  BY <1>1, <1>2, HeldGrows, HeldIsFinite
<1>5. pendingBytes' = pendingBytes - bytes[m]
  OBVIOUS
<1>6. PendingBytesExact'
  BY <1>1, <1>3, <1>4, <1>5, MessagesAssumption DEF BudgetInv, PendingBytesExact
<1>7. completionGeneration' \in Nat
  BY DEF BudgetInv
<1>8. \A o \in Messages : settledAt'[o] => status'[o] \in Outcomes
  BY <1>1 DEF BudgetInv
<1> QED BY <1>1, <1>6, <1>7, <1>8 DEF BudgetInv

(* What a step of the intake does to the receipts.                          *)
ReceiptStep ==
  \/ \E m \in Messages, size \in Nat, immediate \in BOOLEAN : Reserve(m, size, immediate) /\ UNCHANGED collectorVars
  \/ \E m \in Messages : Finalize(m)
  \/ /\ UNCHANGED <<settledAt, bytes, pendingBytes, completionGeneration, collectorVars>>
     /\ \A m \in Messages : /\ status'[m] = "none" <=> status[m] = "none"
                            /\ status[m] \in Outcomes => status'[m] \in Outcomes
  \/ \E c \in Collectors : Collect(c)

(* It reserves, finalizes or collects, or it moves open receipts to other   *)
(* states and leaves budget and collectors alone.                           *)
LEMMA ReceiptSteps ==
  ASSUME IntakeInv, [Next]_vars
  PROVE  ReceiptStep
<1> USE DEF IntakeInv, AdapterInv, ReceiptInv, Open, Outcomes
<1>1. ASSUME NEW m \in Messages, NEW size \in Sizes,
             AdmitQueued(m, size) \/ AdmitControl(m, size) \/ AdmitRefused(m, size)
      PROVE  ReceiptStep
  <2>1. size \in Nat
    BY MessagesAssumption
  <2> QED BY <1>1, <2>1 DEF AdmitQueued, AdmitControl, AdmitRefused, ReceiptStep
<1>2. ASSUME NEW m \in Messages, RequestCancellation(m) \/ DeadlinePasses(m)
      PROVE  ReceiptStep
  BY <1>2 DEF RequestCancellation, DeadlinePasses, CancelMessage, RequestCancel, ReceiptStep
<1>3. ASSUME NEW m \in Messages, RecordMessageOutcome(m)
      PROVE  ReceiptStep
  BY <1>3 DEF RecordMessageOutcome, RecordOutcome, Outcome, ReceiptStep
<1>4. ASSUME NEW m \in Messages, FinalizeMessage(m)
      PROVE  ReceiptStep
  BY <1>4 DEF FinalizeMessage, ReceiptStep
<1>5. ASSUME Drain \/ ReleaseRunner
      PROVE  ReceiptStep
  <2>1. CASE UNCHANGED receiptVars
    BY <1>5, <2>1 DEF Drain, ReleaseRunner, receiptVars, ReceiptStep
  <2>2. CASE receiptVars' # receiptVars
    <3>1. running' \notin {None, running} /\ Started(running') /\ running' \in Messages
      BY <1>5, <2>2 DEF Drain, ReleaseRunner, EnterReceiver
    <3>2. result[running'] = "pending"
      BY <1>5, <3>1, StartedEntry
    <3>3. status[running'] \in Open
      BY <3>1, <3>2 DEF OutcomeTellsCause, Delivery, Settled
    <3> QED BY <1>5, <3>1, <3>3 DEF Drain, ReleaseRunner, Started, ReceiptStep
  <2> QED BY <2>1, <2>2
<1>6. ASSUME NEW c \in Collectors, Collect(c)
      PROVE  ReceiptStep
  BY <1>6 DEF ReceiptStep
<1>7. ASSUME \/ \E m \in Messages : ControlSettles(m) \/ \E r \in Recoveries : Recover(r, m)
             \/ \E r \in Recoveries : RecoveryExpires(r)
             \/ \E id \in Ids : SettleEntry(id)
             \/ \E outcome \in {"ready", "failed"} : ActivationSettles(outcome)
             \/ BeginReceive \/ RejectUnreceived \/ \E outcome \in Settled : ReceiveSettles(outcome)
             \/ BackgroundStarts \/ BackgroundEnds
             \/ \E w \in Waiters : LeaveWait(w) \/ \E least \in 0..MaxGeneration : AwaitQuiescence(w, least)
             \/ UNCHANGED vars
      PROVE  ReceiptStep
  <2>1. UNCHANGED receiptVars /\ UNCHANGED collectorVars
    BY <1>7 DEF ControlSettles, Recover, RecoveryExpires, SettleEntry, ActivationSettles, BeginReceive,
                RejectUnreceived, ReceiveSettles, LeaveReceiver, BackgroundStarts, BackgroundEnds,
                LeaveWait, AwaitQuiescence, vars
  <2> QED BY <2>1 DEF receiptVars, ReceiptStep
<1> QED BY <1>1, <1>2, <1>3, <1>4, <1>5, <1>6, <1>7 DEF Next

(* The budget stays exact.                                                  *)
LEMMA BudgetStep == IntakeInv /\ BudgetInv /\ [Next]_vars => BudgetInv'
<1> SUFFICES ASSUME IntakeInv, BudgetInv, [Next]_vars PROVE BudgetInv'
  OBVIOUS
<1>1. ReceiptStep /\ ReceiptInv
  BY ReceiptSteps DEF IntakeInv, AdapterInv
<1>2. ASSUME NEW c \in Collectors, Collect(c) PROVE BudgetInv'
  <2>1. UNCHANGED receiptVars
    BY <1>2 DEF Collect, PollCompletions, AnswerCompletions, AbandonPoll, ReadReceipts
  <2> QED BY <2>1, SameBudget DEF receiptVars
<1> QED BY <1>1, <1>2, SameBudget, ReserveBudget, FinalizeBudget DEF ReceiptStep

(* No settlement falls between an answer and the next poll: either it came  *)
(* before the receipts were read, or it moved the generation.               *)
LEMMA CollectStep == IntakeInv /\ BudgetInv /\ CollectInv /\ [Next]_vars => CollectInv'
<1> SUFFICES ASSUME IntakeInv, BudgetInv, CollectInv, [Next]_vars PROVE CollectInv'
  OBVIOUS
<1>1. ReceiptStep /\ settledAt \in [Messages -> BOOLEAN] /\ completionGeneration \in Nat
  BY ReceiptSteps DEF IntakeInv, AdapterInv, ReceiptInv, BudgetInv
<1> USE DEF CollectInv, CollectorTypeOK
<1>2. ASSUME UNCHANGED <<settledAt, completionGeneration, collectorVars>> PROVE CollectInv'
  BY <1>2 DEF collectorVars, SettledReceipts
<1>3. ASSUME NEW m \in Messages, Finalize(m) PROVE CollectInv'
  <2>1. /\ completionGeneration' = completionGeneration + 1 /\ UNCHANGED <<after, known>>
        /\ poll' = [c \in Collectors |-> IF poll[c] = "parked" THEN "woken" ELSE poll[c]]
    BY <1>3 DEF Finalize
  <2>2. CollectorTypeOK'
    BY <2>1
  <2>3. \A c \in Collectors : after'[c] < completionGeneration' /\ poll'[c] # "parked"
    BY <1>1, <2>1
  <2> QED BY <1>1, <2>1, <2>2, <2>3
<1>4. ASSUME NEW c \in Collectors, Collect(c) PROVE CollectInv'
  <2>1. UNCHANGED <<settledAt, completionGeneration>> /\ SettledReceipts' = SettledReceipts
    BY <1>4 DEF Collect, PollCompletions, AnswerCompletions, AbandonPoll, ReadReceipts, receiptVars, SettledReceipts
  <2>2. SettledReceipts \in SUBSET Messages
    BY DEF SettledReceipts
  <2>3. CASE PollCompletions(c)
    BY <2>1, <2>3 DEF PollCompletions
  <2>4. CASE AnswerCompletions(c)
    BY <1>1, <2>1, <2>4 DEF AnswerCompletions
  <2>5. CASE AbandonPoll(c)
    BY <2>1, <2>5 DEF AbandonPoll
  <2>6. CASE ReadReceipts(c)
    BY <2>1, <2>2, <2>6 DEF ReadReceipts
  <2> QED BY <1>4, <2>3, <2>4, <2>5, <2>6 DEF Collect
<1>5. ASSUME NEW m \in Messages, NEW size \in Nat, NEW immediate \in BOOLEAN, Reserve(m, size, immediate), UNCHANGED collectorVars
      PROVE  CollectInv'
  BY <1>2, <1>5 DEF Reserve
<1> QED BY <1>1, <1>2, <1>3, <1>4, <1>5 DEF ReceiptStep

(* The other fields keep their types.                                       *)
LEMMA FieldsStep == IntakeInv /\ WaitsInv /\ FieldsInv /\ [Next]_vars => FieldsInv'
<1> SUFFICES ASSUME IntakeInv, WaitsInv, FieldsInv, [Next]_vars PROVE FieldsInv'
  OBVIOUS
<1> USE DEF FieldsInv
<1>1. ASSUME NEW m \in Messages, NEW size \in Sizes,
             AdmitQueued(m, size) \/ AdmitControl(m, size) \/ AdmitRefused(m, size)
      PROVE  FieldsInv'
  <2>1. ObserveMessage(m) /\ UNCHANGED <<stage, expired, interrupted, background>>
    BY <1>1 DEF AdmitQueued, AdmitControl, AdmitRefused, intakeVars
  <2>2. m \in Observable /\ generation \in Nat
    BY IntakeAssumption DEF WaitsInv
  <2> QED BY <2>1, <2>2 DEF ObserveMessage
<1>2. ASSUME NEW r \in Recoveries, RecoveryExpires(r) \/ \E m \in Messages : Recover(r, m)
      PROVE  FieldsInv'
  <2>1. CASE RecoveryExpires(r)
    BY <2>1 DEF RecoveryExpires, quiescenceVars
  <2>2. ASSUME NEW m \in Messages, Recover(r, m) PROVE FieldsInv'
    BY <2>2, IntakeAssumption DEF Recover, ObserveMessage, WaitsInv
  <2> QED BY <1>2, <2>1, <2>2
<1>3. ASSUME Drain \/ ReleaseRunner
      PROVE  FieldsInv'
  BY <1>3 DEF Drain, ReleaseRunner, EnterReceiver, quiescenceVars
<1>4. ASSUME \/ \E outcome \in {"ready", "failed"} : ActivationSettles(outcome)
             \/ BeginReceive \/ RejectUnreceived \/ \E outcome \in Settled : ReceiveSettles(outcome)
      PROVE  FieldsInv'
  BY <1>4 DEF ActivationSettles, BeginReceive, RejectUnreceived, ReceiveSettles, LeaveReceiver, quiescenceVars
<1>5. ASSUME BackgroundStarts \/ BackgroundEnds
      PROVE  FieldsInv'
  BY <1>5, IntakeAssumption DEF BackgroundStarts, BackgroundEnds, Unobserved, Background
<1>6. ASSUME \/ \E m \in Messages : \/ ControlSettles(m) \/ RequestCancellation(m) \/ DeadlinePasses(m)
                                    \/ RecordMessageOutcome(m) \/ FinalizeMessage(m)
             \/ \E id \in Ids : SettleEntry(id)
             \/ \E w \in Waiters : LeaveWait(w) \/ \E least \in 0..MaxGeneration : AwaitQuiescence(w, least)
             \/ \E c \in Collectors : Collect(c)
             \/ UNCHANGED vars
      PROVE  FieldsInv'
  <2>1. UNCHANGED <<messageGenerations, stage, expired, interrupted, background>>
    BY <1>6 DEF ControlSettles, RequestCancellation, DeadlinePasses, CancelMessage, RecordMessageOutcome,
                FinalizeMessage, SettleEntry, LeaveWait, AwaitQuiescence, AbandonWait, Await, Collect, Unobserved,
                quiescenceVars, intakeVars, vars
  <2> QED BY <2>1
<1> QED BY <1>1, <1>2, <1>3, <1>4, <1>5, <1>6 DEF Next

(* The receipts, the collectors and the fields, in every behaviour.         *)
LEMMA ReceiptsInvariant == Spec => [](BudgetInv /\ CollectInv /\ FieldsInv)
<1>1. Init => BudgetInv
  <2> SUFFICES ASSUME Init PROVE BudgetInv
    OBVIOUS
  <2>1. Unsettled = {}
    BY DEF Init, MessagesInit, Unsettled, Reservations
  <2>2. Cardinality(Held(Unsettled)) = 0
    BY <2>1, FS_EmptySet DEF Held
  <2> QED BY <2>2, MessagesAssumption DEF Init, MessagesInit, BudgetInv, PendingBytesExact
<1>2. Init => CollectInv
  BY DEF Init, MessagesInit, CollectorInit, CollectInv, CollectorTypeOK, SettledReceipts
<1>3. Init => FieldsInv
  BY IntakeAssumption DEF Init, QuiescenceInit, FieldsInv, Background
<1> QED BY <1>1, <1>2, <1>3, BudgetStep, CollectStep, FieldsStep, IntakeInvariant, WaitsInvariant, PTL DEF Spec

(* The bytes of the unsettled receipts are counted exactly and within the   *)
(* limit, whichever of outcome, cancel and deadline settles them; no        *)
(* collector sleeps on a completion it was not told of; and every field of  *)
(* the intake keeps its type.                                               *)
THEOREM IntakeCountsReceipts == Spec => []ReceiptsAreCounted
<1> DEFINE Parts == IntakeInv /\ WaitsInv /\ ActivationInv /\ BudgetInv /\ CollectInv /\ FieldsInv
<1>1. Parts => IntakeTypeOK
  <2> SUFFICES ASSUME Parts PROVE IntakeTypeOK
    OBVIOUS
  <2>1. MailboxTypeOK
    BY DEF IntakeInv, MailboxInv
  <2>2. ReceiptTypeOK
    BY DEF IntakeInv, AdapterInv, ReceiptInv, BudgetInv, PendingBytesExact, ReceiptTypeOK
  <2>3. CollectorTypeOK /\ QuiescenceTypeOK
    BY DEF CollectInv, FieldsInv, WaitsInv, QuiescenceTypeOK
  <2>4. direct \in [Messages -> ResultState] /\ pendingControls \in Int
    BY ControlsCountable DEF IntakeInv, AdapterInv, ReceiptInv, ControlsInv
  <2> QED BY <2>1, <2>2, <2>3, <2>4 DEF ActivationInv, FieldsInv, IntakeTypeOK
<1>2. Parts => PendingBytesExact /\ NoMissedCompletion
  BY DEF BudgetInv, CollectInv, NoMissedCompletion
<1>3. Spec => []ActivationInv
  <2>1. Init => ActivationInv
    BY DEF Init, ActivationInv
  <2> QED BY <2>1, ActivationStep, IntakeInvariant, PTL DEF Spec
<1> QED BY <1>1, <1>2, <1>3, IntakeInvariant, WaitsInvariant, ReceiptsInvariant, PTL DEF ReceiptsAreCounted

=============================================================================
