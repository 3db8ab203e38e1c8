-------------------------- MODULE ClaudeStoreProofs ---------------------------
(***************************************************************************)
(* Proofs about ClaudeStore, for every set of views, capacity and number   *)
(* of failures: the store and its flush implement the publication log, and *)
(* a commit that resolved is durable.                                      *)
(***************************************************************************)
EXTENDS ClaudeStore, SequenceTheorems, TLAPS

Operation == [kind : {"commit"}, view : Views] \cup [kind : {"acknowledge"}, revision : Nat]

(* The publication of a revision, and a prefix that has arrived.            *)
PublicationOf(l, r) == [revision |-> r, view |-> l[r]]
Arrived(n, l, P) == n \in 0..Len(l) /\ \A q \in 1..n : PublicationOf(l, q) \in P

(* A state of the store: its outbox holds the revisions after a prefix that *)
(* has arrived.                                                             *)
OutboxFrom(n, v, l) == {PublicationOf(l, r) : r \in n + 1..v}
StateOk(state, l, P) ==
  \E n, v \in Nat : /\ n <= v /\ v <= Len(l)
                    /\ Arrived(n, l, P)
                    /\ state = [revision |-> v, outbox |-> OutboxFrom(n, v, l)]

(* What a flush has still to send follows a prefix that has arrived.        *)
BatchOk(b, t, l, P) ==
  /\ t \in 0..Len(l)
  /\ \E n \in 0..Len(l) : Arrived(n, l, P) /\ b = OutboxFrom(n, t, l)

(* Only what has arrived is ever acknowledged.                              *)
OperationsOk(ops, l, P) ==
  /\ ops \in Seq(Operation)
  /\ \A i \in 1..Len(ops) : ops[i].kind = "acknowledge" => Arrived(ops[i].revision, l, P)

StoreInv ==
  /\ log \in Seq(Views)
  /\ StateOk(disk, log, published) /\ disk.revision = Len(log)
  /\ StateOk(current, log, published)
  /\ phase # "closed" /\ ~fenced => current = disk
  /\ phase = "closed" => operations = <<>>
  /\ phase = "initializing" => Len(operations) = 1
  /\ phase # "ready" => pass = "idle"
  /\ OperationsOk(operations, log, published)
  /\ pass = "sending" => BatchOk(batch, through, log, published)
  /\ confirmed \in 0..Len(log)

-----------------------------------------------------------------------------

(* The log and what the platform received only grow.                        *)
Grows(l, P, l2, P2) ==
  /\ l2 \in Seq(Views) /\ Len(l) <= Len(l2)
  /\ \A r \in 1..Len(l) : l2[r] = l[r]
  /\ P \subseteq P2

(* What held of a state, a batch and the operations still holds when they   *)
(* have grown.                                                              *)
LEMMA GrowthKeeps ==
  ASSUME NEW l \in Seq(Views), NEW P, NEW l2, NEW P2, Grows(l, P, l2, P2)
  PROVE  /\ \A n : Arrived(n, l, P) => Arrived(n, l2, P2)
         /\ \A state : StateOk(state, l, P) => StateOk(state, l2, P2)
         /\ \A b, t : BatchOk(b, t, l, P) => BatchOk(b, t, l2, P2)
         /\ \A ops : OperationsOk(ops, l, P) => OperationsOk(ops, l2, P2)
<1>1. Len(l) \in Nat /\ Len(l2) \in Nat /\ Len(l) <= Len(l2)
  BY LenProperties DEF Grows
<1>2. \A r \in 1..Len(l) : PublicationOf(l2, r) = PublicationOf(l, r)
  BY DEF Grows, PublicationOf
<1>3. \A n : Arrived(n, l, P) => Arrived(n, l2, P2)
  BY <1>1, <1>2 DEF Grows, Arrived
<1>4. \A n \in Nat, v \in 0..Len(l) : OutboxFrom(n, v, l2) = OutboxFrom(n, v, l)
  <2>1. \A n \in Nat, v \in 0..Len(l) : \A r \in n + 1..v : r \in 1..Len(l)
    BY <1>1
  <2> QED BY <2>1, <1>2 DEF OutboxFrom
<1>5. \A state : StateOk(state, l, P) => StateOk(state, l2, P2)
  <2> SUFFICES ASSUME NEW state, StateOk(state, l, P) PROVE StateOk(state, l2, P2)
    OBVIOUS
  <2>1. PICK n, v \in Nat : /\ n <= v /\ v <= Len(l) /\ Arrived(n, l, P)
                            /\ state = [revision |-> v, outbox |-> OutboxFrom(n, v, l)]
    BY DEF StateOk
  <2>2. Arrived(n, l2, P2) /\ OutboxFrom(n, v, l2) = OutboxFrom(n, v, l) /\ v <= Len(l2)
    BY <1>1, <1>3, <1>4, <2>1
  <2> QED BY <2>1, <2>2 DEF StateOk
<1>6. \A b, t : BatchOk(b, t, l, P) => BatchOk(b, t, l2, P2)
  <2> SUFFICES ASSUME NEW b, NEW t, BatchOk(b, t, l, P) PROVE BatchOk(b, t, l2, P2)
    OBVIOUS
  <2>1. PICK n \in 0..Len(l) : Arrived(n, l, P) /\ b = OutboxFrom(n, t, l)
    BY DEF BatchOk
  <2>2. t \in 0..Len(l) /\ n \in Nat /\ n \in 0..Len(l2) /\ t \in 0..Len(l2)
    BY <1>1 DEF BatchOk
  <2>3. Arrived(n, l2, P2) /\ b = OutboxFrom(n, t, l2)
    BY <1>3, <1>4, <2>1, <2>2
  <2> QED BY <2>2, <2>3 DEF BatchOk
<1>7. \A ops : OperationsOk(ops, l, P) => OperationsOk(ops, l2, P2)
  BY <1>3 DEF OperationsOk
<1> QED BY <1>3, <1>5, <1>6, <1>7

(* Sequences of operations: the head is one, and the rest stays correct.    *)
LEMMA HeadAndTail ==
  ASSUME NEW l, NEW P, NEW ops, OperationsOk(ops, l, P), ops # <<>>
  PROVE  /\ Head(ops) \in Operation
         /\ Head(ops).kind = "acknowledge" => Arrived(Head(ops).revision, l, P)
         /\ OperationsOk(Tail(ops), l, P)
<1>1. /\ ops \in Seq(Operation) /\ Len(ops) \in Nat /\ Len(ops) >= 1
      /\ Head(ops) = ops[1] /\ ops[1] \in Operation
  BY HeadTailProperties, EmptySeq, LenProperties, ElementOfSeq DEF OperationsOk
<1>2. /\ Tail(ops) \in Seq(Operation) /\ Len(Tail(ops)) = Len(ops) - 1
      /\ \A i \in 1..Len(Tail(ops)) : Tail(ops)[i] = ops[i + 1]
  BY <1>1, HeadTailProperties
<1>3. \A i \in 1..Len(Tail(ops)) : i + 1 \in 1..Len(ops)
  BY <1>1, <1>2
<1> QED BY <1>1, <1>2, <1>3 DEF OperationsOk

(* initialize has its one commit.                                           *)
LEMMA TailLeavesNothing ==
  ASSUME StoreInv, phase = "initializing"
  PROVE  Tail(operations) = <<>>
<1>1. operations \in Seq(Operation) /\ Len(operations) = 1
  BY DEF StoreInv, OperationsOk
<1>2. Tail(operations) \in Seq(Operation) /\ Len(Tail(operations)) = 0
  <2>1. operations # <<>>
    BY <1>1, EmptySeq
  <2> QED BY <1>1, <2>1, HeadTailProperties
<1> QED BY <1>2, EmptySeq

(* Appending an operation: a commit, or an acknowledgment of what arrived.  *)
LEMMA AppendOperation ==
  ASSUME NEW l, NEW P, NEW ops, OperationsOk(ops, l, P), NEW o \in Operation,
         o.kind = "acknowledge" => Arrived(o.revision, l, P)
  PROVE  OperationsOk(Append(ops, o), l, P)
<1>1. ops \in Seq(Operation) /\ Len(ops) \in Nat
  BY LenProperties DEF OperationsOk
<1>2. /\ Append(ops, o) \in Seq(Operation) /\ Len(Append(ops, o)) = Len(ops) + 1
      /\ \A i \in 1..Len(ops) : Append(ops, o)[i] = ops[i]
      /\ Append(ops, o)[Len(ops) + 1] = o
  BY <1>1, AppendProperties
<1>3. \A i \in 1..Len(ops) + 1 : i \in 1..Len(ops) \/ i = Len(ops) + 1
  BY <1>1
<1> QED BY <1>1, <1>2, <1>3 DEF OperationsOk


(* What has left the outbox is the prefix before it.                        *)
LEMMA RetiredIsPrefix ==
  ASSUME NEW l, NEW n \in Nat, NEW v \in Nat, n <= v
  PROVE  {r \in 1..v : \A p \in OutboxFrom(n, v, l) : p.revision # r} = 1..n
<1>1. \A p \in OutboxFrom(n, v, l) : p.revision \in n + 1..v
  BY DEF OutboxFrom, PublicationOf
<1>2. \A r \in n + 1..v : PublicationOf(l, r) \in OutboxFrom(n, v, l) /\ PublicationOf(l, r).revision = r
  BY DEF OutboxFrom, PublicationOf
<1>3. \A r \in 1..v : (\A p \in OutboxFrom(n, v, l) : p.revision # r) <=> r \in 1..n
  <2> SUFFICES ASSUME NEW r \in 1..v
               PROVE  (\A p \in OutboxFrom(n, v, l) : p.revision # r) <=> r \in 1..n
    OBVIOUS
  <2>1. CASE r \in 1..n
    <3>1. r \notin n + 1..v
      BY <2>1
    <3> QED BY <1>1, <2>1, <3>1
  <2>2. CASE r \notin 1..n
    <3>1. r \in n + 1..v
      BY <2>2
    <3> QED BY <1>2, <2>2, <3>1
  <2> QED BY <2>1, <2>2
<1> QED BY <1>3

(* The next batch follows the prefix that has arrived.                      *)
LEMMA NextBatchOk ==
  ASSUME NEW l \in Seq(Views), NEW P, NEW state, StateOk(state, l, P), NextBatch(state.outbox)
  PROVE  pass' = "sending" => BatchOk(batch', through', l, P)
<1> SUFFICES ASSUME pass' = "sending" PROVE BatchOk(batch', through', l, P)
  OBVIOUS
<1>1. PICK n, v \in Nat : /\ n <= v /\ v <= Len(l) /\ Arrived(n, l, P)
                          /\ state = [revision |-> v, outbox |-> OutboxFrom(n, v, l)]
  BY DEF StateOk
<1>2. /\ state.outbox # {} /\ batch' = state.outbox
      /\ \E last \in state.outbox : /\ \A p \in state.outbox : p.revision <= last.revision
                                    /\ through' = last.revision
  BY DEF NextBatch
<1>3. state.outbox = OutboxFrom(n, v, l)
  BY <1>1
<1>4. \A p \in OutboxFrom(n, v, l) : p.revision \in n + 1..v
  BY DEF OutboxFrom, PublicationOf
<1>5. \A r \in n + 1..v : PublicationOf(l, r) \in OutboxFrom(n, v, l) /\ PublicationOf(l, r).revision = r
  BY DEF OutboxFrom, PublicationOf
<1>6. through' = v
  <2>1. PICK last \in OutboxFrom(n, v, l) : /\ \A p \in OutboxFrom(n, v, l) : p.revision <= last.revision
                                            /\ through' = last.revision
    BY <1>2, <1>3
  <2>2. last.revision \in n + 1..v
    BY <1>4, <2>1
  <2>3. v \in n + 1..v
    BY <2>2
  <2>4. PublicationOf(l, v) \in OutboxFrom(n, v, l) /\ PublicationOf(l, v).revision = v
    BY <1>5, <2>3
  <2>5. v <= last.revision
    BY <2>1, <2>4
  <2> QED BY <2>1, <2>2, <2>5
<1>7. Len(l) \in Nat /\ through' \in 0..Len(l) /\ n \in 0..Len(l)
  BY <1>1, <1>6, LenProperties
<1> QED BY <1>1, <1>2, <1>3, <1>6, <1>7 DEF BatchOk

-----------------------------------------------------------------------------

LogStep == [Log!LogNext]_(Log!logVars)

(* A transaction that reaches the file appends a revision to the log, or    *)
(* retires revisions that have arrived.                                     *)
LEMMA LandStep ==
  ASSUME StoreInv, HasTurn, UNCHANGED published,
         Land(Draft(Head(operations)), Head(operations))
  PROVE  /\ Grows(log, published, log', published')
         /\ StateOk(disk', log', published') /\ disk'.revision = Len(log')
         /\ disk'.revision >= disk.revision
         /\ LogStep
<1> DEFINE o == Head(operations)
<1>1. /\ log \in Seq(Views) /\ Len(log) \in Nat
      /\ current = disk /\ disk.revision = Len(log)
      /\ operations # <<>>
  BY LenProperties DEF StoreInv, HasTurn
<1>2. /\ o \in Operation
      /\ o.kind = "acknowledge" => Arrived(o.revision, log, published)
  BY <1>1, HeadAndTail DEF StoreInv
<1>3. PICK n, v \in Nat : /\ n <= v /\ v <= Len(log) /\ Arrived(n, log, published)
                          /\ disk = [revision |-> v, outbox |-> OutboxFrom(n, v, log)]
  BY DEF StoreInv, StateOk
<1>4. v = Len(log)
  BY <1>1, <1>3
<1>5. Retired = 1..n
  BY <1>3, RetiredIsPrefix DEF Retired
<1>6. CASE o.kind = "commit"
  <2>1. o.view \in Views
    BY <1>2, <1>6 DEF Operation
  <2>2. disk' = [revision |-> v + 1, outbox |-> OutboxFrom(n, v, log) \cup {[revision |-> v + 1, view |-> o.view]}]
    BY <1>1, <1>3, <1>6 DEF Land, Draft, Committed
  <2>3. log' = Append(log, o.view)
    BY <1>4, <1>6, <2>2, <1>1 DEF Land, Draft, Committed
  <2>4. /\ log' \in Seq(Views) /\ Len(log') = Len(log) + 1
        /\ \A r \in 1..Len(log) : log'[r] = log[r]
        /\ log'[Len(log) + 1] = o.view
    BY <1>1, <2>1, <2>3, AppendProperties
  <2>5. Grows(log, published, log', published')
    BY <1>1, <2>4 DEF Grows
  <2>6. OutboxFrom(n, v + 1, log') = OutboxFrom(n, v, log) \cup {[revision |-> v + 1, view |-> o.view]}
    <3>1. \A r \in n + 1..v : PublicationOf(log', r) = PublicationOf(log, r)
      BY <1>1, <1>4, <2>4 DEF PublicationOf
    <3>2. PublicationOf(log', v + 1) = [revision |-> v + 1, view |-> o.view]
      BY <1>4, <2>4 DEF PublicationOf
    <3>3. \A r : r \in n + 1..v + 1 <=> (r \in n + 1..v \/ r = v + 1)
      BY <1>3
    <3> QED BY <3>1, <3>2, <3>3 DEF OutboxFrom
  <2>7. Arrived(n, log', published')
    BY <1>1, <1>3, <2>5, GrowthKeeps
  <2>8. StateOk(disk', log', published') /\ disk'.revision = Len(log')
    <3>1. v + 1 \in Nat /\ n <= v + 1 /\ v + 1 <= Len(log')
      BY <1>1, <1>3, <1>4, <2>4
    <3>2. disk' = [revision |-> v + 1, outbox |-> OutboxFrom(n, v + 1, log')]
      BY <2>2, <2>6
    <3> QED BY <1>4, <2>4, <2>7, <3>1, <3>2 DEF StateOk
  <2>9. Retired' = 1..n
    <3>1. disk'.revision = v + 1 /\ disk'.outbox = OutboxFrom(n, v + 1, log')
      BY <2>2, <2>6
    <3>2. v + 1 \in Nat /\ n <= v + 1
      BY <1>3
    <3> QED BY <3>1, <3>2, RetiredIsPrefix DEF Retired
  <2>10. LogStep
    BY <1>5, <2>1, <2>3, <2>9 DEF LogStep, Log!LogNext, Log!CommitRevision
  <2> QED BY <1>1, <1>3, <1>4, <2>2, <2>5, <2>8, <2>10
<1>7. CASE o.kind = "acknowledge"
  <2> DEFINE m == o.revision
             k == IF m > n THEN m ELSE n
  <2>1. m \in Nat /\ m <= v /\ Arrived(m, log, published)
    BY <1>2, <1>4, <1>7 DEF Operation, Arrived
  <2>2. log' = log
    BY <1>7 DEF Land
  <2>3. disk' = [revision |-> v, outbox |-> {p \in OutboxFrom(n, v, log) : p.revision > m}]
    BY <1>1, <1>3, <1>7 DEF Land, Draft, Acknowledged
  <2>4. k \in Nat /\ k <= v /\ Arrived(k, log, published)
    BY <1>3, <2>1
  <2>5. {p \in OutboxFrom(n, v, log) : p.revision > m} = OutboxFrom(k, v, log)
    <3>1. \A r \in Nat : PublicationOf(log, r).revision = r
      BY DEF PublicationOf
    <3>2. \A r \in Nat : (r \in n + 1..v /\ r > m) <=> r \in k + 1..v
      BY <1>3, <2>1
    <3>3. \A r \in n + 1..v : r \in Nat
      BY <1>3
    <3>4. \A r \in k + 1..v : r \in Nat
      BY <2>4
    <3> QED BY <3>1, <3>2, <3>3, <3>4 DEF OutboxFrom
  <2>6. Grows(log, published, log', published')
    BY <1>1, <2>2 DEF Grows
  <2>7. StateOk(disk', log', published') /\ disk'.revision = Len(log')
    BY <1>3, <1>4, <2>2, <2>3, <2>4, <2>5 DEF StateOk
  <2>8. Retired' = 1..k
    <3>1. disk'.revision = v /\ disk'.outbox = OutboxFrom(k, v, log')
      BY <2>2, <2>3, <2>5
    <3> QED BY <2>4, <3>1, RetiredIsPrefix DEF Retired
  <2>9. LogStep
    <3>1. CASE m <= n
      <4>1. k = n
        BY <1>3, <2>1, <3>1
      <4> QED BY <1>5, <2>2, <2>8, <4>1 DEF LogStep, Log!logVars
    <3>2. CASE m > n
      <4>1. k = m /\ m \in 1..Len(log)
        BY <1>3, <1>4, <2>1, <3>2
      <4>2. \A q \in 1..m : Log!Received(q)
        BY <2>1 DEF Arrived, PublicationOf, Log!Received
      <4>3. Retired \subseteq 1..m
        BY <1>3, <1>5, <2>1, <3>2
      <4> QED BY <2>2, <2>8, <4>1, <4>2, <4>3 DEF LogStep, Log!LogNext, Log!RetireRevisions
    <3> QED BY <1>3, <2>1, <3>1, <3>2
  <2> QED BY <1>3, <1>4, <2>3, <2>6, <2>7, <2>9
<1> QED BY <1>2, <1>6, <1>7 DEF Operation

(* What is sent next is the revision after those that arrived.              *)
LEMMA NextToSendIsNext ==
  ASSUME NEW l \in Seq(Views), NEW P, BatchOk(batch, through, l, P)
  PROVE  \A p \in NextToSend :
           \E r \in 1..Len(l) : /\ r <= through /\ p = PublicationOf(l, r)
                               /\ Arrived(r - 1, l, P)
                               /\ batch = OutboxFrom(r - 1, through, l)
<1>1. PICK n \in 0..Len(l) : Arrived(n, l, P) /\ batch = OutboxFrom(n, through, l)
  BY DEF BatchOk
<1>2. Len(l) \in Nat /\ through \in 0..Len(l)
  BY LenProperties DEF BatchOk
<1> SUFFICES ASSUME NEW p \in NextToSend
             PROVE  \E r \in 1..Len(l) : /\ r <= through /\ p = PublicationOf(l, r)
                                       /\ Arrived(r - 1, l, P)
                                       /\ batch = OutboxFrom(r - 1, through, l)
  OBVIOUS
<1>3. p \in batch /\ \A q \in batch : p.revision <= q.revision
  BY DEF NextToSend
<1>4. PICK r \in n + 1..through : p = PublicationOf(l, r)
  BY <1>1, <1>3 DEF OutboxFrom
<1>5. n + 1 \in n + 1..through
  BY <1>1, <1>2, <1>4
<1>6. PublicationOf(l, n + 1) \in batch
  BY <1>1, <1>5 DEF OutboxFrom
<1>7. p.revision <= n + 1
  BY <1>3, <1>6 DEF PublicationOf
<1>8. p.revision = r
  BY <1>4 DEF PublicationOf
<1>9. r = n + 1 /\ r \in 1..Len(l) /\ r <= through /\ r - 1 = n
  BY <1>1, <1>2, <1>4, <1>7, <1>8
<1> QED BY <1>1, <1>4, <1>9

(* One more revision arrives, after all that precede it.                    *)
LEMMA PublishStep ==
  ASSUME log \in Seq(Views), NEW r \in 1..Len(log), Arrived(r - 1, log, published),
         published' = published \cup {PublicationOf(log, r)},
         UNCHANGED <<disk, log>>
  PROVE  /\ Grows(log, published, log', published')
         /\ Arrived(r, log', published')
         /\ LogStep
<1>1. Len(log) \in Nat
  BY LenProperties
<1>2. Grows(log, published, log', published')
  BY <1>1 DEF Grows
<1>3. \A q \in 1..r : q \in 1..r - 1 \/ q = r
  BY <1>1
<1>4. Arrived(r, log', published')
  BY <1>1, <1>3 DEF Arrived
<1>5. \A q \in 1..r - 1 : Log!Received(q)
  BY DEF Arrived, PublicationOf, Log!Received
<1>6. UNCHANGED Retired
  BY DEF Retired
<1> QED BY <1>2, <1>4, <1>5, <1>6 DEF LogStep, Log!LogNext, Log!PublishRevision, PublicationOf

(* A step that leaves the file and the platform alone stutters on the log.  *)
LEMMA QuietStep ==
  ASSUME UNCHANGED <<disk, log, published>>
  PROVE  LogStep
BY DEF LogStep, Log!logVars, Retired

(* A store that has not been opened satisfies the invariant, and its log *)
(* is empty.                                                             *)
LEMMA StoreInit == Init => StoreInv /\ Log!LogInit
<1> SUFFICES ASSUME Init PROVE StoreInv /\ Log!LogInit
  OBVIOUS
<1>1. /\ log = <<>> /\ log \in Seq(Views) /\ Len(log) = 0 /\ published = {}
      /\ disk = [revision |-> 0, outbox |-> {}] /\ current = disk
      /\ operations = <<>> /\ operations \in Seq(Operation) /\ Len(operations) = 0
      /\ pass = "idle" /\ phase = "closed" /\ confirmed = 0
  BY EmptySeq DEF Init
<1>2. OutboxFrom(0, 0, log) = {}
  BY DEF OutboxFrom
<1>3. Arrived(0, log, published)
  BY <1>1 DEF Arrived
<1>4. StateOk(disk, log, published)
  <2>1. disk = [revision |-> 0, outbox |-> OutboxFrom(0, 0, log)] /\ 0 <= Len(log) /\ 0 \in Nat
    BY <1>1, <1>2, SMTT(30)
  <2> QED BY <1>3, <2>1 DEF StateOk
<1>5. OperationsOk(operations, log, published)
  BY <1>1 DEF OperationsOk
<1>6. Retired = {}
  BY <1>1 DEF Retired
<1> QED BY <1>1, <1>4, <1>5, <1>6 DEF StoreInv, Log!LogInit

(* Requests: initialize opens the store, a commit waits for its turn.       *)
LEMMA RequestStep ==
  ASSUME StoreInv, NEW view \in Views, Initialize(view) \/ RequestCommit(view)
  PROVE  StoreInv' /\ LogStep
<1>1. Commit(view) \in Operation /\ Commit(view).kind = "commit"
  BY DEF Commit, Operation
<1>2. LogStep
  BY QuietStep DEF Initialize, RequestCommit, fileVars
<1>3. CASE Initialize(view)
  <2>1. OperationsOk(<<>>, log, published)
    BY EmptySeq DEF OperationsOk
  <2>2. OperationsOk(Append(<<>>, Commit(view)), log, published)
    BY <1>1, <2>1, AppendOperation
  <2>3. Append(<<>>, Commit(view)) = <<Commit(view)>> /\ Len(<<Commit(view)>>) = 1
    OBVIOUS
  <2> QED BY <1>2, <1>3, <2>2, <2>3 DEF StoreInv, Initialize, fileVars, flushVars
<1>4. CASE RequestCommit(view)
  <2>1. OperationsOk(operations', log, published)
    BY <1>1, <1>4, AppendOperation DEF StoreInv, RequestCommit
  <2> QED BY <1>2, <1>4, <2>1 DEF StoreInv, RequestCommit, fileVars, flushVars
<1> QED BY <1>3, <1>4

(* A write that succeeds appends one revision to the log. *)
LEMMA PersistStep == StoreInv /\ Persist => StoreInv' /\ LogStep
<1> SUFFICES ASSUME StoreInv, Persist PROVE StoreInv' /\ LogStep
  OBVIOUS
<1>1. /\ HasTurn /\ operations # <<>> /\ ~fenced /\ fenced' = fenced
      /\ Land(Draft(Head(operations)), Head(operations))
      /\ current' = Draft(Head(operations)) /\ current' = disk'
      /\ operations' = Tail(operations) /\ phase' = "ready"
      /\ published' = published
  BY DEF Persist, HasTurn, Land
<1>2. /\ Grows(log, published, log', published')
      /\ StateOk(disk', log', published') /\ disk'.revision = Len(log')
      /\ disk'.revision >= disk.revision
      /\ LogStep
  BY <1>1, LandStep
<1>3. OperationsOk(operations', log', published')
  BY <1>1, <1>2, HeadAndTail, GrowthKeeps DEF StoreInv
<1>4. pass' = "sending" => BatchOk(batch', through', log', published')
  <2>1. CASE Head(operations).kind = "acknowledge"
    <3>1. NextBatch(current'.outbox)
      BY <1>1, <2>1 DEF Persist
    <3> QED BY <1>1, <1>2, <3>1, NextBatchOk DEF Grows
  <2>2. CASE Head(operations).kind # "acknowledge"
    <3>1. UNCHANGED flushVars
      BY <2>2 DEF Persist
    <3> QED BY <1>2, <3>1, GrowthKeeps DEF StoreInv, flushVars
  <2> QED BY <2>1, <2>2
<1>5. confirmed' \in 0..Len(log')
  <2>1. Len(log') \in Nat /\ Len(log) <= Len(log') /\ confirmed \in 0..Len(log) /\ Len(log) \in Nat
    BY <1>2, LenProperties DEF Grows, StoreInv
  <2>2. confirmed' = confirmed \/ confirmed' = Larger(confirmed, disk'.revision)
    BY <1>1 DEF Persist
  <2> QED BY <1>2, <2>1, <2>2 DEF Larger
<1> QED BY <1>1, <1>2, <1>3, <1>4, <1>5 DEF StoreInv, Grows

(* A write that fails fences the store, whether or not it landed. *)
LEMMA PersistFailsStep == StoreInv /\ PersistFails => StoreInv' /\ LogStep
<1> SUFFICES ASSUME StoreInv, PersistFails PROVE StoreInv' /\ LogStep
  OBVIOUS
<1>1. /\ HasTurn /\ operations # <<>> /\ operations' = Tail(operations) /\ fenced'
      /\ phase # "closed"
      /\ UNCHANGED <<current, batch, through, published, confirmed>>
      /\ phase' = "closed" => phase = "initializing"
      /\ phase' = phase \/ phase' = "closed"
      /\ pass' = pass \/ pass' = "idle"
  BY DEF StoreInv, PersistFails, HasTurn, RejectHead
<1>2. /\ Grows(log, published, log', published')
      /\ StateOk(disk', log', published') /\ disk'.revision = Len(log')
      /\ LogStep
  <2>1. CASE Land(Draft(Head(operations)), Head(operations))
    BY <1>1, <2>1, LandStep
  <2>2. CASE UNCHANGED fileVars
    <3>1. Grows(log, published, log', published')
      BY <1>1, <2>2, LenProperties DEF StoreInv, Grows, fileVars
    <3> QED BY <1>1, <2>2, <3>1, QuietStep DEF StoreInv, fileVars
  <2> QED BY <2>1, <2>2 DEF PersistFails
<1>3. OperationsOk(operations', log', published')
  BY <1>1, <1>2, HeadAndTail, GrowthKeeps DEF StoreInv
<1>4. StateOk(current', log', published')
  BY <1>1, <1>2, GrowthKeeps DEF StoreInv
<1>5. pass' = "sending" => BatchOk(batch', through', log', published')
  BY <1>1, <1>2, GrowthKeeps DEF StoreInv
<1>6. confirmed' \in 0..Len(log')
  BY <1>1, <1>2, LenProperties DEF StoreInv, Grows
<1>7. /\ phase' # "initializing"
      /\ phase' = "closed" => operations' = <<>>
      /\ phase' # "ready" => pass' = "idle"
  BY <1>1, TailLeavesNothing DEF StoreInv, PersistFails, RejectHead
<1> QED BY <1>1, <1>2, <1>3, <1>4, <1>5, <1>6, <1>7 DEF StoreInv, Grows

(* A rejected transaction leaves file and log alone. *)
LEMMA RejectStep == StoreInv /\ (RejectDue \/ MutationThrows) => StoreInv' /\ LogStep
<1> SUFFICES ASSUME StoreInv, RejectDue \/ MutationThrows PROVE StoreInv' /\ LogStep
  OBVIOUS
<1>1. /\ operations # <<>> /\ operations' = Tail(operations) /\ phase # "closed"
      /\ phase' = IF phase = "initializing" THEN "closed" ELSE phase
      /\ pass' = pass \/ pass' = "idle"
      /\ UNCHANGED <<disk, log, current, fenced, batch, through, published, confirmed>>
  BY DEF StoreInv, RejectDue, MutationThrows, HasTurn, RejectHead, fileVars
<1>2. LogStep
  BY <1>1, QuietStep
<1>3. OperationsOk(operations', log', published')
  BY <1>1, HeadAndTail DEF StoreInv
<1>4. phase' = "closed" => operations' = <<>>
  BY <1>1, TailLeavesNothing
<1>5. /\ phase' # "initializing"
      /\ phase' # "ready" => pass' = "idle"
  BY <1>1 DEF StoreInv
<1> QED BY <1>1, <1>2, <1>3, <1>4, <1>5 DEF StoreInv

(* A flush captures a batch that follows what has arrived. *)
LEMMA FlushStep == StoreInv /\ Flush => StoreInv' /\ LogStep
<1> SUFFICES ASSUME StoreInv, Flush PROVE StoreInv' /\ LogStep
  OBVIOUS
<1>1. /\ phase = "ready" /\ NextBatch(current.outbox)
      /\ UNCHANGED <<disk, log, current, phase, fenced, operations, published, confirmed>>
  BY DEF Flush, fileVars, storeVars
<1>2. pass' = "sending" => BatchOk(batch', through', log, published)
  BY <1>1, NextBatchOk DEF StoreInv
<1>3. LogStep
  BY <1>1, QuietStep
<1> QED BY <1>1, <1>2, <1>3 DEF StoreInv

(* A publication that arrives continues what has arrived. *)
LEMMA SendNextStep == StoreInv /\ SendNext => StoreInv' /\ LogStep
<1> SUFFICES ASSUME StoreInv, SendNext PROVE StoreInv' /\ LogStep
  OBVIOUS
<1>1. PICK p \in NextToSend : Sent(p)
  BY DEF SendNext
<1>2. pass = "sending" /\ BatchOk(batch, through, log, published) /\ log \in Seq(Views) /\ Len(log) \in Nat
  BY LenProperties DEF SendNext, StoreInv
<1>3. PICK r \in 1..Len(log) : /\ r <= through /\ p = PublicationOf(log, r)
                               /\ Arrived(r - 1, log, published)
                               /\ batch = OutboxFrom(r - 1, through, log)
  BY <1>1, <1>2, NextToSendIsNext
<1>4. /\ published' = published \cup {PublicationOf(log, r)}
      /\ batch' = batch \ {p}
      /\ UNCHANGED <<disk, log, current, phase, fenced, through, confirmed>>
  BY <1>1, <1>3 DEF Sent, fileVars
<1>5. /\ Grows(log, published, log', published')
      /\ Arrived(r, log', published')
      /\ LogStep
  BY <1>2, <1>3, <1>4, PublishStep
<1>6. through \in 0..Len(log)
  BY <1>2 DEF BatchOk
<1>7. batch' = OutboxFrom(r, through, log)
  <2>1. (r - 1) + 1 = r
    OBVIOUS
  <2>2. \A q \in r..through : PublicationOf(log, q) # p <=> q # r
    BY <1>3 DEF PublicationOf
  <2>3. \A q : q \in r + 1..through <=> (q \in r..through /\ q # r)
    BY <1>6
  <2> QED BY <1>3, <1>4, <2>1, <2>2, <2>3 DEF OutboxFrom
<1>8. pass' = "sending" => BatchOk(batch', through', log', published')
  BY <1>4, <1>5, <1>6, <1>7 DEF BatchOk
<1>9. OperationsOk(operations', log', published') /\ phase = "ready"
  <2>1. OperationsOk(operations, log', published')
    BY <1>2, <1>5, GrowthKeeps DEF StoreInv
  <2>2. CASE batch' = {}
    <3>1. r = through
      <4>1. r + 1 \notin r + 1..through
        BY <1>7, <2>2 DEF OutboxFrom
      <4> QED BY <1>3, <1>6, <4>1
    <3>2. Acknowledge(through) \in Operation /\ Acknowledge(through).revision = through
      BY <1>6 DEF Acknowledge, Operation
    <3>3. operations' = Append(operations, Acknowledge(through))
      BY <1>1, <2>2 DEF Sent
    <3> QED BY <1>2, <1>5, <2>1, <3>1, <3>2, <3>3, AppendOperation DEF StoreInv
  <2>3. CASE batch' # {}
    BY <1>1, <1>2, <2>1, <2>3 DEF Sent, StoreInv
  <2> QED BY <2>2, <2>3
<1>10. StateOk(disk', log', published') /\ StateOk(current', log', published')
  BY <1>2, <1>4, <1>5, GrowthKeeps DEF StoreInv
<1> QED BY <1>4, <1>5, <1>8, <1>9, <1>10 DEF StoreInv

(* A publication that fails may have arrived. *)
LEMMA SendFailsStep == StoreInv /\ SendFails => StoreInv' /\ LogStep
<1> SUFFICES ASSUME StoreInv, SendFails PROVE StoreInv' /\ LogStep
  OBVIOUS
<1>1. /\ pass = "sending" /\ pass' = "idle" /\ BatchOk(batch, through, log, published)
      /\ log \in Seq(Views) /\ Len(log) \in Nat
      /\ UNCHANGED <<disk, log, current, phase, fenced, operations, confirmed>>
  BY LenProperties DEF SendFails, StoreInv, fileVars, storeVars
<1>2. Grows(log, published, log', published') /\ LogStep
  <2>1. CASE UNCHANGED published
    <3>1. Grows(log, published, log', published')
      BY <1>1, <2>1 DEF Grows
    <3> QED BY <1>1, <2>1, <3>1, QuietStep
  <2>2. CASE published' = published \cup NextToSend /\ NextToSend = {}
    <3>1. published' = published
      BY <2>2
    <3> QED BY <2>1, <3>1
  <2>3. CASE published' = published \cup NextToSend /\ NextToSend # {}
    <3>1. PICK p \in NextToSend : TRUE
      BY <2>3
    <3>2. PICK r \in 1..Len(log) : p = PublicationOf(log, r) /\ Arrived(r - 1, log, published)
      BY <1>1, <3>1, NextToSendIsNext
    <3>3. NextToSend = {p}
      <4> SUFFICES ASSUME NEW q \in NextToSend PROVE q = p
        BY <3>1
      <4>1. PICK t \in 1..Len(log) : q = PublicationOf(log, t)
        BY <1>1, NextToSendIsNext
      <4>2. p.revision <= q.revision /\ q.revision <= p.revision
        BY <3>1 DEF NextToSend
      <4>3. p.revision = r /\ q.revision = t
        BY <3>2, <4>1 DEF PublicationOf
      <4>4. r = t
        BY <1>1, <4>2, <4>3
      <4> QED BY <3>2, <4>1, <4>4
    <3>4. published' = published \cup {PublicationOf(log, r)}
      BY <2>3, <3>2, <3>3
    <3> QED BY <1>1, <3>2, <3>4, PublishStep
  <2> QED BY <2>1, <2>2, <2>3 DEF SendFails
<1>3. /\ OperationsOk(operations', log', published')
      /\ StateOk(disk', log', published') /\ StateOk(current', log', published')
  BY <1>1, <1>2, GrowthKeeps DEF StoreInv
<1> QED BY <1>1, <1>2, <1>3 DEF StoreInv

(* A lost process leaves what the file holds. *)
LEMMA CrashStep == StoreInv /\ (Crash \/ Replace) => StoreInv' /\ LogStep
<1> SUFFICES ASSUME StoreInv, Crash \/ Replace PROVE StoreInv' /\ LogStep
  OBVIOUS
<1>1. /\ phase' = "closed" /\ operations' = <<>> /\ pass' = "idle"
      /\ UNCHANGED <<current, fenced, published, confirmed>>
  BY DEF Crash, Replace, Lost
<1>2. /\ Grows(log, published, log', published')
      /\ StateOk(disk', log', published') /\ disk'.revision = Len(log')
      /\ LogStep
  <2>1. CASE HasTurn /\ Land(Draft(Head(operations)), Head(operations))
    BY <1>1, <2>1, LandStep
  <2>2. CASE UNCHANGED fileVars
    <3>1. Grows(log, published, log', published')
      BY <1>1, <2>2, LenProperties DEF StoreInv, Grows, fileVars
    <3> QED BY <1>1, <2>2, <3>1, QuietStep DEF StoreInv, fileVars
  <2> QED BY <2>1, <2>2 DEF Crash, Replace
<1>3. OperationsOk(operations', log', published')
  BY <1>1, EmptySeq DEF OperationsOk
<1>4. StateOk(current', log', published')
  BY <1>1, <1>2, GrowthKeeps DEF StoreInv
<1>5. confirmed' \in 0..Len(log')
  BY <1>1, <1>2, LenProperties DEF StoreInv, Grows
<1> QED BY <1>1, <1>2, <1>3, <1>4, <1>5 DEF StoreInv, Grows

(* Every step of the store preserves the invariant and is a step of the *)
(* log.                                                                 *)
LEMMA StoreStep == StoreInv /\ [Next]_vars => StoreInv' /\ LogStep
<1> SUFFICES ASSUME StoreInv, [Next]_vars PROVE StoreInv' /\ LogStep
  OBVIOUS
<1>1. CASE \E view \in Views : Initialize(view) \/ RequestCommit(view)
  BY <1>1, RequestStep
<1>2. CASE Persist
  BY <1>2, PersistStep
<1>3. CASE PersistFails
  BY <1>3, PersistFailsStep
<1>4. CASE RejectDue \/ MutationThrows
  BY <1>4, RejectStep
<1>5. CASE Flush
  BY <1>5, FlushStep
<1>6. CASE SendNext
  BY <1>6, SendNextStep
<1>7. CASE SendFails
  BY <1>7, SendFailsStep
<1>8. CASE Crash \/ Replace
  BY <1>8, CrashStep
<1>9. CASE UNCHANGED vars
  <2>1. LogStep
    BY <1>9, QuietStep DEF vars, fileVars
  <2> QED BY <1>9, <2>1 DEF StoreInv, vars, fileVars, storeVars, flushVars
<1> QED BY <1>1, <1>2, <1>3, <1>4, <1>5, <1>6, <1>7, <1>8, <1>9 DEF Next

(* StoreInv holds of every behaviour of the store.                          *)
THEOREM StoreInvariant == Spec => []StoreInv
BY StoreInit, StoreStep, PTL DEF Spec

(* Whatever fails or is lost, a commit that resolved is in the file for     *)
(* good (the comment on persist, claude-durable-state.ts:132).              *)
THEOREM ConfirmedRevisionsAreDurable == Spec => []ConfirmedIsDurable
<1>1. StoreInv => ConfirmedIsDurable
  <2> SUFFICES ASSUME StoreInv PROVE ConfirmedIsDurable
    OBVIOUS
  <2>1. PICK n, v \in Nat : /\ n <= v /\ v <= Len(log) /\ Arrived(n, log, published)
                            /\ disk = [revision |-> v, outbox |-> OutboxFrom(n, v, log)]
    BY DEF StoreInv, StateOk
  <2>2. Len(log) \in Nat /\ v = Len(log) /\ confirmed \in 0..v
    BY <2>1, LenProperties DEF StoreInv
  <2>3. ASSUME NEW r \in 1..confirmed PROVE \E p \in disk.outbox \cup published : p.revision = r
    <3>1. PublicationOf(log, r).revision = r
      BY DEF PublicationOf
    <3>2. CASE r <= n
      <4>1. PublicationOf(log, r) \in published
        BY <2>1, <2>2, <3>2 DEF Arrived
      <4> QED BY <3>1, <4>1
    <3>3. CASE r > n
      <4>1. r \in n + 1..v
        BY <2>1, <2>2, <3>3
      <4>2. PublicationOf(log, r) \in disk.outbox
        BY <2>1, <4>1 DEF OutboxFrom
      <4> QED BY <3>1, <4>2
    <3> QED BY <2>1, <2>2, <3>2, <3>3
  <2> QED BY <2>1, <2>2, <2>3 DEF ConfirmedIsDurable
<1> QED BY <1>1, StoreInvariant, PTL

(* The store and its flush implement the publication log: every revision    *)
(* has one content for ever, and revisions reach the platform in order and  *)
(* before they leave the outbox, across failed writes and lost processes.   *)
THEOREM StoreImplementsLog == Spec => ImplementsLog
<1>1. Init => Log!LogInit
  BY StoreInit
<1>2. StoreInv /\ [Next]_vars => [Log!LogNext]_(Log!logVars)
  BY StoreStep DEF LogStep
<1> QED BY <1>1, <1>2, StoreInvariant, PTL DEF Spec, ImplementsLog, Log!LogSpec

=============================================================================
