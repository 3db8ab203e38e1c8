------------------------------- MODULE Mailbox -------------------------------
(***************************************************************************)
(* InMemoryMailbox (src/mailbox.ts): the FIFO intake mailbox of one        *)
(* runtime activation.  Every action is one run-to-completion job of the   *)
(* JavaScript event loop: a call into the mailbox, the microtask queued by *)
(* enqueue, the reaction that settles a result, or the `finally` that      *)
(* releases the runner.  Jobs that are ready may run in any order, which   *)
(* includes every order the event loop can produce.                        *)
(*                                                                         *)
(* The receiver the mailbox runs is the caller's code: it may run for any  *)
(* time, return, or throw.                                                 *)
(***************************************************************************)
EXTENDS Naturals, Sequences, FiniteSets, SequencesExt

CONSTANTS Ids,      \* the identities messages are enqueued under
          None      \* no identity

ASSUME MailboxAssumption == None \notin Ids /\ IsFiniteSet(Ids)

VARIABLES
  result,    \* result[id]: the cached promise of `results`, "none" when absent
  queue,     \* identities of the entries waiting in `queue`
  running,   \* the entry whose run() has not reached its finally, or None
  pending,   \* `pending`
  settles,   \* results that settled and whose settle() reaction has not run
  drains,    \* drain() microtasks queued by enqueue and not yet run
  sequence,  \* sequence[id]: the sequence enqueue gave it, 0 when absent
  runs       \* runs[id]: how many times its receiver was invoked

mailboxVars == <<result, queue, running, pending, settles, drains, sequence, runs>>

Settled == {"resolved", "rejected"}
ResultState == {"none", "pending"} \cup Settled

Enqueued == {id \in Ids : result[id] # "none"}
Waiting == {queue[i] : i \in 1..Len(queue)}
isIdle == pending = 0

-----------------------------------------------------------------------------

MailboxInit ==
  /\ result = [id \in Ids |-> "none"]
  /\ queue = <<>>
  /\ running = None
  /\ pending = 0
  /\ settles = {}
  /\ drains = 0
  /\ sequence = [id \in Ids |-> 0]
  /\ runs = [id \in Ids |-> 0]

(* enqueue of an identity the mailbox has not seen; for a known identity it *)
(* returns the cached promise and changes nothing.                          *)
Enqueue(id) ==
  /\ result[id] = "none"
  /\ result' = [result EXCEPT ![id] = "pending"]
  /\ queue' = Append(queue, id)
  /\ pending' = pending + 1
  /\ drains' = drains + 1
  /\ sequence' = [sequence EXCEPT ![id] = Cardinality(Enqueued) + 1]
  /\ UNCHANGED <<running, settles, runs>>

(* Seeded faults: cancel rejects without removing the entry; removes it     *)
(* without rejecting.                                                       *)
CancelKeepsEntry(id) ==
  /\ id \in Waiting
  /\ result[id] = "pending"
  /\ result' = [result EXCEPT ![id] = "rejected"]
  /\ settles' = settles \cup {id}
  /\ UNCHANGED <<queue, running, pending, drains, sequence, runs>>

CancelWithoutReject(id) ==
  \E index \in 1..Len(queue) :
    /\ queue[index] = id
    /\ queue' = RemoveAt(queue, index)
    /\ UNCHANGED <<result, settles, running, pending, drains, sequence, runs>>

(* cancel: an entry still waiting leaves the queue and its result rejects.  *)
CancelQueued(id) ==
  \E index \in 1..Len(queue) :
    /\ queue[index] = id
    /\ queue' = RemoveAt(queue, index)
    /\ result' = [result EXCEPT ![id] = "rejected"]
    /\ settles' = settles \cup {id}
    /\ UNCHANGED <<running, pending, drains, sequence, runs>>

(* Seeded fault: drain takes the newest entry.                              *)
StartNewest ==
  IF queue = <<>>
  THEN running' = None /\ UNCHANGED <<queue, runs>>
  ELSE LET newest == queue[Len(queue)] IN
       /\ running' = newest
       /\ queue' = SubSeq(queue, 1, Len(queue) - 1)
       /\ runs' = [runs EXCEPT ![newest] = @ + 1]

(* drain, from a state in which no entry is running: it takes the head and  *)
(* invokes its receiver, or leaves the mailbox without a runner.            *)
StartNext ==
  IF queue = <<>>
  THEN running' = None /\ UNCHANGED <<queue, runs>>
  ELSE /\ running' = Head(queue)
       /\ queue' = Tail(queue)
       /\ runs' = [runs EXCEPT ![Head(queue)] = @ + 1]

(* The microtask enqueue queued: drain, which returns while an entry runs.  *)
DrainJob ==
  /\ drains > 0
  /\ drains' = drains - 1
  /\ IF running = None THEN StartNext ELSE UNCHANGED <<running, queue, runs>>
  /\ UNCHANGED <<result, pending, settles, sequence>>

(* The receiver of the running entry returns or throws, settling its result.*)
ReceiverSettles(outcome) ==
  /\ running # None
  /\ result[running] = "pending"
  /\ result' = [result EXCEPT ![running] = outcome]
  /\ settles' = settles \cup {running}
  /\ UNCHANGED <<queue, running, pending, drains, sequence, runs>>

(* The finally of run(): the runner is released and drains again.           *)
Release ==
  /\ running # None
  /\ result[running] \in Settled
  /\ StartNext
  /\ UNCHANGED <<result, pending, settles, drains, sequence>>

(* The reaction on a settled result: settle().                              *)
Settle(id) ==
  /\ id \in settles
  /\ settles' = settles \ {id}
  /\ pending' = pending - 1
  /\ UNCHANGED <<result, queue, running, drains, sequence, runs>>

MailboxNext ==
  \/ \E id \in Ids : Enqueue(id) \/ CancelQueued(id) \/ Settle(id)
  \/ \E outcome \in Settled : ReceiverSettles(outcome)
  \/ DrainJob
  \/ Release

MailboxSpec == MailboxInit /\ [][MailboxNext]_mailboxVars

-----------------------------------------------------------------------------
(* The types of the mailbox's fields.                                       *)
MailboxTypeOK ==
  /\ result \in [Ids -> ResultState]
  /\ queue \in Seq(Ids)
  /\ running \in Ids \cup {None}
  /\ pending \in Nat
  /\ settles \in SUBSET Ids
  /\ drains \in Nat
  /\ sequence \in [Ids -> Nat]
  /\ runs \in [Ids -> Nat]

(* A queue with nobody running always has a drain on its way: no sequence   *)
(* of enqueues, cancellations and releases strands an entry in the queue.   *)
NoStrandedEntry == queue # <<>> /\ running = None => drains > 0

(* `pending`, which isIdle tests, counts exactly the entries whose result   *)
(* is open or whose settle() has yet to run, however they came to settle.   *)
PendingCountsOpen ==
  pending = Cardinality({id \in Ids : result[id] = "pending" \/ id \in settles})

(* An entry waits, runs, or has settled: an open result is never forgotten, *)
(* and an entry cancelled in the queue is never the running one.            *)
OpenIsWaitingOrRunning ==
  \A id \in Ids : result[id] = "pending" <=> id \in Waiting \/ (id = running /\ result[id] \notin Settled)

(* A receiver is invoked at most once for an identity, and not at all when  *)
(* the entry was cancelled before it started.                               *)
InvokedAtMostOnce == \A id \in Ids : runs[id] <= 1 /\ (runs[id] = 1 => id \notin Waiting)

(* Every entry is accounted for: it waits with a drain on its way, runs     *)
(* once, or has settled, and `pending` counts it until then (mailbox.ts     *)
(* 41-153, what isIdle and cancel rely on).                                 *)
EntriesAreHeld ==
  /\ MailboxTypeOK
  /\ NoStrandedEntry
  /\ PendingCountsOpen
  /\ OpenIsWaitingOrRunning
  /\ InvokedAtMostOnce

(* A settled result is never settled again, and its receiver never starts.  *)
SettledIsFinal ==
  [][\A id \in Ids : result[id] \in Settled =>
       result'[id] = result[id] /\ runs'[id] = runs[id]]_mailboxVars

(* An entry starts only after every entry enqueued before it has settled:   *)
(* intake is serialized and first in first out.                             *)
StartsInOrder ==
  [][\A id \in Ids : runs'[id] > runs[id] =>
       \A other \in Ids : sequence[other] \in 1..(sequence[id] - 1) => result[other] \in Settled]_mailboxVars

=============================================================================
