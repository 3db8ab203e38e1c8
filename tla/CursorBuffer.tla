----------------------------- MODULE CursorBuffer -----------------------------
(***************************************************************************)
(* CursorBuffer (src/cursor-buffer.ts) as SessionOutputBuffer              *)
(* (src/output.ts) and the output routes (src/session-runtime-routes.ts)   *)
(* use it: producers publish into a bounded buffer and wait for room; the  *)
(* platform reads after a cursor without acknowledging, stores what it     *)
(* read, and acknowledges through a cursor.                                *)
(*                                                                         *)
(* The platform's collector is not part of the repository.  It polls after *)
(* the last cursor it stored, may abandon a poll or lose its response and  *)
(* poll again while the old poll is still parked, and may repeat or delay  *)
(* an acknowledgment.                                                      *)
(***************************************************************************)
EXTENDS Integers, Sequences, FiniteSets

CONSTANTS Publishers,       \* callers of publish, one call at a time each
          Polls,            \* polls of the collector that may overlap
          Sizes,            \* encoded sizes of events
          maxPending, maxPendingBytes, maxBatch,
          MaxEvents         \* bound on the events published

ASSUME BufferAssumption ==
  /\ IsFiniteSet(Publishers)
  /\ maxPending \in Nat \ {0}
  /\ maxPendingBytes \in Nat
  /\ maxBatch \in Nat \ {0}
  /\ MaxEvents \in Nat
  /\ Sizes \subseteq 1..maxPendingBytes

VARIABLES
  entries,       \* `entries`: records of cursor and bytes
  nextCursor, acknowledged, delivered, pendingBytes,
  publish,       \* publish[p]: where p's current call stands
  bytes,         \* bytes[p]: the size of the event it publishes
  cursorOf,      \* cursorOf[p]: the entry its promise waits for
  poll,          \* poll[r]: where the collector's poll r stands
  after,         \* after[r]: the cursor it reads after
  batch,         \* batch[r]: the cursors in its response
  stored         \* the cursors the platform has stored

bufferVars == <<entries, nextCursor, acknowledged, delivered, pendingBytes>>
publishVars == <<publish, bytes, cursorOf>>
pollVars == <<poll, after, batch>>
vars == <<bufferVars, publishVars, pollVars, stored>>

Latest == nextCursor - 1
LastStored == IF stored = {} THEN 0 ELSE CHOOSE c \in stored : \A other \in stored : other <= c

Larger(x, y) == IF x >= y THEN x ELSE y
Smaller(x, y) == IF x <= y THEN x ELSE y

hasCapacity(size) == Len(entries) < maxPending /\ pendingBytes + size <= maxPendingBytes

(* The cursors read(after) returns: at most maxBatch entries, from the      *)
(* first one after the cursor, found by its offset from the head.           *)
Available(cursor) ==
  IF entries = <<>> THEN {}
  ELSE LET start == Larger(0, cursor + 1 - entries[1].cursor)
       IN  {entries[i].cursor : i \in (start + 1)..Smaller(start + maxBatch, Len(entries))}

Last(cursors) == CHOOSE c \in cursors : \A other \in cursors : other <= c

-----------------------------------------------------------------------------

Init ==
  /\ entries = <<>> /\ nextCursor = 1 /\ acknowledged = 0 /\ delivered = 0 /\ pendingBytes = 0
  /\ publish = [p \in Publishers |-> "idle"]
  /\ bytes = [p \in Publishers |-> 0]
  /\ cursorOf = [p \in Publishers |-> 0]
  /\ poll = [r \in Polls |-> "idle"]
  /\ after = [r \in Polls |-> 0]
  /\ batch = [r \in Polls |-> {}]
  /\ stored = {}

(* Seeded fault: append wakes no reader.                                    *)
AppendWakesNobody(p, size) ==
  /\ entries' = Append(entries, [cursor |-> nextCursor, bytes |-> size])
  /\ nextCursor' = nextCursor + 1
  /\ pendingBytes' = pendingBytes + size
  /\ publish' = [publish EXCEPT ![p] = "appended"]
  /\ cursorOf' = [cursorOf EXCEPT ![p] = nextCursor]
  /\ UNCHANGED <<acknowledged, delivered, pollVars, stored>>

(* append: the entry takes the next cursor and every parked reader wakes.   *)
AppendEvent(p, size) ==
  /\ entries' = Append(entries, [cursor |-> nextCursor, bytes |-> size])
  /\ nextCursor' = nextCursor + 1
  /\ pendingBytes' = pendingBytes + size
  /\ poll' = [r \in Polls |-> IF poll[r] = "parked" THEN "woken" ELSE poll[r]]
  /\ publish' = [publish EXCEPT ![p] = "appended"]
  /\ cursorOf' = [cursorOf EXCEPT ![p] = nextCursor]
  /\ UNCHANGED <<acknowledged, delivered, after, batch, stored>>

Park(p) ==
  /\ publish' = [publish EXCEPT ![p] = "parked"]
  /\ UNCHANGED <<bufferVars, cursorOf, pollVars, stored>>

AppendOrPark(p, size) == IF hasCapacity(size) THEN AppendEvent(p, size) ELSE Park(p)

(* publish: appends at once when there is room, else waits for capacity.    *)
Publish(p, size) ==
  /\ publish[p] \in {"idle", "resolved", "rejected"}
  /\ Latest < MaxEvents
  /\ bytes' = [bytes EXCEPT ![p] = size]
  /\ AppendOrPark(p, size)

(* A woken publisher checks again: another may have taken the room.         *)
ResumePublish(p) ==
  /\ publish[p] = "woken"
  /\ AppendOrPark(p, bytes[p])
  /\ UNCHANGED bytes

(* The signal of a publish aborts, by its message or the handoff timeout.   *)
(* A parked call rejects, a woken one will when it resumes, and an appended *)
(* one rejects although its entry stays in the buffer.                      *)
AbortPublish(p) ==
  /\ publish[p] \in {"parked", "woken", "appended"}
  /\ publish' = [publish EXCEPT ![p] = IF @ = "woken" THEN "aborting" ELSE "rejected"]
  /\ UNCHANGED <<bufferVars, bytes, cursorOf, pollVars, stored>>

ResumeAborted(p) ==
  /\ publish[p] = "aborting"
  /\ publish' = [publish EXCEPT ![p] = "rejected"]
  /\ UNCHANGED <<bufferVars, bytes, cursorOf, pollVars, stored>>

(* Seeded fault: delivering a batch acknowledges it.                        *)
AnswerAcknowledges(r, cursor) ==
  /\ IF Available(cursor) # {}
     THEN /\ poll' = [poll EXCEPT ![r] = "response"]
          /\ batch' = [batch EXCEPT ![r] = Available(cursor)]
          /\ delivered' = Larger(delivered, Last(Available(cursor)))
          /\ acknowledged' = Larger(acknowledged, Last(Available(cursor)))
     ELSE /\ poll' = [poll EXCEPT ![r] = "parked"]
          /\ UNCHANGED <<batch, delivered, acknowledged>>
  /\ UNCHANGED <<entries, nextCursor, pendingBytes, publishVars, stored>>

(* One pass of the loop in read: it answers what is available, or parks.    *)
AnswerOrPark(r, cursor) ==
  /\ IF Available(cursor) # {}
     THEN /\ poll' = [poll EXCEPT ![r] = "response"]
          /\ batch' = [batch EXCEPT ![r] = Available(cursor)]
          /\ delivered' = Larger(delivered, Last(Available(cursor)))
     ELSE /\ poll' = [poll EXCEPT ![r] = "parked"]
          /\ UNCHANGED <<batch, delivered>>
  /\ UNCHANGED <<entries, nextCursor, acknowledged, pendingBytes, publishVars, stored>>

(* read of a long poll; cursor_ahead and cursor_expired change nothing.     *)
Read(r) ==
  /\ poll[r] = "idle"
  /\ LastStored <= Latest
  /\ LastStored >= acknowledged
  /\ after' = [after EXCEPT ![r] = LastStored]
  /\ AnswerOrPark(r, LastStored)

ResumeRead(r) ==
  /\ poll[r] = "woken"
  /\ AnswerOrPark(r, after[r])
  /\ UNCHANGED after

(* The poll times out or its client leaves, or its response is lost.        *)
AbandonRead(r) ==
  /\ poll[r] # "idle"
  /\ poll' = [poll EXCEPT ![r] = "idle"]
  /\ batch' = [batch EXCEPT ![r] = {}]
  /\ UNCHANGED <<bufferVars, publishVars, after, stored>>

(* The platform stores the response.                                        *)
Store(r) ==
  /\ poll[r] = "response"
  /\ stored' = stored \cup batch[r]
  /\ poll' = [poll EXCEPT ![r] = "idle"]
  /\ batch' = [batch EXCEPT ![r] = {}]
  /\ UNCHANGED <<bufferVars, publishVars, after>>

(* The entries acknowledge leaves: the longest prefix with cursors up to    *)
(* `through` is shifted off.                                                *)
IsShifted(n, through) ==
  /\ \A i \in 1..n : entries[i].cursor <= through
  /\ n < Len(entries) => entries[n + 1].cursor > through

BytesOf(n) == LET sum[i \in 0..n] == IF i = 0 THEN 0 ELSE sum[i - 1] + entries[i].bytes IN sum[n]

(* Seeded fault: freed room wakes nobody.                                   *)
AcknowledgeWakesNobody(through) ==
  /\ through <= delivered
  /\ acknowledged' = Larger(acknowledged, through)
  /\ \E n \in 0..Len(entries) :
       /\ IsShifted(n, through)
       /\ entries' = SubSeq(entries, n + 1, Len(entries))
       /\ pendingBytes' = pendingBytes - BytesOf(n)
       /\ publish' = [p \in Publishers |->
            IF publish[p] = "appended" /\ \E i \in 1..n : entries[i].cursor = cursorOf[p]
            THEN "resolved" ELSE publish[p]]
  /\ UNCHANGED <<nextCursor, delivered, bytes, cursorOf, pollVars, stored>>

(* acknowledge: shifted entries settle their producers, and when any left,  *)
(* every publisher waiting for capacity wakes.                              *)
Acknowledge(through) ==
  /\ through <= delivered
  /\ acknowledged' = Larger(acknowledged, through)
  /\ \E n \in 0..Len(entries) :
       /\ IsShifted(n, through)
       /\ entries' = SubSeq(entries, n + 1, Len(entries))
       /\ pendingBytes' = pendingBytes - BytesOf(n)
       /\ publish' = [p \in Publishers |->
            IF publish[p] = "appended" /\ \E i \in 1..n : entries[i].cursor = cursorOf[p] THEN "resolved"
            ELSE IF publish[p] = "parked" /\ n > 0 THEN "woken" ELSE publish[p]]
  /\ UNCHANGED <<nextCursor, delivered, bytes, cursorOf, pollVars, stored>>

(* The platform acknowledges what it stored, or repeats an earlier one.     *)
CollectorAcknowledges == \E through \in stored : Acknowledge(through)

Next ==
  \/ \E p \in Publishers : \/ \E size \in Sizes : Publish(p, size)
                           \/ ResumePublish(p) \/ AbortPublish(p) \/ ResumeAborted(p)
  \/ \E r \in Polls : Read(r) \/ ResumeRead(r) \/ AbandonRead(r) \/ Store(r)
  \/ CollectorAcknowledges

Spec == Init /\ [][Next]_vars

(* The event loop resumes what is woken; the platform keeps polling, loses  *)
(* only finitely many responses in a row, and acknowledges what it stored.  *)
Fairness ==
  /\ \A p \in Publishers : WF_vars(ResumePublish(p)) /\ WF_vars(ResumeAborted(p))
  /\ \A r \in Polls : WF_vars(Read(r)) /\ WF_vars(ResumeRead(r)) /\ SF_vars(Store(r))
  /\ WF_vars(stored # {} /\ LastStored > acknowledged /\ Acknowledge(LastStored))

FairSpec == Spec /\ Fairness

-----------------------------------------------------------------------------
(* The types of the buffer, of the publish calls and of the polls.          *)
BufferTypeOK ==
  /\ entries \in Seq([cursor : Nat, bytes : Nat])
  /\ nextCursor \in Nat \ {0} /\ acknowledged \in Nat /\ delivered \in Nat
  /\ publish \in [Publishers -> {"idle", "parked", "woken", "aborting", "appended", "resolved", "rejected"}]
  /\ bytes \in [Publishers -> Nat]
  /\ cursorOf \in [Publishers -> Nat]
  /\ poll \in [Polls -> {"idle", "parked", "woken", "response"}]
  /\ after \in [Polls -> Nat]
  /\ batch \in [Polls -> SUBSET Nat]
  /\ stored \in SUBSET Nat

(* The buffer holds exactly the published events the platform has not       *)
(* acknowledged, under contiguous cursors.                                  *)
EntriesAreUnacknowledged ==
  /\ Len(entries) = Latest - acknowledged
  /\ \A i \in 1..Len(entries) : entries[i].cursor = acknowledged + i

(* The buffer stays within both limits, and its byte count is exact.        *)
Bounded ==
  /\ Len(entries) <= maxPending
  /\ pendingBytes = BytesOf(Len(entries))
  /\ pendingBytes \in 0..maxPendingBytes

(* A parked publisher has no room: whatever frees room wakes it.            *)
NoStrandedPublisher ==
  \A p \in Publishers : publish[p] = "parked" => ~hasCapacity(bytes[p])

(* A parked poll has nothing to read: whatever appends wakes it.            *)
NoStrandedPoll == \A r \in Polls : poll[r] = "parked" => Available(after[r]) = {}

(* publish resolves only for an event the platform has stored.              *)
ResolvedIsStored ==
  \A p \in Publishers : publish[p] = "resolved" => cursorOf[p] \in stored

(* The buffer and its collector implement the handoff.                      *)
Handoff == INSTANCE OutputHandoff WITH published <- Latest, stored <- stored, confirmed <- acknowledged
ImplementsHandoff == Handoff!HandoffSpec

(* While the platform collects, every published event is acknowledged.      *)
EverythingAcknowledged == (acknowledged < Latest) ~> (acknowledged = Latest)

(* The buffer loses and invents nothing: gapless cursors, answers only for  *)
(* what is stored, no poll asleep beside something to read.                 *)
BufferIsSound ==
  /\ BufferTypeOK
  /\ EntriesAreUnacknowledged
  /\ ResolvedIsStored
  /\ NoStrandedPoll

(* It keeps its limits, and freed room wakes whoever waits for it.          *)
RoomIsShared == Bounded /\ NoStrandedPublisher

=============================================================================
