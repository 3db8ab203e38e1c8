-------------------------- MODULE CursorBufferProofs --------------------------
(***************************************************************************)
(* Proofs about CursorBuffer, for every set of publishers and polls and    *)
(* every limit: the buffer holds exactly what is not acknowledged, wakes   *)
(* the readers it must, resolves a publish only for what the platform has, *)
(* implements the handoff, and shares its room: its byte count is the sum  *)
(* of its entries, within the limit, and no publisher waits beside room.   *)
(***************************************************************************)
EXTENDS CursorBuffer, SequenceTheorems, WellFoundedInduction, TLAPS

Entry == [cursor : Nat, bytes : Nat]

(* The types the proofs need: all but the byte count.                       *)
TypesInv ==
  /\ entries \in Seq(Entry)
  /\ nextCursor \in Nat \ {0} /\ acknowledged \in Nat /\ delivered \in Nat
  /\ publish \in [Publishers -> {"idle", "parked", "woken", "aborting", "appended", "resolved", "rejected"}]
  /\ bytes \in [Publishers -> Nat]
  /\ cursorOf \in [Publishers -> Nat]
  /\ poll \in [Polls -> {"idle", "parked", "woken", "response"}]
  /\ after \in [Polls -> Nat]
  /\ batch \in [Polls -> SUBSET Nat]

(* The platform has a prefix of the events: all that are acknowledged, and  *)
(* none that was not delivered.  A response continues some prefix it has.   *)
CollectorInv ==
  \E n \in Nat :
    /\ stored = 1..n
    /\ acknowledged <= n /\ n <= delivered /\ delivered <= Latest
    /\ \A r \in Polls : after[r] <= n
    /\ \A r \in Polls : poll[r] = "response" =>
         \E lo, hi \in Nat : batch[r] = lo + 1..hi /\ lo <= n /\ lo < hi /\ hi <= delivered

(* A parked poll reads after the last event, or everything is acknowledged. *)
ParkedInv == \A r \in Polls : poll[r] = "parked" => after[r] >= Latest \/ acknowledged = Latest

(* An event whose publish waits or resolved has a cursor.                   *)
PublishedInv ==
  \A p \in Publishers : publish[p] = "appended" => cursorOf[p] \in 1..Latest

BufferInv ==
  /\ TypesInv
  /\ EntriesAreUnacknowledged
  /\ CollectorInv
  /\ ParkedInv
  /\ PublishedInv
  /\ ResolvedIsStored

-----------------------------------------------------------------------------

(* What a read returns: the events after the cursor that are still in the   *)
(* buffer, at most maxBatch of them.                                        *)
LEMMA AvailableProperties ==
  ASSUME TypesInv, EntriesAreUnacknowledged, NEW c \in Nat
  PROVE  LET lo == IF c >= acknowledged THEN c ELSE acknowledged
             hi == IF lo + maxBatch <= Latest THEN lo + maxBatch ELSE Latest
         IN  /\ Available(c) = {} => lo >= Latest
             /\ lo >= Latest => Available(c) = {}
             /\ Available(c) # {} => Available(c) = lo + 1..hi /\ lo < hi
<1> DEFINE lo == IF c >= acknowledged THEN c ELSE acknowledged
           hi == IF lo + maxBatch <= Latest THEN lo + maxBatch ELSE Latest
           start == Larger(0, c + 1 - entries[1].cursor)
           end == Smaller(start + maxBatch, Len(entries))
<1>1. /\ Len(entries) \in Nat /\ Latest \in Nat /\ acknowledged \in Nat
      /\ Len(entries) = Latest - acknowledged
      /\ maxBatch \in Nat \ {0}
  BY LenProperties, BufferAssumption DEF TypesInv, EntriesAreUnacknowledged, Latest
<1>2. CASE entries = <<>>
  <2>1. Len(entries) = 0
    BY <1>2, EmptySeq
  <2> QED BY <1>1, <1>2, <2>1 DEF Available
<1>3. CASE entries # <<>>
  <2>1. Len(entries) > 0
    BY <1>1, <1>3, EmptySeq DEF TypesInv
  <2>2. entries[1].cursor = acknowledged + 1
    BY <1>1, <2>1 DEF EntriesAreUnacknowledged
  <2>3. start = lo - acknowledged /\ end = hi - acknowledged
    BY <1>1, <2>2 DEF Larger, Smaller
  <2>4. Available(c) = {entries[i].cursor : i \in (start + 1)..end}
    BY <1>3 DEF Available
  <2>5. \A i \in (start + 1)..end : entries[i].cursor = acknowledged + i
    <3> SUFFICES ASSUME NEW i \in (start + 1)..end PROVE i \in 1..Len(entries)
      BY DEF EntriesAreUnacknowledged
    <3> QED BY <1>1, <2>3
  <2>6. Available(c) = lo + 1..hi
    <3>1. ASSUME NEW x \in Available(c) PROVE x \in lo + 1..hi
      BY <1>1, <2>3, <2>4, <2>5, <3>1, SMTT(30)
    <3>2. ASSUME NEW x \in lo + 1..hi PROVE x \in Available(c)
      <4>1. x - acknowledged \in (start + 1)..end
        BY <1>1, <2>3
      <4>2. entries[x - acknowledged].cursor = x
        BY <1>1, <2>5, <4>1
      <4> QED BY <2>4, <4>1, <4>2
    <3> QED BY <3>1, <3>2
  <2>7. /\ lo \in Nat /\ hi \in Nat
        /\ lo >= Latest => ~(lo < hi)
        /\ ~(lo >= Latest) => lo < hi
    BY <1>1
  <2>8. lo < hi => lo + 1 \in lo + 1..hi
    BY <2>7
  <2>9. ~(lo < hi) => lo + 1..hi = {}
    BY <2>7
  <2> HIDE DEF start, end, lo, hi
  <2>10. /\ Available(c) = {} => lo >= Latest
         /\ lo >= Latest => Available(c) = {}
         /\ Available(c) # {} => Available(c) = lo + 1..hi /\ lo < hi
    BY <2>6, <2>7, <2>8, <2>9
  <2> QED BY <2>10 DEF lo, hi
<1> QED BY <1>2, <1>3

(* The last cursor of a response.                                           *)
LEMMA LastOfBatch ==
  ASSUME NEW lo \in Nat, NEW hi \in Nat, lo < hi
  PROVE  Last(lo + 1..hi) = hi
<1>1. hi \in lo + 1..hi /\ \A other \in lo + 1..hi : other <= hi
  OBVIOUS
<1>2. \A c \in lo + 1..hi : (\A other \in lo + 1..hi : other <= c) => c = hi
  BY <1>1
<1> QED BY <1>1, <1>2 DEF Last

(* The last cursor the platform stored.                                     *)
LEMMA LastOfPrefix ==
  ASSUME NEW n \in Nat, stored = 1..n
  PROVE  LastStored = n
<1>1. CASE n = 0
  BY <1>1 DEF LastStored
<1>2. CASE n # 0
  <2>1. n \in stored /\ \A other \in stored : other <= n
    BY <1>2
  <2>2. \A c \in stored : (\A other \in stored : other <= c) => c = n
    BY <2>1
  <2> QED BY <2>1, <2>2 DEF LastStored
<1> QED BY <1>1, <1>2

(* An acknowledgment that shifts n entries acknowledges n events more.      *)
LEMMA LargerOfShift ==
  ASSUME NEW a \in Nat, NEW t \in Nat, NEW len \in Nat, NEW n \in 0..len,
         t <= a + len, n > 0 => a + n <= t, n < len => t < a + n + 1
  PROVE  Larger(a, t) = a + n
<1>1. CASE n = 0
  BY <1>1 DEF Larger
<1>2. CASE n > 0
  BY <1>2 DEF Larger
<1> QED BY <1>1, <1>2

(* The suffix an acknowledgment leaves begins after what it acknowledged.   *)
LEMMA AcknowledgeShifts ==
  ASSUME BufferInv, NEW through \in Nat, through <= delivered,
         NEW n \in 0..Len(entries), IsShifted(n, through)
  PROVE  /\ Larger(acknowledged, through) = acknowledged + n
         /\ SubSeq(entries, n + 1, Len(entries)) \in Seq(Entry)
         /\ Len(SubSeq(entries, n + 1, Len(entries))) = Len(entries) - n
         /\ \A i \in 1..Len(entries) - n :
              SubSeq(entries, n + 1, Len(entries))[i].cursor = acknowledged + n + i
<1>1. /\ Len(entries) \in Nat /\ Latest \in Nat /\ acknowledged \in Nat /\ delivered \in Nat
      /\ Len(entries) = Latest - acknowledged
      /\ delivered <= Latest
      /\ \A i \in 1..Len(entries) : entries[i].cursor = acknowledged + i
      /\ \A i \in 1..Len(entries) : entries[i] \in Entry
  BY LenProperties, ElementOfSeq DEF BufferInv, TypesInv, EntriesAreUnacknowledged, CollectorInv, Latest
<1>2. n > 0 => acknowledged + n <= through
  <2> SUFFICES ASSUME n > 0 PROVE acknowledged + n <= through
    OBVIOUS
  <2>1. n \in 1..n /\ n \in 1..Len(entries)
    BY <1>1
  <2> QED BY <1>1, <2>1 DEF IsShifted
<1>3. n < Len(entries) => through < acknowledged + n + 1
  <2> SUFFICES ASSUME n < Len(entries) PROVE through < acknowledged + n + 1
    OBVIOUS
  <2>1. n + 1 \in 1..Len(entries)
    BY <1>1
  <2> QED BY <1>1, <2>1 DEF IsShifted
<1>4. Larger(acknowledged, through) = acknowledged + n
  <2>1. through <= acknowledged + Len(entries)
    BY <1>1
  <2> QED BY <1>1, <1>2, <1>3, <2>1, LargerOfShift, ZenonT(60)
<1>5. \A i \in n + 1..Len(entries) : entries[i] \in Entry
  BY <1>1
<1> DEFINE rest == SubSeq(entries, n + 1, Len(entries))
<1>6. /\ rest \in Seq(Entry)
      /\ Len(rest) = Len(entries) - n
      /\ \A i \in 1..Len(entries) - n : rest[i] = entries[n + i]
  <2>1. n \in Nat /\ Len(entries) \in Nat /\ n <= Len(entries)
    BY <1>1
  <2>2. rest \in Seq(Entry)
    BY <1>1, <1>5, SubSeqProperties
  <2>3. /\ Len(rest) = IF n + 1 <= Len(entries) THEN Len(entries) - (n + 1) + 1 ELSE 0
        /\ \A i \in 1..Len(entries) - (n + 1) + 1 : rest[i] = entries[n + 1 + i - 1]
    BY <1>1, <1>5, SubSeqProperties
  <2>4. Len(rest) = Len(entries) - n
    BY <2>1, <2>3
  <2>5. ASSUME NEW i \in 1..Len(entries) - n PROVE rest[i] = entries[n + i]
    <3>1. i \in 1..Len(entries) - (n + 1) + 1 /\ n + 1 + i - 1 = n + i
      BY <2>1
    <3> QED BY <2>3, <3>1
  <2> QED BY <2>2, <2>4, <2>5
<1> HIDE DEF rest
<1>7. \A i \in 1..Len(entries) - n : n + i \in 1..Len(entries)
  BY <1>1
<1>8. ASSUME NEW i \in 1..Len(entries) - n PROVE rest[i].cursor = acknowledged + n + i
  <2>1. entries[n + i].cursor = acknowledged + (n + i)
    BY <1>1, <1>7
  <2>2. rest[i] = entries[n + i]
    BY <1>6
  <2>3. acknowledged + (n + i) = acknowledged + n + i
    BY <1>1
  <2> QED BY <2>1, <2>2, <2>3
<1> QED BY <1>4, <1>6, <1>8 DEF rest

-----------------------------------------------------------------------------

(* The invariant holds of the empty buffer.                                 *)
LEMMA BufferInit == Init => BufferInv
<1> SUFFICES ASSUME Init PROVE BufferInv
  OBVIOUS
<1>1. TypesInv /\ Latest = 0
  BY EmptySeq DEF Init, TypesInv, Entry, Latest
<1>2. EntriesAreUnacknowledged
  BY EmptySeq DEF Init, EntriesAreUnacknowledged, Latest
<1>3. CollectorInv
  <2>1. stored = 1..0
    BY DEF Init
  <2> QED BY <1>1, <2>1 DEF Init, CollectorInv
<1> QED BY <1>1, <1>2, <1>3 DEF Init, BufferInv, ParkedInv, PublishedInv, ResolvedIsStored

(* An append keeps the cursors contiguous and leaves no reader parked.      *)
LEMMA AppendStep ==
  ASSUME BufferInv, NEW p \in Publishers, NEW size \in Nat, AppendEvent(p, size), bytes' \in [Publishers -> Nat]
  PROVE  BufferInv'
<1> USE DEF BufferInv
<1>1. /\ entries' = Append(entries, [cursor |-> nextCursor, bytes |-> size])
      /\ nextCursor' = nextCursor + 1 /\ Latest \in Nat /\ Latest' = Latest + 1
      /\ Latest' \in Nat
      /\ nextCursor = Latest + 1
      /\ UNCHANGED <<acknowledged, delivered, after, batch, stored>>
  BY DEF AppendEvent, Latest, TypesInv
<1>2. [cursor |-> nextCursor, bytes |-> size] \in Entry
  BY DEF TypesInv, Entry
<1>3. /\ entries' \in Seq(Entry)
      /\ Len(entries') = Len(entries) + 1
      /\ \A i \in 1..Len(entries) : entries'[i] = entries[i]
      /\ entries'[Len(entries) + 1] = [cursor |-> nextCursor, bytes |-> size]
  BY <1>1, <1>2, AppendProperties DEF TypesInv
<1>4. TypesInv'
  <2>1. nextCursor' \in Nat \ {0} /\ cursorOf' \in [Publishers -> Nat]
    BY DEF TypesInv, AppendEvent
  <2>2. /\ publish' \in [Publishers ->
                        {"idle", "parked", "woken", "aborting", "appended", "resolved", "rejected"}]
        /\ poll' \in [Polls -> {"idle", "parked", "woken", "response"}]
    BY DEF TypesInv, AppendEvent
  <2> QED BY <1>1, <1>3, <2>1, <2>2 DEF TypesInv
<1>5. EntriesAreUnacknowledged'
  <2>1. Len(entries) \in Nat /\ Len(entries) = Latest - acknowledged /\ acknowledged \in Nat
    BY LenProperties DEF TypesInv, EntriesAreUnacknowledged
  <2>2. Len(entries') = Latest' - acknowledged'
    BY <1>1, <1>3, <2>1
  <2>3. ASSUME NEW i \in 1..Len(entries') PROVE entries'[i].cursor = acknowledged' + i
    <3>1. CASE i = Len(entries) + 1
      BY <1>1, <1>3, <2>1, <3>1
    <3>2. CASE i # Len(entries) + 1
      <4>1. i \in 1..Len(entries)
        BY <1>3, <2>1, <3>2
      <4> QED BY <1>1, <1>3, <4>1 DEF EntriesAreUnacknowledged
    <3> QED BY <3>1, <3>2
  <2> QED BY <2>2, <2>3 DEF EntriesAreUnacknowledged
<1>6. CollectorInv'
  <2>1. \A r \in Polls : poll'[r] = "response" => poll[r] = "response"
    BY DEF AppendEvent, TypesInv
  <2>2. PICK n \in Nat :
          /\ stored = 1..n
          /\ acknowledged <= n /\ n <= delivered /\ delivered <= Latest
          /\ \A r \in Polls : after[r] <= n
          /\ \A r \in Polls : poll[r] = "response" =>
               \E lo, hi \in Nat : batch[r] = lo + 1..hi /\ lo <= n /\ lo < hi /\ hi <= delivered
    BY DEF CollectorInv
  <2>3. delivered <= Latest'
    BY <1>1, <2>2 DEF TypesInv
  <2> QED BY <1>1, <2>1, <2>2, <2>3 DEF CollectorInv
<1>7. ParkedInv'
  BY DEF AppendEvent, ParkedInv, TypesInv
<1>8. PublishedInv' /\ ResolvedIsStored'
  BY <1>1, <1>4 DEF AppendEvent, PublishedInv, ResolvedIsStored, TypesInv
<1> QED BY <1>4, <1>5, <1>6, <1>7, <1>8

(* What a publisher does short of an append.                                *)
LEMMA PublisherWaits ==
  ASSUME BufferInv, NEW p \in Publishers, NEW to \in {"parked", "woken", "aborting", "rejected"},
         publish' = [publish EXCEPT ![p] = to], bytes' \in [Publishers -> Nat],
         UNCHANGED <<bufferVars, cursorOf, pollVars, stored>>
  PROVE  BufferInv'
<1> USE DEF BufferInv, bufferVars, pollVars
<1>1. TypesInv'
  BY DEF TypesInv
<1>2. EntriesAreUnacknowledged' /\ CollectorInv' /\ ParkedInv'
  BY DEF EntriesAreUnacknowledged, CollectorInv, ParkedInv, Latest
<1>3. \A q \in Publishers : publish'[q] \in {"appended", "resolved"} => publish'[q] = publish[q]
  BY DEF TypesInv
<1>4. PublishedInv' /\ ResolvedIsStored'
  BY <1>3 DEF PublishedInv, ResolvedIsStored, Latest
<1> QED BY <1>1, <1>2, <1>4

(* A pass of the read loop answers with events that follow the prefix the   *)
(* platform has, or parks with nothing to read.                             *)
LEMMA ReadStep ==
  ASSUME BufferInv, NEW r \in Polls, NEW c \in Nat, c <= LastStored,
         AnswerOrPark(r, c), after' = [after EXCEPT ![r] = c]
  PROVE  BufferInv'
<1> USE DEF BufferInv
<1> PICK n \in Nat :
      /\ stored = 1..n
      /\ acknowledged <= n /\ n <= delivered /\ delivered <= Latest
      /\ \A q \in Polls : after[q] <= n
      /\ \A q \in Polls : poll[q] = "response" =>
           \E lo, hi \in Nat : batch[q] = lo + 1..hi /\ lo <= n /\ lo < hi /\ hi <= delivered
  BY DEF CollectorInv
<1>1. c <= n
  BY LastOfPrefix
<1>2. /\ Latest \in Nat /\ Latest' = Latest
      /\ UNCHANGED <<entries, nextCursor, acknowledged, pendingBytes, publishVars, stored>>
  BY DEF AnswerOrPark, TypesInv, Latest
<1>3. CASE Available(c) = {}
  <2>1. poll' = [poll EXCEPT ![r] = "parked"] /\ UNCHANGED <<batch, delivered>>
    BY <1>3 DEF AnswerOrPark
  <2>2. c >= Latest \/ acknowledged = Latest
    BY <1>2, <1>3, AvailableProperties DEF TypesInv
  <2>3. TypesInv' /\ EntriesAreUnacknowledged'
    BY <1>2, <2>1 DEF TypesInv, EntriesAreUnacknowledged, publishVars, Latest
  <2>4. CollectorInv'
    <3>1. \A q \in Polls : after'[q] <= n
      BY <1>1 DEF TypesInv
    <3>2. \A q \in Polls : poll'[q] = "response" => poll[q] = "response"
      BY <2>1 DEF TypesInv
    <3> QED BY <1>2, <2>1, <3>1, <3>2 DEF CollectorInv
  <2>5. ParkedInv'
    BY <1>2, <2>1, <2>2 DEF ParkedInv, TypesInv
  <2>6. PublishedInv' /\ ResolvedIsStored'
    BY <1>2 DEF PublishedInv, ResolvedIsStored, publishVars
  <2> QED BY <2>3, <2>4, <2>5, <2>6
<1>4. CASE Available(c) # {}
  <2>1. /\ poll' = [poll EXCEPT ![r] = "response"]
        /\ batch' = [batch EXCEPT ![r] = Available(c)]
        /\ delivered' = Larger(delivered, Last(Available(c)))
    BY <1>4 DEF AnswerOrPark
  <2>2. PICK lo, hi \in Nat :
          Available(c) = lo + 1..hi /\ lo <= n /\ lo < hi /\ hi <= Latest
    <3> DEFINE from == IF c >= acknowledged THEN c ELSE acknowledged
               to == IF from + maxBatch <= Latest THEN from + maxBatch ELSE Latest
    <3>1. Available(c) = from + 1..to /\ from < to
      BY <1>4, AvailableProperties
    <3>2. from \in Nat /\ to \in Nat /\ from <= n /\ to <= Latest
      BY <1>1, <1>2, BufferAssumption DEF TypesInv
    <3> QED BY <3>1, <3>2
  <2>3. Last(Available(c)) = hi
    BY <2>2, LastOfBatch
  <2>4. delivered' \in Nat /\ delivered' >= delivered /\ delivered' >= hi /\ delivered' <= Latest
    BY <1>2, <2>1, <2>2, <2>3 DEF Larger, TypesInv
  <2>5. TypesInv' /\ EntriesAreUnacknowledged'
    BY <1>2, <2>1, <2>2, <2>4, SMTT(30) DEF TypesInv, EntriesAreUnacknowledged, publishVars, Latest
  <2>6. CollectorInv'
    <3>1. \A q \in Polls : after'[q] <= n
      BY <1>1 DEF TypesInv
    <3>2. ASSUME NEW q \in Polls, poll'[q] = "response"
          PROVE  \E lo_1, hi_1 \in Nat :
                   batch'[q] = lo_1 + 1..hi_1 /\ lo_1 <= n /\ lo_1 < hi_1 /\ hi_1 <= delivered'
      <4>1. CASE q = r
        BY <2>1, <2>2, <2>4, <4>1 DEF TypesInv
      <4>2. CASE q # r
        <5>1. poll[q] = "response" /\ batch'[q] = batch[q]
          BY <2>1, <3>2, <4>2 DEF TypesInv
        <5>2. PICK l, h \in Nat : batch[q] = l + 1..h /\ l <= n /\ l < h /\ h <= delivered
          BY <5>1
        <5>3. h <= delivered'
          BY <2>4, <5>2 DEF TypesInv
        <5> QED BY <5>1, <5>2, <5>3
      <4> QED BY <4>1, <4>2
    <3>3. n <= delivered'
      BY <2>4 DEF TypesInv
    <3> QED BY <1>2, <2>4, <3>1, <3>2, <3>3 DEF CollectorInv
  <2>7. ParkedInv'
    BY <1>2, <2>1 DEF ParkedInv, TypesInv
  <2>8. PublishedInv' /\ ResolvedIsStored'
    BY <1>2 DEF PublishedInv, ResolvedIsStored, publishVars
  <2> QED BY <2>5, <2>6, <2>7, <2>8
<1> QED BY <1>3, <1>4

(* A response that arrives extends the prefix the platform has.             *)
LEMMA StoreStep ==
  ASSUME BufferInv, NEW r \in Polls, Store(r)
  PROVE  /\ BufferInv'
         /\ \E last \in 1..Latest : stored' = 1..last /\ stored \subseteq stored'
<1> USE DEF BufferInv
<1> PICK n \in Nat :
      /\ stored = 1..n
      /\ acknowledged <= n /\ n <= delivered /\ delivered <= Latest
      /\ \A q \in Polls : after[q] <= n
      /\ \A q \in Polls : poll[q] = "response" =>
           \E lo, hi \in Nat : batch[q] = lo + 1..hi /\ lo <= n /\ lo < hi /\ hi <= delivered
  BY DEF CollectorInv
<1>1. /\ UNCHANGED <<bufferVars, publishVars, after>>
      /\ poll[r] = "response"
      /\ stored' = stored \cup batch[r]
      /\ poll' = [poll EXCEPT ![r] = "idle"]
      /\ batch' = [batch EXCEPT ![r] = {}]
  BY DEF Store
<1>2. PICK lo, hi \in Nat : batch[r] = lo + 1..hi /\ lo <= n /\ lo < hi /\ hi <= delivered
  BY <1>1
<1> DEFINE m == IF hi >= n THEN hi ELSE n
<1>3. m \in Nat /\ n <= m /\ m <= delivered /\ 1 <= m
  BY <1>2
<1>4. stored' = 1..m /\ stored \subseteq stored'
  BY <1>1, <1>2
<1> HIDE DEF m
<1>5. TypesInv' /\ EntriesAreUnacknowledged' /\ Latest' = Latest /\ Latest \in Nat
  BY <1>1 DEF TypesInv, EntriesAreUnacknowledged, bufferVars, publishVars, Latest
<1>6. CollectorInv'
  <2>1. \A q \in Polls : after'[q] <= m
    BY <1>1, <1>3 DEF TypesInv
  <2>2. ASSUME NEW q \in Polls, poll'[q] = "response"
        PROVE  \E lo_1, hi_1 \in Nat :
                 batch'[q] = lo_1 + 1..hi_1 /\ lo_1 <= m /\ lo_1 < hi_1 /\ hi_1 <= delivered
    <3>1. poll[q] = "response" /\ batch'[q] = batch[q]
      BY <1>1, <2>2 DEF TypesInv
    <3>2. PICK l, h \in Nat : batch[q] = l + 1..h /\ l <= n /\ l < h /\ h <= delivered
      BY <3>1
    <3>3. l <= m
      BY <1>3, <3>2
    <3> QED BY <3>1, <3>2, <3>3
  <2>3. acknowledged <= m
    BY <1>3 DEF TypesInv
  <2> QED BY <1>1, <1>3, <1>4, <1>5, <2>1, <2>2, <2>3 DEF CollectorInv, bufferVars
<1>7. ParkedInv' /\ PublishedInv'
  BY <1>1, <1>5 DEF ParkedInv, PublishedInv, TypesInv, bufferVars, publishVars
<1>8. ResolvedIsStored'
  BY <1>1, <1>4 DEF ResolvedIsStored, publishVars
<1>9. m \in 1..Latest
  BY <1>3, <1>5 DEF TypesInv
<1> QED BY <1>4, <1>5, <1>6, <1>7, <1>8, <1>9

(* An acknowledgment shifts off what it covers and resolves its producers.  *)
LEMMA AcknowledgeStep ==
  ASSUME BufferInv, NEW through \in stored, Acknowledge(through)
  PROVE  /\ BufferInv'
         /\ acknowledged' # acknowledged => acknowledged' = through /\ through > acknowledged
         /\ UNCHANGED <<nextCursor, stored>>
<1> USE DEF BufferInv
<1> PICK k \in Nat :
      /\ stored = 1..k
      /\ acknowledged <= k /\ k <= delivered /\ delivered <= Latest
      /\ \A q \in Polls : after[q] <= k
      /\ \A q \in Polls : poll[q] = "response" =>
           \E lo, hi \in Nat : batch[q] = lo + 1..hi /\ lo <= k /\ lo < hi /\ hi <= delivered
  BY DEF CollectorInv
<1>1. through \in Nat /\ through <= delivered /\ through <= k /\ acknowledged \in Nat
  BY DEF Acknowledge, TypesInv
<1>2. /\ acknowledged' = Larger(acknowledged, through)
      /\ UNCHANGED <<nextCursor, delivered, bytes, cursorOf, pollVars, stored>>
  BY DEF Acknowledge
<1>3. PICK n \in 0..Len(entries) :
        /\ IsShifted(n, through)
        /\ entries' = SubSeq(entries, n + 1, Len(entries))
        /\ publish' = [p \in Publishers |->
             IF publish[p] = "appended" /\ \E i \in 1..n : entries[i].cursor = cursorOf[p] THEN "resolved"
             ELSE IF publish[p] = "parked" /\ n > 0 THEN "woken" ELSE publish[p]]
  BY DEF Acknowledge
<1>4. /\ acknowledged' = acknowledged + n
      /\ entries' \in Seq(Entry)
      /\ Len(entries') = Len(entries) - n
      /\ \A i \in 1..Len(entries) - n : entries'[i].cursor = acknowledged + n + i
  BY <1>1, <1>2, <1>3, AcknowledgeShifts
<1>5. Len(entries) \in Nat /\ Len(entries) = Latest - acknowledged /\ Latest \in Nat /\ Latest' = Latest
  BY <1>2, LenProperties DEF TypesInv, EntriesAreUnacknowledged, Latest
<1>6. acknowledged' \in Nat /\ acknowledged' <= k /\ acknowledged' >= acknowledged
  BY <1>1, <1>2 DEF Larger
<1>7. TypesInv'
  <2>1. publish' \in [Publishers ->
                     {"idle", "parked", "woken", "aborting", "appended", "resolved", "rejected"}]
    BY <1>3 DEF TypesInv
  <2> QED BY <1>2, <1>4, <1>6, <2>1 DEF TypesInv, pollVars
<1>8. EntriesAreUnacknowledged'
  <2>1. Len(entries') = Latest' - acknowledged'
    BY <1>1, <1>4, <1>5
  <2>2. \A i \in 1..Len(entries') : entries'[i].cursor = acknowledged' + i
    BY <1>4
  <2> QED BY <2>1, <2>2 DEF EntriesAreUnacknowledged
<1>9. CollectorInv'
  BY <1>2, <1>5, <1>6 DEF CollectorInv, pollVars
<1>10. ParkedInv'
  <2>1. acknowledged = Latest => acknowledged' = Latest
    BY <1>4, <1>5
  <2> QED BY <1>2, <1>5, <2>1 DEF ParkedInv, pollVars
<1>11. PublishedInv'
  BY <1>2, <1>3, <1>5 DEF PublishedInv
<1>12. ResolvedIsStored'
  <2> SUFFICES ASSUME NEW p \in Publishers, publish'[p] = "resolved" PROVE cursorOf'[p] \in stored'
    BY DEF ResolvedIsStored
  <2>1. CASE publish[p] = "resolved"
    BY <1>2, <2>1 DEF ResolvedIsStored
  <2>2. CASE publish[p] # "resolved"
    <3>1. PICK i \in 1..n : publish[p] = "appended" /\ entries[i].cursor = cursorOf[p]
      BY <1>3, <2>2
    <3>2. cursorOf[p] <= through /\ cursorOf[p] \in 1..Latest
      BY <1>3, <3>1 DEF IsShifted, PublishedInv
    <3>3. cursorOf[p] \in 1..k
      BY <1>1, <1>5, <3>2
    <3> QED BY <1>2, <3>3
  <2> QED BY <2>1, <2>2
<1>13. acknowledged' # acknowledged => acknowledged' = through /\ through > acknowledged
  BY <1>1, <1>2 DEF Larger
<1> QED BY <1>2, <1>7, <1>8, <1>9, <1>10, <1>11, <1>12, <1>13

-----------------------------------------------------------------------------

(* Every step preserves the invariant.                                      *)
LEMMA BufferStep == BufferInv /\ [Next]_vars => BufferInv'
<1> SUFFICES ASSUME BufferInv, [Next]_vars PROVE BufferInv'
  OBVIOUS
<1>1. ASSUME NEW p \in Publishers, NEW size \in Nat, AppendOrPark(p, size), bytes' \in [Publishers -> Nat]
      PROVE  BufferInv'
  BY <1>1, AppendStep, PublisherWaits DEF AppendOrPark, Park
<1>2. ASSUME NEW p \in Publishers, NEW size \in Sizes, Publish(p, size) PROVE BufferInv'
  <2>1. size \in Nat /\ bytes' \in [Publishers -> Nat]
    BY <1>2, BufferAssumption DEF Publish, BufferInv, TypesInv
  <2> QED BY <1>1, <1>2, <2>1 DEF Publish
<1>3. ASSUME NEW p \in Publishers, ResumePublish(p) PROVE BufferInv'
  BY <1>1, <1>3 DEF ResumePublish, BufferInv, TypesInv
<1>4. ASSUME NEW p \in Publishers, AbortPublish(p) \/ ResumeAborted(p) PROVE BufferInv'
  <2>1. bytes' \in [Publishers -> Nat] /\ UNCHANGED <<bufferVars, cursorOf, pollVars, stored>>
    BY <1>4 DEF AbortPublish, ResumeAborted, BufferInv, TypesInv
  <2>2. \E to \in {"aborting", "rejected"} : publish' = [publish EXCEPT ![p] = to]
    BY <1>4 DEF AbortPublish, ResumeAborted
  <2> QED BY <2>1, <2>2, PublisherWaits
<1>5. ASSUME NEW r \in Polls, Read(r) PROVE BufferInv'
  <2>1. LastStored \in Nat /\ LastStored <= LastStored
    BY LastOfPrefix DEF BufferInv, CollectorInv
  <2> QED BY <1>5, <2>1, ReadStep DEF Read
<1>6. ASSUME NEW r \in Polls, ResumeRead(r) PROVE BufferInv'
  <2>1. after[r] \in Nat /\ after[r] <= LastStored
    BY LastOfPrefix DEF BufferInv, CollectorInv, TypesInv
  <2>2. after' = [after EXCEPT ![r] = after[r]]
    BY <1>6 DEF ResumeRead, BufferInv, TypesInv
  <2> QED BY <1>6, <2>1, <2>2, ReadStep DEF ResumeRead
<1>7. ASSUME NEW r \in Polls, AbandonRead(r) PROVE BufferInv'
  <2> USE DEF BufferInv, bufferVars, publishVars
  <2>1. TypesInv' /\ EntriesAreUnacknowledged' /\ PublishedInv' /\ ResolvedIsStored' /\ ParkedInv'
    BY <1>7 DEF AbandonRead, TypesInv, EntriesAreUnacknowledged, PublishedInv, ResolvedIsStored, ParkedInv, Latest
  <2>2. \A q \in Polls : poll'[q] = "response" => poll[q] = "response" /\ batch'[q] = batch[q]
    BY <1>7 DEF AbandonRead, TypesInv
  <2>3. CollectorInv'
    BY <1>7, <2>2 DEF AbandonRead, CollectorInv, Latest
  <2> QED BY <2>1, <2>3
<1>8. CASE UNCHANGED vars
  <2> USE DEF BufferInv, vars, bufferVars, publishVars, pollVars
  <2>1. TypesInv' /\ EntriesAreUnacknowledged' /\ PublishedInv' /\ ResolvedIsStored' /\ ParkedInv'
    BY <1>8 DEF TypesInv, EntriesAreUnacknowledged, PublishedInv, ResolvedIsStored, ParkedInv, Latest
  <2>2. CollectorInv'
    BY <1>8 DEF CollectorInv, Latest
  <2> QED BY <2>1, <2>2
<1> QED BY <1>2, <1>3, <1>4, <1>5, <1>6, <1>7, <1>8, StoreStep, AcknowledgeStep DEF Next, CollectorAcknowledges

(* The buffer's invariant holds in every reachable state.                   *)
THEOREM BufferInvariant == Spec => []BufferInv
<1>1. Init => BufferInv
  BY BufferInit
<1>2. BufferInv /\ [Next]_vars => BufferInv'
  BY BufferStep
<1> QED BY <1>1, <1>2, PTL DEF Spec

(* The buffer holds exactly the published events that are not acknowledged, *)
(* under contiguous cursors, whatever polls and aborts come in between.     *)
THEOREM BufferIsGapless == Spec => []EntriesAreUnacknowledged
<1>1. BufferInv => EntriesAreUnacknowledged
  BY DEF BufferInv
<1> QED BY <1>1, BufferInvariant, PTL

(* publish resolves only for an event the platform has stored.              *)
THEOREM PublishedIsStored == Spec => []ResolvedIsStored
<1>1. BufferInv => ResolvedIsStored
  BY DEF BufferInv
<1> QED BY <1>1, BufferInvariant, PTL

(* A parked poll has nothing to read.                                       *)
THEOREM PollsAreWoken == Spec => []NoStrandedPoll
<1>1. BufferInv => NoStrandedPoll
  <2> SUFFICES ASSUME BufferInv, NEW r \in Polls, poll[r] = "parked" PROVE Available(after[r]) = {}
    BY DEF NoStrandedPoll
  <2>1. after[r] \in Nat /\ Latest \in Nat /\ acknowledged \in Nat
    BY DEF BufferInv, TypesInv, Latest
  <2>2. after[r] >= Latest \/ acknowledged = Latest
    BY DEF BufferInv, ParkedInv
  <2> DEFINE lo == IF after[r] >= acknowledged THEN after[r] ELSE acknowledged
  <2>3. lo >= Latest
    BY <2>1, <2>2
  <2>4. lo >= Latest => Available(after[r]) = {}
    BY <2>1, AvailableProperties DEF BufferInv
  <2> QED BY <2>3, <2>4
<1> QED BY <1>1, BufferInvariant, PTL

(* The buffer and its collector implement the handoff: every step publishes *)
(* one event, stores a longer prefix, confirms what is stored, or changes   *)
(* nothing of the three.                                                    *)
THEOREM BufferImplementsHandoff == Spec => ImplementsHandoff
<1>1. Init => Handoff!HandoffInit
  BY DEF Init, Handoff!HandoffInit, Latest
<1>2. BufferInv /\ [Next]_vars => [Handoff!HandoffNext]_<<Latest, stored, acknowledged>>
  <2> SUFFICES ASSUME BufferInv, [Next]_vars
               PROVE  Handoff!HandoffNext \/ UNCHANGED <<Latest, stored, acknowledged>>
    OBVIOUS
  <2>1. ASSUME NEW p \in Publishers, NEW size, AppendOrPark(p, size)
        PROVE  Handoff!HandoffNext \/ UNCHANGED <<Latest, stored, acknowledged>>
    <3>1. CASE AppendEvent(p, size)
      <4>1. Latest' = Latest + 1 /\ UNCHANGED <<stored, acknowledged>>
        BY <3>1 DEF AppendEvent, Latest, BufferInv, TypesInv
      <4> QED BY <4>1 DEF Handoff!HandoffNext, Handoff!PublishEvent
    <3>2. CASE Park(p)
      BY <3>2 DEF Park, bufferVars, Latest
    <3> QED BY <2>1, <3>1, <3>2 DEF AppendOrPark
  <2>2. ASSUME NEW p \in Publishers, NEW size \in Sizes, Publish(p, size)
        PROVE  Handoff!HandoffNext \/ UNCHANGED <<Latest, stored, acknowledged>>
    BY <2>1, <2>2 DEF Publish
  <2>3. ASSUME NEW r \in Polls, Read(r) \/ ResumeRead(r) \/ AbandonRead(r)
        PROVE  UNCHANGED <<Latest, stored, acknowledged>>
    BY <2>3 DEF Read, ResumeRead, AbandonRead, AnswerOrPark, bufferVars, Latest
  <2>4. ASSUME NEW r \in Polls, Store(r) PROVE Handoff!HandoffNext
    <3>1. UNCHANGED <<Latest, acknowledged>>
      BY <2>4 DEF Store, bufferVars, Latest
    <3> QED BY <2>4, <3>1, StoreStep DEF Handoff!HandoffNext, Handoff!StoreEvents
  <2>5. CASE CollectorAcknowledges
    <3>1. PICK through \in stored : Acknowledge(through)
      BY <2>5 DEF CollectorAcknowledges
    <3>2. UNCHANGED <<Latest, stored>>
      BY <3>1, AcknowledgeStep DEF Latest
    <3>3. acknowledged' # acknowledged => acknowledged' = through /\ through > acknowledged
      BY <3>1, AcknowledgeStep
    <3> QED BY <3>2, <3>3 DEF Handoff!HandoffNext, Handoff!ConfirmEvents
  <2>6. CASE UNCHANGED vars
    BY <2>6 DEF vars, bufferVars, Latest
  <2>7. ASSUME NEW p \in Publishers, ResumePublish(p) \/ AbortPublish(p) \/ ResumeAborted(p)
        PROVE  Handoff!HandoffNext \/ UNCHANGED <<Latest, stored, acknowledged>>
    BY <2>1, <2>7 DEF ResumePublish, AbortPublish, ResumeAborted, bufferVars, Latest
  <2> QED BY <2>2, <2>3, <2>4, <2>5, <2>6, <2>7 DEF Next
<1> QED BY <1>1, <1>2, BufferInvariant, PTL
     DEF Spec, ImplementsHandoff, Handoff!HandoffSpec, Handoff!handoffVars

(* The buffer as a whole: its types, its contiguous entries, publications   *)
(* that resolve only when stored, and polls that are woken.                 *)
THEOREM BufferKeepsEvents == Spec => []BufferIsSound
<1>1. BufferInv => BufferTypeOK
  <2> SUFFICES ASSUME BufferInv PROVE stored \in SUBSET Nat /\ entries \in Seq([cursor : Nat, bytes : Nat])
    BY DEF BufferInv, TypesInv, BufferTypeOK
  <2> QED BY DEF BufferInv, TypesInv, CollectorInv, Entry
<1> QED BY <1>1, BufferInvariant, BufferIsGapless, PublishedIsStored, PollsAreWoken, PTL DEF BufferIsSound

-----------------------------------------------------------------------------
(* The bytes of the buffer are a sum over its entries.                      *)

(* A set of naturals that has zero, and the successor of what it has, has   *)
(* them all.                                                                *)
LEMMA Induction ==
  ASSUME NEW S, 0 \in S, \A n \in Nat : n \in S => n + 1 \in S
  PROVE  Nat \subseteq S
<1> DEFINE R == OpToRel(<, Nat)
           T == Nat \ S
<1>1. IsWellFoundedOn(R, Nat)
  BY NatLessThanWellFounded
<1>2. \A x, y \in Nat : <<x, y>> \in R <=> x < y
  BY Zenon DEF OpToRel
<1> HIDE DEF R
<1>3. SUFFICES ASSUME T # {} PROVE FALSE
  OBVIOUS
<1>4. PICK n \in T : \A m \in T : ~(<<m, n>> \in R)
  BY <1>1, <1>3, WFMin
<1>5. \A m \in T : ~(m < n)
  BY <1>2, <1>4
<1>6. n \in Nat /\ n # 0 /\ n \notin S
  OBVIOUS
<1>7. n - 1 \in Nat /\ n - 1 < n /\ n = (n - 1) + 1
  BY <1>6
<1>8. n - 1 \in S
  BY <1>5, <1>7
<1> QED BY <1>6, <1>7, <1>8

(* The definition of BytesOf, of any sequence.                              *)
SumOf(q, n) == LET sum[i \in 0..n] == IF i = 0 THEN 0 ELSE sum[i - 1] + q[i].bytes IN sum[n]

IsSum(s, q, n) == s = [i \in 0..n |-> IF i = 0 THEN 0 ELSE s[i - 1] + q[i].bytes]

(* The sums up to n exist: those up to n + 1 continue them.                 *)
LEMMA SumExists ==
  ASSUME NEW q, NEW n \in Nat
  PROVE  \E s : IsSum(s, q, n)
<1> DEFINE S == {m \in Nat : \E s : IsSum(s, q, m)}
<1>1. 0 \in S
  <2> DEFINE s == [i \in 0..0 |-> 0]
  <2>1. IsSum(s, q, 0)
    BY DEF IsSum
  <2> QED BY <2>1
<1>2. ASSUME NEW m \in Nat, m \in S PROVE m + 1 \in S
  <2>1. PICK s : IsSum(s, q, m)
    BY <1>2
  <2> DEFINE t == [i \in 0..(m + 1) |-> IF i = m + 1 THEN s[m] + q[i].bytes ELSE s[i]]
  <2>2. ASSUME NEW i \in 0..(m + 1)
        PROVE  t[i] = IF i = 0 THEN 0 ELSE t[i - 1] + q[i].bytes
    <3>1. CASE i = m + 1
      BY <3>1
    <3>2. CASE i # m + 1
      <4>1. i \in 0..m /\ t[i] = s[i]
        BY <3>2
      <4>2. s[i] = IF i = 0 THEN 0 ELSE s[i - 1] + q[i].bytes
        BY <2>1, <4>1 DEF IsSum
      <4>3. i # 0 => i - 1 \in 0..(m + 1) /\ i - 1 # m + 1
        BY <4>1
      <4> QED BY <4>1, <4>2, <4>3
    <3> QED BY <3>1, <3>2
  <2>3. IsSum(t, q, m + 1)
    <3> HIDE DEF t
    <3>1. t = [i \in 0..(m + 1) |-> t[i]]
      BY DEF t
    <3> QED BY <2>2, <3>1 DEF IsSum
  <2> QED BY <2>3
<1> HIDE DEF S
<1>3. n \in S
  BY <1>1, <1>2, Induction
<1> QED BY <1>3 DEF S

(* ... and are the same whichever of the two is taken.                      *)
LEMMA SumsAgree ==
  ASSUME NEW q, NEW n \in Nat, NEW m \in Nat, NEW s, NEW t, IsSum(s, q, n), IsSum(t, q, m), NEW k \in Nat, k <= n, k <= m
  PROVE  s[k] = t[k]
<1> DEFINE S == {j \in Nat : j <= n /\ j <= m => s[j] = t[j]}
<1>1. 0 \in S
  BY DEF IsSum
<1>2. ASSUME NEW j \in Nat, j \in S PROVE j + 1 \in S
  <2> SUFFICES ASSUME j + 1 <= n, j + 1 <= m PROVE s[j + 1] = t[j + 1]
    OBVIOUS
  <2>1. s[j] = t[j]
    BY <1>2
  <2>2. j + 1 \in 0..n /\ j + 1 \in 0..m /\ j + 1 # 0 /\ (j + 1) - 1 = j
    OBVIOUS
  <2>3. s[j + 1] = s[j] + q[j + 1].bytes
    BY <2>2 DEF IsSum
  <2>4. t[j + 1] = t[j] + q[j + 1].bytes
    BY <2>2 DEF IsSum
  <2> QED BY <2>1, <2>3, <2>4
<1> HIDE DEF S
<1>3. k \in S
  BY <1>1, <1>2, Induction
<1> QED BY <1>3 DEF S

(* The recursion that SumOf is: it counts its last entry, and nothing of    *)
(* none.                                                                    *)
LEMMA SumCounts ==
  ASSUME NEW q
  PROVE  /\ SumOf(q, 0) = 0
         /\ \A n \in Nat : SumOf(q, n + 1) = SumOf(q, n) + q[n + 1].bytes
<1> DEFINE sum(n) == CHOOSE s : IsSum(s, q, n)
<1>1. \A n \in Nat : IsSum(sum(n), q, n)
  BY SumExists
<1>2. \A n : SumOf(q, n) = sum(n)[n]
  BY DEF SumOf, IsSum
<1> HIDE DEF sum
<1>3. SumOf(q, 0) = 0
  BY <1>1, <1>2 DEF IsSum
<1>4. ASSUME NEW n \in Nat PROVE SumOf(q, n + 1) = SumOf(q, n) + q[n + 1].bytes
  <2>1. n + 1 \in 0..(n + 1) /\ n + 1 # 0 /\ (n + 1) - 1 = n /\ n + 1 \in Nat
    OBVIOUS
  <2>2. sum(n + 1)[n + 1] = sum(n + 1)[n] + q[n + 1].bytes
    BY <1>1, <2>1 DEF IsSum
  <2>3. sum(n + 1)[n] = sum(n)[n]
    BY <1>1, <2>1, SumsAgree
  <2> QED BY <1>2, <2>1, <2>2, <2>3
<1> QED BY <1>3, <1>4

(* Sums of entries are naturals; equal entries have equal sums; and what is *)
(* left of a sequence has the rest of its sum.                              *)
LEMMA SumIsNat ==
  ASSUME NEW q \in Seq(Entry), NEW n \in Nat, n <= Len(q)
  PROVE  SumOf(q, n) \in Nat
<1> DEFINE S == {m \in Nat : m <= Len(q) => SumOf(q, m) \in Nat}
<1>0. Len(q) \in Nat /\ \A i \in 1..Len(q) : q[i].bytes \in Nat
  <2>1. \A i \in 1..Len(q) : q[i] \in Entry
    BY ElementOfSeq
  <2> QED BY <2>1, LenProperties DEF Entry
<1>1. 0 \in S
  BY SumCounts, SMTT(30)
<1>2. ASSUME NEW m \in Nat, m \in S PROVE m + 1 \in S
  <2> SUFFICES ASSUME m + 1 <= Len(q) PROVE SumOf(q, m + 1) \in Nat
    OBVIOUS
  <2>1. SumOf(q, m) \in Nat /\ q[m + 1].bytes \in Nat
    BY <1>0, <1>2
  <2>2. SumOf(q, m + 1) = SumOf(q, m) + q[m + 1].bytes
    BY SumCounts
  <2> HIDE DEF S
  <2> QED BY <2>1, <2>2
<1> HIDE DEF S
<1>3. n \in S
  BY <1>1, <1>2, Induction
<1> QED BY <1>3 DEF S

(* A sum depends on its entries only.                                       *)
LEMMA SumOfSame ==
  ASSUME NEW q, NEW r, NEW n \in Nat, \A i \in 1..n : q[i] = r[i]
  PROVE  SumOf(q, n) = SumOf(r, n)
<1> DEFINE S == {m \in Nat : m <= n => SumOf(q, m) = SumOf(r, m)}
<1>1. 0 \in S
  BY SumCounts
<1>2. ASSUME NEW m \in Nat, m \in S PROVE m + 1 \in S
  <2> SUFFICES ASSUME m + 1 <= n PROVE SumOf(q, m + 1) = SumOf(r, m + 1)
    OBVIOUS
  <2>1. SumOf(q, m) = SumOf(r, m) /\ q[m + 1] = r[m + 1]
    BY <1>2
  <2> QED BY <2>1, SumCounts
<1> HIDE DEF S
<1>3. n \in S
  BY <1>1, <1>2, Induction
<1> QED BY <1>3 DEF S

(* What is left of a sequence has the rest of its sum.                      *)
LEMMA SumOfRest ==
  ASSUME NEW q \in Seq(Entry), NEW k \in 0..Len(q)
  PROVE  LET rest == SubSeq(q, k + 1, Len(q))
         IN  /\ rest \in Seq(Entry) /\ Len(rest) = Len(q) - k
             /\ SumOf(rest, Len(rest)) = SumOf(q, Len(q)) - SumOf(q, k)
<1> DEFINE rest == SubSeq(q, k + 1, Len(q))
<1>0. Len(q) \in Nat /\ k \in Nat
  BY LenProperties
<1>a. rest \in Seq(Entry) /\ Len(rest) = Len(q) - k
  BY <1>0, SubSeqProperties
<1>b. \A i \in 1..(Len(q) - k) : rest[i] = q[k + i]
  <2> SUFFICES ASSUME NEW i \in 1..(Len(q) - k) PROVE rest[i] = q[k + i]
    OBVIOUS
  <2>1. i \in 1..(Len(q) - (k + 1) + 1) /\ k + i = (k + 1) + i - 1
    BY <1>0
  <2> QED BY <1>0, <2>1, SubSeqProperties
<1> HIDE DEF rest
<1> DEFINE S == {m \in Nat : k + m <= Len(q) => SumOf(rest, m) = SumOf(q, k + m) - SumOf(q, k)}
<1>1. 0 \in S
  BY <1>0, SumCounts, SumIsNat
<1>2. ASSUME NEW m \in Nat, m \in S PROVE m + 1 \in S
  <2> SUFFICES ASSUME k + (m + 1) <= Len(q) PROVE SumOf(rest, m + 1) = SumOf(q, k + (m + 1)) - SumOf(q, k)
    OBVIOUS
  <2>1. SumOf(rest, m) = SumOf(q, k + m) - SumOf(q, k)
    BY <1>0, <1>2
  <2>2. rest[m + 1] = q[k + m + 1]
    BY <1>0, <1>b
  <2>3. SumOf(q, k + m) \in Nat /\ SumOf(q, k) \in Nat /\ q[k + m + 1].bytes \in Nat
    <3>1. q[k + m + 1] \in Entry
      BY <1>0, ElementOfSeq
    <3> QED BY <1>0, <3>1, SumIsNat DEF Entry
  <2>4. SumOf(rest, m + 1) = SumOf(rest, m) + q[k + m + 1].bytes
    BY <2>2, SumCounts
  <2>5. k + m \in Nat /\ k + (m + 1) = (k + m) + 1
    BY <1>0
  <2>6. SumOf(q, (k + m) + 1) = SumOf(q, k + m) + q[k + m + 1].bytes
    BY <2>5, SumCounts
  <2>7. SumOf(rest, m + 1) = SumOf(q, (k + m) + 1) - SumOf(q, k)
    BY <2>1, <2>3, <2>4, <2>6
  <2> QED BY <2>5, <2>7
<1> HIDE DEF S
<1>3. Len(q) - k \in S
  <2>1. Len(q) - k \in Nat
    BY <1>0
  <2> QED BY <1>1, <1>2, <2>1, Induction
<1>4. SumOf(rest, Len(q) - k) = SumOf(q, k + (Len(q) - k)) - SumOf(q, k)
  BY <1>0, <1>3 DEF S
<1>5. k + (Len(q) - k) = Len(q)
  BY <1>0
<1> QED BY <1>a, <1>4, <1>5 DEF rest
-----------------------------------------------------------------------------
(* The room of the buffer.                                                  *)

RoomInv ==
  /\ Len(entries) <= maxPending
  /\ pendingBytes = SumOf(entries, Len(entries))
  /\ pendingBytes <= maxPendingBytes
  /\ NoStrandedPublisher

(* The count starts at the sum of no entries.                               *)
LEMMA InitRoom == Init => RoomInv
<1> SUFFICES ASSUME Init PROVE RoomInv
  OBVIOUS
<1>1. entries = <<>> /\ Len(entries) = 0 /\ pendingBytes = 0
  BY EmptySeq DEF Init
<1>2. SumOf(entries, 0) = 0
  BY SumCounts
<1>3. NoStrandedPublisher
  BY DEF Init, NoStrandedPublisher
<1> QED BY <1>1, <1>2, <1>3, BufferAssumption DEF RoomInv

(* The count is a natural, whatever is in the buffer.                       *)
LEMMA CountIsNat ==
  ASSUME TypesInv, RoomInv
  PROVE  pendingBytes \in Nat /\ Len(entries) \in Nat
<1>1. Len(entries) \in Nat
  BY LenProperties DEF TypesInv
<1> QED BY <1>1, SumIsNat DEF RoomInv, TypesInv

(* An append needs room, and leaves less: who had none still has none.      *)
LEMMA AppendRoom ==
  ASSUME TypesInv, RoomInv, NEW p \in Publishers, NEW size \in Nat, hasCapacity(size), AppendEvent(p, size),
         \A q \in Publishers \ {p} : bytes'[q] = bytes[q]
  PROVE  RoomInv'
<1> DEFINE new == [cursor |-> nextCursor, bytes |-> size]
           n == Len(entries)
<1>1. pendingBytes \in Nat /\ n \in Nat /\ pendingBytes' = pendingBytes + size
  BY CountIsNat DEF AppendEvent
<1>2. new \in Entry /\ entries' = Append(entries, new)
  BY DEF AppendEvent, Entry, TypesInv
<1>3. /\ Len(entries') = n + 1
      /\ \A i \in 1..n : entries'[i] = entries[i]
      /\ entries'[n + 1] = new
  BY <1>2, AppendProperties DEF TypesInv
<1>4. SumOf(entries', n + 1) = SumOf(entries, n) + size
  <2>1. SumOf(entries', n) = SumOf(entries, n)
    BY <1>1, <1>3, SumOfSame
  <2>2. SumOf(entries', n + 1) = SumOf(entries', n) + new.bytes
    BY <1>1, <1>3, SumCounts
  <2> QED BY <2>1, <2>2
<1>5. n + 1 <= maxPending /\ pendingBytes + size <= maxPendingBytes
  BY <1>1, BufferAssumption DEF hasCapacity
<1>6. NoStrandedPublisher'
  <2> SUFFICES ASSUME NEW q \in Publishers, publish'[q] = "parked" PROVE ~hasCapacity(bytes[q])'
    BY DEF NoStrandedPublisher
  <2>1. q # p /\ publish[q] = "parked" /\ bytes'[q] = bytes[q] /\ bytes[q] \in Nat
    BY DEF AppendEvent, TypesInv
  <2>2. ~hasCapacity(bytes[q])
    BY <2>1 DEF RoomInv, NoStrandedPublisher
  <2> QED BY <1>1, <1>3, <2>1, <2>2, BufferAssumption DEF hasCapacity
<1> QED BY <1>1, <1>3, <1>4, <1>5, <1>6 DEF RoomInv

(* An acknowledgment returns what its entries hold and, if there are any,   *)
(* wakes everyone who waits.                                                *)
LEMMA AcknowledgeRoom ==
  ASSUME TypesInv, RoomInv, NEW through, Acknowledge(through)
  PROVE  RoomInv'
<1>1. PICK n \in 0..Len(entries) :
        /\ entries' = SubSeq(entries, n + 1, Len(entries))
        /\ pendingBytes' = pendingBytes - BytesOf(n)
        /\ publish' = [p \in Publishers |->
             IF publish[p] = "appended" /\ \E i \in 1..n : entries[i].cursor = cursorOf[p] THEN "resolved"
             ELSE IF publish[p] = "parked" /\ n > 0 THEN "woken" ELSE publish[p]]
  BY DEF Acknowledge
<1>2. bytes' = bytes
  BY DEF Acknowledge
<1>3. BytesOf(n) = SumOf(entries, n)
  BY DEF BytesOf, SumOf
<1>4. /\ entries' \in Seq(Entry) /\ Len(entries') = Len(entries) - n
      /\ SumOf(entries', Len(entries')) = SumOf(entries, Len(entries)) - SumOf(entries, n)
  BY <1>1, SumOfRest DEF TypesInv
<1>5. /\ Len(entries) \in Nat /\ pendingBytes \in Nat /\ SumOf(entries, n) \in Nat
      /\ pendingBytes' = SumOf(entries', Len(entries'))
  BY <1>1, <1>3, <1>4, CountIsNat, SumIsNat DEF RoomInv, TypesInv
<1>6. pendingBytes' <= maxPendingBytes
  BY <1>1, <1>3, <1>5, BufferAssumption DEF RoomInv
<1>7. Len(entries') <= maxPending
  BY <1>1, <1>4, <1>5, BufferAssumption DEF RoomInv
<1>8. NoStrandedPublisher'
  <2>1. CASE n = 0
    <3>1. pendingBytes' = pendingBytes /\ Len(entries') = Len(entries)
      BY <1>1, <1>3, <1>4, <1>5, <2>1, SumCounts
    <3>2. \A p \in Publishers : publish'[p] = "parked" => publish[p] = "parked"
      BY <1>1
    <3> QED BY <1>2, <3>1, <3>2 DEF RoomInv, NoStrandedPublisher, hasCapacity
  <2>2. CASE n # 0
    <3>1. \A p \in Publishers : publish'[p] # "parked"
      BY <1>1, <2>2
    <3> QED BY <3>1 DEF NoStrandedPublisher
  <2> QED BY <2>1, <2>2
<1> QED BY <1>5, <1>6, <1>7, <1>8 DEF RoomInv

(* What changes neither the entries nor a size, and parks nobody.           *)
LEMMA SameRoom ==
  ASSUME RoomInv, UNCHANGED <<entries, pendingBytes, bytes>>,
         \A p \in Publishers : publish'[p] = "parked" => publish[p] = "parked"
  PROVE  RoomInv'
BY DEF RoomInv, NoStrandedPublisher, hasCapacity

(* Every step keeps the room.                                               *)
LEMMA RoomStep == TypesInv /\ RoomInv /\ [Next]_vars => RoomInv'
<1> SUFFICES ASSUME TypesInv, RoomInv, [Next]_vars PROVE RoomInv'
  OBVIOUS
<1>1. ASSUME NEW p \in Publishers, NEW size \in Nat, AppendOrPark(p, size), bytes' = [bytes EXCEPT ![p] = size]
      PROVE  RoomInv'
  <2>1. \A q \in Publishers : bytes'[q] = IF q = p THEN size ELSE bytes[q]
    BY <1>1 DEF TypesInv
  <2>2. CASE hasCapacity(size)
    BY <1>1, <2>1, <2>2, AppendRoom DEF AppendOrPark
  <2>3. CASE ~hasCapacity(size)
    <3>1. UNCHANGED <<entries, pendingBytes>> /\ publish' = [publish EXCEPT ![p] = "parked"]
      BY <1>1, <2>3 DEF AppendOrPark, Park, bufferVars
    <3>2. \A q \in Publishers \ {p} : publish'[q] = publish[q]
      BY <3>1 DEF TypesInv
    <3> QED BY <2>1, <2>3, <3>1, <3>2 DEF RoomInv, NoStrandedPublisher, hasCapacity
  <2> QED BY <2>2, <2>3
<1>2. ASSUME NEW p \in Publishers, NEW size \in Sizes, Publish(p, size) PROVE RoomInv'
  <2>1. size \in Nat
    BY BufferAssumption
  <2> QED BY <1>1, <1>2, <2>1 DEF Publish
<1>3. ASSUME NEW p \in Publishers, ResumePublish(p) PROVE RoomInv'
  <2>1. bytes' = [bytes EXCEPT ![p] = bytes[p]] /\ bytes[p] \in Nat
    BY <1>3 DEF ResumePublish, TypesInv
  <2> QED BY <1>1, <1>3, <2>1 DEF ResumePublish
<1>4. ASSUME NEW p \in Publishers, AbortPublish(p) \/ ResumeAborted(p) PROVE RoomInv'
  BY <1>4, SameRoom DEF AbortPublish, ResumeAborted, bufferVars, TypesInv
<1>5. ASSUME NEW r \in Polls, Read(r) \/ ResumeRead(r) \/ AbandonRead(r) \/ Store(r) PROVE RoomInv'
  BY <1>5, SameRoom DEF Read, ResumeRead, AbandonRead, Store, AnswerOrPark, bufferVars, publishVars
<1>6. CASE CollectorAcknowledges
  BY <1>6, AcknowledgeRoom DEF CollectorAcknowledges
<1>7. CASE UNCHANGED vars
  BY <1>7, SameRoom DEF vars, bufferVars, publishVars
<1> QED BY <1>2, <1>3, <1>4, <1>5, <1>6, <1>7 DEF Next

(* The buffer stays within both limits and its byte count is exact, however *)
(* events are appended, retried, aborted and acknowledged; and no publisher *)
(* stays parked while there is room for its event.                          *)
THEOREM BufferSharesRoom == Spec => []RoomIsShared
<1>1. BufferInv => TypesInv
  BY DEF BufferInv
<1>2. TypesInv /\ RoomInv => RoomIsShared
  <2> SUFFICES ASSUME TypesInv, RoomInv PROVE Bounded
    BY DEF RoomIsShared, RoomInv
  <2>1. BytesOf(Len(entries)) = SumOf(entries, Len(entries))
    BY DEF BytesOf, SumOf
  <2> QED BY <2>1, CountIsNat, BufferAssumption DEF RoomInv, Bounded
<1> QED BY <1>1, <1>2, InitRoom, RoomStep, BufferInvariant, PTL DEF Spec

=============================================================================
