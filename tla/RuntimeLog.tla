------------------------------- MODULE RuntimeLog -------------------------------
(***************************************************************************)
(* Observations of a runtime: spans, activity records and the captured     *)
(* lines of console, stdout and stderr (src/src/observability.ts,          *)
(* runtime-log-capture.ts).  Publishing never waits: what the buffer has   *)
(* no room for is dropped, and the next line of the same target is to say  *)
(* so first.  A target is the observer of a message or, for lines written  *)
(* outside of every message, the buffer of the only runtime of the         *)
(* process.  A chunk of several lines is several steps of Console or Write.*)
(***************************************************************************)
EXTENDS Naturals, Sequences, SequencesExt, FiniteSets, FiniteSetsExt

CONSTANTS
    Observer,        \* messages that log
    SoleBuffer,      \* the target of lines outside of them
    LineSizes,
    MAX_OBSERVATION_BYTES, MaxBuffered, MaxBufferedBytes,
    MaxLines,        \* bound: lines written
    MaxSpans         \* bound: spans and activity records

Target == Observer \cup {SoleBuffer}

ASSUME LogAssumption ==
    /\ LineSizes \subseteq Nat /\ IsFiniteSet(LineSizes) /\ SoleBuffer \notin Observer
    /\ {MAX_OBSERVATION_BYTES, MaxBuffered, MaxBufferedBytes, MaxLines, MaxSpans} \subseteq Nat

VARIABLES
    buffer,      \* [entries, dropped, owed]: the records that wait, the count of
                 \* refused ones, and droppedByTarget
    collected,   \* records the platform has acknowledged (history)
    alone,       \* one runtime is registered in this process
    spans,       \* Observer -> spans begun and not completed
    opened,      \* spans begun and activity records made (bound)
    printed      \* Target -> lines given to capture (history)
logVars == <<buffer, collected, alone, spans, opened, printed>>

LogLine(t, n, size) == [kind |-> "line", of |-> t, count |-> n, bytes |-> size]
Notice(t, n) == [kind |-> "notice", of |-> t, count |-> n, bytes |-> 1]
Span(t, kind) == [kind |-> kind, of |-> t, count |-> 0, bytes |-> 1]
Records == [kind : {"line", "notice", "started", "completed", "activity"}, of : Target,
            count : Nat, bytes : Nat]

LogTypeOK ==
    /\ buffer \in [entries : Seq(Records), dropped : Nat, owed : [Target -> Nat]]
    /\ collected \in Seq(Records) /\ alone \in BOOLEAN
    /\ spans \in [Observer -> Nat] /\ opened \in 0..MaxSpans /\ printed \in [Target -> Nat]

LogInit ==
    /\ buffer = [entries |-> <<>>, dropped |-> 0, owed |-> [t \in Target |-> 0]]
    /\ collected = <<>> /\ alone = TRUE /\ opened = 0
    /\ spans = [t \in Observer |-> 0] /\ printed = [t \in Target |-> 0]

(* publishBestEffort                                                         *)
Bytes(q) == FoldLeft(LAMBDA sum, r : sum + r.bytes, 0, q)
Accepts(b, r) ==
    /\ r.bytes <= MAX_OBSERVATION_BYTES
    /\ Len(b.entries) < MaxBuffered /\ Bytes(b.entries) + r.bytes <= MaxBufferedBytes
PublishBestEffort(b, r) ==
    IF Accepts(b, r) THEN [b EXCEPT !.entries = Append(@, r)] ELSE [b EXCEPT !.dropped = @ + 1]

(* Seeded fault: a line lost with its notice is not counted.                 *)
RecordForgets(b, t, n, size) ==
    LET notice == Notice(t, b.owed[t])
        told   == [PublishBestEffort(b, notice) EXCEPT !.owed[t] = 0]
        now    == IF b.owed[t] = 0 THEN b ELSE told
    IN  IF b.owed[t] > 0 /\ ~Accepts(b, notice) THEN PublishBestEffort(b, notice)
        ELSE LET after == PublishBestEffort(now, LogLine(t, n, size))
             IN  IF Accepts(now, LogLine(t, n, size)) THEN after ELSE [after EXCEPT !.owed[t] = @ + 1]
(* record(): what is owed is told first, or else the line is lost as well.   *)
Record(b, t, n, size) ==
    LET notice == Notice(t, b.owed[t])
        told   == [PublishBestEffort(b, notice) EXCEPT !.owed[t] = 0]
        now    == IF b.owed[t] = 0 THEN b ELSE told
    IN  IF b.owed[t] > 0 /\ ~Accepts(b, notice)
        THEN [PublishBestEffort(b, notice) EXCEPT !.owed[t] = @ + 1]
        ELSE LET after == PublishBestEffort(now, LogLine(t, n, size))
             IN  IF Accepts(now, LogLine(t, n, size)) THEN after ELSE [after EXCEPT !.owed[t] = @ + 1]

(* capture(): lines outside of a message have a target only when one runtime *)
(* is registered.                                                            *)
HasTarget(t) == t # SoleBuffer \/ alone
Capture(b, t, size, suppressed) ==
    IF suppressed \/ ~HasTarget(t) THEN b ELSE Record(b, t, printed[t] + 1, size)

(* A write to a patched stream.                                              *)
StreamWrite(b, t, size, suppressed) == Capture(b, t, size, suppressed)
Prints(t, size, after) ==
    /\ SumFunction(printed) < MaxLines
    /\ buffer' = after
    /\ printed' = IF HasTarget(t) THEN [printed EXCEPT ![t] = @ + 1] ELSE printed
    /\ UNCHANGED <<collected, alone, spans, opened>>
WriteLine(t, size) == Prints(t, size, StreamWrite(buffer, t, size, FALSE))
(* console.*: the line is captured, then printed by the original, whose      *)
(* write to the patched stream is not captured again.                        *)
Console(t, size) == Prints(t, size, StreamWrite(Capture(buffer, t, size, FALSE), t, size, TRUE))

(* span(), recordActivity(): best effort too, but owed to nobody.            *)
SpanStarts(t) ==
    /\ opened < MaxSpans /\ opened' = opened + 1
    /\ spans' = [spans EXCEPT ![t] = @ + 1]
    /\ buffer' = PublishBestEffort(buffer, Span(t, "started"))
    /\ UNCHANGED <<collected, alone, printed>>
SpanEnds(t) ==
    /\ spans[t] > 0
    /\ spans' = [spans EXCEPT ![t] = @ - 1]
    /\ buffer' = PublishBestEffort(buffer, Span(t, "completed"))
    /\ UNCHANGED <<collected, alone, opened, printed>>
RecordActivity(t) ==
    /\ opened < MaxSpans /\ opened' = opened + 1
    /\ buffer' = PublishBestEffort(buffer, Span(t, "activity"))
    /\ UNCHANGED <<collected, alone, spans, printed>>

(* The platform reads and acknowledges a part (CursorBuffer has it in detail).*)
Collect ==
    /\ \E n \in 1..Len(buffer.entries) :
        /\ collected' = collected \o SubSeq(buffer.entries, 1, n)
        /\ buffer' = [buffer EXCEPT !.entries = SubSeq(@, n + 1, Len(@))]
    /\ UNCHANGED <<alone, spans, opened, printed>>
(* registerRuntimeLogBuffer: a second runtime comes or goes.                 *)
Register ==
    /\ alone' = ~alone
    /\ UNCHANGED <<buffer, collected, spans, opened, printed>>

LogNext ==
    \/ \E t \in Target, size \in LineSizes : WriteLine(t, size) \/ Console(t, size)
    \/ \E t \in Observer : SpanStarts(t) \/ SpanEnds(t) \/ RecordActivity(t)
    \/ Collect \/ Register
LogSpec == LogInit /\ [][LogNext]_logVars

-----------------------------------------------------------------------------
(* No gap is silent: a line that reaches the platform is preceded by every   *)
(* earlier line of its target, or by notices that count exactly those that   *)
(* are missing, however often the notices themselves found no room; what no  *)
(* notice has told yet is still owed (runtime-log-capture.ts 143-153).       *)
Log == collected \o buffer.entries
Accounts(t, r) == IF r.of # t THEN 0
                  ELSE IF r.kind = "line" THEN 1 ELSE IF r.kind = "notice" THEN r.count ELSE 0
Accounted(t, q, n) ==
    LET sum[i \in 0..n] == IF i = 0 THEN 0 ELSE sum[i - 1] + Accounts(t, q[i]) IN sum[n]
GapsAreAnnounced ==
    \A t \in Target :
        /\ \A i \in 1..Len(Log) :
               Log[i].kind = "line" /\ Log[i].of = t => Accounted(t, Log, i) = Log[i].count
        /\ Accounted(t, Log, Len(Log)) + buffer.owed[t] = printed[t]
=============================================================================
