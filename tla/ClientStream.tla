----------------------------- MODULE ClientStream -----------------------------
(***************************************************************************)
(* The client's subscription to the events of a Session                    *)
(* (src/src/stream.ts): server-sent events read line by line from chunks   *)
(* of any length, checked against the cursor of the one before, yielded to *)
(* an application that resumes after the last cursor it saw.  A character  *)
(* is a line's text, taken whole, or one of CR and LF; a frame is the id   *)
(* line and the data line of an event and a blank line, in any of the      *)
(* three line endings; the lines of a frame that is no event are one.      *)
(* The platform (external) honours the cursor, may lose a connection       *)
(* anywhere, report an error, resend an event, send what is no event, or   *)
(* begin a new stream.                                                     *)
(***************************************************************************)
EXTENDS Naturals, Sequences

CONSTANTS
    MaxEvents,      \* bound: events of a stream
    MaxStreams,     \* bound: streams of the Session
    MaxConnections, \* bound: subscriptions
    MaxWire         \* bound: characters on their way and in a chunk

ASSUME StreamAssumption ==
    {MaxEvents, MaxStreams} \subseteq Nat \ {0} /\ {MaxConnections, MaxWire} \subseteq Nat

None == [stream |-> 0, sequence |-> 0]
CR == <<"cr", None>>
LF == <<"lf", None>>
Comment == <<"comment", None>>
NoLine == <<"none", None>>
Cursor == [stream : 1..MaxStreams, sequence : 1..MaxEvents]
(* The data of an error event, and data that is no event: not JSON, of some  *)
(* other type, or too long.                                                  *)
Failure == [stream |-> 0, sequence |-> 1]
Garbled == [stream |-> 0, sequence |-> 2]
Data == Cursor \cup {Failure, Garbled}
Text == ({"id"} \X Cursor) \cup ({"data"} \X Data) \cup {Comment}
Links == {"off", "on", "eof", "invalid_event_stream", "event_stream_reset", "event_stream_failed"}

VARIABLES
    stream,      \* the platform's current stream
    sent,        \* the last event it has sent on this connection
    honest,      \* it has not resent an event on this connection
    ending,      \* the line ending it uses
    wire,        \* characters on their way
    link,        \* "off", "on", "eof", or what the subscription threw
    chunk,       \* characters readLines has and has not looked at
    partial,     \* the line it is in the middle of
    skipLF,      \* the last character it ended a line with was CR
    id, data,    \* the frame so far
    previous,    \* the cursor the next event must follow
    last,        \* the cursor the application resumes after
    connections  \* subscriptions so far (bound)
streamVars == <<stream, sent, honest, ending, wire, link, chunk, partial, skipLF, id, data,
                previous, last, connections>>

StreamTypeOK ==
    /\ stream \in 1..MaxStreams /\ sent \in 0..MaxEvents /\ honest \in BOOLEAN
    /\ ending \in {<<LF>>, <<CR>>, <<CR, LF>>}
    /\ wire \in Seq(Text \cup {CR, LF}) /\ chunk \in Seq(Text \cup {CR, LF})
    /\ link \in Links
    /\ partial \in Text \cup {NoLine} /\ skipLF \in BOOLEAN
    /\ {id, previous, last} \subseteq Cursor \cup {None} /\ data \in Data \cup {None}
    /\ connections \in 0..MaxConnections

StreamInit ==
    /\ stream = 1 /\ sent = 0 /\ honest = TRUE /\ ending = <<LF>> /\ wire = <<>>
    /\ link = "off" /\ chunk = <<>> /\ partial = NoLine /\ skipLF = FALSE
    /\ id = None /\ data = None /\ previous = None /\ last = None /\ connections = 0

platform == <<stream, sent, honest, ending>>
reader == <<chunk, partial, skipLF, id, data, previous>>

(* The platform: one more event, an old one again, a comment, an error or    *)
(* what is no event, a new stream, the end of the connection with part of    *)
(* what it had sent.                                                         *)
Frame(n) == LET c == [stream |-> stream, sequence |-> n] IN
            <<<<"id", c>>>> \o ending \o <<<<"data", c>>>> \o ending \o ending
PlatformSends ==
    /\ link = "on"
    /\ \/ sent < MaxEvents /\ sent' = sent + 1 /\ wire' = wire \o Frame(sent + 1)
          /\ UNCHANGED honest
       \/ \E n \in 1..sent : wire' = wire \o Frame(n) /\ honest' = FALSE /\ UNCHANGED sent
       \/ wire' = wire \o <<Comment>> \o ending /\ UNCHANGED <<sent, honest>>
    /\ Len(chunk) + Len(wire') <= MaxWire
    /\ UNCHANGED <<stream, ending, link, reader, last, connections>>
(* Nothing is read after a frame that is no event: it is the last one sent.  *)
NoEvent(d) == <<<<"data", d>>>> \o ending \o ending
PlatformFails ==
    /\ link = "on" /\ link' = "eof"
    /\ \E d \in {Failure, Garbled} : wire' = wire \o NoEvent(d) /\ honest' = (honest /\ d = Failure)
    /\ Len(chunk) + Len(wire') <= MaxWire
    /\ UNCHANGED <<stream, sent, ending, reader, last, connections>>
PlatformResets ==
    /\ link = "off" /\ stream < MaxStreams
    /\ stream' = stream + 1
    /\ UNCHANGED <<sent, honest, ending, wire, link, reader, last, connections>>
ConnectionEnds ==
    /\ link = "on" /\ link' = "eof"
    /\ \E n \in 0..Len(wire) : wire' = SubSeq(wire, 1, n)
    /\ UNCHANGED <<platform, reader, last, connections>>

(* One subscription, after the cursor the application gives.  Without one,   *)
(* or with that of another stream, the platform begins where it likes.       *)
Subscribe ==
    /\ link = "off" /\ connections < MaxConnections
    /\ link' = "on" /\ connections' = connections + 1
    /\ previous' = last
    /\ sent' \in IF last.stream = stream THEN {last.sequence} ELSE 0..1
    /\ ending' \in {<<LF>>, <<CR>>, <<CR, LF>>}
    /\ UNCHANGED <<stream, honest, wire, chunk, partial, skipLF, id, data, last>>

(* reader.read(): some of the characters.                                    *)
ReadChunk ==
    /\ link \in {"on", "eof"} /\ chunk = <<>>
    /\ \E n \in 1..Len(wire) :
        /\ chunk' = SubSeq(wire, 1, n) /\ wire' = SubSeq(wire, n + 1, Len(wire))
    /\ UNCHANGED <<platform, link, partial, skipLF, id, data, previous, last, connections>>

(* Seeded fault: only the stream is compared.                                *)
RejectedOther(event) ==
    IF event = Failure THEN "event_stream_failed"
    ELSE IF id # event THEN "invalid_event_stream"
    ELSE IF previous # None /\ previous.stream # event.stream THEN "event_stream_reset" ELSE "no"
(* A blank line ends a frame: the event must carry the id of its frame, which*)
(* is never that of garbled data, and follow the cursor before it.           *)
Rejected(event) ==
    IF event = Failure THEN "event_stream_failed"
    ELSE IF id # event THEN "invalid_event_stream"
    ELSE IF previous = None THEN "no"
    ELSE IF previous.stream # event.stream THEN "event_stream_reset"
    ELSE IF event.sequence <= previous.sequence THEN "invalid_event_stream" ELSE "no"
Dispatch ==
    /\ id' = None /\ data' = None
    /\ IF data = None THEN UNCHANGED <<previous, last, link>>
       ELSE IF Rejected(data) = "no"
       THEN previous' = data /\ last' = data /\ UNCHANGED link
       ELSE link' = Rejected(data) /\ UNCHANGED <<previous, last>>
Line(l) ==
    IF l = NoLine THEN Dispatch
    ELSE /\ id' = IF l[1] = "id" THEN l[2] ELSE id
         /\ data' = IF l[1] = "data" THEN l[2] ELSE data
         /\ UNCHANGED <<previous, last, link>>

(* readLines looks at one character: LF after CR belongs to the same line    *)
(* ending, though it may begin the next chunk.                               *)
ReadChar ==
    /\ link \in {"on", "eof"} /\ chunk # <<>>
    /\ chunk' = Tail(chunk)
    /\ skipLF' = (Head(chunk) = CR)
    /\ IF Head(chunk) = LF /\ skipLF THEN UNCHANGED <<partial, id, data, previous, last, link>>
       ELSE IF Head(chunk) \in {CR, LF} THEN partial' = NoLine /\ Line(partial)
       ELSE partial' = Head(chunk) /\ UNCHANGED <<id, data, previous, last, link>>
    /\ UNCHANGED <<platform, wire, connections>>

(* The connection and the locals of its reader are gone.                     *)
Gone ==
    /\ link' = "off" /\ sent' = 0 /\ honest' = TRUE /\ ending' = <<LF>> /\ wire' = <<>>
    /\ chunk' = <<>> /\ partial' = NoLine /\ skipLF' = FALSE
    /\ id' = None /\ data' = None /\ previous' = None
(* The stream ends (a frame in the middle is not dispatched), or the         *)
(* application breaks off: either way the body is cancelled.                 *)
StreamEnds ==
    /\ link = "on" \/ (link = "eof" /\ wire = <<>> /\ chunk = <<>>)
    /\ Gone
    /\ UNCHANGED <<stream, last, connections>>
(* An application that is told of a new stream starts over without a cursor; *)
(* after any other error it resumes.                                         *)
HandleError ==
    /\ link \in Links \ {"off", "on", "eof"}
    /\ Gone
    /\ last' = IF link = "event_stream_reset" THEN None ELSE last
    /\ UNCHANGED <<stream, connections>>

StreamNext ==
    \/ PlatformSends \/ PlatformFails \/ PlatformResets \/ ConnectionEnds
    \/ Subscribe \/ ReadChunk \/ ReadChar \/ StreamEnds \/ HandleError
StreamSpec == StreamInit /\ [][StreamNext]_streamVars

-----------------------------------------------------------------------------
(* Across lost connections and resent events the application sees each event *)
(* of a stream once, in order and without a gap, and never one of another    *)
(* stream before it has been told; and however lines end and chunks split,   *)
(* frames sent in order are never refused (stream.ts 56-90, 109-133).        *)
Follows ==
    last' # last /\ last # None /\ last' # None =>
        /\ last'.stream = last.stream
        /\ last'.sequence = last.sequence + 1
WellFormedIsAccepted == link = "invalid_event_stream" => ~honest
EventsFollow == [][Follows]_streamVars /\ []WellFormedIsAccepted
=============================================================================
