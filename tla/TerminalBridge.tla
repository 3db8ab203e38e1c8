---------------------------- MODULE TerminalBridge ----------------------------
(***************************************************************************)
(* The platform side of a login terminal: what a browser types, message by *)
(* message, is posted to the Sandbox one request at a time                 *)
(* (src/src/auth-terminal-bridge.ts), and reading the browser's socket is  *)
(* paused while too many posts wait (terminal-socket.ts).  Messages are    *)
(* numbered in the order the browser sent them; several may arrive in one  *)
(* chunk, of which a pause leaves a part unparsed.                         *)
(***************************************************************************)
EXTENDS Naturals, Sequences, SequencesExt

CONSTANTS
    MAX_PENDING_INPUTS,      \* 32 in the code
    RESUME_PENDING_INPUTS,   \* half of it
    MaxMessages              \* bound: messages of the browser

ASSUME BridgeAssumption ==
    /\ MAX_PENDING_INPUTS \in Nat /\ MaxMessages \in Nat
    /\ RESUME_PENDING_INPUTS \in 0..(MAX_PENDING_INPUTS - 1)

VARIABLES
    typed,      \* messages the browser has sent
    outgoing,   \* those on their way to the socket
    unparsed,   \* those the socket has given and parse has not read
    posts,      \* posts in the chain, the head under way; their number is pending
    paused,     \* the socket is paused
    parseDue,   \* a microtask will parse
    open,       \* the WebSocket is open
    received    \* what the Sandbox has written to the CLI
bridgeVars == <<typed, outgoing, unparsed, posts, paused, parseDue, open, received>>

BridgeTypeOK ==
    /\ typed \in 0..MaxMessages
    /\ \A s \in {outgoing, unparsed, posts, received} : s \in Seq(1..MaxMessages)
    /\ paused \in BOOLEAN /\ parseDue \in BOOLEAN /\ open \in BOOLEAN

BridgeInit ==
    /\ typed = 0 /\ outgoing = <<>> /\ unparsed = <<>> /\ posts = <<>> /\ received = <<>>
    /\ paused = FALSE /\ parseDue = FALSE /\ open = TRUE

Type ==
    /\ open /\ typed < MaxMessages
    /\ typed' = typed + 1 /\ outgoing' = Append(outgoing, typed + 1)
    /\ UNCHANGED <<unparsed, posts, paused, parseDue, open, received>>

(* parse() over the bytes it has: every message is posted, until the post    *)
(* that reaches the limit pauses the socket and the loop.                    *)
Room == MAX_PENDING_INPUTS - Len(posts)
(* Seeded fault: the loop does not heed the pause.                          *)
ParseAll(bytes) ==
    /\ posts' = posts \o bytes
    /\ unparsed' = <<>>
    /\ paused' = (Len(bytes) >= Room)
Parse(bytes) ==
    LET n == IF Len(bytes) < Room THEN Len(bytes) ELSE Room IN
    /\ posts' = posts \o SubSeq(bytes, 1, n)
    /\ unparsed' = SubSeq(bytes, n + 1, Len(bytes))
    /\ paused' = (n = Room)

(* A chunk of some of the messages arrives on a socket that is not paused.   *)
Chunk ==
    /\ open /\ ~paused /\ outgoing # <<>>
    /\ \E n \in 1..Len(outgoing) :
        /\ Parse(unparsed \o SubSeq(outgoing, 1, n))
        /\ outgoing' = SubSeq(outgoing, n + 1, Len(outgoing))
    /\ UNCHANGED <<typed, parseDue, open, received>>
ParseJob ==
    /\ parseDue /\ parseDue' = FALSE
    /\ IF open /\ ~paused THEN Parse(unparsed) ELSE UNCHANGED <<posts, unparsed, paused>>
    /\ UNCHANGED <<typed, outgoing, open, received>>

(* The Sandbox takes the first post: its bytes are written before it answers.*)
Take ==
    /\ posts # <<>> /\ open
    /\ ~Contains(received, Head(posts))
    /\ received' = Append(received, Head(posts))
    /\ UNCHANGED <<typed, outgoing, unparsed, posts, paused, parseDue, open>>

(* Seeded fault: resume() does not parse again.                             *)
PostSettledSilently(left) ==
    /\ posts' = left
    /\ paused' = (paused /\ (Len(left) > RESUME_PENDING_INPUTS \/ ~open))
    /\ UNCHANGED parseDue
(* A post is over: resume() once few enough are left, and parse what was     *)
(* left of the last chunk.                                                   *)
PostSettled(left) ==
    /\ posts' = left
    /\ paused' = (paused /\ (Len(left) > RESUME_PENDING_INPUTS \/ ~open))
    /\ parseDue' = (parseDue \/ (paused /\ ~paused'))
PostAnswered ==
    /\ posts # <<>> /\ (~open \/ Contains(received, Head(posts)))
    /\ PostSettled(Tail(posts))
    /\ UNCHANGED <<typed, outgoing, unparsed, open, received>>
(* A post is refused or fails: the terminal closes, its other posts are      *)
(* given up.                                                                 *)
PostFails ==
    /\ posts # <<>> /\ open
    /\ open' = FALSE
    /\ posts' = Tail(posts)
    /\ UNCHANGED <<typed, outgoing, unparsed, paused, parseDue, received>>

(* The browser leaves, the CLI exits, or a frame is malformed or its reader  *)
(* stalls.                                                                   *)
Closed ==
    /\ open /\ open' = FALSE
    /\ UNCHANGED <<typed, outgoing, unparsed, posts, paused, parseDue, received>>

BridgeNext == Type \/ Chunk \/ ParseJob \/ Take \/ PostAnswered \/ PostFails \/ Closed
(* Fairness: the event loop, the socket and a Sandbox that answers.          *)
BridgeFair ==
    /\ WF_bridgeVars(Chunk) /\ WF_bridgeVars(ParseJob)
    /\ WF_bridgeVars(Take) /\ WF_bridgeVars(PostAnswered)
BridgeSpec == BridgeInit /\ [][BridgeNext]_bridgeVars /\ BridgeFair

-----------------------------------------------------------------------------
(* The posts that wait never exceed the limit, however many messages come in *)
(* one chunk (auth-terminal-bridge.ts 47, terminal-socket.ts 67, 115-119).   *)
BacklogIsBounded == Len(posts) <= MAX_PENDING_INPUTS

(* While the Sandbox answers, every keystroke arrives, in its place, unless  *)
(* the terminal closes: a pause is always lifted, and what it had left       *)
(* unparsed is read although no further byte may come                        *)
(* (auth-terminal-bridge.ts 46-55, terminal-socket.ts 120-125).              *)
KeystrokesArrive == <>[](received = [n \in 1..typed |-> n] \/ ~open)
=============================================================================
