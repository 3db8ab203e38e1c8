------------------------- MODULE WorkspaceSyncProofs -------------------------
(***************************************************************************)
(* Theorems about the synchronization of a Workspace, for every set of     *)
(* paths and versions and all bounds.  They rest on two invariants.        *)
(* HeldInv follows contents: what a listing, a request or the base speaks  *)
(* of has really been on the side it was seen on.  CycleInv follows the    *)
(* cycle under way: what it has settled so far was on both sides since it  *)
(* began.                                                                  *)
(***************************************************************************)
EXTENDS WorkspaceSync, TLAPS

Was(s, p, c) == c # Missing => c \in held[s][p]

(* A request replaces an agreed version by one the other side has; one that *)
(* passed its check does not remove nothing, and one that is done was       *)
(* stored.                                                                  *)
RequestHeld(r) ==
  /\ Was(Other(r.side), r.path, r.base)
  /\ Was(Other(r.side), r.path, r.data)
  /\ r.stage = "checked" /\ r.data = Missing => r.base # Missing
  /\ r.stage = "done" => Was(r.side, r.path, r.data)

HeldInv ==
  /\ \A s \in Side, p \in Path : file[s][p] \in held[s][p]
  /\ \A s \in Side, p \in Path : Was(s, p, listing[s][p])
  /\ \A s \in Side, p \in Path : Was(s, p, base[p]) /\ Was(s, p, saved[p])
  /\ \A r \in requests : RequestHeld(r)

(* The one request the process waits for, of the path it is at.             *)
WaitingInv ==
  /\ \A r \in Waiting :
       /\ at = "await" /\ r.path \in todo
       /\ r.data \in since[Other(r.side)][r.path]
       /\ r.stage = "done" => r.data \in since[r.side][r.path]
  /\ \A r, q \in Waiting : r = q

CycleInv ==
  /\ \A s \in Side, p \in Path : file[s][p] \in since[s][p]
  /\ at \in {"scanLocal", "visit", "await"} =>
       \A p \in Path : listing["remote"][p] \in since["remote"][p]
  /\ at \in {"visit", "await"} => \A p \in Path : listing["local"][p] \in since["local"][p]
  /\ at \in {"visit", "await"} /\ result = Clean =>
       \A s \in Side, p \in Path \ todo : base[p] \in since[s][p]
  /\ WaitingInv
  /\ Running => status.state = "syncing"
  /\ status.state = "synced" => \A s \in Side, p \in Path : base[p] \in since[s][p]

(* A running cycle is the head of the tail; the poll loop has at most one.  *)
QueueInv ==
  /\ Running => queue # <<>>
  /\ poll # "flushing" => Len(queue) <= MaxQueue

SyncInv == TypeOK /\ HeldInv /\ CycleInv /\ QueueInv

-----------------------------------------------------------------------------

(* There are two sides, and each is the other of the other. *)
LEMMA Sides ==
  /\ \A s \in Side : Other(s) \in Side /\ Other(s) # s /\ Other(Other(s)) = s
  /\ \A s, t \in Side : t # s => t = Other(s)
BY DEF Side, Other

(* A synchronization that has not started satisfies the invariant. *)
LEMMA SyncStarts == Init => SyncInv
<1> SUFFICES ASSUME Init PROVE SyncInv
  OBVIOUS
<1> USE DEF Init, FilesInit, Nothing, Clean
<1>1. FilesTypeOK
  BY EditsAssumption DEF FilesTypeOK, Content, Side
<1>2. TypeOK
  <2>1. queue \in Seq({"poll", "caller"}) /\ Len(queue) <= MaxQueue + 1
    BY SyncAssumption
  <2>2. {base, saved} \subseteq [Path -> Content] /\ listing \in [Side -> [Path -> Content]]
    BY DEF Content
  <2>3. 0 \in 0..MaxPasses /\ faults \in 0..MaxFaults
    BY SyncAssumption
  <2> QED BY <1>1, <2>1, <2>2, <2>3 DEF TypeOK
<1>3. HeldInv
  BY DEF HeldInv, Was, Side, FilesTypeOK
<1>4. CycleInv
  BY DEF CycleInv, WaitingInv, Waiting, Running
<1>5. QueueInv
  BY SyncAssumption DEF QueueInv, Running
<1> QED BY <1>2, <1>3, <1>4, <1>5 DEF SyncInv

-----------------------------------------------------------------------------
(* Types.                                                                   *)

LEMMA StoreKeepsTypes ==
  ASSUME FilesTypeOK, NEW s \in Side, NEW p \in Path, NEW c \in Content, Store(s, p, c)
  PROVE  /\ file' \in [Side -> [Path -> Content]]
         /\ held' \in [Side -> [Path -> SUBSET Content]]
         /\ since' \in [Side -> [Path -> SUBSET Content]]
BY DEF FilesTypeOK, Store

(* A request stays a request at every stage. *)
LEMMA RequestMoves ==
  ASSUME FilesTypeOK, NEW r \in requests, NEW stage \in {"sent", "checked", "done", "refused"}
  PROVE  Moved(r, stage) \subseteq Request /\ Answered(r, stage) \subseteq Request
BY DEF FilesTypeOK, Request, Moved, Answered

(* The file services keep their types. *)
LEMMA FilesStepTypes ==
  ASSUME FilesTypeOK, FilesNext
  PROVE  FilesTypeOK'
<1>1. ASSUME NEW s \in Side, NEW p \in Edited, NEW c \in Content, Edit(s, p, c)
      PROVE  FilesTypeOK'
  <2>1. p \in Path /\ Store(s, p, c) /\ requests' = requests /\ edits' \in 0..MaxEdits
    BY <1>1, EditsAssumption DEF Edit, FilesTypeOK
  <2> QED BY <2>1, StoreKeepsTypes DEF FilesTypeOK
<1>2. ASSUME NEW r \in requests, Check(r) PROVE FilesTypeOK'
  <2>1. requests' \subseteq Request
    BY <1>2, RequestMoves DEF Check
  <2> QED BY <1>2, <2>1 DEF Check, FilesTypeOK
<1>3. ASSUME NEW r \in requests, Publish(r) PROVE FilesTypeOK'
  <2>1. r.side \in Side /\ r.path \in Path /\ r.data \in Content
    BY DEF FilesTypeOK, Request
  <2>2. requests' \subseteq Request
    BY <1>3, RequestMoves DEF Publish
  <2>3. edits' = edits
    BY <1>3 DEF Publish
  <2>4. CASE Store(r.side, r.path, r.data)
    BY <2>1, <2>2, <2>3, <2>4, StoreKeepsTypes DEF FilesTypeOK
  <2>5. CASE UNCHANGED <<file, held, since>>
    BY <2>2, <2>3, <2>5 DEF FilesTypeOK
  <2> QED BY <1>3, <2>4, <2>5 DEF Publish
<1>4. ASSUME NEW r \in requests, Cancel(r) PROVE FilesTypeOK'
  BY <1>4 DEF Cancel, FilesTypeOK
<1> QED BY <1>1, <1>2, <1>3, <1>4 DEF FilesNext, Serve

(* Giving up requests adds none. *)
LEMMA SomeRequests ==
  ASSUME requests \subseteq Request
  PROVE  Abandon(requests) \subseteq Request /\ WithoutLocal(requests) \subseteq Request
BY DEF Abandon, WithoutLocal, Request

(* Leaving a pass keeps the types of what it leaves behind. *)
LEMMA LeaveTypes ==
  ASSUME TypeOK, queue # <<>>, Leave
  PROVE  /\ listing' \in [Side -> [Path -> Content]] /\ todo' \subseteq Path
         /\ result' \in [conflicts : SUBSET Path, failure : BOOLEAN, changed : BOOLEAN]
         /\ attempt' \in 0..MaxPasses /\ at' = "idle"
         /\ queue' \in Seq({"poll", "caller"}) /\ Len(queue') <= MaxQueue + 1
         /\ poll' \in {"due", "flushing", "ended"}
<1>1. /\ queue' = Tail(queue) /\ queue \in Seq({"poll", "caller"}) /\ Len(queue) <= MaxQueue + 1
      /\ MaxQueue \in Nat
  BY SyncAssumption DEF Leave, TypeOK
<1>2. queue' \in Seq({"poll", "caller"}) /\ Len(queue') <= MaxQueue + 1
  BY <1>1
<1>3. /\ listing' \in [Side -> [Path -> Content]] /\ todo' \subseteq Path
      /\ result' \in [conflicts : SUBSET Path, failure : BOOLEAN, changed : BOOLEAN]
  BY DEF Leave, ForgetPass, Nothing, Clean, Content
<1>4. attempt' \in 0..MaxPasses
  BY SyncAssumption DEF Leave, ForgetPass
<1> QED BY <1>2, <1>3, <1>4 DEF Leave, TypeOK

(* A cycle that fails keeps the types. *)
LEMMA FailCycleTypes ==
  ASSUME TypeOK, queue # <<>>, FailCycle, saved' \in [Path -> Content], faults' \in 0..MaxFaults
  PROVE  TypeOK'
<1>1. FilesTypeOK'
  BY SomeRequests DEF FailCycle, TypeOK, FilesTypeOK
<1>2. base' = base /\ helper' = helper /\ stopping' = stopping /\ writes' = writes
  BY DEF FailCycle
<1>3. status' \in [state : {"syncing", "synced", "conflict", "failed", "stopped", "crashed"},
                  conflicts : SUBSET Path]
  BY DEF FailCycle, TypeOK
<1>4. Leave
  BY DEF FailCycle
<1> QED BY <1>1, <1>2, <1>3, <1>4, LeaveTypes DEF TypeOK

(* The report of a cycle stays a report. *)
LEMMA NoteTypes ==
  ASSUME TypeOK, NEW field \in {"failure", "changed"}, Note(field)
  PROVE  result' \in [conflicts : SUBSET Path, failure : BOOLEAN, changed : BOOLEAN]
<1>1. CASE field = "failure"
  BY <1>1 DEF TypeOK, Note
<1>2. CASE field = "changed"
  BY <1>2 DEF TypeOK, Note
<1> QED BY <1>1, <1>2

(* Visiting a path keeps the types. *)
LEMMA VisitTypes ==
  ASSUME TypeOK, NEW p \in Path, Visit(p)
  PROVE  TypeOK'
<1>1. /\ listing' = listing /\ UNCHANGED <<saved, attempt, helper, queue, poll, stopping, status, writes, faults>>
      /\ IsNext(p) /\ at = "visit"
  BY DEF Visit
<1>2. base' \in [Path -> Content] /\ at' \in {"visit", "await"}
  BY DEF Visit, TypeOK, Settle, Side
<1>3. result' \in [conflicts : SUBSET Path, failure : BOOLEAN, changed : BOOLEAN]
  <2>1. CASE Note("failure") \/ Note("changed")
    BY <2>1, NoteTypes
  <2>2. CASE result' = [result EXCEPT !.conflicts = @ \union {p}] \/ result' = result
    BY <2>2 DEF TypeOK
  <2> QED BY <2>1, <2>2 DEF Visit
<1>4. todo' \subseteq Path
  BY DEF Visit, TypeOK, Settle
<1>5. ASSUME Decision(p) \in Side PROVE Transfer(p) \in Request
  BY <1>5, Sides DEF TypeOK, Transfer, Request, Target, New
<1>6. requests' \subseteq Request /\ UNCHANGED <<file, held, since, edits>>
  BY <1>5 DEF Visit, TypeOK, FilesTypeOK, Settle, filesVars
<1> QED BY <1>1, <1>2, <1>3, <1>4, <1>6 DEF TypeOK, FilesTypeOK

(* Every step of a cycle keeps the types. *)
LEMMA CycleTypes ==
  ASSUME TypeOK, QueueInv, Cycle
  PROVE  TypeOK'
<1> USE DEF TypeOK
<1>1. CASE PollFlush
  <2>1. queue' \in Seq({"poll", "caller"})
    BY <1>1 DEF PollFlush
  <2>2. Len(queue') <= MaxQueue + 1
    BY <1>1, SyncAssumption DEF PollFlush, QueueInv
  <2> QED BY <1>1, <2>1, <2>2 DEF PollFlush, filesVars, passVars, FilesTypeOK
<1>2. CASE BeginCycle
  <2>1. since' \in [Side -> [Path -> SUBSET Content]]
    BY <1>2 DEF BeginCycle, FilesTypeOK
  <2>2. 1 \in 0..MaxPasses
    BY SyncAssumption
  <2> QED BY <1>2, <2>1, <2>2 DEF BeginCycle, SpawnHelper, FilesTypeOK
<1>3. CASE RefuseCycle
  BY <1>3, LeaveTypes DEF RefuseCycle, filesVars, FilesTypeOK
<1>4. CASE ScanRemote
  BY <1>4 DEF ScanRemote, filesVars, FilesTypeOK, Side
<1>5. CASE ScanLocal
  BY <1>5 DEF ScanLocal, filesVars, FilesTypeOK, Side, Clean
<1>6. CASE \E p \in Path : Visit(p)
  BY <1>6, VisitTypes
<1>7. CASE Answer
  <2>1. PICK r \in Waiting :
           /\ IF r.stage = "done" THEN base' = [base EXCEPT ![r.path] = r.data] /\ UNCHANGED result
                                  ELSE Note("changed") /\ UNCHANGED base
           /\ requests' = requests \ {r}
           /\ todo' = todo \ {r.path}
    BY <1>7 DEF Answer
  <2>2. r.path \in Path /\ r.data \in Content
    BY DEF Waiting, FilesTypeOK, Request
  <2>3. base' \in [Path -> Content]
    BY <2>1, <2>2
  <2>4. result' \in [conflicts : SUBSET Path, failure : BOOLEAN, changed : BOOLEAN]
    BY <2>1, NoteTypes
  <2> QED BY <1>7, <2>1, <2>3, <2>4 DEF Answer, FilesTypeOK
<1>8. CASE Conclude
  <2>1. CASE Again
    BY <1>8, <2>1, SyncAssumption DEF Conclude, Again, filesVars, FilesTypeOK
  <2>2. CASE ~Again
    BY <1>8, <2>2, LeaveTypes DEF Conclude, Verdict, filesVars, FilesTypeOK, Running, QueueInv
  <2> QED BY <2>1, <2>2
<1>9. CASE HelperGone
  BY <1>9, FailCycleTypes DEF HelperGone, Running, QueueInv
<1>10. CASE Aborted
  BY <1>10, FailCycleTypes DEF Aborted, Running, QueueInv
<1>11. CASE FinishStop
  BY <1>11, SomeRequests DEF FinishStop, FilesTypeOK, passVars, Nothing, Content
<1> QED BY <1>1, <1>2, <1>3, <1>4, <1>5, <1>6, <1>7, <1>8, <1>9, <1>10, <1>11 DEF Cycle, Pass

(* Every step of the synchronization keeps the types. *)
LEMMA SyncTypes ==
  ASSUME TypeOK, QueueInv, [Next]_vars
  PROVE  TypeOK'
<1> USE DEF TypeOK
<1>1. CASE Cycle
  BY <1>1, CycleTypes
<1>2. CASE Start
  <2>1. queue' \in Seq({"poll", "caller"}) /\ Len(queue') <= MaxQueue + 1
    BY <1>2, SyncAssumption DEF Start
  <2> QED BY <1>2, <2>1 DEF Start, SpawnHelper, filesVars, passVars, FilesTypeOK
<1>3. CASE Stop
  BY <1>3 DEF Stop, filesVars, passVars, FilesTypeOK
<1>4. CASE Flush
  <2>1. queue' \in Seq({"poll", "caller"})
    BY <1>4 DEF Flush
  <2>2. Len(queue') <= MaxQueue + 1
    BY <1>4, SyncAssumption DEF Flush
  <2> QED BY <1>4, <2>1, <2>2 DEF Flush, filesVars, passVars, FilesTypeOK
<1>5. CASE HelperExits
  BY <1>5, SomeRequests DEF HelperExits, FilesTypeOK, passVars
<1>6. CASE Crash
  <2>1. FilesTypeOK'
    BY <1>6, SomeRequests DEF Crash, FilesTypeOK
  <2>2. /\ listing' \in [Side -> [Path -> Content]] /\ todo' \subseteq Path
        /\ result' \in [conflicts : SUBSET Path, failure : BOOLEAN, changed : BOOLEAN]
        /\ attempt' \in 0..MaxPasses /\ base' \in [Path -> Content]
    BY <1>6, SyncAssumption DEF Crash, ForgetPass, Nothing, Clean, Content
  <2>3. faults' \in 0..MaxFaults /\ queue' \in Seq({"poll", "caller"}) /\ Len(queue') <= MaxQueue + 1
    BY <1>6, SyncAssumption DEF Crash
  <2> QED BY <1>6, <2>1, <2>2, <2>3 DEF Crash
<1>7. CASE HelperDies
  BY <1>7, SomeRequests, SyncAssumption DEF HelperDies, FilesTypeOK, passVars
<1>8. CASE PathFails
  <2>1. result' \in [conflicts : SUBSET Path, failure : BOOLEAN, changed : BOOLEAN]
    BY <1>8, NoteTypes DEF PathFails
  <2> QED BY <1>8, <2>1, SyncAssumption DEF PathFails, FilesTypeOK
<1>9. CASE RequestFails
  <2>1. saved' \in [Path -> Content] /\ faults' \in 0..MaxFaults
    BY <1>9, SyncAssumption DEF RequestFails
  <2> QED BY <1>9, <2>1, FailCycleTypes DEF RequestFails, Running, QueueInv
<1>10. CASE FilesNext /\ UNCHANGED syncVars
  BY <1>10, FilesStepTypes DEF syncVars, passVars
<1>11. CASE UNCHANGED vars
  BY <1>11 DEF vars, filesVars, syncVars, passVars, FilesTypeOK
<1> QED BY <1>1, <1>2, <1>3, <1>4, <1>5, <1>6, <1>7, <1>8, <1>9, <1>10, <1>11 DEF Next

-----------------------------------------------------------------------------
(* What the base, the listings and the requests speak of was held.          *)

(* Nothing that was held is forgotten.                                      *)
LEMMA HeldGrows ==
  ASSUME HeldInv, requests' \subseteq Request,
         \A s \in Side, p \in Path : file'[s][p] \in held'[s][p] /\ held[s][p] \subseteq held'[s][p],
         \A s \in Side, p \in Path : Was(s, p, listing'[s][p]),
         \A s \in Side, p \in Path : Was(s, p, base'[p]) /\ Was(s, p, saved'[p]),
         \A r \in requests' : RequestHeld(r)
  PROVE  HeldInv'
<1>1. ASSUME NEW s \in Side, NEW p \in Path, NEW c, Was(s, p, c)
      PROVE  Was(s, p, c)'
  BY <1>1 DEF Was
<1>2. ASSUME NEW r \in requests' PROVE RequestHeld(r)'
  <2>1. r.side \in Side /\ Other(r.side) \in Side /\ r.path \in Path /\ RequestHeld(r)
    BY Sides DEF Request
  <2> QED BY <1>1, <2>1 DEF RequestHeld
<1> QED BY <1>1, <1>2 DEF HeldInv

(* The requests that are left speak of what was really held. *)
LEMMA SomeRequestsHeld ==
  ASSUME FilesTypeOK, \A r \in requests : RequestHeld(r)
  PROVE  /\ \A r \in Abandon(requests) : RequestHeld(r)
         /\ \A r \in WithoutLocal(requests) : RequestHeld(r)
<1>1. ASSUME NEW q \in requests PROVE RequestHeld([q EXCEPT !.owner = "abandoned"])
  BY <1>1 DEF RequestHeld, FilesTypeOK, Request
<1> QED BY <1>1 DEF Abandon, WithoutLocal

(* The steps that store nothing, and believe nothing new.                   *)
LEMMA HeldStays ==
  ASSUME TypeOK, TypeOK', HeldInv, UNCHANGED <<file, held>>,
         listing' \in {listing, [s \in Side |-> Nothing]},
         base' \in {base, saved, Nothing}, saved' \in {saved, base},
         \A r \in requests' : RequestHeld(r)
  PROVE  HeldInv'
<1>1. \A s \in Side, p \in Path : Was(s, p, listing'[s][p])
  BY DEF HeldInv, Was, Nothing
<1>2. \A s \in Side, p \in Path : Was(s, p, base'[p]) /\ Was(s, p, saved'[p])
  BY DEF HeldInv, Was, Nothing
<1>3. requests' \subseteq Request
  BY DEF TypeOK, FilesTypeOK
<1> QED BY <1>1, <1>2, <1>3, HeldGrows DEF HeldInv

(* What a service stores is held from then on. *)
LEMMA StoreHolds ==
  ASSUME FilesTypeOK, HeldInv, NEW t \in Side, NEW q \in Path, NEW c \in Content, Store(t, q, c)
  PROVE  /\ \A s \in Side, p \in Path :
              file'[s][p] \in held'[s][p] /\ held[s][p] \subseteq held'[s][p]
         /\ c \in held'[t][q]
<1>1. ASSUME NEW s \in Side, NEW p \in Path
      PROVE  file'[s][p] \in held'[s][p] /\ held[s][p] \subseteq held'[s][p]
  <2>1. CASE s = t /\ p = q
    BY <2>1 DEF Store, FilesTypeOK
  <2>2. CASE ~(s = t /\ p = q)
    BY <2>2 DEF Store, FilesTypeOK, HeldInv
  <2> QED BY <2>1, <2>2
<1>2. c \in held'[t][q]
  BY DEF Store, FilesTypeOK
<1> QED BY <1>1, <1>2

(* The file services act on what was really held. *)
LEMMA FilesStepHeld ==
  ASSUME TypeOK, TypeOK', HeldInv, FilesNext, UNCHANGED syncVars
  PROVE  HeldInv'
<1>1. FilesTypeOK /\ requests' \subseteq Request /\ UNCHANGED <<base, saved, listing>>
  BY DEF TypeOK, FilesTypeOK, syncVars, passVars
<1>2. \A r \in requests : RequestHeld(r) /\ r \in Request
  BY <1>1 DEF HeldInv, FilesTypeOK
<1>3. /\ \A s \in Side, p \in Path : Was(s, p, listing'[s][p])
      /\ \A s \in Side, p \in Path : Was(s, p, base'[p]) /\ Was(s, p, saved'[p])
  BY <1>1 DEF HeldInv
<1>4. ASSUME NEW t \in Side, NEW q \in Edited, NEW c \in Content, Edit(t, q, c)
      PROVE  HeldInv'
  <2>1. q \in Path /\ Store(t, q, c) /\ requests' = requests
    BY <1>4, EditsAssumption DEF Edit
  <2> QED BY <1>1, <1>2, <1>3, <2>1, StoreHolds, HeldGrows
<1>5. ASSUME NEW r \in requests, Cancel(r) PROVE HeldInv'
  BY <1>1, <1>2, <1>3, <1>5, HeldGrows DEF Cancel, HeldInv
<1>6. ASSUME NEW r \in requests, Check(r) PROVE HeldInv'
  <2>1. ASSUME NEW q \in requests' PROVE RequestHeld(q)
    <3>1. CASE q \in requests
      BY <1>2, <3>1
    <3>2. CASE q = [r EXCEPT !.stage = "checked"] /\ Matches(r)
      BY <1>2, <3>2 DEF RequestHeld, Matches, Request
    <3>3. CASE q = [r EXCEPT !.stage = "refused"]
      BY <1>2, <3>3 DEF RequestHeld, Request
    <3> QED BY <1>6, <3>1, <3>2, <3>3 DEF Check, Moved, Answered
  <2> QED BY <1>1, <1>3, <1>6, <2>1, HeldGrows DEF Check, HeldInv
<1>7. ASSUME NEW r \in requests, Publish(r) PROVE HeldInv'
  <2>1. r.side \in Side /\ r.path \in Path /\ r.data \in Content
    BY <1>2 DEF Request
  <2>2. CASE Store(r.side, r.path, r.data) /\ requests' = Answered(r, "done")
    <3>1. /\ \A s \in Side, p \in Path :
                file'[s][p] \in held'[s][p] /\ held[s][p] \subseteq held'[s][p]
          /\ r.data \in held'[r.side][r.path]
      BY <1>1, <2>1, <2>2, StoreHolds
    <3>2. ASSUME NEW q \in requests' PROVE RequestHeld(q)'
      <4>1. \A s \in Side, p \in Path, c \in Content : Was(s, p, c) => Was(s, p, c)'
        BY <3>1 DEF Was
      <4>2. q \in Request /\ Other(q.side) \in Side /\ q.side \in Side /\ q.path \in Path
            /\ q.data \in Content /\ q.base \in Content
        BY <1>1, Sides DEF Request
      <4>3. CASE q \in requests
        BY <1>2, <4>1, <4>2, <4>3 DEF RequestHeld
      <4>4. CASE q = [r EXCEPT !.stage = "done"]
        <5>1. q.side = r.side /\ q.path = r.path /\ q.data = r.data /\ q.base = r.base /\ q.stage = "done"
          BY <1>2, <4>4 DEF Request
        <5>2. Was(Other(q.side), q.path, q.base) /\ Was(Other(q.side), q.path, q.data)
          BY <1>2, <5>1 DEF RequestHeld
        <5>3. Was(q.side, q.path, q.data)'
          BY <3>1, <5>1 DEF Was
        <5> QED BY <4>1, <4>2, <5>1, <5>2, <5>3 DEF RequestHeld
      <4> QED BY <2>2, <4>3, <4>4 DEF Answered, Moved
    <3>3. \A s \in Side, p \in Path :
             Was(s, p, listing[s][p])' /\ Was(s, p, base[p])' /\ Was(s, p, saved[p])'
      BY <1>3, <3>1 DEF Was
    <3> QED BY <3>1, <3>2, <3>3 DEF HeldInv
  <2>3. CASE UNCHANGED <<file, held, since>> /\ requests' = Answered(r, "refused")
    <3>1. ASSUME NEW q \in requests' PROVE RequestHeld(q)
      <4>1. CASE q \in requests
        BY <1>2, <4>1
      <4>2. CASE q = [r EXCEPT !.stage = "refused"]
        BY <1>2, <4>2 DEF RequestHeld, Request
      <4> QED BY <2>3, <4>1, <4>2 DEF Moved, Answered
    <3> QED BY <1>1, <1>3, <2>3, <3>1, HeldGrows DEF HeldInv
  <2> QED BY <1>7, <2>2, <2>3 DEF Publish
<1> QED BY <1>4, <1>5, <1>6, <1>7 DEF FilesNext, Serve

(* Steps that neither list nor transfer leave what was held alone. *)
LEMMA HeldKept ==
  ASSUME SyncInv, TypeOK', [Next]_vars,
         \/ PollFlush \/ BeginCycle \/ RefuseCycle \/ Conclude \/ HelperGone \/ Aborted \/ FinishStop
         \/ Start \/ Stop \/ Flush \/ HelperExits \/ Crash \/ HelperDies \/ PathFails \/ RequestFails
         \/ UNCHANGED vars
  PROVE  HeldInv'
<1>1. /\ TypeOK /\ HeldInv /\ FilesTypeOK
      /\ \A r \in requests \union Abandon(requests) \union WithoutLocal(requests) : RequestHeld(r)
  BY SomeRequestsHeld DEF SyncInv, TypeOK, HeldInv
<1>2. UNCHANGED <<file, held>>
  BY DEF PollFlush, BeginCycle, RefuseCycle, Conclude, HelperGone, Aborted, FinishStop, Start, Stop,
         Flush, HelperExits, Crash, HelperDies, PathFails, RequestFails, FailCycle, vars, filesVars
<1>3. listing' \in {listing, [s \in Side |-> Nothing]}
  BY DEF PollFlush, BeginCycle, RefuseCycle, Conclude, HelperGone, Aborted, FinishStop, Start, Stop,
         Flush, HelperExits, Crash, HelperDies, PathFails, RequestFails, FailCycle, Leave, ForgetPass,
         vars, syncVars, passVars
<1>4. base' \in {base, saved, Nothing} /\ saved' \in {saved, base}
  BY DEF PollFlush, BeginCycle, RefuseCycle, Conclude, HelperGone, Aborted, FinishStop, Start, Stop,
         Flush, HelperExits, Crash, HelperDies, PathFails, RequestFails, FailCycle, vars, syncVars
<1>5. requests' \subseteq requests \union Abandon(requests) \union WithoutLocal(requests)
  BY DEF PollFlush, BeginCycle, RefuseCycle, Conclude, HelperGone, Aborted, FinishStop, Start, Stop,
         Flush, HelperExits, Crash, HelperDies, PathFails, RequestFails, FailCycle, vars, filesVars
<1> QED BY <1>1, <1>2, <1>3, <1>4, <1>5, HeldStays

(* What a visit asks for, it has from a listing or the base. *)
LEMMA VisitHeld ==
  ASSUME TypeOK, TypeOK', HeldInv, NEW p \in Path, Visit(p)
  PROVE  HeldInv'
<1>1. /\ UNCHANGED <<file, held, listing, saved>> /\ requests' \subseteq Request
      /\ \A s \in Side, q \in Path : file'[s][q] \in held'[s][q] /\ held[s][q] \subseteq held'[s][q]
      /\ \A s \in Side, q \in Path : Was(s, q, listing'[s][q])
  BY DEF Visit, Settle, filesVars, HeldInv, TypeOK, FilesTypeOK
<1>2. \A s \in Side, q \in Path : Was(s, q, saved'[q])
  BY <1>1 DEF HeldInv
<1>3. CASE Decision(p) = "agree" /\ base' = [base EXCEPT ![p] = listing["local"][p]] /\ UNCHANGED requests
  <2>1. listing["local"][p] = listing["remote"][p]
    BY <1>3 DEF Decision
  <2>2. \A s \in Side, q \in Path : Was(s, q, base'[q])
    BY <1>3, <2>1 DEF HeldInv, TypeOK, Side, Was
  <2>3. \A r \in requests' : RequestHeld(r)
    BY <1>3 DEF HeldInv
  <2> QED BY <1>1, <1>2, <2>2, <2>3, HeldGrows
<1>4. CASE base' = base /\ UNCHANGED requests
  BY <1>1, <1>4, HeldGrows DEF HeldInv
<1>5. CASE Decision(p) \in Side /\ base' = base /\ requests' = requests \union {Transfer(p)}
  <2>1. listing[Target(p)][p] = base[p] /\ Target(p) \in Side /\ Other(Target(p)) = Decision(p)
    BY <1>5, Sides DEF Decision, Target, Side, Other
  <2>2. RequestHeld(Transfer(p))
    BY <1>5, <2>1 DEF RequestHeld, Transfer, HeldInv, New
  <2>3. \A r \in requests' : RequestHeld(r)
    BY <1>5, <2>2 DEF HeldInv
  <2> QED BY <1>1, <1>2, <1>5, <2>3, HeldGrows DEF HeldInv
<1> QED BY <1>3, <1>4, <1>5 DEF Visit, Settle, filesVars

(* Every step keeps listings, requests and base to what was held. *)
LEMMA HeldStep ==
  ASSUME SyncInv, TypeOK', [Next]_vars
  PROVE  HeldInv'
<1>1. TypeOK /\ HeldInv
  BY DEF SyncInv
<1>2. CASE ScanRemote \/ ScanLocal
  <2>1. /\ UNCHANGED <<file, held, base, saved, requests>>
        /\ listing' \in {[listing EXCEPT ![s] = file[s]] : s \in Side}
    BY <1>2 DEF ScanRemote, ScanLocal, filesVars, Side
  <2>2. \A s \in Side, p \in Path : Was(s, p, listing'[s][p])
    BY <1>1, <2>1 DEF HeldInv, Was, TypeOK
  <2>3. requests' \subseteq Request
    BY DEF TypeOK, FilesTypeOK
  <2> QED BY <1>1, <2>1, <2>2, <2>3, HeldGrows DEF HeldInv
<1>3. CASE \E p \in Path : Visit(p)
  BY <1>1, <1>3, VisitHeld
<1>4. CASE Answer
  <2>1. PICK r \in Waiting :
           /\ IF r.stage = "done" THEN base' = [base EXCEPT ![r.path] = r.data] /\ UNCHANGED result
                                  ELSE Note("changed") /\ UNCHANGED base
           /\ requests' = requests \ {r}
    BY <1>4 DEF Answer
  <2>2. UNCHANGED <<file, held, listing, saved>>
    BY <1>4 DEF Answer
  <2>3. r \in requests /\ r.side \in Side /\ r.path \in Path /\ RequestHeld(r)
    BY <1>1 DEF Waiting, TypeOK, FilesTypeOK, Request, HeldInv
  <2>4. \A s \in Side, p \in Path : Was(s, p, base'[p])
    <3>1. CASE r.stage = "done"
      <4>1. \A s \in Side : Was(s, r.path, r.data)
        BY <2>3, <3>1, Sides DEF RequestHeld
      <4> QED BY <1>1, <2>1, <2>3, <3>1, <4>1 DEF TypeOK, HeldInv
    <3>2. CASE r.stage # "done"
      BY <1>1, <2>1, <3>2 DEF HeldInv
    <3> QED BY <3>1, <3>2
  <2>5. requests' \subseteq Request
    BY DEF TypeOK, FilesTypeOK
  <2> QED BY <1>1, <2>1, <2>2, <2>4, <2>5, HeldGrows DEF HeldInv
<1>5. CASE FilesNext /\ UNCHANGED syncVars
  BY <1>1, <1>5, FilesStepHeld
<1> QED BY <1>2, <1>3, <1>4, <1>5, HeldKept DEF Next, Cycle, Pass

-----------------------------------------------------------------------------
(* The cycle under way.                                                     *)

(* Outside of a cycle no request is waited for.                             *)
LEMMA CycleAway ==
  ASSUME TypeOK, at' \in {"down", "idle", "scanRemote"}, Waiting' = {},
         \A s \in Side, p \in Path : file'[s][p] \in since'[s][p],
         Running' => status'.state = "syncing",
         status'.state = "synced" => \A s \in Side, p \in Path : base'[p] \in since'[s][p]
  PROVE  CycleInv'
BY DEF CycleInv, WaitingInv

(* The steps that leave the pass alone: what was seen since the cycle began *)
(* has still been seen.                                                     *)
LEMMA CycleStays ==
  ASSUME TypeOK, CycleInv, WaitingInv',
         UNCHANGED <<base, listing, todo, result, at, status>>,
         \A s \in Side, p \in Path : file'[s][p] \in since'[s][p] /\ since[s][p] \subseteq since'[s][p]
  PROVE  CycleInv'
<1>1. \A s \in Side, p \in Path, c \in Content : c \in since[s][p] => c \in since'[s][p]
  OBVIOUS
<1>2. Running' = Running
  BY DEF Running
<1>3. "local" \in Side /\ "remote" \in Side
  BY DEF Side
<1> QED BY <1>1, <1>2, <1>3 DEF CycleInv, TypeOK

(* What a cycle still has to visit stays seen since it began. *)
LEMMA WaitingStays ==
  ASSUME TypeOK, WaitingInv, at' = at, todo' = todo, requests' \subseteq requests,
         \A s \in Side, p \in Path : since[s][p] \subseteq since'[s][p]
  PROVE  WaitingInv'
<1>1. \A r \in Waiting' : r \in Waiting /\ r.side \in Side /\ Other(r.side) \in Side /\ r.path \in Path
  BY Sides DEF Waiting, TypeOK, FilesTypeOK, Request
<1> QED BY <1>1 DEF WaitingInv

(* The running service moves a waiting request; it is done once stored.     *)
LEMMA WaitingMoves ==
  ASSUME TypeOK, WaitingInv, at' = at, todo' = todo, NEW r \in requests,
         NEW stage \in {"checked", "refused", "done"},
         requests' = Moved(r, stage) \/ requests' = Answered(r, stage),
         \A s \in Side, p \in Path : since[s][p] \subseteq since'[s][p],
         stage = "done" => r.data \in since'[r.side][r.path]
  PROVE  WaitingInv'
<1>1. CASE requests' = requests \ {r}
  BY <1>1, WaitingStays
<1>2. CASE requests' = Moved(r, stage)
  <2> DEFINE q == [r EXCEPT !.stage = stage]
  <2>1. /\ r \in Request /\ q.owner = r.owner /\ q.side = r.side /\ q.path = r.path /\ q.data = r.data
        /\ q.stage = stage
    BY DEF TypeOK, FilesTypeOK, Request
  <2>2. \A x \in Waiting' : (x = q /\ r \in Waiting) \/ (x \in Waiting /\ x # r)
    BY <1>2, <2>1 DEF Waiting, Moved
  <2>3. \A x \in Waiting' : x \in Waiting => x.side \in Side /\ Other(x.side) \in Side /\ x.path \in Path
    BY Sides DEF Waiting, TypeOK, FilesTypeOK, Request
  <2>4. r.side \in Side /\ Other(r.side) \in Side /\ r.path \in Path
    BY <2>1, Sides DEF Request
  <2>5. ASSUME NEW x \in Waiting'
        PROVE  /\ at' = "await" /\ x.path \in todo'
               /\ x.data \in since'[Other(x.side)][x.path]
               /\ x.stage = "done" => x.data \in since'[x.side][x.path]
    <3>1. CASE x = q /\ r \in Waiting
      BY <2>1, <2>4, <3>1 DEF WaitingInv
    <3>2. CASE x \in Waiting
      BY <2>3, <3>2 DEF WaitingInv
    <3> QED BY <2>2, <3>1, <3>2
  <2>6. \A x, y \in Waiting' : x = y
    <3> HIDE DEF q
    <3> QED BY <2>2 DEF WaitingInv
  <2> QED BY <2>5, <2>6 DEF WaitingInv
<1> QED BY <1>1, <1>2 DEF Answered

(* What a service stores is seen by the cycle under way. *)
LEMMA StoreSeen ==
  ASSUME TypeOK, CycleInv, NEW t \in Side, NEW q \in Path, NEW c \in Content, Store(t, q, c)
  PROVE  /\ \A s \in Side, p \in Path :
              file'[s][p] \in since'[s][p] /\ since[s][p] \subseteq since'[s][p]
         /\ c \in since'[t][q]
<1> USE DEF TypeOK, FilesTypeOK
<1>1. ASSUME NEW s \in Side, NEW p \in Path
      PROVE  file'[s][p] \in since'[s][p] /\ since[s][p] \subseteq since'[s][p]
  <2>1. CASE s = t /\ p = q
    BY <2>1 DEF Store
  <2>2. CASE ~(s = t /\ p = q)
    BY <2>2 DEF Store, CycleInv
  <2> QED BY <2>1, <2>2
<1>2. c \in since'[t][q]
  BY DEF Store
<1> QED BY <1>1, <1>2

(* The file services keep what the cycle under way relies on. *)
LEMMA FilesStepCycle ==
  ASSUME TypeOK, CycleInv, FilesNext, UNCHANGED syncVars
  PROVE  CycleInv'
<1>1. UNCHANGED <<base, listing, todo, result, at, status>> /\ WaitingInv
  BY DEF syncVars, passVars, CycleInv
<1>2. ASSUME NEW t \in Side, NEW q \in Edited, NEW c \in Content, Edit(t, q, c) PROVE CycleInv'
  <2>1. q \in Path /\ Store(t, q, c) /\ requests' = requests
    BY <1>2, EditsAssumption DEF Edit
  <2> QED BY <1>1, <2>1, StoreSeen, WaitingStays, CycleStays
<1>3. ASSUME NEW r \in requests, Cancel(r) PROVE CycleInv'
  <2>1. UNCHANGED <<file, since>> /\ requests' \subseteq requests
    BY <1>3 DEF Cancel
  <2> QED BY <1>1, <2>1, WaitingStays, CycleStays DEF CycleInv
<1>4. ASSUME NEW r \in requests, Check(r) PROVE CycleInv'
  <2>1. UNCHANGED <<file, since>> /\ (requests' = Moved(r, "checked") \/ requests' = Answered(r, "refused"))
    BY <1>4 DEF Check
  <2>2. WaitingInv'
    BY <1>1, <2>1, WaitingMoves
  <2> QED BY <1>1, <2>1, <2>2, CycleStays DEF CycleInv
<1>5. ASSUME NEW r \in requests, Publish(r) PROVE CycleInv'
  <2>1. CASE Store(r.side, r.path, r.data) /\ requests' = Answered(r, "done")
    <3>1. r.side \in Side /\ r.path \in Path /\ r.data \in Content
      BY DEF TypeOK, FilesTypeOK, Request
    <3>2. /\ \A s \in Side, p \in Path :
                file'[s][p] \in since'[s][p] /\ since[s][p] \subseteq since'[s][p]
          /\ r.data \in since'[r.side][r.path]
      BY <2>1, <3>1, StoreSeen
    <3>3. WaitingInv'
      BY <1>1, <2>1, <3>2, WaitingMoves
    <3> QED BY <1>1, <3>2, <3>3, CycleStays
  <2>2. CASE UNCHANGED <<file, held, since>> /\ requests' = Answered(r, "refused")
    <3>1. WaitingInv'
      BY <1>1, <2>2, WaitingMoves
    <3> QED BY <1>1, <2>2, <3>1, CycleStays DEF CycleInv
  <2> QED BY <1>5, <2>1, <2>2 DEF Publish
<1> QED BY <1>2, <1>3, <1>4, <1>5 DEF FilesNext, Serve

(* A pass that throws, a crash and the end of stop() leave no cycle.        *)
LEMMA AbandonedCycle ==
  ASSUME TypeOK, CycleInv, UNCHANGED <<file, since>>, at' \in {"idle", "down"}, status'.state # "synced",
         requests' = Abandon(requests) \/ (requests' \subseteq requests /\ Waiting = {})
  PROVE  CycleInv'
<1>1. Waiting' = {}
  BY DEF Waiting, Abandon, TypeOK, FilesTypeOK, Request
<1> QED BY <1>1, CycleAway DEF CycleInv, Running

(* A visit settles a path on a content both sides had in the cycle. *)
LEMMA VisitCycle ==
  ASSUME TypeOK, CycleInv, NEW p \in Path, Visit(p)
  PROVE  CycleInv'
<1>1. /\ UNCHANGED <<file, since, listing, status>> /\ at = "visit" /\ p \in todo
      /\ \A s \in Side : listing[s][p] \in since[s][p]
      /\ Waiting = {} /\ Running /\ status.state = "syncing" /\ at' \in {"visit", "await"}
  BY DEF Visit, IsNext, Settle, filesVars, CycleInv, WaitingInv, Side, Running
<1>2. /\ \A q \in Path : listing'["remote"][q] \in since'["remote"][q]
      /\ \A q \in Path : listing'["local"][q] \in since'["local"][q]
      /\ \A s \in Side, q \in Path : file'[s][q] \in since'[s][q]
  BY <1>1 DEF CycleInv
<1>3. \A s \in Side, q \in Path \ todo : result = Clean => base[q] \in since[s][q]
  BY <1>1 DEF CycleInv
<1>4. ASSUME WaitingInv', result' = Clean => \A s \in Side, q \in Path \ todo' : base'[q] \in since'[s][q]
      PROVE  CycleInv'
  BY <1>1, <1>2, <1>4 DEF CycleInv
<1>5. ASSUME requests' = requests PROVE WaitingInv'
  BY <1>1, <1>5 DEF WaitingInv, Waiting
<1>6. CASE /\ Decision(p) = "agree" /\ base' = [base EXCEPT ![p] = listing["local"][p]]
           /\ Settle(p) /\ UNCHANGED result
  <2>1. listing["local"][p] = listing["remote"][p]
    BY <1>6 DEF Decision
  <2>2. \A s \in Side, q \in Path \ todo' : result' = Clean => base'[q] \in since'[s][q]
    BY <1>1, <1>3, <1>6, <2>1 DEF Settle, TypeOK, Side
  <2> QED BY <1>4, <1>5, <1>6, <2>2 DEF Settle, filesVars
<1>7. CASE Settle(p) /\ result' # Clean
  BY <1>4, <1>5, <1>7 DEF Settle, filesVars
<1>8. CASE /\ Decision(p) \in Side /\ requests' = requests \union {Transfer(p)} /\ at' = "await"
           /\ UNCHANGED <<base, result, todo>>
  <2>1. Target(p) \in Side /\ Other(Target(p)) = Decision(p)
    BY <1>8, Sides DEF Target
  <2>2. Waiting' = {Transfer(p)}
    BY <1>1, <1>8 DEF Waiting, Transfer
  <2>3. WaitingInv'
    BY <1>1, <1>8, <2>1, <2>2 DEF WaitingInv, Transfer, New
  <2> QED BY <1>1, <1>3, <1>4, <1>8, <2>3
<1>9. Note("failure") \/ Note("changed") => result' # Clean
  BY DEF TypeOK, Note, Clean
<1>10. result' = [result EXCEPT !.conflicts = @ \union {p}] => result' # Clean
  <2> SUFFICES ASSUME result' = [result EXCEPT !.conflicts = @ \union {p}] PROVE result' # Clean
    OBVIOUS
  <2>1. p \in result'.conflicts
    BY DEF TypeOK
  <2>2. p \notin Clean.conflicts
    BY DEF Clean
  <2> QED BY <2>1, <2>2
<1> QED BY <1>6, <1>7, <1>8, <1>9, <1>10 DEF Visit

(* Every step keeps what the cycle under way relies on. *)
LEMMA CycleStep ==
  ASSUME SyncInv, [Next]_vars
  PROVE  CycleInv'
<1>1. /\ TypeOK /\ CycleInv /\ WaitingInv
      /\ \A s \in Side, p \in Path : file[s][p] \in since[s][p]
  BY DEF SyncInv, CycleInv
<1>2. CASE PollFlush \/ Stop \/ Flush \/ HelperExits \/ HelperDies \/ UNCHANGED vars
  <2>1. UNCHANGED <<file, since, base, listing, todo, result, at, status>> /\ requests' \subseteq requests
    BY <1>2 DEF PollFlush, Stop, Flush, HelperExits, HelperDies, WithoutLocal, vars, filesVars, syncVars, passVars
  <2> QED BY <1>1, <2>1, WaitingStays, CycleStays
<1>3. CASE FinishStop \/ Crash \/ HelperGone \/ Aborted \/ RequestFails
  <2>1. UNCHANGED <<file, since>> /\ at' \in {"idle", "down"}
    BY <1>3 DEF FinishStop, Crash, HelperGone, Aborted, RequestFails, FailCycle, Leave
  <2>2. status'.state # "synced"
    BY <1>1, <1>3 DEF FinishStop, Crash, HelperGone, Aborted, RequestFails, FailCycle, CycleInv, Running
  <2>3. requests' = Abandon(requests) \/ (requests' \subseteq requests /\ Waiting = {})
    BY <1>1, <1>3 DEF FinishStop, Crash, HelperGone, Aborted, RequestFails, FailCycle, WithoutLocal, WaitingInv
  <2> QED BY <1>1, <2>1, <2>2, <2>3, AbandonedCycle
<1>4. CASE Start \/ RefuseCycle
  <2>1. UNCHANGED <<file, since, requests>> /\ at' = "idle" /\ Waiting = {}
    BY <1>1, <1>4 DEF Start, RefuseCycle, Leave, filesVars, WaitingInv
  <2>2. Waiting' = {}
    BY <2>1 DEF Waiting
  <2>3. status'.state = "synced" => UNCHANGED <<status, base>>
    BY <1>4 DEF Start, RefuseCycle
  <2> QED BY <1>1, <2>1, <2>2, <2>3, CycleAway DEF CycleInv, Running
<1>5. CASE BeginCycle
  <2>1. /\ at' = "scanRemote" /\ UNCHANGED <<file, requests>> /\ Waiting = {}
        /\ since' = [s \in Side |-> [p \in Path |-> {file[s][p]}]]
        /\ status'.state = "syncing"
    BY <1>1, <1>5 DEF BeginCycle, WaitingInv, TypeOK
  <2>2. Waiting' = {}
    BY <2>1 DEF Waiting
  <2> QED BY <1>1, <2>1, <2>2, CycleAway
<1>6. CASE Conclude
  <2>1. /\ UNCHANGED <<file, since, requests, base>> /\ Waiting = {} /\ at = "visit" /\ todo = {}
        /\ status.state = "syncing"
    BY <1>1, <1>6 DEF Conclude, filesVars, WaitingInv, CycleInv, Running
  <2>2. Waiting' = {}
    BY <2>1 DEF Waiting
  <2>3. CASE Again
    BY <1>1, <1>6, <2>1, <2>2, <2>3, CycleAway DEF Conclude
  <2>4. CASE ~Again
    <3>1. status' = [state |-> Verdict, conflicts |-> result.conflicts] /\ at' = "idle"
      BY <1>6, <2>4 DEF Conclude, Leave
    <3>2. Verdict = "synced" => result = Clean
      BY <1>1 DEF Verdict, Clean, TypeOK
    <3>3. status'.state = "synced" => \A s \in Side, p \in Path : base'[p] \in since'[s][p]
      BY <1>1, <2>1, <3>1, <3>2 DEF CycleInv
    <3> QED BY <1>1, <2>1, <2>2, <3>1, <3>3, CycleAway DEF Running
  <2> QED BY <2>3, <2>4
<1>7. CASE ScanRemote
  <2>1. /\ UNCHANGED <<file, since, requests, base, todo, status>> /\ Waiting = {} /\ at' = "scanLocal"
        /\ status.state = "syncing" /\ listing'["remote"] = file["remote"]
    BY <1>1, <1>7 DEF ScanRemote, filesVars, WaitingInv, CycleInv, Running, TypeOK, Side
  <2>2. Waiting' = {}
    BY <2>1 DEF Waiting
  <2> QED BY <1>1, <2>1, <2>2 DEF CycleInv, WaitingInv, Side
<1>8. CASE ScanLocal
  <2>1. /\ UNCHANGED <<file, since, requests, base, status>> /\ Waiting = {} /\ at' = "visit"
        /\ status.state = "syncing" /\ listing'["local"] = file["local"]
        /\ listing'["remote"] = listing["remote"]
        /\ \A p \in Path : listing["remote"][p] \in since["remote"][p]
        /\ todo' = {p \in Path : {base[p], listing["remote"][p], file["local"][p]} # {Missing}}
    BY <1>1, <1>8 DEF ScanLocal, filesVars, WaitingInv, CycleInv, Running, TypeOK, Side
  <2>2. Waiting' = {}
    BY <2>1 DEF Waiting
  <2>3. \A s \in Side, p \in Path \ todo' : base[p] \in since[s][p]
    <3>1. \A p \in Path \ todo' : base[p] = file["local"][p] /\ base[p] = listing["remote"][p]
      BY <2>1
    <3> QED BY <1>1, <2>1, <3>1 DEF Side
  <2> QED BY <1>1, <2>1, <2>2, <2>3 DEF CycleInv, WaitingInv, Side
<1>9. CASE \E p \in Path : Visit(p)
  BY <1>1, <1>9, VisitCycle
<1>10. CASE Answer \/ PathFails
  <2>1. PICK r \in Waiting :
           /\ requests' = requests \ {r} /\ todo' = todo \ {r.path}
           /\ \/ result' # Clean /\ UNCHANGED base
              \/ r.stage = "done" /\ base' = [base EXCEPT ![r.path] = r.data] /\ UNCHANGED result
    <3>1. Note("changed") \/ Note("failure") => result' # Clean
      BY <1>1 DEF Note, Clean, TypeOK
    <3> QED BY <1>10, <3>1 DEF Answer, PathFails
  <2>2. /\ UNCHANGED <<file, since, listing, status>> /\ at = "await" /\ at' = "visit"
    BY <1>10 DEF Answer, PathFails
  <2>3. r.side \in Side /\ r.path \in Path /\ Waiting' = {}
    BY <1>1, <2>1 DEF Waiting, TypeOK, FilesTypeOK, Request, WaitingInv
  <2>4. r.stage = "done" => \A s \in Side : r.data \in since[s][r.path]
    BY <1>1, <2>3, Sides DEF WaitingInv
  <2>5. result' = Clean => \A s \in Side, p \in Path \ todo' : base'[p] \in since'[s][p]
    BY <1>1, <2>1, <2>2, <2>3, <2>4 DEF CycleInv, TypeOK
  <2> QED BY <1>1, <2>2, <2>3, <2>5 DEF CycleInv, WaitingInv, Running
<1>11. CASE FilesNext /\ UNCHANGED syncVars
  BY <1>1, <1>11, FilesStepCycle
<1> QED BY <1>2, <1>3, <1>4, <1>5, <1>6, <1>7, <1>8, <1>9, <1>10, <1>11 DEF Next, Cycle, Pass

(* Every step keeps the passes that wait for the running one. *)
LEMMA QueueStep ==
  ASSUME SyncInv, TypeOK', [Next]_vars
  PROVE  QueueInv'
<1>1. TypeOK /\ QueueInv /\ MaxQueue \in Nat /\ Len(queue') \in Nat
  BY SyncAssumption DEF SyncInv, TypeOK
<1>2. CASE Leave /\ queue # <<>>
  <2>1. Len(queue') = Len(queue) - 1 /\ at' = "idle"
    BY <1>1, <1>2 DEF Leave, TypeOK
  <2> QED BY <1>1, <1>2, <2>1 DEF QueueInv, Running, TypeOK
<1>3. CASE PollFlush \/ Flush
  BY <1>1, <1>3 DEF PollFlush, Flush, QueueInv, Running, TypeOK
<1>4. CASE queue' = queue /\ poll' = poll /\ (Running' => Running \/ queue # <<>>)
  BY <1>1, <1>4 DEF QueueInv
<1>5. CASE queue' = <<>> /\ ~Running'
  BY <1>1, <1>5 DEF QueueInv
<1>6. RefuseCycle \/ HelperGone \/ Aborted \/ RequestFails => Leave /\ queue # <<>>
  BY <1>1 DEF RefuseCycle, HelperGone, Aborted, RequestFails, FailCycle, QueueInv, Running
<1>7. Conclude => (Leave /\ queue # <<>>) \/ (queue' = queue /\ poll' = poll /\ queue # <<>>)
  BY <1>1 DEF Conclude, QueueInv, Running
<1>8. Start \/ Crash \/ FinishStop => queue' = <<>> /\ ~Running'
  BY DEF Start, Crash, FinishStop, Running
<1>9. \/ BeginCycle \/ ScanRemote \/ ScanLocal \/ (\E p \in Path : Visit(p)) \/ Answer
      \/ Stop \/ HelperExits \/ HelperDies \/ PathFails \/ (FilesNext /\ UNCHANGED syncVars) \/ UNCHANGED vars
      => queue' = queue /\ poll' = poll /\ (Running' => Running \/ queue # <<>>)
  BY DEF BeginCycle, ScanRemote, ScanLocal, Visit, Answer, Stop, HelperExits, HelperDies, PathFails,
         syncVars, vars, Running
<1> QED BY <1>2, <1>3, <1>4, <1>5, <1>6, <1>7, <1>8, <1>9 DEF Next, Cycle, Pass

-----------------------------------------------------------------------------

(* The inductive invariant of the synchronization.                          *)
THEOREM SyncInvariant == Spec => []SyncInv
<1>1. SyncInv /\ [Next]_vars => SyncInv'
  <2> SUFFICES ASSUME SyncInv, [Next]_vars PROVE SyncInv'
    OBVIOUS
  <2>1. TypeOK'
    BY SyncTypes DEF SyncInv
  <2> QED BY <2>1, HeldStep, CycleStep, QueueStep DEF SyncInv
<1> QED BY SyncStarts, <1>1, PTL DEF Spec

(* sync-node.ts, reconcile: the base only ever names versions both sides    *)
(* really had.                                                              *)
THEOREM SyncBaseWasAgreed == Spec => []BaseWasAgreed
<1>1. SyncInv => BaseWasAgreed
  BY DEF SyncInv, HeldInv, Was, BaseWasAgreed
<1> QED BY <1>1, SyncInvariant, PTL

(* sync-node.ts, the report of a cycle: "synced" speaks of versions both    *)
(* sides had during that cycle.                                             *)
THEOREM SyncTellsTheTruth == Spec => []SyncedIsTrue
<1>1. SyncInv => SyncedIsTrue
  BY DEF SyncInv, CycleInv, SyncedIsTrue
<1> QED BY <1>1, SyncInvariant, PTL

(* The two services: what the synchronization overwrites or removes, the    *)
(* other side had.                                                          *)
THEOREM SyncLosesNothing == Spec => NoContentLost
<1> DEFINE Kept(s, p) ==
      \/ file'[s][p] = file[s][p] \/ edits' # edits \/ file[s][p] = Missing
      \/ file[s][p] \in held[Other(s)][p] \/ EditedInWindow(s, p)
<1>1. ASSUME SyncInv, [Next]_vars, NEW s \in Side, NEW p \in Path PROVE Kept(s, p)
  <2>1. CASE UNCHANGED file
    BY <2>1
  <2>2. ASSUME NEW r \in requests, Publish(r) PROVE Kept(s, p)
    <3>1. /\ RequestHeld(r) /\ r.stage = "checked" /\ r \in Request
          /\ file \in [Side -> [Path -> Content]]
      BY <1>1, <2>2 DEF SyncInv, HeldInv, TypeOK, FilesTypeOK, Publish
    <3>2. CASE file' = file
      BY <3>2
    <3>3. CASE Publishable(r) /\ file' = [file EXCEPT ![r.side][r.path] = r.data] /\ s = r.side /\ p = r.path
      <4>1. CASE r.base = Missing
        BY <3>1, <3>3, <4>1 DEF Publishable, RequestHeld
      <4>2. CASE r.base # Missing /\ r.base = file[s][p]
        BY <3>1, <3>3, <4>2 DEF RequestHeld, Was
      <4>3. CASE r.base # Missing /\ r.base # file[s][p]
        BY <3>1, <3>3, <4>3 DEF EditedInWindow
      <4> QED BY <4>1, <4>2, <4>3
    <3>4. CASE file' = [file EXCEPT ![r.side][r.path] = r.data] /\ ~(s = r.side /\ p = r.path)
      BY <3>1, <3>4
    <3> QED BY <2>2, <3>2, <3>3, <3>4 DEF Publish, Store
  <2>3. ASSUME NEW t \in Side, NEW q \in Edited, NEW c \in Content, Edit(t, q, c) PROVE Kept(s, p)
    <3>1. edits' = edits + 1 /\ edits \in Nat
      BY <1>1, <2>3, EditsAssumption DEF Edit, SyncInv, TypeOK, FilesTypeOK
    <3> QED BY <3>1
  <2>4. ASSUME NEW r \in requests, Check(r) \/ Cancel(r) PROVE UNCHANGED file
    BY <2>4 DEF Check, Cancel
  <2>5. Cycle \/ Start \/ Stop \/ Flush \/ HelperExits \/ Crash \/ HelperDies \/ PathFails \/ RequestFails
        => UNCHANGED file
    BY DEF Cycle, PollFlush, BeginCycle, RefuseCycle, Pass, ScanRemote, ScanLocal, Visit, Settle, Answer,
           Conclude, HelperGone, Aborted, FinishStop, Start, Stop, Flush, HelperExits, Crash, HelperDies,
           PathFails, RequestFails, FailCycle, filesVars
  <2> QED BY <1>1, <2>1, <2>2, <2>3, <2>4, <2>5 DEF Next, FilesNext, Serve, vars, filesVars
<1>2. SyncInv /\ [Next]_vars
      => [\A s \in Side, p \in Path : Kept(s, p)]_vars
  BY <1>1
<1> QED BY <1>2, SyncInvariant, PTL DEF Spec, NoContentLost
=============================================================================
