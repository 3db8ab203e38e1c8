--------------------------- MODULE WorkspaceFiles ---------------------------
(***************************************************************************)
(* The file service of a Workspace and of a synchronized local directory:  *)
(* one Go program serves both (workspacesync.Store; the helper process     *)
(* runs it on the local directory).  A path holds a version - the hash of  *)
(* its content and executable bit - or nothing.                            *)
(*                                                                         *)
(* Writers other than the synchronization (editors, agents) change a path  *)
(* at any time: preconditions are optimistic, so a request is served in    *)
(* two steps, the last check of its base version and the rename.           *)
(***************************************************************************)
EXTENDS Naturals, FiniteSets

CONSTANTS
    Path,       \* paths, numbered in the order the client visits them
    Version,    \* content hashes
    Missing,    \* "no file": the base version of a path that does not exist
    Edited,     \* bound: the paths other writers change
    MaxEdits    \* bound: changes made by other writers

ASSUME PathAssumption == Path \subseteq Nat /\ Path # {}
ASSUME VersionAssumption == Missing \notin Version
ASSUME EditsAssumption == Edited \subseteq Path /\ MaxEdits \in Nat

Side == {"local", "remote"}
Other(s) == IF s = "local" THEN "remote" ELSE "local"
Content == Version \union {Missing}

(* A mutation on the wire: replace `base` at `path` by `data` (Missing: remove). *)
(* Its client waits for it, or has given up ("abandoned") while it still runs.   *)
Request ==
    [owner : {"waiting", "abandoned"}, side : Side, path : Path,
     base : Content, data : Content, stage : {"sent", "checked", "done", "refused"}]

VARIABLES
    file,       \* file[s][p]: what side s holds at p
    held,       \* history: every content side s has held at p
    since,      \* history: the same, since the current cycle began
    requests,   \* mutations not yet answered
    edits       \* changes made by other writers so far

filesVars == <<file, held, since, requests, edits>>

FilesTypeOK ==
    /\ file \in [Side -> [Path -> Content]]
    /\ held \in [Side -> [Path -> SUBSET Content]]
    /\ since \in [Side -> [Path -> SUBSET Content]]
    /\ requests \subseteq Request
    /\ edits \in 0..MaxEdits

FilesInit ==
    /\ file \in [Side -> [Path -> Content]]
    /\ held = [s \in Side |-> [p \in Path |-> {file[s][p]}]]
    /\ since = held
    /\ requests = {}
    /\ edits = 0

(* Side s now holds c at p. *)
Store(s, p, c) ==
    /\ file' = [file EXCEPT ![s][p] = c]
    /\ held' = [held EXCEPT ![s][p] = @ \union {c}]
    /\ since' = [since EXCEPT ![s][p] = @ \union {c}]

(* Another writer changes, creates or deletes a file. *)
Edit(s, p, c) ==
    /\ edits < MaxEdits
    /\ c # file[s][p]
    /\ Store(s, p, c)
    /\ edits' = edits + 1
    /\ UNCHANGED requests

(* The per-Workspace lock: nothing else is served on s while a request that passed *)
(* its last check has not renamed.                                                 *)
Unlocked(s) == \A r \in requests : r.side = s => r.stage # "checked"

Moved(r, stage) == (requests \ {r}) \union {[r EXCEPT !.stage = stage]}

(* The reply reaches a client that still waits for it. *)
Answered(r, verdict) ==
    IF r.owner = "waiting" THEN Moved(r, verdict) ELSE requests \ {r}

(* The last check of the precondition; only an existing file can be removed. *)
Matches(r) == file[r.side][r.path] = r.base /\ (r.data = Missing => r.base # Missing)

Check(r) ==
    /\ r.stage = "sent"
    /\ Unlocked(r.side)
    /\ requests' = IF Matches(r) THEN Moved(r, "checked") ELSE Answered(r, "refused")
    /\ UNCHANGED <<file, held, since, edits>>

(* What rename, rename-without-replace and unlink still refuse. *)
Publishable(r) ==
    IF r.data = Missing THEN file[r.side][r.path] # Missing
                        ELSE r.base = Missing => file[r.side][r.path] = Missing

Publish(r) ==
    /\ r.stage = "checked"
    /\ IF Publishable(r)
       THEN Store(r.side, r.path, r.data) /\ requests' = Answered(r, "done")
       ELSE UNCHANGED <<file, held, since>> /\ requests' = Answered(r, "refused")
    /\ UNCHANGED edits

(* The cancelled context of an abandoned request is noticed before it takes effect. *)
Cancel(r) ==
    /\ r.owner = "abandoned"
    /\ requests' = requests \ {r}
    /\ UNCHANGED <<file, held, since, edits>>

Serve == \E r \in requests : Check(r) \/ Publish(r)

FilesNext ==
    \/ \E s \in Side, p \in Edited, c \in Content : Edit(s, p, c)
    \/ Serve
    \/ \E r \in requests : Cancel(r)
=============================================================================
