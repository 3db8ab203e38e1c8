------------------------------ MODULE AppCommands ------------------------------
(***************************************************************************)
(* How an application's calls reach the platform (src/src/app.ts,          *)
(* edge-connection.ts, transport.ts, protocol-edge.ts).                    *)
(* A submission (dispatch, steer or request) is tried under one id as      *)
(* often as its caller likes.  A backend's tries wait for the App's        *)
(* configuration and travel to the Worker; those of a webhook handler run  *)
(* in the Worker that runs it, with the capability of its invocation.  The *)
(* Worker opens the Workspace when it is addressed by slug, then posts the *)
(* Message.  A Workspace reference keeps one lookup, and deletes.  The two *)
(* share nothing, so each has an Init and a Next of its own.               *)
(***************************************************************************)
EXTENDS Naturals, Sequences, FiniteSets

CONSTANTS
    Submission,  \* submissions, each with its id
    Handled,     \* those a webhook handler makes, the others a backend's
    BySlug,      \* those that address the Workspace by its slug
    MaxTries,    \* bound: tries of a submission
    MaxAllTries, \* bound: tries of them all
    Deletion,    \* calls of delete() on the reference
    MaxLookups   \* bound: lookups of the reference

ASSUME CommandAssumption ==
    /\ Handled \subseteq Submission /\ BySlug \subseteq Submission
    /\ {MaxTries, MaxAllTries, MaxLookups} \subseteq Nat /\ IsFiniteSet(Deletion)

Try == Submission \X (1..MaxTries)

VARIABLES
    configuration, \* pending of resolveEdgeConnection: "none", "reading", "read"
    capability,    \* of the handler's invocation: "default", "granted", "missing"
    handler,       \* "running", or "settled"
    tries,         \* tries of each submission
    told,          \* what the caller of a try waits for or has been told
    job,           \* where the try is on its way
    taken          \* the tries whose Message the platform has taken
submissionVars == <<configuration, capability, handler, tries, told, job, taken>>

VARIABLES
    slugged,  \* the reference names its Workspace by slug
    lookups,  \* every lookup: deletes that had settled when it was asked, and its state
    pending,  \* the lookup resolve() shares, or 0
    deletion  \* each delete(): "idle", "inspecting", "deleting", "settled", "absent"
referenceVars == <<slugged, lookups, pending, deletion>>
commandVars == <<submissionVars, referenceVars>>

CommandsTypeOK ==
    /\ configuration \in {"none", "reading", "read"}
    /\ capability \in {"default", "granted", "missing"} /\ handler \in {"running", "settled"}
    /\ tries \in [Submission -> 0..MaxTries]
    /\ told \in [Try -> {"nothing", "configuring", "aborting", "waiting",
                         "accepted", "refused", "doubtful", "unsent", "aborted"}]
    /\ job \in [Try -> {"none", "sent", "opening", "opened", "posted", "admitted", "refused",
                        "gone"}]
    /\ taken \subseteq Try
    /\ slugged \in BOOLEAN
    /\ lookups \in Seq([asked : Nat, state : {"asking", "known", "failed"}])
    /\ Len(lookups) <= MaxLookups /\ pending \in 0..Len(lookups)
    /\ deletion \in [Deletion -> {"idle", "inspecting", "deleting", "settled", "absent"}]

SubmissionsInit ==
    /\ configuration = "none" /\ handler = "running"
    /\ capability \in {"default", "granted", "missing"}
    /\ tries = [c \in Submission |-> 0]
    /\ told = [t \in Try |-> "nothing"] /\ job = [t \in Try |-> "none"]
    /\ taken = {}
ReferenceInit ==
    /\ slugged \in BOOLEAN /\ lookups = <<>> /\ pending = 0
    /\ deletion = [d \in Deletion |-> "idle"]

-----------------------------------------------------------------------------
Told(t, what) == told' = [told EXCEPT ![t] = what]
Moves(t, where) == job' = [job EXCEPT ![t] = where]
invocation == <<configuration, capability, handler>>

(* exchange(): the first try of a submission, or one more with its id after  *)
(* a failure.  A handler's is served at once by the Worker it runs in.       *)
Submit(c) ==
    LET t == <<c, tries[c] + 1>> IN
    /\ tries[c] < MaxTries /\ Cardinality({u \in Try : told[u] # "nothing"}) < MaxAllTries
    /\ tries[c] > 0 => told[<<c, tries[c]>>] \in {"refused", "doubtful", "unsent", "aborted"}
    /\ tries' = [tries EXCEPT ![c] = @ + 1]
    /\ IF c \in Handled \/ configuration = "read"
       THEN Told(t, "waiting") /\ Moves(t, "sent") /\ UNCHANGED configuration
       ELSE Told(t, "configuring") /\ configuration' = "reading" /\ UNCHANGED job
    /\ UNCHANGED <<capability, handler, taken>>

(* The one reading of the configuration settles, for all who wait for it.  A *)
(* signal that aborted meanwhile is looked at only now.                      *)
ConfigurationRead ==
    /\ configuration = "reading" /\ configuration' = "read"
    /\ told' = [t \in Try |-> IF told[t] = "configuring" THEN "waiting"
                              ELSE IF told[t] = "aborting" THEN "aborted" ELSE told[t]]
    /\ job' = [t \in Try |-> IF told[t] = "configuring" THEN "sent" ELSE job[t]]
    /\ UNCHANGED <<capability, handler, tries, taken>>
ConfigurationFails ==
    /\ configuration = "reading" /\ configuration' = "none"
    /\ told' = [t \in Try |-> IF told[t] \in {"configuring", "aborting"} THEN "unsent" ELSE told[t]]
    /\ UNCHANGED <<capability, handler, tries, job, taken>>

(* The caller's signal.  In the Worker it is the signal of the invocations   *)
(* too; a request already sent to the Worker or the platform may go on.      *)
Abort(t) ==
    /\ \/ told[t] = "configuring" /\ Told(t, "aborting") /\ UNCHANGED job
       \/ /\ told[t] = "waiting" /\ Told(t, "aborted")
          /\ IF t[1] \in Handled /\ job[t] \notin {"posted", "admitted"}
             THEN Moves(t, "gone") ELSE UNCHANGED job
    /\ UNCHANGED <<invocation, tries, taken>>

(* A fetch throws: the caller's, or in the Worker the one to the platform    *)
(* (answered command_outcome_unknown).  What was sent may go on, or stay     *)
(* where it is.                                                              *)
Breaks(t) ==
    /\ told[t] = "waiting" /\ Told(t, "doubtful")
    /\ IF t[1] \in Handled
       THEN \/ job[t] = "opening" /\ Moves(t, "gone")
            \/ job[t] \in {"posted", "admitted"} /\ UNCHANGED job
       ELSE UNCHANGED job
    /\ UNCHANGED <<invocation, tries, taken>>

-----------------------------------------------------------------------------
(* The Worker.  The capability of a handler's invocation is revoked when the *)
(* handler settles, and unusable when the platform did not give one; other   *)
(* requests each have their own, never revoked.                              *)
Revoked(t) ==
    \/ capability = "missing"
    \/ capability = "granted" /\ t[1] \in Handled /\ handler = "settled"
HandlerSettles ==
    /\ handler = "running" /\ handler' = "settled"
    /\ UNCHANGED <<configuration, capability, tries, told, job, taken>>

(* Authentication, the compatibility of the runtime, the keep-alive: refused *)
(* by the Worker itself.                                                     *)
Refuse(t) ==
    /\ job[t] = "sent" /\ Moves(t, "refused")
    /\ UNCHANGED <<invocation, tries, told, taken>>
Invoke(t, where) ==
    /\ Moves(t, IF Revoked(t) THEN "refused" ELSE where)
    /\ UNCHANGED <<invocation, tries, told, taken>>
Open(t) == job[t] = "sent" /\ t[1] \in BySlug /\ Invoke(t, "opening")
Opened(t) ==
    /\ job[t] = "opening" /\ \E where \in {"opened", "refused"} : Moves(t, where)
    /\ UNCHANGED <<invocation, tries, told, taken>>
Post(t) ==
    /\ job[t] = IF t[1] \in BySlug THEN "opened" ELSE "sent"
    /\ Invoke(t, "posted")

(* The platform takes the Message, or refuses it.                            *)
TakeMessage(t) ==
    /\ job[t] = "posted"
    /\ \/ Moves(t, "admitted") /\ taken' = taken \cup {t}
       \/ Moves(t, "refused") /\ UNCHANGED taken
    /\ UNCHANGED <<invocation, tries, told>>
(* The answer comes back.  One that cannot be read, at the Worker or at the  *)
(* caller, says nothing of the Message.                                      *)
Answered(t) ==
    /\ job[t] \in {"admitted", "refused"} /\ told[t] = "waiting" /\ Moves(t, "gone")
    /\ \/ Told(t, IF job[t] = "admitted" THEN "accepted" ELSE "refused")
       \/ Told(t, "doubtful")
    /\ UNCHANGED <<invocation, tries, taken>>

SubmissionsNext ==
    /\ \/ \E c \in Submission : Submit(c)
       \/ ConfigurationRead \/ ConfigurationFails \/ HandlerSettles
       \/ \E t \in Try :
             \/ Abort(t) \/ Breaks(t) \/ Refuse(t)
             \/ Open(t) \/ Opened(t) \/ Post(t) \/ TakeMessage(t) \/ Answered(t)
    /\ UNCHANGED referenceVars

-----------------------------------------------------------------------------
(* The Workspace reference.                                                  *)
Settled == Cardinality({d \in Deletion : deletion[d] = "settled"})

(* resolve(): who finds a lookup shares it, though it may have failed since. *)
Resolve ==
    /\ pending = 0 /\ Len(lookups) < MaxLookups
    /\ lookups' = Append(lookups, [asked |-> Settled, state |-> "asking"])
    /\ pending' = Len(lookups')
    /\ UNCHANGED <<slugged, deletion>>
LookupSettles(k) ==
    /\ lookups[k].state = "asking"
    /\ \E state \in {"known", "failed"} :
        /\ lookups' = [lookups EXCEPT ![k] = [asked |-> @.asked, state |-> state]]
        /\ pending' = IF state = "failed" THEN 0 ELSE pending
    /\ UNCHANGED <<slugged, deletion>>

(* delete(): by slug it inspects first, and nothing to delete ends it there, *)
(* as does a failure.                                                        *)
Delete(d) ==
    /\ deletion[d] = "idle"
    /\ deletion' = [deletion EXCEPT ![d] = IF slugged THEN "inspecting" ELSE "deleting"]
    /\ UNCHANGED <<slugged, lookups, pending>>
Inspected(d) ==
    /\ deletion[d] = "inspecting"
    /\ \E found \in {"deleting", "absent"} : deletion' = [deletion EXCEPT ![d] = found]
    /\ UNCHANGED <<slugged, lookups, pending>>
(* Seeded fault: a call that failed keeps the lookup.                        *)
DeletedOrFailed(d) ==
    /\ deletion[d] = "deleting" /\ deletion' = [deletion EXCEPT ![d] = "settled"]
    /\ pending' \in {0, pending}
    /\ UNCHANGED <<slugged, lookups>>
(* The call's end, good or bad, forgets the lookup.                          *)
Deleted(d) ==
    /\ deletion[d] = "deleting" /\ deletion' = [deletion EXCEPT ![d] = "settled"]
    /\ pending' = 0
    /\ UNCHANGED <<slugged, lookups>>

ReferenceNext ==
    /\ \/ Resolve
       \/ \E k \in DOMAIN lookups : LookupSettles(k)
       \/ \E d \in Deletion : Delete(d) \/ Inspected(d) \/ Deleted(d)
    /\ UNCHANGED submissionVars

CommandsInit == SubmissionsInit /\ ReferenceInit
CommandsNext == SubmissionsNext \/ ReferenceNext
CommandsSpec == CommandsInit /\ [][CommandsNext]_commandVars

-----------------------------------------------------------------------------
(* A caller that is told its Message was accepted or refused is told the     *)
(* truth, however its earlier tries ended and wherever they still travel:    *)
(* accepted, the platform has it of this try; refused, or not sent for want  *)
(* of a configuration, this try never reaches it (app.ts 47-56, 258-262;     *)
(* protocol-edge.ts 199-203).                                                *)
OutcomesAreTrue ==
    \A t \in Try :
        /\ told[t] = "accepted" => t \in taken
        /\ told[t] \in {"refused", "unsent"} => t \notin taken /\ job[t] \in {"none", "gone"}

(* Nothing is asked of the platform with the capability of an invocation     *)
(* that has settled, not even between the two requests of one submission     *)
(* (protocol-edge.ts 63-79, 270-273).                                        *)
CapabilityIsKept ==
    [][\A t \in Try : t[1] \in Handled /\ job'[t] # job[t] /\ job'[t] \in {"opening", "posted"}
            => capability # "missing" /\ (capability = "granted" => handler = "running")]_commandVars

(* A resolve() called after a delete of the same reference has settled, well *)
(* or not, never shares a lookup asked before (app.ts 112-131).              *)
LookupIsFresh == pending # 0 => lookups[pending].asked = Settled

CommandsAreTrue == [](OutcomesAreTrue /\ LookupIsFresh) /\ CapabilityIsKept
=============================================================================
