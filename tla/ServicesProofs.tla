---------------------------- MODULE ServicesProofs ----------------------------
(* The parts around a Session whose state is their own, each proved for      *)
(* every value of its constants: the connections of the database client, the *)
(* tries of an application's commands, the shutdown of the runtime server,   *)
(* the login slots, the bridge of a login terminal, the log of the runtime,  *)
(* and the stream of events a client reads.                                  *)
EXTENDS MCServices, HarnessProofs, WellFoundedInduction

-----------------------------------------------------------------------------
(* The database client: no connection is closed under an operation.         *)

(* A caller that has something to use has been given a connection, which is *)
(* no longer new; one that waits may have none to fall back on.             *)
CallersInv ==
  /\ \A k \in Caller :
       /\ caller[k].at \in {"holding", "using", "left"} => caller[k].on \in Connection
       /\ caller[k].on \in Connection => conn[caller[k].on] # "new"

(* The shared connection is open, and no renewal has replaced it yet.  Only *)
(* replaced connections are closed for good.                                *)
SharingInv ==
  /\ shared # Nobody => shared \in Connection \ retired /\ conn[shared] = "open" /\ ~detached
  /\ \A c \in Connection : conn[c] = "closed" => c \in retired
  /\ \A c \in retired : conn[c] # "new"

DatabaseInv ==
  /\ DatabaseTypeOK
  /\ CallersInv
  /\ SharingInv
  /\ UsersAreCounted
  /\ InUseIsOpen
  /\ NoConnectionLeaks

-----------------------------------------------------------------------------

(* The callers that use a connection can be counted. *)
LEMMA UsingIsFinite == \A c : IsFiniteSet(Using(c)) /\ Cardinality(Using(c)) \in Nat
<1> TAKE c
<1>1. Using(c) \subseteq Caller
  BY DEF Using
<1> QED BY <1>1, DatabaseAssumption, FS_Subset, FS_CardinalityType

(* The counter tells whether anybody uses the connection, and whether       *)
(* somebody else does.                                                      *)
LEMMA CountTellsUse ==
  ASSUME UsersAreCounted, NEW c \in Connection
  PROVE  /\ users[c] \in Nat
         /\ users[c] = 0 <=> Using(c) = {}
         /\ \A k \in Using(c) : users[c] = 1 <=> Using(c) \ {k} = {}
<1>1. users[c] = Cardinality(Using(c)) /\ users[c] \in Nat
  BY UsingIsFinite DEF UsersAreCounted
<1>2. users[c] = 0 <=> Using(c) = {}
  BY <1>1, UsingIsFinite, FS_EmptySet
<1>3. ASSUME NEW k \in Using(c)
      PROVE  users[c] = 1 <=> Using(c) \ {k} = {}
  <2>1. /\ IsFiniteSet(Using(c) \ {k})
        /\ Cardinality(Using(c) \ {k}) = Cardinality(Using(c)) - 1
    BY <1>3, UsingIsFinite, FS_RemoveElement
  <2>2. Cardinality(Using(c) \ {k}) = 0 <=> Using(c) \ {k} = {}
    BY <2>1, FS_EmptySet
  <2> QED BY <1>1, <2>1, <2>2
<1> QED BY <1>1, <1>2, <1>3

(* A caller that begins or ends an operation is the only change of a count. *)
LEMMA BeginsUse ==
  ASSUME DatabaseTypeOK, UsersAreCounted, NEW k \in Caller, NEW c \in Connection,
         caller[k].at # "using",
         users' = [users EXCEPT ![c] = @ + 1], Go(k, "using", c)
  PROVE  /\ UsersAreCounted'
         /\ \A d \in Connection : Using(d)' = IF d = c THEN Using(d) \cup {k} ELSE Using(d)
<1>1. \A d \in Connection : Using(d)' = IF d = c THEN Using(d) \cup {k} ELSE Using(d)
  BY DEF Using, Go, DatabaseTypeOK
<1>2. k \notin Using(c)
  BY DEF Using
<1>3. Cardinality(Using(c) \cup {k}) = Cardinality(Using(c)) + 1
  BY <1>2, UsingIsFinite, FS_AddElement
<1> QED BY <1>1, <1>3 DEF UsersAreCounted, DatabaseTypeOK

(* A caller that stops using its connection takes one off the counter. *)
LEMMA EndsUse ==
  ASSUME DatabaseTypeOK, UsersAreCounted, NEW k \in Caller, NEW c \in Connection,
         caller[k].at = "using", caller[k].on = c,
         users' = [users EXCEPT ![c] = @ - 1], Go(k, "left", c)
  PROVE  /\ UsersAreCounted'
         /\ \A d \in Connection : Using(d)' = IF d = c THEN Using(d) \ {k} ELSE Using(d)
<1>1. \A d \in Connection : Using(d)' = IF d = c THEN Using(d) \ {k} ELSE Using(d)
  BY DEF Using, Go, DatabaseTypeOK
<1>2. k \in Using(c)
  BY DEF Using
<1>3. Cardinality(Using(c) \ {k}) = Cardinality(Using(c)) - 1
  BY <1>2, UsingIsFinite, FS_RemoveElement
<1> QED BY <1>1, <1>3 DEF UsersAreCounted, DatabaseTypeOK

(* A step that moves no operation keeps the counts.                         *)
LEMMA KeepsUse ==
  ASSUME UsersAreCounted, UNCHANGED users, \A d \in Connection : Using(d)' = Using(d)
  PROVE  UsersAreCounted'
BY DEF UsersAreCounted

-----------------------------------------------------------------------------

(* A client without connections satisfies the invariant. *)
LEMMA DatabaseStarts == DatabaseInit => DatabaseInv
<1> SUFFICES ASSUME DatabaseInit PROVE DatabaseInv
  OBVIOUS
<1>1. \A c \in Connection : Using(c) = {}
  BY DEF DatabaseInit, Idle, Using
<1>2. DatabaseTypeOK
  BY DEF DatabaseInit, DatabaseTypeOK, Idle
<1>3. CallersInv /\ SharingInv
  BY DatabaseAssumption DEF DatabaseInit, CallersInv, SharingInv, Idle
<1>4. UsersAreCounted
  BY <1>1, FS_EmptySet DEF UsersAreCounted, DatabaseInit
<1>5. InUseIsOpen /\ NoConnectionLeaks
  BY <1>1 DEF InUseIsOpen, NoConnectionLeaks, DatabaseInit
<1> QED BY <1>2, <1>3, <1>4, <1>5 DEF DatabaseInv

(* Asking for a connection moves one caller that uses none.                 *)
LEMMA AskKeeps ==
  ASSUME DatabaseInv, NEW k \in Caller, caller[k].at # "using", Ask(k),
         UNCHANGED <<conn, retired, users, age, shared, detached>>
  PROVE  DatabaseInv'
<1> USE DEF DatabaseInv
<1>1. /\ renewing' \in BOOLEAN
      /\ \/ Go(k, "idle", Nobody)
         \/ \E at \in {"holding", "waiting"} :
              /\ shared \in Connection
              /\ Go(k, at, shared)
         \/ Go(k, "waiting", Nobody)
  BY DEF Ask, SharingInv, DatabaseTypeOK
<1>2. \A d \in Connection : Using(d)' = Using(d)
  BY <1>1 DEF Using, Go, DatabaseTypeOK
<1>3. DatabaseTypeOK'
  BY <1>1 DEF DatabaseTypeOK, Go
<1>4. CallersInv'
  BY <1>1, DatabaseAssumption DEF CallersInv, SharingInv, DatabaseTypeOK, Go
<1>5. SharingInv'
  BY DEF SharingInv
<1> QED BY <1>2, <1>3, <1>4, <1>5, KeepsUse DEF InUseIsOpen, NoConnectionLeaks

(* Acquiring shares the current connection, or waits for its renewal. *)
LEMMA AcquireKeeps ==
  ASSUME DatabaseInv, NEW k \in Caller, Acquire(k)
  PROVE  DatabaseInv'
<1> USE DEF DatabaseInv
<1> DEFINE c == caller[k].on
<1>0. caller[k].at = "holding" /\ c \in Connection /\ conn[c] # "new"
  BY DEF Acquire, CallersInv
<1>1. CASE Ask(k) /\ UNCHANGED users
  BY <1>0, <1>1, AskKeeps DEF Acquire
<1>2. CASE detached /\ Go(k, "idle", Nobody) /\ UNCHANGED <<users, renewing>>
  <2>1. Ask(k)
    BY <1>2 DEF Ask
  <2> QED BY <1>1, <1>2, <2>1
<1>3. CASE /\ c \notin retired /\ ~detached
           /\ users' = [users EXCEPT ![c] = @ + 1] /\ Go(k, "using", c) /\ UNCHANGED renewing
  <2>1. UsersAreCounted' /\ \A d \in Connection : Using(d)' = IF d = c THEN Using(d) \cup {k} ELSE Using(d)
    BY <1>0, <1>3, BeginsUse
  <2>2. conn[c] \in {"open", "torn"}
    BY <1>0, <1>3 DEF SharingInv, DatabaseTypeOK
  <2>3. UNCHANGED <<conn, retired, age, shared, detached>>
    BY DEF Acquire
  <2>4. DatabaseTypeOK'
    BY <1>0, <1>3, <2>3 DEF DatabaseTypeOK, Go
  <2>5. CallersInv' /\ SharingInv'
    BY <1>0, <1>3, <2>3 DEF CallersInv, SharingInv, DatabaseTypeOK, Go
  <2>6. InUseIsOpen'
    BY <2>1, <2>2, <2>3 DEF InUseIsOpen
  <2>7. NoConnectionLeaks'
    BY <2>1, <2>3 DEF NoConnectionLeaks
  <2> QED BY <2>1, <2>4, <2>5, <2>6, <2>7
<1> QED BY <1>0, <1>1, <1>2, <1>3 DEF Acquire

(* The last user of a retired connection closes it. *)
LEMMA FinishKeeps ==
  ASSUME DatabaseInv, NEW k \in Caller, FinishUse(k)
  PROVE  DatabaseInv'
<1> USE DEF DatabaseInv
<1>0. UNCHANGED <<retired, age, shared, renewing, detached>>
  BY DEF FinishUse
<1>1. CASE caller[k].at = "left" /\ Go(k, "idle", Nobody) /\ UNCHANGED <<users, conn>>
  <2>1. \A d \in Connection : Using(d)' = Using(d)
    BY <1>1 DEF Using, Go, DatabaseTypeOK
  <2>2. DatabaseTypeOK' /\ CallersInv' /\ SharingInv'
    BY <1>0, <1>1, DatabaseAssumption DEF DatabaseTypeOK, CallersInv, SharingInv, Go
  <2> QED BY <1>0, <1>1, <2>1, <2>2, KeepsUse DEF InUseIsOpen, NoConnectionLeaks
<1>2. ASSUME caller[k].at = "using", NEW c \in {caller[k].on}, Release(c), Go(k, "left", c)
      PROVE  DatabaseInv'
  <2>1. c \in Connection /\ caller[k].on = c /\ k \in Using(c) /\ conn[c] \in {"open", "torn"}
    BY <1>2 DEF CallersInv, Using, InUseIsOpen
  <2>2. UsersAreCounted' /\ \A d \in Connection : Using(d)' = IF d = c THEN Using(d) \ {k} ELSE Using(d)
    BY <1>2, <2>1, EndsUse DEF Release
  <2>3. users[c] = 1 <=> Using(c)' = {}
    <3>1. users[c] = 1 <=> Using(c) \ {k} = {}
      BY <2>1, CountTellsUse
    <3>2. Using(c)' = Using(c) \ {k}
      BY <2>1, <2>2
    <3> QED BY <3>1, <3>2
  <2>4. /\ \A d \in Connection \ {c} : conn'[d] = conn[d]
        /\ conn'[c] = IF c \in retired /\ Using(c)' = {} /\ conn[c] = "open" THEN "closed" ELSE conn[c]
        /\ conn' \in [Connection -> {"new", "open", "closed", "torn"}]
    BY <1>2, <2>1, <2>3 DEF Release, DatabaseTypeOK
  <2>5. users' \in [Connection -> Nat]
    <3>1. users[c] \in Nat /\ (users[c] = 0 <=> Using(c) = {})
      BY <2>1, CountTellsUse
    <3>2. users[c] - 1 \in Nat
      BY <2>1, <3>1
    <3>3. users \in [Connection -> Nat] /\ users' = [users EXCEPT ![c] = users[c] - 1]
      BY <1>2 DEF Release, DatabaseTypeOK
    <3> QED BY <2>1, <3>2, <3>3
  <2>6. DatabaseTypeOK'
    BY <1>0, <1>2, <2>1, <2>4, <2>5 DEF DatabaseTypeOK, Go
  <2>7. CallersInv'
    BY <1>2, <2>1, <2>4 DEF CallersInv, DatabaseTypeOK, Go
  <2>8. SharingInv'
    BY <1>0, <2>1, <2>4 DEF SharingInv, DatabaseTypeOK
  <2>9. InUseIsOpen'
    <3> SUFFICES ASSUME NEW d \in Connection, Using(d)' # {} PROVE conn'[d] \in {"open", "torn"}
      BY DEF InUseIsOpen
    <3>1. CASE d = c
      BY <2>1, <2>4, <3>1
    <3>2. CASE d # c
      BY <2>2, <2>4, <3>2 DEF InUseIsOpen
    <3> QED BY <3>1, <3>2
  <2>10. NoConnectionLeaks'
    BY <1>0, <2>1, <2>2, <2>4 DEF NoConnectionLeaks
  <2> QED BY <2>2, <2>6, <2>7, <2>8, <2>9, <2>10
<1> QED BY <1>1, <1>2 DEF FinishUse

(* A renewal moves callers from waiting to holding, and counts nobody.      *)
LEMMA RenewalKeeps ==
  ASSUME DatabaseInv, RenewalSucceeds \/ RenewalFails
  PROVE  DatabaseInv'
<1> USE DEF DatabaseInv
<1>1. \A d \in Connection : Using(d)' = Using(d)
  <2>1. \A k \in Caller :
          /\ caller'[k].at = "using" <=> caller[k].at = "using"
          /\ caller[k].at = "using" => caller'[k] = caller[k]
    BY DEF RenewalSucceeds, RenewalFails, Idle
  <2>2. \A d \in Connection, k \in Caller :
          (caller'[k].at = "using" /\ caller'[k].on = d) <=> (caller[k].at = "using" /\ caller[k].on = d)
    BY <2>1
  <2> QED BY <2>2, Zenon DEF Using
<1>2. UNCHANGED <<users, age, detached>>
  BY DEF RenewalSucceeds, RenewalFails
<1>3. UsersAreCounted'
  BY <1>1, <1>2, KeepsUse
<1>4. ASSUME RenewalFails PROVE DatabaseInv'
  <2>1. \A k \in Caller : caller'[k] \in {caller[k], [at |-> "holding", on |-> caller[k].on], Idle}
    BY <1>4 DEF RenewalFails
  <2>2. \A k \in Caller : caller'[k] # caller[k] /\ caller'[k] # Idle => caller[k].on \in Connection
    BY <1>4 DEF RenewalFails, DatabaseTypeOK
  <2>3. DatabaseTypeOK'
    BY <1>2, <1>4, <2>1 DEF DatabaseTypeOK, RenewalFails, Idle
  <2>4. CallersInv'
    BY <1>4, <2>1, <2>2, DatabaseAssumption DEF CallersInv, RenewalFails, Idle
  <2>5. SharingInv' /\ InUseIsOpen' /\ NoConnectionLeaks'
    BY <1>1, <1>4 DEF SharingInv, InUseIsOpen, NoConnectionLeaks, RenewalFails
  <2> QED BY <1>3, <2>3, <2>4, <2>5
<1>5. ASSUME RenewalSucceeds PROVE DatabaseInv'
  <2>1. PICK c \in Connection :
          /\ conn[c] = "new"
          /\ conn' = [Retired(shared) EXCEPT ![c] = "open"]
          /\ retired' = IF shared = Nobody THEN retired ELSE retired \cup {shared}
          /\ shared' = c
          /\ caller' = [k \in Caller |-> IF caller[k].at = "waiting"
                                         THEN [at |-> "holding", on |-> c] ELSE caller[k]]
    BY <1>5 DEF RenewalSucceeds
  <2>2. ~detached /\ renewing' = FALSE
    BY <1>5 DEF RenewalSucceeds
  <2>3. /\ conn' \in [Connection -> {"new", "open", "closed", "torn"}]
        /\ conn'[c] = "open"
        /\ \A d \in Connection \ {c} :
             conn'[d] = IF d # shared THEN conn[d] ELSE IF Using(d) = {} THEN "closed" ELSE "open"
    <3>1. \A d \in Connection : d = shared => d # Nobody /\ conn[d] = "open"
      BY DatabaseAssumption DEF SharingInv
    <3>2. \A d \in Connection : users[d] = 0 <=> Using(d) = {}
      BY CountTellsUse
    <3>3. Retired(shared) \in [Connection -> {"new", "open", "closed", "torn"}]
      BY DEF Retired, DatabaseTypeOK
    <3>4. \A d \in Connection : Retired(shared)[d] = IF d # shared THEN conn[d]
                                                  ELSE IF Using(d) = {} THEN "closed" ELSE "open"
      BY <3>1, <3>2 DEF Retired, DatabaseTypeOK
    <3> QED BY <2>1, <3>3, <3>4
  <2>4. /\ c # shared /\ c # Nobody /\ c \notin retired'
        /\ \A d \in Connection : d \in retired' <=> d \in retired \/ d = shared
    BY <2>1, DatabaseAssumption DEF SharingInv
  <2>5. DatabaseTypeOK'
    BY <1>2, <2>1, <2>2, <2>3 DEF DatabaseTypeOK
  <2>6. CallersInv'
    <3> SUFFICES ASSUME NEW k \in Caller
                 PROVE  /\ caller'[k].at \in {"holding", "using", "left"} => caller'[k].on \in Connection
                        /\ caller'[k].on \in Connection => conn'[caller'[k].on] # "new"
      BY DEF CallersInv
    <3>1. CASE caller[k].at = "waiting"
      BY <2>1, <2>3, <3>1
    <3>2. CASE caller[k].at # "waiting"
      BY <2>1, <2>3, <3>2 DEF CallersInv
    <3> QED BY <3>1, <3>2
  <2>7. SharingInv'
    <3>1. shared' \in Connection \ retired' /\ conn'[shared'] = "open" /\ ~detached'
      BY <1>2, <2>1, <2>2, <2>3, <2>4
    <3>2. \A d \in Connection : conn'[d] = "closed" => d \in retired'
      BY <2>1, <2>3, <2>4 DEF SharingInv
    <3>3. \A d \in retired' : conn'[d] # "new"
      <4> SUFFICES ASSUME NEW d \in retired' PROVE conn'[d] # "new"
        OBVIOUS
      <4>1. d \in Connection /\ d # c
        BY <2>4, <2>5 DEF DatabaseTypeOK
      <4> QED BY <2>3, <2>4, <4>1 DEF SharingInv
    <3> QED BY <3>1, <3>2, <3>3 DEF SharingInv
  <2>8. InUseIsOpen'
    <3> SUFFICES ASSUME NEW d \in Connection, Using(d)' # {} PROVE conn'[d] \in {"open", "torn"}
      BY DEF InUseIsOpen
    <3> QED BY <1>1, <2>3 DEF InUseIsOpen
  <2>9. NoConnectionLeaks'
    <3> SUFFICES ASSUME NEW d \in Connection, conn'[d] = "open", d # c
                 PROVE  d \in retired' /\ Using(d)' # {}
      BY <1>2, <2>1, <2>2 DEF NoConnectionLeaks
    <3> QED BY <1>1, <2>3, <2>4 DEF NoConnectionLeaks
  <2> QED BY <1>3, <2>5, <2>6, <2>7, <2>8, <2>9
<1> QED BY <1>4, <1>5

(* Everything else uses, ends and replaces nothing.                         *)
LEMMA OtherStepsKeep ==
  ASSUME DatabaseInv,
         \/ \E k \in Caller : Credentials(k)
         \/ Close \/ Reconnect
         \/ \E c \in Connection : Age(c)
         \/ UNCHANGED databaseVars
  PROVE  DatabaseInv'
<1> USE DEF DatabaseInv
<1>1. ASSUME NEW k \in Caller, Credentials(k) PROVE DatabaseInv'
  <2>1. \A d \in Connection : Using(d)' = Using(d)
    BY <1>1 DEF Credentials, Using, Go, DatabaseTypeOK
  <2>2. DatabaseTypeOK' /\ CallersInv' /\ SharingInv'
    BY <1>1, DatabaseAssumption DEF Credentials, DatabaseTypeOK, CallersInv, SharingInv, Go
  <2> QED BY <1>1, <2>1, <2>2, KeepsUse DEF Credentials, InUseIsOpen, NoConnectionLeaks
<1>2. ASSUME UNCHANGED <<users, caller>>
      PROVE  UsersAreCounted' /\ \A d \in Connection : Using(d)' = Using(d)
  BY <1>2 DEF Using, UsersAreCounted
<1>3. ASSUME Close PROVE DatabaseInv'
  <2>1. DatabaseTypeOK' /\ CallersInv' /\ SharingInv'
    BY <1>3 DEF Close, DatabaseTypeOK, CallersInv, SharingInv
  <2>2. InUseIsOpen' /\ NoConnectionLeaks'
    BY <1>2, <1>3 DEF Close, InUseIsOpen, NoConnectionLeaks
  <2> QED BY <1>2, <1>3, <2>1, <2>2 DEF Close
<1>4. ASSUME Reconnect PROVE DatabaseInv'
  <2>1. DatabaseTypeOK' /\ CallersInv' /\ SharingInv'
    BY <1>4 DEF Reconnect, DatabaseTypeOK, CallersInv, SharingInv
  <2>2. InUseIsOpen' /\ NoConnectionLeaks'
    BY <1>2, <1>4 DEF Reconnect, InUseIsOpen, NoConnectionLeaks
  <2> QED BY <1>2, <1>4, <2>1, <2>2 DEF Reconnect
<1>5. ASSUME NEW c \in Connection, Age(c) PROVE DatabaseInv'
  <2>1. DatabaseTypeOK' /\ CallersInv' /\ SharingInv'
    BY <1>5 DEF Age, DatabaseTypeOK, CallersInv, SharingInv
  <2>2. InUseIsOpen' /\ NoConnectionLeaks'
    BY <1>2, <1>5 DEF Age, InUseIsOpen, NoConnectionLeaks
  <2> QED BY <1>2, <1>5, <2>1, <2>2 DEF Age
<1>6. ASSUME UNCHANGED databaseVars PROVE DatabaseInv'
  <2>1. DatabaseTypeOK' /\ CallersInv' /\ SharingInv'
    BY <1>6 DEF databaseVars, DatabaseTypeOK, CallersInv, SharingInv
  <2> QED BY <1>2, <1>6, <2>1 DEF databaseVars, InUseIsOpen, NoConnectionLeaks
<1> QED BY <1>1, <1>3, <1>4, <1>5, <1>6

(* Every step of the database client preserves the invariant. *)
LEMMA DatabaseKeeps == DatabaseInv /\ [DatabaseNext]_databaseVars => DatabaseInv'
<1> SUFFICES ASSUME DatabaseInv, [DatabaseNext]_databaseVars PROVE DatabaseInv'
  OBVIOUS
<1>1. ASSUME NEW k \in Caller, Call(k) PROVE DatabaseInv'
  BY <1>1, AskKeeps DEF Call
<1> QED BY <1>1, AcquireKeeps, FinishKeeps, RenewalKeeps, OtherStepsKeep DEF DatabaseNext

-----------------------------------------------------------------------------

(* The invariant holds of every behaviour of the client: besides what it    *)
(* promises, its counter is exact and the shared connection never retired.  *)
THEOREM DatabaseInvariant == DatabaseSpec => []DatabaseInv
BY DatabaseStarts, DatabaseKeeps, PTL DEF DatabaseSpec

(* No operation, transaction or handle finishes on a connection a renewal   *)
(* closed under it, and a replaced connection is closed by its last user.   *)
THEOREM DatabaseHoldsConnections == DatabaseSpec => []ConnectionsAreHeld
<1>1. DatabaseInv => ConnectionsAreHeld
  BY DEF DatabaseInv, ConnectionsAreHeld
<1> QED BY <1>1, DatabaseInvariant, PTL

-----------------------------------------------------------------------------
(* The application's commands: what a call is told is true.                 *)

(* A try that has not left its caller is nowhere, and one the platform has  *)
(* taken was told nothing that denies it.                                   *)
TryOK(t) ==
  /\ told[t] \in {"nothing", "configuring", "aborting", "unsent"} => job[t] = "none"
  /\ told[t] = "refused" => job[t] = "gone" /\ t \notin taken
  /\ told[t] = "accepted" => t \in taken
  /\ job[t] = "admitted" => t \in taken
  /\ t \in taken => job[t] \in {"admitted", "gone"}
(* Later tries have not begun.                                              *)
Unbegun(c, n) == n > tries[c] => told[<<c, n>>] = "nothing"
TriesInv ==
  /\ \A t \in Try : TryOK(t)
  /\ \A c \in Submission, n \in 1..MaxTries : Unbegun(c, n)

(* The types of the Workspace reference.                                    *)
ReferenceTypeOK ==
  /\ slugged \in BOOLEAN
  /\ lookups \in Seq([asked : Nat, state : {"asking", "known", "failed"}])
  /\ Len(lookups) <= MaxLookups /\ pending \in 0..Len(lookups)
  /\ deletion \in [Deletion -> {"idle", "inspecting", "deleting", "settled", "absent"}]

CommandsInv == CommandsTypeOK /\ TriesInv /\ LookupIsFresh

-----------------------------------------------------------------------------

(* The number of deletes that settled is a number. *)
LEMMA SettledIsNat == Settled \in Nat
<1>1. {d \in Deletion : deletion[d] = "settled"} \subseteq Deletion
  OBVIOUS
<1> QED BY <1>1, CommandAssumption, FS_Subset, FS_CardinalityType DEF Settled

(* An App without submissions and lookups satisfies the invariant. *)
LEMMA CommandsStart == CommandsInit => CommandsInv
<1> SUFFICES ASSUME CommandsInit PROVE CommandsInv
  OBVIOUS
<1> USE CommandAssumption DEF CommandsInit, SubmissionsInit, ReferenceInit
<1>1. CommandsTypeOK
  BY DEF CommandsTypeOK
<1>2. TriesInv
  BY DEF TriesInv, TryOK, Unbegun, Try
<1> QED BY <1>1, <1>2 DEF CommandsInv, LookupIsFresh

(* A step of one try disturbs no other.                                     *)
LEMMA OneTry ==
  ASSUME TriesInv, NEW t \in Try, tries' = tries,
         \A u \in Try \ {t} : told'[u] = told[u] /\ job'[u] = job[u] /\ (u \in taken' <=> u \in taken),
         TryOK(t)', told'[t] # told[t] => told[t] # "nothing"
  PROVE  TriesInv'
<1>1. ASSUME NEW u \in Try PROVE TryOK(u)'
  BY DEF TriesInv, TryOK
<1>2. ASSUME NEW c \in Submission, NEW n \in 1..MaxTries PROVE Unbegun(c, n)'
  <2>1. <<c, n>> \in Try
    BY DEF Try
  <2> QED BY <2>1 DEF TriesInv, Unbegun
<1> QED BY <1>1, <1>2 DEF TriesInv

(* A try moves from its caller to the Worker, the platform and back. *)
LEMMA TryMoves ==
  ASSUME CommandsInv, NEW t \in Try,
         \/ Abort(t) \/ Breaks(t) \/ Refuse(t)
         \/ Open(t) \/ Opened(t) \/ Post(t) \/ TakeMessage(t) \/ Answered(t),
         UNCHANGED referenceVars
  PROVE  CommandsInv'
<1> USE DEF invocation, Told, Moves
<1>1. CommandsTypeOK /\ TryOK(t) /\ UNCHANGED <<slugged, lookups, pending, deletion>>
  BY DEF CommandsInv, TriesInv, referenceVars
<1>2. TriesInv /\ LookupIsFresh'
  BY <1>1 DEF CommandsInv, LookupIsFresh, Settled
<1>3. CASE Abort(t)
  <2>1. CommandsTypeOK'
    BY <1>3, <1>1 DEF Abort, CommandsTypeOK
  <2>2. \A u \in Try \ {t} : told'[u] = told[u] /\ job'[u] = job[u] /\ (u \in taken' <=> u \in taken)
    BY <1>3, <1>1 DEF Abort, CommandsTypeOK
  <2>3. TryOK(t)' /\ (told'[t] # told[t] => told[t] # "nothing")
    BY <1>3, <1>1 DEF Abort, CommandsTypeOK, TryOK
  <2>4. tries' = tries
    BY <1>3 DEF Abort
  <2> QED BY <1>2, <2>1, <2>2, <2>3, <2>4, OneTry DEF CommandsInv
<1>4. CASE Breaks(t)
  <2>1. CommandsTypeOK'
    BY <1>4, <1>1 DEF Breaks, CommandsTypeOK
  <2>2. \A u \in Try \ {t} : told'[u] = told[u] /\ job'[u] = job[u] /\ (u \in taken' <=> u \in taken)
    BY <1>4, <1>1 DEF Breaks, CommandsTypeOK
  <2>3. TryOK(t)' /\ (told'[t] # told[t] => told[t] # "nothing")
    BY <1>4, <1>1 DEF Breaks, CommandsTypeOK, TryOK
  <2>4. tries' = tries
    BY <1>4 DEF Breaks
  <2> QED BY <1>2, <2>1, <2>2, <2>3, <2>4, OneTry DEF CommandsInv
<1>5. CASE Refuse(t)
  <2>1. CommandsTypeOK'
    BY <1>5, <1>1 DEF Refuse, CommandsTypeOK
  <2>2. \A u \in Try \ {t} : told'[u] = told[u] /\ job'[u] = job[u] /\ (u \in taken' <=> u \in taken)
    BY <1>5, <1>1 DEF Refuse, CommandsTypeOK
  <2>3. TryOK(t)' /\ (told'[t] # told[t] => told[t] # "nothing")
    BY <1>5, <1>1 DEF Refuse, CommandsTypeOK, TryOK
  <2>4. tries' = tries
    BY <1>5 DEF Refuse
  <2> QED BY <1>2, <2>1, <2>2, <2>3, <2>4, OneTry DEF CommandsInv
<1>6. CASE Open(t)
  <2>1. CommandsTypeOK'
    BY <1>6, <1>1 DEF Open, Invoke, CommandsTypeOK
  <2>2. \A u \in Try \ {t} : told'[u] = told[u] /\ job'[u] = job[u] /\ (u \in taken' <=> u \in taken)
    BY <1>6, <1>1 DEF Open, Invoke, CommandsTypeOK
  <2>3. TryOK(t)' /\ (told'[t] # told[t] => told[t] # "nothing")
    BY <1>6, <1>1 DEF Open, Invoke, CommandsTypeOK, TryOK
  <2>4. tries' = tries
    BY <1>6 DEF Open, Invoke
  <2> QED BY <1>2, <2>1, <2>2, <2>3, <2>4, OneTry DEF CommandsInv
<1>7. CASE Opened(t)
  <2>1. CommandsTypeOK'
    BY <1>7, <1>1 DEF Opened, CommandsTypeOK
  <2>2. \A u \in Try \ {t} : told'[u] = told[u] /\ job'[u] = job[u] /\ (u \in taken' <=> u \in taken)
    BY <1>7, <1>1 DEF Opened, CommandsTypeOK
  <2>3. TryOK(t)' /\ (told'[t] # told[t] => told[t] # "nothing")
    BY <1>7, <1>1 DEF Opened, CommandsTypeOK, TryOK
  <2>4. tries' = tries
    BY <1>7 DEF Opened
  <2> QED BY <1>2, <2>1, <2>2, <2>3, <2>4, OneTry DEF CommandsInv
<1>8. CASE Post(t)
  <2>1. CommandsTypeOK'
    BY <1>8, <1>1 DEF Post, Invoke, CommandsTypeOK
  <2>2. \A u \in Try \ {t} : told'[u] = told[u] /\ job'[u] = job[u] /\ (u \in taken' <=> u \in taken)
    BY <1>8, <1>1 DEF Post, Invoke, CommandsTypeOK
  <2>3. TryOK(t)' /\ (told'[t] # told[t] => told[t] # "nothing")
    BY <1>8, <1>1 DEF Post, Invoke, CommandsTypeOK, TryOK
  <2>4. tries' = tries
    BY <1>8 DEF Post, Invoke
  <2> QED BY <1>2, <2>1, <2>2, <2>3, <2>4, OneTry DEF CommandsInv
<1>9. CASE TakeMessage(t)
  <2>1. CommandsTypeOK'
    BY <1>9, <1>1 DEF TakeMessage, CommandsTypeOK
  <2>2. \A u \in Try \ {t} : told'[u] = told[u] /\ job'[u] = job[u] /\ (u \in taken' <=> u \in taken)
    BY <1>9, <1>1 DEF TakeMessage, CommandsTypeOK
  <2>3. TryOK(t)' /\ (told'[t] # told[t] => told[t] # "nothing")
    BY <1>9, <1>1 DEF TakeMessage, CommandsTypeOK, TryOK
  <2>4. tries' = tries
    BY <1>9 DEF TakeMessage
  <2> QED BY <1>2, <2>1, <2>2, <2>3, <2>4, OneTry DEF CommandsInv
<1>10. CASE Answered(t)
  <2>1. CommandsTypeOK'
    BY <1>10, <1>1 DEF Answered, CommandsTypeOK
  <2>2. \A u \in Try \ {t} : told'[u] = told[u] /\ job'[u] = job[u] /\ (u \in taken' <=> u \in taken)
    BY <1>10, <1>1 DEF Answered, CommandsTypeOK
  <2>3. TryOK(t)' /\ (told'[t] # told[t] => told[t] # "nothing")
    BY <1>10, <1>1 DEF Answered, CommandsTypeOK, TryOK
  <2>4. tries' = tries
    BY <1>10 DEF Answered
  <2> QED BY <1>2, <2>1, <2>2, <2>3, <2>4, OneTry DEF CommandsInv
<1> QED BY <1>3, <1>4, <1>5, <1>6, <1>7, <1>8, <1>9, <1>10

(* Every step of the submissions preserves the invariant. *)
LEMMA SubmissionsStep ==
  ASSUME CommandsInv, SubmissionsNext
  PROVE  CommandsInv'
<1> USE DEF Told, Moves
<1>1. CommandsTypeOK /\ TriesInv /\ UNCHANGED <<slugged, lookups, pending, deletion>>
  BY DEF CommandsInv, SubmissionsNext, referenceVars
<1>2. LookupIsFresh'
  BY <1>1 DEF CommandsInv, LookupIsFresh, Settled
<1>3. ASSUME NEW c \in Submission, Submit(c)
      PROVE  CommandsInv'
  <2> DEFINE t == <<c, tries[c] + 1>>
  <2>1. tries[c] \in 0..MaxTries /\ tries[c] < MaxTries /\ MaxTries \in Nat
    BY <1>1, <1>3, CommandAssumption DEF Submit, CommandsTypeOK
  <2>2. t \in Try
    BY <2>1 DEF Try
  <2>3. told[t] = "nothing" /\ job[t] = "none" /\ t \notin taken
    BY <1>1, <2>1, <2>2 DEF TriesInv, TryOK, Unbegun
  <2>4. CommandsTypeOK'
    <3>1. tries' \in [Submission -> 0..MaxTries]
      BY <1>1, <1>3, <2>1 DEF Submit, CommandsTypeOK
    <3> QED BY <1>1, <1>3, <2>2, <3>1 DEF Submit, CommandsTypeOK
  <2>5. ASSUME NEW u \in Try PROVE TryOK(u)'
    <3>1. CASE u = t
      <4>1. \/ told'[u] = "waiting" /\ job'[u] = "sent"
            \/ told'[u] = "configuring" /\ job'[u] = "none"
        BY <1>1, <1>3, <2>2, <2>3, <3>1 DEF Submit, CommandsTypeOK
      <4>2. u \notin taken'
        BY <1>3, <2>3, <3>1 DEF Submit
      <4> QED BY <4>1, <4>2 DEF TryOK
    <3>2. CASE u # t
      <4>1. taken' = taken /\ told'[u] = told[u] /\ job'[u] = job[u]
        BY <1>1, <1>3, <2>2, <3>2 DEF Submit, CommandsTypeOK
      <4>2. TryOK(u)
        BY <1>1 DEF TriesInv
      <4> QED BY <4>1, <4>2 DEF TryOK
    <3> QED BY <3>1, <3>2
  <2>6. ASSUME NEW k \in Submission, NEW n \in 1..MaxTries PROVE Unbegun(k, n)'
    <3> SUFFICES ASSUME n > tries'[k] PROVE told'[<<k, n>>] = "nothing"
      BY DEF Unbegun
    <3>1. tries' = [tries EXCEPT ![c] = @ + 1]
      BY <1>3 DEF Submit
    <3>2. n > tries[k] /\ <<k, n>> # t
      BY <1>1, <2>1, <3>1 DEF CommandsTypeOK
    <3>3. <<k, n>> \in Try
      BY DEF Try
    <3>4. told'[<<k, n>>] = told[<<k, n>>]
      BY <1>1, <1>3, <2>2, <3>2, <3>3 DEF Submit, CommandsTypeOK
    <3> QED BY <1>1, <3>2, <3>4 DEF TriesInv, Unbegun
  <2> QED BY <1>2, <2>4, <2>5, <2>6 DEF CommandsInv, TriesInv
<1>4. ASSUME ConfigurationRead \/ ConfigurationFails
      PROVE  CommandsInv'
  <2>1. CommandsTypeOK'
    BY <1>1, <1>4 DEF ConfigurationRead, ConfigurationFails, CommandsTypeOK
  <2>2. ASSUME NEW u \in Try PROVE TryOK(u)'
    BY <1>1, <1>4 DEF ConfigurationRead, ConfigurationFails, CommandsTypeOK, TriesInv, TryOK
  <2>3. ASSUME NEW c \in Submission, NEW n \in 1..MaxTries PROVE Unbegun(c, n)'
    <3>1. <<c, n>> \in Try
      BY DEF Try
    <3> QED BY <1>1, <1>4, <3>1 DEF ConfigurationRead, ConfigurationFails, CommandsTypeOK, TriesInv, Unbegun
  <2> QED BY <1>2, <2>1, <2>2, <2>3 DEF CommandsInv, TriesInv
<1>5. CASE HandlerSettles
  <2>1. CommandsTypeOK'
    BY <1>1, <1>5 DEF HandlerSettles, CommandsTypeOK
  <2>2. TriesInv'
    BY <1>1, <1>5 DEF HandlerSettles, TriesInv, TryOK, Unbegun
  <2> QED BY <1>2, <2>1, <2>2 DEF CommandsInv
<1> QED BY <1>3, <1>4, <1>5, TryMoves DEF SubmissionsNext

(* Every step of the Workspace references preserves the invariant. *)
LEMMA ReferenceStep ==
  ASSUME CommandsInv, ReferenceNext
  PROVE  CommandsInv'
<1> DEFINE Lookup == [asked : Nat, state : {"asking", "known", "failed"}]
<1>1. UNCHANGED <<configuration, capability, handler, tries, told, job, taken>>
  BY DEF ReferenceNext, submissionVars
<1>2. TriesInv'
  BY <1>1 DEF CommandsInv, TriesInv, TryOK, Unbegun
<1>3. SUFFICES ReferenceTypeOK' /\ LookupIsFresh'
  BY <1>1, <1>2 DEF CommandsInv, CommandsTypeOK, ReferenceTypeOK
<1>4. ReferenceTypeOK /\ LookupIsFresh
  BY DEF CommandsInv, CommandsTypeOK, ReferenceTypeOK
<1>5. CASE Resolve
  <2>1. Settled' = Settled
    BY <1>5 DEF Resolve, Settled
  <2>2. [asked |-> Settled, state |-> "asking"] \in Lookup
    BY SettledIsNat
  <2>3. lookups' = Append(lookups, [asked |-> Settled, state |-> "asking"]) /\ pending' = Len(lookups')
    BY <1>5 DEF Resolve
  <2>4. Len(lookups) \in Nat /\ Len(lookups) < MaxLookups /\ MaxLookups \in Nat
    BY <1>4, <1>5, CommandAssumption DEF Resolve, ReferenceTypeOK
  <2>5. lookups' \in Seq(Lookup) /\ Len(lookups') = Len(lookups) + 1 /\ lookups'[Len(lookups) + 1].asked = Settled
    BY <1>4, <2>2, <2>3, <2>4 DEF ReferenceTypeOK
  <2> QED BY <1>4, <1>5, <2>1, <2>3, <2>4, <2>5 DEF Resolve, ReferenceTypeOK, LookupIsFresh
<1>6. ASSUME NEW k \in DOMAIN lookups, LookupSettles(k)
      PROVE  ReferenceTypeOK' /\ LookupIsFresh'
  <2>1. Settled' = Settled
    BY <1>6 DEF LookupSettles, Settled
  <2>2. PICK state \in {"known", "failed"} :
           /\ lookups' = [lookups EXCEPT ![k] = [asked |-> @.asked, state |-> state]]
           /\ pending' = IF state = "failed" THEN 0 ELSE pending
    BY <1>6 DEF LookupSettles
  <2>3. [asked |-> lookups[k].asked, state |-> state] \in Lookup
    <3>1. lookups \in Seq(Lookup) /\ k \in 1..Len(lookups)
      <4>1. lookups \in Seq(Lookup)
        BY <1>4 DEF ReferenceTypeOK
      <4> HIDE DEF Lookup
      <4> QED BY <4>1
    <3>2. lookups[k] \in Lookup
      <4> HIDE DEF Lookup
      <4> QED BY <3>1
    <3>3. lookups[k].asked \in Nat
      BY <3>2
    <3> QED BY <3>3
  <2>4. lookups' \in Seq(Lookup) /\ Len(lookups') = Len(lookups)
    BY <1>4, <1>6, <2>2, <2>3 DEF ReferenceTypeOK
  <2>5. \A j \in 1..Len(lookups) : lookups'[j].asked = lookups[j].asked
    BY <1>4, <1>6, <2>2 DEF ReferenceTypeOK
  <2> QED BY <1>4, <1>6, <2>1, <2>2, <2>4, <2>5 DEF LookupSettles, ReferenceTypeOK, LookupIsFresh
<1>7. ASSUME NEW d \in Deletion, Delete(d) \/ Inspected(d)
      PROVE  ReferenceTypeOK' /\ LookupIsFresh'
  <2>1. {x \in Deletion : deletion'[x] = "settled"} = {x \in Deletion : deletion[x] = "settled"}
    BY <1>4, <1>7 DEF Delete, Inspected, ReferenceTypeOK
  <2>2. Settled' = Settled
    BY <2>1 DEF Settled
  <2> QED BY <1>4, <1>7, <2>2 DEF Delete, Inspected, ReferenceTypeOK, LookupIsFresh
<1>8. ASSUME NEW d \in Deletion, Deleted(d)
      PROVE  ReferenceTypeOK' /\ LookupIsFresh'
  BY <1>4, <1>8 DEF Deleted, ReferenceTypeOK, LookupIsFresh
<1> QED BY <1>5, <1>6, <1>7, <1>8 DEF ReferenceNext

(* Every step of a submission and of a reference.                            *)
LEMMA CommandsKeeps == CommandsInv /\ [CommandsNext]_commandVars => CommandsInv'
<1> SUFFICES ASSUME CommandsInv, [CommandsNext]_commandVars
             PROVE  CommandsInv'
  OBVIOUS
<1>1. CASE UNCHANGED commandVars
  BY <1>1 DEF CommandsInv, CommandsTypeOK, TriesInv, TryOK, Unbegun, LookupIsFresh, Settled,
              commandVars, submissionVars, referenceVars
<1> QED BY <1>1, SubmissionsStep, ReferenceStep DEF CommandsNext

(* The invariant of an App's submissions and Workspace references.          *)
THEOREM CommandsInvariant == CommandsSpec => []CommandsInv
BY CommandsStart, CommandsKeeps, PTL DEF CommandsSpec

(* Only a usable capability carries a request to the platform.              *)
LEMMA RequestsAreCovered ==
  ASSUME CommandsInv, [CommandsNext]_commandVars, NEW t \in Try, t[1] \in Handled,
         job'[t] # job[t], job'[t] \in {"opening", "posted"}
  PROVE  capability # "missing" /\ (capability = "granted" => handler = "running")
<1> USE DEF CommandsInv, CommandsTypeOK, Told, Moves
<1>1. SubmissionsNext
  BY DEF CommandsNext, ReferenceNext, commandVars, submissionVars
<1>2. ASSUME NEW c \in Submission, Submit(c) PROVE FALSE
  <2>1. job' = job \/ job' = [job EXCEPT ![<<c, tries[c] + 1>>] = "sent"]
    BY <1>2 DEF Submit
  <2>2. job'[t] \in {job[t], "sent"}
    BY <2>1
  <2> QED BY <2>2
<1>3. ~ConfigurationRead /\ ~ConfigurationFails /\ ~HandlerSettles
  BY DEF ConfigurationRead, ConfigurationFails, HandlerSettles
<1>4. ASSUME NEW u \in Try,
             \/ Abort(u) \/ Breaks(u) \/ Refuse(u) \/ Opened(u) \/ TakeMessage(u) \/ Answered(u)
      PROVE  FALSE
  BY <1>4 DEF Abort, Breaks, Refuse, Opened, TakeMessage, Answered
<1>5. PICK u \in Try : Open(u) \/ Post(u)
  BY <1>1, <1>2, <1>3, <1>4 DEF SubmissionsNext
<1>6. u = t /\ ~Revoked(t)
  BY <1>5 DEF Open, Post, Invoke
<1> QED BY <1>6 DEF Revoked

(* What callers are told is true, the lookup they share is fresh, and a      *)
(* settled invocation asks nothing more of the platform.                     *)
THEOREM CommandsTellTheTruth == CommandsSpec => CommandsAreTrue
<1>1. CommandsInv => OutcomesAreTrue /\ LookupIsFresh
  BY DEF CommandsInv, CommandsTypeOK, TriesInv, TryOK, OutcomesAreTrue
<1>2. CommandsInv /\ [CommandsNext]_commandVars =>
        [\A t \in Try : t[1] \in Handled /\ job'[t] # job[t] /\ job'[t] \in {"opening", "posted"}
            => capability # "missing" /\ (capability = "granted" => handler = "running")]_commandVars
  BY RequestsAreCovered
<1> QED BY <1>1, <1>2, CommandsInvariant, PTL DEF CommandsSpec, CommandsAreTrue, CapabilityIsKept

-----------------------------------------------------------------------------
(* The runtime server: a shutdown waits for what is under way.              *)

(* The phases of a shutdown, in their order.                                *)
ShutdownInv ==
  /\ closing <=> server \in {"closing", "closed"}
  /\ ~lifetime <=> server = "closed"
  /\ server \in {"created", "failed", "closed"} => \A r \in Request : ~InFlight(r)
  /\ closing => \A r \in Request : request[r] # "waiting"
ServerInv == ServerTypeOK /\ ShutdownInv

(* A server that has just started satisfies the invariant. *)
LEMMA ServerStarts == ServerInit => ServerInv
<1>1. ServerInit => ServerTypeOK
  <2> SUFFICES ASSUME ServerInit PROVE ServerTypeOK
    OBVIOUS
  <2>1. request \in [Request -> {"idle", "body", "waiting", "value", "error", "working",
                                 "attached", "answered", "left"}]
    BY DEF ServerInit
  <2>2. status \in [Request -> {0, 200, 202, 408, 409, 500, 503}]
    BY DEF ServerInit
  <2> QED BY <2>1, <2>2 DEF ServerInit, ServerTypeOK
<1>2. ServerInit => ShutdownInv
  BY DEF ServerInit, ShutdownInv, InFlight
<1> QED BY <1>1, <1>2 DEF ServerInv

(* A request under way moves only while the server is up.                   *)
LEMMA RequestSteps ==
  ASSUME ServerInv, NEW r \in Request, UNCHANGED <<server, closing, lifetime>>,
         server \in {"listening", "closing"} \/ InFlight(r),
         NEW state \in {"body", "waiting", "value", "error", "working", "attached", "answered", "left"},
         Becomes(r, state), closing => state # "waiting"
  PROVE  ShutdownInv'
<1>1. server \in {"listening", "closing"}
  BY DEF ServerInv, ServerTypeOK, ShutdownInv
<1>2. \A q \in Request : request'[q] = IF q = r THEN state ELSE request[q]
  BY DEF Becomes, ServerInv, ServerTypeOK
<1> QED BY <1>1, <1>2 DEF ServerInv, ShutdownInv

(* Every step of the runtime server preserves the invariant. *)
LEMMA ServerKeeps == ServerInv /\ [ServerNext]_serverVars => ServerInv'
<1> SUFFICES ASSUME ServerInv, [ServerNext]_serverVars PROVE ServerInv'
  OBVIOUS
<1> USE DEF Becomes, Answers
<1>1. CASE Listen
  BY <1>1 DEF Listen, ServerInv, ServerTypeOK, ShutdownInv, InFlight
<1>2. CASE CloseServer
  BY <1>2 DEF CloseServer, ServerInv, ServerTypeOK, ShutdownInv, InFlight
<1>3. CASE ServerClosed
  BY <1>3 DEF ServerClosed, ServerInv, ServerTypeOK, ShutdownInv, InFlight
<1>4. ASSUME NEW r \in Request, DispatchRequest(r) PROVE ServerInv'
  <2>1. ServerTypeOK'
    BY <1>4 DEF DispatchRequest, BeginPoll, ServerInv, ServerTypeOK
  <2>2. /\ UNCHANGED <<server, closing, lifetime>> /\ server \in {"listening", "closing"}
        /\ \E state \in {"body", "waiting", "value", "error", "attached", "answered"} :
              Becomes(r, state) /\ (closing => state # "waiting")
    BY <1>4 DEF DispatchRequest, BeginPoll
  <2> QED BY <2>1, <2>2, RequestSteps DEF ServerInv
<1>5. ASSUME NEW r \in Request, BodyRead(r) \/ RecoveryReturns(r) \/ TerminalCloses(r) \/ AnswerPoll(r)
                                \/ ClientLeaves(r)
      PROVE  ServerInv'
  <2>1. ServerTypeOK'
    <3>1. CASE AnswerPoll(r)
      <4>1. \E code \in {200, 408, 409, 500, 503} : Answers(r, code)
        BY <3>1 DEF AnswerPoll
      <4> QED BY <3>1, <4>1 DEF AnswerPoll, ServerInv, ServerTypeOK
    <3>2. CASE ClientLeaves(r)
      BY <3>2 DEF ClientLeaves, ServerInv, ServerTypeOK
    <3>3. CASE RecoveryReturns(r) \/ TerminalCloses(r)
      BY <3>3 DEF RecoveryReturns, TerminalCloses, ServerInv, ServerTypeOK
    <3>4. CASE BodyRead(r)
      <4>1. /\ UNCHANGED <<server, closing, lifetime, kind>> /\ bound' \in {TRUE, bound, bound \/ kind[r] # "acknowledge"}
            /\ \/ \E code \in {200, 202, 409} : Answers(r, code)
               \/ Becomes(r, "working") /\ UNCHANGED status
        BY <3>4, ZenonT(60) DEF BodyRead
      <4>2. bound' \in BOOLEAN
        BY <4>1, Zenon DEF ServerInv, ServerTypeOK
      <4>3. status' \in [Request -> {0, 200, 202, 408, 409, 500, 503}]
        BY <4>1 DEF ServerInv, ServerTypeOK
      <4> QED BY <4>1, <4>2, <4>3 DEF ServerInv, ServerTypeOK
    <3> QED BY <1>5, <3>1, <3>2, <3>3, <3>4
  <2>2. /\ UNCHANGED <<server, closing, lifetime>> /\ InFlight(r)
        /\ \E state \in {"working", "answered", "left"} : Becomes(r, state)
    BY <1>5 DEF BodyRead, RecoveryReturns, TerminalCloses, AnswerPoll, ClientLeaves, InFlight
  <2> QED BY <2>1, <2>2, RequestSteps DEF ServerInv
<1>6. ASSUME NEW r \in Request, WaitEnds(r) PROVE ServerInv'
  <2>1. ServerTypeOK'
    BY <1>6 DEF WaitEnds, ServerInv, ServerTypeOK
  <2>2. /\ UNCHANGED <<server, closing, lifetime>> /\ InFlight(r)
        /\ \E state \in {"value", "error"} : Becomes(r, state)
    BY <1>6 DEF WaitEnds, InFlight
  <2> QED BY <2>1, <2>2, RequestSteps DEF ServerInv
<1>7. CASE UNCHANGED serverVars
  BY <1>7 DEF serverVars, ServerInv, ServerTypeOK, ShutdownInv, InFlight
<1> QED BY <1>1, <1>2, <1>3, <1>4, <1>5, <1>6, <1>7 DEF ServerNext

(* session-runtime-server.ts, close and dispose: once close has begun no *)
(* long poll waits, and the lifetime of the runtime ends only when no    *)
(* request is in flight, for every number of requests.                   *)
THEOREM ShutdownIsOrderly == ServerSpec => []OrderlyShutdown
<1>1. ServerInv => OrderlyShutdown
  BY DEF ServerInv, ServerTypeOK, ShutdownInv, OrderlyShutdown
<1> QED BY ServerStarts, ServerKeeps, <1>1, PTL DEF ServerSpec

-----------------------------------------------------------------------------
(* The login slots: one login at a time, and known.                         *)

Starts == {"startTerminal", "startLogin"}
StopsTerminal == {"stopTerminal", "terminalStops"}
StopsLogin == {"stopLogin", "loginStops"}

(* What is left of a command frees a slot before it starts a login, starts  *)
(* one at most, and awaits a stop only as its first step.                   *)
Frees(s) ==
  /\ \A i \in 1..Len(s) : s[i] \in Starts \union {"login"} =>
        terminal = NoProcess \/ \E k \in 1..(i - 1) : s[k] \in StopsTerminal
  /\ \A i \in 1..Len(s) : s[i] \in Starts =>
        attempt = NoProcess \/ \E k \in 1..(i - 1) : s[k] \in StopsLogin
Single(s) ==
  /\ \A i, j \in 1..Len(s) : s[i] \in Starts /\ i < j => s[j] \notin Starts \union {"login"}
  /\ \A i \in 2..Len(s) : s[i] \notin {"terminalStops", "loginStops"}
Awaits(s) ==
  s # <<>> =>
    /\ s[1] = "terminalStops" => terminal \in stopping \union {NoProcess}
    /\ s[1] = "loginStops" => attempt \in stopping \union {NoProcess}
CommandInv == Frees(todo) /\ Single(todo) /\ Awaits(todo)

SlotInv ==
  /\ terminal # NoProcess => terminal \notin logins /\ process[terminal] # "new"
  /\ attempt # NoProcess => attempt \in logins /\ process[attempt] # "new"
  /\ \A p \in logins \union stopping : process[p] # "new"
  /\ \A p \in stopping : process[p] # "live"
  /\ terminal = NoProcess \/ attempt = NoProcess
  /\ \A p \in Process : process[p] \in {"live", "termed"} => p \in {terminal, attempt}

LoginsInv == LoginsTypeOK /\ SlotInv /\ CommandInv

(* A Session without logins satisfies the invariant. *)
LEMMA LoginsStart == LoginsInit => LoginsInv
<1> SUFFICES ASSUME LoginsInit PROVE LoginsInv
  OBVIOUS
<1> USE DEF LoginsInit
<1>1. LoginsTypeOK
  <2>1. process \in [Process -> {"new", "live", "termed", "killed", "closed"}] /\ todo \in Seq(Steps)
    OBVIOUS
  <2>2. commands \in 0..MaxCommands
    BY LoginAssumption
  <2>3. \A S \in {logins, attached, prompted, failed, stopping} : S \subseteq Process
    OBVIOUS
  <2> QED BY <2>1, <2>2, <2>3 DEF LoginsTypeOK
<1>2. SlotInv
  BY DEF SlotInv
<1>3. CommandInv
  BY DEF CommandInv, Frees, Single, Awaits
<1> QED BY <1>1, <1>2, <1>3 DEF LoginsInv

(* The commands as they begin.                                              *)
LEMMA ProgramsAreSound ==
  \A s \in Programs :
    /\ s \in Seq(Steps) /\ Single(s) /\ Awaits(s)
    /\ \A i \in 1..Len(s) : s[i] \in Starts \union {"login"} => \E k \in 1..(i - 1) : s[k] \in StopsTerminal
    /\ \A i \in 1..Len(s) : s[i] \in Starts => \E k \in 1..(i - 1) : s[k] \in StopsLogin
<1> DEFINE Sound(s) ==
      /\ s \in Seq(Steps) /\ Single(s) /\ Awaits(s)
      /\ \A i \in 1..Len(s) : s[i] \in Starts \union {"login"} => \E k \in 1..(i - 1) : s[k] \in StopsTerminal
      /\ \A i \in 1..Len(s) : s[i] \in Starts => \E k \in 1..(i - 1) : s[k] \in StopsLogin
<1> USE DEF Single, Awaits, Starts, StopsTerminal, StopsLogin, Steps
<1>1. Sound(<<"stopTerminal", "admit", "login">>)
  OBVIOUS
<1>2. Sound(<<"stopTerminal", "admit", "stopLogin", "status", "startLogin", "prompt">>)
  OBVIOUS
<1>3. Sound(<<"stopLogin">>) /\ Sound(<<"stopTerminal">>)
  OBVIOUS
<1>4. Sound(<<"stopLogin", "stopTerminal", "status">>)
  OBVIOUS
<1>5. Sound(<<"stopLogin", "stopTerminal", "admit", "startTerminal">>)
  OBVIOUS
<1> HIDE DEF Sound
<1>6. \A s \in Programs : Sound(s)
  BY <1>1, <1>2, <1>3, <1>4, <1>5 DEF Programs
<1> QED BY <1>6 DEF Sound

(* Steps without a start ask for nothing.                                   *)
LEMMA PlainCommand ==
  ASSUME todo' \in {<<>>, <<"prompt">>, <<"stopLogin">>, <<"code">>, <<"answer">>, <<"status", "stopLogin">>}
  PROVE  CommandInv' /\ todo' \in Seq(Steps)
<1> USE DEF CommandInv, Frees, Single, Awaits, Starts, StopsTerminal, StopsLogin, Steps
<1>1. CASE todo' = <<>>
  BY <1>1
<1>2. CASE \E x \in {"prompt", "stopLogin", "code", "answer"} : todo' = <<x>>
  BY <1>2
<1>3. CASE todo' = <<"status", "stopLogin">>
  BY <1>3
<1> QED BY <1>1, <1>2, <1>3

(* The command under way is not touched; slots may become free.             *)
LEMMA SameCommand ==
  ASSUME CommandInv, todo' = todo,
         terminal' = NoProcess \/ (terminal' = terminal /\ (terminal \in stopping => terminal \in stopping')),
         attempt' = NoProcess \/ (attempt' = attempt /\ (attempt \in stopping => attempt \in stopping'))
  PROVE  CommandInv'
BY DEF CommandInv, Frees, Single, Awaits

(* Its first step is over: what it was to free is free.                     *)
LEMMA StepDone ==
  ASSUME CommandInv, todo \in Seq(Steps), todo # <<>>, todo' = Tail(todo), UNCHANGED <<terminal, attempt>>,
         todo[1] \in StopsTerminal => terminal = NoProcess,
         todo[1] \in StopsLogin => attempt = NoProcess
  PROVE  CommandInv' /\ todo' \in Seq(Steps)
<1>1. /\ Len(todo) \in Nat \ {0} /\ Len(todo') = Len(todo) - 1 /\ todo' \in Seq(Steps)
      /\ \A i \in 1..Len(todo') : todo'[i] = todo[i + 1]
  OBVIOUS
<1>2. Frees(todo)'
  <2>1. ASSUME NEW i \in 1..Len(todo'), NEW k \in 1..((i + 1) - 1), k # 1
        PROVE  k - 1 \in 1..(i - 1) /\ todo'[k - 1] = todo[k]
    BY <1>1, <2>1
  <2>2. ASSUME NEW i \in 1..Len(todo'), todo'[i] \in Starts \union {"login"}, terminal # NoProcess
        PROVE  \E k \in 1..(i - 1) : todo'[k] \in StopsTerminal
    <3>1. PICK k \in 1..((i + 1) - 1) : todo[k] \in StopsTerminal
      BY <1>1, <2>2 DEF CommandInv, Frees
    <3> QED BY <2>1, <2>2, <3>1
  <2>3. ASSUME NEW i \in 1..Len(todo'), todo'[i] \in Starts, attempt # NoProcess
        PROVE  \E k \in 1..(i - 1) : todo'[k] \in StopsLogin
    <3>1. PICK k \in 1..((i + 1) - 1) : todo[k] \in StopsLogin
      BY <1>1, <2>3 DEF CommandInv, Frees
    <3> QED BY <2>1, <2>3, <3>1
  <2> QED BY <2>2, <2>3 DEF Frees
<1>3. Single(todo)' /\ Awaits(todo)'
  <2>1. \A i \in 1..Len(todo') : todo'[i] \notin {"terminalStops", "loginStops"}
    BY <1>1 DEF CommandInv, Single
  <2>2. \A i, j \in 1..Len(todo') : todo'[i] \in Starts /\ i < j => todo'[j] \notin Starts \union {"login"}
    <3>1. ASSUME NEW i \in 1..Len(todo'), NEW j \in 1..Len(todo'), todo'[i] \in Starts, i < j
          PROVE  todo'[j] \notin Starts \union {"login"}
      <4>1. i + 1 \in 1..Len(todo) /\ j + 1 \in 1..Len(todo) /\ i + 1 < j + 1
        BY <1>1, <3>1
      <4> QED BY <1>1, <3>1, <4>1 DEF CommandInv, Single
    <3> QED BY <3>1
  <2>3. todo' # <<>> => 1 \in 1..Len(todo')
    BY <1>1
  <2> QED BY <1>1, <2>1, <2>2, <2>3 DEF Single, Awaits
<1> QED BY <1>1, <1>2, <1>3 DEF CommandInv

(* Its first step has become the wait for a stop.                           *)
LEMMA StopAwaited ==
  ASSUME CommandInv, todo \in Seq(Steps), todo # <<>>, NEW x \in {"terminalStops", "loginStops"},
         todo' = <<x>> \o Tail(todo), Awaits(todo)',
         \/ UNCHANGED <<terminal, attempt>> /\ x = "terminalStops" /\ todo[1] = "stopTerminal"
         \/ UNCHANGED <<terminal, attempt>> /\ x = "loginStops" /\ todo[1] = "stopLogin"
         \/ todo[1] = "startLogin"
  PROVE  CommandInv' /\ todo' \in Seq(Steps)
<1>1. /\ Len(todo) \in Nat \ {0} /\ Len(todo') = Len(todo) /\ todo' \in Seq(Steps) /\ todo'[1] = x
      /\ \A i \in 2..Len(todo) : todo'[i] = todo[i]
  BY DEF Steps
<1>2. x \notin Starts \union {"login"} /\ todo[1] \in {"stopTerminal", "stopLogin", "startLogin"}
  BY DEF Starts
<1>3. Single(todo)'
  BY <1>1, <1>2 DEF Single, CommandInv
<1>4. CASE todo[1] = "startLogin"
  <2>1. \A i \in 1..Len(todo') : todo'[i] \notin Starts \union {"login"}
    BY <1>1, <1>2, <1>4 DEF CommandInv, Single, Starts
  <2> QED BY <1>1, <1>3, <2>1 DEF CommandInv, Frees
<1>5. CASE todo[1] # "startLogin"
  <2>1. UNCHANGED <<terminal, attempt>> /\ \A i \in 1..Len(todo') :
          /\ todo'[i] \in Starts \union {"login"} => i >= 2
          /\ todo[i] \in StopsTerminal => todo'[i] \in StopsTerminal
          /\ todo[i] \in StopsLogin => todo'[i] \in StopsLogin
    BY <1>1, <1>2, <1>5 DEF StopsTerminal, StopsLogin
  <2>2. \A i \in 1..Len(todo') : \A k \in 1..(i - 1) : k \in 1..Len(todo')
    BY <1>1
  <2>3. Frees(todo)'
    BY <1>1, <2>1, <2>2, SMTT(30) DEF CommandInv, Frees
  <2> QED BY <1>1, <1>3, <2>3 DEF CommandInv
<1> QED BY <1>4, <1>5

(* The slots: what is told to stop keeps its slot until it has closed.      *)
LEMMA StopKeepsSlots ==
  ASSUME LoginsTypeOK, SlotInv, NEW P \in SUBSET Process, \A p \in P : process[p] # "new", Stop(P),
         UNCHANGED <<terminal, attempt, logins>>
  PROVE  /\ SlotInv' /\ process' \in [Process -> {"new", "live", "termed", "killed", "closed"}]
         /\ stopping' \subseteq Process /\ stopping \subseteq stopping'
<1>1. \A p \in Process : process'[p] = IF p \in P /\ process[p] = "live" THEN "termed" ELSE process[p]
  BY DEF Stop, Termed
<1> QED BY <1>1 DEF SlotInv, LoginsTypeOK, Stop, Termed

(* A step that touches no process leaves the slots as they are. *)
LEMMA SlotsStay ==
  ASSUME SlotInv, UNCHANGED <<process, terminal, attempt, logins, stopping>>
  PROVE  SlotInv'
BY DEF SlotInv

-----------------------------------------------------------------------------

(* An auth command frees the slot before it starts a process of its own. *)
LEMMA CommandSteps ==
  ASSUME LoginsInv, Command \/ LoginSteps
  PROVE  LoginsInv'
<1> USE DEF LoginsInv
<1>1. todo \in Seq(Steps) /\ LoginsTypeOK /\ SlotInv /\ CommandInv
  BY DEF LoginsTypeOK
<1>2. todo # <<>> => Head(todo) = todo[1]
  BY <1>1
<1>3. ASSUME CommandInv', todo' \in Seq(Steps), commands' \in 0..MaxCommands,
             UNCHANGED <<process, slots, marks, stopping, ended>>
      PROVE  LoginsInv'
  BY <1>3, SlotsStay DEF slots, marks, LoginsTypeOK
<1>4. CASE Command
  <2>1. commands' \in 0..MaxCommands /\ UNCHANGED <<process, slots, marks, stopping, ended>>
    BY <1>4, LoginAssumption DEF Command, LoginsTypeOK
  <2>2. CASE todo' \in Programs
    <3>1. todo' \in Seq(Steps) /\ Single(todo)' /\ Frees(todo)'
      BY <2>2, ProgramsAreSound DEF Single, Frees
    <3>2. Awaits(todo)'
      BY <2>1, <2>2, ProgramsAreSound DEF Awaits, slots
    <3> QED BY <1>3, <2>1, <3>1, <3>2 DEF CommandInv
  <2>3. CASE todo' \in Submitted
    BY <1>3, <2>1, <2>3, PlainCommand DEF Submitted
  <2> QED BY <1>4, <2>2, <2>3 DEF Command
<1>5. CASE Decide
  <2>1. UNCHANGED <<process, slots, marks, stopping, commands, ended>>
    BY <1>5 DEF Decide
  <2>2. CASE todo' = <<>> \/ todo' = <<"prompt">>
    BY <1>1, <1>3, <2>1, <2>2, PlainCommand DEF LoginsTypeOK
  <2>3. CASE todo # <<>> /\ Head(todo) = "admit" /\ todo' = Tail(todo)
    <3>1. todo[1] \notin StopsTerminal \union StopsLogin
      BY <1>2, <2>3 DEF StopsTerminal, StopsLogin
    <3> QED BY <1>1, <1>3, <2>1, <2>3, <3>1, StepDone DEF LoginsTypeOK, slots
  <2>4. CASE /\ todo # <<>> /\ Head(todo) = "login" /\ terminal = NoProcess
             /\ todo' = <<"stopLogin", "status", "startLogin", "prompt">>
    <3>1. todo' \in Seq(Steps) /\ CommandInv'
      BY <2>1, <2>4 DEF CommandInv, Frees, Single, Awaits, Starts, StopsTerminal, StopsLogin, Steps, slots
    <3> QED BY <1>1, <1>3, <2>1, <3>1 DEF LoginsTypeOK
  <2>5. todo # <<>> /\ Head(todo) = "login" => terminal = NoProcess
    <3>1. todo # <<>> => 1 \in 1..Len(todo) /\ 1..(1 - 1) = {}
      BY <1>1
    <3> QED BY <1>1, <1>2, <3>1 DEF CommandInv, Frees
  <2> QED BY <1>5, <2>2, <2>3, <2>4, <2>5 DEF Decide
<1>6. CASE BeginStop
  <2>1. UNCHANGED <<slots, marks, commands, ended>> /\ todo # <<>>
    BY <1>6 DEF BeginStop
  <2>2. CASE /\ UNCHANGED <<process, stopping>> /\ todo' = Tail(todo)
             /\ \/ Head(todo) = "stopTerminal" /\ terminal = NoProcess
                \/ Head(todo) = "stopLogin" /\ attempt = NoProcess
    <3>1. /\ todo[1] \in StopsTerminal => terminal = NoProcess
          /\ todo[1] \in StopsLogin => attempt = NoProcess
      BY <1>2, <2>1, <2>2 DEF StopsTerminal, StopsLogin
    <3> QED BY <1>1, <1>3, <2>1, <2>2, <3>1, StepDone DEF LoginsTypeOK, slots
  <2>3. CASE Head(todo) = "stopTerminal" /\ terminal # NoProcess /\ Stop({terminal})
             /\ todo' = <<"terminalStops">> \o Tail(todo)
    <3>1. {terminal} \in SUBSET Process /\ process[terminal] # "new"
      BY <1>1, <2>3 DEF LoginsTypeOK, SlotInv
    <3>2. /\ SlotInv' /\ process' \in [Process -> {"new", "live", "termed", "killed", "closed"}]
          /\ stopping' \subseteq Process
      BY <1>1, <2>1, <2>3, <3>1, StopKeepsSlots DEF slots, marks
    <3>3. Awaits(todo)'
      BY <1>1, <2>1, <2>3 DEF Awaits, Stop, slots
    <3>4. CommandInv' /\ todo' \in Seq(Steps)
      BY <1>1, <1>2, <2>1, <2>3, <3>3, StopAwaited DEF slots
    <3> QED BY <1>1, <2>1, <3>2, <3>4 DEF LoginsTypeOK, slots, marks
  <2>4. CASE Head(todo) = "stopLogin" /\ attempt # NoProcess /\ Stop({attempt})
             /\ todo' = <<"loginStops">> \o Tail(todo)
    <3>1. {attempt} \in SUBSET Process /\ process[attempt] # "new"
      BY <1>1, <2>4 DEF LoginsTypeOK, SlotInv
    <3>2. /\ SlotInv' /\ process' \in [Process -> {"new", "live", "termed", "killed", "closed"}]
          /\ stopping' \subseteq Process
      BY <1>1, <2>1, <2>4, <3>1, StopKeepsSlots DEF slots, marks
    <3>3. Awaits(todo)'
      BY <1>1, <2>1, <2>4 DEF Awaits, Stop, slots
    <3>4. CommandInv' /\ todo' \in Seq(Steps)
      BY <1>1, <1>2, <2>1, <2>4, <3>3, StopAwaited DEF slots
    <3> QED BY <1>1, <2>1, <3>2, <3>4 DEF LoginsTypeOK, slots, marks
  <2> QED BY <1>6, <2>2, <2>3, <2>4 DEF BeginStop
<1>7. CASE StopsAwaited
  <2>1. UNCHANGED <<process, slots, marks, stopping, commands, ended>> /\ todo # <<>> /\ todo' = Tail(todo)
    BY <1>7 DEF StopsAwaited
  <2>2. /\ todo[1] \in StopsTerminal => terminal = NoProcess
        /\ todo[1] \in StopsLogin => attempt = NoProcess
    BY <1>1, <1>2, <1>7 DEF StopsAwaited, CommandInv, Awaits, SlotInv, StopsTerminal, StopsLogin
  <2> QED BY <1>1, <1>3, <2>1, <2>2, StepDone DEF LoginsTypeOK, slots
<1>8. CASE Status
  <2>1. UNCHANGED <<process, slots, marks, stopping, commands, ended>> /\ todo # <<>>
        /\ todo' \in {Tail(todo), <<>>} /\ todo[1] \notin StopsTerminal \union StopsLogin
    BY <1>2, <1>8 DEF Status, StopsTerminal, StopsLogin
  <2>2. CASE todo' = <<>>
    BY <1>1, <1>3, <2>1, <2>2, PlainCommand DEF LoginsTypeOK
  <2>3. CASE todo' = Tail(todo)
    BY <1>1, <1>3, <2>1, <2>3, StepDone DEF LoginsTypeOK, slots
  <2> QED BY <2>1, <2>2, <2>3
<1>9. CASE SpawnFails \/ Prompt \/ Write \/ Answer
  <2>1. UNCHANGED <<process, slots, marks, stopping, commands, ended>>
        /\ todo' \in {<<>>, <<"stopLogin">>, <<"answer">>, <<"status", "stopLogin">>}
    BY <1>9 DEF SpawnFails, Prompt, Write, Answer
  <2> QED BY <1>1, <1>3, <2>1, PlainCommand DEF LoginsTypeOK
<1> QED BY <1>4, <1>5, <1>6, <1>7, <1>8, <1>9 DEF LoginSteps

(* A spawned process is known before anything can go wrong with it. *)
LEMMA SpawnSteps ==
  ASSUME LoginsInv, NEW p \in Process, Spawn(p)
  PROVE  LoginsInv'
<1> USE DEF LoginsInv
<1>1. /\ LoginsTypeOK /\ SlotInv /\ CommandInv /\ todo \in Seq(Steps) /\ todo # <<>> /\ todo[1] \in Starts
      /\ Head(todo) = todo[1] /\ process[p] = "new" /\ p # NoProcess
      /\ UNCHANGED <<attached, prompted, failed, commands, ended>>
  BY LoginAssumption DEF Spawn, LoginsTypeOK, Starts
<1>2. terminal = NoProcess /\ attempt = NoProcess
  <2>1. 1 \in 1..Len(todo) /\ 1..(1 - 1) = {}
    BY <1>1
  <2> QED BY <1>1, <2>1 DEF CommandInv, Frees
<1>3. p \notin logins \union stopping /\ \A q \in Process : process[q] \notin {"live", "termed"}
  BY <1>1, <1>2, LoginAssumption DEF SlotInv
<1>4. CASE /\ terminal' = p /\ process' = [process EXCEPT ![p] = "live"] /\ todo' = <<>>
           /\ UNCHANGED <<attempt, logins, stopping>>
  <2>1. SlotInv'
    BY <1>1, <1>2, <1>3, <1>4 DEF SlotInv, LoginsTypeOK
  <2> QED BY <1>1, <1>4, <2>1, PlainCommand DEF LoginsTypeOK
<1>5. CASE /\ attempt' = p /\ logins' = logins \union {p} /\ UNCHANGED terminal /\ todo[1] = "startLogin"
           /\ process' = [process EXCEPT ![p] = IF ended THEN "termed" ELSE "live"]
           /\ stopping' = IF ended THEN stopping \union {p} ELSE stopping
           /\ todo' = IF ended THEN <<"loginStops">> \o Tail(todo) ELSE Tail(todo)
  <2>1. SlotInv'
    BY <1>1, <1>2, <1>3, <1>5 DEF SlotInv, LoginsTypeOK
  <2>2. /\ process' \in [Process -> {"new", "live", "termed", "killed", "closed"}]
        /\ stopping' \subseteq Process /\ logins' \subseteq Process /\ attempt' \in Process
    BY <1>1, <1>5 DEF LoginsTypeOK
  <2>3. CASE ended
    <3>1. Awaits(todo)'
      BY <1>1, <1>5, <2>3 DEF Awaits
    <3> QED BY <1>1, <1>5, <2>1, <2>2, <2>3, <3>1, StopAwaited DEF LoginsTypeOK
  <2>4. CASE ~ended
    <3>1. /\ todo' \in Seq(Steps) /\ Len(todo') = Len(todo) - 1 /\ Len(todo) \in Nat
          /\ \A i \in 1..Len(todo') : todo'[i] = todo[i + 1]
      BY <1>1, <1>5, <2>4
    <3>2. \A i \in 1..Len(todo') : todo'[i] \notin Starts \union {"login", "terminalStops", "loginStops"}
      BY <1>1, <3>1 DEF CommandInv, Single
    <3>3. todo' # <<>> => 1 \in 1..Len(todo')
      BY <3>1
    <3>4. CommandInv'
      BY <3>1, <3>2, <3>3 DEF CommandInv, Frees, Single, Awaits
    <3> QED BY <1>1, <1>5, <2>1, <2>2, <3>1, <3>4 DEF LoginsTypeOK
  <2> QED BY <2>3, <2>4
<1> QED BY <1>1, <1>4, <1>5 DEF Spawn

(* A process that exits, is stopped or times out leaves its own slot *)
(* only.                                                             *)
LEMMA ProcessSteps ==
  ASSUME LoginsInv, NEW p \in Process,
         \/ Stopped(p) \/ Output(p) \/ Closes(p) \/ GraceEnds(p) \/ Attach(p) \/ Detach(p)
         \/ TerminalTimer(p) \/ LoginTimer(p)
  PROVE  LoginsInv'
<1> USE DEF LoginsInv
<1>1. LoginsTypeOK /\ SlotInv /\ CommandInv /\ todo \in Seq(Steps) /\ NoProcess \notin Process
  BY LoginAssumption DEF LoginsTypeOK
<1>2. CASE Stopped(p)
  <2>1. /\ stopping' = stopping \ {p} /\ UNCHANGED <<process, marks, control>>
        /\ terminal' = (IF terminal = p THEN NoProcess ELSE terminal)
        /\ attempt' = (IF attempt = p THEN NoProcess ELSE attempt)
        /\ process[p] \notin {"live", "termed"}
    BY <1>2 DEF Stopped
  <2>2. SlotInv'
    BY <1>1, <2>1 DEF SlotInv, marks
  <2>3. /\ terminal' = NoProcess \/ (terminal' = terminal /\ (terminal \in stopping => terminal \in stopping'))
        /\ attempt' = NoProcess \/ (attempt' = attempt /\ (attempt \in stopping => attempt \in stopping'))
    BY <2>1
  <2>4. CommandInv'
    BY <1>1, <2>1, <2>3, SameCommand DEF control
  <2> QED BY <1>1, <2>1, <2>2, <2>4 DEF LoginsTypeOK, marks, control
<1>3. CASE Output(p)
  <2>1. /\ UNCHANGED <<slots, logins, attached, commands, ended>> /\ process[p] # "new"
        /\ prompted' \subseteq Process /\ failed' \subseteq Process
        /\ \/ UNCHANGED <<process, stopping>> /\ todo' \in {todo, <<>>}
           \/ Stop({p}) /\ UNCHANGED todo
    BY <1>1, <1>3 DEF Output, Alive, LoginsTypeOK
  <2>2. /\ SlotInv' /\ process' \in [Process -> {"new", "live", "termed", "killed", "closed"}]
        /\ stopping' \subseteq Process /\ stopping \subseteq stopping'
    BY <1>1, <2>1, StopKeepsSlots, SlotsStay DEF slots, LoginsTypeOK
  <2>3. CommandInv' /\ todo' \in Seq(Steps)
    BY <1>1, <2>1, <2>2, SameCommand, PlainCommand DEF slots
  <2> QED BY <1>1, <2>1, <2>2, <2>3 DEF LoginsTypeOK, slots
<1>4. CASE Closes(p) \/ GraceEnds(p)
  <2>1. PICK x \in {"closed", "killed"} : process' = [process EXCEPT ![p] = x]
    BY <1>4 DEF Closes, GraceEnds
  <2>2. /\ UNCHANGED <<attempt, marks, stopping, control>> /\ process[p] # "new"
        /\ terminal' \in {terminal, NoProcess} /\ (terminal' # terminal => terminal = p)
    BY <1>4 DEF Closes, GraceEnds, slots, Alive
  <2>3. \A q \in Process : process'[q] = IF q = p THEN x ELSE process[q]
    BY <1>1, <2>1 DEF LoginsTypeOK
  <2>4. SlotInv'
    BY <1>1, <2>2, <2>3 DEF SlotInv, LoginsTypeOK, marks
  <2>5. CommandInv'
    BY <1>1, <2>2, SameCommand DEF control
  <2> QED BY <1>1, <2>1, <2>2, <2>4, <2>5 DEF LoginsTypeOK, marks, control
<1>5. CASE Attach(p)
  BY <1>1, <1>5, SlotsStay, SameCommand DEF Attach, LoginsTypeOK, slots, control
<1>6. CASE Detach(p) \/ LoginTimer(p)
  <2>1. Stop({p}) /\ UNCHANGED <<slots, marks, control>> /\ process[p] # "new"
    BY <1>1, <1>6 DEF Detach, LoginTimer, SlotInv
  <2>2. /\ SlotInv' /\ process' \in [Process -> {"new", "live", "termed", "killed", "closed"}]
        /\ stopping' \subseteq Process /\ stopping \subseteq stopping'
    BY <1>1, <2>1, StopKeepsSlots DEF slots, marks
  <2>3. CommandInv'
    BY <1>1, <2>1, <2>2, SameCommand DEF slots, control
  <2> QED BY <1>1, <2>1, <2>2, <2>3 DEF LoginsTypeOK, slots, marks, control
<1>7. CASE TerminalTimer(p)
  <2>1. \A q \in Process : process'[q] = IF q = p /\ process[q] = "live" THEN "termed" ELSE process[q]
    BY <1>7 DEF TerminalTimer, Termed
  <2>2. process' \in [Process -> {"new", "live", "termed", "killed", "closed"}]
    BY <1>1, <1>7 DEF TerminalTimer, Termed, LoginsTypeOK
  <2>3. UNCHANGED <<slots, marks, stopping, control>>
    BY <1>7 DEF TerminalTimer
  <2>4. SlotInv'
    BY <1>1, <2>1, <2>3 DEF SlotInv, LoginsTypeOK, slots, marks
  <2> QED BY <1>1, <2>2, <2>3, <2>4, SameCommand DEF LoginsTypeOK, slots, marks, control
<1> QED BY <1>2, <1>3, <1>4, <1>5, <1>6, <1>7

(* Every step of the logins preserves the invariant. *)
LEMMA LoginsKeeps == LoginsInv /\ [LoginsNext]_loginVars => LoginsInv'
<1> SUFFICES ASSUME LoginsInv, [LoginsNext]_loginVars PROVE LoginsInv'
  OBVIOUS
<1>1. LoginsTypeOK /\ SlotInv /\ CommandInv
  BY DEF LoginsInv
<1>2. CASE LifetimeEnds
  <2>1. Stop({terminal, attempt} \ {NoProcess}) /\ UNCHANGED <<slots, marks, todo, commands>> /\ ended' = TRUE
    BY <1>2 DEF LifetimeEnds
  <2>2. /\ {terminal, attempt} \ {NoProcess} \in SUBSET Process
        /\ \A p \in {terminal, attempt} \ {NoProcess} : process[p] # "new"
    BY <1>1 DEF LoginsTypeOK, SlotInv
  <2>3. /\ SlotInv' /\ process' \in [Process -> {"new", "live", "termed", "killed", "closed"}]
        /\ stopping' \subseteq Process /\ stopping \subseteq stopping'
    BY <1>1, <2>1, <2>2, StopKeepsSlots DEF slots, marks
  <2>4. CommandInv'
    BY <1>1, <2>1, <2>3, SameCommand DEF slots
  <2> QED BY <1>1, <2>1, <2>3, <2>4 DEF LoginsInv, LoginsTypeOK, slots, marks
<1>3. CASE UNCHANGED loginVars
  BY <1>1, <1>3, SlotsStay, SameCommand DEF LoginsInv, LoginsTypeOK, loginVars
<1> QED BY <1>2, <1>3, CommandSteps, SpawnSteps, ProcessSteps DEF LoginsNext

(* auth-terminal.ts and auth-code-login.ts: at most one login, and the one  *)
(* that runs is known.                                                      *)
THEOREM LoginsAreKnown == LoginsSpec => []LoginIsKnown
<1>1. LoginsInv => LoginIsKnown
  <2> SUFFICES ASSUME LoginsInv PROVE LoginIsKnown
    OBVIOUS
  <2>1. RunningLoginIsHeld
    BY DEF LoginsInv, SlotInv, RunningLoginIsHeld, Alive
  <2>2. OneLogin
    BY LoginAssumption DEF LoginsInv, SlotInv, OneLogin
  <2> QED BY <2>1, <2>2 DEF LoginIsKnown
<1> QED BY LoginsStart, LoginsKeeps, <1>1, PTL DEF LoginsSpec

-----------------------------------------------------------------------------
(* The bridge of a login terminal: keystrokes in their order.               *)

(* Keystrokes on their way are consecutive; Acknowledged of them are done with. *)
Consecutive(s, from) == \A i \in 1..Len(s) : s[i] = from + i
Acknowledged == typed - (Len(posts) + Len(unparsed) + Len(outgoing))
PipeInv ==
  /\ Acknowledged \in Nat
  /\ Consecutive(posts, Acknowledged)
  /\ Consecutive(unparsed, Acknowledged + Len(posts))
  /\ Consecutive(outgoing, Acknowledged + Len(posts) + Len(unparsed))
  /\ Len(received) \in {Acknowledged, Acknowledged + 1}
  /\ posts = <<>> => Len(received) = Acknowledged
BridgeInv ==
  /\ BridgeTypeOK /\ BacklogIsBounded
  /\ ~paused => Len(posts) < MAX_PENDING_INPUTS
  /\ Consecutive(received, 0)
  /\ open => PipeInv

(* The bridge's queues hold messages and have lengths. *)
LEMMA BridgeTypes ==
  ASSUME BridgeTypeOK
  PROVE  /\ outgoing \in Seq(1..MaxMessages) /\ unparsed \in Seq(1..MaxMessages)
         /\ posts \in Seq(1..MaxMessages) /\ received \in Seq(1..MaxMessages)
         /\ Len(outgoing) \in Nat /\ Len(unparsed) \in Nat /\ Len(posts) \in Nat /\ Len(received) \in Nat
         /\ typed \in Nat /\ MAX_PENDING_INPUTS \in Nat \ {0} /\ RESUME_PENDING_INPUTS \in Nat
         /\ RESUME_PENDING_INPUTS < MAX_PENDING_INPUTS
<1>1. /\ outgoing \in Seq(1..MaxMessages) /\ unparsed \in Seq(1..MaxMessages)
      /\ posts \in Seq(1..MaxMessages) /\ received \in Seq(1..MaxMessages)
  BY DEF BridgeTypeOK
<1>2. typed \in Nat
  BY DEF BridgeTypeOK
<1> QED BY <1>1, <1>2, BridgeAssumption

(* Two runs of consecutive messages join to one. *)
LEMMA JoinedRuns ==
  ASSUME NEW S, NEW s \in Seq(S), NEW t \in Seq(S), NEW a \in Nat,
         Consecutive(s, a), Consecutive(t, a + Len(s))
  PROVE  Consecutive(s \o t, a)
<1>1. Len(s \o t) = Len(s) + Len(t) /\ Len(s) \in Nat /\ Len(t) \in Nat
  OBVIOUS
<1>2. ASSUME NEW i \in 1..Len(s \o t) PROVE (s \o t)[i] = a + i
  <2>1. CASE i <= Len(s)
    BY <1>1, <1>2, <2>1 DEF Consecutive
  <2>2. CASE i > Len(s)
    <3>1. i - Len(s) \in 1..Len(t) /\ (s \o t)[i] = t[i - Len(s)]
      BY <1>1, <1>2, <2>2
    <3>2. t[i - Len(s)] = (a + Len(s)) + (i - Len(s))
      BY <3>1 DEF Consecutive
    <3> QED BY <1>1, <1>2, <3>1, <3>2
  <2> QED BY <1>1, <1>2, <2>1, <2>2
<1> QED BY <1>2 DEF Consecutive

(* A run of consecutive messages splits into two anywhere. *)
LEMMA SplitRuns ==
  ASSUME NEW S, NEW s \in Seq(S), NEW a \in Nat, NEW n \in 0..Len(s), Consecutive(s, a)
  PROVE  /\ SubSeq(s, 1, n) \in Seq(S) /\ Len(SubSeq(s, 1, n)) = n
         /\ SubSeq(s, n + 1, Len(s)) \in Seq(S) /\ Len(SubSeq(s, n + 1, Len(s))) = Len(s) - n
         /\ Consecutive(SubSeq(s, 1, n), a) /\ Consecutive(SubSeq(s, n + 1, Len(s)), a + n)
<1> DEFINE front == SubSeq(s, 1, n)
           back  == SubSeq(s, n + 1, Len(s))
<1>1. Len(s) \in Nat /\ \A i \in 1..Len(s) : s[i] \in S
  OBVIOUS
<1>2. front \in Seq(S) /\ Len(front) = n /\ \A i \in 1..n : front[i] = s[i]
  <2>1. \A i \in 1..n : s[i] \in S
    BY <1>1
  <2> QED BY <1>1, <2>1, SubSeqProperties
<1>3. back \in Seq(S) /\ Len(back) = Len(s) - n /\ \A i \in 1..Len(s) - n : back[i] = s[n + i]
  <2>1. \A i \in n + 1..Len(s) : s[i] \in S
    BY <1>1
  <2> QED BY <1>1, <2>1, SubSeqProperties
<1> HIDE DEF front, back
<1>4. Consecutive(front, a)
  BY <1>1, <1>2 DEF Consecutive
<1>5. Consecutive(back, a + n)
  <2>1. ASSUME NEW i \in 1..Len(back) PROVE back[i] = a + n + i
    <3>1. n + i \in 1..Len(s) /\ back[i] = s[n + i]
      BY <1>1, <1>3, <2>1
    <3> QED BY <3>1 DEF Consecutive
  <2> QED BY <2>1 DEF Consecutive
<1> QED BY <1>2, <1>3, <1>4, <1>5 DEF front, back

(* A bridge that has just connected satisfies the invariant. *)
LEMMA BridgeStarts == BridgeInit => BridgeInv
<1> SUFFICES ASSUME BridgeInit PROVE BridgeInv
  OBVIOUS
<1>1. BridgeTypeOK
  <2>1. <<>> \in Seq(1..MaxMessages)
    OBVIOUS
  <2>2. /\ outgoing \in Seq(1..MaxMessages) /\ unparsed \in Seq(1..MaxMessages)
        /\ posts \in Seq(1..MaxMessages) /\ received \in Seq(1..MaxMessages)
    BY <2>1 DEF BridgeInit
  <2>3. typed \in 0..MaxMessages /\ paused \in BOOLEAN /\ parseDue \in BOOLEAN /\ open \in BOOLEAN
    <3>1. typed \in 0..MaxMessages
      BY BridgeAssumption DEF BridgeInit
    <3>2. paused \in BOOLEAN /\ parseDue \in BOOLEAN /\ open \in BOOLEAN
      BY DEF BridgeInit
    <3> QED BY <3>1, <3>2
  <2> QED BY <2>2, <2>3 DEF BridgeTypeOK
<1>2. /\ Len(outgoing) = 0 /\ Len(unparsed) = 0 /\ Len(posts) = 0 /\ Len(received) = 0 /\ typed = 0
  BY DEF BridgeInit
<1>3. PipeInv /\ Consecutive(received, 0)
  BY <1>2 DEF PipeInv, Acknowledged, Consecutive
<1>4. Len(posts) < MAX_PENDING_INPUTS
  BY <1>1, <1>2, BridgeTypes
<1> QED BY <1>1, <1>2, <1>3, <1>4, BridgeAssumption DEF BridgeInv, BacklogIsBounded

(* parse() moves what it has room for from its bytes to the posts.          *)
LEMMA ParseMoves ==
  ASSUME BridgeTypeOK, BacklogIsBounded, ~paused => Len(posts) < MAX_PENDING_INPUTS, ~paused,
         NEW bytes \in Seq(1..MaxMessages), NEW a \in Nat,
         Consecutive(posts, a), Consecutive(bytes, a + Len(posts)), Parse(bytes)
  PROVE  /\ posts' \in Seq(1..MaxMessages) /\ unparsed' \in Seq(1..MaxMessages) /\ paused' \in BOOLEAN
         /\ Len(posts') <= MAX_PENDING_INPUTS /\ (~paused' => Len(posts') < MAX_PENDING_INPUTS)
         /\ Len(posts') >= Len(posts) /\ Len(posts') + Len(unparsed') = Len(posts) + Len(bytes)
         /\ Len(posts') \in Nat /\ Len(unparsed') \in Nat
         /\ Consecutive(posts', a) /\ Consecutive(unparsed', a + Len(posts'))
<1> DEFINE n == IF Len(bytes) < Room THEN Len(bytes) ELSE Room
<1> USE BridgeTypes
<1>1. Len(bytes) \in Nat /\ Room \in Nat /\ Room = MAX_PENDING_INPUTS - Len(posts) /\ Room > 0
  BY DEF Room, BacklogIsBounded
<1>2. n \in 0..Len(bytes) /\ n <= Room
  BY <1>1
<1>3. /\ posts' = posts \o SubSeq(bytes, 1, n)
      /\ unparsed' = SubSeq(bytes, n + 1, Len(bytes))
      /\ paused' = (n = Room)
  BY DEF Parse
<1> HIDE DEF n
<1>4. a + Len(posts) \in Nat /\ MaxMessages \in Nat
  BY BridgeAssumption
<1> DEFINE from == a + Len(posts)
           front == SubSeq(bytes, 1, n)
           back == SubSeq(bytes, n + 1, Len(bytes))
<1> HIDE DEF from
<1>5. from \in Nat /\ Consecutive(bytes, from)
  BY <1>4 DEF from
<1>6. /\ front \in Seq(1..MaxMessages) /\ Len(front) = n
      /\ back \in Seq(1..MaxMessages) /\ Len(back) = Len(bytes) - n
      /\ Consecutive(front, from) /\ Consecutive(back, from + n)
  BY <1>2, <1>5, SplitRuns
<1> HIDE DEF front, back
<1>7. posts' = posts \o front /\ unparsed' = back
  BY <1>3 DEF front, back
<1>8. posts' \in Seq(1..MaxMessages) /\ Len(posts') = Len(posts) + n
  BY <1>2, <1>6, <1>7, BridgeTypes, ConcatProperties
<1>9. Consecutive(posts', a)
  <2>1. Consecutive(front, a + Len(posts))
    BY <1>6 DEF from
  <2> QED BY <1>6, <1>7, <2>1, JoinedRuns
<1>10. Consecutive(unparsed', a + Len(posts'))
  <2>1. a + Len(posts') = from + n
    BY <1>2, <1>8 DEF from
  <2> QED BY <1>6, <1>7, <2>1
<1>11. /\ Len(posts') <= MAX_PENDING_INPUTS /\ (~paused' => Len(posts') < MAX_PENDING_INPUTS)
       /\ Len(posts') >= Len(posts) /\ Len(posts') + Len(unparsed') = Len(posts) + Len(bytes)
       /\ Len(posts') \in Nat /\ Len(unparsed') \in Nat
  <2>1. Len(posts') = Len(posts) + n /\ Len(unparsed') = Len(bytes) - n /\ n \in Nat
    BY <1>2, <1>6, <1>7, <1>8
  <2>2. Len(posts) \in Nat /\ MAX_PENDING_INPUTS \in Nat /\ Len(bytes) \in Nat
    BY <1>1, BridgeTypes
  <2>3. ~paused' => n # Room
    BY <1>3
  <2> QED BY <1>1, <1>2, <2>1, <2>2, <2>3
<1> QED BY <1>3, <1>6, <1>7, <1>8, <1>9, <1>10, <1>11

(* A chunk from the socket moves messages to what is to be parsed. *)
LEMMA ChunkStep ==
  ASSUME BridgeInv, Chunk
  PROVE  BridgeInv'
<1>1. /\ BridgeTypeOK /\ BacklogIsBounded /\ Len(posts) < MAX_PENDING_INPUTS /\ Consecutive(received, 0)
      /\ PipeInv /\ ~paused /\ UNCHANGED <<typed, parseDue, open, received>> /\ open
  BY DEF BridgeInv, Chunk
<1>0. /\ outgoing \in Seq(1..MaxMessages) /\ unparsed \in Seq(1..MaxMessages)
      /\ posts \in Seq(1..MaxMessages) /\ received \in Seq(1..MaxMessages)
  BY <1>1, BridgeTypes
<1>14. /\ Len(outgoing) \in Nat /\ Len(unparsed) \in Nat /\ Len(posts) \in Nat
      /\ typed \in Nat /\ MAX_PENDING_INPUTS \in Nat /\ Len(received) \in Nat
  BY <1>1, BridgeTypes
<1>2. PICK n \in 1..Len(outgoing) :
        /\ Parse(unparsed \o SubSeq(outgoing, 1, n))
        /\ outgoing' = SubSeq(outgoing, n + 1, Len(outgoing))
  BY DEF Chunk
<1> DEFINE a == Acknowledged
           front == SubSeq(outgoing, 1, n)
           from == a + Len(posts) + Len(unparsed)
           bytes == unparsed \o front
<1>3. a \in Nat /\ from \in Nat /\ Consecutive(outgoing, from) /\ n \in 0..Len(outgoing)
  BY <1>14, <1>1, <1>2 DEF PipeInv
<1> HIDE DEF a, from
<1>4. /\ front \in Seq(1..MaxMessages) /\ Len(front) = n
      /\ outgoing' \in Seq(1..MaxMessages) /\ Len(outgoing') = Len(outgoing) - n
      /\ Consecutive(front, from) /\ Consecutive(outgoing', from + n)
  <2>1. outgoing \in Seq(1..MaxMessages)
    BY <1>0
  <2> DEFINE back == SubSeq(outgoing, n + 1, Len(outgoing))
  <2>2. /\ front \in Seq(1..MaxMessages) /\ Len(front) = n
        /\ back \in Seq(1..MaxMessages) /\ Len(back) = Len(outgoing) - n
        /\ Consecutive(front, from) /\ Consecutive(back, from + n)
    BY <1>3, <2>1, SplitRuns
  <2>3. outgoing' = back
    BY <1>2
  <2> HIDE DEF front, back
  <2> QED BY <2>2, <2>3
<1> HIDE DEF front
<1>5. bytes \in Seq(1..MaxMessages) /\ Len(bytes) = Len(unparsed) + n
  BY <1>0, <1>4, ConcatProperties
<1>6. Consecutive(bytes, a + Len(posts))
  <2>1. a + Len(posts) \in Nat /\ Consecutive(unparsed, a + Len(posts))
    BY <1>1, <1>3, <1>14 DEF PipeInv, a
  <2>2. Consecutive(front, (a + Len(posts)) + Len(unparsed))
    BY <1>4 DEF from
  <2> QED BY <1>0, <1>4, <2>1, <2>2, JoinedRuns
<1> HIDE DEF bytes
<1>7. Parse(bytes) /\ Consecutive(posts, a)
  BY <1>1, <1>2 DEF bytes, front, PipeInv, a
<1>8. /\ posts' \in Seq(1..MaxMessages) /\ unparsed' \in Seq(1..MaxMessages) /\ paused' \in BOOLEAN
      /\ Len(posts') <= MAX_PENDING_INPUTS /\ (~paused' => Len(posts') < MAX_PENDING_INPUTS)
      /\ Len(posts') >= Len(posts) /\ Len(posts') + Len(unparsed') = Len(posts) + Len(bytes)
      /\ Len(posts') \in Nat /\ Len(unparsed') \in Nat
      /\ Consecutive(posts', a) /\ Consecutive(unparsed', a + Len(posts'))
  BY <1>1, <1>3, <1>5, <1>6, <1>7, ParseMoves
<1>9. BridgeTypeOK'
  BY <1>1, <1>4, <1>8 DEF BridgeTypeOK
<1>10. Acknowledged' = a
  <2>1. Len(posts') + Len(unparsed') + Len(outgoing') = Len(posts) + Len(unparsed) + Len(outgoing)
    <3>1. Len(posts') + Len(unparsed') = Len(posts) + Len(unparsed) + n
      BY <1>5, <1>8
    <3>2. Len(outgoing') = Len(outgoing) - n /\ n \in Nat /\ Len(outgoing') \in Nat
      BY <1>3, <1>4
    <3>3. Len(posts') \in Nat /\ Len(unparsed') \in Nat
      BY <1>8
    <3> QED BY <1>14, <3>1, <3>2, <3>3
  <2>2. typed' = typed /\ typed \in Nat /\ Len(outgoing') \in Nat
    BY <1>1, <1>14, <1>3, <1>4
  <2>3. Len(posts') \in Nat /\ Len(unparsed') \in Nat
    BY <1>8
  <2> QED BY <1>14, <2>1, <2>2, <2>3 DEF Acknowledged, a
<1>11. from + n = a + Len(posts') + Len(unparsed')
  <2>1. Len(posts') + Len(unparsed') = Len(posts) + Len(unparsed) + n
    BY <1>5, <1>8
  <2>2. Len(posts') \in Nat /\ Len(unparsed') \in Nat /\ n \in Nat /\ a \in Nat
    BY <1>3, <1>8
  <2>3. from = a + Len(posts) + Len(unparsed)
    BY DEF from
  <2> QED BY <1>14, <2>1, <2>2, <2>3
<1>12. Len(received') \in {a, a + 1} /\ (posts' = <<>> => Len(received') = a)
  <2>1. posts' = <<>> => posts = <<>>
    BY <1>0, <1>14, <1>8
  <2> QED BY <1>1, <2>1 DEF PipeInv, a
<1>13. PipeInv'
  BY <1>3, <1>4, <1>8, <1>10, <1>11, <1>12 DEF PipeInv
<1> QED BY <1>1, <1>14, <1>8, <1>9, <1>13 DEF BridgeInv, BacklogIsBounded

(* Parsing moves messages to the posts until the socket is paused. *)
LEMMA ParseStep ==
  ASSUME BridgeInv, ParseJob
  PROVE  BridgeInv'
<1> USE BridgeTypes
<1>1. /\ BridgeTypeOK /\ BacklogIsBounded /\ Consecutive(received, 0)
      /\ (~paused => Len(posts) < MAX_PENDING_INPUTS) /\ (open => PipeInv)
      /\ parseDue' = FALSE /\ UNCHANGED <<typed, outgoing, open, received>>
  BY DEF BridgeInv, ParseJob
<1>0. /\ outgoing \in Seq(1..MaxMessages) /\ unparsed \in Seq(1..MaxMessages)
      /\ posts \in Seq(1..MaxMessages) /\ received \in Seq(1..MaxMessages)
      /\ Len(outgoing) \in Nat /\ Len(unparsed) \in Nat /\ Len(posts) \in Nat /\ Len(received) \in Nat
      /\ typed \in Nat /\ MAX_PENDING_INPUTS \in Nat
  BY <1>1
<1>2. CASE open /\ ~paused
  <2>1. Parse(unparsed) /\ Acknowledged \in Nat
    BY <1>1, <1>2 DEF ParseJob, PipeInv
  <2> DEFINE a == Acknowledged
  <2>2. Consecutive(posts, a) /\ Consecutive(unparsed, a + Len(posts))
    BY <1>1, <1>2 DEF PipeInv
  <2>3. a \in Nat
    BY <2>1
  <2> HIDE DEF a
  <2>4. /\ posts' \in Seq(1..MaxMessages) /\ unparsed' \in Seq(1..MaxMessages) /\ paused' \in BOOLEAN
        /\ Len(posts') <= MAX_PENDING_INPUTS /\ (~paused' => Len(posts') < MAX_PENDING_INPUTS)
        /\ Len(posts') >= Len(posts) /\ Len(posts') + Len(unparsed') = Len(posts) + Len(unparsed)
        /\ Len(posts') \in Nat /\ Len(unparsed') \in Nat
        /\ Consecutive(posts', a) /\ Consecutive(unparsed', a + Len(posts'))
    BY <1>1, <1>2, <2>1, <2>2, <2>3, ParseMoves
  <2>5. BridgeTypeOK'
    BY <1>1, <2>4 DEF BridgeTypeOK
  <2>6. Acknowledged' = a
    BY <1>1, <2>4, <2>5 DEF Acknowledged, a
  <2>7. a + Len(posts) + Len(unparsed) = a + Len(posts') + Len(unparsed')
    BY <1>0, <2>3, <2>4
  <2>8. Len(received') \in {a, a + 1} /\ (posts' = <<>> => Len(received') = a)
    <3>1. posts' = <<>> => posts = <<>>
      BY <1>1, <2>4
    <3> QED BY <1>1, <1>2, <3>1 DEF PipeInv, a
  <2>9. Consecutive(outgoing', a + Len(posts') + Len(unparsed'))
    BY <1>1, <1>2, <2>7 DEF PipeInv, a
  <2>10. PipeInv'
    BY <2>3, <2>4, <2>6, <2>8, <2>9 DEF PipeInv
  <2> QED BY <1>1, <2>4, <2>5, <2>10 DEF BridgeInv, BacklogIsBounded
<1>3. CASE ~(open /\ ~paused)
  <2>1. UNCHANGED <<posts, unparsed, paused>>
    BY <1>3 DEF ParseJob
  <2> QED BY <1>1, <2>1 DEF BridgeInv, BridgeTypeOK, BacklogIsBounded, PipeInv, Acknowledged
<1> QED BY <1>2, <1>3

(* A keystroke follows everything typed before it. *)
LEMMA TypeStep ==
  ASSUME BridgeInv, Type
  PROVE  BridgeInv'
<1> USE BridgeTypes
<1>1. /\ BridgeTypeOK /\ BacklogIsBounded /\ Consecutive(received, 0) /\ PipeInv
      /\ (~paused => Len(posts) < MAX_PENDING_INPUTS) /\ open /\ typed < MaxMessages
      /\ typed' = typed + 1 /\ outgoing' = Append(outgoing, typed + 1)
      /\ UNCHANGED <<unparsed, posts, paused, parseDue, open, received>>
  BY DEF BridgeInv, Type
<1>2. typed' \in 0..MaxMessages /\ typed + 1 \in 1..MaxMessages
  BY <1>1, BridgeAssumption DEF BridgeTypeOK
<1>3. /\ outgoing' \in Seq(1..MaxMessages) /\ Len(outgoing') = Len(outgoing) + 1
      /\ \A i \in 1..Len(outgoing) : outgoing'[i] = outgoing[i]
      /\ outgoing'[Len(outgoing) + 1] = typed + 1
  BY <1>1, <1>2
<1>4. BridgeTypeOK'
  BY <1>1, <1>2, <1>3 DEF BridgeTypeOK
<1>5. Acknowledged' = Acknowledged
  BY <1>1, <1>3 DEF Acknowledged
<1>6. Consecutive(outgoing', Acknowledged + Len(posts) + Len(unparsed))
  <2>1. typed + 1 = Acknowledged + Len(posts) + Len(unparsed) + (Len(outgoing) + 1)
    BY <1>1 DEF Acknowledged
  <2>2. ASSUME NEW i \in 1..Len(outgoing') PROVE outgoing'[i] = Acknowledged + Len(posts) + Len(unparsed) + i
    <3>1. CASE i = Len(outgoing) + 1
      BY <1>3, <2>1, <3>1
    <3>2. CASE i \in 1..Len(outgoing)
      BY <1>1, <1>3, <3>2 DEF PipeInv, Consecutive
    <3> QED BY <1>1, <1>3, <3>1, <3>2
  <2> QED BY <2>2 DEF Consecutive
<1>7. PipeInv'
  BY <1>1, <1>5, <1>6 DEF PipeInv
<1> QED BY <1>1, <1>4, <1>7 DEF BridgeInv, BacklogIsBounded

(* The Sandbox takes the oldest post, once. *)
LEMMA TakeStep ==
  ASSUME BridgeInv, Take
  PROVE  BridgeInv'
<1> USE BridgeTypes
<1>1. /\ BridgeTypeOK /\ BacklogIsBounded /\ Consecutive(received, 0) /\ PipeInv
      /\ (~paused => Len(posts) < MAX_PENDING_INPUTS)
      /\ posts # <<>> /\ ~Contains(received, posts[1]) /\ received' = Append(received, posts[1])
      /\ UNCHANGED <<typed, outgoing, unparsed, posts, paused, parseDue, open>>
  BY DEF BridgeInv, Take
<1>0. /\ outgoing \in Seq(1..MaxMessages) /\ unparsed \in Seq(1..MaxMessages)
      /\ posts \in Seq(1..MaxMessages) /\ received \in Seq(1..MaxMessages)
      /\ Len(outgoing) \in Nat /\ Len(unparsed) \in Nat /\ Len(posts) \in Nat /\ Len(received) \in Nat
      /\ typed \in Nat /\ MAX_PENDING_INPUTS \in Nat
  BY <1>1
<1>2. posts[1] \in 1..MaxMessages /\ posts[1] = Acknowledged + 1 /\ Acknowledged \in Nat
  <2>1. 1 \in 1..Len(posts)
    BY <1>0, <1>1
  <2>2. posts[1] \in 1..MaxMessages
    BY <1>0, <2>1, ElementOfSeq
  <2> QED BY <1>1, <2>1, <2>2 DEF PipeInv, Consecutive
<1>3. Len(received) = Acknowledged
  <2>1. CASE Len(received) = Acknowledged + 1
    <3>1. Len(received) \in 1..Len(received) /\ received[Len(received)] = posts[1]
      BY <1>1, <1>2, <2>1 DEF Consecutive
    <3>2. Contains(received, posts[1])
      BY <3>1 DEF Contains
    <3> QED BY <1>1, <3>2
  <2> QED BY <1>1, <2>1 DEF PipeInv
<1>4. /\ received' \in Seq(1..MaxMessages) /\ Len(received') = Acknowledged + 1
      /\ \A i \in 1..Len(received) : received'[i] = received[i]
      /\ received'[Len(received) + 1] = Acknowledged + 1
  BY <1>1, <1>2, <1>3
<1>5. Consecutive(received', 0)
  <2>1. ASSUME NEW i \in 1..Len(received') PROVE received'[i] = 0 + i
    <3>1. CASE i = Len(received) + 1
      BY <1>2, <1>3, <1>4, <3>1
    <3>2. CASE i \in 1..Len(received)
      BY <1>1, <1>4, <3>2 DEF Consecutive
    <3> QED BY <1>2, <1>3, <1>4, <3>1, <3>2
  <2> QED BY <2>1 DEF Consecutive
<1>6. PipeInv'
  BY <1>1, <1>2, <1>4 DEF PipeInv, Acknowledged
<1>7. BridgeTypeOK'
  BY <1>1, <1>4 DEF BridgeTypeOK
<1> QED BY <1>1, <1>5, <1>6, <1>7 DEF BridgeInv, BacklogIsBounded

(* A post that settles leaves the rest of the posts in order. *)
LEMMA SettledPost ==
  ASSUME BridgeInv, posts # <<>>, posts' = Tail(posts), UNCHANGED <<typed, outgoing, unparsed, received>>,
         open' => open, paused' \in BOOLEAN, parseDue' \in BOOLEAN, open' \in BOOLEAN,
         ~paused' => Len(posts') < MAX_PENDING_INPUTS,
         open' => Contains(received, posts[1])
  PROVE  BridgeInv'
<1> USE BridgeTypes
<1>1. BridgeTypeOK /\ BacklogIsBounded /\ Consecutive(received, 0) /\ (open => PipeInv)
  BY DEF BridgeInv
<1>2. /\ posts' \in Seq(1..MaxMessages) /\ Len(posts') = Len(posts) - 1
      /\ \A i \in 1..Len(posts') : posts'[i] = posts[i + 1] /\ i + 1 \in 1..Len(posts)
  BY <1>1
<1>3. BridgeTypeOK'
  BY <1>1, <1>2 DEF BridgeTypeOK
<1>4. ASSUME open' PROVE PipeInv'
  <2>1. PipeInv /\ Contains(received, posts[1])
    BY <1>1, <1>4
  <2>2. posts[1] = Acknowledged + 1 /\ Acknowledged \in Nat
    BY <1>1, <2>1 DEF PipeInv, Consecutive
  <2>3. PICK i \in 1..Len(received) : received[i] = posts[1]
    BY <2>1 DEF Contains
  <2>4. i = Acknowledged + 1
    BY <1>1, <2>2, <2>3 DEF Consecutive
  <2>5. Len(received) = Acknowledged + 1
    BY <1>1, <2>1, <2>2, <2>4 DEF PipeInv
  <2>6. Acknowledged' = Acknowledged + 1
    BY <1>1, <1>2 DEF Acknowledged
  <2>7. Consecutive(posts', Acknowledged + 1)
    BY <1>1, <1>2, <2>1, <2>2 DEF PipeInv, Consecutive
  <2>8. Acknowledged + 1 + Len(posts') = Acknowledged + Len(posts)
    BY <1>1, <1>2, <2>2
  <2> QED BY <1>1, <2>1, <2>2, <2>5, <2>6, <2>7, <2>8 DEF PipeInv
<1> QED BY <1>1, <1>2, <1>3, <1>4 DEF BridgeInv, BacklogIsBounded

(* Every step of the bridge preserves the invariant. *)
LEMMA BridgeKeeps == BridgeInv /\ [BridgeNext]_bridgeVars => BridgeInv'
<1> SUFFICES ASSUME BridgeInv, [BridgeNext]_bridgeVars PROVE BridgeInv'
  OBVIOUS
<1>1. /\ BridgeTypeOK /\ BacklogIsBounded /\ (~paused => Len(posts) < MAX_PENDING_INPUTS)
      /\ (open => PipeInv) /\ paused \in BOOLEAN /\ parseDue \in BOOLEAN
  BY DEF BridgeInv, BridgeTypeOK
<1>2. CASE PostAnswered
  <2>1. /\ posts # <<>> /\ (~open \/ Contains(received, posts[1])) /\ posts' = Tail(posts)
        /\ paused' = (paused /\ (Len(Tail(posts)) > RESUME_PENDING_INPUTS \/ ~open))
        /\ parseDue' = (parseDue \/ (paused /\ ~paused'))
        /\ UNCHANGED <<typed, outgoing, unparsed, open, received>> /\ open \in BOOLEAN
    BY <1>1, <1>2 DEF PostAnswered, PostSettled, BridgeTypeOK
  <2>2. ~paused' => Len(posts') < MAX_PENDING_INPUTS
    <3>1. Len(posts') = Len(posts) - 1
      BY <1>1, <2>1, BridgeTypes
    <3> QED BY <1>1, <2>1, <3>1, BridgeTypes
  <2> QED BY <1>1, <2>1, <2>2, SettledPost
<1>3. CASE PostFails
  <2>1. Len(Tail(posts)) = Len(posts) - 1
    BY <1>1, <1>3, BridgeTypes DEF PostFails
  <2>2. ~paused' => Len(posts') < MAX_PENDING_INPUTS
    BY <1>1, <1>3, <2>1, BridgeTypes DEF PostFails
  <2> QED BY <1>1, <1>3, <2>2, SettledPost DEF PostFails
<1>4. CASE Closed \/ UNCHANGED bridgeVars
  <2>1. UNCHANGED <<typed, outgoing, unparsed, posts, paused, parseDue, received>> /\ (open' => open) /\ open' \in BOOLEAN
    <3>1. open \in BOOLEAN
      BY <1>1 DEF BridgeTypeOK
    <3>2. CASE Closed
      BY <3>2 DEF Closed
    <3>3. CASE UNCHANGED bridgeVars
      BY <3>1, <3>3 DEF bridgeVars
    <3> QED BY <1>4, <3>2, <3>3
  <2> QED BY <2>1 DEF BridgeInv, BridgeTypeOK, BacklogIsBounded, PipeInv, Acknowledged
<1> QED BY <1>2, <1>3, <1>4, TypeStep, ChunkStep, ParseStep, TakeStep DEF BridgeNext

(* auth-terminal-bridge.ts: the posts under way never exceed the limit, *)
(* and the Sandbox receives the keystrokes in order, without a gap or a *)
(* repetition, for every limit and any number of messages.              *)
THEOREM BridgeKeepsOrder == BridgeSpec => [](BacklogIsBounded /\ Consecutive(received, 0))
<1>1. BridgeInv => BacklogIsBounded /\ Consecutive(received, 0)
  BY DEF BridgeInv
<1> QED BY BridgeStarts, BridgeKeeps, <1>1, PTL DEF BridgeSpec

-----------------------------------------------------------------------------
(* The log of a runtime: no gap is silent.                                   *)

(* A set of naturals that has zero, and the successor of what it has, has   *)
(* them all.                                                                *)
LEMMA Induction ==
  ASSUME NEW S, 0 \in S, \A n \in Nat : n \in S => n + 1 \in S
  PROVE  Nat \subseteq S
<1> DEFINE R == OpToRel(<, Nat)
           T == Nat \ S
<1>1. IsWellFoundedOn(R, Nat)
  BY NatLessThanWellFounded
<1>2. \A x, y \in Nat : <<x, y>> \in R <=> x < y
  BY Zenon DEF OpToRel
<1> HIDE DEF R
<1>3. SUFFICES ASSUME T # {} PROVE FALSE
  OBVIOUS
<1>4. PICK n \in T : \A m \in T : ~(<<m, n>> \in R)
  BY <1>1, <1>3, WFMin
<1>5. \A m \in T : ~(m < n)
  BY <1>2, <1>4
<1>6. n \in Nat /\ n # 0 /\ n \notin S
  OBVIOUS
<1>7. n - 1 \in Nat /\ n - 1 < n /\ n = (n - 1) + 1
  BY <1>6
<1>8. n - 1 \in S
  BY <1>5, <1>7
<1> QED BY <1>6, <1>7, <1>8

(* What the first records account for, added up one by one.                  *)
IsAccount(s, t, q, n) == s = [i \in 0..n |-> IF i = 0 THEN 0 ELSE s[i - 1] + Accounts(t, q[i])]

(* Sums over any number of records exist.                                     *)
LEMMA AccountExists ==
  ASSUME NEW t, NEW q, NEW n \in Nat
  PROVE  \E s : IsAccount(s, t, q, n)
<1> DEFINE S == {m \in Nat : \E s : IsAccount(s, t, q, m)}
<1>1. 0 \in S
  <2> DEFINE s == [i \in 0..0 |-> 0]
  <2>1. IsAccount(s, t, q, 0)
    BY DEF IsAccount
  <2> QED BY <2>1
<1>2. ASSUME NEW m \in Nat, m \in S PROVE m + 1 \in S
  <2>1. PICK s : IsAccount(s, t, q, m)
    BY <1>2
  <2> DEFINE u == [i \in 0..(m + 1) |-> IF i = m + 1 THEN s[m] + Accounts(t, q[i]) ELSE s[i]]
  <2>2. ASSUME NEW i \in 0..(m + 1)
        PROVE  u[i] = IF i = 0 THEN 0 ELSE u[i - 1] + Accounts(t, q[i])
    <3>1. CASE i = m + 1
      BY <3>1
    <3>2. CASE i # m + 1
      <4>1. i \in 0..m /\ u[i] = s[i]
        BY <3>2
      <4>2. s[i] = IF i = 0 THEN 0 ELSE s[i - 1] + Accounts(t, q[i])
        BY <2>1, <4>1 DEF IsAccount
      <4>3. i # 0 => i - 1 \in 0..(m + 1) /\ i - 1 # m + 1
        BY <4>1
      <4> QED BY <4>1, <4>2, <4>3
    <3> QED BY <3>1, <3>2
  <2>3. IsAccount(u, t, q, m + 1)
    <3> HIDE DEF u
    <3>1. u = [i \in 0..(m + 1) |-> u[i]]
      BY DEF u
    <3> QED BY <2>2, <3>1 DEF IsAccount
  <2> QED BY <2>3
<1> HIDE DEF S
<1>3. n \in S
  BY <1>1, <1>2, Induction
<1> QED BY <1>3 DEF S

(* Two of them agree, over sequences that begin with the same records.       *)
LEMMA AccountsAgree ==
  ASSUME NEW t, NEW q, NEW r, NEW n \in Nat, NEW m \in Nat, NEW s, NEW u, IsAccount(s, t, q, n), IsAccount(u, t, r, m),
         NEW k \in Nat, k <= n, k <= m, \A i \in 1..k : q[i] = r[i]
  PROVE  s[k] = u[k]
<1> DEFINE S == {j \in Nat : j <= k => s[j] = u[j]}
<1>1. 0 \in S
  BY DEF IsAccount
<1>2. ASSUME NEW j \in Nat, j \in S PROVE j + 1 \in S
  <2> SUFFICES ASSUME j + 1 <= k PROVE s[j + 1] = u[j + 1]
    OBVIOUS
  <2>1. s[j] = u[j]
    BY <1>2
  <2>2. j + 1 \in 0..n /\ j + 1 \in 0..m /\ j + 1 # 0 /\ (j + 1) - 1 = j /\ j + 1 \in 1..k
    OBVIOUS
  <2>3. s[j + 1] = s[j] + Accounts(t, q[j + 1])
    BY <2>2 DEF IsAccount
  <2>4. u[j + 1] = u[j] + Accounts(t, r[j + 1])
    BY <2>2 DEF IsAccount
  <2> QED BY <2>1, <2>2, <2>3, <2>4
<1> HIDE DEF S
<1>3. k \in S
  BY <1>1, <1>2, Induction
<1> QED BY <1>3 DEF S

(* Accounted counts its last record, and depends on the first n only.        *)
LEMMA AccountedGrows ==
  ASSUME NEW t, NEW q
  PROVE  /\ Accounted(t, q, 0) = 0
         /\ \A n \in Nat : Accounted(t, q, n + 1) = Accounted(t, q, n) + Accounts(t, q[n + 1])
<1> DEFINE sum(n) == CHOOSE s : IsAccount(s, t, q, n)
<1>1. \A n \in Nat : IsAccount(sum(n), t, q, n)
  BY AccountExists
<1>2. \A n : Accounted(t, q, n) = sum(n)[n]
  BY DEF Accounted, IsAccount
<1> HIDE DEF sum
<1>3. Accounted(t, q, 0) = 0
  BY <1>1, <1>2 DEF IsAccount
<1>4. ASSUME NEW n \in Nat PROVE Accounted(t, q, n + 1) = Accounted(t, q, n) + Accounts(t, q[n + 1])
  <2>1. n + 1 \in 0..(n + 1) /\ n + 1 # 0 /\ (n + 1) - 1 = n /\ n + 1 \in Nat
    OBVIOUS
  <2>2. sum(n + 1)[n + 1] = sum(n + 1)[n] + Accounts(t, q[n + 1])
    BY <1>1, <2>1 DEF IsAccount
  <2>3. sum(n + 1)[n] = sum(n)[n]
    BY <1>1, <2>1, AccountsAgree
  <2> QED BY <1>2, <2>1, <2>2, <2>3
<1> QED BY <1>3, <1>4

(* Records that follow change no earlier sum.                                *)
LEMMA AccountedSame ==
  ASSUME NEW t, NEW q, NEW r, NEW n \in Nat, \A i \in 1..n : q[i] = r[i]
  PROVE  Accounted(t, q, n) = Accounted(t, r, n)
<1> DEFINE sum(s) == CHOOSE f : IsAccount(f, t, s, n)
<1>1. IsAccount(sum(q), t, q, n) /\ IsAccount(sum(r), t, r, n)
  BY AccountExists
<1>2. Accounted(t, q, n) = sum(q)[n] /\ Accounted(t, r, n) = sum(r)[n]
  BY DEF Accounted, IsAccount
<1> HIDE DEF sum
<1>3. n <= n
  OBVIOUS
<1> QED BY <1>1, <1>2, <1>3, AccountsAgree

(* A sum is a natural number.                                                *)
LEMMA AccountedIsNat ==
  ASSUME NEW t, NEW q \in Seq(Records), NEW n \in 0..Len(q)
  PROVE  Accounted(t, q, n) \in Nat
<1> DEFINE S == {m \in Nat : m <= Len(q) => Accounted(t, q, m) \in Nat}
<1>1. 0 \in S
  BY AccountedGrows
<1>2. ASSUME NEW m \in Nat, m \in S PROVE m + 1 \in S
  <2> SUFFICES ASSUME m + 1 <= Len(q) PROVE Accounted(t, q, m + 1) \in Nat
    OBVIOUS
  <2>0. Len(q) \in Nat /\ m + 1 \in 1..Len(q)
    BY LenProperties
  <2>1. q[m + 1] \in Records
    BY <2>0, ElementOfSeq
  <2>2. Accounts(t, q[m + 1]) \in Nat
    BY <2>1 DEF Accounts, Records
  <2>3. Accounted(t, q, m) \in Nat
    BY <1>2, <2>0
  <2>4. Accounted(t, q, m + 1) = Accounted(t, q, m) + Accounts(t, q[m + 1])
    BY AccountedGrows
  <2> QED BY <2>2, <2>3, <2>4
<1> HIDE DEF S
<1>3. n \in Nat /\ n <= Len(q)
  BY LenProperties
<1>4. n \in S
  BY <1>1, <1>2, <1>3, Induction
<1> QED BY <1>3, <1>4 DEF S

-----------------------------------------------------------------------------
(* What GapsAreAnnounced says of a log, what is owed and what was printed.   *)
Announced(q, owed, count) ==
    \A t \in Target :
        /\ \A i \in 1..Len(q) : q[i].kind = "line" /\ q[i].of = t => Accounted(t, q, i) = q[i].count
        /\ Accounted(t, q, Len(q)) + owed[t] = count[t]

(* A record joins the log.                                                   *)
LEMMA LogGrows ==
  ASSUME NEW q \in Seq(Records), NEW r \in Records
  PROVE  /\ Append(q, r) \in Seq(Records) /\ Len(Append(q, r)) = Len(q) + 1 /\ Len(q) \in Nat
         /\ Append(q, r)[Len(q) + 1] = r
         /\ \A i \in 1..Len(q) : Append(q, r)[i] = q[i]
         /\ \A t : \A i \in 0..Len(q) : Accounted(t, Append(q, r), i) = Accounted(t, q, i)
         /\ \A t : Accounted(t, Append(q, r), Len(q) + 1) = Accounted(t, q, Len(q)) + Accounts(t, r)
         /\ \A t : Accounted(t, q, Len(q)) \in Nat
<1> DEFINE u == Append(q, r)
           n == Len(q)
<1>1. /\ u \in Seq(Records) /\ Len(u) = n + 1 /\ u[n + 1] = r
      /\ \A i \in 1..n : u[i] = q[i]
  BY AppendProperties
<1>2. n \in Nat
  BY LenProperties
<1>3. \A t : Accounted(t, q, n) \in Nat
  BY <1>2, AccountedIsNat
<1> HIDE DEF u, n
<1>4. ASSUME NEW t, NEW i \in 0..n PROVE Accounted(t, u, i) = Accounted(t, q, i)
  <2>1. i \in Nat /\ \A j \in 1..i : u[j] = q[j]
    BY <1>1, <1>2
  <2> QED BY <2>1, AccountedSame
<1>5. ASSUME NEW t PROVE Accounted(t, u, n + 1) = Accounted(t, q, n) + Accounts(t, r)
  <2>1. Accounted(t, u, n + 1) = Accounted(t, u, n) + Accounts(t, u[n + 1])
    BY <1>2, AccountedGrows
  <2>2. n \in 0..n
    BY <1>2
  <2> QED BY <1>1, <1>4, <2>1, <2>2
<1> QED BY <1>1, <1>2, <1>3, <1>4, <1>5 DEF u, n

(* A record that is neither line nor notice announces nothing.               *)
LEMMA SpanIsSilent ==
  ASSUME NEW q \in Seq(Records), NEW r \in Records, r.kind \notin {"line", "notice"},
         NEW owed \in [Target -> Nat], NEW count \in [Target -> Nat], Announced(q, owed, count)
  PROVE  Announced(Append(q, r), owed, count)
<1> DEFINE u == Append(q, r)
           n == Len(q)
<1>1. /\ Len(u) = n + 1 /\ n \in Nat /\ u[n + 1] = r
      /\ \A i \in 1..n : u[i] = q[i]
      /\ \A t : \A i \in 0..n : Accounted(t, u, i) = Accounted(t, q, i)
      /\ \A t : Accounted(t, u, n + 1) = Accounted(t, q, n) + Accounts(t, r)
      /\ \A t : Accounted(t, q, n) \in Nat
  BY LogGrows
<1>2. \A t : Accounts(t, r) = 0
  BY DEF Accounts
<1> HIDE DEF u
<1>3. ASSUME NEW t \in Target, NEW i \in 1..Len(u), u[i].kind = "line", u[i].of = t
      PROVE  Accounted(t, u, i) = u[i].count
  <2>1. i \in 1..n
    BY <1>1, <1>3
  <2>2. u[i] = q[i] /\ i \in 0..n
    BY <1>1, <2>1
  <2>3. Accounted(t, q, i) = q[i].count
    BY <1>3, <2>1, <2>2 DEF Announced
  <2> QED BY <1>1, <2>2, <2>3
<1>4. ASSUME NEW t \in Target PROVE Accounted(t, u, Len(u)) + owed[t] = count[t]
  <2>1. Accounted(t, u, Len(u)) = Accounted(t, q, n)
    BY <1>1, <1>2
  <2> QED BY <2>1 DEF Announced
<1> QED BY <1>3, <1>4 DEF Announced, u

(* A notice says what its target is owed.                                    *)
LEMMA NoticeTells ==
  ASSUME NEW q \in Seq(Records), NEW x \in Target, NEW owed \in [Target -> Nat], NEW count \in [Target -> Nat],
         Announced(q, owed, count)
  PROVE  /\ Notice(x, owed[x]) \in Records
         /\ Announced(Append(q, Notice(x, owed[x])), [owed EXCEPT ![x] = 0], count)
<1> DEFINE r == Notice(x, owed[x])
           u == Append(q, r)
           n == Len(q)
           o == [owed EXCEPT ![x] = 0]
<1>0. r \in Records
  BY DEF Notice, Records
<1>1. /\ Len(u) = n + 1 /\ n \in Nat /\ u[n + 1] = r
      /\ \A i \in 1..n : u[i] = q[i]
      /\ \A t : \A i \in 0..n : Accounted(t, u, i) = Accounted(t, q, i)
      /\ \A t : Accounted(t, u, n + 1) = Accounted(t, q, n) + Accounts(t, r)
      /\ \A t : Accounted(t, q, n) \in Nat
  BY <1>0, LogGrows
<1>2. /\ Accounts(x, r) = owed[x] /\ r.kind = "notice"
      /\ \A t : t # x => Accounts(t, r) = 0
  BY DEF Accounts, Notice
<1> HIDE DEF u, r
<1>3. ASSUME NEW t \in Target, NEW i \in 1..Len(u), u[i].kind = "line", u[i].of = t
      PROVE  Accounted(t, u, i) = u[i].count
  <2>1. i \in 1..n
    BY <1>1, <1>2, <1>3
  <2>2. u[i] = q[i] /\ i \in 0..n
    BY <1>1, <2>1
  <2>3. Accounted(t, q, i) = q[i].count
    BY <1>3, <2>1, <2>2 DEF Announced
  <2> QED BY <1>1, <2>2, <2>3
<1>4. ASSUME NEW t \in Target PROVE Accounted(t, u, Len(u)) + o[t] = count[t]
  <2>1. Accounted(t, q, n) + owed[t] = count[t] /\ owed[t] \in Nat /\ Accounted(t, q, n) \in Nat
    BY <1>1 DEF Announced
  <2>2. CASE t = x
    BY <1>1, <1>2, <2>1, <2>2
  <2>3. CASE t # x
    BY <1>1, <1>2, <2>1, <2>3
  <2> QED BY <2>2, <2>3
<1> HIDE DEF o
<1>5. Announced(u, o, count)
  BY <1>3, <1>4 DEF Announced
<1> QED BY <1>0, <1>5 DEF u, r, o

(* A line whose target is owed nothing carries its number.                   *)
LEMMA LineFollows ==
  ASSUME NEW q \in Seq(Records), NEW x \in Target, NEW owed \in [Target -> Nat], NEW count \in [Target -> Nat],
         Announced(q, owed, count), owed[x] = 0, NEW size \in Nat
  PROVE  /\ LogLine(x, count[x] + 1, size) \in Records
         /\ Announced(Append(q, LogLine(x, count[x] + 1, size)), owed, [count EXCEPT ![x] = @ + 1])
<1> DEFINE r == LogLine(x, count[x] + 1, size)
           u == Append(q, r)
           n == Len(q)
           c == [count EXCEPT ![x] = @ + 1]
<1>0. r \in Records
  BY DEF LogLine, Records
<1>1. /\ Len(u) = n + 1 /\ n \in Nat /\ u[n + 1] = r
      /\ \A i \in 1..n : u[i] = q[i]
      /\ \A t : \A i \in 0..n : Accounted(t, u, i) = Accounted(t, q, i)
      /\ \A t : Accounted(t, u, n + 1) = Accounted(t, q, n) + Accounts(t, r)
      /\ \A t : Accounted(t, q, n) \in Nat
  BY <1>0, LogGrows
<1>2. /\ Accounts(x, r) = 1 /\ r.kind = "line" /\ r.of = x /\ r.count = count[x] + 1
      /\ \A t : t # x => Accounts(t, r) = 0
  BY DEF Accounts, LogLine
<1> HIDE DEF u, r
<1>3. ASSUME NEW t \in Target
      PROVE  Accounted(t, q, n) + owed[t] = count[t] /\ owed[t] \in Nat /\ Accounted(t, q, n) \in Nat /\ count[t] \in Nat
  BY <1>1 DEF Announced
<1>4. ASSUME NEW t \in Target, NEW i \in 1..Len(u), u[i].kind = "line", u[i].of = t
      PROVE  Accounted(t, u, i) = u[i].count
  <2>1. CASE i \in 1..n
    <3>1. u[i] = q[i] /\ i \in 0..n
      BY <1>1, <2>1
    <3>2. Accounted(t, q, i) = q[i].count
      BY <1>4, <2>1, <3>1 DEF Announced
    <3> QED BY <1>1, <3>1, <3>2
  <2>2. CASE i \notin 1..n
    <3>1. i = n + 1 /\ u[i] = r /\ t = x
      BY <1>1, <1>2, <1>4, <2>2
    <3> QED BY <1>1, <1>2, <1>3, <3>1
  <2> QED BY <2>1, <2>2
<1>5. ASSUME NEW t \in Target PROVE Accounted(t, u, Len(u)) + owed[t] = c[t]
  <2>1. CASE t = x
    BY <1>1, <1>2, <1>3, <2>1
  <2>2. CASE t # x
    BY <1>1, <1>2, <1>3, <2>2
  <2> QED BY <2>1, <2>2
<1> HIDE DEF c
<1>6. Announced(u, owed, c)
  BY <1>4, <1>5 DEF Announced
<1> QED BY <1>0, <1>6 DEF u, r, c

(* A line that is lost is owed.                                              *)
LEMMA LossIsOwed ==
  ASSUME NEW q \in Seq(Records), NEW x \in Target, NEW owed \in [Target -> Nat], NEW count \in [Target -> Nat],
         Announced(q, owed, count)
  PROVE  Announced(q, [owed EXCEPT ![x] = @ + 1], [count EXCEPT ![x] = @ + 1])
<1> DEFINE o == [owed EXCEPT ![x] = @ + 1]
           c == [count EXCEPT ![x] = @ + 1]
<1>1. ASSUME NEW t \in Target PROVE Accounted(t, q, Len(q)) + o[t] = c[t]
  <2>1. Len(q) \in 0..Len(q)
    BY LenProperties
  <2>2. Accounted(t, q, Len(q)) + owed[t] = count[t] /\ owed[t] \in Nat /\ Accounted(t, q, Len(q)) \in Nat
    BY <2>1, AccountedIsNat DEF Announced
  <2>3. CASE t = x
    BY <2>2, <2>3
  <2>4. CASE t # x
    BY <2>2, <2>4
  <2> QED BY <2>3, <2>4
<1> HIDE DEF o, c
<1>2. Announced(q, o, c)
  BY <1>1 DEF Announced
<1> QED BY <1>2 DEF o, c

-----------------------------------------------------------------------------
Buffers == [entries : Seq(Records), dropped : Nat, owed : [Target -> Nat]]

(* An accepted record is the last of the log; a refused one changes nothing. *)
LEMMA PublishAppends ==
  ASSUME NEW b \in Buffers, NEW c \in Seq(Records), NEW r \in Records
  PROVE  /\ PublishBestEffort(b, r) \in Buffers /\ PublishBestEffort(b, r).owed = b.owed
         /\ c \o b.entries \in Seq(Records)
         /\ Accepts(b, r) => c \o PublishBestEffort(b, r).entries = Append(c \o b.entries, r)
         /\ ~Accepts(b, r) => PublishBestEffort(b, r).entries = b.entries
<1> DEFINE e == b.entries
<1>1. e \in Seq(Records) /\ b.dropped \in Nat /\ b.owed \in [Target -> Nat]
  BY DEF Buffers
<1>2. Append(e, r) \in Seq(Records) /\ Append(e, r) = e \o <<r>> /\ <<r>> \in Seq(Records)
  BY <1>1, AppendProperties, AppendIsConcat
<1>3. c \o e \in Seq(Records)
  BY <1>1, ConcatProperties
<1>4. c \o Append(e, r) = Append(c \o e, r)
  <2> DEFINE one == <<r>>
  <2> HIDE DEF e, one
  <2>0. e \in Seq(Records) /\ one \in Seq(Records)
    BY <1>1, <1>2 DEF one
  <2>1. (c \o e) \o one = c \o (e \o one)
    BY <2>0, ConcatAssociative
  <2>2. Append(c \o e, r) = (c \o e) \o <<r>>
    BY <1>3, AppendIsConcat
  <2> QED BY <1>2, <2>1, <2>2 DEF one
<1>5. CASE Accepts(b, r)
  <2>1. PublishBestEffort(b, r) = [b EXCEPT !.entries = Append(@, r)]
    BY <1>5 DEF PublishBestEffort
  <2>2. /\ PublishBestEffort(b, r).entries = Append(e, r) /\ PublishBestEffort(b, r).owed = b.owed
        /\ PublishBestEffort(b, r) \in Buffers
    BY <1>1, <1>2, <2>1 DEF Buffers
  <2> QED BY <1>3, <1>4, <1>5, <2>2
<1>6. CASE ~Accepts(b, r)
  <2>1. PublishBestEffort(b, r) = [b EXCEPT !.dropped = @ + 1]
    BY <1>6 DEF PublishBestEffort
  <2>2. /\ PublishBestEffort(b, r).entries = e /\ PublishBestEffort(b, r).owed = b.owed
        /\ PublishBestEffort(b, r) \in Buffers
    BY <1>1, <2>1, SMTT(30) DEF Buffers
  <2> QED BY <1>3, <1>6, <2>2
<1> QED BY <1>5, <1>6

(* A span or an activity record keeps the account.                           *)
LEMMA PublishKeeps ==
  ASSUME NEW b \in Buffers, NEW c \in Seq(Records), NEW r \in Records, r.kind \notin {"line", "notice"},
         NEW count \in [Target -> Nat], Announced(c \o b.entries, b.owed, count)
  PROVE  /\ PublishBestEffort(b, r) \in Buffers
         /\ Announced(c \o PublishBestEffort(b, r).entries, PublishBestEffort(b, r).owed, count)
<1> DEFINE p == PublishBestEffort(b, r)
           q == c \o b.entries
<1>1. /\ p \in Buffers /\ p.owed = b.owed /\ q \in Seq(Records)
      /\ Accepts(b, r) => c \o p.entries = Append(q, r)
      /\ ~Accepts(b, r) => p.entries = b.entries
  BY PublishAppends
<1>2. b.owed \in [Target -> Nat]
  BY DEF Buffers
<1>3. Announced(Append(q, r), b.owed, count)
  BY <1>1, <1>2, SpanIsSilent
<1> QED BY <1>1, <1>3

(* So does record(), whatever it finds room for.                             *)
LEMMA RecordKeeps ==
  ASSUME NEW b \in Buffers, NEW c \in Seq(Records), NEW x \in Target, NEW size \in Nat,
         NEW count \in [Target -> Nat], Announced(c \o b.entries, b.owed, count)
  PROVE  LET after == Record(b, x, count[x] + 1, size)
         IN  /\ after \in Buffers
             /\ Announced(c \o after.entries, after.owed, [count EXCEPT ![x] = @ + 1])
<1> DEFINE n == count[x] + 1
           more == [count EXCEPT ![x] = @ + 1]
           Holds(a) == a \in Buffers /\ Announced(c \o a.entries, a.owed, more)
           notice == Notice(x, b.owed[x])
           entry == LogLine(x, n, size)
           cleared == [PublishBestEffort(b, notice) EXCEPT !.owed[x] = 0]
           now == IF b.owed[x] = 0 THEN b ELSE cleared
           after == PublishBestEffort(now, entry)
           owes(a) == [a EXCEPT !.owed[x] = @ + 1]
<1>1. b.owed \in [Target -> Nat] /\ b.entries \in Seq(Records) /\ count[x] \in Nat
  BY DEF Buffers
<1>2. c \o b.entries \in Seq(Records)
  BY <1>1, ConcatProperties
<1>3. notice \in Records /\ Announced(Append(c \o b.entries, notice), [b.owed EXCEPT ![x] = 0], count)
  BY <1>1, <1>2, NoticeTells
<1>4. entry \in Records
  BY <1>1 DEF LogLine, Records
<1>5. Record(b, x, n, size) =
        IF b.owed[x] > 0 /\ ~Accepts(b, notice) THEN owes(PublishBestEffort(b, notice))
        ELSE IF Accepts(now, entry) THEN after ELSE owes(after)
  BY DEF Record
<1>6. ASSUME NEW a \in Buffers, Announced(c \o a.entries, a.owed, count)
      PROVE  Holds(owes(a))
  <2>0. a.owed \in [Target -> Nat] /\ a.owed[x] \in Nat
    BY DEF Buffers
  <2>1. /\ a.owed \in [Target -> Nat] /\ a.entries \in Seq(Records)
        /\ owes(a).entries = a.entries /\ owes(a).owed = [a.owed EXCEPT ![x] = @ + 1] /\ owes(a) \in Buffers
    <3> DEFINE lost == [a.owed EXCEPT ![x] = @ + 1]
    <3>1. lost \in [Target -> Nat]
      BY <2>0
    <3> HIDE DEF lost
    <3>2. owes(a) = [a EXCEPT !.owed = lost]
      BY DEF Buffers, lost
    <3>3. a.entries \in Seq(Records) /\ a.dropped \in Nat
      BY DEF Buffers
    <3>4. a = [entries |-> a.entries, dropped |-> a.dropped, owed |-> a.owed]
      BY DEF Buffers
    <3> HIDE DEF owes
    <3>5. owes(a) = [entries |-> a.entries, dropped |-> a.dropped, owed |-> lost]
      BY <3>2, <3>4
    <3> QED BY <2>0, <3>1, <3>3, <3>5 DEF Buffers, lost
  <2>2. c \o a.entries \in Seq(Records)
    BY <2>1, ConcatProperties
  <2>3. Announced(c \o a.entries, [a.owed EXCEPT ![x] = @ + 1], more)
    BY <1>6, <2>1, <2>2, LossIsOwed
  <2> QED BY <2>1, <2>3
<1>7. CASE b.owed[x] > 0 /\ ~Accepts(b, notice)
  <2> DEFINE p == PublishBestEffort(b, notice)
  <2>1. p \in Buffers /\ p.owed = b.owed /\ p.entries = b.entries
    BY <1>3, <1>7, PublishAppends
  <2>2. Announced(c \o p.entries, p.owed, count)
    BY <2>1
  <2>3. Holds(owes(p))
    BY <1>6, <2>1, <2>2
  <2>4. Record(b, x, n, size) = owes(p)
    BY <1>5, <1>7
  <2> QED BY <2>3, <2>4
<1>8. CASE ~(b.owed[x] > 0 /\ ~Accepts(b, notice))
  <2>1. now \in Buffers /\ now.owed[x] = 0 /\ Announced(c \o now.entries, now.owed, count)
    <3>1. CASE b.owed[x] = 0
      BY <3>1
    <3>2. CASE b.owed[x] # 0
      <4> DEFINE p == PublishBestEffort(b, notice)
      <4>1. b.owed[x] > 0 /\ Accepts(b, notice)
        BY <1>1, <1>8, <3>2
      <4>2. p \in Buffers /\ p.owed = b.owed /\ c \o p.entries = Append(c \o b.entries, notice)
        BY <1>3, <4>1, PublishAppends
      <4>3. now = [p EXCEPT !.owed[x] = 0]
        BY <3>2
      <4> HIDE DEF p, now
      <4>4. now \in Buffers /\ now.owed = [b.owed EXCEPT ![x] = 0] /\ now.entries = p.entries
        BY <4>2, <4>3 DEF Buffers
      <4> QED BY <1>1, <1>3, <4>2, <4>4
    <3> QED BY <3>1, <3>2
  <2> HIDE DEF now
  <2>2. /\ after \in Buffers /\ after.owed = now.owed /\ c \o now.entries \in Seq(Records)
        /\ Accepts(now, entry) => c \o after.entries = Append(c \o now.entries, entry)
        /\ ~Accepts(now, entry) => after.entries = now.entries
    BY <1>4, <2>1, PublishAppends
  <2>3. CASE Accepts(now, entry)
    <3>1. Announced(Append(c \o now.entries, entry), now.owed, more)
      <4>1. now.owed \in [Target -> Nat]
        BY <2>1 DEF Buffers
      <4> QED BY <2>1, <2>2, <4>1, LineFollows
    <3>2. Holds(after)
      BY <2>2, <2>3, <3>1
    <3>3. Record(b, x, n, size) = after
      BY <1>5, <1>8, <2>3
    <3> QED BY <3>2, <3>3
  <2>4. CASE ~Accepts(now, entry)
    <3>1. Announced(c \o after.entries, after.owed, count)
      BY <2>1, <2>2, <2>4
    <3>2. Holds(owes(after))
      BY <1>6, <2>2, <3>1
    <3>3. Record(b, x, n, size) = owes(after)
      BY <1>5, <1>8, <2>4
    <3> QED BY <3>2, <3>3
  <2> QED BY <2>3, <2>4
<1> QED BY <1>7, <1>8

-----------------------------------------------------------------------------
(* The types and the account are an invariant of the log.                    *)
LogInv == LogTypeOK /\ Announced(Log, buffer.owed, printed)

(* A step that writes a entry, or none.                                       *)
LEMMA PrintsKeep ==
  ASSUME LogInv, NEW t \in Target, NEW size \in LineSizes, WriteLine(t, size) \/ Console(t, size)
  PROVE  LogInv'
<1> DEFINE recorded == Record(buffer, t, printed[t] + 1, size)
<1>1. /\ buffer \in Buffers /\ collected \in Seq(Records) /\ printed \in [Target -> Nat] /\ size \in Nat
      /\ Announced(collected \o buffer.entries, buffer.owed, printed)
  BY LogAssumption DEF LogInv, LogTypeOK, Buffers, Log
<1>2. /\ buffer' = IF HasTarget(t) THEN recorded ELSE buffer
      /\ printed' = IF HasTarget(t) THEN [printed EXCEPT ![t] = @ + 1] ELSE printed
      /\ UNCHANGED <<collected, alone, spans, opened>>
  BY DEF WriteLine, Console, Prints, StreamWrite, Capture
<1>3. recorded \in Buffers /\ Announced(collected \o recorded.entries, recorded.owed, [printed EXCEPT ![t] = @ + 1])
  BY <1>1, RecordKeeps
<1> HIDE DEF recorded
<1>4. buffer' \in Buffers /\ Announced(collected' \o buffer'.entries, buffer'.owed, printed')
  <2>1. CASE HasTarget(t)
    BY <1>2, <1>3, <2>1
  <2>2. CASE ~HasTarget(t)
    BY <1>1, <1>2, <2>2
  <2> QED BY <2>1, <2>2
<1>5. printed' \in [Target -> Nat]
  BY <1>1, <1>2
<1>6. LogTypeOK'
  BY <1>2, <1>4, <1>5 DEF LogInv, LogTypeOK, Buffers
<1> QED BY <1>4, <1>6 DEF LogInv, Log

(* A step that publishes a span or an activity record.                       *)
LEMMA SpansKeep ==
  ASSUME LogInv, NEW t \in Observer, SpanStarts(t) \/ SpanEnds(t) \/ RecordActivity(t)
  PROVE  LogInv'
<1>1. PICK k \in {"started", "completed", "activity"} : buffer' = PublishBestEffort(buffer, Span(t, k))
  BY DEF SpanStarts, SpanEnds, RecordActivity
<1>2. UNCHANGED <<collected, alone, printed>>
  BY DEF SpanStarts, SpanEnds, RecordActivity
<1>3. /\ buffer \in Buffers /\ collected \in Seq(Records) /\ printed \in [Target -> Nat]
      /\ Announced(collected \o buffer.entries, buffer.owed, printed)
  BY DEF LogInv, LogTypeOK, Buffers, Log
<1>4. Span(t, k) \in Records /\ Span(t, k).kind \notin {"line", "notice"}
  BY DEF Span, Records, Target
<1>5. buffer' \in Buffers /\ Announced(collected \o buffer'.entries, buffer'.owed, printed)
  BY <1>1, <1>3, <1>4, PublishKeeps
<1>6. spans' \in [Observer -> Nat] /\ opened' \in 0..MaxSpans
  <2>1. spans \in [Observer -> Nat] /\ opened \in 0..MaxSpans /\ spans[t] \in Nat /\ MaxSpans \in Nat
    BY LogAssumption DEF LogInv, LogTypeOK
  <2>2. CASE SpanStarts(t)
    BY <2>1, <2>2 DEF SpanStarts
  <2>3. CASE SpanEnds(t)
    BY <2>1, <2>3 DEF SpanEnds
  <2>4. CASE RecordActivity(t)
    BY <2>1, <2>4 DEF RecordActivity
  <2> QED BY <2>2, <2>3, <2>4
<1>7. LogTypeOK'
  BY <1>2, <1>3, <1>5, <1>6 DEF LogInv, LogTypeOK, Buffers
<1> QED BY <1>2, <1>5, <1>7 DEF LogInv, Log

(* Joining logs, it does not matter which two come first.                    *)
LEMMA LogsJoin ==
  ASSUME NEW p \in Seq(Records), NEW q \in Seq(Records), NEW r \in Seq(Records)
  PROVE  (p \o q) \o r = p \o (q \o r)
BY ConcatAssociative, SMTT(60)

(* Records move from the buffer to the platform in their order.              *)
LEMMA CollectKeeps ==
  ASSUME LogInv, Collect
  PROVE  LogInv'
<1> DEFINE e == buffer.entries
<1>1. /\ buffer \in Buffers /\ e \in Seq(Records) /\ Len(e) \in Nat /\ collected \in Seq(Records)
      /\ printed \in [Target -> Nat]
  BY LenProperties DEF LogInv, LogTypeOK, Buffers
<1>2. PICK n \in 1..Len(e) :
        /\ collected' = collected \o SubSeq(e, 1, n)
        /\ buffer' = [buffer EXCEPT !.entries = SubSeq(@, n + 1, Len(@))]
  BY DEF Collect
<1>3. SubSeq(e, 1, n) \in Seq(Records) /\ SubSeq(e, n + 1, Len(e)) \in Seq(Records)
  <2>1. \A i \in 1..Len(e) : e[i] \in Records
    BY <1>1, ElementOfSeq
  <2>2. /\ \A i \in 1..n : e[i] \in Records
        /\ \A i \in (n + 1)..Len(e) : e[i] \in Records
        /\ n \in Int /\ n + 1 \in Int /\ Len(e) \in Int
    BY <1>1, <2>1
  <2>3. SubSeq(e, 1, n) \in Seq(Records)
    BY <2>2, SubSeqProperties
  <2>4. SubSeq(e, n + 1, Len(e)) \in Seq(Records)
    BY <2>2, SubSeqProperties
  <2> QED BY <2>3, <2>4
<1>4. SubSeq(e, 1, n) \o SubSeq(e, n + 1, Len(e)) = e
  <2>1. SubSeq(e, 1, n) \o SubSeq(e, n + 1, Len(e)) = SubSeq(e, 1, Len(e))
    BY <1>1, ConcatAdjacentSubSeq
  <2>2. SubSeq(e, 1, Len(e)) = e
    BY <1>1, SubSeqFull
  <2> QED BY <2>1, <2>2
<1>5. buffer'.entries = SubSeq(e, n + 1, Len(e)) /\ buffer'.owed = buffer.owed /\ buffer' \in Buffers
  BY <1>1, <1>2, <1>3 DEF Buffers
<1> HIDE DEF e
<1>6. Log' = Log
  <2> DEFINE front == SubSeq(e, 1, n)
             back == SubSeq(e, n + 1, Len(e))
  <2>1. Log' = (collected \o front) \o back
    BY <1>2, <1>5 DEF Log, e
  <2>0. front \in Seq(Records) /\ back \in Seq(Records) /\ front \o back = e
    BY <1>3, <1>4
  <2> HIDE DEF front, back
  <2>2. Log' = collected \o (front \o back)
    <3>1. collected \in Seq(Records)
      BY <1>1
    <3>2. (collected \o front) \o back = collected \o (front \o back)
      BY <2>0, <3>1, LogsJoin
    <3> QED BY <2>1, <3>2
  <2> QED BY <2>0, <2>2 DEF Log, e
<1>7. collected' \in Seq(Records)
  BY <1>1, <1>2, <1>3, ConcatProperties
<1>8. UNCHANGED <<alone, spans, opened, printed>>
  BY DEF Collect
<1>9. LogTypeOK'
  BY <1>5, <1>7, <1>8 DEF LogInv, LogTypeOK, Buffers
<1>10. Announced(Log', buffer'.owed, printed')
  BY <1>5, <1>6, <1>8 DEF LogInv
<1> QED BY <1>9, <1>10 DEF LogInv

(* It holds of a new runtime ...                                            *)
LEMMA LogStarts == LogInit => LogInv
<1> SUFFICES ASSUME LogInit PROVE LogInv
  OBVIOUS
<1>1. <<>> \in Seq(Records)
  BY EmptySeq
<1>2. LogTypeOK
  <2>1. MaxSpans \in Nat
    BY LogAssumption
  <2> QED BY <1>1, <2>1 DEF LogInit, LogTypeOK
<1>3. Log = <<>> /\ Len(Log) = 0
  <2>1. collected = <<>> /\ buffer.entries = <<>>
    BY DEF LogInit
  <2>2. <<>> \o <<>> = <<>>
    BY <1>1, ConcatEmptySeq
  <2> QED BY <2>1, <2>2 DEF Log
<1>4. \A t \in Target : Accounted(t, Log, 0) = 0 /\ buffer.owed[t] = 0 /\ printed[t] = 0
  BY AccountedGrows DEF LogInit
<1>5. Announced(Log, buffer.owed, printed)
  BY <1>3, <1>4 DEF Announced
<1> QED BY <1>2, <1>5 DEF LogInv

(* ... and of every step.                                                    *)
LEMMA LogKeeps == LogInv /\ [LogNext]_logVars => LogInv'
<1> SUFFICES ASSUME LogInv, [LogNext]_logVars PROVE LogInv'
  OBVIOUS
<1>1. CASE UNCHANGED logVars
  <2>1. UNCHANGED <<buffer, collected, alone, spans, opened, printed>>
    BY <1>1 DEF logVars
  <2> QED BY <2>1 DEF LogInv, LogTypeOK, Log
<1>2. CASE Register
  BY <1>2 DEF Register, LogInv, LogTypeOK, Log
<1>3. CASE \E t \in Target, size \in LineSizes : WriteLine(t, size) \/ Console(t, size)
  BY <1>3, PrintsKeep
<1>4. CASE \E t \in Observer : SpanStarts(t) \/ SpanEnds(t) \/ RecordActivity(t)
  BY <1>4, SpansKeep
<1> QED BY <1>1, <1>2, <1>3, <1>4, CollectKeeps DEF LogNext

(* No gap in a log is silent: a line that reaches the platform is preceded   *)
(* by every earlier line of its target, or by notices that count exactly     *)
(* those that are missing, and what no notice has told yet is still owed.       *)
THEOREM LogGapsAreAnnounced == LogSpec => []GapsAreAnnounced
<1>1. LogInv => GapsAreAnnounced
  BY DEF LogInv, Announced, GapsAreAnnounced
<1> QED BY <1>1, LogStarts, LogKeeps, PTL DEF LogSpec

-----------------------------------------------------------------------------
(* The client's stream of events: in order, without a gap, and never refused *)
(* when it is well formed.                                                   *)

(* The types without their bounds.  The reader is one value; its "char" is   *)
(* CR when an LF that comes next belongs to the line ending it has just seen. *)
AnyCursor == [stream : Nat, sequence : Nat]
AnyText == ({"id", "data"} \X AnyCursor) \union {Comment}
Chars == AnyText \union {CR, LF}
Endings == {<<LF>>, <<CR>>, <<CR, LF>>}
ReaderStates ==
    [partial : AnyText \union {NoLine}, char : {CR, LF}, id : AnyCursor, data : AnyCursor, previous : AnyCursor,
     error : {"no", "invalid_event_stream", "event_stream_reset", "event_stream_failed"}]

(* What the reader makes of the characters before it, one at a time; one it *)
(* refuses is the last it looks at.                                         *)
Refused(s) ==
    IF s.data = Failure THEN "event_stream_failed"
    ELSE IF s.id # s.data THEN "invalid_event_stream"
    ELSE IF s.previous = None THEN "no"
    ELSE IF s.previous.stream # s.data.stream THEN "event_stream_reset"
    ELSE IF s.data.sequence <= s.previous.sequence THEN "invalid_event_stream" ELSE "no"
Dispatched(s) ==
    IF s.data = None THEN [s EXCEPT !.id = None]
    ELSE IF Refused(s) = "no" THEN [s EXCEPT !.id = None, !.data = None, !.previous = s.data]
    ELSE [s EXCEPT !.id = None, !.data = None, !.error = Refused(s)]
Feed(s, c) ==
    IF s.error # "no" THEN s
    ELSE IF c = LF /\ s.char = CR THEN [s EXCEPT !.char = LF]
    ELSE IF c \notin {CR, LF} THEN [s EXCEPT !.partial = c, !.char = LF]
    ELSE IF s.partial = NoLine THEN [Dispatched(s) EXCEPT !.char = c]
    ELSE [s EXCEPT !.partial = NoLine, !.char = c,
                   !.id = IF s.partial[1] = "id" THEN s.partial[2] ELSE s.id,
                   !.data = IF s.partial[1] = "data" THEN s.partial[2] ELSE s.data]
Run(s, q, n) == LET at[i \in 0..n] == IF i = 0 THEN s ELSE Feed(at[i - 1], q[i]) IN at[n]

(* The cursor it follows moves to the next event of its stream, or begins.    *)
FollowsIn(s, u) ==
    s.previous # u.previous /\ s.previous # None =>
        u.previous.stream = s.previous.stream /\ u.previous.sequence = s.previous.sequence + 1
(* A run along which it does at every character; where h holds, no error.     *)
Fine(s, q, h) ==
    \A i \in 0..Len(q) - 1 :
        /\ FollowsIn(Run(s, q, i), Run(s, q, i + 1))
        /\ h => Run(s, q, i + 1).error # "invalid_event_stream"
(* The reader is between two frames whose lines end with e, and follows      *)
(* event n if it follows one of stream t.                                    *)
Boundary(s, e, t, n) ==
    s.error = "no" =>
      /\ s.partial = NoLine /\ s.id = None /\ s.data = None /\ (e = <<LF>> => s.char = LF)
      /\ s.previous.stream = t => s.previous.sequence = n
      /\ s.previous = None => n <= 1

(* The texts, the two line endings and no line are different characters.     *)
LEMMA CharsDiffer ==
  /\ CR # LF /\ NoLine \notin Chars
  /\ \A t \in AnyText : t # CR /\ t # LF /\ t # NoLine
  /\ None \in AnyCursor
<1>1. CR # LF /\ NoLine # CR /\ NoLine # LF /\ Comment # CR /\ Comment # LF /\ Comment # NoLine
  BY DEF CR, LF, NoLine, Comment
<1>2. None \in AnyCursor
  BY DEF None, AnyCursor
<1>3. ASSUME NEW k \in {"id", "data"}, NEW c \in AnyCursor
      PROVE  <<k, c>> # CR /\ <<k, c>> # LF /\ <<k, c>> # NoLine
  BY DEF CR, LF, NoLine
<1>4. \A t \in AnyText : t # CR /\ t # LF /\ t # NoLine
  BY <1>1, <1>3 DEF AnyText
<1> QED BY <1>1, <1>2, <1>4 DEF Chars

(* A line ending is one or two characters.                                   *)
LEMMA EndingsIn == ASSUME NEW X, CR \in X, LF \in X PROVE \A e \in Endings : e \in Seq(X)
<1>1. <<CR>> \in Seq(X)
  OBVIOUS
<1>2. <<LF>> \in Seq(X)
  OBVIOUS
<1>3. <<CR, LF>> \in Seq(X)
  OBVIOUS
<1>4. TAKE e \in Endings
<1>5. e = <<LF>> \/ e = <<CR>> \/ e = <<CR, LF>>
  BY DEF Endings
<1> QED BY <1>1, <1>2, <1>3, <1>5

(* The line ending of two characters is neither of those of one.             *)
LEMMA EndingsAreChars ==
  /\ \A e \in Endings : e \in Seq(Chars)
  /\ <<CR, LF>> = <<CR>> \o <<LF>> /\ <<CR, LF>> # <<LF>>
<1>1. CR \in Chars /\ LF \in Chars
  BY DEF Chars
<1>6. \A e \in Endings : e \in Seq(Chars)
  BY <1>1, EndingsIn
<1>7. \A u, v : <<u, v>> = <<u>> \o <<v>> /\ <<u, v>> # <<v>>
  <2>1. TAKE u, v
  <2> DEFINE w == <<u, v>>
             a == <<u>>
             b == <<v>>
  <2>2. /\ w \in Seq({u, v}) /\ a \in Seq({u, v}) /\ b \in Seq({u, v})
        /\ Len(w) = 2 /\ Len(a) = 1 /\ Len(b) = 1
        /\ w[1] = u /\ w[2] = v /\ a[1] = u /\ b[1] = v
    OBVIOUS
  <2> HIDE DEF a, b, w
  <2>3. /\ a \o b \in Seq({u, v}) /\ Len(a \o b) = 1 + 1
        /\ \A i \in 1..1 + 1 : (a \o b)[i] = IF i <= 1 THEN a[i] ELSE b[i - 1]
    BY <2>2, ConcatProperties
  <2>4. (a \o b)[1] = u /\ (a \o b)[2] = v
    BY <2>2, <2>3
  <2>5. \A i \in 1..2 : i = 1 \/ i = 2
    OBVIOUS
  <2>6. w = a \o b
    BY <2>2, <2>3, <2>4, <2>5, SeqEqual
  <2>7. w # b
    BY <2>2
  <2> QED BY <2>6, <2>7 DEF w, a, b
<1> QED BY <1>6, <1>7

-----------------------------------------------------------------------------
(* One character at a time.  After an error the reader looks at nothing.     *)
LEMMA FeedStops == ASSUME NEW s, NEW c, s.error # "no" PROVE Feed(s, c) = s
BY DEF Feed

(* LF after CR belongs to the same line ending.                              *)
LEMMA FeedSkips ==
  ASSUME NEW s \in ReaderStates, s.error = "no", s.char = CR
  PROVE  /\ Feed(s, LF) \in ReaderStates /\ Feed(s, LF).char = LF
         /\ Feed(s, LF).partial = s.partial /\ Feed(s, LF).id = s.id /\ Feed(s, LF).data = s.data
         /\ Feed(s, LF).previous = s.previous /\ Feed(s, LF).error = "no"
<1>1. Feed(s, LF) = [s EXCEPT !.char = LF]
  BY DEF Feed
<1> QED BY <1>1 DEF ReaderStates

(* A text begins a line.                                                     *)
LEMMA FeedBegins ==
  ASSUME NEW s \in ReaderStates, s.error = "no", NEW c \in AnyText
  PROVE  /\ Feed(s, c) \in ReaderStates /\ Feed(s, c).char = LF
         /\ Feed(s, c).partial = c /\ Feed(s, c).id = s.id /\ Feed(s, c).data = s.data
         /\ Feed(s, c).previous = s.previous /\ Feed(s, c).error = "no"
<1>1. c \notin {CR, LF}
  BY CharsDiffer
<1>2. Feed(s, c) = [s EXCEPT !.partial = c, !.char = LF]
  BY <1>1 DEF Feed
<1> QED BY <1>2 DEF ReaderStates

(* A line ends: it is the id or the data of its frame, or a comment.         *)
LEMMA FeedEnds ==
  ASSUME NEW s \in ReaderStates, s.error = "no", NEW c \in {CR, LF}, c = CR \/ s.char = LF, s.partial # NoLine
  PROVE  /\ Feed(s, c) \in ReaderStates /\ Feed(s, c).char = c /\ Feed(s, c).partial = NoLine
         /\ Feed(s, c).id = IF s.partial[1] = "id" THEN s.partial[2] ELSE s.id
         /\ Feed(s, c).data = IF s.partial[1] = "data" THEN s.partial[2] ELSE s.data
         /\ Feed(s, c).previous = s.previous /\ Feed(s, c).error = "no"
<1> DEFINE i == IF s.partial[1] = "id" THEN s.partial[2] ELSE s.id
           d == IF s.partial[1] = "data" THEN s.partial[2] ELSE s.data
<1>1. Feed(s, c) = [s EXCEPT !.partial = NoLine, !.char = c, !.id = i, !.data = d]
  BY CharsDiffer DEF Feed
<1>2. i \in AnyCursor /\ d \in AnyCursor
  <2>1. s.partial \in AnyText /\ s.id \in AnyCursor /\ s.data \in AnyCursor
    BY DEF ReaderStates
  <2>2. CASE s.partial = Comment
    BY <2>1, <2>2 DEF Comment
  <2>3. CASE s.partial \in {"id", "data"} \X AnyCursor
    BY <2>1, <2>3
  <2> QED BY <2>1, <2>2, <2>3 DEF AnyText
<1> HIDE DEF i, d
<1>3. Feed(s, c).id = i /\ Feed(s, c).data = d
  BY <1>1 DEF ReaderStates
<1> QED BY <1>1, <1>2, <1>3 DEF ReaderStates, i, d

(* A blank line ends a frame.                                                *)
LEMMA FeedDispatches ==
  ASSUME NEW s \in ReaderStates, s.error = "no", NEW c \in {CR, LF}, c = CR \/ s.char = LF, s.partial = NoLine
  PROVE  /\ Feed(s, c) \in ReaderStates /\ Feed(s, c).char = c /\ Feed(s, c).partial = NoLine
         /\ Feed(s, c).id = None /\ Feed(s, c).data = None
         /\ Feed(s, c).previous = IF s.data # None /\ Refused(s) = "no" THEN s.data ELSE s.previous
         /\ Feed(s, c).error = IF s.data = None THEN "no" ELSE Refused(s)
<1>1. Feed(s, c) = [Dispatched(s) EXCEPT !.char = c]
  BY CharsDiffer DEF Feed
<1>2. Refused(s) \in {"no", "invalid_event_stream", "event_stream_reset", "event_stream_failed"}
  BY DEF Refused
<1>3. s.data \in AnyCursor /\ None \in AnyCursor
  BY CharsDiffer DEF ReaderStates
<1>4. CASE s.data = None
  <2>1. Dispatched(s) = [s EXCEPT !.id = None]
    BY <1>4 DEF Dispatched
  <2> QED BY <1>1, <1>3, <1>4, <2>1 DEF ReaderStates
<1>5. CASE s.data # None /\ Refused(s) = "no"
  <2>1. Dispatched(s) = [s EXCEPT !.id = None, !.data = None, !.previous = s.data]
    BY <1>5 DEF Dispatched
  <2>2. Feed(s, c) = [partial |-> s.partial, char |-> c, id |-> None, data |-> None, previous |-> s.data, error |-> s.error]
    BY <1>1, <2>1 DEF ReaderStates
  <2>3. s.partial \in AnyText \union {NoLine}
    BY DEF ReaderStates
  <2>4. Feed(s, c) \in ReaderStates
    BY <1>3, <2>2, <2>3 DEF ReaderStates
  <2> QED BY <1>5, <2>2, <2>4
<1>6. CASE s.data # None /\ Refused(s) # "no"
  <2>1. Dispatched(s) = [s EXCEPT !.id = None, !.data = None, !.error = Refused(s)]
    BY <1>6 DEF Dispatched
  <2>2. Feed(s, c) = [partial |-> s.partial, char |-> c, id |-> None, data |-> None, previous |-> s.previous, error |-> Refused(s)]
    BY <1>1, <2>1 DEF ReaderStates
  <2>3. s.partial \in AnyText \union {NoLine} /\ s.previous \in AnyCursor
    BY DEF ReaderStates
  <2>4. Feed(s, c) \in ReaderStates
    BY <1>2, <1>3, <2>2, <2>3 DEF ReaderStates
  <2> QED BY <1>6, <2>2, <2>4
<1> QED BY <1>4, <1>5, <1>6

(* Whatever the character, the reader is in a state of its own.              *)
LEMMA FeedTyped == ASSUME NEW s \in ReaderStates, NEW c \in Chars PROVE Feed(s, c) \in ReaderStates
<1>1. CASE s.error # "no"
  BY <1>1, FeedStops
<1>2. CASE s.error = "no" /\ c \in AnyText
  BY <1>2, FeedBegins
<1>3. CASE s.error = "no" /\ c \in {CR, LF} /\ ~(c = LF /\ s.char = CR)
  <2>1. c = CR \/ s.char = LF
    BY <1>3 DEF ReaderStates
  <2> QED BY <1>3, <2>1, FeedEnds, FeedDispatches
<1>4. CASE s.error = "no" /\ c = LF /\ s.char = CR
  BY <1>4, FeedSkips
<1> QED BY <1>1, <1>2, <1>3, <1>4 DEF Chars

-----------------------------------------------------------------------------
(* Many characters: the states of the reader before and after each of them.  *)
IsRun(f, s, q, n) == f = [i \in 0..n |-> IF i = 0 THEN s ELSE Feed(f[i - 1], q[i])]

(* A run over any number of characters exists.                                *)
LEMMA RunExists ==
  ASSUME NEW s, NEW q, NEW n \in Nat
  PROVE  \E f : IsRun(f, s, q, n)
<1> DEFINE S == {m \in Nat : \E f : IsRun(f, s, q, m)}
<1>1. 0 \in S
  <2> DEFINE f == [i \in 0..0 |-> s]
  <2>1. IsRun(f, s, q, 0)
    BY DEF IsRun
  <2> QED BY <2>1
<1>2. ASSUME NEW m \in Nat, m \in S PROVE m + 1 \in S
  <2>1. PICK f : IsRun(f, s, q, m)
    BY <1>2
  <2> DEFINE g == [i \in 0..(m + 1) |-> IF i = m + 1 THEN Feed(f[m], q[i]) ELSE f[i]]
  <2>2. ASSUME NEW i \in 0..(m + 1)
        PROVE  g[i] = IF i = 0 THEN s ELSE Feed(g[i - 1], q[i])
    <3>1. CASE i = m + 1
      <4>1. g[i] = Feed(f[m], q[i]) /\ g[i - 1] = f[m] /\ i # 0
        BY <3>1
      <4> QED BY <4>1
    <3>2. CASE i # m + 1
      <4>1. i \in 0..m /\ g[i] = f[i]
        BY <3>2
      <4>2. f[i] = IF i = 0 THEN s ELSE Feed(f[i - 1], q[i])
        BY <2>1, <4>1 DEF IsRun
      <4>3. i # 0 => i - 1 \in 0..(m + 1) /\ i - 1 # m + 1
        BY <4>1
      <4>4. i # 0 => g[i - 1] = f[i - 1]
        BY <4>3
      <4> QED BY <4>1, <4>2, <4>4
    <3> QED BY <3>1, <3>2
  <2>3. IsRun(g, s, q, m + 1)
    <3> HIDE DEF g
    <3>1. g = [i \in 0..(m + 1) |-> g[i]]
      BY DEF g
    <3> QED BY <2>2, <3>1 DEF IsRun
  <2> QED BY <2>3
<1> HIDE DEF S
<1>3. n \in S
  BY <1>1, <1>2, Induction
<1> QED BY <1>3 DEF S

(* Over the same characters they are the same.                               *)
LEMMA RunsAgree ==
  ASSUME NEW s, NEW q, NEW r, NEW n \in Nat, NEW m \in Nat, NEW f, NEW g, IsRun(f, s, q, n), IsRun(g, s, r, m),
         NEW k \in Nat, k <= n, k <= m, \A i \in 1..k : q[i] = r[i]
  PROVE  f[k] = g[k]
<1> DEFINE S == {j \in Nat : j <= k => f[j] = g[j]}
<1>1. 0 \in S
  BY DEF IsRun
<1>2. ASSUME NEW j \in Nat, j \in S PROVE j + 1 \in S
  <2> SUFFICES ASSUME j + 1 <= k PROVE f[j + 1] = g[j + 1]
    OBVIOUS
  <2>1. f[j] = g[j]
    BY <1>2
  <2>2. j + 1 \in 0..n /\ j + 1 \in 0..m /\ j + 1 # 0 /\ (j + 1) - 1 = j /\ j + 1 \in 1..k
    OBVIOUS
  <2>3. f[j + 1] = Feed(f[j], q[j + 1])
    BY <2>2 DEF IsRun
  <2>4. g[j + 1] = Feed(g[j], r[j + 1])
    BY <2>2 DEF IsRun
  <2>5. q[j + 1] = r[j + 1]
    BY <2>2
  <2> QED BY <2>1, <2>3, <2>4, <2>5
<1> HIDE DEF S
<1>3. k \in S
  BY <1>1, <1>2, Induction
<1> QED BY <1>3 DEF S

(* A run begins where the reader is, and feeds it one character at a time.    *)
LEMMA RunSteps ==
  ASSUME NEW s, NEW q
  PROVE  /\ Run(s, q, 0) = s
         /\ \A n \in Nat : Run(s, q, n + 1) = Feed(Run(s, q, n), q[n + 1])
<1> DEFINE f(n) == CHOOSE g : IsRun(g, s, q, n)
<1>1. \A n \in Nat : IsRun(f(n), s, q, n)
  BY RunExists
<1>2. \A n : Run(s, q, n) = f(n)[n]
  BY DEF Run, IsRun
<1> HIDE DEF f
<1>3. Run(s, q, 0) = s
  BY <1>1, <1>2 DEF IsRun
<1>4. ASSUME NEW n \in Nat PROVE Run(s, q, n + 1) = Feed(Run(s, q, n), q[n + 1])
  <2>1. n + 1 \in 0..(n + 1) /\ n + 1 # 0 /\ (n + 1) - 1 = n /\ n + 1 \in Nat
    OBVIOUS
  <2>2. f(n + 1)[n + 1] = Feed(f(n + 1)[n], q[n + 1])
    BY <1>1, <2>1 DEF IsRun
  <2>3. f(n + 1)[n] = f(n)[n]
    BY <1>1, <2>1, RunsAgree
  <2> QED BY <1>2, <2>1, <2>2, <2>3
<1> QED BY <1>3, <1>4

(* A run over some of the characters is the beginning of a run over all.     *)
LEMMA RunPrefix ==
  ASSUME NEW s, NEW q, NEW r, NEW n \in Nat, \A i \in 1..n : q[i] = r[i]
  PROVE  Run(s, q, n) = Run(s, r, n)
<1> DEFINE f(x) == CHOOSE g : IsRun(g, s, x, n)
<1>1. IsRun(f(q), s, q, n) /\ IsRun(f(r), s, r, n)
  BY RunExists
<1>2. Run(s, q, n) = f(q)[n] /\ Run(s, r, n) = f(r)[n]
  BY DEF Run, IsRun
<1> HIDE DEF f
<1>3. n <= n
  OBVIOUS
<1> QED BY <1>1, <1>2, <1>3, RunsAgree

(* The rest of a run is a run over the rest of the characters.               *)
LEMMA RunRest ==
  ASSUME NEW s, NEW q, NEW r, NEW k \in Nat, NEW n \in Nat, \A i \in 1..n : r[i] = q[k + i]
  PROVE  Run(s, q, k + n) = Run(Run(s, q, k), r, n)
<1> DEFINE S == {j \in Nat : j <= n => Run(s, q, k + j) = Run(Run(s, q, k), r, j)}
<1>1. 0 \in S
  <2>1. Run(Run(s, q, k), r, 0) = Run(s, q, k) /\ k + 0 = k
    BY RunSteps
  <2> QED BY <2>1
<1>2. ASSUME NEW j \in Nat, j \in S PROVE j + 1 \in S
  <2> SUFFICES ASSUME j + 1 <= n PROVE Run(s, q, k + (j + 1)) = Run(Run(s, q, k), r, j + 1)
    OBVIOUS
  <2>1. Run(s, q, k + j) = Run(Run(s, q, k), r, j)
    BY <1>2
  <2>2. k + j \in Nat /\ k + (j + 1) = (k + j) + 1 /\ j + 1 \in 1..n
    OBVIOUS
  <2>3. Run(s, q, (k + j) + 1) = Feed(Run(s, q, k + j), q[(k + j) + 1])
    <3>1. \A m \in Nat : Run(s, q, m + 1) = Feed(Run(s, q, m), q[m + 1])
      BY RunSteps
    <3>2. k + j \in Nat
      OBVIOUS
    <3> QED BY <3>1, <3>2
  <2>4. Run(Run(s, q, k), r, j + 1) = Feed(Run(Run(s, q, k), r, j), r[j + 1])
    BY RunSteps
  <2>5. r[j + 1] = q[(k + j) + 1]
    BY <2>2
  <2> QED BY <2>1, <2>2, <2>3, <2>4, <2>5
<1> HIDE DEF S
<1>3. n \in S
  BY <1>1, <1>2, Induction
<1> QED BY <1>3 DEF S

(* A run over characters leaves the reader in one of its states.              *)
LEMMA RunTyped ==
  ASSUME NEW s \in ReaderStates, NEW q \in Seq(Chars), NEW n \in 0..Len(q)
  PROVE  Run(s, q, n) \in ReaderStates
<1> DEFINE S == {m \in Nat : m <= Len(q) => Run(s, q, m) \in ReaderStates}
<1>1. 0 \in S
  BY RunSteps
<1>2. ASSUME NEW m \in Nat, m \in S PROVE m + 1 \in S
  <2> SUFFICES ASSUME m + 1 <= Len(q) PROVE Run(s, q, m + 1) \in ReaderStates
    OBVIOUS
  <2>1. Len(q) \in Nat /\ m + 1 \in 1..Len(q)
    BY LenProperties
  <2>2. q[m + 1] \in Chars
    BY <2>1, ElementOfSeq
  <2>3. Run(s, q, m) \in ReaderStates
    BY <1>2, <2>1
  <2>4. Run(s, q, m + 1) = Feed(Run(s, q, m), q[m + 1])
    BY RunSteps
  <2> QED BY <2>2, <2>3, <2>4, FeedTyped
<1> HIDE DEF S
<1>3. n \in Nat /\ n <= Len(q)
  BY LenProperties
<1>4. n \in S
  BY <1>1, <1>2, <1>3, Induction
<1> QED BY <1>3, <1>4 DEF S

(* After an error there is nothing more to a run.                             *)
LEMMA RunStops ==
  ASSUME NEW s, s.error # "no", NEW q, NEW n \in Nat
  PROVE  Run(s, q, n) = s
<1> DEFINE S == {m \in Nat : Run(s, q, m) = s}
<1>1. 0 \in S
  BY RunSteps
<1>2. ASSUME NEW m \in Nat, m \in S PROVE m + 1 \in S
  <2>1. Run(s, q, m + 1) = Feed(Run(s, q, m), q[m + 1])
    BY RunSteps
  <2> QED BY <1>2, <2>1, FeedStops
<1> HIDE DEF S
<1>3. n \in S
  BY <1>1, <1>2, Induction
<1> QED BY <1>3 DEF S

-----------------------------------------------------------------------------
After(s, q) == Run(s, q, Len(q))

(* Nothing is wrong with a run whose first step is, and whose rest is.       *)
LEMMA FineTail ==
  ASSUME NEW s, NEW q \in Seq(Chars), q # <<>>, NEW h, Fine(s, q, h)
  PROVE  /\ FollowsIn(s, Feed(s, Head(q))) /\ (h => Feed(s, Head(q)).error # "invalid_event_stream")
         /\ Fine(Feed(s, Head(q)), Tail(q), h)
         /\ After(Feed(s, Head(q)), Tail(q)) = After(s, q)
<1> DEFINE others == Tail(q)
           u == Feed(s, Head(q))
<1>1. /\ Len(q) \in Nat \ {0} /\ Len(others) = Len(q) - 1 /\ Head(q) = q[1]
      /\ \A i \in 1..Len(others) : others[i] = q[i + 1]
  BY EmptySeq, HeadTailProperties
<1>2. Run(s, q, 0) = s /\ Run(s, q, 1) = u
  <2>1. Run(s, q, 0 + 1) = Feed(Run(s, q, 0), q[0 + 1]) /\ Run(s, q, 0) = s
    BY RunSteps
  <2> QED BY <1>1, <2>1
<1>3. FollowsIn(s, u) /\ (h => u.error # "invalid_event_stream")
  <2>1. 0 \in 0..Len(q) - 1
    BY <1>1
  <2>2. /\ FollowsIn(Run(s, q, 0), Run(s, q, 0 + 1))
        /\ h => Run(s, q, 0 + 1).error # "invalid_event_stream"
    BY <2>1 DEF Fine
  <2>3. 0 + 1 = 1
    OBVIOUS
  <2> QED BY <1>2, <2>2, <2>3
<1> HIDE DEF others, u
<1>4. ASSUME NEW j \in 0..Len(others) PROVE Run(s, q, j + 1) = Run(u, others, j)
  <2>1. j \in Nat /\ 1 + j = j + 1 /\ \A i \in 1..j : others[i] = q[1 + i]
    BY <1>1
  <2>2. Run(s, q, 1 + j) = Run(Run(s, q, 1), others, j)
    <3> DEFINE all == q
               one == 1
    <3>1. one \in Nat /\ j \in Nat /\ \A i \in 1..j : others[i] = all[one + i]
      BY <2>1
    <3> HIDE DEF all, one
    <3>2. Run(s, all, one + j) = Run(Run(s, all, one), others, j)
      <4>1. \A x, y : \A a, b \in Nat : (\A i \in 1..b : y[i] = x[a + i]) => Run(s, x, a + b) = Run(Run(s, x, a), y, b)
        BY RunRest
      <4>2. (\A i \in 1..j : others[i] = all[one + i]) => Run(s, all, one + j) = Run(Run(s, all, one), others, j)
        BY <3>1, <4>1
      <4> QED BY <3>1, <4>2
    <3> QED BY <3>2 DEF all, one
  <2> QED BY <1>2, <2>1, <2>2
<1>5. Fine(u, others, h)
  <2>1. ASSUME NEW i \in 0..Len(others) - 1
        PROVE  /\ FollowsIn(Run(u, others, i), Run(u, others, i + 1))
               /\ h => Run(u, others, i + 1).error # "invalid_event_stream"
    <3>1. i + 1 \in 0..Len(q) - 1 /\ i \in 0..Len(others) /\ i + 1 \in 0..Len(others)
      BY <1>1
    <3>2. /\ FollowsIn(Run(s, q, i + 1), Run(s, q, (i + 1) + 1))
          /\ h => Run(s, q, (i + 1) + 1).error # "invalid_event_stream"
      BY <3>1 DEF Fine
    <3> QED BY <1>4, <3>1, <3>2
  <2> QED BY <2>1 DEF Fine
<1>6. After(u, others) = After(s, q)
  <2>1. Len(others) \in 0..Len(others) /\ Len(others) + 1 = Len(q)
    BY <1>1
  <2> QED BY <1>4, <2>1 DEF After
<1> QED BY <1>3, <1>5, <1>6 DEF others, u

(* Nor with the beginning of one.                                            *)
LEMMA FinePrefix ==
  ASSUME NEW s, NEW q \in Seq(Chars), NEW r \in Seq(Chars), Len(r) <= Len(q), \A i \in 1..Len(r) : r[i] = q[i],
         NEW h, Fine(s, q, h)
  PROVE  Fine(s, r, h)
<1>1. Len(r) \in Nat /\ Len(q) \in Nat
  BY LenProperties
<1>2. ASSUME NEW i \in 0..Len(r) PROVE Run(s, r, i) = Run(s, q, i)
  <2>1. i \in Nat /\ \A j \in 1..i : r[j] = q[j]
    BY <1>1
  <2> QED BY <2>1, RunPrefix
<1>3. ASSUME NEW i \in 0..Len(r) - 1
      PROVE  /\ FollowsIn(Run(s, r, i), Run(s, r, i + 1))
             /\ h => Run(s, r, i + 1).error # "invalid_event_stream"
  <2>1. i \in 0..Len(r) /\ i + 1 \in 0..Len(r) /\ i \in 0..Len(q) - 1
    BY <1>1
  <2>2. /\ FollowsIn(Run(s, q, i), Run(s, q, i + 1))
        /\ h => Run(s, q, i + 1).error # "invalid_event_stream"
    BY <2>1 DEF Fine
  <2> QED BY <1>2, <2>1, <2>2
<1> QED BY <1>3 DEF Fine

(* Two runs, one after the other.                                            *)
LEMMA FineJoined ==
  ASSUME NEW s, NEW q \in Seq(Chars), NEW r \in Seq(Chars), NEW h, Fine(s, q, h), Fine(After(s, q), r, h)
  PROVE  /\ q \o r \in Seq(Chars)
         /\ Fine(s, q \o r, h) /\ After(s, q \o r) = After(After(s, q), r)
<1> DEFINE w == q \o r
           u == After(s, q)
           m == Len(q)
           n == Len(r)
<1>1. /\ w \in Seq(Chars) /\ Len(w) = m + n /\ m \in Nat /\ n \in Nat
      /\ \A i \in 1..m + n : w[i] = IF i <= m THEN q[i] ELSE r[i - m]
  BY ConcatProperties, LenProperties
<1>2. Run(s, q, m) = u
  BY DEF After
<1> HIDE DEF w, u, m, n
<1>3. ASSUME NEW i \in 0..m PROVE Run(s, w, i) = Run(s, q, i)
  <2>1. i \in Nat /\ \A j \in 1..i : w[j] = q[j]
    BY <1>1
  <2> QED BY <2>1, RunPrefix
<1>4. ASSUME NEW i \in 0..n PROVE Run(s, w, m + i) = Run(u, r, i)
  <2>1. ASSUME NEW j \in 1..i PROVE r[j] = w[m + j]
    <3>1. m + j \in 1..m + n /\ ~(m + j <= m) /\ (m + j) - m = j
      BY <1>1
    <3> QED BY <1>1, <3>1
  <2>2. i \in Nat
    OBVIOUS
  <2>3. Run(s, w, m + i) = Run(Run(s, w, m), r, i)
    BY <1>1, <2>1, <2>2, RunRest
  <2>4. Run(s, w, m) = u
    <3>1. m \in 0..m
      BY <1>1
    <3> QED BY <1>2, <1>3, <3>1
  <2> QED BY <2>3, <2>4
<1>5. ASSUME NEW i \in 0..Len(w) - 1
      PROVE  /\ FollowsIn(Run(s, w, i), Run(s, w, i + 1))
             /\ h => Run(s, w, i + 1).error # "invalid_event_stream"
  <2>1. CASE i < m
    <3>1. i \in 0..m /\ i + 1 \in 0..m /\ i \in 0..m - 1
      BY <1>1, <2>1
    <3>2. /\ FollowsIn(Run(s, q, i), Run(s, q, i + 1))
          /\ h => Run(s, q, i + 1).error # "invalid_event_stream"
      BY <3>1 DEF Fine, m
    <3> QED BY <1>3, <3>1, <3>2
  <2>2. CASE i >= m
    <3> DEFINE j == i - m
    <3>1. j \in 0..n /\ j + 1 \in 0..n /\ j \in 0..n - 1 /\ i = m + j /\ i + 1 = m + (j + 1)
      BY <1>1, <2>2
    <3> HIDE DEF j
    <3>2. /\ FollowsIn(Run(u, r, j), Run(u, r, j + 1))
          /\ h => Run(u, r, j + 1).error # "invalid_event_stream"
      BY <3>1 DEF Fine, n, u
    <3> QED BY <1>4, <3>1, <3>2
  <2> QED BY <1>1, <2>1, <2>2
<1>6. Run(s, w, Len(w)) = Run(u, r, n)
  <2>1. n \in 0..n
    BY <1>1
  <2> QED BY <1>1, <1>4, <2>1
<1> QED BY <1>1, <1>5, <1>6 DEF Fine, After, w, u, n

(* A run over one character.                                                 *)
LEMMA FineOne ==
  ASSUME NEW s, NEW c \in Chars, NEW h, FollowsIn(s, Feed(s, c)), h => Feed(s, c).error # "invalid_event_stream"
  PROVE  <<c>> \in Seq(Chars) /\ Fine(s, <<c>>, h) /\ After(s, <<c>>) = Feed(s, c)
<1> DEFINE q == <<c>>
<1>1. q \in Seq(Chars) /\ Len(q) = 1 /\ q[1] = c
  OBVIOUS
<1> HIDE DEF q
<1>2. Run(s, q, 0) = s /\ Run(s, q, 0 + 1) = Feed(Run(s, q, 0), q[0 + 1])
  BY RunSteps
<1>3. Run(s, q, 1) = Feed(s, c)
  BY <1>1, <1>2
<1>4. \A i \in 0..Len(q) - 1 : i = 0 /\ i + 1 = 1
  BY <1>1
<1>5. Fine(s, q, h)
  BY <1>2, <1>3, <1>4 DEF Fine
<1> QED BY <1>1, <1>3, <1>5 DEF After, q

(* A reader that has stopped finds nothing more wrong.                       *)
LEMMA FineStopped ==
  ASSUME NEW s, s.error # "no", NEW q \in Seq(Chars), NEW h, h => s.error # "invalid_event_stream"
  PROVE  Fine(s, q, h) /\ After(s, q) = s
<1>1. Len(q) \in Nat
  BY LenProperties
<1>2. \A i \in Nat : Run(s, q, i) = s
  BY RunStops
<1>3. \A i \in 0..Len(q) - 1 : i \in Nat /\ i + 1 \in Nat
  BY <1>1
<1>4. FollowsIn(s, s)
  BY DEF FollowsIn
<1> QED BY <1>1, <1>2, <1>3, <1>4 DEF Fine, After

(* What is fine of a run is fine of where it ends.                           *)
LEMMA FineToTheEnd ==
  ASSUME NEW s, NEW q \in Seq(Chars), NEW h, Fine(s, q, h), h => s.error # "invalid_event_stream"
  PROVE  /\ Fine(s, q, FALSE)
         /\ h => After(s, q).error # "invalid_event_stream"
<1>1. Fine(s, q, FALSE)
  BY DEF Fine
<1> DEFINE n == Len(q)
<1>2. n \in Nat
  BY LenProperties
<1>3. ASSUME h PROVE Run(s, q, n).error # "invalid_event_stream"
  <2>1. CASE n = 0
    <3>1. Run(s, q, n) = s
      BY <2>1, RunSteps
    <3> QED BY <1>3, <3>1
  <2>2. CASE n # 0
    <3>1. n - 1 \in 0..n - 1 /\ (n - 1) + 1 = n
      BY <1>2, <2>2
    <3>2. Run(s, q, (n - 1) + 1).error # "invalid_event_stream"
      BY <1>3, <3>1 DEF Fine
    <3> QED BY <3>1, <3>2
  <2> QED BY <2>1, <2>2
<1> QED BY <1>1, <1>3 DEF After

(* The order in which characters are joined is of no account.                *)
LEMMA CharsJoin ==
  ASSUME NEW p \in Seq(Chars), NEW q \in Seq(Chars), NEW r \in Seq(Chars)
  PROVE  (p \o q) \o r = p \o (q \o r)
BY ConcatAssociative, SMTT(60)

-----------------------------------------------------------------------------
(* A line ending has the effect of its first character.                      *)
LEMMA EndingFine ==
  ASSUME NEW s \in ReaderStates, s.error = "no", NEW e \in Endings, e = <<LF>> => s.char = LF, NEW h,
         FollowsIn(s, Feed(s, e[1])), h => Feed(s, e[1]).error # "invalid_event_stream"
  PROVE  LET v == Feed(s, e[1])
             u == After(s, e)
         IN  /\ e \in Seq(Chars) /\ Fine(s, e, h) /\ u \in ReaderStates
             /\ u.partial = v.partial /\ u.id = v.id /\ u.data = v.data
             /\ u.previous = v.previous /\ u.error = v.error
             /\ e = <<LF>> => u.char = LF
<1> DEFINE v == Feed(s, e[1])
<1>1. CR \in Chars /\ LF \in Chars /\ CR # LF
  BY CharsDiffer DEF Chars
<1>2. e[1] \in {CR, LF} /\ (e[1] = CR \/ s.char = LF)
  BY DEF Endings
<1>3. v \in ReaderStates /\ v.char = e[1]
  BY <1>2, FeedEnds, FeedDispatches
<1>4. CASE Len(e) = 1
  <2>1. e = <<e[1]>>
    BY <1>4 DEF Endings
  <2>2. e[1] \in Chars
    BY <1>1, <1>2
  <2>3. <<e[1]>> \in Seq(Chars) /\ Fine(s, <<e[1]>>, h) /\ After(s, <<e[1]>>) = v
    BY <2>2, FineOne
  <2>4. e \in Seq(Chars) /\ Fine(s, e, h) /\ After(s, e) = v
    BY <2>1, <2>3
  <2>5. e = <<LF>> => v.char = LF
    BY <1>3
  <2> QED BY <1>3, <2>4, <2>5
<1>5. CASE e = <<CR, LF>>
  <2>1. e[1] = CR /\ e = <<CR>> \o <<LF>> /\ e # <<LF>>
    <3>1. e = <<CR>> \o <<LF>> /\ e # <<LF>>
      BY <1>5, EndingsAreChars
    <3>2. e[1] = CR
      BY <1>5
    <3> QED BY <3>1, <3>2
  <2>2. <<CR>> \in Seq(Chars) /\ Fine(s, <<CR>>, h) /\ After(s, <<CR>>) = v
    BY <1>1, <2>1, FineOne
  <2> DEFINE w == Feed(v, LF)
  <2>3. /\ w \in ReaderStates
        /\ w.partial = v.partial /\ w.id = v.id /\ w.data = v.data /\ w.previous = v.previous /\ w.error = v.error
    <3>1. CASE v.error = "no"
      BY <1>3, <2>1, <3>1, FeedSkips
    <3>2. CASE v.error # "no"
      BY <1>3, <3>2, FeedStops
    <3> QED BY <3>1, <3>2
  <2>4. FollowsIn(v, w) /\ (h => w.error # "invalid_event_stream")
    BY <2>3 DEF FollowsIn
  <2>5. <<LF>> \in Seq(Chars) /\ Fine(v, <<LF>>, h) /\ After(v, <<LF>>) = w
    BY <1>1, <2>4, FineOne
  <2> HIDE DEF v, w
  <2>6. /\ <<CR>> \o <<LF>> \in Seq(Chars) /\ Fine(s, <<CR>> \o <<LF>>, h)
        /\ After(s, <<CR>> \o <<LF>>) = After(After(s, <<CR>>), <<LF>>)
    <3> DEFINE a == <<CR>>
               b == <<LF>>
    <3>1. a \in Seq(Chars) /\ b \in Seq(Chars) /\ Fine(s, a, h) /\ Fine(After(s, a), b, h)
      BY <2>2, <2>5
    <3> HIDE DEF a, b
    <3>2. a \o b \in Seq(Chars) /\ Fine(s, a \o b, h) /\ After(s, a \o b) = After(After(s, a), b)
      BY <3>1, FineJoined
    <3> QED BY <3>2 DEF a, b
  <2>7. e \in Seq(Chars) /\ Fine(s, e, h) /\ After(s, e) = w
    BY <2>1, <2>2, <2>5, <2>6
  <2> QED BY <2>1, <2>3, <2>7 DEF v
<1>6. Len(e) = 1 \/ e = <<CR, LF>>
  BY DEF Endings
<1> QED BY <1>4, <1>5, <1>6

(* A line of text: the id or the data of its frame, or a comment.            *)
LEMMA TextFine ==
  ASSUME NEW s \in ReaderStates, s.error = "no", s.partial = NoLine, NEW t \in AnyText, NEW e \in Endings, NEW h
  PROVE  LET q == <<t>> \o e
             u == After(s, q)
         IN  /\ q \in Seq(Chars) /\ Fine(s, q, h) /\ u \in ReaderStates
             /\ u.partial = NoLine /\ u.previous = s.previous /\ u.error = "no"
             /\ u.id = IF t[1] = "id" THEN t[2] ELSE s.id
             /\ u.data = IF t[1] = "data" THEN t[2] ELSE s.data
             /\ e = <<LF>> => u.char = LF
<1> DEFINE v == Feed(s, t)
           w == Feed(v, e[1])
           one == <<t>>
<1>1. /\ v \in ReaderStates /\ v.char = LF /\ v.partial = t /\ v.id = s.id /\ v.data = s.data
      /\ v.previous = s.previous /\ v.error = "no"
  BY FeedBegins
<1>2. FollowsIn(s, v) /\ t \in Chars
  BY <1>1 DEF FollowsIn, Chars
<1>3. one \in Seq(Chars) /\ Fine(s, one, h) /\ After(s, one) = v
  BY <1>1, <1>2, FineOne
<1> HIDE DEF v, one
<1>4. e[1] \in {CR, LF} /\ v.partial # NoLine
  BY <1>1, CharsDiffer DEF Endings
<1>5. /\ w.partial = NoLine /\ w.previous = s.previous /\ w.error = "no"
      /\ w.id = IF t[1] = "id" THEN t[2] ELSE s.id
      /\ w.data = IF t[1] = "data" THEN t[2] ELSE s.data
  BY <1>1, <1>4, FeedEnds
<1>6. FollowsIn(v, w)
  BY <1>1, <1>5 DEF FollowsIn
<1> DEFINE u == After(v, e)
<1>7. /\ e \in Seq(Chars) /\ Fine(v, e, h) /\ u \in ReaderStates
      /\ u.partial = w.partial /\ u.id = w.id /\ u.data = w.data /\ u.previous = w.previous /\ u.error = w.error
      /\ e = <<LF>> => u.char = LF
  BY <1>1, <1>5, <1>6, EndingFine
<1>8. one \o e \in Seq(Chars) /\ Fine(s, one \o e, h) /\ After(s, one \o e) = u
  BY <1>3, <1>7, FineJoined
<1> HIDE DEF u, w
<1> QED BY <1>5, <1>7, <1>8 DEF one

(* The characters of an event's frame.                                        *)
FrameOf(c, e) == <<<<"id", c>>>> \o e \o <<<<"data", c>>>> \o e \o e

(* The frame of an event, the next one or one sent again, leaves the reader  *)
(* between two frames.                                                       *)
LEMMA FrameFine ==
  ASSUME NEW s \in ReaderStates, NEW e \in Endings, NEW t \in Nat \ {0}, NEW k \in Nat, NEW n \in Nat \ {0}, NEW m \in Nat,
         Boundary(s, e, t, k), NEW h, h => s.error # "invalid_event_stream",
         \/ n = k + 1 /\ m = k + 1
         \/ n <= k /\ m = k /\ ~h
  PROVE  LET q == FrameOf([stream |-> t, sequence |-> n], e)
         IN  q \in Seq(Chars) /\ Fine(s, q, h) /\ Boundary(After(s, q), e, t, m)
<1> DEFINE c == [stream |-> t, sequence |-> n]
           x == <<"id", c>>
           y == <<"data", c>>
           a == <<x>> \o e
           b == <<y>> \o e
<1>1. c \in AnyCursor /\ x \in AnyText /\ y \in AnyText
  BY DEF AnyCursor, AnyText
<1>2. c.stream = t /\ c.sequence = n /\ c # None /\ c # Failure
  BY DEF None, Failure
<1>3. x[1] = "id" /\ x[2] = c /\ y[1] = "data" /\ y[2] = c
  OBVIOUS
<1>4. <<x>> \in Seq(Chars) /\ <<y>> \in Seq(Chars) /\ e \in Seq(Chars)
  <2>1. x \in Chars /\ y \in Chars /\ CR \in Chars /\ LF \in Chars
    BY <1>1 DEF Chars
  <2>2. e \in Seq(Chars)
    BY EndingsAreChars
  <2> QED BY <2>1, <2>2
<1>5. a \in Seq(Chars) /\ b \in Seq(Chars) /\ a \o b \in Seq(Chars) /\ (a \o b) \o e \in Seq(Chars)
  BY <1>4, ConcatProperties
<1> HIDE DEF x, y, c
<1>6. FrameOf(c, e) = (a \o b) \o e
  <2>1. FrameOf(c, e) = (((<<x>> \o e) \o <<y>>) \o e) \o e
    BY DEF FrameOf, x, y
  <2> DEFINE o == <<y>>
  <2> HIDE DEF a
  <2>2. o \in Seq(Chars)
    BY <1>4
  <2> HIDE DEF o
  <2>3. (a \o o) \o e = a \o (o \o e)
    BY <1>4, <1>5, <2>2, CharsJoin, SMTT(60)
  <2> QED BY <2>1, <2>3 DEF a, o
<1>7. CASE s.error # "no"
  <2> DEFINE q == (a \o b) \o e
  <2> HIDE DEF q
  <2>1. q \in Seq(Chars)
    BY <1>5 DEF q
  <2>2. Fine(s, q, h) /\ After(s, q) = s
    BY <1>7, <2>1, FineStopped
  <2>3. Boundary(After(s, q), e, t, m)
    BY <1>7, <2>2 DEF Boundary
  <2> QED BY <1>6, <2>1, <2>2, <2>3 DEF q, c
<1>8. CASE s.error = "no"
  <2> DEFINE u == After(s, a)
             v == After(u, b)
  <2>1. /\ s.partial = NoLine /\ s.id = None /\ s.data = None
        /\ s.previous.stream = t => s.previous.sequence = k
        /\ s.previous = None => k <= 1
    BY <1>8 DEF Boundary
  <2>2. /\ Fine(s, a, h) /\ u \in ReaderStates /\ u.partial = NoLine /\ u.previous = s.previous /\ u.error = "no"
        /\ u.id = c
    BY <1>1, <1>3, <1>8, <2>1, TextFine
  <2> HIDE DEF u, a
  <2>3. /\ Fine(u, b, h) /\ v \in ReaderStates /\ v.partial = NoLine /\ v.previous = s.previous /\ v.error = "no"
        /\ v.id = c /\ v.data = c
        /\ e = <<LF>> => v.char = LF
    <3>1. y[1] # "id"
      BY <1>3
    <3> QED BY <1>1, <1>3, <2>2, <3>1, TextFine
  <2> HIDE DEF v, b
  <2> DEFINE w == Feed(v, e[1])
             p == s.previous
  <2>4. p \in AnyCursor
    BY DEF ReaderStates
  <2> HIDE DEF p
  <2>5. Refused(v) = IF p = None THEN "no"
                     ELSE IF p.stream # t THEN "event_stream_reset"
                     ELSE IF n <= p.sequence THEN "invalid_event_stream" ELSE "no"
    BY <1>2, <2>3 DEF Refused, p
  <2>6. /\ w.partial = NoLine /\ w.id = None /\ w.data = None /\ w.error = Refused(v)
        /\ w.previous = IF Refused(v) = "no" THEN c ELSE p
    <3>1. e[1] \in {CR, LF} /\ (e[1] = CR \/ v.char = LF)
      BY <2>3 DEF Endings
    <3> QED BY <1>2, <2>3, <3>1, FeedDispatches DEF p
  <2> HIDE DEF w
  <2>7. p.stream \in Nat /\ p.sequence \in Nat /\ (p.stream = t => p.sequence = k) /\ (p = None => k <= 1)
    BY <2>1, <2>4 DEF AnyCursor, p
  <2>8. FollowsIn(v, w)
    <3>1. SUFFICES ASSUME p # w.previous, p # None PROVE c.stream = p.stream /\ c.sequence = p.sequence + 1
      BY <2>3, <2>6 DEF FollowsIn, p
    <3>2. Refused(v) = "no"
      BY <2>6, <3>1
    <3>3. p.stream = t /\ ~(n <= p.sequence)
      BY <2>5, <3>1, <3>2
    <3>4. p.sequence = k /\ n = k + 1
      BY <2>7, <3>3
    <3> QED BY <1>2, <3>3, <3>4
  <2>9. h => w.error # "invalid_event_stream"
    <3>1. SUFFICES ASSUME h, Refused(v) = "invalid_event_stream" PROVE FALSE
      BY <2>6
    <3>2. p.stream = t /\ n <= p.sequence
      BY <2>5, <3>1
    <3>3. n = k + 1
      BY <3>1
    <3> QED BY <2>7, <3>2, <3>3
  <2> DEFINE z == After(v, e)
  <2>10. /\ Fine(v, e, h) /\ z.partial = NoLine /\ z.id = None /\ z.data = None
         /\ z.previous = w.previous /\ z.error = w.error
         /\ e = <<LF>> => z.char = LF
    BY <2>3, <2>6, <2>8, <2>9, EndingFine DEF w
  <2> HIDE DEF z
  <2>11. Boundary(z, e, t, m)
    <3>1. SUFFICES ASSUME z.error = "no"
                   PROVE  /\ z.previous.stream = t => z.previous.sequence = m
                          /\ z.previous = None => m <= 1
      BY <2>10 DEF Boundary
    <3>2. z.previous = c /\ Refused(v) = "no"
      BY <2>6, <2>10, <3>1
    <3>3. n = m
      <4>1. CASE p = None
        BY <2>7, <4>1
      <4>2. CASE p # None
        <5>1. p.stream = t /\ ~(n <= p.sequence)
          BY <2>5, <3>2, <4>2
        <5> QED BY <2>7, <5>1
      <4> QED BY <4>1, <4>2
    <3> QED BY <1>2, <3>2, <3>3
  <2>12. Fine(s, a \o b, h) /\ After(s, a \o b) = v
    BY <1>5, <2>2, <2>3, FineJoined DEF u, v
  <2> DEFINE d == a \o b
  <2>13. d \in Seq(Chars) /\ Fine(s, d, h) /\ After(s, d) = v /\ d \o e \in Seq(Chars)
    BY <1>5, <2>12
  <2> HIDE DEF d
  <2>14. Fine(s, d \o e, h) /\ After(s, d \o e) = z
    BY <1>4, <2>10, <2>13, FineJoined DEF z
  <2> QED BY <1>6, <2>11, <2>13, <2>14 DEF d, c
<1> QED BY <1>7, <1>8

(* A comment changes nothing.                                                *)
LEMMA CommentFine ==
  ASSUME NEW s \in ReaderStates, NEW e \in Endings, NEW t, NEW k, Boundary(s, e, t, k),
         NEW h, h => s.error # "invalid_event_stream"
  PROVE  LET q == <<Comment>> \o e
         IN  q \in Seq(Chars) /\ Fine(s, q, h) /\ Boundary(After(s, q), e, t, k)
<1> DEFINE q == <<Comment>> \o e
<1>1. Comment \in AnyText /\ Comment[1] # "id" /\ Comment[1] # "data"
  BY DEF AnyText, Comment
<1>2. q \in Seq(Chars)
  <2>1. Comment \in Chars /\ CR \in Chars /\ LF \in Chars
    BY <1>1 DEF Chars
  <2>2. <<Comment>> \in Seq(Chars) /\ e \in Seq(Chars)
    BY <2>1, EndingsAreChars
  <2> QED BY <2>2, ConcatProperties
<1>3. CASE s.error # "no"
  <2> HIDE DEF q
  <2>1. Fine(s, q, h) /\ After(s, q) = s
    BY <1>2, <1>3, FineStopped
  <2> QED BY <1>2, <2>1 DEF q
<1>4. CASE s.error = "no"
  <2> DEFINE u == After(s, q)
  <2>1. s.partial = NoLine /\ s.id = None /\ s.data = None
    BY <1>4 DEF Boundary
  <2>2. /\ Fine(s, q, h) /\ u.partial = NoLine /\ u.previous = s.previous /\ u.error = "no"
        /\ u.id = s.id /\ u.data = s.data
        /\ e = <<LF>> => u.char = LF
    BY <1>1, <1>4, <2>1, TextFine
  <2> HIDE DEF u, q
  <2>3. Boundary(u, e, t, k)
    BY <1>4, <2>1, <2>2 DEF Boundary
  <2> QED BY <1>2, <2>2, <2>3 DEF u, q
<1> QED BY <1>3, <1>4

(* The characters of a frame that is no event.                               *)
NoEventOf(d, e) == <<<<"data", d>>>> \o e \o e

(* It is refused, and an error is reported as one.                           *)
LEMMA NoEventFine ==
  ASSUME NEW s \in ReaderStates, NEW e \in Endings, NEW t, NEW k, Boundary(s, e, t, k),
         NEW d \in AnyCursor, d # None, NEW h, h => d = Failure /\ s.error # "invalid_event_stream"
  PROVE  LET q == NoEventOf(d, e)
         IN  q \in Seq(Chars) /\ Fine(s, q, h)
<1> DEFINE y == <<"data", d>>
           a == <<y>> \o e
<1>1. y \in AnyText /\ y[1] = "data" /\ y[1] # "id" /\ y[2] = d
  BY DEF AnyText
<1>2. <<y>> \in Seq(Chars) /\ e \in Seq(Chars)
  <2>1. y \in Chars
    BY <1>1 DEF Chars
  <2> QED BY <2>1, EndingsAreChars
<1>3. a \in Seq(Chars) /\ a \o e \in Seq(Chars)
  BY <1>2, ConcatProperties
<1>4. NoEventOf(d, e) = a \o e
  BY DEF NoEventOf
<1> HIDE DEF y
<1>5. CASE s.error # "no"
  <2> DEFINE q == a \o e
  <2>1. q \in Seq(Chars)
    BY <1>3
  <2> HIDE DEF q, a
  <2>2. Fine(s, q, h)
    BY <1>5, <2>1, FineStopped
  <2> QED BY <1>4, <2>1, <2>2 DEF q
<1>6. CASE s.error = "no"
  <2> DEFINE v == After(s, a)
             w == Feed(v, e[1])
  <2>1. s.partial = NoLine /\ s.id = None
    BY <1>6 DEF Boundary
  <2>2. /\ Fine(s, a, h) /\ v \in ReaderStates /\ v.partial = NoLine /\ v.previous = s.previous /\ v.error = "no"
        /\ v.id = None /\ v.data = d
        /\ e = <<LF>> => v.char = LF
    BY <1>1, <1>6, <2>1, TextFine
  <2> HIDE DEF v, a
  <2>3. Refused(v) = IF d = Failure THEN "event_stream_failed" ELSE "invalid_event_stream"
    BY <2>2 DEF Refused
  <2>4. w.error = Refused(v) /\ w.previous = v.previous
    <3>1. e[1] \in {CR, LF} /\ (e[1] = CR \/ v.char = LF)
      BY <2>2 DEF Endings
    <3> QED BY <2>2, <2>3, <3>1, FeedDispatches
  <2>5. FollowsIn(v, w) /\ (h => w.error # "invalid_event_stream")
    BY <2>3, <2>4 DEF FollowsIn
  <2> HIDE DEF w
  <2>6. Fine(v, e, h)
    BY <2>2, <2>5, EndingFine DEF w
  <2>7. Fine(s, a \o e, h)
    BY <1>2, <1>3, <2>2, <2>6, FineJoined DEF v
  <2> QED BY <1>3, <1>4, <2>7
<1> QED BY <1>5, <1>6

-----------------------------------------------------------------------------
(* The reader where it is, and the characters that are to come: those of its *)
(* chunk and those on their way.                                             *)
Reader == [partial |-> partial, char |-> IF skipLF THEN CR ELSE LF, id |-> id, data |-> data,
           previous |-> previous, error |-> "no"]
Coming == chunk \o wire

StreamTypes ==
    /\ stream \in Nat \ {0} /\ sent \in Nat /\ honest \in BOOLEAN /\ ending \in Endings
    /\ wire \in Seq(Chars) /\ chunk \in Seq(Chars)
    /\ link \in Links
    /\ partial \in AnyText \union {NoLine} /\ skipLF \in BOOLEAN
    /\ id \in AnyCursor /\ data \in AnyCursor /\ previous \in AnyCursor /\ last \in AnyCursor

(* What is to come will be read without a gap and, from an honest platform,  *)
(* without an error; while there is a connection it leaves the reader        *)
(* between two frames, after the last event sent.                            *)
ComingInv == link \in {"on", "eof"} => Fine(Reader, Coming, honest) /\ last = previous
SentInv == link = "on" => Boundary(After(Reader, Coming), ending, stream, sent)
IdleInv == link = "off" => Coming = <<>> /\ partial = NoLine /\ ~skipLF /\ id = None /\ data = None
StreamInv == StreamTypes /\ ComingInv /\ SentInv /\ IdleInv /\ WellFormedIsAccepted

(* The reader and what is to come have the types the lemmas ask for.         *)
LEMMA ReaderTyped ==
  ASSUME StreamTypes
  PROVE  Reader \in ReaderStates /\ Coming \in Seq(Chars) /\ After(Reader, Coming) \in ReaderStates
<1>1. Reader \in ReaderStates
  BY DEF Reader, ReaderStates, StreamTypes
<1>2. Coming \in Seq(Chars)
  BY ConcatProperties DEF Coming, StreamTypes
<1>3. Len(Coming) \in 0..Len(Coming)
  BY <1>2, LenProperties
<1>4. Run(Reader, Coming, Len(Coming)) \in ReaderStates
  BY <1>1, <1>2, <1>3, RunTyped
<1> QED BY <1>1, <1>2, <1>4 DEF After

(* What the platform sends comes after what is already on its way.           *)
LEMMA SendingKeeps ==
  ASSUME StreamInv, NEW q \in Seq(Chars), link = "on", wire' = wire \o q, sent' \in Nat,
         honest' \in BOOLEAN, honest' => honest,
         UNCHANGED <<stream, ending, link, reader, last, connections>>,
         Fine(After(Reader, Coming), q, honest'),
         Boundary(After(After(Reader, Coming), q), ending, stream, sent')
  PROVE  StreamInv' /\ Follows
<1>1. StreamTypes'
  <2>1. wire \o q \in Seq(Chars)
    BY ConcatProperties DEF StreamInv, StreamTypes
  <2> QED BY <2>1 DEF StreamInv, StreamTypes, reader
<1>2. Reader' = Reader
  BY DEF Reader, reader
<1>3. Coming' = Coming \o q
  <2>1. chunk \in Seq(Chars) /\ wire \in Seq(Chars)
    BY DEF StreamInv, StreamTypes
  <2>2. (chunk \o wire) \o q = chunk \o (wire \o q)
    BY <2>1, CharsJoin
  <2> QED BY <2>2 DEF Coming, reader
<1>4. Reader \in ReaderStates /\ Coming \in Seq(Chars)
  BY ReaderTyped DEF StreamInv
<1>5. Fine(Reader, Coming, honest')
  BY DEF StreamInv, ComingInv, Fine
<1>6. Fine(Reader, Coming \o q, honest') /\ After(Reader, Coming \o q) = After(After(Reader, Coming), q)
  BY <1>4, <1>5, FineJoined
<1>7. ComingInv'
  BY <1>2, <1>3, <1>6 DEF StreamInv, ComingInv, reader
<1>8. SentInv'
  BY <1>2, <1>3, <1>6 DEF SentInv
<1>9. IdleInv' /\ WellFormedIsAccepted'
  BY DEF IdleInv, WellFormedIsAccepted
<1> QED BY <1>1, <1>7, <1>8, <1>9 DEF StreamInv, Follows

(* The next event, one sent again, a comment.                                *)
LEMMA PlatformSendsKeeps == ASSUME StreamInv, PlatformSends PROVE StreamInv' /\ Follows
<1> DEFINE s == After(Reader, Coming)
<1>1. /\ link = "on" /\ sent \in Nat /\ stream \in Nat \ {0} /\ ending \in Endings /\ honest \in BOOLEAN
      /\ wire \in Seq(Chars) /\ Fine(Reader, Coming, honest) /\ Boundary(s, ending, stream, sent)
  BY DEF StreamInv, StreamTypes, ComingInv, SentInv, PlatformSends
<1>2. UNCHANGED <<stream, ending, link, reader, last, connections>>
  BY DEF PlatformSends
<1>3. Reader \in ReaderStates /\ Coming \in Seq(Chars) /\ s \in ReaderStates
  BY ReaderTyped DEF StreamInv
<1>4. honest => s.error # "invalid_event_stream"
  <2>1. Reader.error # "invalid_event_stream"
    BY DEF Reader
  <2> QED BY <1>1, <1>3, <2>1, FineToTheEnd
<1> HIDE DEF s
<1>5. ASSUME NEW n \in Nat, NEW h
      PROVE  Frame(n) = FrameOf([stream |-> stream, sequence |-> n], ending)
  BY DEF Frame, FrameOf
<1>6. CASE sent' = sent + 1 /\ wire' = wire \o Frame(sent + 1) /\ honest' = honest
  <2> DEFINE n == sent + 1
             q == FrameOf([stream |-> stream, sequence |-> n], ending)
  <2>1. n \in Nat \ {0} /\ n \in Nat
    BY <1>1
  <2>2. q \in Seq(Chars) /\ Fine(s, q, honest) /\ Boundary(After(s, q), ending, stream, n)
    BY <1>1, <1>3, <1>4, <2>1, FrameFine
  <2>3. wire' = wire \o q /\ sent' = n
    BY <1>5, <1>6, <2>1
  <2> HIDE DEF q, n
  <2> QED BY <1>1, <1>2, <1>6, <2>1, <2>2, <2>3, SendingKeeps DEF s
<1>7. ASSUME NEW n \in 1..sent, wire' = wire \o Frame(n), honest' = FALSE, sent' = sent
      PROVE  StreamInv' /\ Follows
  <2> DEFINE q == FrameOf([stream |-> stream, sequence |-> n], ending)
  <2>1. n \in Nat \ {0} /\ n \in Nat /\ n <= sent
    BY <1>1
  <2>2. q \in Seq(Chars) /\ Fine(s, q, FALSE) /\ Boundary(After(s, q), ending, stream, sent)
    BY <1>1, <1>3, <2>1, FrameFine
  <2>3. wire' = wire \o q
    BY <1>5, <1>7, <2>1
  <2> HIDE DEF q
  <2> QED BY <1>1, <1>2, <1>7, <2>2, <2>3, SendingKeeps DEF s
<1>8. CASE wire' = wire \o <<Comment>> \o ending /\ sent' = sent /\ honest' = honest
  <2> DEFINE q == <<Comment>> \o ending
  <2>1. q \in Seq(Chars) /\ Fine(s, q, honest) /\ Boundary(After(s, q), ending, stream, sent)
    BY <1>1, <1>3, <1>4, CommentFine
  <2>2. wire' = wire \o q
    <3> DEFINE c == <<Comment>>
    <3>1. c \in Seq(Chars)
      BY DEF Chars, AnyText
    <3> HIDE DEF c
    <3>2. (wire \o c) \o ending = wire \o (c \o ending)
      BY <1>1, <3>1, EndingsAreChars, CharsJoin
    <3> QED BY <1>8, <3>2 DEF c
  <2> HIDE DEF q
  <2> QED BY <1>1, <1>2, <1>8, <2>1, <2>2, SendingKeeps DEF s
<1> QED BY <1>6, <1>7, <1>8 DEF PlatformSends

(* A frame that is no event ends what is sent.                               *)
LEMMA PlatformFailsKeeps == ASSUME StreamInv, PlatformFails PROVE StreamInv' /\ Follows
<1> DEFINE s == After(Reader, Coming)
<1>1. /\ link = "on" /\ ending \in Endings /\ honest \in BOOLEAN /\ chunk \in Seq(Chars) /\ wire \in Seq(Chars)
      /\ Fine(Reader, Coming, honest) /\ Boundary(s, ending, stream, sent) /\ last = previous
  BY DEF StreamInv, StreamTypes, ComingInv, SentInv, PlatformFails
<1>2. link' = "eof" /\ UNCHANGED <<stream, sent, ending, reader, last>>
  BY DEF PlatformFails
<1>3. PICK d \in {Failure, Garbled} : wire' = wire \o NoEvent(d) /\ honest' = (honest /\ d = Failure)
  BY DEF PlatformFails
<1>4. Reader \in ReaderStates /\ Coming \in Seq(Chars) /\ s \in ReaderStates
  BY ReaderTyped DEF StreamInv
<1>5. honest => s.error # "invalid_event_stream"
  <2>1. Reader.error # "invalid_event_stream"
    BY DEF Reader
  <2> QED BY <1>1, <1>4, <2>1, FineToTheEnd
<1> DEFINE q == NoEventOf(d, ending)
<1> HIDE DEF s
<1>6. q \in Seq(Chars) /\ Fine(s, q, honest')
  <2>1. d \in AnyCursor /\ d # None
    BY <1>3 DEF Failure, Garbled, None, AnyCursor
  <2>2. honest' => d = Failure /\ s.error # "invalid_event_stream"
    BY <1>3, <1>5
  <2> QED BY <1>1, <1>4, <2>1, <2>2, NoEventFine
<1>7. wire' = wire \o q
  BY <1>3 DEF NoEvent, NoEventOf
<1> HIDE DEF q
<1>8. Reader' = Reader /\ Coming' = Coming \o q
  <2>1. (chunk \o wire) \o q = chunk \o (wire \o q)
    BY <1>1, <1>6, CharsJoin
  <2> QED BY <1>2, <1>7, <2>1 DEF Reader, Coming, reader
<1>9. Fine(Reader, Coming, honest') /\ (honest' \in BOOLEAN)
  BY <1>1, <1>3 DEF Fine
<1>10. ComingInv'
  <2>1. Fine(Reader, Coming \o q, honest')
    BY <1>4, <1>6, <1>9, FineJoined DEF s
  <2> QED BY <1>1, <1>2, <1>8, <2>1 DEF ComingInv, reader
<1>11. StreamTypes'
  <2>1. wire' \in Seq(Chars)
    BY <1>1, <1>6, <1>7, ConcatProperties
  <2> QED BY <1>2, <1>9, <2>1 DEF StreamInv, StreamTypes, reader, Links
<1>12. SentInv' /\ IdleInv' /\ WellFormedIsAccepted'
  BY <1>2 DEF SentInv, IdleInv, WellFormedIsAccepted
<1> QED BY <1>2, <1>10, <1>11, <1>12 DEF StreamInv, Follows

(* The connection ends, with part of what was on its way.                    *)
LEMMA ConnectionEndsKeeps == ASSUME StreamInv, ConnectionEnds PROVE StreamInv' /\ Follows
<1>1. PICK n \in 0..Len(wire) : wire' = SubSeq(wire, 1, n)
  BY DEF ConnectionEnds
<1>2. chunk \in Seq(Chars) /\ wire \in Seq(Chars) /\ Len(wire) \in Nat
  BY LenProperties DEF StreamInv, StreamTypes
<1>3. wire' \in Seq(Chars) /\ Len(wire') = n /\ \A i \in 1..n : wire'[i] = wire[i]
  BY <1>1, <1>2
<1>4. StreamTypes'
  BY <1>3 DEF StreamInv, StreamTypes, ConnectionEnds, platform, reader, Links
<1>5. Reader' = Reader /\ chunk' = chunk
  BY DEF Reader, ConnectionEnds, reader
<1> DEFINE w == wire'
<1>6. Fine(Reader, chunk \o w, honest)
  <2>1. Fine(Reader, chunk \o wire, honest)
    BY DEF StreamInv, ComingInv, ConnectionEnds, Coming
  <2>2. w \in Seq(Chars) /\ Len(w) = n /\ \A i \in 1..n : w[i] = wire[i]
    BY <1>3
  <2> HIDE DEF w
  <2>3. /\ chunk \o wire \in Seq(Chars) /\ Len(chunk \o wire) = Len(chunk) + Len(wire)
        /\ \A i \in 1..Len(chunk) + Len(wire) :
             (chunk \o wire)[i] = IF i <= Len(chunk) THEN chunk[i] ELSE wire[i - Len(chunk)]
    BY <1>2, ConcatProperties
  <2>4. /\ chunk \o w \in Seq(Chars) /\ Len(chunk \o w) = Len(chunk) + n
        /\ \A i \in 1..Len(chunk) + n :
             (chunk \o w)[i] = IF i <= Len(chunk) THEN chunk[i] ELSE w[i - Len(chunk)]
    BY <1>2, <2>2, ConcatProperties
  <2>5. Len(chunk) \in Nat
    BY <1>2, LenProperties
  <2>6. ASSUME NEW i \in 1..Len(chunk \o w) PROVE (chunk \o w)[i] = (chunk \o wire)[i]
    <3>1. i \in 1..Len(chunk) + n /\ i \in 1..Len(chunk) + Len(wire)
      BY <1>2, <2>4, <2>5
    <3>2. CASE i <= Len(chunk)
      BY <2>3, <2>4, <3>1, <3>2
    <3>3. CASE ~(i <= Len(chunk))
      <4>1. i - Len(chunk) \in 1..n
        BY <2>5, <3>1, <3>3
      <4>2. w[i - Len(chunk)] = wire[i - Len(chunk)]
        BY <2>2, <4>1
      <4> QED BY <2>3, <2>4, <3>1, <3>3, <4>2
    <3> QED BY <3>2, <3>3
  <2>7. Len(chunk \o w) <= Len(chunk \o wire)
    BY <1>2, <2>3, <2>4, <2>5
  <2> DEFINE a == chunk \o wire
             b == chunk \o w
  <2>8. a \in Seq(Chars) /\ b \in Seq(Chars) /\ Len(b) <= Len(a) /\ (\A i \in 1..Len(b) : b[i] = a[i]) /\ Fine(Reader, a, honest)
    BY <2>1, <2>3, <2>4, <2>6, <2>7
  <2> HIDE DEF a, b
  <2>9. Fine(Reader, b, honest)
    BY <2>8, FinePrefix
  <2> QED BY <2>9 DEF b
<1>7. ComingInv'
  BY <1>5, <1>6 DEF StreamInv, ComingInv, Coming, ConnectionEnds, platform, reader
<1>8. SentInv' /\ IdleInv' /\ WellFormedIsAccepted'
  BY DEF SentInv, IdleInv, WellFormedIsAccepted, ConnectionEnds
<1> QED BY <1>4, <1>7, <1>8 DEF StreamInv, Follows, ConnectionEnds

(* Characters that come to the reader in a chunk are still to come.          *)
LEMMA ReadChunkKeeps == ASSUME StreamInv, ReadChunk PROVE StreamInv' /\ Follows
<1>1. PICK n \in 1..Len(wire) : chunk' = SubSeq(wire, 1, n) /\ wire' = SubSeq(wire, n + 1, Len(wire))
  BY DEF ReadChunk
<1>2. wire \in Seq(Chars) /\ Len(wire) \in Nat
  BY LenProperties DEF StreamInv, StreamTypes
<1> DEFINE a == chunk'
           b == wire'
<1>3. /\ a \in Seq(Chars) /\ Len(a) = n /\ (\A i \in 1..n : a[i] = wire[i])
      /\ b \in Seq(Chars) /\ Len(b) = Len(wire) - n /\ (\A i \in 1..Len(wire) - n : b[i] = wire[n + i])
  BY <1>1, <1>2
<1>4. StreamTypes'
  BY <1>3 DEF StreamInv, StreamTypes, ReadChunk, platform
<1>5. Reader' = Reader
  BY DEF Reader, ReadChunk
<1> HIDE DEF a, b
<1>6. a \o b = wire
  <2>1. /\ a \o b \in Seq(Chars) /\ Len(a \o b) = Len(a) + Len(b)
        /\ \A i \in 1..Len(a) + Len(b) : (a \o b)[i] = IF i <= Len(a) THEN a[i] ELSE b[i - Len(a)]
    BY <1>3, ConcatProperties
  <2>2. Len(a \o b) = Len(wire)
    BY <1>2, <1>3, <2>1
  <2>3. ASSUME NEW i \in 1..Len(a \o b) PROVE (a \o b)[i] = wire[i]
    <3>1. CASE i <= n
      BY <1>2, <1>3, <2>1, <2>2, <3>1
    <3>2. CASE ~(i <= n)
      <4>1. i - n \in 1..Len(wire) - n /\ n + (i - n) = i
        BY <1>2, <2>2, <3>2
      <4>2. b[i - n] = wire[i]
        BY <1>3, <4>1
      <4>3. i \in 1..Len(a) + Len(b)
        BY <2>1, <2>3
      <4> QED BY <1>3, <2>1, <3>2, <4>2, <4>3
    <3> QED BY <3>1, <3>2
  <2> QED BY <1>2, <2>1, <2>2, <2>3, SeqEqual
<1>7. Coming = wire
  BY <1>2, ConcatEmptySeq DEF ReadChunk, Coming
<1>8. Coming' = Coming
  BY <1>6, <1>7 DEF Coming, a, b
<1>9. ComingInv' /\ SentInv' /\ IdleInv' /\ WellFormedIsAccepted'
  BY <1>5, <1>8 DEF StreamInv, ComingInv, SentInv, IdleInv, WellFormedIsAccepted, ReadChunk, platform
<1> QED BY <1>4, <1>9 DEF StreamInv, Follows, ReadChunk
(* ReadChar feeds the reader one character: what it makes of it is what the  *)
(* pure function says, and an error is what the subscription throws.         *)
LEMMA ReadCharFeeds ==
  ASSUME StreamTypes, ReadChar
  PROVE  LET u == Feed(Reader, Head(chunk))
         IN  /\ u.error = "no" => Reader' = u /\ link' = link /\ (last' = last \/ last' = previous')
             /\ u.error = "no" /\ last = previous => last' = previous'
             /\ u.error # "no" => link' = u.error /\ last' = last
<1> DEFINE c == Head(chunk)
           s == Reader
           u == Feed(s, c)
<1>1. /\ s.partial = partial /\ s.id = id /\ s.data = data /\ s.previous = previous /\ s.error = "no"
      /\ s.char = IF skipLF THEN CR ELSE LF
  BY DEF Reader
<1>2. s \in ReaderStates /\ CR # LF
  BY ReaderTyped, CharsDiffer
<1>3. c \in Chars
  BY HeadTailProperties, EmptySeq DEF StreamTypes, ReadChar
<1>4. Reader' = [partial |-> partial', char |-> IF skipLF' THEN CR ELSE LF, id |-> id', data |-> data',
                 previous |-> previous', error |-> "no"]
  BY DEF Reader
<1>5. skipLF' = (c = CR)
  BY DEF ReadChar
<1> HIDE DEF c, s
<1>6. (IF skipLF' THEN CR ELSE LF) = IF c = CR THEN CR ELSE LF
  BY <1>5
<1>7. ASSUME u \in ReaderStates, u.partial = partial', u.char = (IF c = CR THEN CR ELSE LF), u.id = id', u.data = data',
             u.previous = previous', u.error = "no"
      PROVE  Reader' = u
  BY <1>4, <1>6, <1>7 DEF ReaderStates
<1>8. CASE c = LF /\ skipLF
  <2>1. s.char = CR
    BY <1>1, <1>8
  <2>2. UNCHANGED <<partial, id, data, previous, last, link>>
    BY <1>8 DEF ReadChar, c
  <2>3. /\ u \in ReaderStates /\ u.char = LF
        /\ u.partial = s.partial /\ u.id = s.id /\ u.data = s.data
        /\ u.previous = s.previous /\ u.error = "no"
    BY <1>1, <1>2, <1>8, <2>1, FeedSkips
  <2>4. Reader' = u
    BY <1>1, <1>2, <1>7, <1>8, <2>2, <2>3
  <2> QED BY <2>2, <2>3, <2>4 DEF s, c
<1>9. CASE c \notin {CR, LF}
  <2>1. c \in AnyText
    BY <1>3, <1>9 DEF Chars
  <2>2. partial' = c /\ UNCHANGED <<id, data, previous, last, link>>
    BY <1>9 DEF ReadChar, c
  <2>3. /\ u \in ReaderStates /\ u.char = LF
        /\ u.partial = c /\ u.id = s.id /\ u.data = s.data
        /\ u.previous = s.previous /\ u.error = "no"
    BY <1>1, <1>2, <2>1, FeedBegins
  <2>4. Reader' = u
    BY <1>1, <1>7, <1>9, <2>2, <2>3
  <2> QED BY <2>2, <2>3, <2>4 DEF s, c
<1>10. CASE c \in {CR, LF} /\ ~(c = LF /\ skipLF)
  <2>1. c = CR \/ s.char = LF
    BY <1>1, <1>10
  <2>2. partial' = NoLine /\ Line(partial)
    BY <1>10 DEF ReadChar, c
  <2>3. CASE partial # NoLine
    <3>1. /\ id' = IF partial[1] = "id" THEN partial[2] ELSE id
          /\ data' = IF partial[1] = "data" THEN partial[2] ELSE data
          /\ UNCHANGED <<previous, last, link>>
      BY <2>2, <2>3 DEF Line
    <3>2. /\ u \in ReaderStates /\ u.char = c /\ u.partial = NoLine
          /\ u.id = IF s.partial[1] = "id" THEN s.partial[2] ELSE s.id
          /\ u.data = IF s.partial[1] = "data" THEN s.partial[2] ELSE s.data
          /\ u.previous = s.previous /\ u.error = "no"
      BY <1>1, <1>2, <1>10, <2>1, <2>3, FeedEnds
    <3>3. Reader' = u
      BY <1>1, <1>7, <1>10, <2>2, <3>1, <3>2
    <3> QED BY <3>1, <3>2, <3>3 DEF s, c
  <2>4. CASE partial = NoLine
    <3>1. Dispatch
      BY <2>2, <2>4 DEF Line
    <3>2. Rejected(data) = Refused(s)
      BY <1>1 DEF Rejected, Refused
    <3>3. /\ id' = None /\ data' = None
          /\ IF data = None THEN UNCHANGED <<previous, last, link>>
             ELSE IF Refused(s) = "no"
             THEN previous' = data /\ last' = data /\ UNCHANGED link
             ELSE link' = Refused(s) /\ UNCHANGED <<previous, last>>
      BY <3>1, <3>2 DEF Dispatch
    <3>4. /\ u \in ReaderStates /\ u.char = c /\ u.partial = NoLine /\ u.id = None /\ u.data = None
          /\ u.error = (IF s.data = None THEN "no" ELSE Refused(s))
          /\ u.previous = (IF s.data # None /\ Refused(s) = "no" THEN s.data ELSE s.previous)
      BY <1>1, <1>2, <1>10, <2>1, <2>4, FeedDispatches, CharsDiffer
    <3> HIDE DEF u
    <3>5. u.error = "no" => Reader' = u
      BY <1>1, <1>7, <1>10, <2>2, <3>3, <3>4
    <3> QED BY <1>1, <3>3, <3>4, <3>5 DEF u, s, c
  <2> QED BY <2>3, <2>4
<1> QED BY <1>8, <1>9, <1>10

(* What ReadChar leaves has its types.                                       *)
LEMMA ReadCharTyped ==
  ASSUME StreamTypes, ReadChar
  PROVE  partial' \in AnyText \union {NoLine} /\ id' \in AnyCursor /\ data' \in AnyCursor /\ previous' \in AnyCursor
<1>1. Head(chunk) \in Chars
  BY HeadTailProperties, EmptySeq DEF StreamTypes, ReadChar
<1>2. CASE UNCHANGED <<partial, id, data, previous>>
  BY <1>2 DEF StreamTypes
<1>3. CASE Head(chunk) \in {CR, LF} /\ partial' = NoLine /\ Line(partial)
  <2>1. CASE partial = NoLine
    BY <1>3, <2>1, CharsDiffer DEF StreamTypes, Line, Dispatch
  <2>2. CASE partial # NoLine
    <3>1. /\ partial \in AnyText /\ id \in AnyCursor /\ data \in AnyCursor /\ previous \in AnyCursor
          /\ id' = (IF partial[1] = "id" THEN partial[2] ELSE id)
          /\ data' = (IF partial[1] = "data" THEN partial[2] ELSE data)
          /\ previous' = previous
      BY <1>3, <2>2 DEF StreamTypes, Line
    <3>2. CASE partial = Comment
      BY <1>3, <3>1, <3>2 DEF Comment
    <3>3. CASE partial \in {"id", "data"} \X AnyCursor
      BY <1>3, <3>1, <3>3
    <3> QED BY <3>1, <3>2, <3>3 DEF AnyText
  <2> QED BY <2>1, <2>2
<1>4. CASE Head(chunk) \notin {CR, LF} /\ partial' = Head(chunk) /\ UNCHANGED <<id, data, previous>>
  BY <1>1, <1>4 DEF StreamTypes, Chars
<1> QED BY <1>2, <1>3, <1>4 DEF ReadChar

(* The reader looks at one character.                                        *)
LEMMA ReadCharKeeps == ASSUME StreamInv, ReadChar PROVE StreamInv' /\ Follows
<1> DEFINE u == Feed(Reader, Head(chunk))
           q == Coming
<1>1. /\ StreamTypes /\ Fine(Reader, q, honest) /\ last = previous /\ link \in {"on", "eof"}
      /\ chunk \in Seq(Chars) /\ wire \in Seq(Chars) /\ chunk # <<>>
  BY DEF StreamInv, StreamTypes, ComingInv, ReadChar
<1>2. q # <<>> /\ q \in Seq(Chars) /\ Head(q) = Head(chunk) /\ Tail(q) = Tail(chunk) \o wire /\ Head(chunk) \in Chars
  <2>1. Len(chunk) \in Nat \ {0}
    BY <1>1, EmptySeq, LenProperties
  <2>2. /\ Tail(chunk) \in Seq(Chars) /\ Len(Tail(chunk)) = Len(chunk) - 1 /\ Head(chunk) = chunk[1]
        /\ \A i \in 1..Len(chunk) - 1 : Tail(chunk)[i] = chunk[i + 1]
    BY <1>1, <2>1, HeadTailProperties
  <2>3. /\ q \in Seq(Chars) /\ Len(q) = Len(chunk) + Len(wire) /\ Len(wire) \in Nat
        /\ \A i \in 1..Len(chunk) + Len(wire) : q[i] = IF i <= Len(chunk) THEN chunk[i] ELSE wire[i - Len(chunk)]
    BY <1>1, ConcatProperties, LenProperties DEF Coming
  <2> DEFINE t == Tail(chunk)
  <2>4. /\ t \in Seq(Chars) /\ Len(t) = Len(chunk) - 1 /\ (\A i \in 1..Len(chunk) - 1 : t[i] = chunk[i + 1])
    BY <2>2
  <2> HIDE DEF t, q
  <2>5. /\ t \o wire \in Seq(Chars) /\ Len(t \o wire) = Len(chunk) - 1 + Len(wire)
        /\ \A i \in 1..(Len(chunk) - 1) + Len(wire) :
             (t \o wire)[i] = IF i <= Len(chunk) - 1 THEN t[i] ELSE wire[i - (Len(chunk) - 1)]
    <3>1. /\ t \o wire \in Seq(Chars) /\ Len(t \o wire) = Len(t) + Len(wire)
          /\ \A i \in 1..Len(t) + Len(wire) : (t \o wire)[i] = IF i <= Len(t) THEN t[i] ELSE wire[i - Len(t)]
      BY <1>1, <2>4, ConcatProperties
    <3> QED BY <2>4, <3>1
  <2>6. q # <<>>
    BY <2>1, <2>3
  <2>7. /\ Tail(q) \in Seq(Chars) /\ Len(Tail(q)) = Len(q) - 1 /\ Head(q) = q[1]
        /\ \A i \in 1..Len(q) - 1 : Tail(q)[i] = q[i + 1]
    BY <2>3, <2>6, HeadTailProperties
  <2>8. Head(q) = Head(chunk)
    <3>1. 1 \in 1..Len(chunk) + Len(wire) /\ 1 <= Len(chunk)
      BY <2>1, <2>3
    <3> QED BY <2>2, <2>3, <2>7, <3>1
  <2>9. ASSUME NEW i \in 1..Len(Tail(q)) PROVE Tail(q)[i] = (t \o wire)[i]
    <3>1. i \in 1..(Len(chunk) - 1) + Len(wire) /\ i + 1 \in 1..Len(chunk) + Len(wire) /\ i \in 1..Len(q) - 1
      BY <2>1, <2>3, <2>7
    <3>2. CASE i <= Len(chunk) - 1
      <4>1. i + 1 <= Len(chunk) /\ i \in 1..Len(chunk) - 1
        BY <2>1, <3>1, <3>2
      <4> QED BY <2>3, <2>4, <2>5, <2>7, <3>1, <3>2, <4>1
    <3>3. CASE ~(i <= Len(chunk) - 1)
      <4>1. ~(i + 1 <= Len(chunk)) /\ (i + 1) - Len(chunk) = i - (Len(chunk) - 1)
        BY <2>1, <3>1, <3>3
      <4> QED BY <2>3, <2>5, <2>7, <3>1, <3>3, <4>1
    <3> QED BY <3>2, <3>3
  <2>10. Len(Tail(q)) = Len(t \o wire)
    BY <2>1, <2>3, <2>5, <2>7
  <2>11. Tail(q) = t \o wire
    BY <2>5, <2>7, <2>9, <2>10, SeqEqual
  <2>12. Head(chunk) \in Chars
    BY <1>1, HeadTailProperties
  <2> QED BY <2>3, <2>6, <2>8, <2>11, <2>12 DEF t
<1>3. Coming' = Tail(q)
  <2>1. chunk' = Tail(chunk) /\ wire' = wire
    BY DEF ReadChar
  <2> HIDE DEF q
  <2>2. Coming' = Tail(chunk) \o wire
    BY <2>1 DEF Coming
  <2> QED BY <1>2, <2>2
<1> HIDE DEF q
<1>4. /\ FollowsIn(Reader, u) /\ (honest => u.error # "invalid_event_stream")
      /\ Fine(u, Tail(q), honest) /\ After(u, Tail(q)) = After(Reader, q)
  <2>1. /\ FollowsIn(Reader, Feed(Reader, Head(q)))
        /\ (honest => Feed(Reader, Head(q)).error # "invalid_event_stream")
        /\ Fine(Feed(Reader, Head(q)), Tail(q), honest)
        /\ After(Feed(Reader, Head(q)), Tail(q)) = After(Reader, q)
    BY <1>1, <1>2, FineTail
  <2> QED BY <1>2, <2>1
<1>5. /\ u.error = "no" => Reader' = u /\ link' = link /\ last' = previous'
      /\ u.error # "no" => link' = u.error /\ last' = last
  BY <1>1, ReadCharFeeds
<1>6. u \in ReaderStates
  BY <1>1, <1>2, ReaderTyped, FeedTyped
<1> HIDE DEF u
<1>7. honest' = honest /\ ending' = ending /\ stream' = stream /\ sent' = sent /\ wire' = wire
  BY DEF ReadChar, platform
<1>8. CASE u.error = "no"
  <2>1. /\ u.partial = partial' /\ u.id = id' /\ u.data = data' /\ u.previous = previous'
    BY <1>5, <1>8 DEF Reader
  <2>2. StreamTypes'
    <3>1. partial' \in AnyText \union {NoLine} /\ id' \in AnyCursor /\ data' \in AnyCursor /\ previous' \in AnyCursor
      BY <1>6, <2>1 DEF ReaderStates
    <3>2. last' \in AnyCursor /\ link' = link
      BY <1>5, <1>8, <3>1
    <3>3. chunk' \in Seq(Chars)
      BY <1>1, HeadTailProperties DEF ReadChar
    <3>4. skipLF' \in BOOLEAN
      BY DEF ReadChar
    <3> QED BY <1>1, <1>7, <3>1, <3>2, <3>3, <3>4 DEF StreamTypes
  <2>3. ComingInv'
    BY <1>3, <1>4, <1>5, <1>7, <1>8 DEF ComingInv
  <2>4. SentInv'
    BY <1>3, <1>4, <1>5, <1>7, <1>8 DEF SentInv, StreamInv, q
  <2>5. IdleInv' /\ WellFormedIsAccepted'
    BY <1>1, <1>5, <1>8 DEF IdleInv, WellFormedIsAccepted
  <2>6. Follows
    <3>1. u.previous = previous' /\ Reader.previous = previous
      BY <2>1 DEF Reader
    <3> QED BY <1>1, <1>4, <1>5, <1>8, <3>1 DEF Follows, FollowsIn
  <2> QED BY <2>2, <2>3, <2>4, <2>5, <2>6 DEF StreamInv
<1>9. CASE u.error # "no"
  <2>1. link' = u.error /\ last' = last /\ link' \in Links \ {"off", "on", "eof"}
    BY <1>5, <1>6, <1>9 DEF ReaderStates, Links
  <2>2. /\ chunk' \in Seq(Chars) /\ skipLF' \in BOOLEAN
    BY <1>1, HeadTailProperties DEF ReadChar
  <2>3. partial' \in AnyText \union {NoLine} /\ id' \in AnyCursor /\ data' \in AnyCursor /\ previous' \in AnyCursor
    BY <1>1, ReadCharTyped
  <2>4. StreamTypes'
    BY <1>1, <1>7, <2>1, <2>2, <2>3 DEF StreamTypes
  <2>5. WellFormedIsAccepted'
    BY <1>4, <1>7, <2>1 DEF WellFormedIsAccepted
  <2>6. ComingInv' /\ SentInv' /\ IdleInv'
    BY <2>1 DEF ComingInv, SentInv, IdleInv
  <2> QED BY <2>1, <2>4, <2>5, <2>6 DEF StreamInv, Follows
<1> QED BY <1>8, <1>9

(* A subscription begins after the cursor the application gives, with        *)
(* nothing on its way.                                                       *)
LEMMA SubscribeKeeps == ASSUME StreamInv, Subscribe PROVE StreamInv' /\ Follows
<1>1. /\ Coming = <<>> /\ partial = NoLine /\ ~skipLF /\ id = None /\ data = None
      /\ stream \in Nat \ {0} /\ last \in AnyCursor
  BY DEF StreamInv, StreamTypes, IdleInv, Subscribe
<1>2. /\ link' = "on" /\ last' = last /\ previous' = last /\ stream' = stream /\ honest' = honest
      /\ sent' \in (IF last.stream = stream THEN {last.sequence} ELSE 0..1)
      /\ UNCHANGED <<wire, chunk, partial, skipLF, id, data>>
  BY DEF Subscribe
<1>3. sent' \in Nat /\ last.stream \in Nat /\ last.sequence \in Nat
  BY <1>1, <1>2 DEF AnyCursor
<1>4. StreamTypes'
  <2>1. ending' \in Endings
    BY DEF Subscribe, Endings
  <2> QED BY <1>2, <1>3, <2>1 DEF StreamInv, StreamTypes, Links
<1>5. Coming' = <<>> /\ Len(Coming') = 0
  BY <1>1, <1>2 DEF Coming
<1>6. ComingInv'
  BY <1>2, <1>5 DEF ComingInv, Fine
<1>7. After(Reader, Coming)' = Reader'
  BY <1>5, RunSteps DEF After
<1>8. Boundary(Reader', ending', stream', sent')
  <2>1. /\ Reader'.partial = NoLine /\ Reader'.id = None /\ Reader'.data = None /\ Reader'.char = LF
        /\ Reader'.previous = last
    BY <1>1, <1>2 DEF Reader
  <2>2. last.stream = stream => sent' = last.sequence
    BY <1>2
  <2>3. last = None => sent' <= 1
    <3>1. last = None => last.stream # stream
      BY <1>1 DEF None
    <3> QED BY <1>2, <3>1
  <2> QED BY <1>2, <2>1, <2>2, <2>3 DEF Boundary
<1>9. SentInv'
  BY <1>7, <1>8 DEF SentInv
<1>10. IdleInv' /\ WellFormedIsAccepted'
  BY <1>2 DEF IdleInv, WellFormedIsAccepted
<1> QED BY <1>2, <1>4, <1>6, <1>9, <1>10 DEF StreamInv, Follows

(* The platform begins another stream while nobody listens.                  *)
LEMMA PlatformResetsKeeps == ASSUME StreamInv, PlatformResets PROVE StreamInv' /\ Follows
<1>1. StreamTypes'
  BY DEF StreamInv, StreamTypes, PlatformResets, reader
<1>2. link' = "off" /\ link = "off" /\ Coming' = Coming
  BY DEF PlatformResets, Coming, reader
<1>3. ComingInv' /\ SentInv' /\ IdleInv' /\ WellFormedIsAccepted'
  BY <1>2 DEF StreamInv, ComingInv, SentInv, IdleInv, WellFormedIsAccepted, PlatformResets, reader
<1> QED BY <1>1, <1>3 DEF StreamInv, Follows, PlatformResets

(* The connection and the locals of its reader are gone.                     *)
LEMMA GoneKeeps ==
  ASSUME StreamInv, Gone, stream' = stream, last' \in {last, None}
  PROVE  StreamInv' /\ Follows
<1>1. None \in AnyCursor
  BY CharsDiffer
<1>2. StreamTypes'
  <2>1. ending' \in Endings /\ wire' \in Seq(Chars) /\ chunk' \in Seq(Chars)
    BY DEF Gone, Endings
  <2>2. stream' \in Nat \ {0} /\ sent' \in Nat /\ honest' \in BOOLEAN /\ last' \in AnyCursor
    BY <1>1 DEF StreamInv, StreamTypes, Gone
  <2> QED BY <1>1, <2>1, <2>2 DEF StreamTypes, Gone, Links
<1>3. Coming' = <<>>
  BY DEF Coming, Gone
<1>4. ComingInv' /\ SentInv' /\ IdleInv' /\ WellFormedIsAccepted'
  BY <1>3 DEF ComingInv, SentInv, IdleInv, WellFormedIsAccepted, Gone
<1> QED BY <1>2, <1>4 DEF StreamInv, Follows

(* Every step.                                                               *)
LEMMA StreamKeeps == ASSUME StreamInv, [StreamNext]_streamVars PROVE StreamInv' /\ [Follows]_streamVars
<1>1. CASE PlatformSends
  BY <1>1, PlatformSendsKeeps
<1>2. CASE PlatformResets
  BY <1>2, PlatformResetsKeeps
<1>3. CASE ConnectionEnds
  BY <1>3, ConnectionEndsKeeps
<1>4. CASE Subscribe
  BY <1>4, SubscribeKeeps
<1>5. CASE ReadChunk
  BY <1>5, ReadChunkKeeps
<1>6. CASE ReadChar
  BY <1>6, ReadCharKeeps
<1>7. CASE StreamEnds
  <2>1. Gone /\ stream' = stream /\ last' \in {last, None}
    BY <1>7 DEF StreamEnds
  <2> QED BY <2>1, GoneKeeps
<1>8. CASE HandleError
  <2>1. Gone /\ stream' = stream /\ last' \in {last, None}
    BY <1>8 DEF HandleError
  <2> QED BY <2>1, GoneKeeps
<1>10. CASE PlatformFails
  BY <1>10, PlatformFailsKeeps
<1>9. CASE UNCHANGED streamVars
  <2>1. StreamTypes' /\ Reader' = Reader /\ Coming' = Coming
    BY <1>9 DEF StreamInv, StreamTypes, Reader, Coming, streamVars
  <2> QED BY <1>9, <2>1 DEF StreamInv, ComingInv, SentInv, IdleInv, WellFormedIsAccepted, streamVars
<1> QED BY <1>1, <1>2, <1>3, <1>4, <1>5, <1>6, <1>7, <1>8, <1>9, <1>10 DEF StreamNext

(* Nothing is on its way before the first subscription.                      *)
LEMMA StreamStarts == StreamInit => StreamInv
<1> SUFFICES ASSUME StreamInit PROVE StreamInv
  OBVIOUS
<1>1. StreamTypes
  <2>1. wire \in Seq(Chars) /\ chunk \in Seq(Chars) /\ ending \in Endings
    BY DEF StreamInit, Endings
  <2>2. stream \in Nat \ {0} /\ sent \in Nat
    BY DEF StreamInit
  <2>5. honest \in BOOLEAN /\ skipLF \in BOOLEAN
    BY Zenon DEF StreamInit
  <2>3. partial \in AnyText \union {NoLine} /\ link \in Links
    BY DEF StreamInit, Links
  <2>4. id \in AnyCursor /\ data \in AnyCursor /\ previous \in AnyCursor /\ last \in AnyCursor
    BY CharsDiffer DEF StreamInit
  <2> QED BY <2>1, <2>2, <2>3, <2>4, <2>5 DEF StreamTypes
<1>2. Coming = <<>>
  BY DEF Coming, StreamInit
<1> QED BY <1>1, <1>2 DEF StreamInv, StreamInit, ComingInv, SentInv, IdleInv, WellFormedIsAccepted

(* Across lost connections, resent events and new streams the application    *)
(* sees each event of a stream once, in order and without a gap, and what an *)
(* honest platform sends is never refused, however lines end and chunks are  *)
(* cut (stream.ts 56-90, 109-133).                                           *)
THEOREM StreamFollows == StreamSpec => EventsFollow
<1>2. StreamInv /\ [StreamNext]_streamVars => StreamInv' /\ [Follows]_streamVars
  BY StreamKeeps
<1>3. StreamInv => WellFormedIsAccepted
  BY DEF StreamInv
<1> QED BY StreamStarts, <1>2, <1>3, PTL DEF StreamSpec, EventsFollow

-----------------------------------------------------------------------------
(* All the parts beside one another, as the run has them: the part that      *)
(* moves keeps its invariant, and the others keep theirs by standing still.  *)

(* The stream keeps to the bounds of its events and streams.                 *)
LEMMA StreamKeepsTypes == StreamTypeOK /\ [StreamNext]_streamVars => StreamTypeOK'
<1> SUFFICES ASSUME StreamTypeOK, [StreamNext]_streamVars PROVE StreamTypeOK'
  OBVIOUS
<1> DEFINE T == Text \cup {CR, LF}
           Ends == {<<LF>>, <<CR>>, <<CR, LF>>}
           C == Cursor \cup {None}
           D == Data \cup {None}
<1>1. /\ MaxEvents \in Nat /\ MaxStreams \in Nat /\ 1 \in 1..MaxStreams /\ 1 \in 1..MaxEvents
      /\ MaxConnections \in Nat
  BY StreamAssumption
<1>2. /\ stream \in 1..MaxStreams /\ sent \in 0..MaxEvents /\ honest \in BOOLEAN
      /\ ending \in Ends /\ wire \in Seq(T) /\ chunk \in Seq(T)
      /\ link \in Links
      /\ partial \in Text \cup {NoLine} /\ skipLF \in BOOLEAN
      /\ id \in C /\ data \in D /\ previous \in C /\ last \in C
      /\ connections \in 0..MaxConnections
  BY DEF StreamTypeOK
<1>3. CR \in T /\ LF \in T /\ Comment \in T /\ \A c \in Cursor : <<"id", c>> \in T /\ <<"data", c>> \in T
  BY DEF Text, Data
<1>16. <<"data", Failure>> \in T /\ <<"data", Garbled>> \in T
  BY DEF Text, Data
<1> HIDE DEF T
<1>4. \A c \in T : <<c>> \in Seq(T)
  OBVIOUS
<1>5. \A e \in Ends : e \in Seq(T)
  BY <1>3, EndingsIn DEF Endings
<1> HIDE DEF Ends
<1>6. CASE PlatformSends
  <2>1. ASSUME NEW n \in 1..MaxEvents PROVE Frame(n) \in Seq(T)
    <3> DEFINE c == [stream |-> stream, sequence |-> n]
               a == <<<<"id", c>>>>
               b == <<<<"data", c>>>>
    <3>1. c \in Cursor
      BY <1>2 DEF Cursor
    <3>2. a \in Seq(T) /\ b \in Seq(T) /\ ending \in Seq(T)
      BY <1>2, <1>3, <1>4, <1>5, <3>1
    <3> HIDE DEF a, b
    <3>3. a \o ending \o b \o ending \o ending \in Seq(T)
      BY <3>2, ConcatProperties
    <3> QED BY <3>3 DEF Frame, a, b
  <2>2. wire' \in Seq(T) /\ sent' \in 0..MaxEvents /\ honest' \in BOOLEAN
    <3>1. CASE sent < MaxEvents /\ sent' = sent + 1 /\ wire' = wire \o Frame(sent + 1) /\ UNCHANGED honest
      <4>1. sent + 1 \in 1..MaxEvents
        BY <1>1, <1>2, <3>1
      <4>2. Frame(sent + 1) \in Seq(T)
        BY <2>1, <4>1
      <4> QED BY <1>1, <1>2, <3>1, <4>1, <4>2, ConcatProperties
    <3>2. CASE \E n \in 1..sent : wire' = wire \o Frame(n) /\ honest' = FALSE /\ UNCHANGED sent
      <4>1. PICK n \in 1..sent : wire' = wire \o Frame(n)
        BY <3>2
      <4>2. Frame(n) \in Seq(T)
        BY <1>1, <1>2, <2>1
      <4> QED BY <1>2, <3>2, <4>1, <4>2, ConcatProperties
    <3>3. CASE wire' = wire \o <<Comment>> \o ending /\ UNCHANGED <<sent, honest>>
      <4>1. <<Comment>> \in Seq(T) /\ ending \in Seq(T)
        BY <1>2, <1>3, <1>4, <1>5
      <4> QED BY <1>2, <3>3, <4>1, ConcatProperties
    <3> QED BY <1>6, <3>1, <3>2, <3>3 DEF PlatformSends
  <2> QED BY <1>2, <1>6, <2>2 DEF StreamTypeOK, PlatformSends, reader, T, Ends
<1>7. CASE PlatformResets
  BY <1>1, <1>2, <1>7 DEF StreamTypeOK, PlatformResets, reader, T, Ends
<1>8. CASE ConnectionEnds
  <2>1. wire' \in Seq(T)
    BY <1>2, <1>8 DEF ConnectionEnds
  <2> QED BY <1>2, <1>8, <2>1 DEF StreamTypeOK, ConnectionEnds, platform, reader, T, Ends, Links
<1>9. CASE Subscribe
  <2>1. sent' \in 0..MaxEvents
    <3>1. last.stream = stream => last.sequence \in 1..MaxEvents
      BY <1>1, <1>2 DEF Cursor, None
    <3>2. sent' \in (IF last.stream = stream THEN {last.sequence} ELSE 0..1)
      BY <1>9 DEF Subscribe
    <3> QED BY <1>1, <3>1, <3>2
  <2>2. connections' \in 0..MaxConnections
    BY <1>1, <1>2, <1>9 DEF Subscribe
  <2> QED BY <1>2, <1>9, <2>1, <2>2 DEF StreamTypeOK, Subscribe, T, Ends, Links
<1>10. CASE ReadChunk
  <2>1. chunk' \in Seq(T) /\ wire' \in Seq(T)
    <3>1. PICK n \in 1..Len(wire) : chunk' = SubSeq(wire, 1, n) /\ wire' = SubSeq(wire, n + 1, Len(wire))
      BY <1>10 DEF ReadChunk
    <3>2. Len(wire) \in Nat
      BY <1>2, LenProperties
    <3> QED BY <1>2, <3>1, <3>2
  <2> QED BY <1>2, <1>10, <2>1 DEF StreamTypeOK, ReadChunk, platform, T, Ends
<1>11. CASE ReadChar
  <2>1. chunk' \in Seq(T) /\ Head(chunk) \in T
    BY <1>2, <1>11, HeadTailProperties, EmptySeq DEF ReadChar
  <2>2. UNCHANGED <<platform, wire, connections>> /\ skipLF' \in BOOLEAN
    BY <1>11 DEF ReadChar
  <2>3. CASE UNCHANGED <<partial, id, data, previous, last, link>>
    BY <1>2, <2>1, <2>2, <2>3 DEF StreamTypeOK, platform, T, Ends
  <2>4. CASE Head(chunk) \notin {CR, LF} /\ partial' = Head(chunk) /\ UNCHANGED <<id, data, previous, last, link>>
    <3>1. partial' \in Text
      BY <2>1, <2>4 DEF T
    <3> QED BY <1>2, <2>1, <2>2, <2>4, <3>1 DEF StreamTypeOK, platform, T, Ends
  <2>5. CASE partial' = NoLine /\ Line(partial)
    <3>1. /\ id' \in C /\ data' \in D /\ previous' \in C /\ last' \in C
          /\ link' \in Links
      <4>1. CASE partial = NoLine
        <5>1. Dispatch
          BY <2>5, <4>1 DEF Line
        <5>2. Rejected(data) = "no" => data \in C
          BY <1>2 DEF Rejected
        <5>3. Rejected(data) \in Links \cup {"no"}
          BY DEF Rejected, Links
        <5> QED BY <1>2, <5>1, <5>2, <5>3 DEF Dispatch
      <4>2. CASE partial # NoLine
        <5>1. /\ id' = (IF partial[1] = "id" THEN partial[2] ELSE id)
              /\ data' = (IF partial[1] = "data" THEN partial[2] ELSE data)
              /\ UNCHANGED <<previous, last, link>>
          BY <2>5, <4>2 DEF Line
        <5>2. CASE partial = Comment
          BY <1>2, <5>1, <5>2 DEF Comment
        <5>3. CASE partial \in ({"id"} \X Cursor) \cup ({"data"} \X Data)
          BY <1>2, <5>1, <5>3
        <5> QED BY <1>2, <4>2, <5>2, <5>3 DEF Text
      <4> QED BY <4>1, <4>2
    <3> QED BY <1>2, <2>1, <2>2, <2>5, <3>1 DEF StreamTypeOK, platform, T, Ends
  <2> QED BY <1>11, <2>3, <2>4, <2>5 DEF ReadChar
<1>12. ASSUME Gone, stream' = stream, connections' = connections, last' \in {last, None} PROVE StreamTypeOK'
  <2>1. wire' \in Seq(T) /\ chunk' \in Seq(T) /\ ending' \in Ends
    BY <1>12 DEF Gone, Ends
  <2>2. honest' \in BOOLEAN /\ skipLF' \in BOOLEAN
    BY <1>12, Zenon DEF Gone
  <2>3. /\ partial' \in Text \cup {NoLine} /\ id' \in C /\ data' \in D /\ previous' \in C /\ last' \in C
        /\ sent' \in 0..MaxEvents /\ link' = "off" /\ stream' \in 1..MaxStreams
        /\ connections' \in 0..MaxConnections
    BY <1>1, <1>2, <1>12 DEF Gone
  <2> QED BY <2>1, <2>2, <2>3 DEF StreamTypeOK, T, Ends, Links
<1>13. CASE StreamEnds
  BY <1>12, <1>13 DEF StreamEnds
<1>14. CASE HandleError
  BY <1>12, <1>14 DEF HandleError
<1>17. CASE PlatformFails
  <2>1. PICK d \in {Failure, Garbled} : wire' = wire \o NoEvent(d) /\ honest' = (honest /\ d = Failure)
    BY <1>17 DEF PlatformFails
  <2> DEFINE a == <<<<"data", d>>>>
  <2>2. a \in Seq(T) /\ ending \in Seq(T) /\ wire \in Seq(T)
    BY <1>2, <1>4, <1>5, <1>16
  <2> HIDE DEF a
  <2>3. wire \o (a \o ending \o ending) \in Seq(T)
    BY <2>2, ConcatProperties
  <2>4. wire' \in Seq(T) /\ honest' \in BOOLEAN
    BY <1>2, <2>1, <2>3 DEF NoEvent, a
  <2>5. link' \in Links
    BY <1>17 DEF PlatformFails, Links
  <2> QED BY <1>2, <1>17, <2>4, <2>5 DEF StreamTypeOK, PlatformFails, reader, T, Ends
<1>15. CASE UNCHANGED streamVars
  BY <1>15 DEF StreamTypeOK, streamVars
<1> QED BY <1>6, <1>7, <1>8, <1>9, <1>10, <1>11, <1>13, <1>14, <1>15, <1>17 DEF StreamNext

(* The invariants of all the parts.                                          *)
ServicesInv ==
    /\ DatabaseInv /\ TurnsInv /\ LoginsInv /\ BridgeInv /\ StreamInv /\ StreamTypeOK
    /\ HarnessInv /\ LogInv /\ DeltasInv /\ ServerInv /\ CommandsInv

(* The initial state of every part satisfies its invariant.                  *)
LEMMA ServicesStart == Init => ServicesInv
<1> SUFFICES ASSUME Init PROVE ServicesInv
  OBVIOUS
<1>1. /\ DatabaseInit /\ TurnsInit /\ LoginsInit /\ BridgeInit /\ StreamInit
      /\ HarnessInit /\ LogInit /\ DeltasInit /\ ServerInit /\ CommandsInit
  BY DEF Init, CommandsInit
<1>2. StreamTypeOK
  <2>1. MaxEvents \in Nat /\ MaxStreams \in Nat \ {0} /\ MaxConnections \in Nat
    BY StreamAssumption
  <2>2. stream \in 1..MaxStreams /\ sent \in 0..MaxEvents /\ connections \in 0..MaxConnections
    BY <1>1, <2>1 DEF StreamInit
  <2>3. honest \in BOOLEAN /\ skipLF \in BOOLEAN
    BY <1>1, Zenon DEF StreamInit
  <2>4. ending \in {<<LF>>, <<CR>>, <<CR, LF>>} /\ wire = <<>> /\ chunk = <<>>
    BY <1>1 DEF StreamInit
  <2>5. /\ partial \in Text \cup {NoLine} /\ {id, previous, last} \subseteq Cursor \cup {None}
        /\ data \in Data \cup {None} /\ link \in Links
    BY <1>1 DEF StreamInit, Links
  <2> QED BY <2>2, <2>3, <2>4, <2>5 DEF StreamTypeOK
<1> QED BY <1>1, <1>2, DatabaseStarts, TurnsStart, LoginsStart, BridgeStarts, StreamStarts, HarnessStarts, LogStarts,
           DeltasStart, ServerStarts, CommandsStart
        DEF ServicesInv

(* One part takes a step, the others stay as they are.                       *)
LEMMA ServicesKeep == ServicesInv /\ [Next]_vars => ServicesInv'
<1> SUFFICES ASSUME ServicesInv, [Next]_vars PROVE ServicesInv'
  OBVIOUS
<1>1. /\ [DatabaseNext]_databaseVars /\ [TurnsNext]_turnVars /\ [LoginsNext]_loginVars
      /\ [BridgeNext]_bridgeVars /\ [StreamNext]_streamVars /\ [HarnessNext]_harnessVars
      /\ [LogNext]_logVars /\ [DeltasNext]_deltaVars /\ [ServerNext]_serverVars
      /\ [CommandsNext]_commandVars
  BY DEF Next, vars, DatabaseStep, TurnsStep, LoginsStep, BridgeStep, StreamStep, HarnessStep, LogStep, DeltasStep,
         ServerStep, CommandsStep, CommandsNext
<1> QED BY <1>1, DatabaseKeeps, TurnsKeeps, LoginsKeeps, BridgeKeeps, StreamKeeps, StreamKeepsTypes, HarnessKeeps,
           LogKeeps, DeltasKeeps, ServerKeeps, CommandsKeeps
        DEF ServicesInv

(* Every part keeps its types, and the bridge its bound on the keystrokes it *)
(* holds (auth-terminal-bridge.ts 42-61), for all values of the constants.   *)
THEOREM ServicesKeepTypes == Spec => []ServicesTypeOK
<1>1. ServicesInv => ServicesTypeOK
  BY DEF ServicesInv, ServicesTypeOK, DatabaseInv, TurnsInv, LoginsInv, BridgeInv, HarnessInv, LogInv, DeltasInv,
         ServerInv, CommandsInv
<1> QED BY <1>1, ServicesStart, ServicesKeep, PTL DEF Spec
=============================================================================
