-------------------------- MODULE WorkspaceDatabase --------------------------
(***************************************************************************)
(* The renewable database client (src/src/database.ts).  Callers share one *)
(* connection, whose credentials are renewed a minute before they expire.  *)
(* A renewal retires the connection it replaces: it is closed when its     *)
(* last operation has finished.  Everything between two awaits is one step.*)
(* A connection's credentials are "fresh", "due" in the last minute before *)
(* they expire, then "expired".  Resolving them is src/src/                *)
(* session-database.ts: a request that answers, fails or times out.        *)
(***************************************************************************)
EXTENDS Naturals, FiniteSets

CONSTANTS
    Caller,       \* operations, transactions and their handles
    Connection,   \* clients the factory may hand out, each at most once
    Nobody        \* no connection

ASSUME DatabaseAssumption == IsFiniteSet(Caller) /\ Nobody \notin Connection

VARIABLES
    conn,      \* Connection -> "new", "open", "closed", or "torn" by close()
    retired,   \* connections a renewal has replaced
    users,     \* Connection -> operations counted on it
    age,       \* Connection -> "fresh", "due" or "expired"
    shared,    \* the connection new operations take, or Nobody
    renewing,  \* a renewal is under way
    detached,  \* the client's closed flag
    caller     \* Caller -> [at, on]: "idle", "waiting" for the renewal with a
               \* fallback, "holding" a connection it has not counted itself on,
               \* "using" it, or "left" with a handle that may finish again
databaseVars == <<conn, retired, users, age, shared, renewing, detached, caller>>

DatabaseTypeOK ==
    /\ conn \in [Connection -> {"new", "open", "closed", "torn"}]
    /\ retired \subseteq Connection
    /\ users \in [Connection -> Nat]
    /\ age \in [Connection -> {"fresh", "due", "expired"}]
    /\ shared \in Connection \cup {Nobody}
    /\ renewing \in BOOLEAN /\ detached \in BOOLEAN
    /\ caller \in [Caller -> [at : {"idle", "waiting", "holding", "using", "left"},
                              on : Connection \cup {Nobody}]]

Idle == [at |-> "idle", on |-> Nobody]
Using(c) == {k \in Caller : caller[k].at = "using" /\ caller[k].on = c}

DatabaseInit ==
    /\ conn = [c \in Connection |-> "new"] /\ retired = {}
    /\ users = [c \in Connection |-> 0] /\ age = [c \in Connection |-> "fresh"]
    /\ shared = Nobody /\ renewing = FALSE /\ detached = FALSE
    /\ caller = [k \in Caller |-> Idle]

Go(k, at, c) == caller' = [caller EXCEPT ![k] = [at |-> at, on |-> c]]

(* connection(): the shared one while it is fresh; else join the renewal, or *)
(* start it, keeping a connection that has not expired as a fallback.        *)
Ask(k) ==
    IF detached THEN Go(k, "idle", Nobody) /\ UNCHANGED renewing
    ELSE IF shared # Nobody /\ age[shared] = "fresh"
         THEN Go(k, "holding", shared) /\ UNCHANGED renewing
         ELSE /\ renewing' = TRUE
              /\ Go(k, "waiting", IF shared # Nobody /\ age[shared] = "due"
                                  THEN shared ELSE Nobody)

Call(k) ==
    /\ caller[k].at = "idle" /\ ~detached
    /\ Ask(k)
    /\ UNCHANGED <<conn, retired, users, age, shared, detached>>

(* Seeded fault: acquire() does not look again.                             *)
AcquireAnyway(k) ==
    /\ caller[k].at = "holding"
    /\ LET c == caller[k].on IN
       IF detached THEN Go(k, "idle", Nobody) /\ UNCHANGED users
       ELSE users' = [users EXCEPT ![c] = @ + 1] /\ Go(k, "using", c)
    /\ UNCHANGED <<conn, retired, age, shared, renewing, detached>>
(* acquire() resumes: it asks again for a connection retired meanwhile.      *)
Acquire(k) ==
    /\ caller[k].at = "holding"
    /\ LET c == caller[k].on IN
       IF detached THEN Go(k, "idle", Nobody) /\ UNCHANGED <<users, renewing>>
       ELSE IF c \in retired THEN Ask(k) /\ UNCHANGED users
       ELSE /\ users' = [users EXCEPT ![c] = @ + 1]
            /\ Go(k, "using", c)
            /\ UNCHANGED renewing
    /\ UNCHANGED <<conn, retired, age, shared, detached>>

(* release(): the last user of a retired connection closes it.               *)
Release(c) ==
    /\ users' = [users EXCEPT ![c] = @ - 1]
    /\ conn' = IF c \in retired /\ users[c] = 1
               THEN [conn EXCEPT ![c] = IF @ = "open" THEN "closed" ELSE @] ELSE conn

(* The operation, or the transaction's commit, rollback or close, is over.   *)
(* Only the first finish of a transaction counts.                            *)
FinishUse(k) ==
    /\ \/ caller[k].at = "using" /\ Release(caller[k].on) /\ Go(k, "left", caller[k].on)
       \/ caller[k].at = "left" /\ Go(k, "idle", Nobody) /\ UNCHANGED <<users, conn>>
    /\ UNCHANGED <<retired, age, shared, renewing, detached>>

(* retire(): an unused connection closes at once.                            *)
Retired(c) == IF c # Nobody /\ users[c] = 0 THEN [conn EXCEPT ![c] = "closed"] ELSE conn

(* The renewal resolves: what it replaces is retired, its callers resume.    *)
RenewalSucceeds ==
    /\ renewing /\ ~detached
    /\ \E c \in Connection :
        /\ conn[c] = "new"
        /\ conn' = [Retired(shared) EXCEPT ![c] = "open"]
        /\ retired' = IF shared = Nobody THEN retired ELSE retired \cup {shared}
        /\ shared' = c
        /\ caller' = [k \in Caller |-> IF caller[k].at = "waiting"
                                       THEN [at |-> "holding", on |-> c] ELSE caller[k]]
    /\ renewing' = FALSE
    /\ UNCHANGED <<users, age, detached>>

(* It fails, or resolves after close(): a caller falls back on credentials   *)
(* that have still not expired, or is refused.                               *)
RenewalFails ==
    /\ renewing
    /\ renewing' = FALSE
    /\ caller' = [k \in Caller |->
           IF caller[k].at # "waiting" THEN caller[k]
           ELSE LET c == caller[k].on IN
                IF ~detached /\ c # Nobody /\ age[c] # "expired"
                THEN [at |-> "holding", on |-> c] ELSE Idle]
    /\ UNCHANGED <<conn, retired, users, age, shared, detached>>

(* credentials() takes what connection() gave it and counts on nothing.      *)
Credentials(k) ==
    /\ caller[k].at = "holding"
    /\ Go(k, "idle", Nobody)
    /\ UNCHANGED <<conn, retired, users, age, shared, renewing, detached>>

(* close() closes every connection, those in use too; reconnect() only       *)
(* clears the flag.                                                          *)
Close ==
    /\ ~detached
    /\ detached' = TRUE
    /\ conn' = [c \in Connection |-> IF conn[c] = "open" THEN "torn" ELSE conn[c]]
    /\ shared' = Nobody
    /\ UNCHANGED <<retired, users, age, renewing, caller>>
Reconnect ==
    /\ detached
    /\ detached' = FALSE
    /\ UNCHANGED <<conn, retired, users, age, shared, renewing, caller>>

(* The clock reaches the last minute of a connection's credentials, then     *)
(* their end.                                                                *)
Age(c) ==
    /\ conn[c] = "open" /\ age[c] # "expired"
    /\ age' = [age EXCEPT ![c] = IF @ = "fresh" THEN "due" ELSE "expired"]
    /\ UNCHANGED <<conn, retired, users, shared, renewing, detached, caller>>

DatabaseNext ==
    \/ \E k \in Caller : Call(k) \/ Acquire(k) \/ Credentials(k) \/ FinishUse(k)
    \/ RenewalSucceeds \/ RenewalFails
    \/ Close \/ Reconnect
    \/ \E c \in Connection : Age(c)

DatabaseSpec == DatabaseInit /\ [][DatabaseNext]_databaseVars

-----------------------------------------------------------------------------
(* An operation runs on an open connection: a renewal that replaces the      *)
(* connection in the middle of a transaction closes nothing under it, a      *)
(* handle that finishes twice releases once, and only close() tears a        *)
(* connection from its users (database.ts 51-54, 73, 93-94).                 *)
InUseIsOpen == \A c \in Connection : Using(c) # {} => conn[c] \in {"open", "torn"}

(* No connection leaks: one that is open is the shared one or still has an   *)
(* operation on it, whose release will close it, and after close() none is   *)
(* open (database.ts 51-54, 73, 110).                                        *)
NoConnectionLeaks ==
    \A c \in Connection : conn[c] = "open" =>
        /\ c = shared \/ (c \in retired /\ Using(c) # {})
        /\ ~detached

(* The counter release() decides by is the number of operations under way.   *)
UsersAreCounted == \A c \in Connection : users[c] = Cardinality(Using(c))

(* What the client promises of its connections: none is closed under an      *)
(* operation, and none stays open without a use.                             *)
ConnectionsAreHeld == InUseIsOpen /\ NoConnectionLeaks
=============================================================================
