--------------------------- MODULE ClaudeRuntimeProofs ---------------------------
(***************************************************************************)
(* Theorems about the Claude runtime, for any number of inputs, of cancels *)
(* and of failures.  They rest on one inductive invariant, Inv.  A commit  *)
(* is asked for in one step and lands in a later one, and a delivery is    *)
(* flushed and then written, so that most of Inv says that what an actor   *)
(* read before it waited is still true when it goes on: QueueInv and       *)
(* StatusInv of commits, DeliveryInv and HoldInv of deliveries.  A failed  *)
(* commit fences the store, and what was read then no longer matters.      *)
(***************************************************************************)
EXTENDS ClaudeRuntime, FiniteSetTheorems, SequenceTheorems, WellFoundedInduction, TLAPS

Statuses == {"none", "accepted", "delivering", "running", "completed", "stopped"}
RunIds == Runs \cup {0}
States ==
  [status : [Inputs -> Statuses], runOf : [Inputs -> RunIds],
   run : [id : RunIds, status : {"none", "running", "cancelling", "finishing", "ended"}],
   controls : SUBSET Runs]

HandlerPlaces == {"idle", "initialize", "flush", "admit", "cancel", "reset",
                  "deliver", "ready", "write", "send", "detach"}
WorkPlaces == {"idle", "begin", "final", "first", "firstWrite", "deliver", "write",
               "send", "detach", "flush", "done", "lastFlush"}
ReaderPlaces == {"idle", "echo", "result", "error", "flush", "closed"}
HookPlaces == {"idle", "hook"}
(* Those at which it waits for a commit.                                    *)
Committing == {"initialize", "admit", "cancel", "reset", "begin", "deliver", "detach",
               "final", "echo", "result", "error", "hook"}

(* Types, with the places at which each actor can wait.                     *)
TypeOK ==
  /\ disk \in States /\ memory \in States
  /\ up \in BOOLEAN /\ fenced \in BOOLEAN
  /\ operations \in Seq(Actors)
  /\ at \in [Actors -> HandlerPlaces \cup WorkPlaces \cup ReaderPlaces \cup HookPlaces]
  /\ at["handler"] \in HandlerPlaces /\ at["work"] \in WorkPlaces
  /\ at["reader"] \in ReaderPlaces /\ at["hook"] \in HookPlaces
  /\ on \in [Actors -> Inputs \cup {0}] /\ to \in [Actors -> RunIds]
  /\ then \in {"none", "start", "retry", "deliver"}
  /\ todo \subseteq Inputs
  /\ run \in RunIds /\ active \in BOOLEAN /\ slot \in BOOLEAN /\ aborted \in BOOLEAN /\ killed \in BOOLEAN
  /\ stream \in {"none", "refused", "starting", "open", "ending", "halting", "stopping", "unstarted", "settled"}
  /\ sent \subseteq Inputs /\ consumed \subseteq Inputs
  /\ written \in [Inputs -> Nat]
  /\ cancels \in 0..MaxCancels /\ failures \in 0..MaxFailures

(* Every cancellation that is recorded, or about to be, was counted.        *)
NamesInv ==
  /\ memory.controls \subseteq disk.controls
  /\ Cardinality(disk.controls) + (IF at["handler"] = "cancel" THEN 1 ELSE 0) <= cancels

(* Who is in the queue awaits a commit, and is there once.                  *)
Queued(queue, place) ==
  /\ \A m \in 1..Len(queue) : place[queue[m]] \in Committing
  /\ \A m, n \in 1..Len(queue) : queue[m] = queue[n] => m = n

QueueInv == Queued(operations, at)

(* Where the handler, the work and the reader can be, by the run and its    *)
(* stream: work holds the slot, what delivers has a stream, and a process   *)
(* that is not up has neither.                                              *)
PhaseInv ==
  /\ ~fenced => memory = disk
  /\ ~up => /\ at["handler"] \in {"idle", "initialize"}
            /\ at["work"] = "idle" /\ at["reader"] = "idle" /\ at["hook"] = "idle"
            /\ stream = "none" /\ ~active /\ ~slot
  /\ at["handler"] = "initialize" => ~up /\ then = "start"
  /\ at["handler"] = "admit" => then = "deliver" \/ (then = "start" /\ ~slot)
  /\ at["handler"] = "cancel" => then = "none"
  /\ at["handler"] = "reset" => then = "none" /\ ~slot
  /\ at["handler"] = "deliver" \/ at["work"] \notin {"idle", "begin"} => stream # "none"
  /\ at["work"] # "idle" => slot
  /\ at["work"] \in {"idle", "begin", "final", "lastFlush"} =>
       stream \in {"none", "refused", "unstarted", "settled"}
  /\ at["work"] = "begin" => stream = "none" /\ active /\ on["work"] \in Inputs
  /\ at["reader"] \notin {"idle", "closed"} => Reading
  /\ accepting => active

Deliverers == {"handler", "work"}

(* Actor a has taken input i to write it, and has not.                      *)
Holds(a, i) == on[a] = i /\ at[a] \in {"first", "send", "detach"}

(* No delivery of the run has found its stream closed.                      *)
Fresh == stream \in {"none", "starting", "open"}

(* An input that was taken and not written is beyond "accepted", and only   *)
(* one of the two that deliver has taken it; nobody detaches an input of a  *)
(* stream that is fresh.                                                    *)
HoldInv ==
  /\ \A a \in Deliverers, i \in Inputs : Holds(a, i) => written[i] = 0 /\ disk.status[i] \notin {"none", "accepted"}
  /\ \A i \in Inputs : ~(Holds("handler", i) /\ Holds("work", i))
  /\ \A a \in Deliverers : at[a] = "detach" => ~Fresh

(* The status an actor found is still there when its commit lands: an       *)
(* admitted input is new, and the first input of a run is accepted, of      *)
(* that run, and is not being cancelled.                                    *)
StatusInv ==
  ~fenced =>
    \A i \in Inputs :
      /\ at["handler"] = "admit" /\ on["handler"] = i => disk.status[i] = "none"
      /\ at["work"] = "begin" /\ on["work"] = i =>
           /\ disk.status[i] = "accepted" /\ disk.runOf[i] = run
           /\ ~(at["handler"] = "cancel" /\ on["handler"] = i)

OfItsRun(i) == disk.runOf[i] = run

(* While the stream of the run is fresh, what is delivered to it is of the  *)
(* run: the reads before each flush are still true after it.                *)
DeliveryInv ==
  /\ at["handler"] \in {"admit", "flush"} /\ then = "deliver" => to["handler"] = run
  /\ Fresh /\ ~fenced =>
    /\ \A i \in Inputs : on["handler"] = i =>
         /\ at["handler"] = "flush" /\ then \in {"retry", "deliver"} => disk.runOf[i] = to["handler"]
         /\ at["handler"] \in {"ready", "deliver", "send"} => OfItsRun(i)
    /\ \A i \in Inputs : on["work"] = i /\ at["work"] \in {"first", "deliver", "send"} => OfItsRun(i)
    /\ at["work"] \in {"deliver", "send", "write", "flush"} => \A j \in todo \cap Accepted(disk) : OfItsRun(j)

(* What Claude was given and is open is of the active run, whose work has   *)
(* not ended.                                                               *)
SettleInv ==
  up /\ ~fenced => \A i \in Pending(memory) :
    written[i] = 1 => active /\ memory.runOf[i] = run /\ at["work"] \notin {"idle", "lastFlush"}

(* The inductive invariant.  SettleInv and WrittenOnce are what the runs    *)
(* check; the others carry them over the steps in between.                  *)
Inv == TypeOK /\ NamesInv /\ QueueInv /\ PhaseInv /\ HoldInv /\ WrittenOnce /\ StatusInv /\ DeliveryInv /\ SettleInv

-----------------------------------------------------------------------------
(* A set of naturals that is not empty has a least element.                 *)
LEMMA LeastNatural ==
  ASSUME NEW S, S \subseteq Nat, S # {}
  PROVE  \E n \in S : \A m \in S : n <= m
<1> DEFINE R == OpToRel(<, Nat)
<1>1. IsWellFoundedOn(R, Nat)
  BY NatLessThanWellFounded
<1>2. \A x, y \in Nat : <<x, y>> \in R <=> x < y
  BY Zenon DEF OpToRel
<1> HIDE DEF R
<1>3. PICK n \in S : \A m \in S : ~(<<m, n>> \in R)
  BY <1>1, WFMin
<1>4. \A m \in S : m \in Nat /\ n \in Nat /\ ~(m < n)
  BY <1>2, <1>3
<1>5. \A m \in S : n <= m
  BY <1>4
<1> QED BY <1>3, <1>5

(* The values of a function on a finite set are no more than its arguments. *)
LEMMA ImageIsSmall ==
  ASSUME NEW S, IsFiniteSet(S), NEW f, DOMAIN f = S
  PROVE  /\ IsFiniteSet({f[x] : x \in S})
         /\ Cardinality({f[x] : x \in S}) <= Cardinality(S)
<1> DEFINE T == {f[x] : x \in S}
           g == [x \in S |-> f[x]]
<1>1. g \in Surjection(S, T)
  BY DEF Surjection
<1> QED BY <1>1, FS_Surjection

(* Two small sets have a small union.                                       *)
LEMMA UnionIsSmall ==
  ASSUME NEW S, NEW T, IsFiniteSet(S), IsFiniteSet(T), NEW m \in Nat, NEW n \in Nat,
         Cardinality(S) <= m, Cardinality(T) <= n
  PROVE  IsFiniteSet(S \cup T) /\ Cardinality(S \cup T) <= m + n
<1>1. IsFiniteSet(S \cup T) /\ Cardinality(S \cup T) = Cardinality(S) + Cardinality(T) - Cardinality(S \cap T)
  BY FS_Union
<1>2. IsFiniteSet(S \cap T)
  BY FS_Subset
<1>3. Cardinality(S) \in Nat /\ Cardinality(T) \in Nat /\ Cardinality(S \cap T) \in Nat
  BY <1>2, FS_CardinalityType
<1> QED BY <1>1, <1>3

(* Three things make a set of at most three, and four one of at most four.  *)
LEMMA FewAreSmall ==
  ASSUME NEW a, NEW b, NEW c, NEW d
  PROVE  /\ IsFiniteSet({a, b, c}) /\ Cardinality({a, b, c}) <= 3
         /\ IsFiniteSet({a, b, c, d}) /\ Cardinality({a, b, c, d}) <= 4
<1>1. IsFiniteSet({a}) /\ Cardinality({a}) = 1
  BY FS_Singleton, Zenon
<1>2. IsFiniteSet({a} \cup {b}) /\ Cardinality({a} \cup {b}) <= 2
  BY <1>1, FS_AddElement
<1>3. IsFiniteSet(({a} \cup {b}) \cup {c}) /\ Cardinality(({a} \cup {b}) \cup {c}) <= 3
  <2> DEFINE S == {a} \cup {b}
  <2>1. IsFiniteSet(S) /\ Cardinality(S) <= 2 /\ Cardinality(S) \in Nat
    BY <1>2, FS_CardinalityType
  <2> HIDE DEF S
  <2>2. IsFiniteSet(S \cup {c}) /\ Cardinality(S \cup {c}) <= 3
    BY <2>1, FS_AddElement
  <2> QED BY <2>2 DEF S
<1>4. IsFiniteSet((({a} \cup {b}) \cup {c}) \cup {d}) /\ Cardinality((({a} \cup {b}) \cup {c}) \cup {d}) <= 4
  <2> DEFINE S == ({a} \cup {b}) \cup {c}
  <2>1. IsFiniteSet(S) /\ Cardinality(S) <= 3 /\ Cardinality(S) \in Nat
    BY <1>3, FS_CardinalityType
  <2> HIDE DEF S
  <2>2. IsFiniteSet(S \cup {d}) /\ Cardinality(S \cup {d}) <= 4
    BY <2>1, FS_AddElement
  <2> QED BY <2>2 DEF S
<1>5. ({a} \cup {b}) \cup {c} = {a, b, c} /\ (({a} \cup {b}) \cup {c}) \cup {d} = {a, b, c, d}
  OBVIOUS
<1> QED BY <1>3, <1>4, <1>5

(* There is always a name left for a new run: Runs has one more than what   *)
(* the state can refer to.                                                  *)
LEMMA RunsSuffice ==
  ASSUME TypeOK, NamesInv
  PROVE  Runs \ InUse # {}
<1>a. MaxInputs \in Nat /\ MaxCancels \in Nat /\ cancels \in Nat /\ cancels <= MaxCancels
  BY RuntimeAssumption DEF TypeOK
<1>1. IsFiniteSet(Inputs) /\ Cardinality(Inputs) = MaxInputs
  BY <1>a, FS_Interval DEF Inputs
<1>2. IsFiniteSet(Runs) /\ Cardinality(Runs) = 2 * MaxInputs + MaxCancels + 8
  BY <1>a, FS_Interval DEF Runs
<1>3. IsFiniteSet({run, memory.run.id, disk.run.id}) /\ Cardinality({run, memory.run.id, disk.run.id}) <= 3
  BY FewAreSmall
<1>4. IsFiniteSet(disk.controls) /\ Cardinality(disk.controls) <= MaxCancels
  <2>1. disk.controls \subseteq Runs
    BY DEF TypeOK, States
  <2>2. IsFiniteSet(disk.controls) /\ Cardinality(disk.controls) \in Nat
    BY <1>2, <2>1, FS_Subset, FS_CardinalityType
  <2> QED BY <1>a, <2>2 DEF NamesInv
<1>5. IsFiniteSet({to[a] : a \in Actors}) /\ Cardinality({to[a] : a \in Actors}) <= 4
  <2>1. {to[a] : a \in Actors} = {to["handler"], to["work"], to["reader"], to["hook"]}
    BY DEF Actors
  <2>2. /\ IsFiniteSet({to["handler"], to["work"], to["reader"], to["hook"]})
        /\ Cardinality({to["handler"], to["work"], to["reader"], to["hook"]}) <= 4
    BY FewAreSmall
  <2> QED BY <2>1, <2>2
<1>6. ASSUME NEW state \in States
      PROVE  IsFiniteSet({state.runOf[i] : i \in Inputs}) /\ Cardinality({state.runOf[i] : i \in Inputs}) <= MaxInputs
  <2>1. DOMAIN state.runOf = Inputs
    BY DEF States
  <2> QED BY <1>1, <2>1, ImageIsSmall
<1> DEFINE A == {run, memory.run.id, disk.run.id} \cup disk.controls
           B == A \cup {to[a] : a \in Actors}
           C == B \cup {memory.runOf[i] : i \in Inputs}
           D == C \cup {disk.runOf[i] : i \in Inputs}
<1>7. IsFiniteSet(A) /\ Cardinality(A) <= 3 + MaxCancels
  <2> DEFINE Three == {run, memory.run.id, disk.run.id}
  <2>1. IsFiniteSet(Three) /\ Cardinality(Three) <= 3
    BY <1>3
  <2> HIDE DEF Three
  <2>2. IsFiniteSet(Three \cup disk.controls) /\ Cardinality(Three \cup disk.controls) <= 3 + MaxCancels
    BY <1>a, <1>4, <2>1, UnionIsSmall
  <2> QED BY <2>2 DEF Three
<1>8. IsFiniteSet(B) /\ Cardinality(B) <= (3 + MaxCancels) + 4
  <2> HIDE DEF A
  <2>1. 3 + MaxCancels \in Nat
    BY <1>a
  <2> QED BY <2>1, <1>5, <1>7, UnionIsSmall
<1>9. IsFiniteSet(C) /\ Cardinality(C) <= (7 + MaxCancels) + MaxInputs
  <2>1. memory \in States
    BY DEF TypeOK
  <2>2. IsFiniteSet(B) /\ Cardinality(B) <= 7 + MaxCancels /\ 7 + MaxCancels \in Nat
    BY <1>a, <1>8, FS_CardinalityType
  <2> HIDE DEF B
  <2> QED BY <1>a, <1>6, <2>1, <2>2, UnionIsSmall
<1>10. IsFiniteSet(D) /\ Cardinality(D) <= (7 + MaxCancels + MaxInputs) + MaxInputs
  <2>1. disk \in States
    BY DEF TypeOK
  <2>2. IsFiniteSet(C) /\ Cardinality(C) <= 7 + MaxCancels + MaxInputs /\ 7 + MaxCancels + MaxInputs \in Nat
    BY <1>a, <1>9, FS_CardinalityType
  <2> HIDE DEF C
  <2> QED BY <1>a, <1>6, <2>1, <2>2, UnionIsSmall
<1>11. InUse = D
  BY DEF InUse, NamesInv
<1> HIDE DEF D
<1>12. ASSUME Runs \ InUse = {} PROVE FALSE
  <2>1. Runs \in SUBSET D
    BY <1>11, <1>12
  <2>2. Cardinality(Runs) <= Cardinality(D) /\ Cardinality(D) \in Nat
    BY <1>10, <2>1, FS_Subset, FS_CardinalityType
  <2> QED BY <1>a, <1>2, <1>10, <2>2
<1> QED BY <1>12

(* A new run has a name, and nothing refers to it.                          *)
LEMMA NewRunIsNew ==
  ASSUME TypeOK, NamesInv, NEW a \in Actors, NewRun(a)
  PROVE  \E r \in Runs \ InUse : to' = [to EXCEPT ![a] = r]
<1>1. Runs \ InUse # {} /\ Runs \ InUse \subseteq Nat
  BY RunsSuffice, RuntimeAssumption DEF Runs
<1>2. PICK r \in Runs \ InUse : \A other \in Runs \ InUse : r <= other
  <2> DEFINE S == Runs \ InUse
  <2> HIDE DEF S
  <2> SUFFICES \E r \in S : \A other \in S : r <= other
    BY DEF S
  <2> QED BY <1>1, LeastNatural DEF S
<1> DEFINE new == CHOOSE q \in Runs \ InUse : \A other \in Runs \ InUse : q <= other
<1>3. new \in Runs \ InUse
  BY <1>2
<1>4. to' = [to EXCEPT ![a] = new]
  BY DEF NewRun
<1> QED BY <1>3, <1>4

-----------------------------------------------------------------------------

(* What the primitives of the transactions change.                          *)
LEMMA SetStatusSets ==
  ASSUME NEW state \in States, NEW is, NEW s \in Statuses
  PROVE  /\ SetStatus(state, is, s) \in States
         /\ SetStatus(state, is, s).runOf = state.runOf
         /\ SetStatus(state, is, s).run = state.run
         /\ SetStatus(state, is, s).controls = state.controls
         /\ \A i \in Inputs : SetStatus(state, is, s).status[i] = IF i \in is THEN s ELSE state.status[i]
BY DEF SetStatus, States

(* SetRunOf gives the inputs of `is` run r, and changes nothing else.       *)
LEMMA SetRunOfSets ==
  ASSUME NEW state \in States, NEW is, NEW r \in RunIds
  PROVE  /\ SetRunOf(state, is, r) \in States
         /\ SetRunOf(state, is, r).status = state.status
         /\ SetRunOf(state, is, r).run = state.run
         /\ SetRunOf(state, is, r).controls = state.controls
         /\ \A i \in Inputs : SetRunOf(state, is, r).runOf[i] = IF i \in is THEN r ELSE state.runOf[i]
BY DEF SetRunOf, States

(* SetRun changes nothing of the inputs, and no recorded cancel.            *)
LEMMA SetRunSets ==
  ASSUME NEW state \in States, NEW r, NEW s \in {"none", "running", "cancelling", "finishing", "ended"}
  PROVE  /\ SetRun(state, r, s) \in States
         /\ SetRun(state, r, s).status = state.status
         /\ SetRun(state, r, s).runOf = state.runOf
         /\ SetRun(state, r, s).controls = state.controls
BY DEF SetRun, States

(* Only the inputs a transaction is about change their status, and only an  *)
(* admission or a detachment gives one another run.                         *)
LEMMA AdmittedSets ==
  ASSUME NEW state \in States, NEW i, NEW r \in RunIds
  PROVE  /\ Admitted(state, i, r) \in States
         /\ Admitted(state, i, r).controls = state.controls
         /\ \A j \in Inputs :
              /\ Admitted(state, i, r).status[j] = IF j = i THEN "accepted" ELSE state.status[j]
              /\ Admitted(state, i, r).runOf[j] = IF j = i THEN r ELSE state.runOf[j]
<1> DEFINE accepted == SetStatus(state, {i}, "accepted")
<1>1. "accepted" \in Statuses
  BY DEF Statuses
<1>2. /\ accepted \in States /\ accepted.controls = state.controls /\ accepted.runOf = state.runOf
      /\ \A j \in Inputs : accepted.status[j] = IF j \in {i} THEN "accepted" ELSE state.status[j]
  BY <1>1, SetStatusSets
<1>3. Admitted(state, i, r) = SetRunOf(accepted, {i}, r)
  BY DEF Admitted
<1> HIDE DEF accepted
<1>4. /\ SetRunOf(accepted, {i}, r) \in States
      /\ SetRunOf(accepted, {i}, r).controls = accepted.controls
      /\ SetRunOf(accepted, {i}, r).status = accepted.status
      /\ \A j \in Inputs : SetRunOf(accepted, {i}, r).runOf[j] = IF j \in {i} THEN r ELSE accepted.runOf[j]
  BY <1>2, SetRunOfSets
<1> QED BY <1>2, <1>3, <1>4

(* The commit with which work begins delivers its input, and no other.      *)
LEMMA BegunSets ==
  ASSUME NEW state \in States, NEW i, NEW r \in RunIds
  PROVE  /\ Begun(state, i, r) \in States
         /\ Begun(state, i, r).controls = state.controls
         /\ Begun(state, i, r).runOf = state.runOf
         /\ \A j \in Inputs : Begun(state, i, r).status[j] = IF j = i THEN "delivering" ELSE state.status[j]
BY DEF Begun, SetStatus, States, Statuses

(* deliver's commit delivers its input if it was still accepted.            *)
LEMMA DeliveringSets ==
  ASSUME NEW state \in States, NEW i
  PROVE  /\ Delivering(state, i) \in States
         /\ Delivering(state, i).controls = state.controls
         /\ Delivering(state, i).runOf = state.runOf
         /\ \A j \in Inputs : Delivering(state, i).status[j] =
              IF j = i /\ state.status[i] = "accepted" THEN "delivering" ELSE state.status[j]
BY DEF Delivering, SetStatus, Accepted, States, Statuses

(* A cancel stops its dormant input, and records at most the run it is of.  *)
LEMMA CancelRecordedSets ==
  ASSUME NEW state \in States, NEW i, NEW r \in RunIds
  PROVE  /\ CancelRecorded(state, i, r) \in States
         /\ \/ CancelRecorded(state, i, r).controls = state.controls
            \/ r \in Runs /\ CancelRecorded(state, i, r).controls = state.controls \cup {r}
         /\ CancelRecorded(state, i, r).runOf = state.runOf
         /\ \A j \in Inputs : CancelRecorded(state, i, r).status[j] = IF j = i THEN "stopped" ELSE state.status[j]
<1> DEFINE dormant == SetStatus(state, {i}, "stopped")
           cancelling == SetRun(dormant, r, "cancelling")
<1>1. "stopped" \in Statuses
  BY DEF Statuses
<1>2. /\ dormant \in States /\ dormant.controls = state.controls /\ dormant.runOf = state.runOf
      /\ \A j \in Inputs : dormant.status[j] = IF j = i THEN "stopped" ELSE state.status[j]
  BY <1>1, SetStatusSets
<1> HIDE DEF dormant
<1>3. /\ cancelling \in States /\ cancelling.controls = dormant.controls
      /\ cancelling.runOf = dormant.runOf /\ cancelling.status = dormant.status
  BY <1>2, SetRunSets
<1> HIDE DEF cancelling
<1>4. CASE r = 0
  BY <1>2, <1>4 DEF CancelRecorded, dormant
<1>5. CASE r # 0
  <2>1. CancelRecorded(state, i, r) = [cancelling EXCEPT !.controls = @ \cup {r}] /\ r \in Runs
    BY <1>5 DEF CancelRecorded, dormant, cancelling, RunIds
  <2> QED BY <1>2, <1>3, <2>1 DEF States
<1> QED BY <1>4, <1>5

(* Recovery stops exactly what was being delivered or running.              *)
LEMMA InitializedSets ==
  ASSUME NEW state \in States, NEW r \in RunIds
  PROVE  /\ Initialized(state, r) \in States
         /\ Initialized(state, r).controls = state.controls
         /\ \A j \in Inputs : Initialized(state, r).status[j] =
              IF j \in Pending(state) THEN "stopped" ELSE state.status[j]
<1> DEFINE stopped == SetStatus(state, Pending(state), "stopped")
           retained == SetRunOf(stopped, Accepted(stopped), r)
<1>1. "stopped" \in Statuses
  BY DEF Statuses
<1>2. /\ stopped \in States /\ stopped.controls = state.controls /\ stopped.run = state.run
      /\ \A j \in Inputs : stopped.status[j] = IF j \in Pending(state) THEN "stopped" ELSE state.status[j]
  BY <1>1, SetStatusSets
<1> HIDE DEF stopped
<1>3. /\ retained \in States /\ retained.controls = stopped.controls /\ retained.status = stopped.status
  BY <1>2, SetRunOfSets
<1> HIDE DEF retained
<1>4. Initialized(state, r) = retained \/ Initialized(state, r) = [retained EXCEPT !.run.status = "ended"]
  BY DEF Initialized, retained, stopped
<1> QED BY <1>2, <1>3, <1>4 DEF States

(* The end of a run stops what of it is open, and changes no input's run.   *)
LEMMA FinishedSets ==
  ASSUME NEW state \in States, NEW r
  PROVE  /\ Finished(state, r) \in States
         /\ Finished(state, r).controls = state.controls
         /\ Finished(state, r).runOf = state.runOf
         /\ \A j \in Inputs : Finished(state, r).status[j] =
              IF j \in OfRun(state, r) \cap (Pending(state) \cup Accepted(state)) THEN "stopped" ELSE state.status[j]
<1> DEFINE is == OfRun(state, r) \cap (Pending(state) \cup Accepted(state))
<1>1. "stopped" \in Statuses
  BY DEF Statuses
<1>2. /\ SetStatus(state, is, "stopped") \in States
      /\ SetStatus(state, is, "stopped").controls = state.controls
      /\ SetStatus(state, is, "stopped").runOf = state.runOf
      /\ \A j \in Inputs : SetStatus(state, is, "stopped").status[j] = IF j \in is THEN "stopped" ELSE state.status[j]
  BY <1>1, SetStatusSets
<1> QED BY <1>2, SetRunSets, ZenonT(60) DEF Finished

(* A reset stops what is accepted, and changes no input's run.              *)
LEMMA WasResetSets ==
  ASSUME NEW state \in States
  PROVE  /\ WasReset(state) \in States
         /\ WasReset(state).controls = state.controls
         /\ WasReset(state).runOf = state.runOf
         /\ \A j \in Inputs : WasReset(state).status[j] =
              IF j \in Accepted(state) THEN "stopped" ELSE state.status[j]
<1> DEFINE cleared == SetStatus(state, Accepted(state), "stopped")
<1>1. "stopped" \in Statuses
  BY DEF Statuses
<1>2. /\ cleared \in States /\ cleared.controls = state.controls /\ cleared.runOf = state.runOf
      /\ \A j \in Inputs : cleared.status[j] = IF j \in Accepted(state) THEN "stopped" ELSE state.status[j]
  BY <1>1, SetStatusSets
<1>3. WasReset(state) = [cleared EXCEPT !.run = [id |-> 0, status |-> "none"]]
  BY DEF WasReset
<1> HIDE DEF cleared
<1> QED BY <1>2, <1>3 DEF States, RunIds

(* What the reader observes concerns inputs that are delivered or running.  *)
LEMMA ObservedSets ==
  ASSUME NEW state \in States, NEW i, NEW r \in RunIds, NEW s \in {"completed", "stopped"},
         NEW t, t = Echoed(state, i, r) \/ t = Resulted(state, r, s)
  PROVE  /\ t \in States /\ t.controls = state.controls /\ t.runOf = state.runOf
         /\ \A j \in Inputs : \/ t.status[j] = state.status[j]
                              \/ pending(state, j) /\ t.status[j] \in {"running", "completed", "stopped"}
<1>1. CASE t = Echoed(state, i, r)
  BY <1>1 DEF Echoed, SetStatus, OfRun, States, Statuses, pending
<1>2. CASE t = Resulted(state, r, s)
  <2> DEFINE is == OfRun(state, r) \cap Running(state)
             settled == SetStatus(state, is, s)
  <2>1. s \in Statuses
    BY DEF Statuses
  <2>2. /\ settled \in States /\ settled.controls = state.controls /\ settled.runOf = state.runOf
        /\ \A j \in Inputs : settled.status[j] = IF j \in is THEN s ELSE state.status[j]
    BY <2>1, SetStatusSets
  <2>3. t = settled \/ t = [settled EXCEPT !.run.status = "finishing"]
    BY <1>2 DEF Resulted
  <2>4. \A j \in is : pending(state, j)
    BY DEF Running, pending
  <2> HIDE DEF settled, is
  <2> QED BY <2>2, <2>3, <2>4 DEF States
<1> QED BY <1>1, <1>2

(* What a commit makes of the state, by what its actor awaits.              *)
LEMMA MutatedSets ==
  ASSUME TypeOK, NEW a \in Actors, at[a] \in Committing, NEW t, t = Mutated(a)
  PROVE  /\ t \in States
         /\ \/ t.controls = memory.controls
            \/ at[a] = "cancel" /\ to[a] \in Runs /\ t.controls = memory.controls \cup {to[a]}
         /\ at[a] \notin {"initialize", "admit", "detach"} => t.runOf = memory.runOf
         /\ \A i \in Inputs :
              /\ i # on[a] /\ at[a] # "initialize" => t.runOf[i] = memory.runOf[i]
              /\ at[a] \in {"admit", "detach"} =>
                   /\ t.status[i] = IF i = on[a] THEN "accepted" ELSE memory.status[i]
                   /\ t.runOf[i] = IF i = on[a] THEN to[a] ELSE memory.runOf[i]
              /\ at[a] \notin {"admit", "detach"} /\ t.status[i] = "accepted" => memory.status[i] = "accepted"
              /\ at[a] \notin {"admit", "detach", "begin", "cancel"} => (t.status[i] = "none" <=> memory.status[i] = "none")
              /\ at[a] \in {"begin", "cancel", "deliver"} /\ i # on[a] => t.status[i] = memory.status[i]
              /\ at[a] = "hook" => t.status[i] = memory.status[i]
              /\ at[a] = "begin" /\ i = on[a] => t.status[i] = "delivering"
              /\ at[a] = "cancel" /\ i = on[a] => t.status[i] = "stopped"
              /\ at[a] = "deliver" /\ i = on[a] =>
                   t.status[i] = IF memory.status[i] = "accepted" THEN "delivering" ELSE memory.status[i]
              /\ at[a] \notin {"begin", "deliver"} /\ pending(t, i) => pending(memory, i)
              /\ at[a] = "initialize" => ~pending(t, i)
              /\ at[a] = "final" /\ memory.runOf[i] = run => ~pending(t, i)
<1>a. memory \in States /\ to[a] \in RunIds /\ run \in RunIds
  BY DEF TypeOK
<1>1. CASE at[a] = "initialize"
  <2>1. t = Initialized(memory, to[a])
    BY <1>1 DEF Mutated
  <2> QED BY <1>a, <1>1, <2>1, InitializedSets DEF pending, Pending
<1>2. CASE at[a] \in {"admit", "detach"}
  <2>1. t = Admitted(memory, on[a], to[a])
    BY <1>2 DEF Mutated
  <2> QED BY <1>a, <1>2, <2>1, AdmittedSets DEF pending, States
<1>3. CASE at[a] = "begin"
  <2>1. t = Begun(memory, on[a], run)
    BY <1>3 DEF Mutated
  <2> QED BY <1>a, <1>3, <2>1, BegunSets
<1>4. CASE at[a] = "deliver"
  <2>1. t = Delivering(memory, on[a])
    BY <1>4 DEF Mutated
  <2> QED BY <1>a, <1>4, <2>1, DeliveringSets
<1>5. CASE at[a] \in {"echo", "result", "error"}
  <2>1. \E s \in {"completed", "stopped"} : t = Echoed(memory, on[a], run) \/ t = Resulted(memory, run, s)
    BY <1>5 DEF Mutated
  <2>2. /\ t \in States /\ t.controls = memory.controls /\ t.runOf = memory.runOf
        /\ \A j \in Inputs : \/ t.status[j] = memory.status[j]
                             \/ pending(memory, j) /\ t.status[j] \in {"running", "completed", "stopped"}
    BY <1>a, <2>1, ObservedSets
  <2> QED BY <1>5, <2>2 DEF pending
<1>6. CASE at[a] = "final"
  <2>1. t = Finished(memory, run)
    BY <1>6 DEF Mutated
  <2> QED BY <1>a, <1>6, <2>1, FinishedSets DEF pending, Pending, OfRun, Accepted
<1>7. CASE at[a] = "cancel"
  <2>1. t = CancelRecorded(memory, on[a], to[a])
    BY <1>7 DEF Mutated
  <2> QED BY <1>a, <1>7, <2>1, CancelRecordedSets DEF pending
<1>8. CASE at[a] = "hook"
  <2>1. t = SetRun(memory, to[a], "cancelling")
    BY <1>8 DEF Mutated
  <2> QED BY <1>a, <1>8, <2>1, SetRunSets DEF pending
<1>9. CASE at[a] = "reset"
  <2>1. t = WasReset(memory)
    BY <1>9 DEF Mutated
  <2> QED BY <1>a, <1>9, <2>1, WasResetSets DEF pending, Accepted
<1> QED BY <1>1, <1>2, <1>3, <1>4, <1>5, <1>6, <1>7, <1>8, <1>9 DEF Committing

-----------------------------------------------------------------------------

(* The first in the queue awaits its commit; the others do not include it.  *)
LEMMA QueueHead ==
  ASSUME NEW queue \in Seq(Actors), queue # <<>>, NEW place, Queued(queue, place)
  PROVE  /\ Head(queue) \in Actors /\ place[Head(queue)] \in Committing
         /\ Tail(queue) \in Seq(Actors) /\ Queued(Tail(queue), place)
         /\ \A m \in 1..Len(Tail(queue)) : Tail(queue)[m] # Head(queue)
<1>1. /\ Len(queue) \in Nat /\ 1 \in 1..Len(queue) /\ Head(queue) = queue[1] /\ queue[1] \in Actors
      /\ Tail(queue) \in Seq(Actors) /\ Len(Tail(queue)) = Len(queue) - 1
      /\ \A m \in 1..Len(Tail(queue)) : m + 1 \in 1..Len(queue) /\ Tail(queue)[m] = queue[m + 1]
  OBVIOUS
<1>2. place[Head(queue)] \in Committing
  BY <1>1 DEF Queued
<1>3. \A m \in 1..Len(Tail(queue)) : place[Tail(queue)[m]] \in Committing /\ Tail(queue)[m] # Head(queue)
  <2> TAKE m \in 1..Len(Tail(queue))
  <2>1. m \in Int /\ m >= 1 /\ m + 1 # 1
    BY <1>1
  <2> QED BY <1>1, <2>1 DEF Queued
<1>4. \A m, n \in 1..Len(Tail(queue)) : Tail(queue)[m] = Tail(queue)[n] => m = n
  <2> TAKE m, n \in 1..Len(Tail(queue))
  <2>1. Tail(queue)[m] = Tail(queue)[n] => m + 1 = n + 1
    BY <1>1 DEF Queued
  <2> QED BY <1>1, <2>1
<1> QED BY <1>1, <1>2, <1>3, <1>4 DEF Queued

(* Those in the queue wait on.                                              *)
LEMMA QueueStays ==
  ASSUME NEW queue, NEW place, Queued(queue, place), NEW new,
         \A m \in 1..Len(queue) : place[queue[m]] \in Committing => new[queue[m]] \in Committing
  PROVE  Queued(queue, new)
BY DEF Queued

(* An actor that was not in the queue asks for a commit.                    *)
LEMMA QueueGrows ==
  ASSUME NEW queue \in Seq(Actors), NEW place, Queued(queue, place), NEW a \in Actors,
         \A m \in 1..Len(queue) : queue[m] # a,
         NEW new, new[a] \in Committing,
         \A m \in 1..Len(queue) : place[queue[m]] \in Committing => new[queue[m]] \in Committing
  PROVE  Append(queue, a) \in Seq(Actors) /\ Queued(Append(queue, a), new)
<1> DEFINE longer == Append(queue, a)
<1>1. /\ longer \in Seq(Actors) /\ Len(queue) \in Nat /\ Len(longer) = Len(queue) + 1
      /\ longer[Len(queue) + 1] = a
      /\ \A m \in 1..Len(queue) : longer[m] = queue[m]
  OBVIOUS
<1> HIDE DEF longer
<1>2. \A m \in 1..Len(longer) : m \in 1..Len(queue) \/ m = Len(queue) + 1
  BY <1>1
<1>3. \A m \in 1..Len(longer) : new[longer[m]] \in Committing
  BY <1>1, <1>2 DEF Queued
<1>4. \A m, n \in 1..Len(longer) : longer[m] = longer[n] => m = n
  BY <1>1, <1>2 DEF Queued
<1> QED BY <1>1, <1>3, <1>4 DEF Queued, longer

(* What waits for no commit is not in the queue.                            *)
LEMMA NotQueued ==
  ASSUME TypeOK, QueueInv, NEW a \in Actors, at[a] \notin Committing
  PROVE  \A m \in 1..Len(operations) : operations[m] # a
BY DEF QueueInv, Queued

(* One actor moves on, and awaits no commit before or after.                *)
LEMMA MoveKeepsQueue ==
  ASSUME TypeOK, QueueInv, NEW a \in Actors, at[a] \notin Committing,
         \A b \in Actors \ {a} : at'[b] = at[b],
         UNCHANGED operations
  PROVE  QueueInv'
<1>1. \A m \in 1..Len(operations) : operations[m] \in Actors \ {a}
  BY NotQueued DEF TypeOK
<1>2. Queued(operations, at')
  BY <1>1, QueueStays DEF QueueInv
<1> QED BY <1>2 DEF QueueInv, Queued

(* One actor asks for a commit.                                             *)
LEMMA CommitKeepsQueue ==
  ASSUME TypeOK, QueueInv, NEW a \in Actors, at[a] \notin Committing,
         at'[a] \in Committing, \A b \in Actors \ {a} : at[b] \in Committing => at'[b] \in Committing,
         operations' = Append(operations, a)
  PROVE  operations' \in Seq(Actors) /\ QueueInv'
<1>1. \A m \in 1..Len(operations) : operations[m] \in Actors \ {a}
  BY NotQueued DEF TypeOK
<1>2. operations' \in Seq(Actors) /\ Queued(operations', at')
  <2>1. operations \in Seq(Actors) /\ Queued(operations, at)
    BY DEF TypeOK, QueueInv
  <2>2. /\ \A m \in 1..Len(operations) : operations[m] # a
        /\ \A m \in 1..Len(operations) : at[operations[m]] \in Committing => at'[operations[m]] \in Committing
    BY <1>1
  <2> QED BY <2>1, <2>2, QueueGrows
<1> QED BY <1>2 DEF QueueInv, Queued

(* The cancellations that are recorded can be counted.                      *)
LEMMA ControlsCounted ==
  ASSUME NEW state \in States
  PROVE  IsFiniteSet(state.controls) /\ Cardinality(state.controls) \in Nat
<1>1. IsFiniteSet(Runs) /\ state.controls \subseteq Runs
  BY RuntimeAssumption, FS_Interval DEF Runs, States
<1> QED BY <1>1, FS_Subset, FS_CardinalityType

-----------------------------------------------------------------------------

(* onActivate, up to its commit, keeps the invariant.                       *)
LEMMA InitializeKeeps ==
  ASSUME Inv, Initialize
  PROVE  Inv'
<1> USE DEF Inv, storeVars, runVars, streamVars, counters, Initialize, Commits, Awaits
<1>1. TypeOK'
  <2>1. \E r \in Runs : to' = [to EXCEPT !["handler"] = r]
    BY NewRunIsNew DEF Actors
  <2>2. operations' \in Seq(Actors)
    BY DEF TypeOK, Actors
  <2>3. at' \in [Actors -> HandlerPlaces \cup WorkPlaces \cup ReaderPlaces \cup HookPlaces] /\ at'["handler"] \in HandlerPlaces
        /\ at'["work"] = at["work"] /\ at'["reader"] = at["reader"] /\ at'["hook"] = at["hook"]
    BY DEF TypeOK, Actors, HandlerPlaces
  <2>4. to' \in [Actors -> RunIds]
    BY <2>1 DEF TypeOK, RunIds
  <2> QED BY <2>2, <2>3, <2>4 DEF TypeOK
<1>2. NamesInv'
  BY ControlsCounted DEF NamesInv, TypeOK
<1>3. QueueInv'
  BY CommitKeepsQueue DEF Actors, TypeOK, PhaseInv, Committing
<1>4. PhaseInv'
  BY DEF PhaseInv, TypeOK, accepting, Reading, Actors
<1>5. HoldInv' /\ WrittenOnce'
  BY DEF HoldInv, WrittenOnce, Holds, Fresh, TypeOK, Deliverers, PhaseInv, Actors
<1>6. StatusInv'
  BY DEF StatusInv, TypeOK, PhaseInv, Actors
<1>7. DeliveryInv'
  BY DEF DeliveryInv, TypeOK, PhaseInv, Fresh, OfItsRun, Accepted, Actors
<1>8. SettleInv'
  BY DEF SettleInv, TypeOK, PhaseInv, Pending, pending, Actors
<1> QED BY <1>1, <1>2, <1>3, <1>4, <1>5, <1>6, <1>7, <1>8

(* onRecover keeps it: the handler flushes, and then starts what is left.   *)
LEMMA RecoverKeeps ==
  ASSUME Inv, Recover
  PROVE  Inv'
<1> USE DEF Inv, storeVars, runVars, streamVars, counters, Recover, HandlerIsFree, HandlerFlushes, Awaits
<1>1. TypeOK'
  BY RuntimeAssumption DEF TypeOK, HandlerPlaces, RunIds, Actors
<1>2. NamesInv'
  BY ControlsCounted DEF NamesInv, TypeOK
<1>3. QueueInv'
  BY MoveKeepsQueue DEF Actors, TypeOK, PhaseInv, Committing
<1>4. PhaseInv'
  BY DEF PhaseInv, TypeOK, accepting, Reading, Actors
<1>5. HoldInv' /\ WrittenOnce'
  BY DEF HoldInv, WrittenOnce, Holds, Fresh, TypeOK, Deliverers, PhaseInv, Actors
<1>6. StatusInv'
  BY DEF StatusInv, TypeOK, PhaseInv, Actors
<1>7. DeliveryInv'
  BY DEF DeliveryInv, TypeOK, PhaseInv, Fresh, OfItsRun, Accepted, Actors
<1>8. SettleInv'
  BY DEF SettleInv, TypeOK, PhaseInv, Pending, pending, Actors
<1> QED BY <1>1, <1>2, <1>3, <1>4, <1>5, <1>6, <1>7, <1>8

(* A new input keeps it: the name it gets is its run's, or a new one.       *)
LEMMA InputKeeps ==
  ASSUME Inv, NEW i \in Inputs, Input(i)
  PROVE  Inv'
<1> USE DEF Inv, storeVars, runVars, streamVars, counters, Input, HandlerIsFree, Commits, Awaits
<1>1. TypeOK'
  <2>1. to' \in [Actors -> RunIds]
    <3>1. (\E r \in Runs : to' = [to EXCEPT !["handler"] = r]) \/ to' = [to EXCEPT !["handler"] = run]
      BY NewRunIsNew DEF Actors
    <3> QED BY <3>1 DEF TypeOK, RunIds
  <2>2. operations' \in Seq(Actors)
    BY DEF TypeOK, Actors
  <2>3. /\ at' = [at EXCEPT !["handler"] = "admit"] /\ on' = [on EXCEPT !["handler"] = i]
        /\ then' \in {"start", "deliver"}
        /\ UNCHANGED <<disk, memory, up, fenced, todo, run, active, slot, aborted, killed,
                        stream, sent, consumed, written, cancels, failures>>
    OBVIOUS
  <2> QED BY <2>1, <2>2, <2>3 DEF TypeOK, Actors, HandlerPlaces
<1>2. NamesInv'
  BY ControlsCounted DEF NamesInv, TypeOK
<1>3. QueueInv'
  BY CommitKeepsQueue DEF Actors, TypeOK, PhaseInv, Committing
<1>4. PhaseInv'
  BY DEF PhaseInv, TypeOK, accepting, Reading, Actors
<1>5. HoldInv' /\ WrittenOnce'
  BY DEF HoldInv, WrittenOnce, Holds, Fresh, TypeOK, Deliverers, PhaseInv, Actors
<1>6. StatusInv'
  BY DEF StatusInv, TypeOK, PhaseInv, Actors
<1>7. DeliveryInv'
  BY DEF DeliveryInv, TypeOK, PhaseInv, Fresh, OfItsRun, Accepted, Actors
<1>8. SettleInv'
  BY DEF SettleInv, TypeOK, PhaseInv, Pending, pending, Actors
<1> QED BY <1>1, <1>2, <1>3, <1>4, <1>5, <1>6, <1>7, <1>8

(* A retried input keeps it: it is flushed, and delivered if its run is     *)
(* active.                                                                  *)
LEMMA RetryInputKeeps ==
  ASSUME Inv, NEW i \in Inputs, RetryInput(i)
  PROVE  Inv'
<1> USE DEF Inv, storeVars, runVars, streamVars, counters, RetryInput, HandlerIsFree, HandlerFlushes, Awaits
<1>1. TypeOK'
  <2>1. memory.runOf[i] \in RunIds
    BY DEF TypeOK, States
  <2> QED BY <2>1 DEF TypeOK, HandlerPlaces, Actors
<1>2. NamesInv'
  BY ControlsCounted DEF NamesInv, TypeOK
<1>3. QueueInv'
  BY MoveKeepsQueue DEF Actors, TypeOK, PhaseInv, Committing
<1>4. PhaseInv'
  BY DEF PhaseInv, TypeOK, accepting, Reading, Actors
<1>5. HoldInv' /\ WrittenOnce'
  BY DEF HoldInv, WrittenOnce, Holds, Fresh, TypeOK, Deliverers, PhaseInv, Actors
<1>6. StatusInv'
  BY DEF StatusInv, TypeOK, PhaseInv, Actors
<1>7. DeliveryInv'
  BY DEF DeliveryInv, TypeOK, PhaseInv, Fresh, OfItsRun, Accepted, Actors
<1>8. SettleInv'
  BY DEF SettleInv, TypeOK, PhaseInv, Pending, pending, Actors
<1> QED BY <1>1, <1>2, <1>3, <1>4, <1>5, <1>6, <1>7, <1>8

(* A cancel keeps it: it is counted, and it interrupts only its own run.    *)
LEMMA CancelKeeps ==
  ASSUME Inv, NEW i \in Inputs \cup {0}, Cancel(i)
  PROVE  Inv'
<1> USE DEF Inv, storeVars, runVars, streamVars, counters, Cancel, HandlerIsFree, Commits, Awaits
<1>1. TypeOK'
  BY RuntimeAssumption DEF TypeOK, HandlerPlaces, RunIds, Actors
<1>2. NamesInv'
  BY ControlsCounted DEF NamesInv, TypeOK
<1>3. QueueInv'
  BY CommitKeepsQueue DEF Actors, TypeOK, PhaseInv, Committing
<1>4. PhaseInv'
  BY DEF PhaseInv, TypeOK, accepting, Reading, Actors
<1>5. HoldInv' /\ WrittenOnce'
  BY DEF HoldInv, WrittenOnce, Holds, Fresh, TypeOK, Deliverers, PhaseInv, Actors
<1>6. StatusInv'
  <2> SUFFICES ASSUME ~fenced, NEW j \in Inputs, at["work"] = "begin", on["work"] = j
               PROVE  on'["handler"] # j
    BY DEF StatusInv, TypeOK, Actors
  <2>1. memory.status[j] = "accepted" /\ memory.runOf[j] = run /\ active
    BY DEF StatusInv, PhaseInv
  <2>2. j # 0
    BY DEF Inputs
  <2> QED BY <2>1, <2>2 DEF TypeOK, Actors, Accepted, Pending
<1>7. DeliveryInv'
  BY DEF DeliveryInv, TypeOK, PhaseInv, Fresh, OfItsRun, Accepted, Actors
<1>8. SettleInv'
  BY DEF SettleInv, TypeOK, PhaseInv, Pending, pending, Actors
<1> QED BY <1>1, <1>2, <1>3, <1>4, <1>5, <1>6, <1>7, <1>8

(* The retry of a recorded cancel keeps it.                                 *)
LEMMA RetryCancelKeeps ==
  ASSUME Inv, RetryCancel
  PROVE  Inv'
<1> USE DEF Inv, storeVars, runVars, streamVars, counters, RetryCancel, HandlerIsFree, HandlerFlushes, Interrupt, Cancelled, Awaits
<1>1. TypeOK'
  BY RuntimeAssumption DEF TypeOK, HandlerPlaces, RunIds, Actors
<1>2. NamesInv'
  BY ControlsCounted DEF NamesInv, TypeOK
<1>3. QueueInv'
  BY MoveKeepsQueue DEF Actors, TypeOK, PhaseInv, Committing
<1>4. PhaseInv'
  BY DEF PhaseInv, TypeOK, accepting, Reading, Actors
<1>5. HoldInv' /\ WrittenOnce'
  BY DEF HoldInv, WrittenOnce, Holds, Fresh, TypeOK, Deliverers, PhaseInv, Actors
<1>6. StatusInv'
  BY DEF StatusInv, TypeOK, PhaseInv, Actors
<1>7. DeliveryInv'
  BY DEF DeliveryInv, TypeOK, PhaseInv, Fresh, OfItsRun, Accepted, Actors
<1>8. SettleInv'
  BY DEF SettleInv, TypeOK, PhaseInv, Pending, pending, Actors
<1> QED BY <1>1, <1>2, <1>3, <1>4, <1>5, <1>6, <1>7, <1>8

(* A reset keeps it: it is asked for only when no run holds the slot.       *)
LEMMA ResetKeeps ==
  ASSUME Inv, Reset
  PROVE  Inv'
<1> USE DEF Inv, storeVars, runVars, streamVars, counters, Reset, HandlerIsFree, Commits, Awaits
<1>1. TypeOK'
  BY RuntimeAssumption DEF TypeOK, HandlerPlaces, RunIds, Actors
<1>2. NamesInv'
  BY ControlsCounted DEF NamesInv, TypeOK
<1>3. QueueInv'
  BY CommitKeepsQueue DEF Actors, TypeOK, PhaseInv, Committing
<1>4. PhaseInv'
  BY DEF PhaseInv, TypeOK, accepting, Reading, Actors
<1>5. HoldInv' /\ WrittenOnce'
  BY DEF HoldInv, WrittenOnce, Holds, Fresh, TypeOK, Deliverers, PhaseInv, Actors
<1>6. StatusInv'
  BY DEF StatusInv, TypeOK, PhaseInv, Actors
<1>7. DeliveryInv'
  BY DEF DeliveryInv, TypeOK, PhaseInv, Fresh, OfItsRun, Accepted, Actors
<1>8. SettleInv'
  BY DEF SettleInv, TypeOK, PhaseInv, Pending, pending, Actors
<1> QED BY <1>1, <1>2, <1>3, <1>4, <1>5, <1>6, <1>7, <1>8

(* A handler that returns without more to do keeps it.                      *)
LEMMA HandlerReturnsKeeps ==
  ASSUME Inv, at["handler"] \notin Committing, Awaits("handler", "idle"),
         UNCHANGED <<storeVars, operations, on, to, then, todo, runVars, streamVars, written, counters>>
  PROVE  Inv'
<1> USE DEF Inv, storeVars, runVars, streamVars, counters, Awaits
<1>1. TypeOK'
  BY RuntimeAssumption DEF TypeOK, Actors, HandlerPlaces, WorkPlaces, ReaderPlaces, HookPlaces
<1>2. NamesInv'
  BY ControlsCounted DEF NamesInv, TypeOK
<1>3. QueueInv'
  BY MoveKeepsQueue DEF Actors, TypeOK, PhaseInv, Committing
<1>4. PhaseInv'
  BY DEF PhaseInv, TypeOK, accepting, Reading, Actors
<1>5. HoldInv' /\ WrittenOnce'
  BY DEF HoldInv, WrittenOnce, Holds, Fresh, TypeOK, Deliverers, PhaseInv, Actors
<1>6. StatusInv'
  BY DEF StatusInv, TypeOK, PhaseInv, Actors
<1>7. DeliveryInv'
  BY DEF DeliveryInv, TypeOK, PhaseInv, Fresh, OfItsRun, Accepted, Actors
<1>8. SettleInv'
  BY DEF SettleInv, TypeOK, PhaseInv, Pending, pending, Actors
<1> QED BY <1>1, <1>2, <1>3, <1>4, <1>5, <1>6, <1>7, <1>8

(* The start of a run keeps it: its first input is accepted, and of the     *)
(* run.                                                                     *)
LEMMA WorkBeginsKeeps ==
  ASSUME Inv, NEW first \in Accepted(memory), at["handler"] = "flush", ~active, ~slot,
         run' = memory.runOf[first], active' = TRUE, aborted' = FALSE, killed' = FALSE,
         stream' = "none", sent' = {}, consumed' = {}, slot' = TRUE,
         at' = [at EXCEPT !["handler"] = "idle", !["work"] = "begin", !["reader"] = "idle"],
         on' = [on EXCEPT !["work"] = first], operations' = Append(operations, "work"),
         UNCHANGED <<storeVars, to, then, todo, written, counters>>
  PROVE  Inv'
<1> USE DEF Inv, storeVars, runVars, streamVars, counters, Accepted
<1>a. memory.runOf[first] \in RunIds /\ first \in Inputs
  BY DEF TypeOK, States
<1>b. active' \in BOOLEAN /\ slot' \in BOOLEAN /\ aborted' \in BOOLEAN /\ killed' \in BOOLEAN
  BY DEF TypeOK
<1>c. at'["handler"] = "idle" /\ at'["hook"] = at["hook"]
  BY DEF TypeOK, Actors
<1>1. TypeOK'
  BY <1>a, <1>b DEF TypeOK, Actors, HandlerPlaces, WorkPlaces, ReaderPlaces, HookPlaces
<1>2. NamesInv'
  BY <1>c, ControlsCounted DEF NamesInv, TypeOK
<1>3. QueueInv'
  <2>1. at["work"] = "idle" /\ at["reader"] \in {"idle", "closed"}
    BY DEF PhaseInv, Reading, TypeOK, ReaderPlaces
  <2>2. at'["work"] = "begin" /\ \A b \in Actors \ {"work"} : at[b] \in Committing => at'[b] \in Committing
    BY <2>1 DEF TypeOK, Actors, Committing
  <2> QED BY <2>1, <2>2, CommitKeepsQueue DEF Actors, Committing
<1>4. PhaseInv'
  BY DEF PhaseInv, TypeOK, accepting, Reading, Actors
<1>5. HoldInv' /\ WrittenOnce'
  BY DEF HoldInv, WrittenOnce, Holds, Fresh, TypeOK, Deliverers, PhaseInv, Actors
<1>6. StatusInv'
  BY DEF StatusInv, TypeOK, PhaseInv, Actors
<1>7. DeliveryInv'
  BY DEF DeliveryInv, TypeOK, PhaseInv, Fresh, OfItsRun, Accepted, Actors
<1>8. SettleInv'
  BY DEF SettleInv, TypeOK, PhaseInv, Pending, pending, Actors
<1> QED BY <1>1, <1>2, <1>3, <1>4, <1>5, <1>6, <1>7, <1>8

(* A start whose command was aborted keeps it: no work begins.              *)
LEMMA StartThrowsKeeps ==
  ASSUME Inv, NEW first \in Accepted(memory), at["handler"] = "flush", ~active, ~slot,
         run' = memory.runOf[first], active' = TRUE, aborted' = FALSE, killed' = FALSE,
         stream' = "none", sent' = {}, consumed' = {},
         Awaits("handler", "idle"),
         UNCHANGED <<storeVars, operations, on, to, then, todo, slot, written, counters>>
  PROVE  Inv'
<1> USE DEF Inv, storeVars, runVars, streamVars, counters, Accepted, Awaits
<1>a. memory.runOf[first] \in RunIds /\ first \in Inputs
  BY DEF TypeOK, States
<1>b. active' \in BOOLEAN /\ slot' \in BOOLEAN /\ aborted' \in BOOLEAN /\ killed' \in BOOLEAN
  BY DEF TypeOK
<1>c. at'["handler"] = "idle" /\ at'["hook"] = at["hook"]
  BY DEF TypeOK, Actors
<1>1. TypeOK'
  BY <1>a, <1>b DEF TypeOK, Actors, HandlerPlaces, WorkPlaces, ReaderPlaces, HookPlaces
<1>2. NamesInv'
  BY ControlsCounted DEF NamesInv, TypeOK
<1>3. QueueInv'
  BY MoveKeepsQueue DEF Actors, TypeOK, PhaseInv, Committing
<1>4. PhaseInv'
  BY DEF PhaseInv, TypeOK, accepting, Reading, Actors
<1>5. HoldInv' /\ WrittenOnce'
  BY DEF HoldInv, WrittenOnce, Holds, Fresh, TypeOK, Deliverers, PhaseInv, Actors
<1>6. StatusInv'
  BY DEF StatusInv, TypeOK, PhaseInv, Actors
<1>7. DeliveryInv'
  BY DEF DeliveryInv, TypeOK, PhaseInv, Fresh, OfItsRun, Accepted, Actors
<1>8. SettleInv'
  BY DEF SettleInv, TypeOK, PhaseInv, Pending, pending, Actors
<1> QED BY <1>1, <1>2, <1>3, <1>4, <1>5, <1>6, <1>7, <1>8

(* deliver, called by the handler, keeps it: the input is of the active     *)
(* run.                                                                     *)
LEMMA HandlerDeliversKeeps ==
  ASSUME Inv, at["handler"] = "flush", then = "deliver" \/ (then = "retry" /\ run = to["handler"]), HandlerDelivers,
         UNCHANGED <<storeVars, on, to, then, todo, runVars, streamVars, written, counters>>
  PROVE  Inv'
<1> USE DEF Inv, storeVars, runVars, streamVars, counters, HandlerDelivers, Continues, Commits, Awaits
<1>1. TypeOK'
  <2>1. at' = [at EXCEPT !["handler"] = "deliver"] \/ at' = [at EXCEPT !["handler"] = "idle"] \/ at' = [at EXCEPT !["handler"] = "ready"]
    OBVIOUS
  <2>2. at' \in [Actors -> HandlerPlaces \cup WorkPlaces \cup ReaderPlaces \cup HookPlaces]
        /\ at'["handler"] \in HandlerPlaces /\ at'["work"] \in WorkPlaces
        /\ at'["reader"] = at["reader"] /\ at'["hook"] = at["hook"]
    BY <2>1 DEF TypeOK, Actors, HandlerPlaces, WorkPlaces
  <2>3. operations' = operations \/ operations' = Append(operations, "handler")
    OBVIOUS
  <2>4. operations' \in Seq(Actors)
    <3>1. operations \in Seq(Actors) /\ "handler" \in Actors
      BY DEF TypeOK, Actors
    <3>2. Append(operations, "handler") \in Seq(Actors)
      BY <3>1, AppendProperties
    <3> QED BY <2>3, <3>1, <3>2
  <2>5. todo' \subseteq Inputs /\ on' \in [Actors -> Inputs \cup {0}]
    BY DEF TypeOK
  <2> QED BY <2>2, <2>4, <2>5 DEF TypeOK
<1>2. NamesInv'
  <2>1. at'["handler"] = at["handler"] \/ at'["handler"] # "cancel"
    BY DEF TypeOK, Actors
  <2> QED BY <2>1 DEF NamesInv, TypeOK
<1>3. QueueInv'
  <2>1. CASE at'["handler"] = "deliver"
    BY <2>1, CommitKeepsQueue DEF Actors, TypeOK, Committing
  <2>2. CASE at'["handler"] # "deliver"
    BY <2>2, MoveKeepsQueue DEF Actors, TypeOK, Committing
  <2> QED BY <2>1, <2>2
<1>4. PhaseInv'
  BY DEF PhaseInv, TypeOK, accepting, Reading, Actors
<1>5. HoldInv' /\ WrittenOnce'
  BY DEF HoldInv, WrittenOnce, Holds, Fresh, TypeOK, Deliverers, PhaseInv, Actors
<1>6. StatusInv'
  BY DEF StatusInv, TypeOK, PhaseInv, Actors
<1>7. DeliveryInv'
  BY DEF DeliveryInv, TypeOK, PhaseInv, Fresh, OfItsRun, Accepted, Actors
<1>8. SettleInv'
  BY DEF SettleInv, TypeOK, PhaseInv, Pending, pending, Actors
<1> QED BY <1>1, <1>2, <1>3, <1>4, <1>5, <1>6, <1>7, <1>8

(* What the handler does after its flush keeps it.                          *)
LEMMA HandlerContinuesKeeps ==
  ASSUME Inv, HandlerContinues
  PROVE  Inv'
<1> USE DEF HandlerContinues, runVars, streamVars
<1>1. CASE Start
  <2>1. CASE active \/ slot \/ Accepted(memory) = {}
    BY <1>1, <2>1, HandlerReturnsKeeps DEF Start, Committing
  <2>2. CASE ~(active \/ slot \/ Accepted(memory) = {})
    <3>1. PICK first \in Accepted(memory) :
            /\ run' = memory.runOf[first] /\ active' = TRUE
            /\ aborted' = FALSE /\ killed' = FALSE
            /\ stream' = "none" /\ sent' = {} /\ consumed' = {}
            /\ \/ /\ slot' = TRUE
                  /\ at' = [at EXCEPT !["handler"] = "idle", !["work"] = "begin", !["reader"] = "idle"]
                  /\ on' = [on EXCEPT !["work"] = first]
                  /\ operations' = Append(operations, "work")
               \/ Awaits("handler", "idle") /\ UNCHANGED <<slot, on, operations>>
      BY <1>1, <2>2 DEF Start
    <3>2. CASE slot'
      BY <2>2, <3>1, <3>2, WorkBeginsKeeps, HandlerReturnsKeeps
    <3>3. CASE ~slot'
      BY <2>2, <3>1, <3>3, StartThrowsKeeps
    <3> QED BY <3>2, <3>3
  <2> QED BY <2>1, <2>2
<1>2. CASE /\ then = "deliver" \/ (then = "retry" /\ run = to["handler"])
           /\ HandlerDelivers
           /\ UNCHANGED <<on, runVars, streamVars>>
  BY <1>2, HandlerDeliversKeeps
<1>3. CASE Awaits("handler", "idle") /\ UNCHANGED <<operations, on, runVars, streamVars>>
  BY <1>3, HandlerReturnsKeeps DEF Committing
<1> QED BY <1>1, <1>2, <1>3

(* A flush that fails keeps it: its actor goes on, or stops, as after one   *)
(* that ends.                                                               *)
LEMMA FlushFailsKeeps ==
  ASSUME Inv, NEW a \in {"handler", "work", "reader"}, FlushFails(a)
  PROVE  Inv'
<1> USE DEF Inv, storeVars, runVars, streamVars, counters, FlushFails, Awaits, Cancelled
<1>1. TypeOK'
  BY RuntimeAssumption DEF TypeOK, Actors, HandlerPlaces, WorkPlaces, ReaderPlaces, HookPlaces
<1>2. NamesInv'
  BY ControlsCounted DEF NamesInv, TypeOK
<1>3. QueueInv'
  BY MoveKeepsQueue DEF Actors, TypeOK, PhaseInv, Committing
<1>4. PhaseInv'
  BY DEF PhaseInv, TypeOK, accepting, Reading, Actors
<1>5. HoldInv' /\ WrittenOnce'
  BY DEF HoldInv, WrittenOnce, Holds, Fresh, TypeOK, Deliverers, PhaseInv, Actors
<1>6. StatusInv'
  BY DEF StatusInv, TypeOK, PhaseInv, Actors
<1>7. DeliveryInv'
  BY DEF DeliveryInv, TypeOK, PhaseInv, Fresh, OfItsRun, Accepted, Actors
<1>8. SettleInv'
  BY DEF SettleInv, TypeOK, PhaseInv, Pending, pending, Actors
<1> QED BY <1>1, <1>2, <1>3, <1>4, <1>5, <1>6, <1>7, <1>8

(* work keeps it when it goes on with the inputs retained for its run.      *)
LEMMA NextDeliveryKeeps ==
  ASSUME Inv, NEW left, at["work"] \in {"firstWrite", "flush"}, left \subseteq Inputs,
         Fresh /\ ~fenced => \A j \in left \cap Accepted(disk) : OfItsRun(j), NextDelivery(left, operations),
         UNCHANGED <<storeVars, to, then, runVars, streamVars, written, counters>>
  PROVE  Inv'
<1> USE DEF Inv, storeVars, runVars, streamVars, counters, NextDelivery, Continues, Commits, Awaits, Accepted
<1>1. TypeOK'
  <2>1. at' = [at EXCEPT !["work"] = "deliver"] \/ at' = [at EXCEPT !["work"] = "done"]
    OBVIOUS
  <2>2. at' \in [Actors -> HandlerPlaces \cup WorkPlaces \cup ReaderPlaces \cup HookPlaces]
        /\ at'["handler"] \in HandlerPlaces /\ at'["work"] \in WorkPlaces
        /\ at'["reader"] = at["reader"] /\ at'["hook"] = at["hook"]
    BY <2>1 DEF TypeOK, Actors, HandlerPlaces, WorkPlaces
  <2>3. operations' = operations \/ operations' = Append(operations, "work")
    OBVIOUS
  <2>4. operations' \in Seq(Actors)
    <3>1. operations \in Seq(Actors) /\ "work" \in Actors
      BY DEF TypeOK, Actors
    <3>2. Append(operations, "work") \in Seq(Actors)
      BY <3>1, AppendProperties
    <3> QED BY <2>3, <3>1, <3>2
  <2>5. todo' \subseteq Inputs /\ on' \in [Actors -> Inputs \cup {0}]
    BY DEF TypeOK
  <2> QED BY <2>2, <2>4, <2>5 DEF TypeOK
<1>2. NamesInv'
  <2>1. at' = [at EXCEPT !["work"] = "done"] \/ at' = [at EXCEPT !["work"] = "deliver"]
    OBVIOUS
  <2>2. at'["handler"] = at["handler"]
    BY <2>1 DEF TypeOK, Actors
  <2> QED BY <2>2 DEF NamesInv, TypeOK
<1>3. QueueInv'
  <2>1. CASE at'["work"] = "deliver"
    BY <2>1, CommitKeepsQueue DEF Actors, TypeOK, Committing
  <2>2. CASE at'["work"] # "deliver"
    BY <2>2, MoveKeepsQueue DEF Actors, TypeOK, Committing
  <2> QED BY <2>1, <2>2
<1>4. PhaseInv'
  BY DEF PhaseInv, TypeOK, accepting, Reading, Actors
<1>5. HoldInv' /\ WrittenOnce'
  BY DEF HoldInv, WrittenOnce, Holds, Fresh, TypeOK, Deliverers, PhaseInv, Actors
<1>6. StatusInv'
  BY DEF StatusInv, TypeOK, PhaseInv, Actors
<1>7. DeliveryInv'
  BY DEF DeliveryInv, TypeOK, PhaseInv, Fresh, OfItsRun, Accepted, Actors
<1>8. SettleInv'
  BY DEF SettleInv, TypeOK, PhaseInv, Pending, pending, Actors
<1> QED BY <1>1, <1>2, <1>3, <1>4, <1>5, <1>6, <1>7, <1>8

(* A write that was handed over keeps it: its actor no longer holds the     *)
(* input.                                                                   *)
LEMMA WriteReturnsKeeps ==
  ASSUME Inv, NEW a \in Deliverers, at[a] = "write", Continues(a, "flush", operations),
         then' = IF a = "handler" THEN "none" ELSE then,
         UNCHANGED <<storeVars, on, to, todo, runVars, streamVars, written, counters>>
  PROVE  Inv'
<1> USE DEF Inv, storeVars, runVars, streamVars, counters, Continues, Awaits, Deliverers
<1>1. TypeOK'
  BY RuntimeAssumption DEF TypeOK, Actors, HandlerPlaces, WorkPlaces, ReaderPlaces, HookPlaces
<1>2. NamesInv'
  BY ControlsCounted DEF NamesInv, TypeOK
<1>3. QueueInv'
  BY MoveKeepsQueue DEF Actors, TypeOK, PhaseInv, Committing
<1>4. PhaseInv'
  BY DEF PhaseInv, TypeOK, accepting, Reading, Actors
<1>5. HoldInv' /\ WrittenOnce'
  BY DEF HoldInv, WrittenOnce, Holds, Fresh, TypeOK, Deliverers, PhaseInv, Actors
<1>6. StatusInv'
  BY DEF StatusInv, TypeOK, PhaseInv, Actors
<1>7. DeliveryInv'
  BY DEF DeliveryInv, TypeOK, PhaseInv, Fresh, OfItsRun, Accepted, Actors
<1>8. SettleInv'
  BY DEF SettleInv, TypeOK, PhaseInv, Pending, pending, Actors
<1> QED BY <1>1, <1>2, <1>3, <1>4, <1>5, <1>6, <1>7, <1>8

(* The same of each actor that delivers.                                    *)
LEMMA WriteEndsKeeps ==
  ASSUME Inv, NEW a \in Deliverers, WriteEnds(a)
  PROVE  Inv'
<1> USE DEF WriteEnds
<1>1. CASE at[a] = "firstWrite"
  <2>1. a = "work" /\ then' = then
    BY <1>1 DEF Inv, TypeOK, Deliverers, HandlerPlaces
  <2> DEFINE left == OfRun(memory, run) \cap Accepted(memory)
  <2>2. left \subseteq Inputs
    BY DEF Accepted
  <2>3. Fresh /\ ~fenced => \A j \in left \cap Accepted(disk) : OfItsRun(j)
    BY DEF Inv, PhaseInv, OfRun, OfItsRun
  <2> HIDE DEF left
  <2>4. NextDelivery(left, operations)
    BY <1>1, <2>1 DEF left
  <2> QED BY <1>1, <2>1, <2>2, <2>3, <2>4, NextDeliveryKeeps
<1>2. CASE at[a] # "firstWrite"
  BY <1>2, WriteReturnsKeeps
<1> QED BY <1>1, <1>2

(* A send that throws keeps it: the input stays written, and the run is     *)
(* stopped.                                                                 *)
LEMMA SendFailsKeeps ==
  ASSUME Inv, NEW a \in Deliverers, SendFails(a)
  PROVE  Inv'
<1> USE DEF Inv, storeVars, runVars, streamVars, counters, SendFails, SendThrows, Throws, Continues, Awaits, Cancelled, Interrupt, Deliverers
<1>1. TypeOK'
  <2>1. at' \in [Actors -> HandlerPlaces \cup WorkPlaces \cup ReaderPlaces \cup HookPlaces]
    BY DEF TypeOK, Actors, HandlerPlaces, WorkPlaces
  <2>2. at'["handler"] \in HandlerPlaces /\ at'["work"] \in WorkPlaces
        /\ at'["reader"] = at["reader"] /\ at'["hook"] = at["hook"]
    BY DEF TypeOK, Actors, HandlerPlaces, WorkPlaces
  <2>3. operations' \in Seq(Actors)
    BY DEF TypeOK, Actors
  <2>4. aborted' \in BOOLEAN /\ active' \in BOOLEAN /\ slot' \in BOOLEAN /\ stream' \in {"none", "refused", "starting", "open", "ending", "halting", "stopping", "unstarted", "settled"}
    BY DEF TypeOK
  <2>5. todo' \subseteq Inputs /\ on' \in [Actors -> Inputs \cup {0}]
    BY DEF TypeOK
  <2> QED BY <2>1, <2>2, <2>3, <2>4, <2>5 DEF TypeOK
<1>2. NamesInv'
  BY ControlsCounted DEF NamesInv, TypeOK
<1>3. QueueInv'
  BY MoveKeepsQueue DEF Actors, TypeOK, PhaseInv, Committing
<1>4. PhaseInv'
  BY DEF PhaseInv, TypeOK, accepting, Reading, Actors
<1>5. HoldInv' /\ WrittenOnce'
  BY DEF HoldInv, WrittenOnce, Holds, Fresh, TypeOK, Deliverers, PhaseInv, Actors
<1>6. StatusInv'
  BY DEF StatusInv, TypeOK, PhaseInv, Actors
<1>7. DeliveryInv'
  BY DEF DeliveryInv, TypeOK, PhaseInv, Fresh, OfItsRun, Accepted, Actors
<1>8. SettleInv'
  BY DEF SettleInv, TypeOK, PhaseInv, Pending, pending, Actors
<1> QED BY <1>1, <1>2, <1>3, <1>4, <1>5, <1>6, <1>7, <1>8

(* An echo of Claude keeps it: the reader asks for a commit.                *)
LEMMA EchoKeeps ==
  ASSUME Inv, NEW i \in Inputs, Echo(i)
  PROVE  Inv'
<1> USE DEF Inv, storeVars, runVars, streamVars, counters, Echo, Observes, Commits, Awaits
<1>1. TypeOK'
  BY RuntimeAssumption DEF TypeOK, Actors, HandlerPlaces, WorkPlaces, ReaderPlaces, HookPlaces
<1>2. NamesInv'
  BY ControlsCounted DEF NamesInv, TypeOK
<1>3. QueueInv'
  BY CommitKeepsQueue DEF Actors, TypeOK, PhaseInv, Committing
<1>4. PhaseInv'
  BY DEF PhaseInv, TypeOK, accepting, Reading, Actors
<1>5. HoldInv' /\ WrittenOnce'
  BY DEF HoldInv, WrittenOnce, Holds, Fresh, TypeOK, Deliverers, PhaseInv, Actors
<1>6. StatusInv'
  BY DEF StatusInv, TypeOK, PhaseInv, Actors
<1>7. DeliveryInv'
  BY DEF DeliveryInv, TypeOK, PhaseInv, Fresh, OfItsRun, Accepted, Actors
<1>8. SettleInv'
  BY DEF SettleInv, TypeOK, PhaseInv, Pending, pending, Actors
<1> QED BY <1>1, <1>2, <1>3, <1>4, <1>5, <1>6, <1>7, <1>8

(* The result of a turn keeps it.                                           *)
LEMMA ResultKeeps ==
  ASSUME Inv, NEW what \in {"result", "error"}, Result(what)
  PROVE  Inv'
<1> USE DEF Inv, storeVars, runVars, streamVars, counters, Result, Observes, Commits, Awaits
<1>1. TypeOK'
  BY RuntimeAssumption DEF TypeOK, Actors, HandlerPlaces, WorkPlaces, ReaderPlaces, HookPlaces
<1>2. NamesInv'
  BY ControlsCounted DEF NamesInv, TypeOK
<1>3. QueueInv'
  BY CommitKeepsQueue DEF Actors, TypeOK, PhaseInv, Committing
<1>4. PhaseInv'
  BY DEF PhaseInv, TypeOK, accepting, Reading, Actors
<1>5. HoldInv' /\ WrittenOnce'
  BY DEF HoldInv, WrittenOnce, Holds, Fresh, TypeOK, Deliverers, PhaseInv, Actors
<1>6. StatusInv'
  BY DEF StatusInv, TypeOK, PhaseInv, Actors
<1>7. DeliveryInv'
  BY DEF DeliveryInv, TypeOK, PhaseInv, Fresh, OfItsRun, Accepted, Actors
<1>8. SettleInv'
  BY DEF SettleInv, TypeOK, PhaseInv, Pending, pending, Actors
<1> QED BY <1>1, <1>2, <1>3, <1>4, <1>5, <1>6, <1>7, <1>8

(* The reader's flush keeps it.                                             *)
LEMMA ReaderContinuesKeeps ==
  ASSUME Inv, ReaderContinues
  PROVE  Inv'
<1> USE DEF Inv, storeVars, runVars, streamVars, counters, ReaderContinues, Awaits
<1>1. TypeOK'
  BY RuntimeAssumption DEF TypeOK, Actors, HandlerPlaces, WorkPlaces, ReaderPlaces, HookPlaces
<1>2. NamesInv'
  BY ControlsCounted DEF NamesInv, TypeOK
<1>3. QueueInv'
  BY MoveKeepsQueue DEF Actors, TypeOK, PhaseInv, Committing
<1>4. PhaseInv'
  BY DEF PhaseInv, TypeOK, accepting, Reading, Actors
<1>5. HoldInv' /\ WrittenOnce'
  BY DEF HoldInv, WrittenOnce, Holds, Fresh, TypeOK, Deliverers, PhaseInv, Actors
<1>6. StatusInv'
  BY DEF StatusInv, TypeOK, PhaseInv, Actors
<1>7. DeliveryInv'
  BY DEF DeliveryInv, TypeOK, PhaseInv, Fresh, OfItsRun, Accepted, Actors
<1>8. SettleInv'
  BY DEF SettleInv, TypeOK, PhaseInv, Pending, pending, Actors
<1> QED BY <1>1, <1>2, <1>3, <1>4, <1>5, <1>6, <1>7, <1>8

(* The end of the stream keeps it: nobody holds an input of an unfinished   *)
(* start.                                                                   *)
LEMMA StreamEndsKeeps ==
  ASSUME Inv, StreamEnds
  PROVE  Inv'
<1> USE DEF Inv, storeVars, runVars, streamVars, counters, StreamEnds, actorVars
<1>1. TypeOK'
  BY RuntimeAssumption DEF TypeOK, Actors, HandlerPlaces, WorkPlaces, ReaderPlaces, HookPlaces
<1>2. NamesInv'
  BY ControlsCounted DEF NamesInv, TypeOK
<1>3. QueueInv'
  BY DEF QueueInv, Queued
<1>4. PhaseInv'
  BY DEF PhaseInv, TypeOK, accepting, Reading, Actors
<1>5. HoldInv' /\ WrittenOnce'
  BY DEF HoldInv, WrittenOnce, Holds, Fresh, TypeOK, Deliverers, PhaseInv, Actors
<1>6. StatusInv'
  BY DEF StatusInv, TypeOK, PhaseInv, Actors
<1>7. DeliveryInv'
  BY DEF DeliveryInv, TypeOK, PhaseInv, Fresh, OfItsRun, Accepted, Actors
<1>8. SettleInv'
  BY DEF SettleInv, TypeOK, PhaseInv, Pending, pending, Actors
<1> QED BY <1>1, <1>2, <1>3, <1>4, <1>5, <1>6, <1>7, <1>8

(* work keeps it when a delivery has been flushed.                          *)
LEMMA WorkContinuesKeeps ==
  ASSUME Inv, WorkContinues
  PROVE  Inv'
<1>1. /\ at["work"] \in {"firstWrite", "flush"} /\ todo \subseteq Inputs
      /\ Fresh /\ ~fenced => \A j \in todo \cap Accepted(disk) : OfItsRun(j)
  BY DEF Inv, TypeOK, DeliveryInv, WorkContinues
<1> QED BY <1>1, NextDeliveryKeeps DEF WorkContinues

(* work keeps it when it asks for the commit of its run's outcome.          *)
LEMMA StreamIsDoneKeeps ==
  ASSUME Inv, StreamIsDone
  PROVE  Inv'
<1> USE DEF Inv, storeVars, runVars, streamVars, counters, StreamIsDone, Settled, Commits, Awaits
<1>1. TypeOK'
  BY RuntimeAssumption DEF TypeOK, Actors, HandlerPlaces, WorkPlaces, ReaderPlaces, HookPlaces
<1>2. NamesInv'
  BY ControlsCounted DEF NamesInv, TypeOK
<1>3. QueueInv'
  BY CommitKeepsQueue DEF Actors, TypeOK, PhaseInv, Committing
<1>4. PhaseInv'
  BY DEF PhaseInv, TypeOK, accepting, Reading, Actors
<1>5. HoldInv' /\ WrittenOnce'
  BY DEF HoldInv, WrittenOnce, Holds, Fresh, TypeOK, Deliverers, PhaseInv, Actors
<1>6. StatusInv'
  BY DEF StatusInv, TypeOK, PhaseInv, Actors
<1>7. DeliveryInv'
  BY DEF DeliveryInv, TypeOK, PhaseInv, Fresh, OfItsRun, Accepted, Actors
<1>8. SettleInv'
  BY DEF SettleInv, TypeOK, PhaseInv, Pending, pending, Actors
<1> QED BY <1>1, <1>2, <1>3, <1>4, <1>5, <1>6, <1>7, <1>8

(* The end of the last flush keeps it: what the run was given has settled.  *)
LEMMA RunEndsKeeps ==
  ASSUME Inv, RunEnds
  PROVE  Inv'
<1> USE DEF Inv, storeVars, runVars, streamVars, counters, RunEnds, Awaits
<1>1. TypeOK'
  <2>1. at' \in [Actors -> HandlerPlaces \cup WorkPlaces \cup ReaderPlaces \cup HookPlaces]
    BY DEF TypeOK, Actors, HandlerPlaces, WorkPlaces
  <2>2. at'["handler"] \in HandlerPlaces /\ at'["work"] \in WorkPlaces
        /\ at'["reader"] = at["reader"] /\ at'["hook"] = at["hook"]
    BY DEF TypeOK, Actors, HandlerPlaces, WorkPlaces
  <2>3. operations' \in Seq(Actors)
    BY DEF TypeOK, Actors
  <2>4. aborted' \in BOOLEAN /\ active' \in BOOLEAN /\ slot' \in BOOLEAN /\ stream' \in {"none", "refused", "starting", "open", "ending", "halting", "stopping", "unstarted", "settled"}
    BY DEF TypeOK
  <2>5. todo' \subseteq Inputs /\ on' \in [Actors -> Inputs \cup {0}]
    BY DEF TypeOK
  <2> QED BY <2>1, <2>2, <2>3, <2>4, <2>5 DEF TypeOK
<1>2. NamesInv'
  BY ControlsCounted DEF NamesInv, TypeOK
<1>3. QueueInv'
  BY MoveKeepsQueue DEF Actors, TypeOK, PhaseInv, Committing
<1>4. PhaseInv'
  BY DEF PhaseInv, TypeOK, accepting, Reading, Actors
<1>5. HoldInv' /\ WrittenOnce'
  BY DEF HoldInv, WrittenOnce, Holds, Fresh, TypeOK, Deliverers, PhaseInv, Actors
<1>6. StatusInv'
  BY DEF StatusInv, TypeOK, PhaseInv, Actors
<1>7. DeliveryInv'
  BY DEF DeliveryInv, TypeOK, PhaseInv, Fresh, OfItsRun, Accepted, Actors
<1>8. SettleInv'
  BY DEF SettleInv, TypeOK, PhaseInv, Pending, pending, Actors
<1> QED BY <1>1, <1>2, <1>3, <1>4, <1>5, <1>6, <1>7, <1>8

(* The release of the activity's slot keeps it.                             *)
LEMMA SlotIsReleasedKeeps ==
  ASSUME Inv, SlotIsReleased
  PROVE  Inv'
<1> USE DEF Inv, storeVars, runVars, streamVars, counters, SlotIsReleased, actorVars
<1>1. TypeOK'
  <2>1. at' \in [Actors -> HandlerPlaces \cup WorkPlaces \cup ReaderPlaces \cup HookPlaces]
    BY DEF TypeOK, Actors, HandlerPlaces, WorkPlaces
  <2>2. at'["handler"] \in HandlerPlaces /\ at'["work"] \in WorkPlaces
        /\ at'["reader"] = at["reader"] /\ at'["hook"] = at["hook"]
    BY DEF TypeOK, Actors, HandlerPlaces, WorkPlaces
  <2>3. operations' \in Seq(Actors)
    BY DEF TypeOK, Actors
  <2>4. aborted' \in BOOLEAN /\ active' \in BOOLEAN /\ slot' \in BOOLEAN /\ stream' \in {"none", "refused", "starting", "open", "ending", "halting", "stopping", "unstarted", "settled"}
    BY DEF TypeOK
  <2>5. todo' \subseteq Inputs /\ on' \in [Actors -> Inputs \cup {0}]
    BY DEF TypeOK
  <2> QED BY <2>1, <2>2, <2>3, <2>4, <2>5 DEF TypeOK
<1>2. NamesInv'
  BY ControlsCounted DEF NamesInv, TypeOK
<1>3. QueueInv'
  BY DEF QueueInv, Queued
<1>4. PhaseInv'
  BY DEF PhaseInv, TypeOK, accepting, Reading, Actors
<1>5. HoldInv' /\ WrittenOnce'
  BY DEF HoldInv, WrittenOnce, Holds, Fresh, TypeOK, Deliverers, PhaseInv, Actors
<1>6. StatusInv'
  BY DEF StatusInv, TypeOK, PhaseInv, Actors
<1>7. DeliveryInv'
  BY DEF DeliveryInv, TypeOK, PhaseInv, Fresh, OfItsRun, Accepted, Actors
<1>8. SettleInv'
  BY DEF SettleInv, TypeOK, PhaseInv, Pending, pending, Actors
<1> QED BY <1>1, <1>2, <1>3, <1>4, <1>5, <1>6, <1>7, <1>8

(* An abort of the activity keeps it.                                       *)
LEMMA ActivityAbortsKeeps ==
  ASSUME Inv, ActivityAborts
  PROVE  Inv'
<1> USE DEF Inv, storeVars, runVars, streamVars, counters, ActivityAborts, Commits, Awaits
<1>1. TypeOK'
  BY RuntimeAssumption DEF TypeOK, Actors, HandlerPlaces, WorkPlaces, ReaderPlaces, HookPlaces
<1>2. NamesInv'
  BY ControlsCounted DEF NamesInv, TypeOK
<1>3. QueueInv'
  BY CommitKeepsQueue DEF Actors, TypeOK, PhaseInv, Committing
<1>4. PhaseInv'
  BY DEF PhaseInv, TypeOK, accepting, Reading, Actors
<1>5. HoldInv' /\ WrittenOnce'
  BY DEF HoldInv, WrittenOnce, Holds, Fresh, TypeOK, Deliverers, PhaseInv, Actors
<1>6. StatusInv'
  BY DEF StatusInv, TypeOK, PhaseInv, Actors
<1>7. DeliveryInv'
  BY DEF DeliveryInv, TypeOK, PhaseInv, Fresh, OfItsRun, Accepted, Actors
<1>8. SettleInv'
  BY DEF SettleInv, TypeOK, PhaseInv, Pending, pending, Actors
<1> QED BY <1>1, <1>2, <1>3, <1>4, <1>5, <1>6, <1>7, <1>8

(* A write counts once for each actor that had the input.                   *)
LEMMA WrittenCounts ==
  ASSUME TypeOK, NEW as, as \subseteq Actors, Written(as)
  PROVE  /\ written' \in [Inputs -> Nat]
         /\ \A i \in Inputs :
              /\ (\A a \in as : on[a] # i) => written'[i] = written[i]
              /\ \A b \in as : on[b] = i /\ (\A a \in as : on[a] = i => a = b) => written'[i] = written[i] + 1
<1> DEFINE who(i) == {a \in as : on[a] = i}
<1>1. \A i \in Inputs : written'[i] = written[i] + Cardinality(who(i)) /\ written[i] \in Nat
  BY DEF Written, TypeOK
<1>2. \A i \in Inputs : Cardinality(who(i)) \in Nat
  <2>1. IsFiniteSet(Actors)
    BY FewAreSmall DEF Actors
  <2>2. \A i \in Inputs : who(i) \subseteq Actors
    OBVIOUS
  <2> QED BY <2>1, <2>2, FS_Subset, FS_CardinalityType
<1>3. written' = [i \in Inputs |-> written[i] + Cardinality(who(i))]
  BY DEF Written
<1>4. written' \in [Inputs -> Nat]
  <2> HIDE DEF who
  <2> QED BY <1>1, <1>2, <1>3
<1>5. ASSUME NEW i \in Inputs, \A a \in as : on[a] # i
      PROVE  written'[i] = written[i]
  <2>1. who(i) = {}
    BY <1>5
  <2>2. Cardinality({}) = 0
    BY FS_EmptySet
  <2>3. written'[i] = written[i] + Cardinality(who(i)) /\ written[i] \in Nat
    BY <1>1
  <2> HIDE DEF who
  <2> QED BY <2>1, <2>2, <2>3
<1>6. ASSUME NEW i \in Inputs, NEW b \in as, on[b] = i, \A a \in as : on[a] = i => a = b
      PROVE  written'[i] = written[i] + 1
  <2>1. who(i) = {b}
    BY <1>6
  <2>2. Cardinality({b}) = 1
    BY FS_Singleton, Zenon
  <2> QED BY <1>1, <2>1, <2>2
<1> QED BY <1>4, <1>5, <1>6

(* The stream opens: each input that waited for it is written by the one    *)
(* actor that has it.                                                       *)
LEMMA StreamOpensKeeps ==
  ASSUME Inv, StreamOpens
  PROVE  Inv'
<1> USE DEF Inv
<1> DEFINE as == {a \in Actors : at[a] \in {"first", "send"}}
<1>1. /\ stream = "starting" /\ stream' = "open"
      /\ Written(as)
      /\ at' = [a \in Actors |-> CASE at[a] = "first" -> "firstWrite" [] at[a] = "send" -> "write" [] OTHER -> at[a]]
      /\ UNCHANGED <<disk, memory, up, fenced, operations, on, to, then, todo,
                     run, active, slot, aborted, killed, sent, consumed, cancels, failures>>
  BY DEF StreamOpens, storeVars, runVars, counters
<1>2. /\ \A a \in Actors : at[a] \notin {"first", "send"} => at'[a] = at[a]
      /\ \A a \in Actors : at[a] = "first" => at'[a] = "firstWrite"
      /\ \A a \in Actors : at[a] = "send" => at'[a] = "write"
  BY <1>1
<1>3. as \subseteq Deliverers /\ as \subseteq Actors
  BY DEF TypeOK, Actors, Deliverers, ReaderPlaces, HookPlaces
<1>4. \A i \in Inputs : \A a \in as : on[a] = i =>
        /\ Holds(a, i) /\ \A b \in as : on[b] = i => a = b
  BY <1>3 DEF Holds, HoldInv, Deliverers
<1> HIDE DEF as
<1>5. /\ written' \in [Inputs -> Nat]
      /\ \A i \in Inputs : (\A a \in as : on[a] # i) => written'[i] = written[i]
      /\ \A i \in Inputs : \A a \in as : on[a] = i => written'[i] = written[i] + 1
  <2>1. /\ written' \in [Inputs -> Nat]
        /\ \A i \in Inputs :
             /\ (\A a \in as : on[a] # i) => written'[i] = written[i]
             /\ \A b \in as : on[b] = i /\ (\A a \in as : on[a] = i => a = b) => written'[i] = written[i] + 1
    BY <1>1, <1>3, WrittenCounts
  <2>2. ASSUME NEW i \in Inputs, NEW b \in as, on[b] = i
        PROVE  written'[i] = written[i] + 1
    <3>1. \A a \in as : on[a] = i => a = b
      BY <1>4, <2>2
    <3> QED BY <2>1, <2>2, <3>1
  <2> QED BY <2>1, <2>2
<1>6. ASSUME NEW i \in Inputs
      PROVE  \/ written'[i] = written[i]
             \/ /\ written'[i] = 1 /\ disk.status[i] \notin {"none", "accepted"}
                /\ \E a \in as : on[a] = i
  <2>1. CASE \A a \in as : on[a] # i
    BY <1>5, <2>1
  <2>2. ASSUME NEW a \in as, on[a] = i
        PROVE  written'[i] = 1 /\ disk.status[i] \notin {"none", "accepted"}
    <3>1. Holds(a, i) /\ a \in Deliverers
      BY <1>3, <1>4, <2>2
    <3>2. written[i] = 0 /\ disk.status[i] \notin {"none", "accepted"}
      BY <3>1 DEF HoldInv
    <3>3. written'[i] = written[i] + 1
      BY <1>5, <2>2
    <3> QED BY <3>2, <3>3
  <2> QED BY <2>1, <2>2
<1>7. TypeOK'
  <2>1. /\ at' \in [Actors -> HandlerPlaces \cup WorkPlaces \cup ReaderPlaces \cup HookPlaces]
        /\ at'["handler"] \in HandlerPlaces /\ at'["work"] \in WorkPlaces
        /\ at'["reader"] = at["reader"] /\ at'["hook"] = at["hook"]
    BY <1>1, <1>2 DEF TypeOK, Actors, HandlerPlaces, WorkPlaces, ReaderPlaces, HookPlaces
  <2> QED BY <1>1, <1>5, <2>1 DEF TypeOK
<1>8. NamesInv'
  <2>1. at'["handler"] = "cancel" => at["handler"] = "cancel"
    BY <1>2 DEF Actors
  <2> QED BY <1>1, <2>1, ControlsCounted DEF NamesInv, TypeOK
<1>9. QueueInv'
  <2>1. \A m \in 1..Len(operations) : operations[m] \in Actors
    BY DEF TypeOK
  <2>2. \A a \in Actors : at[a] \in Committing => at'[a] \in Committing
    BY <1>2 DEF Committing
  <2> QED BY <1>1, <2>1, <2>2 DEF QueueInv, Queued
<1>10. PhaseInv'
  BY <1>1, <1>2 DEF PhaseInv, TypeOK, accepting, Reading, Actors
<1>11. HoldInv' /\ WrittenOnce'
  <2>1. \A a \in Deliverers : at'[a] \notin {"first", "send", "detach"}
    BY <1>1, <1>2 DEF HoldInv, Fresh, Deliverers, Actors
  <2>2. HoldInv'
    BY <1>1, <2>1 DEF HoldInv, Holds, Deliverers
  <2>3. WrittenOnce'
    <3> SUFFICES ASSUME NEW i \in Inputs
                 PROVE  written'[i] <= 1 /\ (written'[i] = 1 => disk'.status[i] \notin {"none", "accepted"})
      BY DEF WrittenOnce
    <3>1. written[i] <= 1 /\ (written[i] = 1 => disk.status[i] \notin {"none", "accepted"})
      BY DEF WrittenOnce
    <3>2. \/ written'[i] = written[i]
          \/ written'[i] = 1 /\ disk.status[i] \notin {"none", "accepted"}
      BY <1>6
    <3> QED BY <1>1, <3>1, <3>2
  <2> QED BY <2>2, <2>3
<1>12. StatusInv'
  BY <1>1, <1>2 DEF StatusInv, Actors
<1>13. DeliveryInv'
  BY <1>1, <1>2 DEF DeliveryInv, Fresh, OfItsRun, Accepted, Actors
<1>14. SettleInv'
  <2> SUFFICES ASSUME up, ~fenced, NEW i \in Pending(memory), written'[i] = 1
               PROVE  active /\ memory.runOf[i] = run /\ at'["work"] \notin {"idle", "lastFlush"}
    BY <1>1 DEF SettleInv
  <2>1. i \in Inputs
    BY DEF Pending
  <2>2. CASE written'[i] = written[i]
    BY <1>2, <2>2 DEF SettleInv, Actors
  <2>3. CASE \E a \in as : on[a] = i
    <3>1. memory = disk /\ active /\ at["work"] \notin {"idle", "lastFlush"}
      BY <1>1 DEF PhaseInv, accepting
    <3>2. \E a \in Deliverers : on[a] = i /\ at[a] \in {"first", "send"}
      BY <1>3, <2>3 DEF as
    <3>3. disk.runOf[i] = run
      BY <1>1, <2>1, <3>2 DEF DeliveryInv, Fresh, OfItsRun, Deliverers, TypeOK, HandlerPlaces
    <3>4. at'["work"] \notin {"idle", "lastFlush"}
      BY <1>2, <3>1 DEF Actors
    <3> QED BY <3>1, <3>3, <3>4
  <2> QED BY <1>6, <2>1, <2>2, <2>3
<1> QED BY <1>7, <1>8, <1>9, <1>10, <1>11, <1>12, <1>13, <1>14

(* What the commit at the head makes of the state keeps the history true:   *)
(* only the detachment of an input that was taken and not written makes it  *)
(* acceptable again.                                                        *)
LEMMA HeadIsTrue ==
  ASSUME Inv, operations # <<>>, ~fenced, NEW t, t = Mutated(Head(operations))
  PROVE  /\ t \in States /\ disk.controls \subseteq t.controls
         /\ Cardinality(t.controls)
              + (IF at["handler"] = "cancel" /\ Head(operations) # "handler" THEN 1 ELSE 0) <= cancels
         /\ \A i \in Inputs :
              /\ disk.status[i] \notin {"none", "accepted"} /\ t.status[i] \in {"none", "accepted"} =>
                   Head(operations) \in Deliverers /\ at[Head(operations)] = "detach" /\ on[Head(operations)] = i
              /\ written[i] = 1 => t.status[i] \notin {"none", "accepted"}
<1> DEFINE a == Head(operations)
<1> USE DEF Inv
<1>1. a \in Actors /\ at[a] \in Committing
  BY QueueHead DEF QueueInv, TypeOK
<1>2. memory = disk
  BY DEF PhaseInv
<1> HIDE DEF a
<1>3. t = Mutated(a)
  BY DEF a
<1>4. /\ t \in States
      /\ \/ t.controls = memory.controls
         \/ at[a] = "cancel" /\ to[a] \in Runs /\ t.controls = memory.controls \cup {to[a]}
  BY <1>1, <1>3, MutatedSets
<1>5. Cardinality(t.controls) + (IF at["handler"] = "cancel" /\ a # "handler" THEN 1 ELSE 0) <= cancels
  <2>1. CASE t.controls = memory.controls
    BY <1>2, <2>1, ControlsCounted DEF NamesInv, TypeOK
  <2>2. CASE at[a] = "cancel" /\ t.controls = memory.controls \cup {to[a]}
    <3>1. a = "handler"
      BY <1>1, <2>2 DEF TypeOK, Actors, WorkPlaces, ReaderPlaces, HookPlaces
    <3>2. IsFiniteSet(disk.controls) /\ Cardinality(disk.controls) \in Nat
      BY ControlsCounted DEF TypeOK
    <3>3. Cardinality(disk.controls) + 1 <= cancels
      BY <2>2, <3>1 DEF NamesInv
    <3>4. Cardinality(disk.controls \cup {to[a]}) <= Cardinality(disk.controls) + 1
          /\ Cardinality(disk.controls \cup {to[a]}) \in Nat
      <4> DEFINE S == disk.controls
                 more == S \cup {to[a]}
      <4>1. IsFiniteSet(more) /\ Cardinality(more) = IF to[a] \in S THEN Cardinality(S) ELSE Cardinality(S) + 1
        BY <3>2, FS_AddElement
      <4> HIDE DEF S, more
      <4>2. Cardinality(S) \in Nat
        BY <3>2 DEF S
      <4>3. Cardinality(more) <= Cardinality(S) + 1 /\ Cardinality(more) \in Nat
        BY <4>1, <4>2
      <4> QED BY <4>3 DEF S, more
    <3>5. t.controls = disk.controls \cup {to[a]} /\ cancels \in Int
      BY <1>2, <2>2 DEF TypeOK
    <3>6. (IF at["handler"] = "cancel" /\ a # "handler" THEN 1 ELSE 0) = 0
      BY <3>1
    <3>7. Cardinality(t.controls) = Cardinality(disk.controls \cup {to[a]})
      BY <3>5
    <3>8. Cardinality(t.controls) <= cancels /\ Cardinality(t.controls) \in Int
      BY <3>2, <3>3, <3>4, <3>5, <3>7
    <3> HIDE DEF Inv
    <3> QED BY <3>6, <3>8
  <2> QED BY <1>4, <2>1, <2>2
<1>6. ASSUME NEW i \in Inputs, disk.status[i] \notin {"none", "accepted"}, t.status[i] \in {"none", "accepted"}
      PROVE  a \in Deliverers /\ at[a] = "detach" /\ on[a] = i
  <2>1. /\ at[a] \in {"admit", "detach"} => t.status[i] = IF i = on[a] THEN "accepted" ELSE memory.status[i]
        /\ at[a] \notin {"admit", "detach"} /\ t.status[i] = "accepted" => memory.status[i] = "accepted"
        /\ at[a] \notin {"admit", "detach", "begin", "cancel"} => (t.status[i] = "none" <=> memory.status[i] = "none")
        /\ at[a] \in {"begin", "cancel", "deliver"} /\ i # on[a] => t.status[i] = memory.status[i]
        /\ at[a] = "begin" /\ i = on[a] => t.status[i] = "delivering"
        /\ at[a] = "cancel" /\ i = on[a] => t.status[i] = "stopped"
    BY <1>1, <1>3, MutatedSets
  <2>2. at[a] \in {"admit", "detach"} /\ on[a] = i
    BY <1>2, <1>6, <2>1
  <2>3. at[a] # "admit"
    BY <1>1, <1>6, <2>2 DEF StatusInv, TypeOK, Actors, WorkPlaces, ReaderPlaces, HookPlaces
  <2> QED BY <1>1, <2>2, <2>3 DEF TypeOK, Actors, Deliverers, ReaderPlaces, HookPlaces
<1>7. ASSUME NEW i \in Inputs, written[i] = 1
      PROVE  t.status[i] \notin {"none", "accepted"}
  <2>1. disk.status[i] \notin {"none", "accepted"}
    BY <1>7 DEF WrittenOnce
  <2>2. ~(a \in Deliverers /\ at[a] = "detach" /\ on[a] = i)
    BY <1>7 DEF HoldInv, Holds
  <2> QED BY <1>6, <2>1, <2>2
<1> QED BY <1>2, <1>4, <1>5, <1>6, <1>7 DEF a

(* A commit that is refused: nothing more is committed, and nothing that    *)
(* was written was acceptable.                                              *)
LEMMA RejectedKeeps ==
  ASSUME Inv, operations # <<>>, Rejected(Head(operations), Tail(operations)),
         fenced' = TRUE, disk' = disk \/ (~fenced /\ disk' = Mutated(Head(operations))),
         failures' \in 0..MaxFailures,
         UNCHANGED <<memory, up, run, slot, killed, consumed, cancels>>
  PROVE  Inv'
<1> DEFINE a == Head(operations)
           queue == Tail(operations)
<1> USE DEF Inv
<1>1. /\ a \in Actors /\ at[a] \in Committing
      /\ queue \in Seq(Actors) /\ Queued(queue, at) /\ \A m \in 1..Len(queue) : queue[m] # a
  BY QueueHead DEF QueueInv, TypeOK
<1>2. Rejected(a, queue)
  OBVIOUS
<1>3. /\ disk' \in States /\ memory.controls \subseteq disk'.controls
      /\ Cardinality(disk'.controls) + (IF at["handler"] = "cancel" /\ a # "handler" THEN 1 ELSE 0) <= cancels
      /\ \A i \in Inputs :
           /\ disk.status[i] \notin {"none", "accepted"} /\ disk'.status[i] \in {"none", "accepted"} =>
                a \in Deliverers /\ at[a] = "detach" /\ on[a] = i
           /\ written[i] = 1 => disk'.status[i] \notin {"none", "accepted"}
  <2>1. CASE disk' = disk
    BY <2>1, ControlsCounted DEF TypeOK, NamesInv, WrittenOnce
  <2>2. CASE ~fenced /\ disk' = Mutated(a)
    BY <2>2, HeadIsTrue DEF NamesInv
  <2> QED BY <2>1, <2>2
<1> HIDE DEF a, queue
<1>4. /\ UNCHANGED <<on, to, todo, then, sent, active, written>>
      /\ \/ /\ at[a] \in {"initialize", "admit", "reset", "cancel", "deliver", "detach"}
            /\ at' = [at EXCEPT ![a] = IF a = "work" THEN "done" ELSE "idle"]
            /\ operations' = queue
            /\ stream' = (IF a = "work" THEN Cancelled(stream) ELSE stream) /\ aborted' = aborted
         \/ /\ at[a] = "begin"
            /\ at' = [at EXCEPT !["work"] = "final", !["handler"] = IF at["handler"] = "ready" THEN "idle" ELSE @]
            /\ operations' = Append(queue, a)
            /\ stream' = "refused" /\ aborted' = aborted
         \/ /\ at[a] = "final"
            /\ at' = [at EXCEPT ![a] = "idle"] /\ operations' = queue
            /\ stream' = stream /\ aborted' = aborted
         \/ /\ at[a] \in {"echo", "result", "error"}
            /\ at' = [at EXCEPT ![a] = "closed"] /\ operations' = queue
            /\ stream' = stream /\ aborted' = aborted
         \/ /\ at[a] = "hook"
            /\ at' = [at EXCEPT ![a] = "idle"] /\ operations' = queue
            /\ stream' \in {stream, Cancelled(stream)} /\ aborted' \in {aborted, TRUE}
  BY <1>2 DEF Rejected, Throws, Continues, Awaits, RunIsReady, SameInput, Uninterrupted, StopsRun, Interrupt
<1>5. /\ at[a] \in {"initialize", "admit", "reset", "cancel"} => a = "handler"
      /\ at[a] \in {"deliver", "detach"} => a \in Deliverers
      /\ at[a] \in {"begin", "final"} => a = "work"
      /\ at[a] \in {"echo", "result", "error"} => a = "reader"
      /\ at[a] = "hook" => a = "hook"
  BY <1>1 DEF TypeOK, Actors, Deliverers, HandlerPlaces, WorkPlaces, ReaderPlaces, HookPlaces
<1>6. /\ at' \in [Actors -> HandlerPlaces \cup WorkPlaces \cup ReaderPlaces \cup HookPlaces]
      /\ at'["handler"] \in HandlerPlaces /\ at'["work"] \in WorkPlaces
      /\ at'["reader"] \in ReaderPlaces /\ at'["hook"] \in HookPlaces
  <2> USE DEF TypeOK, Actors, Deliverers, HandlerPlaces, WorkPlaces, ReaderPlaces, HookPlaces
  <2>1. CASE at[a] \in {"initialize", "admit", "reset", "cancel", "deliver", "detach"}
    BY <1>4, <1>5, <2>1, ZenonT(60)
  <2>2. CASE at[a] = "begin"
    BY <1>4, <1>5, <2>2
  <2>3. CASE at[a] = "final"
    BY <1>4, <1>5, <2>3
  <2>4. CASE at[a] \in {"echo", "result", "error"}
    BY <1>4, <1>5, <2>4, ZenonT(60)
  <2>5. CASE at[a] = "hook"
    BY <1>4, <1>5, <2>5
  <2> QED BY <1>1, <2>1, <2>2, <2>3, <2>4, <2>5 DEF Committing
<1>7. /\ \A b \in Actors \ {a} : at'[b] = at[b] \/ (b = "handler" /\ at[b] = "ready" /\ at'[b] = "idle")
      /\ at'[a] = "final" \/ at'[a] \notin Committing \cup {"first", "send", "detach"}
  BY <1>1, <1>4, <1>5 DEF TypeOK, Actors, Deliverers, Committing
<1>8. operations' \in Seq(Actors) /\ QueueInv'
  <2>1. CASE operations' = queue
    <3>1. \A m \in 1..Len(queue) : queue[m] \in Actors \ {a}
      BY <1>1
    <3>2. \A m \in 1..Len(queue) : at'[queue[m]] \in Committing
      BY <1>1, <1>7, <3>1 DEF Queued, Committing
    <3> QED BY <1>1, <2>1, <3>2 DEF QueueInv, Queued
  <2>2. CASE operations' = Append(queue, a) /\ at'[a] = "final"
    <3>1. \A m \in 1..Len(queue) : at[queue[m]] \in Committing => at'[queue[m]] \in Committing
      BY <1>1, <1>7 DEF Committing
    <3>2. at'[a] \in Committing
      BY <2>2 DEF Committing
    <3>3. Append(queue, a) \in Seq(Actors) /\ Queued(Append(queue, a), at')
      BY <1>1, <3>1, <3>2, QueueGrows
    <3> QED BY <2>2, <3>3 DEF QueueInv, Queued
  <2>3. operations' = queue \/ (operations' = Append(queue, a) /\ at'[a] = "final")
    BY <1>4, <1>5 DEF TypeOK, Actors
  <2> QED BY <2>1, <2>2, <2>3
<1>9. TypeOK'
  <2>1. aborted' \in BOOLEAN
    BY <1>4 DEF TypeOK
  <2>2. stream' \in {"none", "refused", "starting", "open", "ending", "halting", "stopping", "unstarted", "settled"}
    BY <1>4 DEF TypeOK, Cancelled
  <2> QED BY <1>3, <1>4, <1>6, <1>8, <2>1, <2>2 DEF TypeOK
<1>10. NamesInv'
  <2>1. at'["handler"] = "cancel" => at["handler"] = "cancel" /\ a # "handler"
    BY <1>4, <1>5, <1>7 DEF TypeOK, Actors, Deliverers
  <2>2. Cardinality(disk'.controls) \in Nat
    BY <1>3, ControlsCounted
  <2>3. memory'.controls \subseteq disk'.controls /\ cancels' = cancels
    BY <1>3
  <2>4. Cardinality(disk'.controls) + (IF at'["handler"] = "cancel" THEN 1 ELSE 0) <= cancels
    <3>1. CASE at'["handler"] = "cancel"
      BY <1>3, <2>1, <3>1
    <3>2. CASE at'["handler"] # "cancel"
      <4>1. Cardinality(disk'.controls) <= cancels
        <5> DEFINE n == Cardinality(disk'.controls)
        <5>1. n + (IF at["handler"] = "cancel" /\ a # "handler" THEN 1 ELSE 0) <= cancels /\ n \in Nat /\ cancels \in Nat
          BY <1>3, <2>2 DEF TypeOK
        <5> HIDE DEF n, Inv
        <5>2. n <= cancels
          BY <5>1
        <5> QED BY <5>2 DEF n
      <4> QED BY <2>2, <3>2, <4>1
    <3> QED BY <3>1, <3>2
  <2> QED BY <2>3, <2>4 DEF NamesInv
<1>11. PhaseInv'
  <2> USE DEF PhaseInv, TypeOK, accepting, Reading, Cancelled, Actors, Deliverers
  <2>1. CASE at[a] \in {"initialize", "admit", "reset", "cancel", "deliver", "detach"}
    BY <1>4, <1>5, <2>1
  <2>2. CASE at[a] = "begin"
    BY <1>4, <1>5, <2>2
  <2>3. CASE at[a] = "final"
    BY <1>4, <1>5, <2>3
  <2>4. CASE at[a] \in {"echo", "result", "error"}
    BY <1>4, <1>5, <2>4
  <2>5. CASE at[a] = "hook"
    BY <1>4, <1>5, <2>5
  <2> QED BY <1>1, <2>1, <2>2, <2>3, <2>4, <2>5 DEF Committing
<1>12. HoldInv' /\ WrittenOnce'
  <2>1. \A b \in Deliverers, i \in Inputs : Holds(b, i)' => Holds(b, i) /\ b # a
    BY <1>4, <1>5, <1>7 DEF Holds, Deliverers, Actors, TypeOK
  <2>2. \A b \in Deliverers : at'[b] = "detach" => at[b] = "detach" /\ ~Fresh'
    BY <1>4, <1>5, <1>7 DEF HoldInv, Fresh, Cancelled, Deliverers, Actors, TypeOK
  <2>3. WrittenOnce'
    BY <1>3, <1>4 DEF WrittenOnce
  <2>4. ASSUME NEW b \in Deliverers, NEW i \in Inputs, Holds(b, i)'
        PROVE  written'[i] = 0 /\ disk'.status[i] \notin {"none", "accepted"}
    <3>1. Holds(b, i) /\ b # a /\ written[i] = 0 /\ disk.status[i] \notin {"none", "accepted"}
      BY <2>1, <2>4 DEF HoldInv
    <3>2. ~(a \in Deliverers /\ at[a] = "detach" /\ on[a] = i)
      BY <3>1 DEF HoldInv, Holds, Deliverers
    <3> QED BY <1>3, <1>4, <3>1, <3>2
  <2>5. \A i \in Inputs : ~(Holds("handler", i) /\ Holds("work", i))'
    BY <2>1 DEF HoldInv, Deliverers
  <2> QED BY <2>2, <2>3, <2>4, <2>5 DEF HoldInv
<1>13. StatusInv' /\ SettleInv'
  BY DEF StatusInv, SettleInv
<1>14. DeliveryInv'
  BY <1>4, <1>5 DEF DeliveryInv, Actors, Deliverers, TypeOK
<1> QED BY <1>9, <1>8, <1>10, <1>11, <1>12, <1>13, <1>14

(* The process is lost: nothing is in flight, and what was written stays    *)
(* so in the file.                                                          *)
LEMMA CrashKeeps ==
  ASSUME Inv, Crash
  PROVE  Inv'
<1> USE DEF Inv
<1>1. /\ disk' = disk \/ (operations # <<>> /\ ~fenced /\ disk' = Mutated(Head(operations)))
      /\ memory' = disk' /\ up' = FALSE /\ fenced' = FALSE /\ operations' = <<>>
      /\ at' = [b \in Actors |-> "idle"]
      /\ on' = [b \in Actors |-> 0] /\ to' = [b \in Actors |-> 0]
      /\ then' = "none" /\ todo' = {}
      /\ run' = 0 /\ active' = FALSE /\ slot' = FALSE /\ aborted' = FALSE /\ killed' = FALSE
      /\ stream' = "none" /\ sent' = {} /\ consumed' = {}
      /\ written' = written /\ cancels' = cancels
      /\ failures' = failures \/ (failures < MaxFailures /\ failures' = failures + 1)
  BY DEF Crash
<1>2. /\ disk' \in States
      /\ Cardinality(disk'.controls) <= cancels
      /\ \A i \in Inputs : written[i] = 1 => disk'.status[i] \notin {"none", "accepted"}
  <2>1. CASE disk' = disk
    BY <2>1, ControlsCounted DEF TypeOK, NamesInv, WrittenOnce
  <2>2. CASE operations # <<>> /\ ~fenced /\ disk' = Mutated(Head(operations))
    <3>1. /\ disk' \in States /\ disk.controls \subseteq disk'.controls
          /\ Cardinality(disk'.controls)
              + (IF at["handler"] = "cancel" /\ Head(operations) # "handler" THEN 1 ELSE 0) <= cancels
          /\ \A i \in Inputs : written[i] = 1 => disk'.status[i] \notin {"none", "accepted"}
      BY <2>2, HeadIsTrue
    <3>2. Cardinality(disk'.controls) \in Nat
      BY <3>1, ControlsCounted
    <3> QED BY <3>1, <3>2 DEF TypeOK
  <2> QED BY <1>1, <2>1, <2>2
<1>3. TypeOK'
  <2>1. /\ operations' \in Seq(Actors) /\ up' \in BOOLEAN /\ fenced' \in BOOLEAN
        /\ active' \in BOOLEAN /\ slot' \in BOOLEAN /\ aborted' \in BOOLEAN /\ killed' \in BOOLEAN
    <3>1. operations' \in Seq(Actors)
      BY <1>1
    <3>2. /\ up' \in BOOLEAN /\ fenced' \in BOOLEAN
          /\ active' \in BOOLEAN /\ slot' \in BOOLEAN /\ aborted' \in BOOLEAN /\ killed' \in BOOLEAN
      BY <1>1
    <3> QED BY <3>1, <3>2
  <2>2. failures' \in 0..MaxFailures
    BY <1>1, RuntimeAssumption DEF TypeOK
  <2> QED BY <1>1, <1>2, <2>1, <2>2 DEF TypeOK, Actors, RunIds, HandlerPlaces, WorkPlaces, ReaderPlaces, HookPlaces
<1>4. /\ at'["handler"] = "idle" /\ at'["work"] = "idle" /\ at'["reader"] = "idle" /\ at'["hook"] = "idle"
  BY <1>1 DEF Actors
<1>5. NamesInv'
  <2>1. Cardinality(disk'.controls) \in Nat /\ at'["handler"] # "cancel"
    BY <1>2, <1>4, ControlsCounted
  <2> HIDE DEF Inv
  <2> QED BY <1>1, <1>2, <2>1 DEF NamesInv
<1>6. QueueInv'
  BY <1>1 DEF QueueInv, Queued
<1>7. PhaseInv'
  BY <1>1, <1>4 DEF PhaseInv, accepting, Reading
<1>8. HoldInv' /\ WrittenOnce'
  BY <1>1, <1>2, <1>4 DEF HoldInv, Holds, WrittenOnce, Deliverers
<1>9. StatusInv' /\ SettleInv'
  BY <1>1, <1>4 DEF StatusInv, SettleInv
<1>10. DeliveryInv'
  BY <1>1, <1>4 DEF DeliveryInv
<1> QED BY <1>3, <1>5, <1>6, <1>7, <1>8, <1>9, <1>10

(* What holds once the commit of actor a has landed, whatever a does next.  *)
Landed(a, queue) ==
  /\ a \in Actors /\ at[a] \in Committing
  /\ queue \in Seq(Actors) /\ Queued(queue, at) /\ \A m \in 1..Len(queue) : queue[m] # a
  /\ disk' = memory' /\ disk' \in States /\ memory = disk
  /\ disk'.controls = disk.controls \/ at[a] = "cancel"
  /\ Cardinality(disk'.controls) + (IF at["handler"] = "cancel" /\ a # "handler" THEN 1 ELSE 0) <= cancels
  /\ ~fenced /\ fenced' = fenced /\ up' = (up \/ at[a] = "initialize")
  /\ UNCHANGED <<run, slot, killed, consumed, cancels, failures>>
  /\ at[a] \in {"initialize", "admit", "reset", "cancel"} => a = "handler"
  /\ at[a] \in {"deliver", "detach"} => a \in Deliverers
  /\ at[a] \in {"begin", "final"} => a = "work"
  /\ at[a] \in {"echo", "result", "error"} => a = "reader"
  /\ at[a] = "hook" => a = "hook"

(* The histories: what was written is not acceptable, and neither is what   *)
(* another actor holds.                                                     *)
LandedTruly(a) ==
  \A i \in Inputs :
    /\ written[i] = 1 => disk'.status[i] \notin {"none", "accepted"}
    /\ \A b \in Deliverers \ {a} : Holds(b, i) => disk'.status[i] \notin {"none", "accepted"}
    /\ pending(disk', i) /\ written[i] = 1 =>
         disk'.runOf[i] = run /\ active /\ at["work"] \notin {"idle", "lastFlush"} /\ at[a] # "final"

(* The claims of the actors that still wait.                                *)
LandedBeside(a) ==
  /\ Fresh /\ a # "handler" => disk'.runOf = disk.runOf
  /\ Fresh /\ at["work"] # "idle" => \A i \in Inputs : disk.runOf[i] = run => disk'.runOf[i] = run
  /\ \A i \in Inputs :
       /\ a # "handler" /\ at["handler"] = "admit" /\ on["handler"] = i => disk'.status[i] = "none"
       /\ a # "work" /\ at["work"] = "begin" /\ on["work"] = i =>
            /\ disk'.status[i] = "accepted" /\ disk'.runOf[i] = run
            /\ ~(at["handler"] = "cancel" /\ on["handler"] = i)
       /\ at["work"] # "idle" /\ disk'.status[i] = "accepted" /\ disk.status[i] # "accepted" /\ Fresh => disk'.runOf[i] = run

(* Persist is a commit of the actor at the head that lands truly beside     *)
(* the others, and then what the actor does next; of some commits it is     *)
(* known what they write.                                                   *)
LEMMA PersistLands ==
  ASSUME Inv, Persist
  PROVE  \E a \in Actors, queue \in Seq(Actors) :
           /\ Landed(a, queue) /\ LandedTruly(a) /\ LandedBeside(a) /\ Resolved(a, queue)
           /\ at[a] \in {"admit", "detach"} => \A i \in Inputs : disk'.runOf[i] = IF i = on[a] THEN to[a] ELSE disk.runOf[i]
           /\ at[a] = "deliver" =>
                \A i \in Inputs : disk'.status[i] = IF i = on[a] /\ disk.status[i] = "accepted" THEN "delivering" ELSE disk.status[i]
           /\ at[a] = "begin" =>
                \A i \in Inputs : disk'.status[i] = IF i = on[a] THEN "delivering" ELSE disk.status[i]
           /\ at[a] \notin {"initialize", "admit", "detach"} => disk'.runOf = disk.runOf
<1> DEFINE a == Head(operations)
           queue == Tail(operations)
<1> USE DEF Inv
<1>1. /\ operations # <<>> /\ ~fenced /\ memory' = Mutated(a) /\ disk' = memory'
      /\ up' = (up \/ at[a] = "initialize") /\ Resolved(a, queue)
      /\ UNCHANGED <<fenced, run, slot, killed, consumed, cancels, failures>>
  BY DEF Persist
<1>2. /\ a \in Actors /\ at[a] \in Committing
      /\ queue \in Seq(Actors) /\ Queued(queue, at) /\ \A m \in 1..Len(queue) : queue[m] # a
  BY <1>1, QueueHead DEF QueueInv, TypeOK
<1>3. memory = disk
  BY <1>1 DEF PhaseInv
<1>4. /\ disk' \in States /\ disk.controls \subseteq disk'.controls
      /\ Cardinality(disk'.controls)
           + (IF at["handler"] = "cancel" /\ Head(operations) # "handler" THEN 1 ELSE 0) <= cancels
      /\ \A i \in Inputs :
           /\ disk.status[i] \notin {"none", "accepted"} /\ disk'.status[i] \in {"none", "accepted"} =>
                Head(operations) \in Deliverers /\ at[Head(operations)] = "detach" /\ on[Head(operations)] = i
           /\ written[i] = 1 => disk'.status[i] \notin {"none", "accepted"}
  BY <1>1, HeadIsTrue
<1>5. /\ Cardinality(disk'.controls) + (IF at["handler"] = "cancel" /\ a # "handler" THEN 1 ELSE 0) <= cancels
      /\ \A i \in Inputs :
           /\ disk.status[i] \notin {"none", "accepted"} /\ disk'.status[i] \in {"none", "accepted"} =>
                a \in Deliverers /\ at[a] = "detach" /\ on[a] = i
           /\ written[i] = 1 => disk'.status[i] \notin {"none", "accepted"}
  BY <1>4
<1> HIDE DEF a, queue
<1>6. /\ disk'.controls = memory.controls \/ at[a] = "cancel"
      /\ at[a] \notin {"initialize", "admit", "detach"} => disk'.runOf = disk.runOf
      /\ \A i \in Inputs :
           /\ i # on[a] /\ at[a] # "initialize" => disk'.runOf[i] = disk.runOf[i]
           /\ at[a] \in {"admit", "detach"} =>
                /\ disk'.status[i] = IF i = on[a] THEN "accepted" ELSE disk.status[i]
                /\ disk'.runOf[i] = IF i = on[a] THEN to[a] ELSE disk.runOf[i]
           /\ at[a] \notin {"admit", "detach"} /\ disk'.status[i] = "accepted" => disk.status[i] = "accepted"
           /\ at[a] \notin {"admit", "detach", "begin", "cancel"} => (disk'.status[i] = "none" <=> disk.status[i] = "none")
           /\ at[a] \in {"begin", "cancel", "deliver"} /\ i # on[a] => disk'.status[i] = disk.status[i]
           /\ at[a] = "hook" => disk'.status[i] = disk.status[i]
           /\ at[a] = "begin" /\ i = on[a] => disk'.status[i] = "delivering"
           /\ at[a] = "deliver" /\ i = on[a] =>
                disk'.status[i] = IF disk.status[i] = "accepted" THEN "delivering" ELSE disk.status[i]
           /\ at[a] \notin {"begin", "deliver"} /\ pending(disk', i) => pending(disk, i)
           /\ at[a] = "initialize" => ~pending(disk', i)
           /\ at[a] = "final" /\ disk.runOf[i] = run => ~pending(disk', i)
  BY <1>1, <1>2, <1>3, MutatedSets
<1>7. /\ at[a] \in {"initialize", "admit", "reset", "cancel"} => a = "handler"
      /\ at[a] \in {"deliver", "detach"} => a \in Deliverers
      /\ at[a] \in {"begin", "final"} => a = "work"
      /\ at[a] \in {"echo", "result", "error"} => a = "reader"
      /\ at[a] = "hook" => a = "hook"
  BY <1>2 DEF TypeOK, Actors, Deliverers, HandlerPlaces, WorkPlaces, ReaderPlaces, HookPlaces
<1>8. Landed(a, queue)
  BY <1>1, <1>2, <1>3, <1>4, <1>5, <1>6, <1>7 DEF Landed
<1>9. LandedTruly(a)
  <2> SUFFICES ASSUME NEW i \in Inputs
               PROVE  /\ written[i] = 1 => disk'.status[i] \notin {"none", "accepted"}
                      /\ \A b \in Deliverers \ {a} : Holds(b, i) => disk'.status[i] \notin {"none", "accepted"}
                      /\ pending(disk', i) /\ written[i] = 1 =>
                           disk'.runOf[i] = run /\ active /\ at["work"] \notin {"idle", "lastFlush"} /\ at[a] # "final"
    BY DEF LandedTruly
  <2>1. ASSUME NEW b \in Deliverers \ {a}, Holds(b, i)
        PROVE  disk'.status[i] \notin {"none", "accepted"}
    <3>1. disk.status[i] \notin {"none", "accepted"}
      BY <2>1 DEF HoldInv
    <3>2. ~(a \in Deliverers /\ at[a] = "detach" /\ on[a] = i)
      BY <2>1 DEF HoldInv, Holds, Deliverers
    <3> QED BY <1>5, <3>1, <3>2
  <2>2. ASSUME pending(disk', i), written[i] = 1
        PROVE  disk'.runOf[i] = run /\ active /\ at["work"] \notin {"idle", "lastFlush"} /\ at[a] # "final"
    <3>1. disk.status[i] \notin {"none", "accepted"}
      BY <2>2 DEF WrittenOnce
    <3>2. pending(disk, i) /\ at[a] # "initialize"
      <4>1. CASE at[a] = "begin"
        <5>1. i # on[a]
          BY <1>1, <1>7, <3>1, <4>1 DEF StatusInv
        <5> QED BY <1>6, <2>2, <4>1, <5>1 DEF pending
      <4>2. CASE at[a] = "deliver"
        BY <1>6, <2>2, <3>1, <4>2 DEF pending
      <4>3. CASE at[a] \notin {"begin", "deliver"}
        BY <1>6, <2>2, <4>3
      <4> QED BY <4>1, <4>2, <4>3
    <3>3. up
      BY <1>2, <3>2 DEF PhaseInv, Actors, Committing
    <3>4. disk.runOf[i] = run /\ active /\ at["work"] \notin {"idle", "lastFlush"}
      BY <1>1, <1>3, <2>2, <3>2, <3>3 DEF SettleInv, Pending
    <3>5. at[a] # "final"
      BY <1>6, <2>2, <3>4
    <3>6. ~(at[a] \in {"admit", "detach"} /\ on[a] = i)
      BY <1>1, <1>7, <2>2, <3>1 DEF StatusInv, HoldInv, Holds
    <3>7. disk'.runOf[i] = disk.runOf[i]
      BY <1>6, <3>2, <3>6
    <3> QED BY <3>4, <3>5, <3>7
  <2> QED BY <1>5, <2>1, <2>2
<1>10. LandedBeside(a)
  <2>1. Fresh => at[a] # "detach"
    BY <1>7 DEF HoldInv
  <2>2. at["work"] # "idle" => at[a] # "initialize"
    BY <1>7 DEF PhaseInv
  <2>3. at["work"] # "idle" /\ at[a] = "admit" => to[a] = run
    BY <1>7 DEF PhaseInv, DeliveryInv
  <2>4. Fresh /\ a # "handler" => disk'.runOf = disk.runOf
    BY <1>6, <1>7, <2>1
  <2>5. Fresh /\ at["work"] # "idle" => \A i \in Inputs : disk.runOf[i] = run => disk'.runOf[i] = run
    BY <1>6, <2>1, <2>2, <2>3
  <2>6. ASSUME NEW i \in Inputs, a # "handler", at["handler"] = "admit", on["handler"] = i
        PROVE  disk'.status[i] = "none"
    <3>1. disk.status[i] = "none"
      BY <1>1, <2>6 DEF StatusInv
    <3>2. at[a] # "admit" /\ at[a] # "cancel" /\ at[a] # "initialize"
      BY <1>7, <2>6
    <3>3. ~(at[a] = "begin" /\ on[a] = i)
      BY <1>1, <1>7, <3>1 DEF StatusInv
    <3>4. ~(at[a] = "detach" /\ on[a] = i)
      BY <1>7, <3>1 DEF HoldInv, Holds
    <3> QED BY <1>6, <3>1, <3>2, <3>3, <3>4
  <2>7. ASSUME NEW i \in Inputs, a # "work", at["work"] = "begin", on["work"] = i
        PROVE  /\ disk'.status[i] = "accepted" /\ disk'.runOf[i] = run
               /\ ~(at["handler"] = "cancel" /\ on["handler"] = i)
    <3>1. /\ disk.status[i] = "accepted" /\ disk.runOf[i] = run
          /\ ~(at["handler"] = "cancel" /\ on["handler"] = i)
      BY <1>1, <2>7 DEF StatusInv
    <3>2. slot /\ stream = "none"
      BY <2>7 DEF PhaseInv
    <3>3. at[a] \in {"admit", "cancel", "hook"}
      BY <1>2, <1>7, <2>1, <2>2, <2>7, <3>2 DEF PhaseInv, Fresh, Reading, Committing, Deliverers, HoldInv
    <3>4. disk'.status[i] = "accepted"
      <4>1. CASE at[a] = "cancel"
        BY <1>6, <1>7, <3>1, <4>1
      <4> QED BY <1>6, <3>1, <3>3, <4>1
    <3>5. disk'.runOf[i] = run
      BY <2>5, <2>7, <3>1, <3>2 DEF Fresh
    <3> QED BY <3>1, <3>4, <3>5
  <2>8. ASSUME NEW i \in Inputs, at["work"] # "idle", disk'.status[i] = "accepted", disk.status[i] # "accepted", Fresh
        PROVE  disk'.runOf[i] = run
    BY <1>6, <2>1, <2>3, <2>8
  <2> QED BY <2>4, <2>5, <2>6, <2>7, <2>8 DEF LandedBeside
<1>11. /\ at[a] \in {"admit", "detach"} => \A i \in Inputs : disk'.runOf[i] = IF i = on[a] THEN to[a] ELSE disk.runOf[i]
       /\ at[a] = "deliver" =>
            \A i \in Inputs : disk'.status[i] = IF i = on[a] /\ disk.status[i] = "accepted" THEN "delivering" ELSE disk.status[i]
       /\ at[a] = "begin" =>
            \A i \in Inputs : disk'.status[i] = IF i = on[a] THEN "delivering" ELSE disk.status[i]
       /\ at[a] \notin {"initialize", "admit", "detach"} => disk'.runOf = disk.runOf
  BY <1>6
<1>12. Resolved(a, queue)
  BY <1>1 DEF a, queue
<1> QED BY <1>2, <1>8, <1>9, <1>10, <1>11, <1>12

(* The parts of the invariant that depend little on what the actor does.    *)
LEMMA LandedNames ==
  ASSUME Inv, NEW a, NEW queue, Landed(a, queue),
         at'["handler"] = "cancel" => at["handler"] = "cancel" /\ a # "handler"
  PROVE  NamesInv'
<1>1. Cardinality(disk'.controls) \in Nat /\ cancels \in Nat /\ cancels' = cancels
  BY ControlsCounted DEF Landed, Inv, TypeOK
<1>2. Cardinality(disk'.controls) + (IF at["handler"] = "cancel" /\ a # "handler" THEN 1 ELSE 0) <= cancels
  BY DEF Landed
<1>3. memory'.controls \subseteq disk'.controls
  BY DEF Landed
<1> DEFINE n == Cardinality(disk'.controls)
<1> HIDE DEF n
<1>4. CASE at'["handler"] = "cancel"
  <2>1. n + 1 <= cancels
    BY <1>2, <1>4 DEF n
  <2> QED BY <1>1, <1>3, <1>4, <2>1 DEF NamesInv, n
<1>5. CASE at'["handler"] # "cancel"
  <2>1. n <= cancels
    <3>1. n \in Nat /\ n + (IF at["handler"] = "cancel" /\ a # "handler" THEN 1 ELSE 0) <= cancels
      BY <1>1, <1>2 DEF n
    <3> QED BY <1>1, <3>1
  <2>2. n + 0 <= cancels
    BY <1>1, <2>1 DEF n
  <2> QED BY <1>1, <1>3, <1>5, <2>2 DEF NamesInv, n
<1> QED BY <1>4, <1>5

(* After a commit nobody holds an input that did not hold it before.        *)
LEMMA LandedHolds ==
  ASSUME Inv, NEW a, NEW queue, Landed(a, queue), LandedTruly(a), UNCHANGED <<on, written>>,
         \A b \in Deliverers : at'[b] \in {"first", "send", "detach"} => at'[b] = at[b] /\ b # a,
         Fresh' => Fresh
  PROVE  HoldInv' /\ WrittenOnce'
<1>1. \A b \in Deliverers, i \in Inputs : Holds(b, i)' => Holds(b, i) /\ b # a
  BY DEF Holds
<1>2. \A b \in Deliverers, i \in Inputs : Holds(b, i)' => written'[i] = 0 /\ disk'.status[i] \notin {"none", "accepted"}
  BY <1>1 DEF LandedTruly, Inv, HoldInv
<1>3. \A i \in Inputs : ~(Holds("handler", i) /\ Holds("work", i))'
  BY <1>1 DEF Inv, HoldInv, Deliverers
<1>4. \A b \in Deliverers : at'[b] = "detach" => ~Fresh'
  BY DEF Inv, HoldInv
<1>5. WrittenOnce'
  BY DEF LandedTruly, Inv, WrittenOnce
<1> QED BY <1>2, <1>3, <1>4, <1>5 DEF HoldInv

(* A commit settles nothing Claude was given, except the final one, which   *)
(* settles all of its run.                                                  *)
LEMMA LandedSettles ==
  ASSUME Inv, NEW a, NEW queue, Landed(a, queue), LandedTruly(a), UNCHANGED written,
         at[a] # "final" => active' = active /\ (at["work"] \notin {"idle", "lastFlush"} => at'["work"] \notin {"idle", "lastFlush"})
  PROVE  SettleInv'
BY DEF Landed, LandedTruly, SettleInv, Pending

(* A commit that lands keeps the types, if what its actor does next has     *)
(* them.                                                                    *)
LEMMA LandedTypes ==
  ASSUME Inv, NEW a, NEW queue, Landed(a, queue),
         operations' \in Seq(Actors),
         at' \in [Actors -> HandlerPlaces \cup WorkPlaces \cup ReaderPlaces \cup HookPlaces],
         at'["handler"] \in HandlerPlaces, at'["work"] \in WorkPlaces,
         at'["reader"] \in ReaderPlaces, at'["hook"] \in HookPlaces,
         on' \in [Actors -> Inputs \cup {0}], to' \in [Actors -> RunIds],
         then' \in {"none", "start", "retry", "deliver"}, todo' \subseteq Inputs,
         active' \in BOOLEAN, aborted' \in BOOLEAN, sent' \subseteq Inputs,
         stream' \in {"none", "refused", "starting", "open", "ending", "halting", "stopping", "unstarted", "settled"},
         written' \in [Inputs -> Nat]
  PROVE  TypeOK'
<1>1. /\ disk' \in States /\ memory' \in States
      /\ UNCHANGED <<run, slot, killed, consumed, cancels, failures>>
      /\ fenced' = fenced /\ up' = (up \/ at[a] = "initialize")
  BY DEF Landed
<1>2. up' \in BOOLEAN /\ fenced' \in BOOLEAN
  BY <1>1 DEF Inv, TypeOK
<1> QED BY <1>1, <1>2 DEF Inv, TypeOK

(* Whoever committed leaves the queue; it may ask for another commit.       *)
LEMMA LandedQueue ==
  ASSUME Inv, NEW a, NEW queue, Landed(a, queue),
         \A b \in Actors \ {a} : at[b] \in Committing => at'[b] \in Committing,
         \/ operations' = queue
         \/ operations' = Append(queue, a) /\ at'[a] \in Committing
         \/ operations' = Append(queue, "handler") /\ a # "handler"
              /\ at["handler"] \notin Committing /\ at'["handler"] \in Committing
  PROVE  operations' \in Seq(Actors) /\ QueueInv'
<1>1. /\ a \in Actors /\ queue \in Seq(Actors) /\ Queued(queue, at)
      /\ \A m \in 1..Len(queue) : queue[m] \in Actors \ {a}
  BY DEF Landed
<1>2. \A m \in 1..Len(queue) : at[queue[m]] \in Committing => at'[queue[m]] \in Committing
  BY <1>1
<1>3. CASE operations' = queue
  BY <1>1, <1>2, <1>3, QueueStays DEF QueueInv, Queued
<1>4. CASE operations' = Append(queue, a) /\ at'[a] \in Committing
  <2>1. Append(queue, a) \in Seq(Actors) /\ Queued(Append(queue, a), at')
    BY <1>1, <1>2, <1>4, QueueGrows
  <2> QED BY <1>4, <2>1 DEF QueueInv, Queued
<1>5. CASE operations' = Append(queue, "handler") /\ a # "handler"
              /\ at["handler"] \notin Committing /\ at'["handler"] \in Committing
  <2>1. "handler" \in Actors
    BY DEF Actors
  <2>2. \A m \in 1..Len(queue) : queue[m] # "handler"
    BY <1>1, <1>5 DEF Queued
  <2>3. Append(queue, "handler") \in Seq(Actors) /\ Queued(Append(queue, "handler"), at')
    BY <1>1, <1>2, <1>5, <2>1, <2>2, QueueGrows
  <2> QED BY <1>5, <2>3 DEF QueueInv, Queued
<1> QED BY <1>3, <1>4, <1>5

(* A commit that is flushed next.                                           *)
LEMMA ResolvedFlushes ==
  ASSUME Inv, NEW a, NEW queue, Landed(a, queue), LandedTruly(a), LandedBeside(a),
         at[a] \in {"initialize", "admit", "reset", "detach", "echo", "result", "error"},
         at[a] \in {"admit", "detach"} => \A i \in Inputs : disk'.runOf[i] = IF i = on[a] THEN to[a] ELSE disk.runOf[i],
         at' = [at EXCEPT ![a] = "flush"], operations' = queue,
         then' = IF at[a] = "detach" /\ a = "handler" THEN "none" ELSE then,
         UNCHANGED <<on, to, todo, aborted, stream, sent, active, written>>
  PROVE  Inv'
<1> USE DEF Inv
<1>0. Inv
  OBVIOUS
<1>1. /\ a \in Actors \ {"hook"}
      /\ at[a] \in {"initialize", "admit", "reset"} => a = "handler"
      /\ at[a] = "detach" => a \in Deliverers
      /\ at[a] \in {"echo", "result", "error"} => a = "reader"
      /\ ~fenced /\ ~fenced' /\ memory' = disk' /\ up' = (up \/ at[a] = "initialize")
      /\ UNCHANGED <<run, slot, killed, consumed>>
  BY DEF Landed, Actors, Deliverers
<1>2. /\ at'[a] = "flush" /\ \A b \in Actors \ {a} : at'[b] = at[b]
  BY <1>1 DEF TypeOK
<1>3. operations' \in Seq(Actors) /\ QueueInv'
  BY <1>2, LandedQueue
<1>4. TypeOK'
  <2>1. /\ at' \in [Actors -> HandlerPlaces \cup WorkPlaces \cup ReaderPlaces \cup HookPlaces]
        /\ at'["handler"] \in HandlerPlaces /\ at'["work"] \in WorkPlaces
        /\ at'["reader"] \in ReaderPlaces /\ at'["hook"] \in HookPlaces
    BY <1>1, <1>2 DEF TypeOK, Actors, HandlerPlaces, WorkPlaces, ReaderPlaces, HookPlaces
  <2>2. then' \in {"none", "start", "retry", "deliver"}
    BY DEF TypeOK
  <2> QED BY <1>3, <2>1, <2>2, LandedTypes DEF TypeOK
<1>5. NamesInv'
  BY <1>1, <1>2, LandedNames DEF Actors
<1>6. PhaseInv'
  BY <1>1, <1>2 DEF PhaseInv, TypeOK, accepting, Reading, Actors, Deliverers
<1>7. HoldInv' /\ WrittenOnce'
  <2>1. \A b \in Deliverers : at'[b] \in {"first", "send", "detach"} => at'[b] = at[b] /\ b # a
    BY <1>2 DEF Deliverers, Actors
  <2> QED BY <2>1, LandedHolds DEF Fresh
<1>8. StatusInv'
  BY <1>1, <1>2 DEF LandedBeside, StatusInv, Actors
<1>9. DeliveryInv'
  <2>1. at'["handler"] \in {"admit", "flush"} /\ then' = "deliver" => to'["handler"] = run'
    BY <1>1, <1>2 DEF DeliveryInv, PhaseInv, Actors, Deliverers
  <2> SUFFICES ASSUME Fresh' /\ ~fenced'
               PROVE /\ \A i \in Inputs : on["handler"] = i =>
                        /\ at'["handler"] = "flush" /\ then' \in {"retry", "deliver"} => disk'.runOf[i] = to["handler"]
                        /\ at'["handler"] \in {"ready", "deliver", "send"} => disk'.runOf[i] = run
                     /\ \A i \in Inputs : on["work"] = i /\ at'["work"] \in {"first", "deliver", "send"} => disk'.runOf[i] = run
                     /\ at'["work"] \in {"deliver", "send", "write", "flush"} =>
                          \A j \in todo : j \in Inputs /\ disk'.status[j] = "accepted" => disk'.runOf[j] = run
    BY <2>1, <1>1 DEF DeliveryInv, OfItsRun, Accepted
  <2>2. Fresh /\ at[a] # "detach"
    BY <1>1 DEF HoldInv, Fresh
  <2>3. \A i \in Inputs : on["work"] = i /\ at'["work"] \in {"first", "deliver", "send"} => disk'.runOf[i] = run
    BY <1>1, <1>2, <2>2 DEF LandedBeside, DeliveryInv, OfItsRun, Actors, Deliverers
  <2>4. at'["work"] \in {"deliver", "send", "write", "flush"} =>
          \A j \in todo : j \in Inputs /\ disk'.status[j] = "accepted" => disk'.runOf[j] = run
    BY <1>1, <1>2, <2>2 DEF LandedBeside, DeliveryInv, OfItsRun, Accepted, Actors, Deliverers
  <2>5. ASSUME NEW i \in Inputs, on["handler"] = i
        PROVE  /\ at'["handler"] = "flush" /\ then' \in {"retry", "deliver"} => disk'.runOf[i] = to["handler"]
               /\ at'["handler"] \in {"ready", "deliver", "send"} => disk'.runOf[i] = run
    <3>1. CASE a = "handler"
      BY <1>1, <1>2, <2>2, <2>5, <3>1 DEF PhaseInv
    <3>2. CASE a # "handler"
      BY <1>1, <1>2, <2>2, <2>5, <3>2 DEF LandedBeside, DeliveryInv, OfItsRun, Actors
    <3> QED BY <3>1, <3>2
  <2> QED BY <2>3, <2>4, <2>5
<1>10. SettleInv'
  BY <1>1, <1>2, LandedSettles DEF Actors
<1> QED BY <1>3, <1>4, <1>5, <1>6, <1>7, <1>8, <1>9, <1>10

(* A cancellation, or that of the hook, is recorded: it stops its run.      *)
LEMMA ResolvedCancels ==
  ASSUME Inv, NEW a, NEW queue, Landed(a, queue), LandedTruly(a), LandedBeside(a),
         at[a] \in {"cancel", "hook"},
         at' = [at EXCEPT ![a] = IF a = "handler" THEN "flush" ELSE "idle"], operations' = queue,
         stream' \in {stream, Cancelled(stream)}, aborted' \in BOOLEAN,
         UNCHANGED <<on, to, todo, then, sent, active, written>>,
         disk'.runOf = disk.runOf
  PROVE  Inv'
<1> USE DEF Inv
<1>0. Inv
  OBVIOUS
<1>1. /\ a \in {"handler", "hook"} /\ a \in Actors
      /\ at[a] = "cancel" => a = "handler"
      /\ at[a] = "hook" => a = "hook"
      /\ ~fenced /\ ~fenced' /\ memory' = disk' /\ memory = disk /\ up' = up
      /\ UNCHANGED <<run, slot, killed, consumed>>
  BY DEF Landed, Actors, TypeOK
<1>2. /\ at'[a] \in {"flush", "idle"} /\ \A b \in Actors \ {a} : at'[b] = at[b]
      /\ at'["work"] = at["work"] /\ at'["reader"] = at["reader"]
      /\ a = "handler" => at["handler"] = "cancel" /\ at'["handler"] = "flush" /\ at'["hook"] = at["hook"]
      /\ a = "hook" => at'["handler"] = at["handler"] /\ at'["hook"] = "idle"
  BY <1>1 DEF TypeOK, Actors
<1>3. operations' \in Seq(Actors) /\ QueueInv'
  BY <1>2, LandedQueue
<1>4. TypeOK'
  <2>1. /\ at' \in [Actors -> HandlerPlaces \cup WorkPlaces \cup ReaderPlaces \cup HookPlaces]
        /\ at'["handler"] \in HandlerPlaces /\ at'["work"] \in WorkPlaces
        /\ at'["reader"] \in ReaderPlaces /\ at'["hook"] \in HookPlaces
    BY <1>1, <1>2 DEF TypeOK, Actors, HandlerPlaces, HookPlaces
  <2>2. stream' \in {"none", "refused", "starting", "open", "ending", "halting", "stopping", "unstarted", "settled"}
    BY DEF TypeOK, Cancelled
  <2> QED BY <1>3, <2>1, <2>2, LandedTypes DEF TypeOK
<1>5. NamesInv'
  BY <1>1, <1>2, LandedNames
<1>6. PhaseInv'
  BY <1>1, <1>2 DEF PhaseInv, TypeOK, accepting, Reading, Cancelled
<1>7. HoldInv' /\ WrittenOnce'
  <2>1. \A b \in Deliverers : at'[b] \in {"first", "send", "detach"} => at'[b] = at[b] /\ b # a
    BY <1>1, <1>2 DEF Deliverers, Actors
  <2>2. Fresh' => Fresh
    BY DEF Fresh, Cancelled
  <2> QED BY <2>1, <2>2, LandedHolds
<1>8. StatusInv'
  BY <1>1, <1>2 DEF LandedBeside, StatusInv
<1>9. DeliveryInv'
  <2>1. Fresh' => Fresh
    BY DEF Fresh, Cancelled
  <2>2. at["handler"] = "cancel" => then = "none"
    BY DEF PhaseInv
  <2>3. at'["work"] \in {"deliver", "send", "write", "flush"} /\ Fresh =>
          \A j \in todo \cap Accepted(disk') : disk'.runOf[j] = run
    BY <1>1, <1>2 DEF LandedBeside, DeliveryInv, OfItsRun, Accepted
  <2> QED BY <1>1, <1>2, <2>1, <2>2, <2>3 DEF DeliveryInv, OfItsRun
<1>10. SettleInv'
  BY <1>1, <1>2, LandedSettles
<1> QED BY <1>3, <1>4, <1>5, <1>6, <1>7, <1>8, <1>9, <1>10

(* The outcome of the run is recorded: nothing of it is open any more.      *)
LEMMA ResolvedEnds ==
  ASSUME Inv, NEW a, NEW queue, Landed(a, queue), LandedTruly(a), LandedBeside(a),
         at[a] = "final",
         at' = [at EXCEPT ![a] = IF killed THEN "idle" ELSE "lastFlush"], operations' = queue,
         active' = (active /\ ~killed),
         UNCHANGED <<on, to, todo, then, sent, aborted, stream, written>>,
         disk'.runOf = disk.runOf
  PROVE  Inv'
<1> USE DEF Inv
<1>0. Inv
  OBVIOUS
<1>1. /\ a = "work" /\ a \in Actors
      /\ ~fenced /\ ~fenced' /\ memory' = disk' /\ memory = disk /\ up' = up
      /\ UNCHANGED <<run, slot, killed, consumed>>
  BY DEF Landed, Actors, TypeOK
<1>2. /\ at'[a] \in {"idle", "lastFlush"} /\ \A b \in Actors \ {a} : at'[b] = at[b]
      /\ at'["handler"] = at["handler"] /\ at'["reader"] = at["reader"] /\ at'["hook"] = at["hook"]
  BY <1>1 DEF TypeOK, Actors
<1>3. operations' \in Seq(Actors) /\ QueueInv'
  BY <1>2, LandedQueue
<1>4. TypeOK'
  <2>1. /\ at' \in [Actors -> HandlerPlaces \cup WorkPlaces \cup ReaderPlaces \cup HookPlaces]
        /\ at'["handler"] \in HandlerPlaces /\ at'["work"] \in WorkPlaces
        /\ at'["reader"] \in ReaderPlaces /\ at'["hook"] \in HookPlaces
    BY <1>1, <1>2 DEF TypeOK, Actors, WorkPlaces
  <2>2. active' \in BOOLEAN
    BY DEF TypeOK
  <2> QED BY <1>3, <2>1, <2>2, LandedTypes DEF TypeOK
<1>5. NamesInv'
  BY <1>1, <1>2, LandedNames
<1>6. PhaseInv'
  BY <1>1, <1>2 DEF PhaseInv, TypeOK, accepting, Reading
<1>7. HoldInv' /\ WrittenOnce'
  <2>1. \A b \in Deliverers : at'[b] \in {"first", "send", "detach"} => at'[b] = at[b] /\ b # a
    BY <1>1, <1>2 DEF Deliverers, Actors
  <2> QED BY <2>1, LandedHolds DEF Fresh
<1>8. StatusInv'
  BY <1>1, <1>2 DEF LandedBeside, StatusInv
<1>9. DeliveryInv'
  BY <1>1, <1>2 DEF DeliveryInv, OfItsRun, Fresh
<1>10. SettleInv'
  BY <1>1, LandedSettles
<1> QED BY <1>3, <1>4, <1>5, <1>6, <1>7, <1>8, <1>9, <1>10

(* The run begins with its first input, or is refused; a handler that       *)
(* waited for it goes on.                                                   *)
LEMMA ResolvedBegins ==
  ASSUME Inv, NEW a, NEW queue, Landed(a, queue), LandedTruly(a), LandedBeside(a),
         at[a] = "begin",
         \/ stream' = "refused" /\ RunIsReady("final", Append(queue, a)) /\ UNCHANGED sent
         \/ stream' = "starting" /\ RunIsReady("first", queue) /\ sent' = {on[a]},
         UNCHANGED <<on, to, todo, then, aborted, active, written>>,
         \A i \in Inputs : disk'.status[i] = IF i = on[a] THEN "delivering" ELSE disk.status[i],
         disk'.runOf = disk.runOf
  PROVE  Inv'
<1> USE DEF Inv
<1>0. Inv
  OBVIOUS
<1>1. /\ a = "work" /\ a \in Actors
      /\ ~fenced /\ ~fenced' /\ memory' = disk' /\ memory = disk /\ up' = up
      /\ UNCHANGED <<run, slot, killed, consumed>>
      /\ stream = "none" /\ active /\ slot
  BY DEF Landed, Actors, TypeOK, PhaseInv
<1>2. /\ at'["reader"] = at["reader"] /\ at'["hook"] = at["hook"]
      /\ at'["work"] \in {"first", "final"}
      /\ \/ at'["handler"] = at["handler"] /\ at["handler"] # "ready"
         \/ at["handler"] = "ready" /\ at'["handler"] = "idle"
         \/ /\ at["handler"] = "ready" /\ at'["handler"] = "deliver"
            /\ stream' = "starting" /\ operations' = Append(queue, "handler")
      /\ at'["handler"] # "deliver" \/ at["handler"] = "deliver" => operations' = queue \/ operations' = Append(queue, a)
      /\ stream' = "refused" => at'["work"] = "final" /\ operations' = Append(queue, a)
      /\ stream' = "starting" => at'["work"] = "first" /\ (at'["handler"] # "deliver" \/ at["handler"] = "deliver" => operations' = queue)
      /\ stream' \in {"refused", "starting"}
      /\ at' \in [Actors -> HandlerPlaces \cup WorkPlaces \cup ReaderPlaces \cup HookPlaces]
  BY <1>1 DEF TypeOK, Actors, RunIsReady, WorkPlaces, HandlerPlaces
<1>3. operations' \in Seq(Actors) /\ QueueInv'
  <2>1. \A b \in Actors \ {a} : at[b] \in Committing => at'[b] \in Committing
    BY <1>1, <1>2 DEF Actors, Committing
  <2>2. \/ operations' = queue
        \/ operations' = Append(queue, a) /\ at'[a] \in Committing
        \/ operations' = Append(queue, "handler") /\ a # "handler"
             /\ at["handler"] \notin Committing /\ at'["handler"] \in Committing
    BY <1>1, <1>2 DEF Committing
  <2> QED BY <2>1, <2>2, LandedQueue
<1>4. TypeOK'
  <2>1. /\ at' \in [Actors -> HandlerPlaces \cup WorkPlaces \cup ReaderPlaces \cup HookPlaces]
        /\ at'["handler"] \in HandlerPlaces /\ at'["work"] \in WorkPlaces
        /\ at'["reader"] \in ReaderPlaces /\ at'["hook"] \in HookPlaces
    BY <1>1, <1>2 DEF TypeOK, Actors, HandlerPlaces, WorkPlaces
  <2>2. sent' \subseteq Inputs
    <3>1. on["work"] \in Inputs
      BY <1>1 DEF PhaseInv
    <3> QED BY <3>1, <1>1 DEF TypeOK
  <2>3. stream' \in {"none", "refused", "starting", "open", "ending", "halting", "stopping", "unstarted", "settled"}
    BY <1>2
  <2> QED BY <1>3, <2>1, <2>2, <2>3, LandedTypes DEF TypeOK
<1>5. NamesInv'
  BY <1>1, <1>2, LandedNames
<1>6. PhaseInv'
  BY <1>1, <1>2 DEF PhaseInv, TypeOK, accepting, Reading
<1>7. HoldInv' /\ WrittenOnce'
  <2>1. \A i \in Inputs : on["work"] = i => disk.status[i] = "accepted" /\ disk.runOf[i] = run
    BY <1>1 DEF StatusInv
  <2>2. \A i \in Inputs : on["work"] = i => written[i] = 0 /\ disk'.status[i] = "delivering" /\ ~Holds("handler", i)
    <3> TAKE i \in Inputs
    <3> SUFFICES ASSUME on["work"] = i
                 PROVE  written[i] = 0 /\ disk'.status[i] = "delivering" /\ ~Holds("handler", i)
      OBVIOUS
    <3>1. written[i] \in Nat /\ written[i] <= 1 /\ written[i] # 1
      BY <2>1 DEF WrittenOnce, TypeOK
    <3>2. written[i] = 0
      BY <3>1
    <3>3. ~Holds("handler", i)
      BY <2>1 DEF HoldInv, Deliverers
    <3> QED BY <1>1, <3>2, <3>3
  <2>3. at'["handler"] # "detach"
    BY <1>1, <1>2 DEF HoldInv, Fresh, Deliverers
  <2>4. \A i \in Inputs : Holds("handler", i)' => Holds("handler", i) /\ disk'.status[i] \notin {"none", "accepted"}
    <3>1. \A i \in Inputs : Holds("handler", i)' => Holds("handler", i)
      BY <1>2 DEF Holds
    <3> QED BY <1>1, <3>1 DEF LandedTruly, Deliverers
  <2>5. \A i \in Inputs : Holds("work", i)' => on["work"] = i
    BY DEF Holds
  <2>6. \A b \in Deliverers, i \in Inputs : Holds(b, i)' => written'[i] = 0 /\ disk'.status[i] \notin {"none", "accepted"}
    BY <2>2, <2>4, <2>5 DEF Deliverers, HoldInv
  <2>7. \A i \in Inputs : ~(Holds("handler", i) /\ Holds("work", i))'
    BY <2>2, <2>4, <2>5
  <2>8. \A b \in Deliverers : at'[b] # "detach"
    BY <1>2, <2>3 DEF Deliverers
  <2>9. WrittenOnce'
    BY DEF LandedTruly, WrittenOnce
  <2> QED BY <2>6, <2>7, <2>8, <2>9 DEF HoldInv
<1>8. StatusInv'
  BY <1>1, <1>2 DEF LandedBeside, StatusInv
<1>9. DeliveryInv'
  <2>1. /\ at["handler"] \in {"admit", "flush"} /\ then = "deliver" => to["handler"] = run
        /\ \A i \in Inputs : on["handler"] = i =>
             /\ at["handler"] = "flush" /\ then \in {"retry", "deliver"} => disk.runOf[i] = to["handler"]
             /\ at["handler"] \in {"ready", "deliver", "send"} => disk.runOf[i] = run
    BY <1>1 DEF DeliveryInv, OfItsRun, Fresh
  <2>2. \A i \in Inputs : on["work"] = i => disk.runOf[i] = run
    BY <1>1 DEF StatusInv
  <2>3. at'["work"] \in {"first", "final"}
    BY <1>2
  <2> HIDE DEF Inv
  <2> QED BY <1>1, <1>2, <2>1, <2>2, <2>3 DEF DeliveryInv, OfItsRun
<1>10. SettleInv'
  BY <1>1, <1>2, LandedSettles
<1> QED BY <1>3, <1>4, <1>5, <1>6, <1>7, <1>8, <1>9, <1>10

(* A delivery whose input was taken by another, or is settled.              *)
LEMMA ResolvedSkips ==
  ASSUME Inv, NEW a, NEW queue, Landed(a, queue), LandedTruly(a), LandedBeside(a),
         at[a] = "deliver",
         disk'.runOf = disk.runOf, \A i \in Inputs : disk'.status[i] = disk.status[i],
         Delivered(a, queue),
         UNCHANGED <<to, then, sent, aborted, stream, active, written>>
  PROVE  Inv'
<1> USE DEF Inv
<1>0. Inv
  OBVIOUS
<1>1. /\ a \in Deliverers /\ a \in Actors
      /\ ~fenced /\ ~fenced' /\ memory' = disk' /\ memory = disk /\ up' = up
      /\ UNCHANGED <<run, slot, killed, consumed>>
  BY DEF Landed, Actors, Deliverers, TypeOK
<1>2. /\ a = "handler" => at' = [at EXCEPT ![a] = "idle"] /\ operations' = queue /\ UNCHANGED <<on, todo>>
      /\ a = "work" =>
           \/ at' = [at EXCEPT ![a] = "done"] /\ operations' = queue /\ on' = on /\ todo' = {}
           \/ /\ at' = [at EXCEPT ![a] = "deliver"] /\ operations' = Append(queue, a)
              /\ \E i \in todo \cap Accepted(memory) : on' = [on EXCEPT ![a] = i] /\ todo' = todo \ 1..i
  BY <1>1 DEF Delivered, NextDelivery, Continues, Commits, Awaits
<1>3. /\ at'[a] \in {"idle", "done", "deliver"} /\ \A b \in Actors \ {a} : at'[b] = at[b]
      /\ at'["reader"] = at["reader"] /\ at'["hook"] = at["hook"]
      /\ a = "handler" => at'["handler"] = "idle" /\ at'["work"] = at["work"] /\ on' = on /\ todo' = todo
      /\ a = "work" => at'["handler"] = at["handler"] /\ at'["work"] \in {"done", "deliver"} /\ on'["handler"] = on["handler"]
  BY <1>1, <1>2 DEF TypeOK, Actors, Deliverers
<1>4. operations' \in Seq(Actors) /\ QueueInv'
  <2>1. \/ operations' = queue
        \/ operations' = Append(queue, a) /\ at'[a] \in Committing
    BY <1>1, <1>2 DEF TypeOK, Actors, Deliverers, Committing
  <2> QED BY <1>3, <2>1, LandedQueue
<1>5. todo' \subseteq Inputs /\ on' \in [Actors -> Inputs \cup {0}]
  BY <1>1, <1>2 DEF TypeOK, Deliverers
<1>6. TypeOK'
  <2>1. /\ at' \in [Actors -> HandlerPlaces \cup WorkPlaces \cup ReaderPlaces \cup HookPlaces]
        /\ at'["handler"] \in HandlerPlaces /\ at'["work"] \in WorkPlaces
        /\ at'["reader"] \in ReaderPlaces /\ at'["hook"] \in HookPlaces
    BY <1>1, <1>2, <1>3 DEF TypeOK, Actors, Deliverers, HandlerPlaces, WorkPlaces
  <2> QED BY <1>4, <1>5, <2>1, LandedTypes DEF TypeOK
<1>7. NamesInv'
  BY <1>1, <1>3, LandedNames DEF Deliverers
<1>8. PhaseInv'
  BY <1>1, <1>3 DEF PhaseInv, TypeOK, accepting, Reading, Deliverers
<1>9. HoldInv' /\ WrittenOnce'
  <2>1. \A b \in Deliverers, i \in Inputs : Holds(b, i)' => Holds(b, i) /\ b # a
    BY <1>1, <1>3 DEF Holds, Deliverers, Actors
  <2>2. \A b \in Deliverers : at'[b] = "detach" => at[b] = "detach"
    BY <1>1, <1>3 DEF Deliverers, Actors
  <2>3. WrittenOnce'
    BY DEF LandedTruly, WrittenOnce
  <2> QED BY <1>1, <2>1, <2>2, <2>3 DEF HoldInv, Fresh, Deliverers
<1>10. StatusInv'
  BY <1>1, <1>3 DEF StatusInv, Deliverers
<1>11. DeliveryInv'
  <2>1. Accepted(disk') = Accepted(disk)
    BY DEF Accepted
  <2>2. CASE a = "handler"
    BY <1>1, <1>3, <2>1, <2>2 DEF DeliveryInv, OfItsRun, Fresh
  <2>3. CASE a = "work"
    <3>1. \A i \in Inputs : on'["work"] = i /\ at'["work"] = "deliver" => i \in todo \cap Accepted(disk)
      BY <1>1, <1>2, <1>3, <2>3 DEF TypeOK, Actors
    <3>2. todo' \subseteq todo
      BY <1>2, <2>3
    <3>3. at["work"] = "deliver"
      BY <2>3
    <3> HIDE DEF Inv
    <3>4. DeliveryInv
      BY DEF Inv
    <3>5. Fresh' => \A j \in todo \cap Accepted(disk) : disk.runOf[j] = run
      BY <1>1, <3>3, <3>4 DEF DeliveryInv, OfItsRun, Fresh
    <3>6. \A j \in todo' \cap Accepted(disk') : j \in todo \cap Accepted(disk)
      BY <2>1, <3>2
    <3> QED BY <1>1, <1>3, <2>1, <2>3, <3>1, <3>4, <3>5, <3>6 DEF DeliveryInv, OfItsRun, Fresh
  <2> QED BY <1>1, <2>2, <2>3 DEF Deliverers
<1>12. SettleInv'
  BY <1>1, <1>3, LandedSettles DEF Deliverers
<1> QED BY <1>4, <1>6, <1>7, <1>8, <1>9, <1>10, <1>11, <1>12

(* A delivery that cannot send stops the run.                               *)
LEMMA ResolvedThrows ==
  ASSUME Inv, NEW a, NEW queue, Landed(a, queue), LandedTruly(a), LandedBeside(a),
         at[a] = "deliver", disk'.runOf = disk.runOf,
         at' = [at EXCEPT ![a] = IF a = "work" THEN "done" ELSE "idle"], operations' = queue,
         aborted' = TRUE, stream' = Cancelled(stream), sent' \subseteq Inputs,
         UNCHANGED <<on, to, todo, then, active, written>>
  PROVE  Inv'
<1> USE DEF Inv
<1>0. Inv
  OBVIOUS
<1>1. /\ a \in Deliverers /\ a \in Actors
      /\ ~fenced /\ ~fenced' /\ memory' = disk' /\ memory = disk /\ up' = up
      /\ UNCHANGED <<run, slot, killed, consumed>>
  BY DEF Landed, Actors, Deliverers, TypeOK
<1>2. /\ at'[a] \in {"idle", "done"} /\ \A b \in Actors \ {a} : at'[b] = at[b]
      /\ at'["reader"] = at["reader"] /\ at'["hook"] = at["hook"]
      /\ a = "handler" => at'["handler"] = "idle" /\ at'["work"] = at["work"]
      /\ a = "work" => at'["handler"] = at["handler"] /\ at'["work"] = "done"
  BY <1>1 DEF TypeOK, Actors, Deliverers
<1>3. operations' \in Seq(Actors) /\ QueueInv'
  BY <1>2, LandedQueue
<1>4. TypeOK'
  <2>1. /\ at' \in [Actors -> HandlerPlaces \cup WorkPlaces \cup ReaderPlaces \cup HookPlaces]
        /\ at'["handler"] \in HandlerPlaces /\ at'["work"] \in WorkPlaces
        /\ at'["reader"] \in ReaderPlaces /\ at'["hook"] \in HookPlaces
    BY <1>1, <1>2 DEF TypeOK, Actors, Deliverers, HandlerPlaces, WorkPlaces
  <2>2. stream' \in {"none", "refused", "starting", "open", "ending", "halting", "stopping", "unstarted", "settled"}
    BY DEF TypeOK, Cancelled
  <2>3. aborted' \in BOOLEAN
    OBVIOUS
  <2> QED BY <1>3, <2>1, <2>2, <2>3, LandedTypes DEF TypeOK
<1>5. NamesInv'
  BY <1>1, <1>2, LandedNames DEF Deliverers
<1>6. PhaseInv'
  BY <1>1, <1>2 DEF PhaseInv, TypeOK, accepting, Reading, Cancelled, Deliverers
<1>7. HoldInv' /\ WrittenOnce'
  <2>1. \A b \in Deliverers : at'[b] \in {"first", "send", "detach"} => at'[b] = at[b] /\ b # a
    BY <1>1, <1>2 DEF Deliverers, Actors
  <2>2. Fresh' => Fresh
    BY DEF Fresh, Cancelled
  <2> QED BY <2>1, <2>2, LandedHolds
<1>8. StatusInv'
  BY <1>1, <1>2 DEF LandedBeside, StatusInv, Deliverers
<1>9. DeliveryInv'
  <2>1. stream # "none" /\ (Fresh' => FALSE)
    BY <1>1 DEF PhaseInv, Fresh, Cancelled, Deliverers
  <2> QED BY <1>1, <1>2, <2>1 DEF DeliveryInv, Deliverers
<1>10. SettleInv'
  BY <1>1, <1>2, LandedSettles DEF Deliverers
<1> QED BY <1>3, <1>4, <1>5, <1>6, <1>7, <1>8, <1>9, <1>10

(* The input that a delivery takes: it was acceptable, so it was not        *)
(* written, and nobody else holds it.                                       *)
LEMMA TakenOnce ==
  ASSUME Inv, NEW a, NEW queue, Landed(a, queue),
         on[a] \in Accepted(disk)
  PROVE  /\ on[a] \in Inputs /\ disk.status[on[a]] = "accepted" /\ written[on[a]] = 0
         /\ \A b \in Deliverers : ~Holds(b, on[a])
<1>1. on[a] \in Inputs /\ disk.status[on[a]] = "accepted"
  BY DEF Accepted
<1>2. written[on[a]] \in Nat /\ written[on[a]] <= 1 /\ written[on[a]] # 1
  BY <1>1 DEF Inv, TypeOK, WrittenOnce
<1>3. \A b \in Deliverers : ~Holds(b, on[a])
  BY <1>1 DEF Inv, HoldInv
<1> QED BY <1>1, <1>2, <1>3

(* A delivery that finds the stream closed takes its input back.            *)
LEMMA ResolvedDetaches ==
  ASSUME Inv, NEW a, NEW queue, Landed(a, queue), LandedTruly(a), LandedBeside(a),
         at[a] = "deliver", disk'.runOf = disk.runOf, on[a] \in Accepted(disk),
         disk'.status[on[a]] = "delivering",
         ~accepting, NewRun(a), at' = [at EXCEPT ![a] = "detach"], operations' = Append(queue, a),
         UNCHANGED <<on, todo, then, active, written, aborted, stream, sent>>
  PROVE  Inv'
<1> USE DEF Inv
<1>0. Inv
  OBVIOUS
<1>1. /\ a \in Deliverers /\ a \in Actors
      /\ ~fenced /\ ~fenced' /\ memory' = disk' /\ memory = disk /\ up' = up
      /\ UNCHANGED <<run, slot, killed, consumed>>
  BY DEF Landed, Actors, Deliverers, TypeOK
<1>2. /\ at'[a] = "detach" /\ \A b \in Actors \ {a} : at'[b] = at[b]
      /\ at'["reader"] = at["reader"] /\ at'["hook"] = at["hook"]
      /\ a = "handler" => at'["handler"] = "detach" /\ at'["work"] = at["work"]
      /\ a = "work" => at'["handler"] = at["handler"] /\ at'["work"] = "detach"
  BY <1>1 DEF TypeOK, Actors, Deliverers
<1>3. operations' \in Seq(Actors) /\ QueueInv'
  BY <1>2, LandedQueue DEF Committing
<1>4. to' \in [Actors -> RunIds] /\ (a = "work" => to'["handler"] = to["handler"])
  <2>1. PICK r \in Runs : to' = [to EXCEPT ![a] = r]
    BY <1>1, NewRunIsNew
  <2> QED BY <1>1, <2>1 DEF TypeOK, RunIds, Actors
<1>5. TypeOK'
  <2>1. /\ at' \in [Actors -> HandlerPlaces \cup WorkPlaces \cup ReaderPlaces \cup HookPlaces]
        /\ at'["handler"] \in HandlerPlaces /\ at'["work"] \in WorkPlaces
        /\ at'["reader"] \in ReaderPlaces /\ at'["hook"] \in HookPlaces
    BY <1>1, <1>2 DEF TypeOK, Actors, Deliverers, HandlerPlaces, WorkPlaces
  <2> QED BY <1>3, <1>4, <2>1, LandedTypes DEF TypeOK
<1>6. NamesInv'
  BY <1>1, <1>2, LandedNames DEF Deliverers
<1>7. PhaseInv'
  BY <1>1, <1>2 DEF PhaseInv, TypeOK, accepting, Reading, Deliverers
<1>8. ~Fresh /\ ~Fresh'
  BY <1>1 DEF PhaseInv, Fresh, accepting, Deliverers
<1>9. HoldInv' /\ WrittenOnce'
  <2>1. /\ on[a] \in Inputs /\ written[on[a]] = 0
        /\ \A b \in Deliverers : ~Holds(b, on[a])
    BY TakenOnce
  <2>2. \A b \in Deliverers \ {a}, i \in Inputs : Holds(b, i)' => Holds(b, i)
    BY <1>2 DEF Holds, Deliverers, Actors
  <2>3. \A i \in Inputs : Holds(a, i)' => i = on[a]
    BY DEF Holds
  <2>4. ASSUME NEW b \in Deliverers, NEW i \in Inputs, Holds(b, i)'
        PROVE  written'[i] = 0 /\ disk'.status[i] \notin {"none", "accepted"}
    <3>1. CASE b = a
      BY <2>1, <2>3, <2>4, <3>1
    <3>2. CASE b # a
      BY <2>2, <2>4, <3>2 DEF HoldInv, LandedTruly
    <3> QED BY <3>1, <3>2
  <2>5. \A i \in Inputs : ~(Holds("handler", i) /\ Holds("work", i))'
    BY <1>1, <2>1, <2>2, <2>3 DEF Deliverers
  <2>6. WrittenOnce'
    BY DEF LandedTruly, WrittenOnce
  <2> QED BY <1>8, <2>4, <2>5, <2>6 DEF HoldInv
<1>10. StatusInv'
  BY <1>1, <1>2 DEF LandedBeside, StatusInv, Deliverers
<1>11. DeliveryInv'
  BY <1>1, <1>2, <1>4, <1>8 DEF DeliveryInv, Deliverers
<1>12. SettleInv'
  BY <1>1, <1>2, LandedSettles DEF Deliverers
<1> QED BY <1>3, <1>5, <1>6, <1>7, <1>9, <1>10, <1>11, <1>12

(* A delivery that writes its input, or waits for the stream to open.       *)
LEMMA ResolvedSends ==
  ASSUME Inv, NEW a, NEW queue, Landed(a, queue), LandedTruly(a), LandedBeside(a),
         at[a] = "deliver", disk'.runOf = disk.runOf, on[a] \in Accepted(disk),
         disk'.status[on[a]] = "delivering",
         accepting, sent' = sent \cup {on[a]},
         at' = [at EXCEPT ![a] = IF stream = "open" THEN "write" ELSE "send"], operations' = queue,
         Written(IF stream = "open" THEN {a} ELSE {}),
         UNCHANGED <<on, to, todo, then, active, aborted, stream>>
  PROVE  Inv'
<1> USE DEF Inv
<1>0. Inv
  OBVIOUS
<1>1. /\ a \in Deliverers /\ a \in Actors
      /\ ~fenced /\ ~fenced' /\ memory' = disk' /\ memory = disk /\ up' = up
      /\ UNCHANGED <<run, slot, killed, consumed>>
      /\ active
  BY DEF Landed, Actors, Deliverers, TypeOK, PhaseInv
<1>2. /\ at'[a] = (IF stream = "open" THEN "write" ELSE "send") /\ \A b \in Actors \ {a} : at'[b] = at[b]
      /\ at'["reader"] = at["reader"] /\ at'["hook"] = at["hook"]
      /\ a = "handler" => at'["handler"] \in {"write", "send"} /\ at'["work"] = at["work"]
      /\ a = "work" => at'["handler"] = at["handler"] /\ at'["work"] \in {"write", "send"}
  BY <1>1 DEF TypeOK, Actors, Deliverers
<1>3. operations' \in Seq(Actors) /\ QueueInv'
  BY <1>2, LandedQueue
<1>4. /\ on[a] \in Inputs /\ written[on[a]] = 0
      /\ \A b \in Deliverers : ~Holds(b, on[a])
  BY TakenOnce
<1>5. /\ written' \in [Inputs -> Nat]
      /\ \A i \in Inputs \ {on[a]} : written'[i] = written[i]
      /\ written'[on[a]] = IF stream = "open" THEN 1 ELSE 0
  <2> DEFINE as == IF stream = "open" THEN {a} ELSE {}
  <2>1. as \subseteq Actors /\ Written(as)
    BY <1>1
  <2> HIDE DEF as
  <2>2. /\ written' \in [Inputs -> Nat]
        /\ \A i \in Inputs :
             /\ (\A b \in as : on[b] # i) => written'[i] = written[i]
             /\ \A b \in as : on[b] = i /\ (\A c \in as : on[c] = i => c = b) => written'[i] = written[i] + 1
    BY <2>1, WrittenCounts
  <2>3. CASE stream = "open"
    <3>1. as = {a}
      BY <2>3 DEF as
    <3>2. written'[on[a]] = written[on[a]] + 1
      BY <1>4, <2>2, <3>1
    <3> QED BY <1>4, <2>2, <2>3, <3>1, <3>2
  <2>4. CASE stream # "open"
    <3>1. as = {}
      BY <2>4 DEF as
    <3> QED BY <1>4, <2>2, <2>4, <3>1
  <2> QED BY <2>3, <2>4
<1>6. TypeOK'
  <2>1. /\ at' \in [Actors -> HandlerPlaces \cup WorkPlaces \cup ReaderPlaces \cup HookPlaces]
        /\ at'["handler"] \in HandlerPlaces /\ at'["work"] \in WorkPlaces
        /\ at'["reader"] \in ReaderPlaces /\ at'["hook"] \in HookPlaces
    BY <1>1, <1>2 DEF TypeOK, Actors, Deliverers, HandlerPlaces, WorkPlaces
  <2>2. sent' \subseteq Inputs
    BY <1>4 DEF TypeOK
  <2> QED BY <1>3, <1>5, <2>1, <2>2, LandedTypes DEF TypeOK
<1>7. NamesInv'
  BY <1>1, <1>2, LandedNames DEF Deliverers
<1>8. PhaseInv'
  BY <1>1, <1>2 DEF PhaseInv, TypeOK, accepting, Reading, Deliverers
<1>9. HoldInv' /\ WrittenOnce'
  <2>1. \A b \in Deliverers \ {a}, i \in Inputs : Holds(b, i)' => Holds(b, i) /\ i # on[a]
    BY <1>2, <1>4 DEF Holds, Deliverers, Actors
  <2>2. \A i \in Inputs : Holds(a, i)' => i = on[a] /\ stream # "open"
    BY <1>2 DEF Holds
  <2>3. ASSUME NEW b \in Deliverers, NEW i \in Inputs, Holds(b, i)'
        PROVE  written'[i] = 0 /\ disk'.status[i] \notin {"none", "accepted"}
    <3>1. CASE b = a
      BY <1>5, <2>2, <2>3, <3>1
    <3>2. CASE b # a
      <4>1. Holds(b, i) /\ i # on[a] /\ b \in Deliverers \ {a}
        BY <2>1, <2>3, <3>2
      <4>2. written[i] = 0
        BY <4>1 DEF HoldInv
      <4> QED BY <1>5, <4>1, <4>2 DEF LandedTruly
    <3> QED BY <3>1, <3>2
  <2>4. \A i \in Inputs : ~(Holds("handler", i) /\ Holds("work", i))'
    BY <1>1, <2>1, <2>2 DEF Deliverers
  <2>5. \A b \in Deliverers : at'[b] # "detach"
    <3>1. Fresh
      BY DEF Fresh, accepting
    <3>2. \A b \in Deliverers : at[b] # "detach"
      BY <3>1 DEF HoldInv
    <3> QED BY <1>1, <1>2, <3>2 DEF Deliverers, Actors
  <2>6. WrittenOnce'
    <3> SUFFICES ASSUME NEW i \in Inputs
                 PROVE  written'[i] <= 1 /\ (written'[i] = 1 => disk'.status[i] \notin {"none", "accepted"})
      BY DEF WrittenOnce
    <3>1. CASE i = on[a]
      BY <1>5, <3>1
    <3>2. CASE i # on[a]
      BY <1>5, <3>2 DEF LandedTruly, WrittenOnce
    <3> QED BY <3>1, <3>2
  <2> QED BY <2>3, <2>4, <2>5, <2>6 DEF HoldInv
<1>10. StatusInv'
  BY <1>1, <1>2 DEF LandedBeside, StatusInv, Deliverers
<1>11. Fresh /\ disk.runOf[on[a]] = run
  BY <1>1, <1>4 DEF DeliveryInv, OfItsRun, Fresh, accepting, Deliverers
<1>12. DeliveryInv'
  <2>1. \A j \in Inputs : disk'.status[j] = "accepted" /\ disk.status[j] # "accepted" /\ at["work"] # "idle" => disk'.runOf[j] = run
    BY <1>11 DEF LandedBeside
  <2>2. at'["work"] \in {"deliver", "send", "write", "flush"} => \A j \in todo \cap Accepted(disk') : disk'.runOf[j] = run
    BY <1>1, <1>2, <1>11, <2>1 DEF DeliveryInv, OfItsRun, Accepted, Deliverers
  <2>3. DeliveryInv
    OBVIOUS
  <2> HIDE DEF Inv
  <2> QED BY <1>1, <1>2, <1>11, <2>2, <2>3 DEF DeliveryInv, OfItsRun, Deliverers
<1>13. SettleInv'
  <2> SUFFICES ASSUME up', ~fenced', NEW i \in Inputs, pending(disk', i), written'[i] = 1
               PROVE  active /\ disk'.runOf[i] = run /\ at'["work"] \notin {"idle", "lastFlush"}
    BY <1>1 DEF SettleInv, Pending
  <2>1. at["work"] \notin {"idle", "lastFlush"} => at'["work"] \notin {"idle", "lastFlush"}
    BY <1>1, <1>2 DEF Deliverers
  <2>2. CASE i = on[a]
    <3>1. at["work"] \notin {"idle", "lastFlush"}
      BY DEF PhaseInv, accepting
    <3> QED BY <1>1, <1>11, <2>1, <2>2, <3>1
  <2>3. CASE i # on[a]
    BY <1>5, <2>1, <2>3 DEF LandedTruly
  <2> QED BY <2>2, <2>3
<1> QED BY <1>3, <1>6, <1>7, <1>8, <1>9, <1>10, <1>12, <1>13

(* A commit succeeds, and its actor goes on.                                *)
LEMMA PersistKeeps ==
  ASSUME Inv, Persist
  PROVE  Inv'
<1>1. PICK a \in Actors, queue \in Seq(Actors) :
           /\ Landed(a, queue) /\ LandedTruly(a) /\ LandedBeside(a) /\ Resolved(a, queue)
           /\ at[a] \in {"admit", "detach"} => \A i \in Inputs : disk'.runOf[i] = IF i = on[a] THEN to[a] ELSE disk.runOf[i]
           /\ at[a] = "deliver" =>
                \A i \in Inputs : disk'.status[i] = IF i = on[a] /\ disk.status[i] = "accepted" THEN "delivering" ELSE disk.status[i]
           /\ at[a] = "begin" =>
                \A i \in Inputs : disk'.status[i] = IF i = on[a] THEN "delivering" ELSE disk.status[i]
           /\ at[a] \notin {"initialize", "admit", "detach"} => disk'.runOf = disk.runOf
  BY PersistLands
<1>2. memory = disk /\ (at[a] = "deliver" => a \in Deliverers)
  BY <1>1 DEF Landed
<1>3. CASE at[a] \in {"initialize", "admit", "reset", "detach", "echo", "result", "error"}
  <2>1. /\ at' = [at EXCEPT ![a] = "flush"] /\ operations' = queue
        /\ then' = IF at[a] = "detach" /\ a = "handler" THEN "none" ELSE then
        /\ UNCHANGED <<on, to, todo, aborted, stream, sent, active, written>>
    BY <1>1, <1>3 DEF Resolved, Continues, Awaits, SameInput, SameStream, Uninterrupted
  <2> QED BY <1>1, <1>3, <2>1, ResolvedFlushes
<1>4. CASE at[a] \in {"cancel", "hook"}
  <2>1. /\ at' = [at EXCEPT ![a] = IF a = "handler" THEN "flush" ELSE "idle"] /\ operations' = queue
        /\ StopsRun(a)
        /\ UNCHANGED <<on, to, todo, then, sent, active, written>>
    BY <1>1, <1>4 DEF Resolved, Continues, Awaits, SameInput
  <2>2. stream' \in {stream, Cancelled(stream)} /\ aborted' \in BOOLEAN
    BY <2>1 DEF StopsRun, Interrupt, Uninterrupted, Inv, TypeOK
  <2> QED BY <1>1, <1>4, <2>1, <2>2, ResolvedCancels
<1>5. CASE at[a] = "final"
  <2>1. /\ at' = [at EXCEPT ![a] = IF killed THEN "idle" ELSE "lastFlush"] /\ operations' = queue
        /\ active' = (active /\ ~killed)
        /\ UNCHANGED <<on, to, todo, then, sent, aborted, stream, written>>
    BY <1>1, <1>5 DEF Resolved, Continues, Awaits, SameInput, SameStream, Uninterrupted
  <2> QED BY <1>1, <1>5, <2>1, ResolvedEnds
<1>6. CASE at[a] = "begin"
  <2>1. /\ \/ stream' = "refused" /\ RunIsReady("final", Append(queue, a)) /\ UNCHANGED sent
           \/ stream' = "starting" /\ RunIsReady("first", queue) /\ sent' = {on[a]}
        /\ UNCHANGED <<on, to, todo, then, aborted, active, written>>
    BY <1>1, <1>6 DEF Resolved, SameInput
  <2> QED BY <1>1, <1>6, <2>1, ResolvedBegins
<1>7. CASE at[a] = "deliver" /\ on[a] \notin Accepted(disk)
  <2>1. /\ Delivered(a, queue)
        /\ UNCHANGED <<to, then, sent, aborted, stream, active, written>>
    BY <1>1, <1>2, <1>7 DEF Resolved, SameStream, Uninterrupted
  <2>2. \A i \in Inputs : disk'.status[i] = disk.status[i]
    BY <1>1, <1>7 DEF Accepted
  <2>3. disk'.runOf = disk.runOf
    BY <1>1, <1>7
  <2> QED BY <1>1, <1>7, <2>1, <2>2, <2>3, ResolvedSkips
<1>8. CASE at[a] = "deliver" /\ on[a] \in Accepted(disk)
  <2>1. BeginSend(a, queue) /\ UNCHANGED <<on, todo, then, active>>
    BY <1>1, <1>2, <1>8 DEF Resolved
  <2>2. disk'.runOf = disk.runOf /\ on[a] \in Inputs /\ disk'.status[on[a]] = "delivering"
    BY <1>1, <1>8 DEF Accepted
  <2>3. SendThrows(a, queue) =>
          /\ at' = [at EXCEPT ![a] = IF a = "work" THEN "done" ELSE "idle"] /\ operations' = queue
          /\ aborted' = TRUE /\ stream' = Cancelled(stream) /\ to' = to
    BY <1>8 DEF SendThrows, Throws, Continues, Awaits, Interrupt
  <2>4. CASE ~accepting /\ aborted
    <3>1. SendThrows(a, queue) /\ UNCHANGED <<sent, written>>
      BY <2>1, <2>4 DEF BeginSend, Closed
    <3>2. sent' \subseteq Inputs
      BY <3>1 DEF Inv, TypeOK
    <3> QED BY <1>1, <1>8, <2>1, <2>2, <2>3, <3>1, <3>2, ResolvedThrows
  <2>5. CASE ~accepting /\ ~aborted
    <3>1. /\ NewRun(a) /\ at' = [at EXCEPT ![a] = "detach"] /\ operations' = Append(queue, a)
          /\ UNCHANGED <<aborted, stream, sent, written>>
      BY <2>1, <2>5 DEF BeginSend, Closed, Commits, Awaits, Uninterrupted
    <3> QED BY <1>1, <1>8, <2>1, <2>2, <2>5, <3>1, ResolvedDetaches
  <2>6. CASE accepting /\ stream = "open" /\ killed
    <3>1. sent' = sent \cup {on[a]} /\ SendThrows(a, queue) /\ UNCHANGED written
      BY <2>1, <2>6 DEF BeginSend
    <3>2. sent' \subseteq Inputs
      BY <2>2, <3>1 DEF Inv, TypeOK
    <3> QED BY <1>1, <1>8, <2>1, <2>2, <2>3, <3>1, <3>2, ResolvedThrows
  <2>7. CASE accepting /\ ~(stream = "open" /\ killed)
    <3>1. /\ sent' = sent \cup {on[a]}
          /\ at' = [at EXCEPT ![a] = IF stream = "open" THEN "write" ELSE "send"] /\ operations' = queue
          /\ Written(IF stream = "open" THEN {a} ELSE {})
          /\ UNCHANGED <<to, aborted, stream>>
      BY <2>1, <2>7 DEF BeginSend, Continues, Awaits, Uninterrupted
    <3> QED BY <1>1, <1>8, <2>1, <2>2, <2>7, <3>1, ResolvedSends
  <2> QED BY <2>4, <2>5, <2>6, <2>7
<1> QED BY <1>1, <1>3, <1>4, <1>5, <1>6, <1>7, <1>8 DEF Landed, Committing

(* A commit that fails keeps the invariant: the store is fenced from then   *)
(* on.                                                                      *)
LEMMA PersistFailsKeeps ==
  ASSUME Inv, PersistFails
  PROVE  Inv'
<1>1. failures' \in 0..MaxFailures
  BY RuntimeAssumption DEF PersistFails, Inv, TypeOK
<1>2. /\ operations # <<>> /\ Rejected(Head(operations), Tail(operations)) /\ fenced' = TRUE
      /\ disk' = disk \/ (~fenced /\ disk' = Mutated(Head(operations)))
      /\ UNCHANGED <<memory, up, run, slot, killed, consumed, cancels>>
  BY DEF PersistFails
<1> QED BY <1>1, <1>2, RejectedKeeps

(* So does one that a fenced store refuses.                                 *)
LEMMA RejectFencedKeeps ==
  ASSUME Inv, RejectFenced
  PROVE  Inv'
<1>1. failures' \in 0..MaxFailures
  BY DEF RejectFenced, Inv, TypeOK
<1>2. fenced' = TRUE
  BY DEF RejectFenced, storeVars, Inv, TypeOK
<1>3. /\ operations # <<>> /\ Rejected(Head(operations), Tail(operations))
      /\ disk' = disk
      /\ UNCHANGED <<memory, up, run, slot, killed, consumed, cancels>>
  BY DEF RejectFenced, storeVars
<1> QED BY <1>1, <1>2, <1>3, RejectedKeeps

(* A step that changes nothing keeps it.                                    *)
LEMMA StutterKeeps ==
  ASSUME Inv, UNCHANGED vars
  PROVE  Inv'
<1> USE DEF Inv, vars, storeVars, actorVars, runVars, streamVars, counters
<1>1. TypeOK' /\ NamesInv' /\ QueueInv'
  BY DEF TypeOK, NamesInv, QueueInv, Queued
<1>2. PhaseInv' /\ HoldInv' /\ WrittenOnce'
  BY DEF PhaseInv, accepting, Reading, HoldInv, Holds, Fresh, WrittenOnce
<1>3. StatusInv' /\ DeliveryInv' /\ SettleInv'
  BY DEF StatusInv, DeliveryInv, OfItsRun, Fresh, Accepted, SettleInv, Pending, pending
<1> QED BY <1>1, <1>2, <1>3

(* It holds when the Session's file is empty.                               *)
LEMMA InitInv == Init => Inv
<1> SUFFICES ASSUME Init PROVE Inv
  OBVIOUS
<1> USE DEF Init
<1>1. TypeOK
  <2>1. disk \in States /\ memory \in States
    BY DEF States, Statuses, RunIds
  <2>2. /\ at["handler"] = "idle" /\ at["work"] = "idle" /\ at["reader"] = "idle" /\ at["hook"] = "idle"
    BY DEF Actors
  <2>3. operations \in Seq(Actors) /\ cancels \in 0..MaxCancels /\ failures \in 0..MaxFailures
    BY RuntimeAssumption
  <2>4. written \in [Inputs -> Nat]
    OBVIOUS
  <2>5. /\ up \in BOOLEAN /\ fenced \in BOOLEAN
        /\ active \in BOOLEAN /\ slot \in BOOLEAN /\ aborted \in BOOLEAN /\ killed \in BOOLEAN
    OBVIOUS
  <2>6. /\ at \in [Actors -> HandlerPlaces \cup WorkPlaces \cup ReaderPlaces \cup HookPlaces]
        /\ on \in [Actors -> Inputs \cup {0}] /\ to \in [Actors -> RunIds] /\ run \in RunIds
    BY DEF HandlerPlaces, RunIds
  <2>7. /\ then \in {"none", "start", "retry", "deliver"} /\ todo \subseteq Inputs
        /\ stream \in {"none", "refused", "starting", "open", "ending", "halting", "stopping", "unstarted", "settled"}
        /\ sent \subseteq Inputs /\ consumed \subseteq Inputs
    OBVIOUS
  <2> QED BY <2>1, <2>2, <2>3, <2>4, <2>5, <2>6, <2>7 DEF TypeOK, HandlerPlaces, WorkPlaces, ReaderPlaces, HookPlaces
<1>2. NamesInv
  BY FS_EmptySet DEF NamesInv, Actors
<1>3. QueueInv
  BY DEF QueueInv, Queued
<1>4. PhaseInv
  BY DEF PhaseInv, accepting, Actors
<1>5. HoldInv /\ WrittenOnce
  BY DEF HoldInv, Holds, WrittenOnce, Deliverers, Actors
<1>6. StatusInv /\ DeliveryInv /\ SettleInv
  BY DEF StatusInv, DeliveryInv, SettleInv, Pending, pending, Actors
<1> QED BY <1>1, <1>2, <1>3, <1>4, <1>5, <1>6 DEF Inv

(* Every step of the runtime keeps it.                                      *)
LEMMA NextKeeps == Inv /\ [Next]_vars => Inv'
<1> SUFFICES ASSUME Inv, [Next]_vars PROVE Inv'
  OBVIOUS
<1>1. CASE Handler
  BY <1>1, InitializeKeeps, RecoverKeeps, RetryCancelKeeps, ResetKeeps, HandlerContinuesKeeps,
     InputKeeps, RetryInputKeeps, CancelKeeps DEF Handler
<1>2. CASE Delivery
  BY <1>2, WriteEndsKeeps, SendFailsKeeps DEF Delivery, Deliverers
<1>3. CASE Stream
  BY <1>3, StreamOpensKeeps, ReaderContinuesKeeps, StreamEndsKeeps, EchoKeeps, ResultKeeps DEF Stream
<1>4. CASE Work
  BY <1>4, WorkContinuesKeeps, StreamIsDoneKeeps, RunEndsKeeps, SlotIsReleasedKeeps, ActivityAbortsKeeps DEF Work
<1>5. CASE Store
  BY <1>5, PersistKeeps, PersistFailsKeeps, RejectFencedKeeps, CrashKeeps DEF Store
<1>6. CASE \E a \in Actors \ {"hook"} : FlushFails(a)
  <2>1. Actors \ {"hook"} = {"handler", "work", "reader"}
    BY DEF Actors
  <2> QED BY <1>6, <2>1, FlushFailsKeeps
<1>7. CASE UNCHANGED vars
  BY <1>7, StutterKeeps
<1> QED BY <1>1, <1>2, <1>3, <1>4, <1>5, <1>6, <1>7 DEF Next

(* The invariant holds throughout (ClaudeRuntime's inputs, runs, commits    *)
(* and deliveries), for any number of inputs, cancels and failures.         *)
THEOREM RuntimeInvariant == Spec => []Inv
BY InitInv, NextKeeps, PTL DEF Spec

(* It implies what the runs check.                                          *)
LEMMA InvWritesTruly == Inv => InputsAreWrittenTruly
<1> SUFFICES ASSUME Inv PROVE InputsAreWrittenTruly
  OBVIOUS
<1>1. WrittenInputsAreSettled
  BY DEF Inv, SettleInv, WrittenInputsAreSettled
<1> QED BY <1>1 DEF Inv, InputsAreWrittenTruly

(* Claude is given an input at most once, and never one that its file       *)
(* still shows as accepted: no retry, no race of two deliveries, no failed  *)
(* commit and no crash repeats what may have run.  While an input that      *)
(* Claude was given is open, its run is active and the work that settles    *)
(* it has not ended.                                                        *)
THEOREM InputsWrittenTruly == Spec => []InputsAreWrittenTruly
BY RuntimeInvariant, InvWritesTruly, PTL

(* There is always a name for a new run: randomUUID, which the model draws  *)
(* from Runs, never reuses one that the state refers to.                    *)
THEOREM RunsHaveNames == Spec => [](Runs \ InUse # {})
<1>1. Inv => Runs \ InUse # {}
  BY RunsSuffice DEF Inv
<1> QED BY <1>1, RuntimeInvariant, PTL

=============================================================================
