-------------------------- MODULE RuntimeQuiescence --------------------------
(***************************************************************************)
(* RuntimeQuiescence (src/runtime-quiescence.ts): the generation of        *)
(* observed messages and the long polls that wait until the runtime has no *)
(* managed work left.  What idle means belongs to the runtime, so Changed  *)
(* and Await take it as a parameter.                                       *)
(***************************************************************************)
EXTENDS Naturals, FiniteSets

CONSTANTS Observable,     \* message identities whose arrival is observed
          Waiters,        \* calls of waitForQuiescence
          MaxGeneration   \* bound on the minimum generation a client asks for

VARIABLES
  generation,          \* currentGeneration
  messageGenerations,  \* messageGenerations[m], 0 when m was not observed
  wait,                \* wait[w]: "none" before the call, then its promise
  minimum              \* minimum[w]: the generation w asked for

quiescenceVars == <<generation, messageGenerations, wait, minimum>>

QuiescenceInit ==
  /\ generation = 0
  /\ messageGenerations = [m \in Observable |-> 0]
  /\ wait = [w \in Waiters |-> "none"]
  /\ minimum = [w \in Waiters |-> 0]

(* observeMessage: a new identity moves the generation, a known one keeps   *)
(* the generation it has.                                                   *)
ObserveMessage(m) ==
  IF messageGenerations[m] # 0
  THEN UNCHANGED <<generation, messageGenerations>>
  ELSE /\ generation' = generation + 1
       /\ messageGenerations' = [messageGenerations EXCEPT ![m] = generation + 1]

Covered(w, observed) == minimum[w] <= observed

(* changed(), after a step that may have changed idle: an idle runtime      *)
(* answers every waiter whose generation has been observed.                 *)
Changed(idleAfter) ==
  /\ IF idleAfter
     THEN wait' = [w \in Waiters |->
            IF wait[w] = "waiting" /\ Covered(w, generation') THEN "answered" ELSE wait[w]]
     ELSE UNCHANGED wait
  /\ UNCHANGED minimum

(* waitForQuiescence(minimum).                                              *)
Await(w, least, idleNow) ==
  /\ wait[w] = "none"
  /\ minimum' = [minimum EXCEPT ![w] = least]
  /\ wait' = [wait EXCEPT ![w] = IF least <= generation /\ idleNow THEN "answered" ELSE "waiting"]
  /\ UNCHANGED <<generation, messageGenerations>>

(* The waiter's signal aborts: its long poll ended or its client left.      *)
AbandonWait(w) ==
  /\ wait[w] = "waiting"
  /\ wait' = [wait EXCEPT ![w] = "left"]
  /\ UNCHANGED <<generation, messageGenerations, minimum>>

-----------------------------------------------------------------------------
(* The types of the tracker's fields.                                       *)
QuiescenceTypeOK ==
  /\ generation \in Nat
  /\ messageGenerations \in [Observable -> Nat]
  /\ wait \in [Waiters -> {"none", "waiting", "answered", "left"}]
  /\ minimum \in [Waiters -> Nat]

=============================================================================
