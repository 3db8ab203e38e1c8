---------------------------- MODULE OutputHandoff ----------------------------
(***************************************************************************)
(* What the output buffer of a Session promises (the comments on           *)
(* CursorBuffer in src/cursor-buffer.ts and on SessionOutputBuffer.publish *)
(* in src/output.ts): events are handed to the platform in the order of    *)
(* their cursors, without a gap, and an event is confirmed to its producer *)
(* only once the platform has it.                                          *)
(***************************************************************************)
EXTENDS Naturals

VARIABLES published,  \* how many events were published
          stored,     \* the cursors the platform has
          confirmed   \* the events up to this one are confirmed

handoffVars == <<published, stored, confirmed>>

HandoffInit == published = 0 /\ stored = {} /\ confirmed = 0

PublishEvent == published' = published + 1 /\ UNCHANGED <<stored, confirmed>>

StoreEvents ==
  \E last \in 1..published :
    /\ stored' = 1..last
    /\ stored \subseteq stored'
    /\ UNCHANGED <<published, confirmed>>

ConfirmEvents ==
  \E last \in stored :
    /\ last > confirmed
    /\ confirmed' = last
    /\ UNCHANGED <<published, stored>>

HandoffNext == PublishEvent \/ StoreEvents \/ ConfirmEvents

HandoffSpec == HandoffInit /\ [][HandoffNext]_handoffVars

=============================================================================
