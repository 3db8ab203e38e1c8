--------------------------- MODULE MCSessionIntake ---------------------------
(* The intake on a few messages, model values that TLC may permute within   *)
(* their kind.                                                              *)
EXTENDS SessionIntake, TLC

MCMessages == Dispatches \cup Cancels \cup Auths
MCIds == MCMessages \cup Recoveries
Symmetry == Permutations(Dispatches)

=============================================================================
