------------------------------ MODULE MCActivity ------------------------------
(* The activity slot with two submissions, of a message each.               *)
EXTENDS Activity

CONSTANTS a1, a2, m1, m2

MCOwner == [a \in Activities |-> IF a = a1 THEN m1 ELSE m2]

=============================================================================
