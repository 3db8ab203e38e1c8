---------------------------- MODULE PublicationLog ----------------------------
(***************************************************************************)
(* What the durable state of a Claude session promises (the comments on    *)
(* DurableClaudeStore and flush in src/harnesses): every revision has one  *)
(* content for ever, revisions reach the platform in order, and one is     *)
(* retired from the outbox only when the platform has it.                  *)
(***************************************************************************)
EXTENDS Naturals, Sequences

CONSTANT Views

VARIABLES log,        \* log[r]: the view committed as revision r
          published,  \* what the platform received: revisions and views
          retired     \* the revisions that have left the outbox

logVars == <<log, published, retired>>

Received(r) == [revision |-> r, view |-> log[r]] \in published

LogInit == log = <<>> /\ published = {} /\ retired = {}

CommitRevision == \E view \in Views : log' = Append(log, view) /\ UNCHANGED <<published, retired>>

(* In order: what precedes a revision was received before it, though        *)
(* perhaps already by an earlier attempt.                                   *)
PublishRevision ==
  \E r \in 1..Len(log) :
    /\ \A q \in 1..r - 1 : Received(q)
    /\ published' = published \cup {[revision |-> r, view |-> log[r]]}
    /\ UNCHANGED <<log, retired>>

RetireRevisions ==
  \E r \in 1..Len(log) :
    /\ \A q \in 1..r : Received(q)
    /\ retired \subseteq 1..r
    /\ retired' = 1..r
    /\ UNCHANGED <<log, published>>

LogNext == CommitRevision \/ PublishRevision \/ RetireRevisions

LogSpec == LogInit /\ [][LogNext]_logVars

=============================================================================
