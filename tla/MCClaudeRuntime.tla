--------------------------- MODULE MCClaudeRuntime ---------------------------
(* ClaudeRuntime with the bounds its configurations give.                   *)
EXTENDS ClaudeRuntime

=============================================================================
