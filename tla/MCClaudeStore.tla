----------------------------- MODULE MCClaudeStore -----------------------------
(* The store with a few transactions, failed writes and losses.             *)
EXTENDS ClaudeStore, TLC

=============================================================================
