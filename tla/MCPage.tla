------------------------------- MODULE MCPage -------------------------------
(* The page and the server for TLC: two matches and one broken stream, or one  *)
(* match and one lost frame; and an invite whose stream breaks once.           *)
EXTENDS Page

Budgets == {[matches |-> 2, breaks |-> 1, losses |-> 0], [matches |-> 1, breaks |-> 0, losses |-> 1]}
OneBreak == {[matches |-> 0, breaks |-> 1, losses |-> 0]}
=============================================================================
