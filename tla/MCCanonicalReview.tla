-------------------------- MODULE MCCanonicalReview --------------------------
(* A High and a Low finding, both on lines of the diff: runs block, hold back  *)
(* approvals, and approve with comments.  MCSlashDismiss has one in the body.  *)
EXTENDS CanonicalReview

CONSTANTS high, low

MCFindings == {high, low}
MCSevere   == {high}
MCInline   == {high, low}

\* Both are High: each of them alone blocks, and the second one is new to a run.
MCSevereAll == MCFindings
=============================================================================
