--------------------------- MODULE MCSlashDismiss ---------------------------
(* A High finding that is only listed in the body, and a Low one on a line of *)
(* the diff: commands meet both kinds, and runs approve with comments.        *)
EXTENDS SlashDismiss

CONSTANTS high, low, c1

MCFindings == {high, low}
MCSevere   == {high}
MCInline   == {low}
MCCommands == {c1}
MCWords    == {"dismiss", "fixed", "feedback", "full", ""}
=============================================================================
