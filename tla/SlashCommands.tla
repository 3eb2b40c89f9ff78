---------------------------- MODULE SlashCommands ----------------------------
(***************************************************************************)
(* The grammar of the comment commands and the way from a comment on a     *)
(* pull request to the handlers of the verdicts: slash/parser.py, the two  *)
(* listings of slash/handlers.py and the options of cli.py.                *)
(*                                                                         *)
(* A comment is the sequence of its lines.  A line has its first word      *)
(* after /ai-pr-review, in lower case, and the finding that the F<n> after *)
(* it names: the set of it, empty without one.  Reasons are left out.      *)
(***************************************************************************)
EXTENDS Sequences, SequencesExt

CONSTANTS Words,           \* the first words that people write
          ApprovalCeiling  \* AI_APPROVAL_CEILING

ASSUME WordsAssumption == Words \subseteq STRING

Verdicts         == {"dismiss", "false-positive", "wont-fix", "fixed"}
KnownCommands    == Verdicts \cup {"explain", "revise", "feedback"}
WorkflowCommands == {"rescan", "review-full", "skip", "help"}

\* WORKFLOW_COMMAND_ALIASES
Unaliased(word) == IF word = "full" THEN "review-full" ELSE word

CanonicalName(word) == IF word = "dismiss" THEN "false-positive" ELSE word

NotACommand == [kind |-> "none", word |-> "", finding |-> {}]

\* parse_command() on one line.  Feedback is free text and names no finding.
ParseLine(line) ==
    IF ~line.prefixed \/ line.word = "" THEN NotACommand
    ELSE [kind    |-> IF line.word \in KnownCommands THEN "command" ELSE "error",
          word    |-> line.word,
          finding |-> IF line.word \in KnownCommands \ {"feedback"}
                        THEN line.finding ELSE {}]

\* parse_command() on a comment looks at its first line only.
ParseCommand(comment) == IF comment = <<>> THEN NotACommand ELSE ParseLine(comment[1])

\* parse_commands(): what is not a command at all is dropped, errors are kept.
ParseCommands(comment) ==
    SelectSeq([i \in DOMAIN comment |-> ParseLine(comment[i])],
              LAMBDA parsed : parsed.kind # "none")

\* list_matching_commands(): no line stands in the way of another.
ListMatchingCommands(comment, families) ==
    SelectSeq(ParseCommands(comment),
              LAMBDA parsed : /\ parsed.kind = "command"
                              /\ CanonicalName(parsed.word) \in families)

\* parse_command_gate_lines(): the command that a job compares with the names it
\* handles, and whether the first job may act on it.
Gate(comment) ==
    LET parsed == ParseCommand(comment)
    IN CASE parsed.kind = "none" -> [command |-> "", valid |-> FALSE]
         [] parsed.kind = "error" ->
              [command |-> Unaliased(parsed.word),
               valid   |-> Unaliased(parsed.word) \in WorkflowCommands]
         [] OTHER -> [command |-> parsed.word, valid |-> parsed.word # "feedback"]

\* The verdict commands of a top-level comment, one job step for each.
TopLevelVerdicts(comment) ==
    ToSet(ListMatchingCommands(comment, {"false-positive", "wont-fix", "fixed"}))

\* The verdict that a reply on a thread gives, if it gives one.
ReplyVerdicts(comment) == {Gate(comment).command} \cap Verdicts

\* The verdict recorded for the command.
MarkOf(word) == IF word = "fixed" THEN "fixed" ELSE "dismissed"

\* Whether the command may go on to approve: an owner or member has given a verdict,
\* which a claim of a fix is not, and the ceiling lets the bot approve at all.
ApproveAllowed(word, trusted) ==
    trusted /\ word # "fixed" /\ ApprovalCeiling = "approve"
=============================================================================
