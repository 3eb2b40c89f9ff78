------------------------------ MODULE MCVerdict ------------------------------
(* Menus of findings for Verdict: all in one file, or in none, so that       *)
(* chains, bridges by "other", style hits and out-of-diff lines come up.     *)
EXTENDS Verdict, TLC

F(id, src, sev, file, line, cat, style) ==
    [sev |-> sev, file |-> file, line |-> line, cat |-> cat, style |-> style,
     text |-> IF file = "" THEN "same" ELSE src, source |-> src, sources |-> {src},
     sure |-> TRUE, corroborated |-> FALSE, out |-> FALSE, demoted |-> FALSE,
     from |-> {<<src, id>>}]

One(S) == {<<f>> : f \in S}

Cats == {"security", "lint", "other"}

\* An agent reports one finding: on an added line, on another, or without a file.
AgentAnswers ==
    [a \in Agents |->
        One({F(1, a, s, "f", l, c, FALSE) : s \in {1, 2}, l \in {2, 5}, c \in Cats}
            \cup {F(1, a, s, "", 0, "other", FALSE) : s \in {0, 3}})]

\* The analyzers report nothing, something outside the diff, a style hit before a
\* defect, a chain, a repetition, a finding that a rule hides, or a suppression.
Ruff(id, s, l, c) == F(id, "ruff", s, "f", l, c, FALSE)
Style(l, c) == F(7, "eslint", 3, "f", l, c, TRUE)
AnalyzerFindings ==
    {<<>>} \cup One({Ruff(1, 1, l, c) : l \in {1, 2}, c \in Cats})
           \cup {<<Style(3, c), Ruff(1, 0, 4, d)>> : c \in Cats, d \in Cats}
           \cup {<<Ruff(1, 2, 1, c), Ruff(2, 0, 8, d)>> : c \in Cats, d \in Cats}
           \cup {<<F(3, "suppression-check", 3, "f", l, "security", FALSE), Ruff(1, 1, 6, "lint")>>
                    : l \in {1, 4}}
           \cup {<<F(5, "eslint", 0, "f", 2, "security", FALSE)>>}
=============================================================================
