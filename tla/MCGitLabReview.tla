--------------------------- MODULE MCGitLabReview ---------------------------
EXTENDS GitLabReview

\* Two findings near one another, one of them of changing severity, and one apart.
FewFindings == {[line |-> 1, rank |-> 2], [line |-> 1, rank |-> 1],
                [line |-> 3, rank |-> 1], [line |-> 9, rank |-> 1]}

\* Diffs that add all the lines, or some of them.
FewDiffs == {{1, 3, 9}, {1}}
=============================================================================
