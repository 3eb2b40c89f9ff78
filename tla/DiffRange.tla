----------------------------- MODULE DiffRange -----------------------------
(***************************************************************************)
(* Which commits one review reads (diff/compute.py).                       *)
(*                                                                         *)
(* A commit stands for its change, so the tree of a revision is the set of *)
(* commits it contains.  The branch holds commits of its own and commits   *)
(* of the base branch that were merged into it.  The last review left a    *)
(* watermark, which the head may or may not contain any more.              *)
(***************************************************************************)
EXTENDS FiniteSets

(***************************************************************************)
(* A history: the branch's own commits and the merged base-branch commits  *)
(* of the head, what the watermark contained of both, and the state of the *)
(* watermark: "none" (first review), "lost" (force-pushed away) or "valid".*)
(* edits are changes of the author that sit in merge commits.              *)
(*                                                                         *)
(* git says what the git commands of the merge filter do.  Some of their   *)
(* failures go unnoticed: "silent", no merge is known to be one of the     *)
(* base branch, or the synthetic tip is not known; "unlisted", the commits *)
(* to pick are not.  The others are told: "refused", no worktree, or a     *)
(* cherry-pick or its commit fails.                                        *)
(***************************************************************************)
History(Own, Up) ==
  {h \in [own : SUBSET Own, edits : SUBSET Own, up : SUBSET Up, seen : SUBSET (Own \cup Up),
          mark : {"none", "lost", "valid"}, git : {"works", "silent", "unlisted", "refused"}] :
     /\ h.edits \subseteq h.own
     /\ h.mark = "valid" => h.seen \subseteq h.own \cup h.up
     /\ h.mark # "valid" => h.seen = {}}

Incremental(h) == h.mark = "valid"

\* The base of the diff: the watermark, else the base branch.
Behind(h) == IF Incremental(h) THEN h.seen ELSE h.up

\* The two-dot range from the watermark, or the three-dot range from the
\* merge base, in which every merged commit of the base branch is.
Unfiltered(h) == (h.own \cup h.up) \ Behind(h)

\* The range from the merge base.
Full(h) == h.own

\* Merges of the base branch in the range: they brought commits the
\* watermark did not have; a full range holds all of them.
Merges(h) == IF Incremental(h) THEN h.up \ h.seen ELSE h.up

\* What is cherry-picked: commits of the range that the base branch lacks,
\* merge commits not among them.
Picked(h) == IF h.git = "unlisted" THEN {} ELSE (h.own \ Behind(h)) \ h.edits

\* The filtered range.  With nothing picked the synthetic tip is the base of
\* the diff: the caller keeps an incremental range as it is, while in a full
\* one the tip is compared with the name of the base branch, and differs.
Filtered(h) ==
  IF Picked(h) = {} /\ Incremental(h) THEN Unfiltered(h) ELSE Picked(h)

FallsBackToRange(h) == Unfiltered(h)

\* A filter that says that it failed reads the full range, whatever the
\* watermark.
FallsBack(h) == Full(h)

\* Whether the filter gets as far as building a branch, and keeps to it.
Filters(h, filter) == filter /\ Merges(h) # {} /\ h.git # "silent"

\* The commits reviewed, given whether the filter is on.
Reviewed(h, filter) ==
  IF ~Filters(h, filter) THEN Unfiltered(h)
  ELSE IF h.git = "refused" THEN FallsBack(h) ELSE Filtered(h)

IsIncremental(h, filter) ==
  Incremental(h) /\ ~(Filters(h, filter) /\ h.git = "refused")
=============================================================================
