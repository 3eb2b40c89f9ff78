----------------------------- MODULE PolicyGate -----------------------------
(***************************************************************************)
(* The check run ai-pr-review/policy-gate of one commit, which the reviews *)
(* of that commit post when a route of policy.yml requires a tier          *)
(* (cli._post_policy_gate_check_run, GitHubProvider.post_check_run and     *)
(* list_check_run_conclusions).  A review that did not run at the tier     *)
(* posts action_required, unless it finds a success posted before, and     *)
(* looks again once its own check run is posted.                           *)
(*                                                                         *)
(* GitHub keeps every check run and shows the newest.                      *)
(***************************************************************************)
CONSTANTS Runs,    \* the reviews of the commit that reach this step
          NoRun    \* no check run yet

ASSUME NoRunAssumption == NoRun \notin Runs

VARIABLES at,      \* the next step of each run
          meets,   \* the runs that ran at the tier required
          newest,  \* the newest check run: who posted it, and its conclusion
          checks,  \* the conclusions of all of them
          spoiled  \* history: a run has stopped short of putting a success back

gateVars == <<at, meets, newest, checks, spoiled>>

Conclusions == {"success", "action_required"}
Steps == {"start", "require", "recheck", "again", "done"}

GateInit ==
  /\ at = [r \in Runs |-> "start"]
  /\ meets \in SUBSET Runs
  /\ newest = [by |-> NoRun, conclusion |-> "none"]
  /\ checks = {}
  /\ spoiled = FALSE

Goto(r, step) == at' = [at EXCEPT ![r] = step]

Lands(r, conclusion) ==
  /\ newest' = [by |-> r, conclusion |-> conclusion]
  /\ checks' = checks \cup {conclusion}

AlreadySatisfied == "success" \in checks

PostSuccess(r) ==
  /\ at[r] = "start" /\ r \in meets
  /\ Lands(r, "success")
  /\ Goto(r, "done")
  /\ UNCHANGED <<meets, spoiled>>

\* The first lookup.  When it fails, nothing is known to be satisfied.
Lookup(r) ==
  /\ at[r] = "start" /\ r \notin meets
  /\ \/ AlreadySatisfied /\ Goto(r, "again")
     \/ ~AlreadySatisfied /\ Goto(r, "require")
  /\ UNCHANGED <<meets, newest, checks, spoiled>>

LookupFails(r) ==
  /\ at[r] = "start" /\ r \notin meets
  /\ Goto(r, "require")
  /\ UNCHANGED <<meets, newest, checks, spoiled>>

Require(r) ==
  /\ at[r] = "require"
  /\ Lands(r, "action_required")
  /\ Goto(r, "recheck")
  /\ UNCHANGED <<meets, spoiled>>

\* The check run is created, but the answer is lost: the run does not look again.
RequireUnanswered(r) ==
  /\ at[r] = "require"
  /\ Lands(r, "action_required")
  /\ Goto(r, "done")
  /\ spoiled' = TRUE
  /\ UNCHANGED meets

NoRecheck(r) ==
  /\ at[r] = "recheck"
  /\ Goto(r, "done")
  /\ UNCHANGED <<meets, newest, checks, spoiled>>

Recheck(r) ==
  /\ at[r] = "recheck"
  /\ \/ AlreadySatisfied /\ Goto(r, "again")
     \/ ~AlreadySatisfied /\ Goto(r, "done")
  /\ UNCHANGED <<meets, newest, checks, spoiled>>

\* Success is put back on top.
PostAgain(r) ==
  /\ at[r] = "again"
  /\ Lands(r, "success")
  /\ Goto(r, "done")
  /\ UNCHANGED <<meets, spoiled>>

\* A post that is refused, a second lookup that fails, a job that is cancelled:
\* the run ends where it is.
Stops(r) ==
  /\ at[r] # "done"
  /\ Goto(r, "done")
  /\ spoiled' = (spoiled \/ at[r] \in {"recheck", "again"})
  /\ UNCHANGED <<meets, newest, checks>>

GateNext ==
  \E r \in Runs :
    \/ PostSuccess(r) \/ Lookup(r) \/ LookupFails(r)
    \/ Require(r) \/ RequireUnanswered(r) \/ Recheck(r) \/ PostAgain(r)
    \/ Stops(r)

GateSpec == GateInit /\ [][GateNext]_gateVars

-----------------------------------------------------------------------------
GateTypeOK ==
  /\ at \in [Runs -> Steps]
  /\ meets \subseteq Runs
  /\ newest \in [by : Runs \cup {NoRun}, conclusion : Conclusions \cup {"none"}]
  /\ checks \subseteq Conclusions
  /\ spoiled \in BOOLEAN

\* No run is between its action_required and what its second look leads to.
Settled == \A r \in Runs : at[r] \notin {"recheck", "again"}

(***************************************************************************)
(* Once a run has satisfied the requirement of a commit, a slower run of   *)
(* the same commit does not leave it downgraded: when no run has yet to    *)
(* look again and none was stopped short of it, the newest check run is a  *)
(* success (docs/policy.md, #979).                                         *)
(***************************************************************************)
StaysSatisfied ==
  Settled /\ ~spoiled /\ AlreadySatisfied => newest.conclusion = "success"

(***************************************************************************)
(* Why: an action_required on top of a success belongs to a run that is    *)
(* still to put the success back, unless that run was stopped.             *)
(***************************************************************************)
DowngradeIsWatched ==
  /\ newest.by = NoRun => checks = {}
  /\ newest.by # NoRun => newest.conclusion \in checks
  /\ AlreadySatisfied /\ newest.conclusion # "success" /\ ~spoiled =>
       newest.by \in Runs /\ at[newest.by] \in {"recheck", "again"}
=============================================================================
