------------------------------- MODULE Policy -------------------------------
(***************************************************************************)
(* policy.yml: which tier of review a change gets (policy.py), and how it  *)
(* combines with the run's own configuration (review/runtime.py).          *)
(*                                                                         *)
(* A policy file is a record: policies, a function from names to records   *)
(* with the fields extends, agents and exclude; routes, a sequence of      *)
(* records with the fields paths, pathsAll (sets of kinds of file), branch,*)
(* policy and require; and default.  branch stands for base-branch and     *)
(* head-branch, which are matched alike.                                   *)
(***************************************************************************)
EXTENDS Integers, Sequences, FiniteSets, Roster

None == "none"
AnyBranch == "any"
Builtins == {"quick", "full"}

\* A field a policy does not declare; it inherits.
Unset == {"unset"}

Parent(file, name) ==
  IF name \in Builtins THEN name
  ELSE IF file.policies[name].extends = None THEN "quick"
  ELSE file.policies[name].extends

Known(file) == DOMAIN file.policies \cup Builtins

\* The names from a policy up to the built-in it rests on.
Chain(file, name) ==
  LET up[k \in 0..Cardinality(DOMAIN file.policies)] ==
        IF k = 0 THEN name
        ELSE IF up[k - 1] \in Known(file) THEN Parent(file, up[k - 1]) ELSE up[k - 1]
  IN up

Base(file, name) == Chain(file, name)[Cardinality(DOMAIN file.policies)]

\* What the loader accepts.  Every chain ends in a built-in, a cycle does not.
Valid(file) ==
  /\ DOMAIN file.policies \cap Builtins = {}
  /\ \A p \in DOMAIN file.policies :
       /\ Base(file, p) \in Builtins
       /\ file.policies[p].agents = Unset \/ file.policies[p].agents \subseteq AGENT_NAMES
       /\ file.policies[p].exclude = Unset \/ file.policies[p].exclude \subseteq AGENT_NAMES
  /\ \A i \in DOMAIN file.routes :
       /\ file.routes[i].policy \in Known(file)
       /\ file.routes[i].require \in Known(file) \cup {None}
       /\ file.routes[i].paths # {} \/ file.routes[i].pathsAll # {}
            \/ file.routes[i].branch # AnyBranch
  /\ file.default \in Known(file) \cup {None}

RouteMatches(route, touched, branch) ==
  /\ route.paths = {} \/ route.paths \cap touched # {}
  /\ route.pathsAll = {} \/ touched \subseteq route.pathsAll
  /\ route.branch \in {AnyBranch, branch}

NoRoute == [policy |-> None, require |-> None]

\* The first route that matches, else the default, which requires nothing.
MatchRoute(file, touched, branch) ==
  LET hits == {i \in DOMAIN file.routes : RouteMatches(file.routes[i], touched, branch)}
  IN IF hits = {} THEN [NoRoute EXCEPT !.policy = file.default]
     ELSE LET first == CHOOSE i \in hits : \A j \in hits : i <= j
          IN [policy |-> file.routes[first].policy, require |-> file.routes[first].require]

\* A field's value: the nearest declaration up the chain.
Inherited(file, name, field) ==
  LET up == Chain(file, name)
      own == {k \in DOMAIN up : up[k] \notin Builtins /\ file.policies[up[k]][field] # Unset}
  IN IF own = {} THEN Unset
     ELSE file.policies[up[CHOOSE k \in own : \A j \in own : k <= j]][field]

NoPolicy == [mode |-> None, agents |-> Unset, exclude |-> Unset]

ResolvePolicy(file, name) ==
  IF name = None THEN NoPolicy
  ELSE [mode |-> Base(file, name), agents |-> Inherited(file, name, "agents"),
        exclude |-> Inherited(file, name, "exclude")]

Declared(field) == IF field = Unset THEN {} ELSE field

\* The run's own allow list wins; a policy that declares none at all denies
\* every reviewer, yet not the two agents that describe the change.
MergeAllowlist(allow, deny, policy) ==
  LET denied == deny \cup Declared(policy.exclude)
  IN IF allow # {} THEN [allow |-> allow, deny |-> denied]
     ELSE IF policy.agents \notin {Unset, {}} THEN [allow |-> policy.agents, deny |-> denied]
     ELSE [allow |-> {}, deny |-> IF policy.agents = {} THEN denied \cup Reviewers ELSE denied]

\* The run's own mode wins over the policy's, and quick is the default.
ReviewMode(mode, policy) ==
  IF mode # "" THEN mode ELSE IF policy.mode # None THEN policy.mode ELSE "quick"

\* A route's requirement is met by the tier it names or by a full review.
GateSatisfied(route, mode) ==
  route.require = None \/ mode = "full" \/ route.policy = route.require
=============================================================================
