------------------------------ MODULE AgentTier ------------------------------
(***************************************************************************)
(* What run_tier() (agents/dispatch.py) promises its caller: every agent   *)
(* of the tier reports once, an answer or a failure, in any order.         *)
(***************************************************************************)
EXTENDS Integers, Sequences, SequencesExt

CONSTANT Agents    \* the agents of the tier

VARIABLE results   \* what they reported, in the order in which they finished

\* Exit codes of call_llm(); 0 stands for an answer.
Answer == 0
Broken == 1
Transient == 2
Filtered == 3
TooLong == 4
Codes == {Answer, Broken, Transient, Filtered, TooLong}

Reported == {r.agent : r \in ToSet(results)}
Over == Reported = Agents

Init == results = <<>>

Report(a, code) ==
    /\ a \notin Reported
    /\ results' = Append(results, [agent |-> a, code |-> code])

Next == \E a \in Agents, code \in Codes : Report(a, code)

Spec == Init /\ [][Next]_results
=============================================================================
