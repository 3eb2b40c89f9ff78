------------------------------- MODULE Dispatch -------------------------------
(***************************************************************************)
(* A tier of agents (agents/dispatch.py: run_tier, _run_single_agent).     *)
(* The agents run concurrently, as many at a time as the limiter has       *)
(* slots.  Each makes one LLM call, which retries transient failures       *)
(* (llm/_http.py: retry_post); an agent whose premium model refuses the    *)
(* diff makes a second call on the standard model.  One agent's failure is *)
(* recorded and cancels nobody.                                            *)
(***************************************************************************)
EXTENDS Integers, Sequences, SequencesExt, FiniteSets

CONSTANTS
    Agents,       \* the agents of the tier
    Premium,      \* those that use the premium model
    HasFallback,  \* the standard model is set and is another model
    Slots,        \* semaphore_size
    RetryCount    \* retry_count of retry_post

ASSUME DispatchAssumption ==
    /\ Premium \subseteq Agents /\ HasFallback \in BOOLEAN
    /\ Slots \in Nat \ {0} /\ RetryCount \in Nat

VARIABLES
    task,      \* agent -> what its task is doing
    tries,     \* agent -> the retries its current call has made
    posts,     \* agent -> the requests it has made
    results    \* the results, in the order in which the agents finished

dispatchVars == <<task, tries, posts, results>>

\* Exit codes of call_llm; 0 is an answer.
Transient == 2
Filtered == 3
Codes == 0 .. 4

Result(a, code, fellBack) == [agent |-> a, code |-> code, fallback |-> fellBack]

Calling == {a \in Agents : task[a] \in {"calling", "fallback"}}
Finished == {a \in Agents : task[a] = "done"}
TierOver == Finished = Agents

\* "async with limiter" gives the slot back however the block is left.
HoldingLeaked ==
    Calling \cup {r.agent : r \in {q \in ToSet(results) : q.code # 0}}
Holding == Calling

Init ==
    /\ task = [a \in Agents |-> "queued"]
    /\ tries = [a \in Agents |-> 0] /\ posts = [a \in Agents |-> 0]
    /\ results = <<>>

\* The task ends with its result appended.
FinishTwice(a, code) ==
    /\ task' = [task EXCEPT ![a] = "done"]
    /\ results' = results \o [i \in 1 .. (IF task[a] = "fallback" /\ code # 0 THEN 2 ELSE 1)
                                  |-> Result(a, code, task[a] = "fallback")]
    /\ UNCHANGED tries
Finish(a, code) ==
    /\ task' = [task EXCEPT ![a] = "done"]
    /\ results' = Append(results, Result(a, code, task[a] = "fallback"))
    /\ UNCHANGED tries

\* The prompt cannot be built; the agent fails before it asks for a slot.
BrokenSilently(a) ==
    task[a] = "queued" /\ task' = [task EXCEPT ![a] = "done"] /\ UNCHANGED <<tries, posts, results>>
Broken(a) == task[a] = "queued" /\ Finish(a, 1) /\ UNCHANGED posts

Acquire(a) ==
    /\ task[a] = "queued" /\ Cardinality(Holding) < Slots
    /\ task' = [task EXCEPT ![a] = "calling"]
    /\ UNCHANGED <<tries, posts, results>>

\* retry_post gets a transient error and has retries left.
MayRetry(a, code) == code = Transient /\ tries[a] < RetryCount
Retry(a) ==
    /\ tries' = [tries EXCEPT ![a] = @ + 1]
    /\ UNCHANGED <<task, results>>

\* The premium model is blocked by the content filter: one more call, in the same slot.
FallsBackOnAny(a, code) == a \in Premium /\ HasFallback /\ code = Filtered
FallsBackNever(a, code) == FALSE
FallsBack(a, code) ==
    task[a] = "calling" /\ a \in Premium /\ HasFallback /\ code = Filtered
Fallback(a) ==
    /\ task' = [task EXCEPT ![a] = "fallback"]
    /\ tries' = [tries EXCEPT ![a] = 0]
    /\ UNCHANGED results

\* A request of a's call is answered, or fails.
Post(a, code) ==
    /\ a \in Calling
    /\ posts' = [posts EXCEPT ![a] = @ + 1]
    /\ \/ MayRetry(a, code) /\ Retry(a)
       \/ FallsBack(a, code) /\ Fallback(a)
       \/ ~MayRetry(a, code) /\ ~FallsBack(a, code) /\ Finish(a, code)

Work(a) == Acquire(a) \/ \E code \in Codes : Post(a, code)

\* The task group is left when the last task has ended.
Leave == TierOver /\ UNCHANGED dispatchVars

Next == (\E a \in Agents : Broken(a) \/ Work(a)) \/ Leave

Spec == Init /\ [][Next]_dispatchVars

\* The event loop runs every task that can run, the limiter serves its queue, and
\* the HTTP client bounds every request by a timeout.
FairSpec == Spec /\ \A a \in Agents : WF_dispatchVars(Work(a))

-----------------------------------------------------------------------------
(* Properties *)

\* A call retries no more than retry_post()'s budget.
TypeOK ==
    /\ task \in [Agents -> {"queued", "calling", "fallback", "done"}]
    /\ tries \in [Agents -> 0 .. RetryCount]
    /\ posts \in [Agents -> Nat]
    /\ results \in Seq([agent : Agents, code : Codes, fallback : BOOLEAN])

\* However the agents' calls fail, and in whatever order they end, an agent has one
\* result when it is done and none before: run_review() counts agents by them.
OneResultEach ==
    /\ {r.agent : r \in ToSet(results)} = Finished
    /\ Len(results) = Cardinality(Finished)

\* An agent costs at most two calls, and one if it has no model to fall back to,
\* each with RetryCount retries.
RequestsBounded ==
    \A a \in Agents :
        posts[a] <= (IF a \in Premium /\ HasFallback THEN 2 ELSE 1) * (RetryCount + 1)

\* A refusal by the premium model does not cost the review the agent: an agent that
\* fails with the filter's code was refused by the standard model as well.
RefusalFallsBack ==
    \A r \in ToSet(results) :
        r.code = Filtered /\ r.agent \in Premium /\ HasFallback => r.fallback


\* The tier ends, however its slots are contended and its calls fail.
TierEnds == <>TierOver

\* The tier keeps its promise: each agent reports once.
Tier == INSTANCE AgentTier
            WITH results <- [i \in DOMAIN results |-> [agent |-> results[i].agent,
                                                       code |-> results[i].code]]
ImplementsTier == Tier!Spec
=============================================================================
