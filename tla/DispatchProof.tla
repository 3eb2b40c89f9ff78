---------------------------- MODULE DispatchProof ----------------------------
(***************************************************************************)
(* Proofs about Dispatch, for every number of agents, slots and retries.   *)
(***************************************************************************)
EXTENDS Dispatch, FiniteSetTheorems, TLAPS

CallsOf(a) == IF a \in Premium /\ HasFallback THEN 2 ELSE 1

\* What a task's state says of the requests it has made: the first call has made one
\* more than it has retried, and only a premium agent reaches a second.
PostsFit(a) ==
    /\ task[a] = "queued"   => posts[a] = 0 /\ tries[a] = 0
    /\ task[a] = "calling"  => posts[a] = tries[a]
    /\ task[a] = "fallback" => /\ a \in Premium /\ HasFallback
                               /\ posts[a] <= RetryCount + 1 + tries[a]
    /\ task[a] = "done"     => posts[a] <= CallsOf(a) * (RetryCount + 1)

\* Results and finished tasks match one to one.
Matched ==
    /\ \A i \in DOMAIN results : task[results[i].agent] = "done"
    /\ \A a \in Agents : task[a] = "done" => \E i \in DOMAIN results : results[i].agent = a
    /\ IsFiniteSet(Finished) /\ Len(results) = Cardinality(Finished)

Refusals ==
    \A i \in DOMAIN results :
        results[i].code = Filtered /\ results[i].agent \in Premium /\ HasFallback
            => results[i].fallback

\* The inductive invariant.
IInv == TypeOK /\ Matched /\ Refusals /\ \A a \in Agents : PostsFit(a)

LEMMA Element == ASSUME NEW S, NEW s \in Seq(S), NEW i \in DOMAIN s PROVE s[i] \in S
  OBVIOUS

LEMMA Starts == Init => IInv
  <1> SUFFICES ASSUME Init PROVE IInv
    OBVIOUS
  <1> USE DispatchAssumption DEF Init
  <1>1. TypeOK
    BY DEF TypeOK
  <1>2. Finished = {}
    BY DEF Finished
  <1>3. Matched
    BY <1>2, FS_EmptySet DEF Matched
  <1>4. Refusals /\ \A a \in Agents : PostsFit(a)
    BY DEF Refusals, PostsFit
  <1>. QED
    BY <1>1, <1>3, <1>4 DEF IInv

\* A step that ends task a with one new result.
LEMMA Finishes ==
    ASSUME IInv, NEW a \in Agents, NEW code \in Codes, task[a] # "done", Finish(a, code),
           posts' \in [Agents -> Nat], \A b \in Agents \ {a} : posts'[b] = posts[b],
           posts'[a] <= CallsOf(a) * (RetryCount + 1),
           code = Filtered /\ a \in Premium /\ HasFallback => task[a] = "fallback"
    PROVE  IInv'
  <1> USE DispatchAssumption
  <1>0. TypeOK /\ Matched /\ Refusals /\ \A b \in Agents : PostsFit(b)
    BY DEF IInv
  <1> DEFINE r == Result(a, code, task[a] = "fallback")
  <1>1. r \in [agent : Agents, code : Codes, fallback : BOOLEAN]
    BY DEF Result
  <1>2. results' = Append(results, r) /\ task' = [task EXCEPT ![a] = "done"] /\ tries' = tries
    BY DEF Finish
  <1>3. results \in Seq([agent : Agents, code : Codes, fallback : BOOLEAN])
        /\ task \in [Agents -> {"queued", "calling", "fallback", "done"}]
    BY <1>0 DEF TypeOK
  <1>4. TypeOK'
    <2>1. results' \in Seq([agent : Agents, code : Codes, fallback : BOOLEAN])
      BY <1>1, <1>2, <1>3
    <2>2. task' \in [Agents -> {"queued", "calling", "fallback", "done"}]
      BY <1>2, <1>3
    <2>. QED
      BY <2>1, <2>2, <1>0, <1>2 DEF TypeOK
  <1>5. /\ Len(results') = Len(results) + 1 /\ DOMAIN results' = 1 .. Len(results) + 1
        /\ \A i \in DOMAIN results : results'[i] = results[i]
        /\ results'[Len(results) + 1] = r /\ DOMAIN results = 1 .. Len(results)
        /\ Len(results) \in Nat
    BY <1>1, <1>2, <1>3
  <1>6. r.agent = a /\ r.code = code /\ r.fallback = (task[a] = "fallback")
    BY DEF Result
  <1>7. Matched'
    <2>1. \A i \in DOMAIN results' : task'[results'[i].agent] = "done"
      <3> SUFFICES ASSUME NEW i \in DOMAIN results' PROVE task'[results'[i].agent] = "done"
        OBVIOUS
      <3>1. CASE i = Len(results) + 1
        BY <3>1, <1>2, <1>3, <1>5, <1>6
      <3>2. CASE i \in DOMAIN results
        <4>0. results[i] \in [agent : Agents, code : Codes, fallback : BOOLEAN]
          BY <3>2, <1>3, Element
        <4>1. task[results[i].agent] = "done" /\ results[i].agent \in Agents
          BY <4>0, <3>2, <1>0 DEF Matched
        <4>. QED
          BY <4>1, <3>2, <1>2, <1>3, <1>5
      <3>. QED
        BY <3>1, <3>2, <1>5
    <2>2. \A b \in Agents : task'[b] = "done" => \E i \in DOMAIN results' : results'[i].agent = b
      <3> SUFFICES ASSUME NEW b \in Agents, task'[b] = "done"
                   PROVE  \E i \in DOMAIN results' : results'[i].agent = b
        OBVIOUS
      <3>1. CASE b = a
        BY <3>1, <1>5, <1>6
      <3>2. CASE b # a
        <4>1. task[b] = "done"
          BY <3>2, <1>2, <1>3
        <4>2. PICK i \in DOMAIN results : results[i].agent = b
          BY <4>1, <1>0 DEF Matched
        <4>. QED
          BY <4>2, <1>5
      <3>. QED
        BY <3>1, <3>2
    <2>3. Finished' = Finished \cup {a} /\ a \notin Finished
      BY <1>2, <1>3 DEF Finished
    <2>4. IsFiniteSet(Finished) /\ Len(results) = Cardinality(Finished)
      BY <1>0 DEF Matched
    <2>5. IsFiniteSet(Finished') /\ Cardinality(Finished') = Cardinality(Finished) + 1
      BY <2>3, <2>4, FS_AddElement
    <2>. QED
      BY <2>1, <2>2, <2>4, <2>5, <1>5 DEF Matched
  <1>8. Refusals'
    <2> SUFFICES ASSUME NEW i \in DOMAIN results',
                        results'[i].code = Filtered, results'[i].agent \in Premium, HasFallback
                 PROVE  results'[i].fallback
      BY DEF Refusals
    <2>1. CASE i = Len(results) + 1
      BY <2>1, <1>5, <1>6
    <2>2. CASE i \in DOMAIN results
      BY <2>2, <1>0, <1>5 DEF Refusals
    <2>. QED
      BY <2>1, <2>2, <1>5
  <1>9. ASSUME NEW b \in Agents PROVE PostsFit(b)'
    <2>1. CASE b = a
      BY <2>1, <1>2, <1>3 DEF PostsFit, CallsOf
    <2>2. CASE b # a
      <3>1. task'[b] = task[b] /\ posts'[b] = posts[b] /\ tries'[b] = tries[b]
        BY <2>2, <1>2, <1>3
      <3>. QED
        BY <3>1, <1>0 DEF PostsFit, CallsOf
    <2>. QED
      BY <2>1, <2>2
  <1>. QED
    BY <1>4, <1>7, <1>8, <1>9 DEF IInv

\* A step of a task that has not ended, and does not end, leaves the results alone.
LEMMA Continues ==
    ASSUME IInv, NEW a \in Agents, task[a] # "done", results' = results,
           NEW t \in {"calling", "fallback"}, task' = [task EXCEPT ![a] = t] \/ task' = task,
           tries' \in [Agents -> 0 .. RetryCount], posts' \in [Agents -> Nat],
           \A b \in Agents \ {a} : tries'[b] = tries[b] /\ posts'[b] = posts[b],
           PostsFit(a)'
    PROVE  IInv'
  <1> USE DispatchAssumption
  <1>0. TypeOK /\ Matched /\ Refusals /\ \A b \in Agents : PostsFit(b)
    BY DEF IInv
  <1>1. task \in [Agents -> {"queued", "calling", "fallback", "done"}]
    BY <1>0 DEF TypeOK
  <1>2. task' \in [Agents -> {"queued", "calling", "fallback", "done"}]
    BY <1>1
  <1>3. /\ \A b \in Agents \ {a} : task'[b] = task[b]
        /\ task'[a] # "done"
    BY <1>1
  <1>4. TypeOK'
    BY <1>0, <1>2 DEF TypeOK
  <1>5. Finished' = Finished
    BY <1>3 DEF Finished
  <1>6. Matched'
    <2>1. \A i \in DOMAIN results : results[i].agent \in Agents /\ results[i].agent # a
      <3> SUFFICES ASSUME NEW i \in DOMAIN results
                   PROVE  results[i].agent \in Agents /\ results[i].agent # a
        OBVIOUS
      <3>1. results \in Seq([agent : Agents, code : Codes, fallback : BOOLEAN])
        BY <1>0 DEF TypeOK
      <3>2. results[i] \in [agent : Agents, code : Codes, fallback : BOOLEAN]
        BY <3>1, Element
      <3>. QED
        BY <3>2, <1>0 DEF Matched
    <2>2. \A i \in DOMAIN results' : task'[results'[i].agent] = "done"
      BY <2>1, <1>3, <1>0 DEF Matched
    <2>3. \A b \in Agents : task'[b] = "done" => \E i \in DOMAIN results' : results'[i].agent = b
      BY <1>3, <1>0 DEF Matched
    <2>. QED
      BY <2>2, <2>3, <1>5, <1>0 DEF Matched
  <1>7. Refusals'
    BY <1>0 DEF Refusals
  <1>8. ASSUME NEW b \in Agents PROVE PostsFit(b)'
    BY <1>3, <1>0 DEF PostsFit, CallsOf
  <1>. QED
    BY <1>4, <1>6, <1>7, <1>8 DEF IInv

LEMMA StepsKeep == IInv /\ [Next]_dispatchVars => IInv'
  <1> SUFFICES ASSUME IInv, [Next]_dispatchVars PROVE IInv'
    OBVIOUS
  <1> USE DispatchAssumption
  <1>0. TypeOK /\ \A b \in Agents : PostsFit(b)
    BY DEF IInv
  <1>1. /\ task \in [Agents -> {"queued", "calling", "fallback", "done"}]
        /\ tries \in [Agents -> 0 .. RetryCount] /\ posts \in [Agents -> Nat]
    BY <1>0 DEF TypeOK
  <1>2. ASSUME NEW a \in Agents, Broken(a) PROVE IInv'
    <2>1. task[a] = "queued" /\ Finish(a, 1) /\ posts' = posts /\ 1 \in Codes /\ 1 # Filtered
      BY <1>2 DEF Broken, Codes, Filtered
    <2>2. posts'[a] <= CallsOf(a) * (RetryCount + 1)
      BY <2>1, <1>0 DEF PostsFit, CallsOf
    <2>. QED
      BY <2>1, <2>2, <1>1, Finishes
  <1>3. ASSUME NEW a \in Agents, Acquire(a) PROVE IInv'
    <2>1. /\ task[a] = "queued" /\ task' = [task EXCEPT ![a] = "calling"]
          /\ tries' = tries /\ posts' = posts /\ results' = results
      BY <1>3 DEF Acquire
    <2>2. PostsFit(a)'
      BY <2>1, <1>0, <1>1 DEF PostsFit
    <2>. QED
      BY <2>1, <2>2, <1>1, Continues
  <1>4. ASSUME NEW a \in Agents, NEW code \in Codes, Post(a, code) PROVE IInv'
    <2>1. /\ task[a] \in {"calling", "fallback"}
          /\ posts' = [posts EXCEPT ![a] = @ + 1] /\ posts' \in [Agents -> Nat]
          /\ posts'[a] = posts[a] + 1 /\ \A b \in Agents \ {a} : posts'[b] = posts[b]
      BY <1>4, <1>1 DEF Post, Calling
    <2>2. CASE MayRetry(a, code) /\ Retry(a)
      <3>1. /\ tries[a] < RetryCount /\ tries' = [tries EXCEPT ![a] = @ + 1]
            /\ task' = task /\ results' = results
        BY <2>2 DEF MayRetry, Retry
      <3>2. /\ tries' \in [Agents -> 0 .. RetryCount] /\ tries'[a] = tries[a] + 1
            /\ \A b \in Agents \ {a} : tries'[b] = tries[b]
        BY <3>1, <1>1
      <3>3. PostsFit(a)'
        BY <3>1, <3>2, <2>1, <1>0, <1>1 DEF PostsFit
      <3>. QED
        BY <3>1, <3>2, <3>3, <2>1, Continues
    <2>3. CASE FallsBack(a, code) /\ Fallback(a)
      <3>1. /\ task[a] = "calling" /\ a \in Premium /\ HasFallback
            /\ task' = [task EXCEPT ![a] = "fallback"]
            /\ tries' = [tries EXCEPT ![a] = 0] /\ results' = results
        BY <2>3 DEF FallsBack, Fallback
      <3>2. /\ tries' \in [Agents -> 0 .. RetryCount] /\ tries'[a] = 0
            /\ \A b \in Agents \ {a} : tries'[b] = tries[b] /\ task'[a] = "fallback"
        BY <3>1, <1>1
      <3>3. PostsFit(a)'
        BY <3>1, <3>2, <2>1, <1>0, <1>1 DEF PostsFit
      <3>. QED
        BY <3>1, <3>2, <3>3, <2>1, Continues
    <2>4. CASE ~FallsBack(a, code) /\ Finish(a, code)
      <3>1. code = Filtered /\ a \in Premium /\ HasFallback => task[a] = "fallback"
        BY <2>4, <2>1 DEF FallsBack
      <3>2. posts'[a] <= CallsOf(a) * (RetryCount + 1)
        BY <2>1, <1>0, <1>1 DEF PostsFit, CallsOf
      <3>. QED
        BY <2>4, <3>1, <3>2, <2>1, Finishes
    <2>. QED
      BY <2>2, <2>3, <2>4, <1>4 DEF Post
  <1>5. CASE UNCHANGED dispatchVars
    BY <1>5 DEF dispatchVars, IInv, TypeOK, Matched, Finished, Refusals, PostsFit
  <1>. QED
    BY <1>2, <1>3, <1>4, <1>5 DEF Next, Work, Leave

\* The inductive invariant holds in every state of the tier.
THEOREM Invariant == Spec => []IInv
  BY Starts, StepsKeep, PTL DEF Spec

\* Every agent has one result when its task is done and none before.
THEOREM EachReportsOnce == Spec => []OneResultEach
  <1>1. IInv => OneResultEach
    <2> SUFFICES ASSUME IInv PROVE OneResultEach
      OBVIOUS
    <2>1. Matched /\ results \in Seq([agent : Agents, code : Codes, fallback : BOOLEAN])
      BY DEF IInv, TypeOK
    <2>2. \A i \in DOMAIN results : results[i].agent \in Agents
      <3> SUFFICES ASSUME NEW i \in DOMAIN results PROVE results[i].agent \in Agents
        OBVIOUS
      <3>1. results[i] \in [agent : Agents, code : Codes, fallback : BOOLEAN]
        BY <2>1, Element
      <3>. QED
        BY <3>1
    <2>3. ToSet(results) = {results[i] : i \in DOMAIN results}
      BY DEF ToSet
    <2>4. {r.agent : r \in ToSet(results)} = {results[i].agent : i \in DOMAIN results}
      BY <2>3
    <2>5. {results[i].agent : i \in DOMAIN results} = Finished
      BY <2>1, <2>2 DEF Matched, Finished
    <2>. QED
      BY <2>1, <2>4, <2>5 DEF OneResultEach, Matched
  <1>. QED
    BY <1>1, Invariant, PTL

\* No agent makes more requests than two calls with all their retries.
THEOREM RequestsAreBounded == Spec => []RequestsBounded
  <1>1. IInv => RequestsBounded
    <2> SUFFICES ASSUME IInv, NEW a \in Agents
                 PROVE  posts[a] <= CallsOf(a) * (RetryCount + 1)
      BY DEF RequestsBounded, CallsOf
    <2>1. /\ PostsFit(a) /\ task[a] \in {"queued", "calling", "fallback", "done"}
          /\ tries[a] \in 0 .. RetryCount /\ posts[a] \in Nat
      BY DEF IInv, TypeOK
    <2>. QED
      BY <2>1, DispatchAssumption DEF PostsFit, CallsOf
  <1>. QED
    BY <1>1, Invariant, PTL

\* An agent that fails with the filter's code was refused by the standard model too.
THEOREM RefusalsFallBack == Spec => []RefusalFallsBack
  <1>1. IInv => RefusalFallsBack
    BY DEF IInv, Refusals, RefusalFallsBack, ToSet
  <1>. QED
    BY <1>1, Invariant, PTL

-----------------------------------------------------------------------------
(* The tier keeps the promise of AgentTier. *)

LEMMA TierCodes == Codes = Tier!Codes
  BY DEF Codes, Tier!Codes, Tier!Answer, Tier!Broken, Tier!Transient, Tier!Filtered, Tier!TooLong

Mapped(rs) == [i \in DOMAIN rs |-> [agent |-> rs[i].agent, code |-> rs[i].code]]

LEMMA FinishReports ==
    ASSUME IInv, NEW a \in Agents, NEW code \in Codes, task[a] # "done", Finish(a, code)
    PROVE  Tier!Report(a, code)
  <1> DEFINE r == Result(a, code, task[a] = "fallback")
  <1>1. results \in Seq([agent : Agents, code : Codes, fallback : BOOLEAN]) /\ Matched
    BY DEF IInv, TypeOK
  <1>2. results' = Append(results, r) /\ r.agent = a /\ r.code = code
    BY DEF Finish, Result
  <1>3. /\ DOMAIN results = 1 .. Len(results) /\ Len(results) \in Nat
        /\ DOMAIN results' = 1 .. Len(results) + 1
        /\ \A i \in DOMAIN results : results'[i] = results[i]
        /\ results'[Len(results) + 1] = r
    BY <1>1, <1>2
  <1>4. Mapped(results)' = Append(Mapped(results), [agent |-> a, code |-> code])
    <2> DEFINE m == Mapped(results)
               e == [agent |-> a, code |-> code]
    <2>1. DOMAIN m = 1 .. Len(results) /\ \A i \in DOMAIN m :
              m[i] = [agent |-> results[i].agent, code |-> results[i].code]
      BY <1>3 DEF Mapped
    <2>2. m = [i \in 1 .. Len(results) |-> [agent |-> results[i].agent, code |-> results[i].code]]
      BY <1>3 DEF Mapped
    <2>3. Len(m) = Len(results)
      BY <1>3, <2>2
    <2>4. Append(m, e) = [i \in 1 .. Len(m) + 1 |-> IF i = Len(m) + 1 THEN e ELSE m[i]]
      BY <2>2, <2>3, <1>3
    <2>5. Mapped(results)' = [i \in 1 .. Len(results) + 1 |->
              [agent |-> results'[i].agent, code |-> results'[i].code]]
      BY <1>3 DEF Mapped
    <2>. QED
      BY <2>1, <2>3, <2>4, <2>5, <1>2, <1>3
  <1>5. a \notin {x.agent : x \in ToSet(Mapped(results))}
    <2> SUFFICES ASSUME NEW i \in DOMAIN results, results[i].agent = a PROVE FALSE
      BY DEF ToSet, Mapped
    <2>. QED
      BY <1>1 DEF Matched
  <1>6. a \notin Tier!Reported
    BY <1>5 DEF Tier!Reported, Tier!ToSet, ToSet, Mapped
  <1>7. [i \in DOMAIN results |-> [agent |-> results[i].agent, code |-> results[i].code]]'
            = Append([i \in DOMAIN results |-> [agent |-> results[i].agent,
                                                 code |-> results[i].code]],
                     [agent |-> a, code |-> code])
    BY <1>4 DEF Mapped
  <1>. QED
    BY <1>6, <1>7 DEF Tier!Report

\* Dispatch implements AgentTier: whatever is retried, falls back or fails, a caller
\* sees every agent report once.
THEOREM DispatchImplementsTier == Spec => ImplementsTier
  <1>1. Init => Tier!Init
    BY DEF Init, Tier!Init
  <1>2. IInv /\ [Next]_dispatchVars => [Tier!Next]_(Mapped(results))
    <2> SUFFICES ASSUME IInv, [Next]_dispatchVars
                 PROVE  Tier!Next \/ Mapped(results)' = Mapped(results)
      OBVIOUS
    <2>1. ASSUME NEW a \in Agents, Broken(a) PROVE Tier!Next
      <3>1. task[a] # "done" /\ Finish(a, 1) /\ 1 \in Codes
        BY <2>1 DEF Broken, Codes
      <3>2. Tier!Report(a, 1)
        BY <3>1, FinishReports
      <3>. QED
        BY <3>1, <3>2, TierCodes DEF Tier!Next
    <2>2. ASSUME NEW a \in Agents, NEW code \in Codes, Post(a, code)
          PROVE  Tier!Next \/ results' = results
      <3>1. CASE Finish(a, code)
        <4>1. task[a] # "done"
          BY <2>2 DEF Post, Calling
        <4>2. Tier!Report(a, code)
          BY <4>1, <3>1, FinishReports
        <4>. QED
          BY <4>2, TierCodes DEF Tier!Next
      <3>2. CASE Retry(a) \/ Fallback(a)
        BY <3>2 DEF Retry, Fallback
      <3>. QED
        BY <3>1, <3>2, <2>2 DEF Post
    <2>3. ASSUME NEW a \in Agents, Acquire(a) PROVE results' = results
      BY <2>3 DEF Acquire
    <2>4. CASE UNCHANGED dispatchVars
      BY <2>4 DEF dispatchVars, Mapped
    <2>. QED
      BY <2>1, <2>2, <2>3, <2>4 DEF Next, Work, Leave, Mapped
  <1>. QED
    BY <1>1, <1>2, Invariant, PTL DEF Spec, ImplementsTier, Tier!Spec, Mapped
=============================================================================
