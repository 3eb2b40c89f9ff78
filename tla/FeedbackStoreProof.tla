------------------------- MODULE FeedbackStoreProof -------------------------
(***************************************************************************)
(* Proofs about the feedback store, for any number of appends, retries and *)
(* commands and any retention policy: the atomic log keeps what it         *)
(* promises, the append over the Contents API implements it, and the       *)
(* append over /src stores every command once.                             *)
(***************************************************************************)
EXTENDS FeedbackBackends, Sequences, FiniteSetTheorems, WellFoundedInduction, TLAPS

-----------------------------------------------------------------------------
(* The log.  The one fact its invariants rest on is that stored entries    *)
(* are ranked one after the other.                                         *)

\* An entry is stored once, and no two have one rank.
Ranked ==
    /\ \A w \in Writers : rank[w] > 0 => outcomes[w] \in {"stored", "dropped"}
    /\ \A v, w \in Writers : rank[v] = rank[w] /\ v # w => rank[v] = 0

LogInv == Log!TypeOK /\ Ranked /\ Log!NoDuplicates /\ Log!StoredIsKept /\ Log!Bounded

-----------------------------------------------------------------------------
(* Finite sets and the retention operators *)

LEMMA CapacityType == Log!Capacity \in Nat /\ Log!Capacity >= 1
BY LogAssumption DEF Log!Capacity

\* The instance counts as the module does.
LEMMA LogCounts == ASSUME NEW S  PROVE Log!Cardinality(S) = Cardinality(S)
BY DEF Log!Cardinality, Cardinality

LEMMA WritersFinite ==
    ASSUME NEW S \in SUBSET Writers
    PROVE  IsFiniteSet(S) /\ Cardinality(S) \in Nat
BY LogAssumption, FS_Subset, FS_CardinalityType

\* A set of ranked entries has an oldest one.
LEMMA OldestExists ==
    ASSUME NEW f \in [Writers -> Nat], NEW S \in SUBSET Writers, S # {}
    PROVE  \E m \in S : \A x \in S : f[m] <= f[x]
<1>. DEFINE Older(x) == {y \in S : f[y] < f[x]}
            Olders   == {Older(x) : x \in S}
<1>1. Olders \subseteq FiniteSubsetsOf(Writers)
    <2>. SUFFICES ASSUME NEW x \in S  PROVE Older(x) \in FiniteSubsetsOf(Writers)
        OBVIOUS
    <2>1. Older(x) \in SUBSET Writers  OBVIOUS
    <2>. QED  BY <2>1, WritersFinite DEF FiniteSubsetsOf
<1>2. PICK O \in Olders : \A P \in Olders : <<P, O>> \notin StrictSubsetOrdering(Writers)
    <2>1. Olders # {}  OBVIOUS
    <2>2. IsWellFoundedOn(StrictSubsetOrdering(Writers), FiniteSubsetsOf(Writers))
        BY FS_StrictSubsetOrderingWellFounded
    <2>. HIDE DEF Olders
    <2>. QED  BY <1>1, <2>1, <2>2, WFMin
<1>3. PICK m \in S : O = Older(m)  BY <1>2
<1>4. ASSUME NEW x \in S  PROVE f[m] <= f[x]
    <2>. SUFFICES ASSUME f[x] < f[m]  PROVE FALSE  OBVIOUS
    <2>1. Older(x) \subseteq Older(m) /\ x \in Older(m) /\ x \notin Older(x)  OBVIOUS
    <2>2. Older(x) \in SUBSET Writers /\ Older(m) \in SUBSET Writers  OBVIOUS
    <2>3. <<Older(x), Older(m)>> \in StrictSubsetOrdering(Writers)
        BY <2>1, <2>2 DEF StrictSubsetOrdering
    <2>. QED  BY <2>3, <1>2, <1>3
<1>. QED  BY <1>4

\* The newest entry survives retention, and an entry that does not is older than
\* as many others as the log may hold.
LEMMA NewestKeeps ==
    ASSUME NEW all \in SUBSET Writers, NEW w \in all
    PROVE  /\ w \in Log!Newest(all, w) /\ Log!Newest(all, w) \subseteq all
           /\ \A e \in all \ Log!Newest(all, w) : Cardinality(Log!Newer(all, w, e)) >= Log!Capacity
<1>1. Log!Newer(all, w, w) = {}  BY DEF Log!Newer
<1>2. \A e \in all : Cardinality(Log!Newer(all, w, e)) \in Nat
    BY WritersFinite DEF Log!Newer
<1>. QED  BY <1>1, <1>2, FS_EmptySet, CapacityType, LogCounts DEF Log!Newest

\* Retention leaves no more entries than the log may hold.
LEMMA NewestBounded ==
    ASSUME rank \in [Writers -> Nat], NEW all \in SUBSET Writers, NEW w \in Writers,
           \A v, x \in all \ {w} : rank[v] = rank[x] => v = x
    PROVE  Cardinality(Log!Newest(all, w)) <= Log!Capacity
<1>. DEFINE S == Log!Newest(all, w) \ {w}
<1>1. S \in SUBSET Writers /\ S \subseteq all /\ Log!Newest(all, w) \in SUBSET Writers
    BY DEF Log!Newest
<1>2. CASE S = {}
    <2>1. Log!Newest(all, w) \subseteq {w}  BY <1>2
    <2>2. IsFiniteSet({w}) /\ Cardinality({w}) = 1  BY FS_Singleton
    <2>3. Cardinality(Log!Newest(all, w)) <= 1  BY <2>1, <2>2, FS_Subset
    <2>. QED  BY <1>1, <2>3, CapacityType, WritersFinite
<1>3. CASE S # {}
    <2>1. PICK m \in S : \A x \in S : rank[m] <= rank[x]  BY <1>1, <1>3, OldestExists
    <2>. DEFINE Rest == Log!Newest(all, w) \ {m}
    <2>2. Rest \subseteq Log!Newer(all, w, m)
        <3>0. Log!Newest(all, w) \subseteq all  BY DEF Log!Newest
        <3>1. m # w /\ Rest \subseteq all  BY <2>1, <3>0
        <3>. SUFFICES ASSUME NEW x \in Rest, x # w  PROVE rank[x] > rank[m]
            BY <3>1 DEF Log!Newer
        <3>2. x \in S /\ m \in S /\ x # m  OBVIOUS
        <3>3. rank[m] <= rank[x] /\ rank[m] # rank[x]  BY <1>1, <2>1, <3>2
        <3>4. rank[m] \in Nat /\ rank[x] \in Nat  BY <1>1, <3>2
        <3>. QED  BY <3>3, <3>4
    <2>3. Log!Newer(all, w, m) \in SUBSET Writers  BY DEF Log!Newer
    <2>4. Cardinality(Rest) <= Cardinality(Log!Newer(all, w, m))
        BY <2>2, <2>3, WritersFinite, FS_Subset
    <2>5. Cardinality(Log!Newer(all, w, m)) < Log!Capacity  BY <2>1, LogCounts DEF Log!Newest
    <2>6. Cardinality(Rest) = Cardinality(Log!Newest(all, w)) - 1
        BY <1>1, <2>1, WritersFinite, FS_RemoveElement
    <2>7. Rest \in SUBSET Writers  BY <1>1
    <2>. QED  BY <1>1, <2>3, <2>4, <2>5, <2>6, <2>7, WritersFinite, CapacityType
<1>. QED  BY <1>2, <1>3

-----------------------------------------------------------------------------
(* The invariant *)

LEMMA LogStarts == Log!Init => LogInv
<1>. SUFFICES ASSUME Log!Init  PROVE LogInv  OBVIOUS
<1>. USE DEF Log!Init
<1>1. Log!TypeOK  BY LogAssumption DEF Log!TypeOK, Log!Outcomes
<1>2. Ranked  BY DEF Ranked
<1>3. Log!NoDuplicates  BY DEF Log!NoDuplicates
<1>4. Log!StoredIsKept  BY DEF Log!StoredIsKept
<1>5. Log!Bounded  BY FS_EmptySet, CapacityType, LogCounts DEF Log!Bounded
<1>. QED  BY <1>1, <1>2, <1>3, <1>4, <1>5 DEF LogInv

\* A step that stores nothing and takes nothing out keeps the invariant, when only
\* entries that are not stored change and none gets younger.
LEMMA NothingStored ==
    ASSUME LogInv, Log!TypeOK', UNCHANGED <<rank, stored, file>>,
           \A w \in Writers : rank[w] > 0 =>
               /\ key'[w] = key[w] /\ ts'[w] = ts[w] /\ outcomes'[w] = outcomes[w],
           \A w \in Writers : rank[w] > 0 /\ Log!Aged(w) => Log!Aged(w)'
    PROVE  LogInv'
<1>1. Ranked'  BY DEF LogInv, Ranked
<1>2. Log!NoDuplicates'
    BY DEF LogInv, Log!TypeOK, Log!NoDuplicates, Log!Duplicate
<1>3. Log!StoredIsKept'
    <2>1. \A w : Log!NewerStored(w)' = Log!NewerStored(w)  BY DEF Log!NewerStored
    <2>. QED  BY <2>1 DEF LogInv, Log!StoredIsKept, Log!Capacity
<1>4. Log!Bounded'  BY DEF LogInv, Log!Bounded, Log!Capacity
<1>. QED  BY <1>1, <1>2, <1>3, <1>4 DEF LogInv

LEMMA TickKeeps == LogInv /\ Log!Tick => LogInv'
<1>. SUFFICES ASSUME LogInv, Log!Tick  PROVE LogInv'  OBVIOUS
<1>1. Log!TypeOK'  BY LogAssumption DEF LogInv, Log!TypeOK, Log!Tick
<1>2. \A w \in Writers : Log!Aged(w) => Log!Aged(w)'
    BY LogAssumption DEF LogInv, Log!TypeOK, Log!Tick, Log!Aged
<1>. QED  BY <1>1, <1>2, NothingStored DEF Log!Tick

LEMMA AskKeeps == ASSUME NEW w \in Writers, LogInv, Log!Ask(w)  PROVE LogInv'
<1>1. Log!TypeOK'  BY DEF LogInv, Log!TypeOK, Log!Ask, Log!Outcomes
<1>2. ~(rank[w] > 0)  BY DEF LogInv, Ranked, Log!Ask
<1>3. \A v \in Writers : rank[v] > 0 =>
          key'[v] = key[v] /\ ts'[v] = ts[v] /\ outcomes'[v] = outcomes[v]
    BY <1>2 DEF LogInv, Log!TypeOK, Log!Ask
<1>4. \A v \in Writers : rank[v] > 0 /\ Log!Aged(v) => Log!Aged(v)'
    BY <1>3 DEF Log!Ask, Log!Aged
<1>. QED  BY <1>1, <1>3, <1>4, NothingStored DEF Log!Ask

LEMMA EndKeeps == ASSUME NEW w \in Writers, LogInv, Log!Absorb(w) \/ Log!Drop(w)  PROVE LogInv'
<1>1. Log!TypeOK'  BY DEF LogInv, Log!TypeOK, Log!Absorb, Log!Drop, Log!Outcomes
<1>2. ~(rank[w] > 0)  BY DEF LogInv, Ranked, Log!Absorb, Log!Drop
<1>3. \A v \in Writers : rank[v] > 0 => outcomes'[v] = outcomes[v]
    BY <1>2 DEF LogInv, Log!TypeOK, Log!Absorb, Log!Drop
<1>4. \A v \in Writers : Log!Aged(v) => Log!Aged(v)'  BY DEF Log!Absorb, Log!Drop, Log!Aged
<1>. QED  BY <1>1, <1>3, <1>4, NothingStored DEF Log!Absorb, Log!Drop

LEMMA AppendKeeps == ASSUME NEW w \in Writers, LogInv, Log!Append(w)  PROVE LogInv'
<1>. USE DEF LogInv
<1>1. PICK old \in SUBSET {e \in file \cup {w} : Log!Aged(e)} :
          file' = Log!Newest((file \cup {w}) \ old, w)
    BY DEF Log!Append
<1>. DEFINE all == (file \cup {w}) \ old
<1>2. /\ rank[w] = 0 /\ w \notin file /\ outcomes[w] = "pending"
      /\ stored \in Nat /\ rank \in [Writers -> 0 .. stored]
      /\ file \subseteq Writers /\ all \in SUBSET Writers
    BY DEF Log!Append, Log!TypeOK, Ranked
<1>3. rank' = [rank EXCEPT ![w] = stored + 1] /\ stored' = stored + 1
    BY DEF Log!Append
<1>4. \A v \in Writers : IF v = w THEN rank'[v] = stored + 1 ELSE rank'[v] = rank[v]
    BY <1>2, <1>3
<1>5. file' \subseteq all  BY <1>1 DEF Log!Newest
<1>6. PICK told \in {"stored", "dropped"} : outcomes' = [outcomes EXCEPT ![w] = told]
    BY DEF Log!Append
<1>7. UNCHANGED <<now, key, ts>>  BY DEF Log!Append
<1>8. \A e : Log!Aged(e) => Log!Aged(e)'  BY <1>7 DEF Log!Aged
<1>9. Log!TypeOK'
    <2>1. rank' \in [Writers -> 0 .. stored'] /\ stored' \in Nat  BY <1>2, <1>3
    <2>2. outcomes' \in [Writers -> Log!Outcomes]  BY <1>6 DEF Log!TypeOK, Log!Outcomes
    <2>3. file' \subseteq {v \in Writers : rank'[v] > 0}
        BY <1>2, <1>4, <1>5 DEF Log!TypeOK
    <2>. QED  BY <1>7, <2>1, <2>2, <2>3 DEF Log!TypeOK
<1>10. Ranked'
    <2>1. \A v \in Writers : rank'[v] > 0 => outcomes'[v] \in {"stored", "dropped"}
        BY <1>4, <1>6 DEF Log!TypeOK, Ranked
    <2>2. \A v \in Writers : v # w => rank'[v] < stored + 1  BY <1>2, <1>4
    <2>3. ASSUME NEW u \in Writers, NEW v \in Writers, rank'[u] = rank'[v], u # v
          PROVE  rank'[u] = 0
        <3>1. u # w /\ v # w  BY <1>2, <1>4, <2>2, <2>3
        <3>. QED  BY <1>4, <2>3, <3>1 DEF Ranked
    <2>. QED  BY <2>1, <2>3 DEF Ranked
<1>11. Log!NoDuplicates'
    <2>1. ASSUME NEW e \in file', NEW f \in file', e # f, Log!Duplicate(e, f)  PROVE FALSE
        <3>1. CASE e = w
            <4>1. f \in file  BY <1>5, <2>1, <3>1
            <4>. QED  BY <2>1, <3>1, <4>1 DEF Log!Append
        <3>2. CASE f = w
            <4>1. e \in file  BY <1>5, <2>1, <3>2
            <4>2. Log!Duplicate(w, e)  BY <2>1, <3>2 DEF Log!Duplicate
            <4>. QED  BY <4>1, <4>2 DEF Log!Append
        <3>3. CASE e # w /\ f # w
            <4>1. e \in file /\ f \in file  BY <1>5, <3>3
            <4>. QED  BY <2>1, <4>1 DEF Log!NoDuplicates
        <3>. QED  BY <3>1, <3>2, <3>3
    <2>2. \A e, f : Log!Duplicate(e, f)' <=> Log!Duplicate(e, f)  BY <1>7 DEF Log!Duplicate
    <2>. QED  BY <2>1, <2>2 DEF Log!NoDuplicates
<1>12. Log!StoredIsKept'
    <2>. SUFFICES ASSUME NEW e \in Writers, rank'[e] > 0, e \notin file', ~Log!Aged(e)'
                  PROVE  Cardinality(Log!NewerStored(e)') >= Log!Capacity
        BY LogCounts DEF Log!StoredIsKept, Log!Capacity
    <2>1. e \notin old  BY <1>8
    <2>2. e # w
        <3>. SUFFICES ASSUME e = w  PROVE FALSE  OBVIOUS
        <3>1. w \in all  BY <2>1
        <3>2. w \in Log!Newest(all, w)  BY <1>2, <3>1, NewestKeeps
        <3>. QED  BY <1>1, <3>2
    <2>3. rank[e] > 0 /\ rank'[e] = rank[e]  BY <1>4, <2>2
    <2>4. Log!NewerStored(e)' \in SUBSET Writers /\ Log!NewerStored(e) \in SUBSET Writers
        BY DEF Log!NewerStored
    <2>5. Log!NewerStored(e) \subseteq Log!NewerStored(e)'
        BY <1>2, <1>4, <2>2, <2>3 DEF Log!NewerStored
    <2>6. CASE e \in file
        <3>1. e \in all /\ e \notin Log!Newest(all, w)  BY <1>1, <2>1, <2>6
        <3>2. Cardinality(Log!Newer(all, w, e)) >= Log!Capacity
            <4>1. CASE w \in all  BY <1>2, <3>1, <4>1, NewestKeeps
            <4>2. CASE w \notin all
                <5>1. Log!Newer(all, w, e) \in SUBSET Writers  BY <1>2 DEF Log!Newer
                <5>. QED  BY <3>1, <5>1, WritersFinite, CapacityType, LogCounts DEF Log!Newest
            <4>. QED  BY <4>1, <4>2
        <3>3. Log!Newer(all, w, e) \subseteq Log!NewerStored(e)'
            <4>. SUFFICES ASSUME NEW x \in Log!Newer(all, w, e)
                          PROVE  x \in Writers /\ rank'[x] > rank'[e]
                BY DEF Log!NewerStored
            <4>1. x \in Writers /\ (x = w \/ rank[x] > rank[e])  BY <1>2 DEF Log!Newer
            <4>. QED  BY <1>2, <1>4, <2>3, <4>1
        <3>4. Log!Newer(all, w, e) \in SUBSET Writers  BY <1>2 DEF Log!Newer
        <3>5. Cardinality(Log!Newer(all, w, e)) <= Cardinality(Log!NewerStored(e)')
            BY <2>4, <3>3, FS_Subset, WritersFinite
        <3>. QED  BY <2>4, <3>2, <3>4, <3>5, WritersFinite, CapacityType
    <2>7. CASE e \notin file
        <3>1. ~Log!Aged(e)  BY <1>8
        <3>2. Cardinality(Log!NewerStored(e)) >= Log!Capacity
            BY <2>3, <2>7, <3>1, LogCounts DEF Log!StoredIsKept
        <3>3. Cardinality(Log!NewerStored(e)) <= Cardinality(Log!NewerStored(e)')
            BY <2>4, <2>5, FS_Subset, WritersFinite
        <3>. QED  BY <2>4, <3>2, <3>3, WritersFinite, CapacityType
    <2>. QED  BY <2>6, <2>7
<1>13. Log!Bounded'
    <2>1. \A v, x \in all \ {w} : rank[v] = rank[x] => v = x
        BY <1>2 DEF Log!TypeOK, Ranked
    <2>2. rank \in [Writers -> Nat]  BY <1>2
    <2>3. Cardinality(Log!Newest(all, w)) <= Log!Capacity  BY <1>2, <2>1, <2>2, NewestBounded
    <2>. QED  BY <1>1, <2>3, LogCounts DEF Log!Bounded, Log!Capacity
<1>. QED  BY <1>9, <1>10, <1>11, <1>12, <1>13

LEMMA StutterKeeps == LogInv /\ UNCHANGED Log!logVars => LogInv'
<1>. SUFFICES ASSUME LogInv, UNCHANGED Log!logVars  PROVE LogInv'  OBVIOUS
<1>1. Log!TypeOK'  BY DEF LogInv, Log!TypeOK, Log!logVars
<1>2. \A w \in Writers : Log!Aged(w) => Log!Aged(w)'  BY DEF Log!Aged, Log!logVars
<1>. QED  BY <1>1, <1>2, NothingStored DEF Log!logVars

THEOREM LogInductive == Log!Spec => []LogInv
<1>1. LogInv /\ [Log!Next]_(Log!logVars) => LogInv'
    BY TickKeeps, AskKeeps, AppendKeeps, EndKeeps, StutterKeeps DEF Log!Next
<1>. QED  BY LogStarts, <1>1, PTL DEF Log!Spec

\* However many jobs append, in whatever order, no two entries of the log record one
\* deduplicated verdict within the window (_find_recent_duplicate).
THEOREM LogHasNoDuplicates == Log!Spec => []Log!NoDuplicates
<1>1. LogInv => Log!NoDuplicates  BY DEF LogInv
<1>. QED  BY LogInductive, <1>1, PTL

\* An entry that was stored leaves the log only by age, or when as many newer ones as
\* the log may hold have been stored (apply_retention).
THEOREM LogKeepsStored == Log!Spec => []Log!StoredIsKept
<1>1. LogInv => Log!StoredIsKept  BY DEF LogInv
<1>. QED  BY LogInductive, <1>1, PTL

\* The log never holds more entries than retention_count, or one (apply_retention).
THEOREM LogIsBounded == Log!Spec => []Log!Bounded
<1>1. LogInv => Log!Bounded  BY DEF LogInv
<1>. QED  BY LogInductive, <1>1, PTL

-----------------------------------------------------------------------------
(* The append over the Contents API.  The invariant: what an append is     *)
(* about to write is what retention makes of the content it read, and that *)
(* content does not record its verdict.                                    *)

Busy == {"read", "write", "check", "boot"}

\* append has been called and has not returned.
Running ==
    \A w \in Writers : /\ pc[w] = "start" <=> result[w] = "none"
                       /\ pc[w] \in Busy <=> result[w] = "pending"

\* Only appends that returned have stored their entry.
OnlyDoneStored == \A w \in Writers : pc[w] # "done" => rank[w] = 0

\* The content to write is a retention of the content read.
Prepared(w) ==
    /\ \A e \in seen[w] : rank[e] > 0 /\ ~Log!Duplicate(w, e)
    /\ \E old \in SUBSET {e \in seen[w] \cup {w} : Log!Aged(e)} :
           kept[w] = Log!Newest((seen[w] \cup {w}) \ old, w)

Inv == TypeOK /\ Running /\ OnlyDoneStored
       /\ \A w \in Writers : pc[w] = "write" => Prepared(w)

-----------------------------------------------------------------------------

LEMMA ToldWhat ==
    /\ Told("none") = "none" /\ Told("pending") = "pending"
    /\ Told("stored") = "stored" /\ Told("absorbed") = "absorbed"
    /\ \A r \in Dropped : Told(r) = "dropped"
BY DEF Told, Dropped

\* Retention looks at the ranks of the entries it is given, and at no other.
LEMMA NewestStable ==
    ASSUME NEW A, NEW w, \A e \in A : e # w => rank'[e] = rank[e]
    PROVE  Log!Newest(A, w)' = Log!Newest(A, w)
<1>1. \A e \in A : Log!Newer(A, w, e)' = Log!Newer(A, w, e)  BY DEF Log!Newer
<1>. QED  BY <1>1 DEF Log!Newest, Log!Capacity

LEMMA StoreStarts == Init => Inv
<1>. SUFFICES ASSUME Init  PROVE Inv  OBVIOUS
<1>. USE DEF Init
<1>1. TypeOK  BY StoreAssumption, LogAssumption DEF TypeOK
<1>2. Running  BY DEF Running, Busy
<1>3. OnlyDoneStored  BY DEF OnlyDoneStored
<1>. QED  BY <1>1, <1>2, <1>3 DEF Inv

\* What is prepared stays so while the append itself does nothing: entries only get
\* older, and those it has read keep their ranks.
LEMMA PreparedStable ==
    ASSUME NEW w \in Writers, TypeOK, Prepared(w),
           seen'[w] = seen[w], kept'[w] = kept[w], key' = key,
           \A e \in seen[w] \cup {w} : ts'[e] = ts[e],
           \A e \in seen[w] : rank'[e] = rank[e],
           now' \in Nat, now' >= now
    PROVE  Prepared(w)'
<1>1. \A e \in seen[w] : ~(Log!Duplicate(w, e)')
    BY DEF Prepared, Log!Duplicate
<1>2. PICK old \in SUBSET {e \in seen[w] \cup {w} : Log!Aged(e)} :
          kept[w] = Log!Newest((seen[w] \cup {w}) \ old, w)
    BY DEF Prepared
<1>3. \A e \in seen[w] \cup {w} : Log!Aged(e) => Log!Aged(e)'
    BY StoreAssumption, LogAssumption DEF Log!Aged, TypeOK
<1>4. Log!Newest((seen[w] \cup {w}) \ old, w) = kept'[w]
    BY <1>2
<1>5. \A A : (\A e \in A : e # w => rank'[e] = rank[e])
                => Log!Newest(A, w)' = Log!Newest(A, w)
    BY NewestStable
<1>. QED  BY <1>1, <1>2, <1>3, <1>4, <1>5 DEF Prepared

-----------------------------------------------------------------------------
(* The invariant is inductive *)

\* A step of one append that stores nothing and prepares nothing.
LEMMA LocalStep ==
    ASSUME Inv, TypeOK', NEW w \in Writers,
           UNCHANGED <<now, key, rank, seen, kept>>,
           \A v \in Writers : v # w =>
               pc'[v] = pc[v] /\ result'[v] = result[v] /\ ts'[v] = ts[v],
           pc[w] = "start" \/ ts'[w] = ts[w],
           pc[w] # "done", pc'[w] # "write", pc'[w] # "start",
           result'[w] # "none", pc'[w] \in Busy <=> result'[w] = "pending"
    PROVE  Inv'
<1>1. Running'  BY DEF Inv, Running, Busy
<1>2. OnlyDoneStored'  BY DEF Inv, OnlyDoneStored
<1>3. ASSUME NEW v \in Writers, pc'[v] = "write"  PROVE Prepared(v)'
    <2>1. v # w /\ pc[v] = "write" /\ Prepared(v)  BY <1>3 DEF Inv
    <2>2. \A e \in seen[v] : rank[e] > 0  BY <2>1 DEF Prepared
    <2>3. seen[v] \subseteq Writers  BY DEF Inv, TypeOK
    <2>4. \A e \in seen[v] \cup {v} : ts'[e] = ts[e]
        BY <2>1, <2>2, <2>3 DEF Inv, OnlyDoneStored
    <2>5. now' \in Nat /\ now' >= now  BY DEF Inv, TypeOK
    <2>. QED  BY <2>1, <2>4, <2>5, PreparedStable DEF Inv
<1>. QED  BY <1>1, <1>2, <1>3 DEF Inv

LEMMA TickInv == Inv /\ Tick => Inv'
<1>. SUFFICES ASSUME Inv, Tick  PROVE Inv'  OBVIOUS
<1>. USE DEF Inv, Tick, remote, local
<1>1. TypeOK'  BY StoreAssumption, LogAssumption DEF TypeOK
<1>2. Running' /\ OnlyDoneStored'  BY DEF Running, OnlyDoneStored
<1>3. ASSUME NEW w \in Writers, pc'[w] = "write"  PROVE Prepared(w)'
    <2>1. now' \in Nat /\ now' >= now  BY DEF TypeOK
    <2>. QED  BY <1>3, <2>1, PreparedStable
<1>. QED  BY <1>1, <1>2, <1>3

LEMMA StartInv == ASSUME NEW w \in Writers, Inv, Start(w)  PROVE Inv'
<1>1. TypeOK'  BY StoreAssumption, LogAssumption DEF Inv, TypeOK, Start, remote
<1>. QED  BY <1>1, LocalStep DEF Inv, TypeOK, Start, remote, Busy

\* The steps of append that store nothing and prepare nothing.
LEMMA OtherInv ==
    ASSUME NEW w \in Writers, Inv,
           \/ WriteConflict(w) \/ WriteRefused(w) \/ CheckBranch(w)
           \/ Bootstrap(w) \/ BootstrapFails(w) \/ Fail(w)
    PROVE  Inv'
<1>. USE DEF Inv, TypeOK, remote, Busy, Return, Again, Dropped
<1>1. CASE WriteConflict(w)
    <2>1. TypeOK'  BY <1>1, StoreAssumption, LogAssumption DEF WriteConflict
    <2>. QED  BY <1>1, <2>1, LocalStep DEF WriteConflict, Running
<1>2. CASE WriteRefused(w)
    <2>1. TypeOK'  BY <1>2 DEF WriteRefused
    <2>. QED  BY <1>2, <2>1, LocalStep DEF WriteRefused, Running
<1>3. CASE CheckBranch(w)
    <2>1. TypeOK'  BY <1>3 DEF CheckBranch
    <2>. QED  BY <1>3, <2>1, LocalStep DEF CheckBranch, Running
<1>4. CASE Bootstrap(w)
    <2>1. TypeOK'
        <3>1. branch' = branch \/ branch' = TRUE  BY <1>4 DEF Bootstrap
        <3>2. branch' \in BOOLEAN  BY <3>1
        <3>3. attempt' \in [Writers -> 1 .. MaxRetries]
            BY <1>4, StoreAssumption, LogAssumption DEF Bootstrap
        <3>4. pc' \in [Writers -> {"start", "read", "write", "check", "boot", "done"}]
            BY <1>4 DEF Bootstrap
        <3>5. result' \in [Writers -> {"none", "pending", "stored", "absorbed"} \cup Dropped]
            BY <1>4 DEF Bootstrap
        <3>6. UNCHANGED <<now, key, ts, file, rank, stored, seen, kept, bootTried>>
            BY <1>4 DEF Bootstrap
        <3>. QED  BY <3>2, <3>3, <3>4, <3>5, <3>6
    <2>. QED  BY <1>4, <2>1, LocalStep DEF Bootstrap, Running
<1>5. CASE BootstrapFails(w)
    <2>1. TypeOK'  BY <1>5 DEF BootstrapFails
    <2>. QED  BY <1>5, <2>1, LocalStep DEF BootstrapFails, Running
<1>6. CASE Fail(w)
    <2>1. TypeOK'  BY <1>6 DEF Fail
    <2>. QED  BY <1>6, <2>1, LocalStep DEF Fail, Running
<1>. QED  BY <1>1, <1>2, <1>3, <1>4, <1>5, <1>6

LEMMA ReadInv == ASSUME NEW w \in Writers, Inv, Read(w)  PROVE Inv'
<1>. USE DEF Inv, remote
<1>1. CASE \E e \in file : Log!Duplicate(w, e)
    <2>1. /\ pc[w] = "read" /\ pc' = [pc EXCEPT ![w] = "done"]
          /\ result' = [result EXCEPT ![w] = "absorbed"]
          /\ UNCHANGED <<now, key, ts, branch, file, rank, stored, seen, kept,
                         attempt, bootTried>>
        BY <1>1 DEF Read, Return
    <2>2. TypeOK'  BY <2>1 DEF TypeOK
    <2>. QED  BY <2>1, <2>2, LocalStep DEF TypeOK, Busy
<1>2. CASE ~\E e \in file : Log!Duplicate(w, e)
    <2>1. /\ pc[w] = "read" /\ pc' = [pc EXCEPT ![w] = "write"]
          /\ seen' = [seen EXCEPT ![w] = file]
          /\ kept' = [kept EXCEPT ![w] = Retention(w, file)]
          /\ UNCHANGED <<result, now, key, ts, branch, file, rank, stored, attempt, bootTried>>
        BY <1>2 DEF Read
    <2>2. Retention(w, file) \in SUBSET Writers
        BY DEF Retention, Log!Newest, TypeOK
    <2>3. TypeOK'
        <3>1. seen' \in [Writers -> SUBSET Writers] /\ kept' \in [Writers -> SUBSET Writers]
            BY <2>1, <2>2 DEF TypeOK
        <3>2. pc' \in [Writers -> {"start", "read", "write", "check", "boot", "done"}]
            BY <2>1 DEF TypeOK
        <3>. QED  BY <2>1, <3>1, <3>2 DEF TypeOK
    <2>4. Running'  BY <2>1 DEF Running, TypeOK, Busy
    <2>5. OnlyDoneStored'  BY <2>1 DEF OnlyDoneStored, TypeOK
    <2>6. ASSUME NEW v \in Writers, v # w, pc'[v] = "write"  PROVE Prepared(v)'
        <3>1. pc[v] = "write" /\ seen'[v] = seen[v] /\ kept'[v] = kept[v]
            BY <2>1, <2>6 DEF TypeOK
        <3>2. now' \in Nat /\ now' >= now  BY <2>1 DEF TypeOK
        <3>. QED  BY <2>1, <3>1, <3>2, PreparedStable
    <2>7. Prepared(w)'
        <3>1. seen'[w] = file /\ kept'[w] = Retention(w, file)
            BY <2>1, <2>2 DEF TypeOK
        <3>. DEFINE old == {e \in file \cup {w} : Log!Aged(e)}
        <3>2. {e \in file \cup {w} : ~Log!Aged(e)} = (file \cup {w}) \ old  OBVIOUS
        <3>3. kept'[w] = Log!Newest((file \cup {w}) \ old, w)
            BY <3>1, <3>2 DEF Retention
        <3>4. \A A : Log!Newest(A, w)' = Log!Newest(A, w)
            BY <2>1 DEF Log!Newest, Log!Newer, Log!Capacity
        <3>5. \A e : Log!Aged(e)' <=> Log!Aged(e)  BY <2>1 DEF Log!Aged
        <3>6. \A e : Log!Duplicate(w, e)' <=> Log!Duplicate(w, e)
            BY <2>1 DEF Log!Duplicate
        <3>7. \A e \in file : rank'[e] > 0  BY <2>1 DEF TypeOK
        <3>. QED  BY <1>2, <3>1, <3>3, <3>4, <3>5, <3>6, <3>7 DEF Prepared
    <2>. QED  BY <2>3, <2>4, <2>5, <2>6, <2>7
<1>. QED  BY <1>1, <1>2

LEMMA WriteOkInv == ASSUME NEW w \in Writers, Inv, WriteOk(w)  PROVE Inv'
<1>. USE DEF Inv
<1>1. PICK r \in {"stored", "failed"} : Return(w, r)  BY DEF WriteOk
<1>2. /\ pc[w] = "write" /\ pc' = [pc EXCEPT ![w] = "done"]
      /\ result' = [result EXCEPT ![w] = r]
      /\ file' = kept[w] /\ stored' = stored + 1
      /\ rank' = [rank EXCEPT ![w] = stored + 1]
      /\ UNCHANGED <<now, key, ts, branch, seen, kept, attempt, bootTried>>
      /\ seen[w] = file
    BY <1>1 DEF WriteOk, Return, Current
<1>3. \A v \in Writers : IF v = w THEN rank'[v] = stored + 1 ELSE rank'[v] = rank[v]
    BY <1>2 DEF TypeOK
<1>4. rank[w] = 0 /\ Prepared(w) /\ stored \in Nat
    BY <1>2 DEF OnlyDoneStored, TypeOK
<1>5. kept[w] \subseteq file \cup {w}
    BY <1>2, <1>4 DEF Prepared, Log!Newest
<1>6. TypeOK'
    <2>1. file' \subseteq {v \in Writers : rank'[v] > 0}
        BY <1>2, <1>3, <1>4, <1>5 DEF TypeOK
    <2>2. rank' \in [Writers -> 0 .. stored'] /\ stored' \in Nat
        BY <1>2, <1>4 DEF TypeOK
    <2>3. pc' \in [Writers -> {"start", "read", "write", "check", "boot", "done"}]
        BY <1>2 DEF TypeOK
    <2>4. result' \in [Writers -> {"none", "pending", "stored", "absorbed"} \cup Dropped]
        BY <1>2 DEF TypeOK, Dropped
    <2>. QED  BY <1>2, <2>1, <2>2, <2>3, <2>4 DEF TypeOK
<1>7. Running'  BY <1>2 DEF Running, TypeOK, Busy
<1>8. OnlyDoneStored'  BY <1>2, <1>3 DEF OnlyDoneStored, TypeOK
<1>9. ASSUME NEW v \in Writers, pc'[v] = "write"  PROVE Prepared(v)'
    <2>1. v # w /\ pc[v] = "write" /\ Prepared(v)  BY <1>2, <1>9 DEF TypeOK
    <2>2. \A e \in seen[v] : rank[e] > 0 /\ e \in Writers  BY <2>1 DEF Prepared, TypeOK
    <2>3. \A e \in seen[v] : rank'[e] = rank[e]  BY <1>3, <1>4, <2>2
    <2>4. now' \in Nat /\ now' >= now  BY <1>2 DEF TypeOK
    <2>. QED  BY <1>2, <2>1, <2>3, <2>4, PreparedStable
<1>. QED  BY <1>6, <1>7, <1>8, <1>9

THEOREM StoreInductive == Spec => []Inv
<1>1. Inv /\ [Next]_vars => Inv'
    <2>. SUFFICES ASSUME Inv, [Next]_vars  PROVE Inv'  OBVIOUS
    <2>1. CASE UNCHANGED vars
        <3>. USE <2>1 DEF Inv, vars, remote, local
        <3>1. TypeOK' /\ Running' /\ OnlyDoneStored'  BY DEF TypeOK, Running, OnlyDoneStored
        <3>2. ASSUME NEW w \in Writers, pc'[w] = "write"  PROVE Prepared(w)'
            <4>1. now' \in Nat /\ now' >= now  BY DEF TypeOK
            <4>. QED  BY <3>2, <4>1, PreparedStable
        <3>. QED  BY <3>1, <3>2
    <2>2. CASE Next
        BY <2>2, TickInv, StartInv, ReadInv, WriteOkInv, OtherInv DEF Next, Step
    <2>. QED  BY <2>1, <2>2
<1>. QED  BY StoreStarts, <1>1, PTL DEF Spec

-----------------------------------------------------------------------------
(* Refinement *)

\* A step that ends the append of w with r, or goes on with it.
LEMMA OutcomeOf ==
    ASSUME TypeOK, NEW w \in Writers, NEW r, result' = [result EXCEPT ![w] = r]
    PROVE  outcomes' = [outcomes EXCEPT ![w] = Told(r)]
BY DEF outcomes, TypeOK, Told

LEMMA DropStep ==
    ASSUME Inv, NEW w \in Writers, NEW r \in Dropped, pc[w] \in Busy,
           result' = [result EXCEPT ![w] = r],
           UNCHANGED <<now, key, ts, rank, stored, file>>
    PROVE  Log!Drop(w)
<1>1. outcomes' = [outcomes EXCEPT ![w] = "dropped"]
    BY OutcomeOf, ToldWhat DEF Inv
<1>2. outcomes[w] = "pending"  BY ToldWhat DEF Inv, Running, outcomes
<1>. QED  BY <1>1, <1>2 DEF Log!Drop, outcomes

LEMMA StutterStep ==
    ASSUME UNCHANGED <<result, now, key, ts, rank, stored, file>>
    PROVE  UNCHANGED Log!logVars
BY DEF Log!logVars, outcomes

LEMMA WriteOkStep == ASSUME Inv, NEW w \in Writers, WriteOk(w)  PROVE Log!Append(w)
<1>. USE DEF Inv
<1>1. PICK r \in {"stored", "failed"} : Return(w, r)  BY DEF WriteOk
<1>2. Prepared(w) /\ outcomes[w] = "pending" /\ seen[w] = file /\ file' = kept[w]
    BY ToldWhat DEF WriteOk, Current, Running, outcomes, Busy
<1>3. ~\E e \in file : Log!Duplicate(w, e)  BY <1>2 DEF Prepared
<1>4. \E old \in SUBSET {e \in file \cup {w} : Log!Aged(e)} :
          file' = Log!Newest((file \cup {w}) \ old, w)
    BY <1>2 DEF Prepared
<1>5. outcomes' = [outcomes EXCEPT ![w] = Told(r)]  BY <1>1, OutcomeOf DEF Return
<1>6. Told(r) \in {"stored", "dropped"}  BY <1>1, ToldWhat DEF Dropped
<1>7. stored' = stored + 1 /\ rank' = [rank EXCEPT ![w] = stored + 1]
      /\ UNCHANGED <<now, key, ts>>
    BY DEF WriteOk
<1>. QED  BY <1>2, <1>3, <1>4, <1>5, <1>6, <1>7 DEF Log!Append, outcomes

LEMMA ReadStep ==
    ASSUME Inv, NEW w \in Writers, Read(w)
    PROVE  Log!Absorb(w) \/ UNCHANGED Log!logVars
<1>1. CASE \E e \in file : Log!Duplicate(w, e)
    <2>1. result' = [result EXCEPT ![w] = "absorbed"] /\ pc[w] = "read"
        BY <1>1 DEF Read, Return
    <2>2. outcomes' = [outcomes EXCEPT ![w] = Told("absorbed")]
        BY <2>1, OutcomeOf DEF Inv
    <2>3. outcomes[w] = "pending"  BY <2>1, ToldWhat DEF Inv, Running, outcomes, Busy
    <2>4. UNCHANGED <<now, key, ts, rank, stored, file>>  BY DEF Read, remote
    <2>. QED  BY <1>1, <2>2, <2>3, <2>4, ToldWhat DEF Log!Absorb, outcomes
<1>2. CASE ~\E e \in file : Log!Duplicate(w, e)
    BY <1>2, StutterStep DEF Read, remote
<1>. QED  BY <1>1, <1>2

LEMMA StartStep == ASSUME Inv, NEW w \in Writers, Start(w)  PROVE Log!Ask(w)
<1>1. outcomes' = [outcomes EXCEPT ![w] = Told("pending")]
    BY OutcomeOf DEF Start, Inv
<1>2. outcomes[w] = "none"  BY ToldWhat DEF Start, Inv, Running, outcomes
<1>. QED  BY <1>1, <1>2, ToldWhat DEF Start, remote, Log!Ask, outcomes

LEMMA OtherStep ==
    ASSUME Inv, NEW w \in Writers,
           \/ WriteConflict(w) \/ WriteRefused(w) \/ CheckBranch(w)
           \/ Bootstrap(w) \/ BootstrapFails(w) \/ Fail(w)
    PROVE  Log!Drop(w) \/ UNCHANGED Log!logVars
<1>1. pc[w] \in Busy /\ UNCHANGED <<now, key, ts, rank, stored, file>>
    BY DEF WriteConflict, WriteRefused, CheckBranch, Bootstrap, BootstrapFails, Fail,
           Busy, remote
<1>2. \/ \E r \in Dropped : result' = [result EXCEPT ![w] = r]
      \/ UNCHANGED result
    BY DEF WriteConflict, WriteRefused, CheckBranch, Bootstrap, BootstrapFails, Fail,
           Again, Return, Dropped
<1>. QED  BY <1>1, <1>2, DropStep, StutterStep

\* Every step of the store is a step of the atomic log or changes nothing in it
\* (store.py: _StoreCore.append over _GitHubContentsBackend).
THEOREM StoreImplementsLog == Spec => ImplementsLog
<1>1. Init => Log!Init
    <2>. SUFFICES ASSUME Init  PROVE Log!Init  OBVIOUS
    <2>1. outcomes = [w \in Writers |-> "none"]  BY ToldWhat DEF Init, outcomes
    <2>. QED  BY <2>1 DEF Init, Log!Init, outcomes
<1>2. Inv /\ [Next]_vars => [Log!Next]_(Log!logVars)
    <2>. SUFFICES ASSUME Inv, [Next]_vars  PROVE [Log!Next]_(Log!logVars)  OBVIOUS
    <2>1. CASE Tick
        BY <2>1 DEF Tick, remote, local, Log!Tick, Log!Next, outcomes
    <2>2. ASSUME NEW w \in Writers, Start(w) \/ Step(w)
          PROVE  [Log!Next]_(Log!logVars)
        BY <2>2, StartStep, ReadStep, WriteOkStep, OtherStep DEF Step, Log!Next
    <2>3. CASE UNCHANGED vars
        BY <2>3, StutterStep DEF vars, remote, local
    <2>. QED  BY <2>1, <2>2, <2>3 DEF Next
<1>. QED  BY StoreInductive, <1>1, <1>2, PTL DEF Spec, ImplementsLog, Log!Spec

-----------------------------------------------------------------------------
(* What the log promises holds of the store. *)

\* Two jobs that record one verdict within the window leave one entry, wherever their
\* reads and writes interleave (store.py: _append_once, _find_recent_duplicate).
THEOREM StoreHasNoDuplicates == Spec => []NoDuplicates
BY StoreImplementsLog, LogHasNoDuplicates, PTL DEF ImplementsLog, NoDuplicates

\* No append overwrites the entry that another one stored since it read the file: an
\* entry goes only by age, or for as many newer ones as the file may hold.
THEOREM StoreKeepsStored == Spec => []StoredIsKept
BY StoreImplementsLog, LogKeepsStored, PTL DEF ImplementsLog, StoredIsKept

-----------------------------------------------------------------------------
(* Races.  An append that read a file read what another had stored, and    *)
(* every write it lost was won by one more.                                *)

Others(w) == Cardinality({x \in Writers \ {w} : rank[x] > 0})

\* An append is in its first attempt when it creates the branch: a branch that has a file
\* is there to stay.
Overtaken(w) ==
    /\ Lost(w) > 0 => Others(w) > Lost(w)
    /\ attempt[w] > 1 /\ ~bootTried[w] => branch
    /\ pc[w] = "boot" => attempt[w] = 1 /\ bootTried[w]
    /\ pc[w] = "write" /\ seen[w] # {} =>
           /\ branch /\ Others(w) > Lost(w)
           /\ seen[w] # file => Others(w) > Lost(w) + 1

RaceInv == (file # {} => branch) /\ \A w \in Writers : Overtaken(w)

\* How many lost races an append's local variables stand for.
LostAs(n, r, b) ==
    n - 1 + (IF r = "exhausted" THEN 1 ELSE 0) - (IF b THEN 1 ELSE 0)

LEMMA RaceTypes ==
    ASSUME TypeOK, NEW w \in Writers
    PROVE  /\ Others(w) \in Nat /\ Lost(w) \in Int
           /\ Lost(w) = LostAs(attempt[w], result[w], bootTried[w])
<1>1. {x \in Writers \ {w} : rank[x] > 0} \in SUBSET Writers  OBVIOUS
<1>2. attempt[w] \in Int  BY StoreAssumption DEF TypeOK
<1>. QED  BY <1>1, <1>2, WritersFinite DEF Others, Lost, LostAs

\* A step of one append that stores nothing leaves the others as overtaken as they were.
LEMMA OwnStep ==
    ASSUME Inv, Inv', RaceInv, NEW w \in Writers, branch' \in {branch, TRUE},
           UNCHANGED <<file, rank>>,
           \A v \in Writers \ {w} :
               /\ pc'[v] = pc[v] /\ attempt'[v] = attempt[v] /\ bootTried'[v] = bootTried[v]
               /\ result'[v] = result[v] /\ seen'[v] = seen[v],
           Overtaken(w)'
    PROVE  RaceInv'
<1>1. branch \in BOOLEAN  BY DEF Inv, TypeOK
<1>2. ASSUME NEW v \in Writers \ {w}  PROVE Overtaken(v)'
    <2>1. Others(v)' = Others(v) /\ Lost(v)' = Lost(v)  BY DEF Others, Lost
    <2>2. Overtaken(v)  BY DEF RaceInv
    <2>. QED  BY <1>1, <2>1, <2>2 DEF Overtaken
<1>. QED  BY <1>1, <1>2 DEF RaceInv

\* A read that finds a file finds what another append has stored.
LEMMA ReadRaces == ASSUME Inv, Inv', RaceInv, NEW w \in Writers, Read(w)  PROVE RaceInv'
<1>1. /\ pc[w] = "read" /\ result[w] = "pending" /\ rank[w] = 0 /\ TypeOK /\ TypeOK'
      /\ UNCHANGED <<rank, file, branch, attempt, bootTried>>
    BY DEF Read, Inv, Running, Busy, OnlyDoneStored, remote
<1>2. Others(w)' = Others(w) /\ Others(w) \in Nat /\ Lost(w) \in Int
    BY <1>1, RaceTypes DEF Others
<1>3. pc'[w] \in {"done", "write"} /\ result'[w] \in {"absorbed", "pending"}
      /\ (pc'[w] = "write" => seen'[w] = file)
    BY <1>1 DEF Read, Return, TypeOK
<1>4. Lost(w)' = Lost(w)  BY <1>1, <1>3 DEF Lost
<1>5. ASSUME file # {}  PROVE Others(w) >= 1
    <2>1. {x \in Writers \ {w} : rank[x] > 0} # {}  BY <1>1, <1>5 DEF TypeOK
    <2>2. {x \in Writers \ {w} : rank[x] > 0} \in SUBSET Writers  OBVIOUS
    <2>. QED  BY <1>2, <2>1, <2>2, WritersFinite, FS_EmptySet DEF Others
<1>6. Overtaken(w)'
    BY <1>1, <1>2, <1>3, <1>4, <1>5 DEF RaceInv, Overtaken
<1>. QED  BY <1>1, <1>6, OwnStep DEF Read, Return, TypeOK

\* A write that is accepted overtakes the appends that have read before it.
LEMMA WriteRaces == ASSUME Inv, Inv', RaceInv, NEW w \in Writers, WriteOk(w)  PROVE RaceInv'
<1>1. PICK r \in {"stored", "failed"} : Return(w, r)  BY DEF WriteOk
<1>2. /\ TypeOK /\ pc[w] = "write" /\ branch /\ rank[w] = 0 /\ result[w] = "pending"
      /\ rank' = [rank EXCEPT ![w] = stored + 1] /\ stored \in Nat
      /\ UNCHANGED <<branch, seen, attempt, bootTried>>
      /\ pc'[w] = "done" /\ result'[w] = r
      /\ \A v \in Writers \ {w} : pc'[v] = pc[v] /\ result'[v] = result[v]
    BY <1>1 DEF WriteOk, Current, Return, Inv, TypeOK, OnlyDoneStored, Running, Busy
<1>3. Overtaken(w)'
    <2>1. Others(w)' = Others(w)  BY <1>2 DEF Others, TypeOK
    <2>2. Lost(w)' = Lost(w)  BY <1>2 DEF Lost
    <2>. QED  BY <1>2, <2>1, <2>2 DEF RaceInv, Overtaken
<1>4. ASSUME NEW v \in Writers \ {w}  PROVE Overtaken(v)'
    <2>1. Lost(v)' = Lost(v)  BY <1>2 DEF Lost
    <2>2. Others(v)' = Others(v) + 1
        <3>. DEFINE S == {x \in Writers \ {v} : rank[x] > 0}
        <3>1. {x \in Writers \ {v} : rank'[x] > 0} = S \cup {w} /\ w \notin S
            BY <1>2 DEF TypeOK
        <3>2. S \in SUBSET Writers  OBVIOUS
        <3>. QED  BY <3>1, <3>2, WritersFinite, FS_AddElement DEF Others
    <2>3. Others(v) \in Nat /\ Lost(v) \in Int  BY <1>2, RaceTypes
    <2>4. Overtaken(v)  BY DEF RaceInv
    <2>. QED  BY <1>2, <2>1, <2>2, <2>3, <2>4 DEF Overtaken
<1>. QED  BY <1>2, <1>3, <1>4 DEF RaceInv

\* A conflict is a race lost to an append that stored its entry in between.
LEMMA ConflictRaces ==
    ASSUME Inv, Inv', RaceInv, NEW w \in Writers, WriteConflict(w)  PROVE RaceInv'
<1>1. /\ TypeOK /\ TypeOK' /\ pc[w] = "write" /\ result[w] = "pending"
      /\ seen[w] # {} /\ seen[w] # file /\ branch
      /\ UNCHANGED <<rank, file, branch, bootTried>>
      /\ pc'[w] \in {"read", "done"}
      /\ \/ result'[w] = "pending" /\ attempt'[w] = attempt[w] + 1
         \/ result'[w] = "exhausted" /\ attempt'[w] = attempt[w]
    BY DEF WriteConflict, Current, Again, Return, Inv, TypeOK, Running, Busy, remote,
           RaceInv, Overtaken
<1>2. Others(w)' = Others(w) /\ Others(w) \in Nat /\ Lost(w) \in Int
    BY <1>1, RaceTypes DEF Others
<1>3. attempt[w] \in Int  BY <1>1, StoreAssumption DEF TypeOK
<1>4. Lost(w)' = Lost(w) + 1  BY <1>3, <1>1, <1>2 DEF Lost
<1>5. Overtaken(w)'  BY <1>1, <1>2, <1>4 DEF RaceInv, Overtaken
<1>. QED  BY <1>1, <1>5, OwnStep DEF WriteConflict, Again, Return, TypeOK, remote

\* The attempt that a bootstrap takes is not a lost race.
LEMMA BootstrapRaces ==
    ASSUME Inv, Inv', RaceInv, NEW w \in Writers, Bootstrap(w)  PROVE RaceInv'
<1>1. /\ TypeOK /\ pc[w] = "boot" /\ result[w] = "pending" /\ branch' \in {branch, TRUE}
      /\ attempt[w] = 1 /\ bootTried[w]
      /\ UNCHANGED <<rank, file, bootTried, seen>>
    BY DEF Bootstrap, Inv, Running, Busy, RaceInv, Overtaken
<1>2. /\ pc'[w] \in {"read", "done"}
      /\ \/ result'[w] = "pending" /\ attempt'[w] = 2
         \/ result'[w] = "exhausted" /\ attempt'[w] = 1
    <2>1. CASE attempt[w] < MaxRetries  BY <1>1, <2>1 DEF Bootstrap, Again, TypeOK
    <2>2. CASE ~(attempt[w] < MaxRetries)  BY <1>1, <2>2 DEF Bootstrap, Again, Return, TypeOK
    <2>. QED  BY <2>1, <2>2
<1>3. Lost(w)' = 0  BY <1>1, <1>2 DEF Lost
<1>4. Overtaken(w)'  BY <1>1, <1>2, <1>3 DEF Overtaken
<1>5. \A v \in Writers \ {w} : /\ pc'[v] = pc[v] /\ attempt'[v] = attempt[v]
                              /\ result'[v] = result[v]
    <2>1. CASE attempt[w] < MaxRetries  BY <1>1, <2>1 DEF Bootstrap, Again, TypeOK
    <2>2. CASE ~(attempt[w] < MaxRetries)  BY <1>1, <2>2 DEF Bootstrap, Again, Return, TypeOK
    <2>. QED  BY <2>1, <2>2
<1>. QED  BY <1>1, <1>4, <1>5, OwnStep DEF Bootstrap, Again, Return, TypeOK

\* The other steps lose nothing.
LEMMA OtherRaces ==
    ASSUME Inv, Inv', RaceInv, NEW w \in Writers,
           Start(w) \/ WriteRefused(w) \/ CheckBranch(w) \/ BootstrapFails(w) \/ Fail(w)
    PROVE  RaceInv'
<1>1. /\ TypeOK /\ TypeOK' /\ UNCHANGED <<rank, file, branch, seen, attempt>>
      /\ result[w] # "exhausted" /\ result'[w] # "exhausted" /\ pc'[w] # "write"
      /\ \/ bootTried'[w] = bootTried[w] /\ pc'[w] # "boot"
         \/ bootTried'[w] /\ ~bootTried[w] /\ ~branch /\ pc'[w] = "boot"
    BY DEF Start, WriteRefused, CheckBranch, BootstrapFails, Fail, Return, Inv, TypeOK,
           Running, Busy, remote
<1>2. Others(w)' = Others(w) /\ Others(w) \in Nat /\ Lost(w) \in Int
    BY <1>1, RaceTypes DEF Others
<1>3. attempt[w] \in Int /\ attempt[w] >= 1 /\ bootTried[w] \in BOOLEAN
    BY <1>1, StoreAssumption DEF TypeOK
<1>4. Overtaken(w)  BY DEF RaceInv
<1>5. CASE bootTried'[w] = bootTried[w] /\ pc'[w] # "boot"
    <2>1. Lost(w)' = Lost(w)  BY <1>1, <1>5 DEF Lost
    <2>. QED  BY <1>1, <1>2, <1>4, <1>5, <2>1, OwnStep
              DEF Overtaken, Start, WriteRefused, CheckBranch, BootstrapFails, Fail, Return,
                  TypeOK
<1>6. CASE bootTried'[w] /\ ~bootTried[w] /\ ~branch /\ pc'[w] = "boot"
    <2>1. attempt'[w] = 1  BY <1>1, <1>2, <1>3, <1>4, <1>6 DEF Overtaken
    <2>2. Lost(w)' = -1  BY <1>1, <1>6, <2>1 DEF Lost
    <2>3. Overtaken(w)'  BY <1>6, <2>1, <2>2, <1>1 DEF Overtaken
    <2>. QED  BY <1>1, <2>3, OwnStep
              DEF Start, WriteRefused, CheckBranch, BootstrapFails, Fail, Return, TypeOK
<1>. QED  BY <1>1, <1>5, <1>6

\* The lock is optimistic, not starving: whatever interleaves, an append that lost n
\* races has been overtaken by more than n others (_StoreCore.append).
THEOREM RacesAreWon == Spec => []LostRacesNeedCommits
<1>1. Init => RaceInv
    <2>. SUFFICES ASSUME Init, NEW w \in Writers  PROVE Overtaken(w)
        BY DEF RaceInv, Init
    <2>1. Lost(w) = 0  BY DEF Init, Lost
    <2>. QED  BY <2>1 DEF Init, Overtaken
<1>2. Inv /\ Inv' /\ RaceInv /\ [Next]_vars => RaceInv'
    <2>. SUFFICES ASSUME Inv, Inv', RaceInv, [Next]_vars  PROVE RaceInv'  OBVIOUS
    <2>1. CASE UNCHANGED vars \/ Tick
        BY <2>1 DEF vars, Tick, remote, local, RaceInv, Overtaken, Others, Lost
    <2>2. CASE \E w \in Writers : Start(w) \/ Step(w)
        BY <2>2, ReadRaces, WriteRaces, ConflictRaces, BootstrapRaces, OtherRaces DEF Step
    <2>. QED  BY <2>1, <2>2 DEF Next
<1>3. RaceInv => LostRacesNeedCommits
    BY DEF RaceInv, Overtaken, LostRacesNeedCommits, Others
<1>. QED  BY StoreInductive, <1>1, <1>2, <1>3, PTL DEF Spec

-----------------------------------------------------------------------------
(* The append over /src.  The invariant follows an entry that some run was *)
(* told of: it is in the file, and in everything that may still replace    *)
(* the file.                                                               *)

Pcs == {"pending", "read", "boot", "write", "verify", "told"}

JobType == [pc : Pcs, kept : Seq(Commands), current : BOOLEAN, attempt : Int,
            booted : BOOLEAN, late : SUBSET Commands]

SrcTypeOK ==
    /\ refuses \in BOOLEAN
    /\ content \in Seq(Commands)
    /\ job \in [Commands -> JobType]

\* What an append is about to write, or has written, holds its entry, and none twice.
SrcPrepared(c) ==
    job[c].pc \in {"write", "verify"} =>
        Bitbucket!IsInjective(job[c].kept) /\ Bitbucket!Contains(job[c].kept, c)

\* An append on top of the head keeps the entries of the file.
KeepsFile(d) ==
    job[d].pc = "write" /\ job[d].current =>
        \A c \in Commands : Bitbucket!Contains(content, c) => Bitbucket!Contains(job[d].kept, c)

\* The commit of d would be made.
MayWrite(d) == job[d].pc = "write" /\ (refuses => job[d].current)

\* The entry of c is in the file to stay.
Settled(c) ==
    /\ Bitbucket!Contains(content, c)
    /\ \A d \in Commands : MayWrite(d) => Bitbucket!Contains(job[d].kept, c)

\* Nothing that /src will not refuse was prepared without the entry of c.
NothingLate(c) == job[c].pc = "told" /\ (refuses \/ job[c].late = {})

SrcInv ==
    /\ SrcTypeOK
    /\ Bitbucket!IsInjective(content)
    /\ \A c \in Commands : SrcPrepared(c) /\ KeepsFile(c)
    /\ \A c \in Commands : NothingLate(c) => Settled(c)

-----------------------------------------------------------------------------
(* Sequences *)

LEMMA EmptyIsInjective == <<>> \in Seq(Commands) /\ Bitbucket!IsInjective(<<>>)
BY DEF Bitbucket!IsInjective

\* An entry that was not there is added at the end.
LEMMA AppendNew ==
    ASSUME NEW s \in Seq(Commands), NEW c \in Commands, Bitbucket!IsInjective(s), ~Bitbucket!Contains(s, c)
    PROVE  /\ Append(s, c) \in Seq(Commands)
           /\ Bitbucket!IsInjective(Append(s, c))
           /\ Bitbucket!Contains(Append(s, c), c)
           /\ \A e \in Commands : Bitbucket!Contains(s, e) => Bitbucket!Contains(Append(s, c), e)
<1>. DEFINE t == Append(s, c)
<1>1. /\ t \in Seq(Commands) /\ Len(t) = Len(s) + 1 /\ Len(s) \in Nat
      /\ DOMAIN t = 1 .. Len(t) /\ DOMAIN s = 1 .. Len(s)
      /\ t[Len(t)] = c /\ \A i \in 1 .. Len(s) : t[i] = s[i]
    OBVIOUS
<1>. HIDE DEF t
<1>2. \A i \in 1 .. Len(s) : s[i] # c  BY DEF Bitbucket!Contains
<1>3. Bitbucket!IsInjective(t)
    <2>. SUFFICES ASSUME NEW a \in DOMAIN t, NEW b \in DOMAIN t, t[a] = t[b]
                  PROVE  a = b
        BY DEF Bitbucket!IsInjective
    <2>1. CASE a \in 1 .. Len(s) /\ b \in 1 .. Len(s)  BY <2>1, <1>1 DEF Bitbucket!IsInjective
    <2>2. CASE a = Len(t) /\ b \in 1 .. Len(s)  BY <2>2, <1>1, <1>2
    <2>3. CASE a \in 1 .. Len(s) /\ b = Len(t)  BY <2>3, <1>1, <1>2
    <2>4. CASE a = Len(t) /\ b = Len(t)  BY <2>4
    <2>. QED  BY <1>1, <2>1, <2>2, <2>3, <2>4
<1>4. Bitbucket!Contains(t, c)
    <2>1. Len(t) \in 1 .. Len(t)  BY <1>1
    <2>. QED  BY <1>1, <2>1 DEF Bitbucket!Contains
<1>5. ASSUME NEW e \in Commands, Bitbucket!Contains(s, e)  PROVE Bitbucket!Contains(t, e)
    <2>1. PICK i \in 1 .. Len(s) : s[i] = e  BY <1>5 DEF Bitbucket!Contains
    <2>2. i \in 1 .. Len(t) /\ t[i] = e  BY <1>1, <2>1
    <2>. QED  BY <2>2 DEF Bitbucket!Contains
<1>. QED  BY <1>1, <1>3, <1>4, <1>5 DEF t

-----------------------------------------------------------------------------
(* The steps *)

\* The records the steps make.
LEMMA PendingType == Bitbucket!Pending \in JobType /\ Bitbucket!Pending.pc = "pending"
BY EmptyIsInjective, SMT DEF Bitbucket!Pending, JobType, Pcs

LEMMA ToldType ==
    ASSUME NEW late \in SUBSET Commands
    PROVE  [pc |-> "told", kept |-> <<>>, current |-> FALSE, attempt |-> 1,
            booted |-> FALSE, late |-> late] \in JobType
BY EmptyIsInjective DEF JobType, Pcs

LEMMA JobMoves ==
    ASSUME NEW j \in JobType, NEW p \in Pcs
    PROVE  /\ [j EXCEPT !.pc = p] \in JobType
           /\ [j EXCEPT !.pc = p, !.booted = TRUE] \in JobType
<1>1. [j EXCEPT !.pc = p] \in JobType  BY DEF JobType
<1>2. [j EXCEPT !.pc = p, !.booted = TRUE] \in JobType  BY DEF JobType
<1>. QED  BY <1>1, <1>2

LEMMA JobAgain ==
    ASSUME NEW j \in JobType, NEW n \in Int, NEW k \in Seq(Commands),
           NEW r, r = [j EXCEPT !.pc = "read", !.attempt = n, !.kept = k, !.current = FALSE]
    PROVE  r \in JobType /\ r.pc = "read"
<1>1. r \in JobType  BY DEF JobType, Pcs
<1>2. r.pc = "read"  BY DEF JobType
<1>. QED  BY <1>1, <1>2

\* Steps of one append that leave the file alone, and after which it is neither about to
\* write nor told anything new, disturb nothing.
LEMMA Withdrawal ==
    ASSUME SrcInv, NEW c \in Commands, NEW j \in JobType,
           j.pc \notin {"write", "verify", "told"},
           job' = [job EXCEPT ![c] = j], UNCHANGED <<refuses, content>>
    PROVE  SrcInv'
<1>. USE DEF SrcInv
<1>1. SrcTypeOK'  BY DEF SrcTypeOK
<1>2. job'[c] = j /\ \A d \in Commands \ {c} : job'[d] = job[d]  BY DEF SrcTypeOK
<1>3. Bitbucket!IsInjective(content)'  OBVIOUS
<1>4. ASSUME NEW d \in Commands  PROVE SrcPrepared(d)' /\ KeepsFile(d)'
    BY <1>2 DEF SrcPrepared, KeepsFile
<1>5. ASSUME NEW d \in Commands, NothingLate(d)'  PROVE Settled(d)'
    <2>1. NothingLate(d) /\ Settled(d)  BY <1>2, <1>5 DEF NothingLate
    <2>. QED  BY <1>2, <2>1 DEF Settled, MayWrite
<1>. QED  BY <1>1, <1>3, <1>4, <1>5

\* A run that is told finds the entry in the file.  The appends that might take it out
\* are the late ones.
LEMMA Telling ==
    ASSUME SrcInv, NEW c \in Commands, Bitbucket!Contains(content, c),
           job' = [job EXCEPT ![c] = Bitbucket!Told(c)], UNCHANGED <<refuses, content>>
    PROVE  SrcInv'
<1>. USE DEF SrcInv
<1>1. /\ Bitbucket!Told(c) \in JobType /\ Bitbucket!Told(c).pc = "told"
      /\ Bitbucket!Told(c).late =
            {d \in Commands \ {c} : job[d].pc = "write" /\ ~Bitbucket!Contains(job[d].kept, c)}
    <2>. DEFINE late == {d \in Commands \ {c} :
                             job[d].pc = "write" /\ ~Bitbucket!Contains(job[d].kept, c)}
    <2>1. /\ late \in SUBSET Commands
          /\ Bitbucket!Told(c) = [Bitbucket!Pending EXCEPT !.pc = "told", !.late = late]
        BY DEF Bitbucket!Told
    <2>. HIDE DEF late
    <2>2. Bitbucket!Told(c) = [pc |-> "told", kept |-> <<>>, current |-> FALSE, attempt |-> 1,
                     booted |-> FALSE, late |-> late]
        BY <2>1 DEF Bitbucket!Pending
    <2>3. Bitbucket!Told(c) \in JobType  BY <2>1, <2>2, ToldType
    <2>4. Bitbucket!Told(c).pc = "told" /\ Bitbucket!Told(c).late = late  BY <2>2
    <2>. QED  BY <2>3, <2>4 DEF late
<1>2. job'[c] = Bitbucket!Told(c) /\ \A d \in Commands \ {c} : job'[d] = job[d]  BY DEF SrcTypeOK
<1>3. SrcTypeOK'  BY <1>1 DEF SrcTypeOK
<1>4. Bitbucket!IsInjective(content)'  OBVIOUS
<1>5. ASSUME NEW d \in Commands  PROVE SrcPrepared(d)' /\ KeepsFile(d)'
    BY <1>1, <1>2 DEF SrcPrepared, KeepsFile
<1>6. ASSUME NothingLate(c)'  PROVE Settled(c)'
    <2>1. ASSUME NEW d \in Commands, MayWrite(d)'  PROVE Bitbucket!Contains(job[d].kept, c)
        <3>1. d # c /\ MayWrite(d)  BY <1>1, <1>2, <2>1 DEF MayWrite
        <3>2. CASE refuses  BY <3>1, <3>2 DEF MayWrite, KeepsFile
        <3>3. CASE ~refuses
            <4>1. Bitbucket!Told(c).late = {}  BY <1>2, <1>6, <3>3 DEF NothingLate
            <4>. QED  BY <1>1, <3>1, <4>1 DEF MayWrite
        <3>. QED  BY <3>2, <3>3
    <2>2. ASSUME NEW d \in Commands, MayWrite(d)'  PROVE job'[d] = job[d]
        BY <1>1, <1>2, <2>2 DEF MayWrite
    <2>. QED  BY <2>1, <2>2 DEF Settled
<1>7. ASSUME NEW d \in Commands \ {c}, NothingLate(d)'  PROVE Settled(d)'
    <2>1. NothingLate(d) /\ Settled(d)  BY <1>2, <1>7 DEF NothingLate
    <2>. QED  BY <1>1, <1>2, <2>1 DEF Settled, MayWrite
<1>. QED  BY <1>3, <1>4, <1>5, <1>6, <1>7

\* The entry is added to what was read.
LEMMA Preparing ==
    ASSUME SrcInv, NEW c \in Commands, ~Bitbucket!Contains(content, c),
           job' = [job EXCEPT ![c] = [job[c] EXCEPT !.pc = "write", !.current = TRUE,
                                                    !.kept = Append(content, c)]],
           UNCHANGED <<refuses, content>>
    PROVE  SrcInv'
<1>. USE DEF SrcInv
<1>1. /\ Append(content, c) \in Seq(Commands) /\ Bitbucket!IsInjective(Append(content, c))
      /\ Bitbucket!Contains(Append(content, c), c)
      /\ \A e \in Commands : Bitbucket!Contains(content, e) => Bitbucket!Contains(Append(content, c), e)
    BY AppendNew DEF SrcTypeOK
<1>2. /\ job'[c].pc = "write" /\ job'[c].kept = Append(content, c)
      /\ \A d \in Commands \ {c} : job'[d] = job[d]
    BY DEF SrcTypeOK, JobType
<1>3. SrcTypeOK'  BY <1>1 DEF SrcTypeOK, JobType, Pcs
<1>4. Bitbucket!IsInjective(content)'  OBVIOUS
<1>5. ASSUME NEW d \in Commands  PROVE SrcPrepared(d)' /\ KeepsFile(d)'
    <2>1. CASE d = c  BY <1>1, <1>2, <2>1 DEF SrcPrepared, KeepsFile
    <2>2. CASE d # c  BY <1>2, <2>2 DEF SrcPrepared, KeepsFile
    <2>. QED  BY <2>1, <2>2
<1>6. ASSUME NEW d \in Commands, NothingLate(d)'  PROVE Settled(d)'
    <2>1. d # c /\ NothingLate(d) /\ Settled(d)  BY <1>2, <1>6 DEF NothingLate
    <2>2. ASSUME NEW e \in Commands, MayWrite(e)'  PROVE Bitbucket!Contains(job'[e].kept, d)
        <3>1. CASE e = c  BY <1>1, <1>2, <2>1, <3>1 DEF Settled
        <3>2. CASE e # c  BY <1>2, <2>1, <2>2, <3>2 DEF Settled, MayWrite
        <3>. QED  BY <3>1, <3>2
    <2>. QED  BY <2>1, <2>2 DEF Settled
<1>. QED  BY <1>3, <1>4, <1>5, <1>6

\* A commit replaces the file, and every head read before is old.
LEMMA Committing ==
    ASSUME SrcInv, NEW c \in Commands, Bitbucket!Write(c)
    PROVE  SrcInv'
<1>. USE DEF SrcInv
<1>1. PICK answered \in BOOLEAN :
          job' = [d \in Commands |->
              [job[d] EXCEPT !.current = FALSE,
                             !.pc = IF d = c /\ answered THEN "verify" ELSE @]]
    BY DEF Bitbucket!Write
<1>2. /\ MayWrite(c) /\ content' = job[c].kept /\ refuses' = refuses
      /\ job[c].pc = "write"
    BY DEF Bitbucket!Write, MayWrite
<1>3. \A d \in Commands : /\ job'[d].kept = job[d].kept /\ job'[d].late = job[d].late
                          /\ ~job'[d].current
                          /\ job'[d].pc = job[d].pc \/ (d = c /\ job'[d].pc = "verify")
                          /\ job'[d] \in JobType
    <2>. SUFFICES ASSUME NEW d \in Commands
                  PROVE  /\ job'[d].kept = job[d].kept /\ job'[d].late = job[d].late
                         /\ ~job'[d].current
                         /\ job'[d].pc = job[d].pc \/ (d = c /\ job'[d].pc = "verify")
                         /\ job'[d] \in JobType
        OBVIOUS
    <2>1. /\ job[d] \in JobType
          /\ job'[d] = [job[d] EXCEPT !.current = FALSE,
                             !.pc = IF d = c /\ answered THEN "verify" ELSE @]
        BY <1>1 DEF SrcTypeOK
    <2>2. CASE d = c /\ answered  BY <2>1, <2>2 DEF JobType, Pcs
    <2>3. CASE ~(d = c /\ answered)  BY <2>1, <2>3 DEF JobType, Pcs
    <2>. QED  BY <2>2, <2>3
<1>4. SrcTypeOK'
    <2>1. job' \in [Commands -> JobType]  BY <1>1, <1>3
    <2>2. job[c].kept \in Seq(Commands)  BY DEF SrcTypeOK, JobType
    <2>. QED  BY <1>2, <2>1, <2>2 DEF SrcTypeOK
<1>5. Bitbucket!IsInjective(content)'  BY <1>2 DEF SrcPrepared
<1>6. ASSUME NEW d \in Commands  PROVE SrcPrepared(d)' /\ KeepsFile(d)'
    BY <1>2, <1>3 DEF SrcPrepared, KeepsFile
<1>7. ASSUME NEW d \in Commands, NothingLate(d)'  PROVE Settled(d)'
    <2>1. NothingLate(d) /\ Settled(d)  BY <1>2, <1>3, <1>7 DEF NothingLate
    <2>2. Bitbucket!Contains(content', d)  BY <1>2, <2>1 DEF Settled
    <2>3. ASSUME NEW e \in Commands, MayWrite(e)'  PROVE MayWrite(e)
        BY <1>2, <1>3, <2>3 DEF MayWrite
    <2>. QED  BY <1>3, <2>1, <2>2, <2>3 DEF Settled
<1>. QED  BY <1>4, <1>5, <1>6, <1>7

\* The records that the other steps leave behind.
LEMMA Withdrawn ==
    ASSUME SrcTypeOK, NEW c \in Commands, MaxRetries \in Int
    PROVE  /\ [Bitbucket!Pending EXCEPT !.pc = "read"] \in JobType
           /\ [job[c] EXCEPT !.pc = "boot", !.booted = TRUE] \in JobType
           /\ Bitbucket!Again(c) \in JobType /\ Bitbucket!Again(c).pc \in {"pending", "read"}
<1>1. job[c] \in JobType /\ "read" \in Pcs /\ "boot" \in Pcs  BY DEF SrcTypeOK, Pcs
<1>2. /\ [Bitbucket!Pending EXCEPT !.pc = "read"] \in JobType
      /\ [job[c] EXCEPT !.pc = "boot", !.booted = TRUE] \in JobType
    BY <1>1, PendingType, JobMoves
<1>3. CASE job[c].attempt < MaxRetries
    <2>. DEFINE j == [job[c] EXCEPT !.pc = "read", !.attempt = @ + 1, !.kept = <<>>,
                                    !.current = FALSE]
    <2>1. Bitbucket!Again(c) = j  BY <1>3 DEF Bitbucket!Again
    <2>2. job[c].attempt + 1 \in Int  BY <1>1 DEF JobType
    <2>3. j \in JobType /\ j.pc = "read"  BY <1>1, <2>2, EmptyIsInjective, JobAgain
    <2>. QED  BY <1>2, <2>1, <2>3
<1>4. CASE ~(job[c].attempt < MaxRetries)
    BY <1>2, <1>4, PendingType DEF Bitbucket!Again, Bitbucket!Failed
<1>. QED  BY <1>3, <1>4

LEMMA SrcStarts == Bitbucket!InitStore => SrcInv
BY EmptyIsInjective
   DEF Bitbucket!InitStore, SrcInv, SrcTypeOK, JobType, Pcs, Bitbucket!Pending, SrcPrepared, KeepsFile, NothingLate

LEMMA SrcStep ==
    ASSUME MaxRetries \in Int, SrcInv, [Bitbucket!NextStore]_(Bitbucket!storeVars)
    PROVE  SrcInv'
<1>1. CASE UNCHANGED Bitbucket!storeVars
    BY <1>1 DEF Bitbucket!storeVars, SrcInv, SrcTypeOK, SrcPrepared, KeepsFile, NothingLate, Settled, MayWrite
<1>. SUFFICES ASSUME NEW c \in Commands,
                     \/ Bitbucket!Poll(c) \/ Bitbucket!Read(c) \/ Bitbucket!Write(c) \/ Bitbucket!WriteRefused(c)
                     \/ Bitbucket!Verify(c) \/ Bitbucket!Bootstrap(c) \/ Bitbucket!Fail(c) \/ Bitbucket!Forget(c)
              PROVE  SrcInv'
    BY <1>1 DEF Bitbucket!NextStore
<1>2. SrcTypeOK  BY DEF SrcInv
<1>3. CASE Bitbucket!Poll(c)
    BY <1>2, <1>3, PendingType, Withdrawn, Withdrawal DEF Bitbucket!Poll, Bitbucket!Become, Bitbucket!Pending
<1>4. CASE Bitbucket!Read(c)
    <2>1. CASE ~exists /\ job[c].booted
        BY <1>2, <1>4, <2>1, PendingType, Withdrawn, Withdrawal DEF Bitbucket!Read, Bitbucket!Become, Bitbucket!Failed
    <2>2. CASE ~exists /\ ~job[c].booted
        <3>. DEFINE j == [job[c] EXCEPT !.pc = "boot", !.booted = TRUE]
        <3>1. job' = [job EXCEPT ![c] = j] /\ UNCHANGED <<refuses, content>>
            BY <1>4, <2>2 DEF Bitbucket!Read, Bitbucket!Become
        <3>2. j \in JobType /\ j.pc = "boot"  BY <1>2, Withdrawn DEF SrcTypeOK, JobType
        <3>. HIDE DEF j
        <3>. QED  BY <3>1, <3>2, Withdrawal
    <2>3. CASE exists /\ Bitbucket!Contains(content, c)
        BY <1>4, <2>3, Telling DEF Bitbucket!Read, Bitbucket!Become, Bitbucket!Found
    <2>4. CASE exists /\ ~Bitbucket!Contains(content, c)
        BY <1>4, <2>4, Preparing DEF Bitbucket!Read, Bitbucket!Become, Bitbucket!Found
    <2>. QED  BY <2>1, <2>2, <2>3, <2>4
<1>5. CASE Bitbucket!Write(c)  BY <1>5, Committing
<1>6. CASE Bitbucket!WriteRefused(c)
    BY <1>2, <1>6, PendingType, Withdrawn, Withdrawal DEF Bitbucket!WriteRefused, Bitbucket!Become, Bitbucket!Failed
<1>7. CASE Bitbucket!Verify(c)
    <2>1. PICK readable \in BOOLEAN :
              Bitbucket!Become(c, IF readable /\ Bitbucket!Confirmed(c) THEN Bitbucket!Told(c) ELSE Bitbucket!Again(c))
        BY <1>7 DEF Bitbucket!Verify
    <2>2. UNCHANGED <<refuses, content>> /\ job[c].pc = "verify"  BY <1>7 DEF Bitbucket!Verify
    <2>3. CASE readable /\ Bitbucket!Confirmed(c)
        <3>1. Bitbucket!Contains(content, c)  BY <2>2, <2>3 DEF Bitbucket!Confirmed, SrcInv, SrcPrepared
        <3>. QED  BY <2>1, <2>2, <2>3, <3>1, Telling DEF Bitbucket!Become
    <2>4. CASE ~(readable /\ Bitbucket!Confirmed(c))
        BY <1>2, <2>1, <2>2, <2>4, PendingType, Withdrawn, Withdrawal DEF Bitbucket!Become
    <2>. QED  BY <2>3, <2>4
<1>8. CASE Bitbucket!Bootstrap(c)
    BY <1>2, <1>8, PendingType, Withdrawn, Withdrawal DEF Bitbucket!Bootstrap, Bitbucket!Become
<1>9. CASE Bitbucket!Fail(c)
    BY <1>2, <1>9, PendingType, Withdrawn, Withdrawal DEF Bitbucket!Fail, Bitbucket!Become, Bitbucket!Failed
<1>10. CASE Bitbucket!Forget(c)  BY <1>2, <1>10, PendingType, Withdrawn, Withdrawal DEF Bitbucket!Forget, Bitbucket!Become
<1>. QED  BY <1>3, <1>4, <1>5, <1>6, <1>7, <1>8, <1>9, <1>10

\* The append over /src keeps its promise whatever runs, faults and lost answers
\* interleave.
LEMMA SrcKeepsPromise == SrcInv => Bitbucket!StoredOnce
<1>. SUFFICES ASSUME SrcInv, NEW c \in Commands, job[c].pc = "told",
                     refuses \/ job[c].late = {}
              PROVE  Bitbucket!Contains(content, c)
    BY DEF SrcInv, Bitbucket!StoredOnce, SrcTypeOK
<1>. QED  BY DEF SrcInv, NothingLate, Settled

-----------------------------------------------------------------------------
(* The store of a repository, whichever of the two its provider has *)

\* The store that is not used stands still.
LEMMA BothStores ==
    /\ BackendInit => Init /\ Bitbucket!InitStore
    /\ [BackendNext]_allVars => [Next]_vars /\ [Bitbucket!NextStore]_(Bitbucket!storeVars)
<1>1. BackendInit => Init /\ Bitbucket!InitStore  BY DEF BackendInit
<1>2. ASSUME UNCHANGED allVars  PROVE UNCHANGED vars /\ UNCHANGED Bitbucket!storeVars
    BY <1>2 DEF allVars, bitbucketVars, Bitbucket!storeVars
<1>3. ASSUME OnGitHub  PROVE Next /\ UNCHANGED Bitbucket!storeVars
    BY <1>3 DEF OnGitHub, bitbucketVars, Bitbucket!storeVars
<1>4. ASSUME OnBitbucket(Bitbucket!NextStore)  PROVE Bitbucket!NextStore /\ UNCHANGED vars
    BY <1>4 DEF OnBitbucket
<1>. QED  BY <1>1, <1>2, <1>3, <1>4 DEF BackendNext

\* Bitbucket: no command is in the file twice, and one whose run was told is in it,
\* unless /src replaces what it should refuse and an append was late.
THEOREM CommandsStoredOnce == BackendSpec => []StoredOnce
<1>1. SrcInv /\ [Bitbucket!NextStore]_(Bitbucket!storeVars) => SrcInv'
    BY SrcStep, StoreAssumption
<1>2. SrcInv => StoredOnce  BY SrcKeepsPromise DEF StoredOnce
<1>. QED  BY BothStores, SrcStarts, <1>1, <1>2, PTL DEF BackendSpec

\* GitHub: what the appends over the Contents API do is what the atomic log does.
THEOREM BackendImplementsLog == BackendSpec => ImplementsLog
<1>1. BackendSpec => Spec  BY BothStores, PTL DEF BackendSpec, Spec
<1>. QED  BY <1>1, StoreImplementsLog, PTL
=============================================================================
