---------------------------- MODULE VerdictProof ----------------------------
(***************************************************************************)
(* Proofs about Merge and Verdict: for any agents, answers and rules.      *)
(***************************************************************************)
EXTENDS Verdict, SequenceTheorems, FiniteSetTheorems, NaturalsInduction, TLAPS

-----------------------------------------------------------------------------
(* Induction.  The library states it with operators for parameters, here   *)
(* it is about sets.                                                       *)

\* A set of naturals that is not empty has a least element.
LEMMA LeastExists ==
    ASSUME NEW S \in SUBSET Nat, S # {}
    PROVE  \E m \in S : \A x \in S : m <= x
<1>. DEFINE Less == {ss \in Nat \X Nat : ss[1] < ss[2]}
<1>1. IsWellFoundedOn(Less, Nat)  BY NatLessThanWellFounded, Zenon DEF OpToRel
<1>2. \A x, y \in Nat : x < y => <<x, y>> \in Less  OBVIOUS
<1>. HIDE DEF Less
<1>3. PICK m \in S : \A x \in S : ~(<<x, m>> \in Less)  BY <1>1, WFMin, Zenon
<1>4. ASSUME NEW x \in S  PROVE m <= x
    <2>1. x \in Nat /\ m \in Nat /\ ~(x < m)  BY <1>2, <1>3, Zenon
    <2>. QED  BY <2>1
<1>. QED  BY <1>4

\* What holds at 0 and from each number to the next holds up to n.
LEMMA UpTo ==
    ASSUME NEW n \in Nat, NEW Good, 0 \in Good,
           \A i \in 1 .. n : i - 1 \in Good => i \in Good
    PROVE  0 .. n \subseteq Good
<1>. SUFFICES ASSUME (0 .. n) \ Good # {} PROVE FALSE  OBVIOUS
<1>. DEFINE Bad == (0 .. n) \ Good
<1>1. Bad \in SUBSET Nat /\ Bad # {}  OBVIOUS
<1>. HIDE DEF Bad
<1>2. PICK m \in Bad : \A x \in Bad : m <= x  BY <1>1, LeastExists
<1>. USE DEF Bad
<1>3. m \in 1 .. n /\ m - 1 \in 0 .. n  OBVIOUS
<1>4. m - 1 \in Good  BY <1>2, <1>3
<1>. QED  BY <1>3, <1>4

-----------------------------------------------------------------------------
(* Folds *)

\* A function on sets of positions that takes their greatest element last.
Takes(h, R, b, n) ==
    /\ DOMAIN h = SUBSET (1 .. n)
    /\ h[{}] = b
    /\ \A s \in SUBSET (1 .. n) : s # {} => h[s] = R[h[s \ {Max(s)}], Max(s)]

LEMMA MaxFits ==
    ASSUME NEW n \in Nat, NEW s \in SUBSET (1 .. n), s # {}
    PROVE  Max(s) \in s /\ \A x \in s : x <= Max(s)
<1>. DEFINE T == {n - x : x \in s}
<1>1. T \in SUBSET Nat /\ T # {}
    <2>1. \A x \in s : n - x \in Nat  OBVIOUS
    <2>2. PICK x \in s : TRUE  OBVIOUS
    <2>3. n - x \in T  OBVIOUS
    <2>. QED  BY <2>1, <2>3
<1>. HIDE DEF T
<1>2. PICK m \in T : \A x \in T : m <= x  BY <1>1, LeastExists
<1>. USE DEF T
<1>3. PICK y \in s : m = n - y  OBVIOUS
<1>4. \A x \in s : y >= x  BY <1>2, <1>3
<1>5. Max(s) \in s /\ \A x \in s : Max(s) >= x  BY <1>3, <1>4, Zenon DEF Max
<1>. QED  BY <1>5

LEMMA MaxIs ==
    ASSUME NEW n \in Nat, NEW s \in SUBSET (1 .. n), NEW m \in s, \A x \in s : x <= m
    PROVE  Max(s) = m
<1>1. Max(s) \in s /\ m <= Max(s) /\ Max(s) <= m  BY MaxFits
<1>. HIDE DEF Max
<1>0. s \subseteq Nat  OBVIOUS
<1>2. Max(s) \in Nat /\ m \in Nat  BY <1>1, <1>0
<1>. QED  BY <1>1, <1>2

\* Such a function exists.
LEMMA TakesExists ==
    ASSUME NEW A, NEW n \in Nat, NEW b \in A, NEW R \in [A \X (1 .. n) -> A]
    PROVE  \E h \in [SUBSET (1 .. n) -> A] : Takes(h, R, b, n)
<1>. DEFINE Has(k, h) == /\ h \in [SUBSET (1 .. k) -> A] /\ h[{}] = b
                         /\ \A s \in SUBSET (1 .. k) :
                                s # {} => h[s] = R[h[s \ {Max(s)}], Max(s)]
            Good == {k \in 0 .. n : \E h : Has(k, h)}
<1>1. 0 \in Good
    <2>1. SUBSET (1 .. 0) = {{}}  OBVIOUS
    <2>2. Has(0, [s \in SUBSET (1 .. 0) |-> b])  BY <2>1
    <2>. HIDE DEF Has
    <2>3. \E h : Has(0, h)  BY <2>2
    <2>. QED  BY <2>3
<1>2. ASSUME NEW k \in 1 .. n, k - 1 \in Good PROVE k \in Good
    <2>1. PICK g : Has(k - 1, g)  BY <1>2
    <2>. DEFINE h == [s \in SUBSET (1 .. k) |->
                          IF k \in s THEN R[g[s \ {k}], k] ELSE g[s]]
    <2>2. \A s \in SUBSET (1 .. k) : k \notin s => s \in SUBSET (1 .. (k - 1))  OBVIOUS
    <2>3. \A s \in SUBSET (1 .. k) : s \ {k} \in SUBSET (1 .. (k - 1))  OBVIOUS
    <2>4. h \in [SUBSET (1 .. k) -> A]
        <3>1. \A s \in SUBSET (1 .. (k - 1)) : g[s] \in A  BY <2>1
        <3>2. \A a \in A : R[a, k] \in A  OBVIOUS
        <3>. QED  BY <2>2, <2>3, <3>1, <3>2
    <2>5. h[{}] = b  BY <2>1
    <2>6. ASSUME NEW s \in SUBSET (1 .. k), s # {} PROVE h[s] = R[h[s \ {Max(s)}], Max(s)]
        <3>1. CASE k \in s
            <4>1. Max(s) = k  BY <3>1, MaxIs
            <4>2. h[s \ {k}] = g[s \ {k}] /\ h[s] = R[g[s \ {k}], k]  BY <3>1
            <4>. QED  BY <4>1, <4>2
        <3>2. CASE k \notin s
            <4>1. s \in SUBSET (1 .. (k - 1)) /\ s \in SUBSET (1 .. n)  BY <2>2, <3>2
            <4>2. h[s] = g[s] /\ h[s \ {Max(s)}] = g[s \ {Max(s)}]  BY <3>2
            <4>. QED  BY <2>1, <2>6, <4>1, <4>2
        <3>. QED  BY <3>1, <3>2
    <2>7. Has(k, h)  BY <2>4, <2>5, <2>6
    <2>. HIDE DEF Has, h
    <2>8. \E g1 : Has(k, g1)  BY <2>7
    <2>. QED  BY <2>8
<1>. HIDE DEF Has
<1>3. n \in Good
    <2>. HIDE DEF Good
    <2>1. 0 .. n \subseteq Good  BY <1>1, <1>2, UpTo
    <2>. QED  BY <2>1
<1>4. PICK h : Has(n, h)  BY <1>3
<1>. QED  BY <1>4 DEF Has, Takes

\* The last step before 1 .. i.
LEMMA LastStep ==
    ASSUME NEW n \in Nat, NEW i \in 1 .. n
    PROVE  /\ 1 .. i \in SUBSET (1 .. n) /\ 1 .. i # {}
           /\ Max(1 .. i) = i /\ (1 .. i) \ {Max(1 .. i)} = 1 .. (i - 1)
<1>. DEFINE s == 1 .. i
<1>1. s \in SUBSET (1 .. n) /\ i \in s /\ s # {} /\ \A x \in s : x <= i  OBVIOUS
<1>2. Max(s) = i
    <2>. HIDE DEF s
    <2>. QED  BY <1>1, MaxIs
<1>3. s \ {i} = 1 .. (i - 1)  OBVIOUS
<1>. QED  BY <1>1, <1>2, <1>3

\* The members of s that are in S, one position of s after the other.
AmongStep(T, s, S) ==
    [p \in Seq(T) \X (1 .. Len(s)) |-> IF s[p[2]] \in S THEN Append(p[1], s[p[2]]) ELSE p[1]]

AmongRun(f, s, S) ==
    /\ f[0] = <<>> /\ f[Len(s)] = Among(s, S)
    /\ \A i \in 1 .. Len(s) :
           f[i] = IF s[i] \in S THEN Append(f[i - 1], s[i]) ELSE f[i - 1]

LEMMA AmongRuns ==
    ASSUME NEW T, NEW s \in Seq(T), NEW S
    PROVE  \E f \in [0 .. Len(s) -> Seq(T)] : AmongRun(f, s, S)
<1>. DEFINE n == Len(s)
            R == AmongStep(T, s, S)
            Is(h) == h = [ss \in SUBSET (DOMAIN s) |->
                             IF ss = {} THEN <<>>
                             ELSE IF s[Max(ss)] \in S
                                    THEN Append(h[ss \ {Max(ss)}], s[Max(ss)])
                                    ELSE h[ss \ {Max(ss)}]]
            iter == CHOOSE h : Is(h)
            f == [i \in 0 .. n |-> iter[1 .. i]]
<1>1. n \in Nat /\ DOMAIN s = 1 .. n /\ <<>> \in Seq(T)  OBVIOUS
<1>2. \A p \in Seq(T) \X (1 .. n) :
          (IF s[p[2]] \in S THEN Append(p[1], s[p[2]]) ELSE p[1]) \in Seq(T)  OBVIOUS
<1>3. R \in [Seq(T) \X (1 .. n) -> Seq(T)]  BY <1>2 DEF AmongStep
<1>4. PICK g \in [SUBSET (1 .. n) -> Seq(T)] : Takes(g, R, <<>>, n)
    <2>. HIDE DEF n, R
    <2>. QED  BY <1>1, <1>3, TakesExists
<1>5. \A v \in Seq(T), i \in 1 .. n : R[v, i] = IF s[i] \in S THEN Append(v, s[i]) ELSE v
    BY DEF AmongStep
<1>. HIDE DEF R
<1>6. Is(g)
    <2>1. ASSUME NEW ss \in SUBSET (1 .. n), ss # {}
          PROVE  g[ss] = IF s[Max(ss)] \in S
                           THEN Append(g[ss \ {Max(ss)}], s[Max(ss)]) ELSE g[ss \ {Max(ss)}]
        <3>1. Max(ss) \in 1 .. n  BY <1>1, <2>1, MaxFits
        <3>2. g[ss \ {Max(ss)}] \in Seq(T)  BY <1>4
        <3>3. g[ss] = R[g[ss \ {Max(ss)}], Max(ss)]  BY <1>4, <2>1 DEF Takes
        <3>. QED  BY <1>5, <3>1, <3>2, <3>3
    <2>2. g[{}] = <<>>  BY <1>4 DEF Takes
    <2>. QED  BY <1>1, <1>4, <2>1, <2>2
<1>7. Is(iter)  BY <1>6
<1>8. iter[DOMAIN s] = Among(s, S)  BY DEF Among, FoldLeft, MapThenFoldSet
<1>. HIDE DEF iter
<1>9. f[0] = <<>> /\ f[n] = iter[1 .. n]
    <2>1. 1 .. 0 = {} /\ 0 \in 0 .. n /\ n \in 0 .. n  OBVIOUS
    <2>2. iter[{}] = <<>>  BY <1>7
    <2>. QED  BY <2>1, <2>2
<1>10. ASSUME NEW i \in 1 .. n
       PROVE  f[i] = IF s[i] \in S THEN Append(f[i - 1], s[i]) ELSE f[i - 1]
    <2>1. /\ 1 .. i \in SUBSET (1 .. n) /\ 1 .. i # {}
          /\ Max(1 .. i) = i /\ (1 .. i) \ {Max(1 .. i)} = 1 .. (i - 1)
        BY <1>1, LastStep
    <2>2. f[i] = iter[1 .. i] /\ f[i - 1] = iter[1 .. (i - 1)]
        <3>1. i - 1 \in 0 .. n  OBVIOUS
        <3>. QED  BY <3>1
    <2>3. iter[1 .. i] = IF s[i] \in S THEN Append(iter[1 .. (i - 1)], s[i])
                                       ELSE iter[1 .. (i - 1)]
        BY <1>1, <1>7, <2>1
    <2>. HIDE DEF f
    <2>. QED  BY <2>2, <2>3
<1>. HIDE DEF f
<1>11. \A i \in 0 .. n : f[i] \in Seq(T)
    <2>. DEFINE Good == {i \in 0 .. n : f[i] \in Seq(T)}
    <2>1. 0 \in Good
        <3>1. 0 \in 0 .. n /\ f[0] \in Seq(T)  BY <1>1, <1>9
        <3>. QED  BY <3>1, Zenon
    <2>2. ASSUME NEW i \in 1 .. n, i - 1 \in Good PROVE i \in Good
        <3>1. f[i] = IF s[i] \in S THEN Append(f[i - 1], s[i]) ELSE f[i - 1]  BY <1>10
        <3>2. i \in 0 .. n /\ f[i - 1] \in Seq(T) /\ s[i] \in T  BY <1>1, <2>2
        <3>3. f[i] \in Seq(T)
            <4>. HIDE DEF n
            <4>. QED  BY <3>1, <3>2
        <3>. QED  BY <3>2, <3>3, Zenon
    <2>3. 0 .. n \subseteq Good
        <3>. HIDE DEF Good
        <3>. QED  BY <1>1, <2>1, <2>2, UpTo
    <2>. QED  BY <2>3
<1>12. f \in [0 .. n -> Seq(T)]  BY <1>11 DEF f
<1>. QED  BY <1>1, <1>8, <1>9, <1>10, <1>12 DEF AmongRun

LEMMA PlaceType ==
    ASSUME NEW cs \in Seq(Seq(Finding)), NEW f \in Finding
    PROVE  Place(cs, f) \in Seq(Seq(Finding))
<1>. DEFINE open == {i \in DOMAIN cs : /\ ~IsStandalone(f)
                                       /\ ~\E m \in ToSet(cs[i]) : IsStandalone(m)
                                       /\ Distance(cs[i], f) <= PROXIMITY_LINES
                                       /\ Accepts(cs[i], f)}
            best == Min({i \in open : \A j \in open : Rank(cs[i], f) <= Rank(cs[j], f)})
<1>1. Place(cs, f) = IF open = {} THEN Append(cs, <<f>>)
                                  ELSE [cs EXCEPT ![best] = Append(@, f)]
    BY Zenon DEF Place
<1>. HIDE DEF open, best
<1>2. \A i \in DOMAIN cs : Append(cs[i], f) \in Seq(Finding)  OBVIOUS
<1>3. [cs EXCEPT ![best] = Append(@, f)] \in Seq(Seq(Finding))
    <2>1. cs \in [1 .. Len(cs) -> Seq(Finding)] /\ Len(cs) \in Nat  OBVIOUS
    <2>2. [cs EXCEPT ![best] = Append(@, f)] \in [1 .. Len(cs) -> Seq(Finding)]
        BY <1>2, <2>1
    <2>. QED  BY <2>1, <2>2
<1>4. Append(cs, <<f>>) \in Seq(Seq(Finding))  OBVIOUS
<1>. QED  BY <1>1, <1>3, <1>4

\* The findings of fs, placed one after the other.
PlaceRun(f, fs) ==
    /\ f[0] = <<>> /\ f[Len(fs)] = PlaceAll(fs)
    /\ \A i \in 1 .. Len(fs) : f[i] = Place(f[i - 1], fs[i])

LEMMA PlaceRuns ==
    ASSUME NEW fs \in Seq(Finding)
    PROVE  \E f \in [0 .. Len(fs) -> Seq(Seq(Finding))] : PlaceRun(f, fs)
<1>. DEFINE n == Len(fs)
            R == [p \in Seq(Seq(Finding)) \X (1 .. n) |-> Place(p[1], fs[p[2]])]
            Is(h) == h = [ss \in SUBSET (DOMAIN fs) |->
                             IF ss = {} THEN <<>>
                             ELSE Place(h[ss \ {Max(ss)}], fs[Max(ss)])]
            iter == CHOOSE h : Is(h)
            f == [i \in 0 .. n |-> iter[1 .. i]]
<1>1. n \in Nat /\ DOMAIN fs = 1 .. n /\ <<>> \in Seq(Seq(Finding))  OBVIOUS
<1>2. \A v \in Seq(Seq(Finding)), i \in 1 .. n : Place(v, fs[i]) \in Seq(Seq(Finding))  BY PlaceType
<1>3. R \in [Seq(Seq(Finding)) \X (1 .. n) -> Seq(Seq(Finding))]  BY <1>2
<1>4. PICK g \in [SUBSET (1 .. n) -> Seq(Seq(Finding))] : Takes(g, R, <<>>, n)
    <2>. HIDE DEF n, R
    <2>. QED  BY <1>1, <1>3, TakesExists
<1>5. \A v \in Seq(Seq(Finding)), i \in 1 .. n : R[v, i] = Place(v, fs[i])  OBVIOUS
<1>. HIDE DEF R
<1>6. Is(g)
    <2>1. ASSUME NEW ss \in SUBSET (1 .. n), ss # {}
          PROVE  g[ss] = Place(g[ss \ {Max(ss)}], fs[Max(ss)])
        <3>1. Max(ss) \in 1 .. n  BY <1>1, <2>1, MaxFits
        <3>2. g[ss \ {Max(ss)}] \in Seq(Seq(Finding))  BY <1>4
        <3>3. g[ss] = R[g[ss \ {Max(ss)}], Max(ss)]  BY <1>4, <2>1 DEF Takes
        <3>. QED  BY <1>5, <3>1, <3>2, <3>3
    <2>2. g[{}] = <<>>  BY <1>4 DEF Takes
    <2>. QED  BY <1>1, <1>4, <2>1, <2>2
<1>7. Is(iter)  BY <1>6
<1>8. iter[DOMAIN fs] = PlaceAll(fs)  BY DEF PlaceAll, FoldLeft, MapThenFoldSet
<1>. HIDE DEF iter
<1>9. f[0] = <<>> /\ f[n] = iter[1 .. n]
    <2>1. 1 .. 0 = {} /\ 0 \in 0 .. n /\ n \in 0 .. n  OBVIOUS
    <2>2. iter[{}] = <<>>  BY <1>7
    <2>. QED  BY <2>1, <2>2
<1>10. ASSUME NEW i \in 1 .. n
       PROVE  f[i] = Place(f[i - 1], fs[i])
    <2>1. /\ 1 .. i \in SUBSET (1 .. n) /\ 1 .. i # {}
          /\ Max(1 .. i) = i /\ (1 .. i) \ {Max(1 .. i)} = 1 .. (i - 1)
        BY <1>1, LastStep
    <2>2. f[i] = iter[1 .. i] /\ f[i - 1] = iter[1 .. (i - 1)]
        <3>1. i - 1 \in 0 .. n  OBVIOUS
        <3>. QED  BY <3>1
    <2>3. iter[1 .. i] = Place(iter[1 .. (i - 1)], fs[i])
        BY <1>1, <1>7, <2>1
    <2>. HIDE DEF f
    <2>. QED  BY <2>2, <2>3
<1>. HIDE DEF f
<1>11. \A i \in 0 .. n : f[i] \in Seq(Seq(Finding))
    <2>. DEFINE Good == {i \in 0 .. n : f[i] \in Seq(Seq(Finding))}
    <2>1. 0 \in Good
        <3>1. 0 \in 0 .. n /\ f[0] \in Seq(Seq(Finding))  BY <1>1, <1>9
        <3>. QED  BY <3>1, Zenon
    <2>2. ASSUME NEW i \in 1 .. n, i - 1 \in Good PROVE i \in Good
        <3>1. f[i] = Place(f[i - 1], fs[i])  BY <1>10
        <3>2. i \in 0 .. n /\ f[i - 1] \in Seq(Seq(Finding))  BY <1>1, <2>2
        <3>3. f[i] \in Seq(Seq(Finding))
            <4>. HIDE DEF n
            <4>. QED  BY <1>2, <3>1, <3>2
        <3>. QED  BY <3>2, <3>3, Zenon
    <2>3. 0 .. n \subseteq Good
        <3>. HIDE DEF Good
        <3>. QED  BY <1>1, <2>1, <2>2, UpTo
    <2>. QED  BY <2>3
<1>12. f \in [0 .. n -> Seq(Seq(Finding))]  BY <1>11 DEF f
<1>. QED  BY <1>1, <1>8, <1>9, <1>10, <1>12 DEF PlaceRun

\* The rounds of joining, within the lists of clusters Q that a round stays in.
LinkRun(f, cs) ==
    /\ f[0] = cs /\ f[Len(cs)] = MergeLinked(cs)
    /\ \A i \in 1 .. Len(cs) : f[i] = JoinFirst(f[i - 1])

LEMMA LinkRuns ==
    ASSUME NEW Q, NEW cs \in Q, NEW T, cs \in Seq(T), \A v \in Q : JoinFirst(v) \in Q
    PROVE  \E f \in [0 .. Len(cs) -> Q] : LinkRun(f, cs)
<1>. DEFINE n == Len(cs)
            R == [p \in Q \X (1 .. n) |-> JoinFirst(p[1])]
            Is(h) == h = [ss \in SUBSET (DOMAIN cs) |->
                             IF ss = {} THEN cs
                             ELSE JoinFirst(h[ss \ {Max(ss)}])]
            iter == CHOOSE h : Is(h)
            f == [i \in 0 .. n |-> iter[1 .. i]]
<1>1. n \in Nat /\ DOMAIN cs = 1 .. n /\ cs \in Q  OBVIOUS
<1>2. \A v \in Q, i \in 1 .. n : JoinFirst(v) \in Q  OBVIOUS
<1>3. R \in [Q \X (1 .. n) -> Q]  BY <1>2
<1>4. PICK g \in [SUBSET (1 .. n) -> Q] : Takes(g, R, cs, n)
    <2>. HIDE DEF n, R
    <2>. QED  BY <1>1, <1>3, TakesExists
<1>5. \A v \in Q, i \in 1 .. n : R[v, i] = JoinFirst(v)  OBVIOUS
<1>. HIDE DEF R
<1>6. Is(g)
    <2>1. ASSUME NEW ss \in SUBSET (1 .. n), ss # {}
          PROVE  g[ss] = JoinFirst(g[ss \ {Max(ss)}])
        <3>1. Max(ss) \in 1 .. n  BY <1>1, <2>1, MaxFits
        <3>2. g[ss \ {Max(ss)}] \in Q  BY <1>4
        <3>3. g[ss] = R[g[ss \ {Max(ss)}], Max(ss)]  BY <1>4, <2>1 DEF Takes
        <3>. QED  BY <1>5, <3>1, <3>2, <3>3
    <2>2. g[{}] = cs  BY <1>4 DEF Takes
    <2>. QED  BY <1>1, <1>4, <2>1, <2>2
<1>7. Is(iter)  BY <1>6
<1>8. iter[DOMAIN cs] = MergeLinked(cs)  BY DEF MergeLinked, FoldLeft, MapThenFoldSet
<1>. HIDE DEF iter
<1>9. f[0] = cs /\ f[n] = iter[1 .. n]
    <2>1. 1 .. 0 = {} /\ 0 \in 0 .. n /\ n \in 0 .. n  OBVIOUS
    <2>2. iter[{}] = cs  BY <1>7
    <2>. QED  BY <2>1, <2>2
<1>10. ASSUME NEW i \in 1 .. n
       PROVE  f[i] = JoinFirst(f[i - 1])
    <2>1. /\ 1 .. i \in SUBSET (1 .. n) /\ 1 .. i # {}
          /\ Max(1 .. i) = i /\ (1 .. i) \ {Max(1 .. i)} = 1 .. (i - 1)
        BY <1>1, LastStep
    <2>2. f[i] = iter[1 .. i] /\ f[i - 1] = iter[1 .. (i - 1)]
        <3>1. i - 1 \in 0 .. n  OBVIOUS
        <3>. QED  BY <3>1
    <2>3. iter[1 .. i] = JoinFirst(iter[1 .. (i - 1)])
        BY <1>1, <1>7, <2>1
    <2>. HIDE DEF f
    <2>. QED  BY <2>2, <2>3
<1>. HIDE DEF f
<1>11. \A i \in 0 .. n : f[i] \in Q
    <2>. DEFINE Good == {i \in 0 .. n : f[i] \in Q}
    <2>1. 0 \in Good
        <3>1. 0 \in 0 .. n /\ f[0] \in Q  BY <1>1, <1>9
        <3>. QED  BY <3>1, Zenon
    <2>2. ASSUME NEW i \in 1 .. n, i - 1 \in Good PROVE i \in Good
        <3>1. f[i] = JoinFirst(f[i - 1])  BY <1>10
        <3>2. i \in 0 .. n /\ f[i - 1] \in Q  BY <1>1, <2>2
        <3>3. f[i] \in Q
            <4>. HIDE DEF n
            <4>. QED  BY <1>2, <3>1, <3>2
        <3>. QED  BY <3>2, <3>3, Zenon
    <2>3. 0 .. n \subseteq Good
        <3>. HIDE DEF Good
        <3>. QED  BY <1>1, <2>1, <2>2, UpTo
    <2>. QED  BY <2>3
<1>12. f \in [0 .. n -> Q]  BY <1>11 DEF f
<1>. QED  BY <1>1, <1>8, <1>9, <1>10, <1>12 DEF LinkRun

\* The sequences of ss, one after the other.
FlattenRun(f, ss) ==
    /\ f[0] = <<>> /\ f[Len(ss)] = FlattenSeq(ss)
    /\ \A i \in 1 .. Len(ss) : f[i] = f[i - 1] \o ss[i]

LEMMA FlattenRuns ==
    ASSUME NEW T, NEW ss \in Seq(Seq(T))
    PROVE  \E f \in [0 .. Len(ss) -> Seq(T)] : FlattenRun(f, ss)
<1>. DEFINE n == Len(ss)
            R == [p \in Seq(T) \X (1 .. n) |-> p[1] \o ss[p[2]]]
            Is(h) == h = [i \in 1 .. n |-> IF i = 1 THEN ss[i] ELSE h[i - 1] \o ss[i]]
            iter == CHOOSE h : Is(h)
            f == [i \in 0 .. n |-> IF i = 0 THEN <<>> ELSE iter[i]]
<1>1. n \in Nat /\ DOMAIN ss = 1 .. n /\ <<>> \in Seq(T)  OBVIOUS
<1>2. \A v \in Seq(T), i \in 1 .. n : v \o ss[i] \in Seq(T)  OBVIOUS
<1>3. R \in [Seq(T) \X (1 .. n) -> Seq(T)]  BY <1>2
<1>4. PICK g \in [SUBSET (1 .. n) -> Seq(T)] : Takes(g, R, <<>>, n)
    <2>. HIDE DEF n, R
    <2>. QED  BY <1>1, <1>3, TakesExists
<1>5. \A v \in Seq(T), i \in 1 .. n : R[v, i] = v \o ss[i]  OBVIOUS
<1>. HIDE DEF R
<1>6. Is([i \in 1 .. n |-> g[1 .. i]])
    <2>1. ASSUME NEW i \in 1 .. n
          PROVE  g[1 .. i] = IF i = 1 THEN ss[i] ELSE g[1 .. (i - 1)] \o ss[i]
        <3>1. /\ 1 .. i \in SUBSET (1 .. n) /\ 1 .. i # {}
              /\ Max(1 .. i) = i /\ (1 .. i) \ {Max(1 .. i)} = 1 .. (i - 1)
            BY <1>1, LastStep
        <3>2. g[1 .. i] = R[g[1 .. (i - 1)], i]  BY <1>4, <3>1 DEF Takes
        <3>3. 1 .. (i - 1) \in SUBSET (1 .. n)  OBVIOUS
        <3>4. g[1 .. i] = g[1 .. (i - 1)] \o ss[i]  BY <1>4, <1>5, <3>2, <3>3
        <3>5. CASE i = 1
            <4>1. 1 .. (i - 1) = {}  BY <3>5
            <4>2. g[1 .. (i - 1)] = <<>>  BY <1>4, <4>1 DEF Takes
            <4>3. <<>> \o ss[i] = ss[i]  OBVIOUS
            <4>. QED  BY <3>4, <3>5, <4>2, <4>3
        <3>. QED  BY <3>4, <3>5
    <2>2. \A i \in 1 .. n : i # 1 => i - 1 \in 1 .. n  OBVIOUS
    <2>. HIDE DEF n
    <2>. QED  BY <2>1, <2>2
<1>7. Is(iter)
    <2>1. \E h : Is(h)  BY <1>6
    <2>. QED  BY <2>1
<1>8. n # 0 => iter[n] = FlattenSeq(ss)  BY DEF FlattenSeq
<1>9. n = 0 => ss = <<>> /\ FlattenSeq(ss) = <<>>  BY DEF FlattenSeq
<1>. HIDE DEF iter
<1>10. f[0] = <<>> /\ f[n] = FlattenSeq(ss)  BY <1>1, <1>8, <1>9
<1>11. ASSUME NEW i \in 1 .. n PROVE f[i] = f[i - 1] \o ss[i]
    <2>1. i - 1 \in 0 .. n /\ i \in 0 .. n  OBVIOUS
    <2>2. f[i] = iter[i]  BY <2>1
    <2>3. iter[i] = IF i = 1 THEN ss[i] ELSE iter[i - 1] \o ss[i]  BY <1>7
    <2>4. i = 1 => f[i - 1] = <<>>  BY <2>1
    <2>5. i # 1 => f[i - 1] = iter[i - 1]  BY <2>1
    <2>6. <<>> \o ss[i] = ss[i]  OBVIOUS
    <2>. HIDE DEF f
    <2>. QED  BY <2>2, <2>3, <2>4, <2>5, <2>6
<1>. HIDE DEF f
<1>12. \A i \in 0 .. n : f[i] \in Seq(T)
    <2>. DEFINE Good == {i \in 0 .. n : f[i] \in Seq(T)}
    <2>1. 0 \in Good
        <3>1. 0 \in 0 .. n /\ f[0] \in Seq(T)  BY <1>1, <1>10
        <3>. QED  BY <3>1, Zenon
    <2>2. ASSUME NEW i \in 1 .. n, i - 1 \in Good PROVE i \in Good
        <3>1. f[i] = f[i - 1] \o ss[i]  BY <1>11
        <3>2. i \in 0 .. n /\ f[i - 1] \in Seq(T)  BY <1>1, <2>2
        <3>3. f[i] \in Seq(T)
            <4>. HIDE DEF n
            <4>. QED  BY <1>2, <3>1, <3>2
        <3>. QED  BY <3>2, <3>3, Zenon
    <2>3. 0 .. n \subseteq Good
        <3>. HIDE DEF Good
        <3>. QED  BY <1>1, <2>1, <2>2, UpTo
    <2>. QED  BY <2>3
<1>13. f \in [0 .. n -> Seq(T)]  BY <1>12 DEF f
<1>. QED  BY <1>1, <1>10, <1>11, <1>13 DEF FlattenRun

-----------------------------------------------------------------------------
(* Members of sequences *)

\* No member comes twice.
OneEach(s) == \A i, j \in DOMAIN s : s[i] = s[j] => i = j

LEMMA AppendMembers ==
    ASSUME NEW T, NEW s \in Seq(T), NEW x \in T
    PROVE  ToSet(Append(s, x)) = ToSet(s) \cup {x}
<1>. DEFINE t == Append(s, x)
<1>1. /\ Len(t) = Len(s) + 1 /\ DOMAIN t = 1 .. Len(t) /\ DOMAIN s = 1 .. Len(s)
      /\ t[Len(s) + 1] = x /\ \A i \in 1 .. Len(s) : t[i] = s[i]
    OBVIOUS
<1>2. Len(s) \in Nat  OBVIOUS
<1>. HIDE DEF t
<1>3. ASSUME NEW y \in ToSet(t) PROVE y \in ToSet(s) \cup {x}  BY <1>1, <1>2, <1>3 DEF ToSet
<1>4. ASSUME NEW y \in ToSet(s) PROVE y \in ToSet(t)
    <2>1. PICK i \in 1 .. Len(s) : y = s[i]  BY <1>1, <1>4 DEF ToSet
    <2>2. i \in DOMAIN t /\ t[i] = y  BY <1>1, <1>2, <2>1
    <2>. QED  BY <2>2 DEF ToSet
<1>5. x \in ToSet(t)  BY <1>1, <1>2 DEF ToSet
<1>6. ToSet(t) = ToSet(s) \cup {x}  BY <1>3, <1>4, <1>5
<1>. QED  BY <1>6 DEF t

LEMMA AppendOneEach ==
    ASSUME NEW T, NEW s \in Seq(T), NEW x \in T, OneEach(s), x \notin ToSet(s)
    PROVE  OneEach(Append(s, x))
<1>. DEFINE t == Append(s, x)
<1>1. /\ Len(t) = Len(s) + 1 /\ DOMAIN t = 1 .. Len(t) /\ DOMAIN s = 1 .. Len(s)
      /\ t[Len(s) + 1] = x /\ \A i \in 1 .. Len(s) : t[i] = s[i]
    OBVIOUS
<1>2. Len(s) \in Nat  OBVIOUS
<1>. HIDE DEF t
<1>3. \A i \in 1 .. Len(s) : s[i] # x  BY <1>1 DEF ToSet
<1>4. OneEach(t)  BY <1>1, <1>2, <1>3 DEF OneEach
<1>. QED  BY <1>4 DEF t

LEMMA ConcatMembers ==
    ASSUME NEW T, NEW s \in Seq(T), NEW t \in Seq(T)
    PROVE  ToSet(s \o t) = ToSet(s) \cup ToSet(t)
<1>. DEFINE u == s \o t
<1>1. /\ Len(u) = Len(s) + Len(t) /\ DOMAIN u = 1 .. Len(u)
      /\ DOMAIN s = 1 .. Len(s) /\ DOMAIN t = 1 .. Len(t)
      /\ \A i \in 1 .. Len(s) : u[i] = s[i]
      /\ \A i \in 1 .. Len(t) : u[Len(s) + i] = t[i]
    OBVIOUS
<1>2. Len(s) \in Nat /\ Len(t) \in Nat  OBVIOUS
<1>. HIDE DEF u
<1>3. ASSUME NEW y \in ToSet(u) PROVE y \in ToSet(s) \cup ToSet(t)
    <2>1. PICK i \in 1 .. (Len(s) + Len(t)) : y = u[i]  BY <1>1, <1>3 DEF ToSet
    <2>2. CASE i <= Len(s)
        <3>1. i \in DOMAIN s /\ y = s[i]  BY <1>1, <1>2, <2>1, <2>2
        <3>. QED  BY <3>1 DEF ToSet
    <2>3. CASE i > Len(s)
        <3>1. i - Len(s) \in 1 .. Len(t) /\ Len(s) + (i - Len(s)) = i  BY <1>2, <2>1, <2>3
        <3>2. i - Len(s) \in DOMAIN t /\ y = t[i - Len(s)]  BY <1>1, <2>1, <3>1
        <3>. QED  BY <3>2 DEF ToSet
    <2>. QED  BY <1>2, <2>1, <2>2, <2>3
<1>4. ASSUME NEW y \in ToSet(s) PROVE y \in ToSet(u)
    <2>1. PICK i \in 1 .. Len(s) : y = s[i]  BY <1>1, <1>4 DEF ToSet
    <2>2. i \in DOMAIN u /\ u[i] = y  BY <1>1, <1>2, <2>1
    <2>. QED  BY <2>2 DEF ToSet
<1>5. ASSUME NEW y \in ToSet(t) PROVE y \in ToSet(u)
    <2>1. PICK i \in 1 .. Len(t) : y = t[i]  BY <1>1, <1>5 DEF ToSet
    <2>2. Len(s) + i \in DOMAIN u /\ u[Len(s) + i] = y  BY <1>1, <1>2, <2>1
    <2>. QED  BY <2>2 DEF ToSet
<1>6. ToSet(u) = ToSet(s) \cup ToSet(t)  BY <1>3, <1>4, <1>5
<1>. QED  BY <1>6 DEF u

LEMMA ConcatOneEach ==
    ASSUME NEW T, NEW s \in Seq(T), NEW t \in Seq(T),
           OneEach(s), OneEach(t), ToSet(s) \cap ToSet(t) = {}
    PROVE  OneEach(s \o t)
<1>. DEFINE u == s \o t
<1>1. /\ Len(u) = Len(s) + Len(t) /\ DOMAIN u = 1 .. Len(u)
      /\ DOMAIN s = 1 .. Len(s) /\ DOMAIN t = 1 .. Len(t)
      /\ \A i \in 1 .. Len(u) :
             u[i] = IF i <= Len(s) THEN s[i] ELSE t[i - Len(s)]
    OBVIOUS
<1>2. Len(s) \in Nat /\ Len(t) \in Nat  OBVIOUS
<1>. HIDE DEF u
<1>3. \A i \in DOMAIN s, j \in DOMAIN t : s[i] # t[j]  BY DEF ToSet
<1>4. ASSUME NEW i \in DOMAIN u, NEW j \in DOMAIN u, u[i] = u[j] PROVE i = j
    <2>1. CASE i <= Len(s) /\ j <= Len(s)
        <3>1. i \in DOMAIN s /\ j \in DOMAIN s /\ s[i] = s[j]  BY <1>1, <1>2, <1>4, <2>1
        <3>. QED  BY <3>1 DEF OneEach
    <2>2. CASE i > Len(s) /\ j > Len(s)
        <3>1. i - Len(s) \in DOMAIN t /\ j - Len(s) \in DOMAIN t  BY <1>1, <1>2, <2>2
        <3>2. t[i - Len(s)] = t[j - Len(s)]  BY <1>1, <1>2, <1>4, <2>2
        <3>3. i - Len(s) = j - Len(s)  BY <3>1, <3>2 DEF OneEach
        <3>. QED  BY <1>1, <1>2, <3>3
    <2>3. CASE i <= Len(s) /\ j > Len(s)
        <3>1. i \in DOMAIN s /\ j - Len(s) \in DOMAIN t  BY <1>1, <1>2, <2>3
        <3>2. s[i] = t[j - Len(s)]  BY <1>1, <1>2, <1>4, <2>3
        <3>. QED  BY <1>3, <3>1, <3>2
    <2>4. CASE i > Len(s) /\ j <= Len(s)
        <3>1. j \in DOMAIN s /\ i - Len(s) \in DOMAIN t  BY <1>1, <1>2, <2>4
        <3>2. s[j] = t[i - Len(s)]  BY <1>1, <1>2, <1>4, <2>4
        <3>. QED  BY <1>3, <3>1, <3>2
    <2>. QED  BY <1>1, <1>2, <2>1, <2>2, <2>3, <2>4
<1>5. OneEach(u)  BY <1>4, Zenon DEF OneEach
<1>. QED  BY <1>5 DEF u

\* The first i members.
FirstOf(s, i) == {s[j] : j \in 1 .. i}

LEMMA FirstOfSteps ==
    ASSUME NEW T, NEW s \in Seq(T)
    PROVE  /\ FirstOf(s, 0) = {} /\ FirstOf(s, Len(s)) = ToSet(s)
           /\ \A i \in 1 .. Len(s) : FirstOf(s, i) = FirstOf(s, i - 1) \cup {s[i]}
<1>1. Len(s) \in Nat /\ DOMAIN s = 1 .. Len(s)  OBVIOUS
<1>2. FirstOf(s, 0) = {}  BY DEF FirstOf
<1>3. FirstOf(s, Len(s)) = ToSet(s)  BY <1>1 DEF FirstOf, ToSet
<1>4. ASSUME NEW i \in 1 .. Len(s) PROVE FirstOf(s, i) = FirstOf(s, i - 1) \cup {s[i]}
    <2>1. 1 .. i = (1 .. (i - 1)) \cup {i}  OBVIOUS
    <2>. QED  BY <2>1, Zenon DEF FirstOf
<1>. QED  BY <1>2, <1>3, <1>4

LEMMA AmongMembers ==
    ASSUME NEW T, NEW s \in Seq(T), NEW S
    PROVE  Among(s, S) \in Seq(T) /\ ToSet(Among(s, S)) = ToSet(s) \cap S
<1>. DEFINE n == Len(s)
<1>0. PICK f \in [0 .. n -> Seq(T)] : AmongRun(f, s, S)  BY AmongRuns
<1>1. /\ f[0] = <<>> /\ f[n] = Among(s, S)
      /\ \A i \in 1 .. n : f[i] = IF s[i] \in S THEN Append(f[i - 1], s[i]) ELSE f[i - 1]
    BY <1>0 DEF AmongRun
<1>2. n \in Nat /\ \A i \in 1 .. n : s[i] \in T  OBVIOUS
<1>3. /\ FirstOf(s, 0) = {} /\ FirstOf(s, n) = ToSet(s)
      /\ \A i \in 1 .. n : FirstOf(s, i) = FirstOf(s, i - 1) \cup {s[i]}
    BY FirstOfSteps
<1>. HIDE DEF n
<1>. DEFINE Good == {i \in 0 .. n : ToSet(f[i]) = FirstOf(s, i) \cap S}
<1>4. 0 \in Good
    <2>1. ToSet(<<>>) = {}  BY DEF ToSet
    <2>2. 0 \in 0 .. n /\ ToSet(f[0]) = FirstOf(s, 0) \cap S  BY <1>1, <1>2, <1>3, <2>1
    <2>. QED  BY <2>2, Zenon
<1>5. ASSUME NEW i \in 1 .. n, i - 1 \in Good PROVE i \in Good
    <2>1. i \in 0 .. n /\ i - 1 \in 0 .. n /\ ToSet(f[i - 1]) = FirstOf(s, i - 1) \cap S  BY <1>2, <1>5
    <2>2. FirstOf(s, i) = FirstOf(s, i - 1) \cup {s[i]}  BY <1>3
    <2>3. CASE s[i] \in S
        <3>1. f[i - 1] \in Seq(T) /\ f[i] = Append(f[i - 1], s[i])  BY <1>1, <2>1, <2>3
        <3>2. ToSet(f[i]) = ToSet(f[i - 1]) \cup {s[i]}  BY <1>2, <3>1, AppendMembers
        <3>3. ToSet(f[i]) = FirstOf(s, i) \cap S  BY <2>1, <2>2, <2>3, <3>2
        <3>. QED  BY <2>1, <3>3, Zenon
    <2>4. CASE s[i] \notin S
        <3>1. f[i] = f[i - 1]  BY <1>1, <2>4
        <3>2. ToSet(f[i]) = FirstOf(s, i) \cap S  BY <2>1, <2>2, <2>4, <3>1
        <3>. QED  BY <2>1, <3>2, Zenon
    <2>. QED  BY <2>3, <2>4
<1>6. 0 .. n \subseteq Good
    <2>. HIDE DEF Good
    <2>. QED  BY <1>2, <1>4, <1>5, UpTo
<1>7. n \in 0 .. n  BY <1>2
<1>8. ToSet(f[n]) = FirstOf(s, n) \cap S  BY <1>6, <1>7, Zenon
<1>. QED  BY <1>1, <1>3, <1>7, <1>8

LEMMA AmongOneEach ==
    ASSUME NEW T, NEW s \in Seq(T), NEW S, OneEach(s)
    PROVE  OneEach(Among(s, S))
<1>. DEFINE n == Len(s)
<1>0. PICK f \in [0 .. n -> Seq(T)] : AmongRun(f, s, S)  BY AmongRuns
<1>1. /\ f[0] = <<>> /\ f[n] = Among(s, S)
      /\ \A i \in 1 .. n : f[i] = IF s[i] \in S THEN Append(f[i - 1], s[i]) ELSE f[i - 1]
    BY <1>0 DEF AmongRun
<1>2. n \in Nat /\ DOMAIN s = 1 .. n /\ \A i \in 1 .. n : s[i] \in T  OBVIOUS
<1>3. /\ FirstOf(s, 0) = {}
      /\ \A i \in 1 .. n : FirstOf(s, i) = FirstOf(s, i - 1) \cup {s[i]}
    BY FirstOfSteps
<1>. HIDE DEF n
<1>. DEFINE Good == {i \in 0 .. n : OneEach(f[i]) /\ ToSet(f[i]) \subseteq FirstOf(s, i)}
<1>4. 0 \in Good
    <2>1. ToSet(<<>>) = {} /\ OneEach(<<>>)  BY DEF ToSet, OneEach
    <2>2. 0 \in 0 .. n /\ OneEach(f[0]) /\ ToSet(f[0]) \subseteq FirstOf(s, 0)  BY <1>1, <1>2, <1>3, <2>1
    <2>. QED  BY <2>2, Zenon
<1>5. ASSUME NEW i \in 1 .. n, i - 1 \in Good PROVE i \in Good
    <2>1. i \in 0 .. n /\ i - 1 \in 0 .. n /\ OneEach(f[i - 1]) /\ ToSet(f[i - 1]) \subseteq FirstOf(s, i - 1)
        BY <1>2, <1>5
    <2>2. FirstOf(s, i) = FirstOf(s, i - 1) \cup {s[i]}  BY <1>3
    <2>3. CASE s[i] \in S
        <3>1. f[i - 1] \in Seq(T) /\ f[i] = Append(f[i - 1], s[i])  BY <1>1, <2>1, <2>3
        <3>2. ToSet(f[i]) \subseteq FirstOf(s, i)
            <4>1. ToSet(f[i]) = ToSet(f[i - 1]) \cup {s[i]}  BY <1>2, <3>1, AppendMembers
            <4>. QED  BY <2>1, <2>2, <4>1
        <3>3. s[i] \notin FirstOf(s, i - 1)
            <4>1. \A j \in 1 .. (i - 1) : j \in DOMAIN s /\ i \in DOMAIN s /\ j # i  BY <1>2
            <4>. QED  BY <4>1 DEF OneEach, FirstOf
        <3>4. OneEach(f[i])  BY <1>2, <2>1, <3>1, <3>3, AppendOneEach
        <3>. QED  BY <2>1, <3>2, <3>4, Zenon
    <2>4. CASE s[i] \notin S
        <3>1. f[i] = f[i - 1]  BY <1>1, <2>4
        <3>2. OneEach(f[i]) /\ ToSet(f[i]) \subseteq FirstOf(s, i)  BY <2>1, <2>2, <3>1
        <3>. QED  BY <2>1, <3>2, Zenon
    <2>. QED  BY <2>3, <2>4
<1>6. 0 .. n \subseteq Good
    <2>. HIDE DEF Good
    <2>. QED  BY <1>2, <1>4, <1>5, UpTo
<1>7. n \in 0 .. n  BY <1>2
<1>8. OneEach(f[n])  BY <1>6, <1>7, Zenon
<1>. QED  BY <1>1, <1>8

LEMMA MinFits ==
    ASSUME NEW S \in SUBSET Nat, S # {}
    PROVE  Min(S) \in S /\ \A x \in S : Min(S) <= x
<1>1. PICK m \in S : \A x \in S : m <= x  BY LeastExists
<1>. QED  BY <1>1, Zenon DEF Min

-----------------------------------------------------------------------------
(* Clusters of findings *)

\* Sorting by line keeps the findings.
LEMMA ByLineMembers ==
    ASSUME NEW fs \in Seq(Finding), OneEach(fs)
    PROVE  ByLine(fs) \in Seq(Finding) /\ ToSet(ByLine(fs)) = ToSet(fs) /\ OneEach(ByLine(fs))
<1>. DEFINE n == MaxLine + 1
            At(i) == {f \in ToSet(fs) : f.line = i - 1}
            ss == [i \in 1 .. n |-> Among(fs, At(i))]
            Upto(i) == {f \in ToSet(fs) : f.line < i}
<1>1. n \in Nat  BY MergeAssumption
<1>2. ASSUME NEW i \in 1 .. n
      PROVE  Among(fs, At(i)) \in Seq(Finding) /\ ToSet(Among(fs, At(i))) = At(i) /\ OneEach(Among(fs, At(i)))
    <2>1. At(i) \subseteq ToSet(fs)  OBVIOUS
    <2>. HIDE DEF At
    <2>2. Among(fs, At(i)) \in Seq(Finding) /\ ToSet(Among(fs, At(i))) = ToSet(fs) \cap At(i)
        BY AmongMembers
    <2>3. OneEach(Among(fs, At(i)))  BY AmongOneEach
    <2>. QED  BY <2>1, <2>2, <2>3
<1>3. ss \in Seq(Seq(Finding)) /\ Len(ss) = n
    <2>. HIDE DEF n, At
    <2>. QED  BY <1>1, <1>2
<1>4. FlattenSeq(ss) = ByLine(fs)  BY DEF ByLine
<1>5. PICK g \in [0 .. n -> Seq(Finding)] : FlattenRun(g, ss)
    <2>. HIDE DEF ss, n
    <2>1. \E g \in [0 .. Len(ss) -> Seq(Finding)] : FlattenRun(g, ss)  BY <1>3, FlattenRuns
    <2>. QED  BY <1>3, <2>1
<1>6. g[0] = <<>> /\ g[n] = ByLine(fs) /\ \A i \in 1 .. n : g[i] = g[i - 1] \o ss[i]
    <2>. HIDE DEF ss, n
    <2>. QED  BY <1>3, <1>4, <1>5 DEF FlattenRun
<1>7. \A i \in 1 .. n : ss[i] = Among(fs, At(i))  OBVIOUS
<1>8. \A f \in ToSet(fs) : f.line \in 0 .. MaxLine
    <2>1. \A f \in Finding : f.line \in 0 .. MaxLine  BY DEF Finding
    <2>2. \A f \in ToSet(fs) : f \in Finding  BY DEF ToSet
    <2>. QED  BY <2>1, <2>2
<1>9. Upto(0) = {} /\ Upto(n) = ToSet(fs)
    <2>1. \A f \in ToSet(fs) : f.line < n /\ ~(f.line < 0)  BY <1>8, MergeAssumption
    <2>. QED  BY <2>1
<1>10. ASSUME NEW i \in 1 .. n
       PROVE  Upto(i) = Upto(i - 1) \cup At(i) /\ Upto(i - 1) \cap At(i) = {}
    <2>1. ASSUME NEW f \in ToSet(fs)
          PROVE  /\ f.line < i <=> (f.line < i - 1 \/ f.line = i - 1)
                 /\ ~(f.line < i - 1 /\ f.line = i - 1)
        <3>1. f.line \in Int /\ i \in Int  BY <1>8
        <3>. QED  BY <3>1
    <2>. QED  BY <2>1
<1>. HIDE DEF ss, n, At, Upto
<1>. DEFINE Good == {i \in 0 .. n : OneEach(g[i]) /\ ToSet(g[i]) = Upto(i)}
<1>11. 0 \in Good
    <2>1. ToSet(<<>>) = {} /\ OneEach(<<>>)  BY DEF ToSet, OneEach
    <2>2. 0 \in 0 .. n  BY <1>1
    <2>3. OneEach(g[0]) /\ ToSet(g[0]) = Upto(0)  BY <1>6, <1>9, <2>1, Zenon
    <2>. QED  BY <2>2, <2>3, Zenon
<1>12. ASSUME NEW i \in 1 .. n, i - 1 \in Good PROVE i \in Good
    <2>1. i \in 0 .. n /\ i - 1 \in 0 .. n /\ OneEach(g[i - 1]) /\ ToSet(g[i - 1]) = Upto(i - 1)
        BY <1>1, <1>12
    <2>2. g[i] = g[i - 1] \o Among(fs, At(i)) /\ g[i - 1] \in Seq(Finding)  BY <1>6, <1>7, <2>1
    <2>. DEFINE a == Among(fs, At(i))
    <2>3. a \in Seq(Finding) /\ ToSet(a) = At(i) /\ OneEach(a)  BY <1>2
    <2>. HIDE DEF a
    <2>4. ToSet(g[i - 1] \o a) = ToSet(g[i - 1]) \cup ToSet(a)  BY <2>2, <2>3, ConcatMembers
    <2>5. ToSet(g[i]) = Upto(i)  BY <1>10, <2>1, <2>2, <2>3, <2>4 DEF a
    <2>6. ToSet(g[i - 1]) \cap ToSet(a) = {}  BY <1>10, <2>1, <2>3
    <2>7. OneEach(g[i - 1] \o a)  BY <2>1, <2>2, <2>3, <2>6, ConcatOneEach
    <2>8. OneEach(g[i])  BY <2>2, <2>7 DEF a
    <2>. QED  BY <2>1, <2>5, <2>8, Zenon
<1>13. 0 .. n \subseteq Good
    <2>. HIDE DEF Good
    <2>. QED  BY <1>1, <1>11, <1>12, UpTo
<1>14. n \in 0 .. n  BY <1>1
<1>15. OneEach(g[n]) /\ ToSet(g[n]) = Upto(n)  BY <1>13, <1>14, Zenon
<1>. QED  BY <1>6, <1>9, <1>14, <1>15

\* What a cluster of findings may hold: one real category, style findings with their
\* likes only, a standalone finding alone.
Sound(C) ==
    \A m, n \in C :
        /\ m.cat # "other" /\ n.cat # "other" => m.cat = n.cat
        /\ IsStyle(m) => m.cat = n.cat /\ StyleFlagsAgree(m, n)
        /\ IsStandalone(m) => m = n

LEMMA EstablishedHolds ==
    ASSUME NEW c \in Seq(Finding), Sound(ToSet(c)), NEW m \in ToSet(c), m.cat # "other"
    PROVE  m.cat = Established(c)
<1>. DEFINE real == {i \in DOMAIN c : c[i].cat # "other"}
<1>1. PICK i \in DOMAIN c : m = c[i]  BY DEF ToSet
<1>2. real \in SUBSET Nat /\ real # {}  BY <1>1
<1>3. Established(c) = IF real = {} THEN "other" ELSE c[Min(real)].cat  BY DEF Established
<1>4. Min(real) \in real
    <2>. HIDE DEF real
    <2>. QED  BY <1>2, MinFits
<1>5. c[Min(real)] \in ToSet(c) /\ c[Min(real)].cat # "other"  BY <1>4 DEF ToSet
<1>. HIDE DEF real
<1>. QED  BY <1>2, <1>3, <1>5 DEF Sound

\* A finding that a cluster accepts leaves it sound.
LEMMA AcceptsSound ==
    ASSUME NEW c \in Seq(Finding), NEW f \in Finding, Sound(ToSet(c)), Accepts(c, f),
           ~IsStandalone(f), \A m \in ToSet(c) : ~IsStandalone(m)
    PROVE  Sound(ToSet(c) \cup {f})
<1>. DEFINE C == ToSet(c)
<1>1. CASE IsStyle(f) \/ \E m \in C : IsStyle(m)
    <2>1. \A m \in C : m.cat = f.cat /\ StyleFlagsAgree(m, f)  BY <1>1, Zenon DEF Accepts
    <2>2. StyleFlagsAgree(f, f) /\ \A m \in C : StyleFlagsAgree(f, m)
        <3>1. \A m \in C : StyleFlagsAgree(m, f)  BY <2>1
        <3>2. IsStyle(f) \in BOOLEAN /\ \A m \in C : IsStyle(m) \in BOOLEAN
            BY DEF IsStyle, ToSet, Finding
        <3>. QED  BY <3>1, <3>2 DEF StyleFlagsAgree
    <2>. HIDE DEF C
    <2>. QED  BY <2>1, <2>2 DEF Sound, C
<1>2. CASE ~(IsStyle(f) \/ \E m \in C : IsStyle(m))
    <2>1. CategoriesCompatible(Established(c), f.cat)  BY <1>2, Zenon DEF Accepts
    <2>2. \A m \in C : m.cat # "other" => m.cat = Established(c)  BY EstablishedHolds
    <2>3. \A m \in C : m.cat # "other" /\ f.cat # "other" => m.cat = f.cat
        BY <2>1, <2>2 DEF CategoriesCompatible
    <2>. QED  BY <1>2, <2>3 DEF Sound
<1>. QED  BY <1>1, <1>2

\* The clusters cs divide the findings F among them and are all sound.
Fits(cs, F) ==
    /\ cs \in Seq(Seq(Finding))
    /\ \A i \in DOMAIN cs : ToSet(cs[i]) # {} /\ Sound(ToSet(cs[i]))
    /\ F = UNION {ToSet(cs[i]) : i \in DOMAIN cs}
    /\ \A i, j \in DOMAIN cs : i # j => ToSet(cs[i]) \cap ToSet(cs[j]) = {}

LEMMA RankNat ==
    ASSUME NEW c \in Seq(Finding), ToSet(c) # {}, NEW f \in Finding
    PROVE  Rank(c, f) \in Nat
<1>. DEFINE gaps == {Gap(m.line, f.line) : m \in ToSet(c)}
<1>1. \A m \in ToSet(c) : m \in Finding  BY DEF ToSet
<1>2. \A m \in Finding : m.line \in Nat  BY MergeAssumption DEF Finding
<1>3. gaps \in SUBSET Nat /\ gaps # {}
    <2>1. ASSUME NEW m \in ToSet(c) PROVE Gap(m.line, f.line) \in Nat
        <3>1. m.line \in Nat /\ f.line \in Nat  BY <1>1, <1>2
        <3>. QED  BY <3>1 DEF Gap
    <2>2. PICK m \in ToSet(c) : TRUE  OBVIOUS
    <2>3. Gap(m.line, f.line) \in gaps  OBVIOUS
    <2>. QED  BY <2>1, <2>3
<1>4. Min(gaps) \in Nat
    <2>. HIDE DEF gaps
    <2>. QED  BY <1>3, MinFits
<1>5. Distance(c, f) \in Nat  BY <1>4 DEF Distance
<1>. QED  BY <1>5 DEF Rank, PROXIMITY_LINES

\* A finding that is placed is in one cluster then, a sound one.
LEMMA PlaceFits ==
    ASSUME NEW F, NEW cs, Fits(cs, F), NEW f \in Finding, f \notin F
    PROVE  Fits(Place(cs, f), F \cup {f})
<1>. DEFINE open == {i \in DOMAIN cs : /\ ~IsStandalone(f)
                                       /\ ~\E m \in ToSet(cs[i]) : IsStandalone(m)
                                       /\ Distance(cs[i], f) <= PROXIMITY_LINES
                                       /\ Accepts(cs[i], f)}
            nearest == {i \in open : \A j \in open : Rank(cs[i], f) <= Rank(cs[j], f)}
            best == Min(nearest)
<1>1. Place(cs, f) = IF open = {} THEN Append(cs, <<f>>)
                                  ELSE [cs EXCEPT ![best] = Append(@, f)]
    BY Zenon DEF Place
<1>2. /\ cs \in Seq(Seq(Finding)) /\ DOMAIN cs = 1 .. Len(cs) /\ Len(cs) \in Nat
      /\ \A i \in DOMAIN cs : cs[i] \in Seq(Finding)
    BY DEF Fits
<1>3. \A i \in open : /\ i \in DOMAIN cs /\ ~IsStandalone(f) /\ Accepts(cs[i], f)
                      /\ \A m \in ToSet(cs[i]) : ~IsStandalone(m)
    OBVIOUS
<1>. HIDE DEF open
<1>4. open # {} => best \in open
    <2>. SUFFICES ASSUME open # {} PROVE best \in open  OBVIOUS
    <2>. DEFINE ranks == {Rank(cs[i], f) : i \in open}
    <2>1. ranks \in SUBSET Nat /\ ranks # {}
        <3>1. ASSUME NEW i \in open PROVE Rank(cs[i], f) \in Nat
            BY <1>2, <1>3, RankNat DEF Fits
        <3>2. PICK i \in open : TRUE  OBVIOUS
        <3>3. Rank(cs[i], f) \in ranks  OBVIOUS
        <3>. QED  BY <3>1, <3>3
    <2>2. PICK r \in ranks : \A x \in ranks : r <= x
        <3>. HIDE DEF ranks
        <3>. QED  BY <2>1, LeastExists
    <2>3. nearest \in SUBSET Nat /\ nearest # {}
        <3>1. PICK i \in open : r = Rank(cs[i], f)  BY <2>2
        <3>2. \A j \in open : Rank(cs[i], f) <= Rank(cs[j], f)  BY <2>2, <3>1
        <3>3. i \in nearest  BY <3>2
        <3>4. \A j \in open : j \in Nat  BY <1>2, <1>3
        <3>. QED  BY <3>3, <3>4
    <2>4. nearest \subseteq open  OBVIOUS
    <2>. HIDE DEF nearest
    <2>. QED  BY <2>3, <2>4, MinFits
<1>. HIDE DEF best
<1>5. CASE open = {}
    <2>. DEFINE r == Append(cs, <<f>>)
    <2>1. /\ r \in Seq(Seq(Finding)) /\ DOMAIN r = 1 .. (Len(cs) + 1) /\ r[Len(cs) + 1] = <<f>>
          /\ \A i \in DOMAIN cs : r[i] = cs[i]
        BY <1>2
    <2>2. ToSet(<<f>>) = {f}
        <3>1. DOMAIN <<f>> = {1} /\ <<f>>[1] = f  OBVIOUS
        <3>. QED  BY <3>1, Zenon DEF ToSet
    <2>3. Sound({f})  BY DEF Sound, StyleFlagsAgree
    <2>. HIDE DEF r
    <2>4. DOMAIN r = DOMAIN cs \cup {Len(cs) + 1} /\ Len(cs) + 1 \notin DOMAIN cs  BY <1>2, <2>1
    <2>5. \A i \in DOMAIN r : ToSet(r[i]) # {} /\ Sound(ToSet(r[i]))
        BY <2>1, <2>2, <2>3, <2>4 DEF Fits
    <2>6. F \cup {f} = UNION {ToSet(r[i]) : i \in DOMAIN r}
        <3>1. F = UNION {ToSet(r[i]) : i \in DOMAIN cs}  BY <2>1 DEF Fits
        <3>2. {f} = ToSet(r[Len(cs) + 1])  BY <2>1, <2>2
        <3>. QED  BY <2>4, <3>1, <3>2
    <2>7. \A i \in DOMAIN cs : f \notin ToSet(r[i])  BY <2>1 DEF Fits
    <2>8. \A i, j \in DOMAIN r : i # j => ToSet(r[i]) \cap ToSet(r[j]) = {}
        <3>1. \A i, j \in DOMAIN cs : i # j => ToSet(r[i]) \cap ToSet(r[j]) = {}  BY <2>1 DEF Fits
        <3>2. ToSet(r[Len(cs) + 1]) = {f}  BY <2>1, <2>2
        <3>3. ASSUME NEW i \in DOMAIN r, NEW j \in DOMAIN r, i # j
              PROVE  ToSet(r[i]) \cap ToSet(r[j]) = {}
            <4>1. CASE i \in DOMAIN cs /\ j \in DOMAIN cs  BY <3>1, <3>3, <4>1
            <4>2. CASE i \in DOMAIN cs /\ j = Len(cs) + 1  BY <2>7, <3>2, <4>2
            <4>3. CASE i = Len(cs) + 1 /\ j \in DOMAIN cs  BY <2>7, <3>2, <4>3
            <4>. QED  BY <2>4, <3>3, <4>1, <4>2, <4>3
        <3>. QED  BY <3>3
    <2>9. Fits(r, F \cup {f})  BY <2>1, <2>5, <2>6, <2>8, Zenon DEF Fits
    <2>. QED  BY <1>1, <1>5, <2>9 DEF r
<1>6. CASE open # {}
    <2>. DEFINE r == [cs EXCEPT ![best] = Append(@, f)]
    <2>1. best \in DOMAIN cs /\ ~IsStandalone(f) /\ Accepts(cs[best], f)
          /\ \A m \in ToSet(cs[best]) : ~IsStandalone(m)
        BY <1>3, <1>4, <1>6
    <2>2. /\ r \in Seq(Seq(Finding)) /\ DOMAIN r = DOMAIN cs /\ r[best] = Append(cs[best], f)
          /\ \A i \in DOMAIN cs : i # best => r[i] = cs[i]
        <3>1. r = Place(cs, f)  BY <1>1, <1>6
        <3>2. r \in Seq(Seq(Finding))  BY <1>2, <3>1, PlaceType
        <3>. QED  BY <2>1, <3>2
    <2>. HIDE DEF r
    <2>3. ToSet(r[best]) = ToSet(cs[best]) \cup {f}  BY <1>2, <2>1, <2>2, AppendMembers
    <2>4. Sound(ToSet(cs[best]) \cup {f})
        <3>1. Sound(ToSet(cs[best])) /\ cs[best] \in Seq(Finding)  BY <1>2, <2>1 DEF Fits
        <3>. QED  BY <2>1, <3>1, AcceptsSound
    <2>5. \A i \in DOMAIN r : ToSet(r[i]) # {} /\ Sound(ToSet(r[i]))
        BY <2>2, <2>3, <2>4 DEF Fits
    <2>6. F \cup {f} = UNION {ToSet(r[i]) : i \in DOMAIN r}
        <3>1. \A i \in DOMAIN r : ToSet(cs[i]) \subseteq ToSet(r[i]) /\ ToSet(r[i]) \subseteq ToSet(cs[i]) \cup {f}
            BY <2>2, <2>3
        <3>2. f \in ToSet(r[best])  BY <2>3
        <3>3. F = UNION {ToSet(cs[i]) : i \in DOMAIN r}  BY <2>2 DEF Fits
        <3>. QED  BY <2>1, <2>2, <3>1, <3>2, <3>3
    <2>7. \A i \in DOMAIN cs : f \notin ToSet(cs[i])  BY DEF Fits
    <2>8. \A i, j \in DOMAIN r : i # j => ToSet(r[i]) \cap ToSet(r[j]) = {}
        <3>1. \A i, j \in DOMAIN cs : i # j => ToSet(cs[i]) \cap ToSet(cs[j]) = {}  BY DEF Fits
        <3>2. \A i \in DOMAIN r : i # best => ToSet(r[i]) = ToSet(cs[i])  BY <2>2
        <3>3. ASSUME NEW i \in DOMAIN r, NEW j \in DOMAIN r, i # j
              PROVE  ToSet(r[i]) \cap ToSet(r[j]) = {}
            <4>1. i \in DOMAIN cs /\ j \in DOMAIN cs  BY <2>2
            <4>2. ToSet(cs[i]) \cap ToSet(cs[j]) = {}  BY <3>1, <3>3, <4>1
            <4>3. f \notin ToSet(cs[i]) /\ f \notin ToSet(cs[j])  BY <2>7, <4>1
            <4>4. CASE i = best  BY <2>3, <3>2, <3>3, <4>2, <4>3, <4>4
            <4>5. CASE j = best  BY <2>3, <3>2, <3>3, <4>2, <4>3, <4>5
            <4>6. CASE i # best /\ j # best  BY <3>2, <4>2, <4>6
            <4>. QED  BY <4>4, <4>5, <4>6
        <3>. QED  BY <3>3
    <2>9. Fits(r, F \cup {f})  BY <2>2, <2>5, <2>6, <2>8, Zenon DEF Fits
    <2>. QED  BY <1>1, <1>6, <2>9 DEF r
<1>. QED  BY <1>5, <1>6

LEMMA PlaceAllFits ==
    ASSUME NEW fs \in Seq(Finding), OneEach(fs)
    PROVE  Fits(PlaceAll(fs), ToSet(fs))
<1>. DEFINE n == Len(fs)
<1>0. PICK g \in [0 .. n -> Seq(Seq(Finding))] : PlaceRun(g, fs)  BY PlaceRuns
<1>1. g[0] = <<>> /\ g[n] = PlaceAll(fs) /\ \A i \in 1 .. n : g[i] = Place(g[i - 1], fs[i])
    BY <1>0 DEF PlaceRun
<1>2. n \in Nat /\ DOMAIN fs = 1 .. n /\ \A i \in 1 .. n : fs[i] \in Finding  OBVIOUS
<1>3. /\ FirstOf(fs, 0) = {} /\ FirstOf(fs, n) = ToSet(fs)
      /\ \A i \in 1 .. n : FirstOf(fs, i) = FirstOf(fs, i - 1) \cup {fs[i]}
    BY FirstOfSteps
<1>. HIDE DEF n
<1>. DEFINE Good == {i \in 0 .. n : Fits(g[i], FirstOf(fs, i))}
<1>4. 0 \in Good
    <2>1. Fits(<<>>, {})  BY DEF Fits
    <2>2. Fits(g[0], FirstOf(fs, 0))  BY <1>1, <1>3, <2>1
    <2>3. 0 \in 0 .. n  BY <1>2
    <2>. QED  BY <2>2, <2>3, Zenon
<1>5. ASSUME NEW i \in 1 .. n, i - 1 \in Good PROVE i \in Good
    <2>1. i \in 0 .. n /\ Fits(g[i - 1], FirstOf(fs, i - 1))  BY <1>2, <1>5
    <2>2. fs[i] \notin FirstOf(fs, i - 1)
        <3>1. \A j \in 1 .. (i - 1) : j \in DOMAIN fs /\ i \in DOMAIN fs /\ j # i  BY <1>2
        <3>. QED  BY <3>1 DEF OneEach, FirstOf
    <2>3. Fits(Place(g[i - 1], fs[i]), FirstOf(fs, i - 1) \cup {fs[i]})  BY <1>2, <2>1, <2>2, PlaceFits
    <2>4. Fits(g[i], FirstOf(fs, i))  BY <1>1, <1>3, <2>3
    <2>. QED  BY <2>1, <2>4, Zenon
<1>6. 0 .. n \subseteq Good
    <2>. HIDE DEF Good
    <2>. QED  BY <1>2, <1>4, <1>5, UpTo
<1>7. n \in 0 .. n  BY <1>2
<1>8. Fits(g[n], FirstOf(fs, n))  BY <1>6, <1>7, Zenon
<1>. QED  BY <1>1, <1>3, <1>8

\* A cluster whose findings another one accepts in turn leaves that one sound.
LEMMA JoinsSound ==
    ASSUME NEW c \in Seq(Finding), NEW d \in Seq(Finding), Sound(ToSet(c)), Joins(c, d)
    PROVE  Sound(ToSet(c) \cup ToSet(d))
<1>. DEFINE n == Len(d)
            part(k) == c \o SubSeq(d, 1, k)
<1>1. n \in Nat /\ DOMAIN d = 1 .. n /\ \A i \in 1 .. n : d[i] \in Finding  OBVIOUS
<1>2. \A m \in ToSet(c) \cup ToSet(d) : ~IsStandalone(m)  BY ConcatMembers DEF Joins
<1>3. \A k \in 1 .. n : Accepts(part(k - 1), d[k])  BY <1>1 DEF Joins
<1>4. /\ FirstOf(d, 0) = {} /\ FirstOf(d, n) = ToSet(d)
      /\ \A i \in 1 .. n : FirstOf(d, i) = FirstOf(d, i - 1) \cup {d[i]}
    BY FirstOfSteps
<1>5. ASSUME NEW k \in 0 .. n
      PROVE  part(k) \in Seq(Finding) /\ ToSet(part(k)) = ToSet(c) \cup FirstOf(d, k)
    <2>. DEFINE e == SubSeq(d, 1, k)
    <2>1. /\ e \in Seq(Finding) /\ DOMAIN e = 1 .. k /\ \A i \in 1 .. k : e[i] = d[i]
        OBVIOUS
    <2>. HIDE DEF e
    <2>2. ToSet(e) = FirstOf(d, k)  BY <2>1 DEF ToSet, FirstOf
    <2>3. ToSet(c \o e) = ToSet(c) \cup ToSet(e)  BY <2>1, ConcatMembers
    <2>4. c \o e \in Seq(Finding)  BY <2>1
    <2>. QED  BY <2>2, <2>3, <2>4 DEF e
<1>6. \A k \in 0 .. n : FirstOf(d, k) \subseteq ToSet(d)  BY <1>1 DEF FirstOf, ToSet
<1>7. \A k \in 1 .. n : d[k] \in ToSet(d)  BY <1>1 DEF ToSet
<1>. HIDE DEF n, part
<1>. DEFINE Good == {k \in 0 .. n : Sound(ToSet(c) \cup FirstOf(d, k))}
<1>8. 0 \in Good
    <2>1. 0 \in 0 .. n  BY <1>1
    <2>2. ToSet(c) \cup FirstOf(d, 0) = ToSet(c)  BY <1>4
    <2>3. Sound(ToSet(c) \cup FirstOf(d, 0))  BY <2>2
    <2>. QED  BY <2>1, <2>3, Zenon
<1>9. ASSUME NEW k \in 1 .. n, k - 1 \in Good PROVE k \in Good
    <2>1. k \in 0 .. n /\ k - 1 \in 0 .. n /\ Sound(ToSet(c) \cup FirstOf(d, k - 1))  BY <1>1, <1>9
    <2>2. part(k - 1) \in Seq(Finding) /\ ToSet(part(k - 1)) = ToSet(c) \cup FirstOf(d, k - 1)
        BY <1>5, <2>1
    <2>3. Accepts(part(k - 1), d[k]) /\ d[k] \in Finding  BY <1>1, <1>3
    <2>4. ~IsStandalone(d[k]) /\ \A m \in ToSet(part(k - 1)) : ~IsStandalone(m)
        BY <1>2, <1>6, <1>7, <2>1, <2>2
    <2>5. Sound(ToSet(part(k - 1)) \cup {d[k]})  BY <2>1, <2>2, <2>3, <2>4, AcceptsSound
    <2>6. ToSet(part(k - 1)) \cup {d[k]} = ToSet(c) \cup FirstOf(d, k)  BY <1>4, <2>2
    <2>7. Sound(ToSet(c) \cup FirstOf(d, k))  BY <2>5, <2>6
    <2>. QED  BY <2>1, <2>7, Zenon
<1>10. 0 .. n \subseteq Good
    <2>. HIDE DEF Good
    <2>. QED  BY <1>1, <1>8, <1>9, UpTo
<1>11. n \in 0 .. n  BY <1>1
<1>12. Sound(ToSet(c) \cup FirstOf(d, n))  BY <1>10, <1>11, Zenon
<1>. QED  BY <1>4, <1>12

LEMMA RemoveAtIs ==
    ASSUME NEW T, NEW s \in Seq(T), NEW j \in 1 .. Len(s)
    PROVE  /\ RemoveAt(s, j) \in Seq(T) /\ Len(RemoveAt(s, j)) = Len(s) - 1
           /\ \A k \in 1 .. (Len(s) - 1) :
                  RemoveAt(s, j)[k] = s[IF k < j THEN k ELSE k + 1]
<1>. DEFINE n == Len(s)
            a == SubSeq(s, 1, j - 1)
            b == SubSeq(s, j + 1, n)
<1>1. n \in Nat /\ j \in 1 .. n /\ \A k \in 1 .. n : s[k] \in T  OBVIOUS
<1>2. a \in Seq(T) /\ Len(a) = j - 1 /\ \A k \in 1 .. (j - 1) : a[k] = s[k]
    <2>1. \A k \in 1 .. (j - 1) : s[k] \in T  BY <1>1
    <2>2. /\ a \in Seq(T) /\ Len(a) = IF 1 <= j - 1 THEN (j - 1) - 1 + 1 ELSE 0
          /\ \A k \in 1 .. (j - 1) - 1 + 1 : a[k] = s[1 + k - 1]
        BY <1>1, <2>1, SubSeqProperties
    <2>. HIDE DEF a, n
    <2>. QED  BY <1>1, <2>2
<1>3. b \in Seq(T) /\ Len(b) = n - j /\ \A k \in 1 .. (n - j) : b[k] = s[k + j]
    <2>1. \A k \in (j + 1) .. n : s[k] \in T  BY <1>1
    <2>2. /\ b \in Seq(T) /\ Len(b) = IF j + 1 <= n THEN n - (j + 1) + 1 ELSE 0
          /\ \A k \in 1 .. n - (j + 1) + 1 : b[k] = s[(j + 1) + k - 1]
        BY <1>1, <2>1, SubSeqProperties
    <2>. HIDE DEF b, n
    <2>. QED  BY <1>1, <2>2
<1>. HIDE DEF a, b, n
<1>4. /\ a \o b \in Seq(T) /\ Len(a \o b) = Len(a) + Len(b)
      /\ \A k \in 1 .. Len(a) + Len(b) :
             (a \o b)[k] = IF k <= Len(a) THEN a[k] ELSE b[k - Len(a)]
    BY <1>2, <1>3, ConcatProperties
<1>5. Len(a \o b) = n - 1  BY <1>1, <1>2, <1>3, <1>4
<1>6. ASSUME NEW k \in 1 .. (n - 1) PROVE (a \o b)[k] = s[IF k < j THEN k ELSE k + 1]
    <2>1. (a \o b)[k] = IF k <= j - 1 THEN a[k] ELSE b[k - (j - 1)]
        BY <1>1, <1>2, <1>3, <1>4
    <2>2. CASE k < j
        <3>1. k \in 1 .. (j - 1) /\ k <= j - 1  BY <1>1, <2>2
        <3>. QED  BY <1>2, <2>1, <2>2, <3>1
    <2>3. CASE ~(k < j)
        <3>1. k - (j - 1) \in 1 .. (n - j) /\ ~(k <= j - 1) /\ (k - (j - 1)) + j = k + 1
            BY <1>1, <2>3
        <3>. QED  BY <1>3, <2>1, <2>3, <3>1
    <2>. QED  BY <2>2, <2>3
<1>7. RemoveAt(s, j) = a \o b  BY DEF RemoveAt, a, b, n
<1>. QED  BY <1>4, <1>5, <1>6, <1>7 DEF n

\* A round of joining keeps every finding in one cluster, and the clusters sound.
LEMMA JoinFirstFits ==
    ASSUME NEW F, NEW cs, Fits(cs, F)
    PROVE  Fits(JoinFirst(cs), F)
<1>. DEFINE pairs == {p \in (DOMAIN cs) \X (DOMAIN cs) : p[1] < p[2] /\ Joins(cs[p[1]], cs[p[2]])}
            firsts == {p[1] : p \in pairs}
            i == Min(firsts)
            seconds == {p[2] : p \in {q \in pairs : q[1] = i}}
            j == Min(seconds)
            js == [cs EXCEPT ![i] = @ \o cs[j]]
<1>1. JoinFirst(cs) = IF pairs = {} THEN cs ELSE RemoveAt(js, j)
    BY Zenon DEF JoinFirst
<1>2. /\ cs \in Seq(Seq(Finding)) /\ DOMAIN cs = 1 .. Len(cs) /\ Len(cs) \in Nat
      /\ \A k \in DOMAIN cs : cs[k] \in Seq(Finding)
    BY DEF Fits
<1>3. CASE pairs = {}  BY <1>1, <1>3
<1>4. CASE pairs # {}
    <2>1. i \in firsts
        <3>1. firsts \in SUBSET Nat /\ firsts # {}
            <4>1. PICK p \in pairs : TRUE  BY <1>4
            <4>2. p[1] \in firsts  OBVIOUS
            <4>3. \A q \in pairs : q[1] \in Nat  BY <1>2
            <4>. QED  BY <4>2, <4>3
        <3>. HIDE DEF firsts
        <3>. QED  BY <3>1, MinFits
    <2>2. j \in seconds
        <3>. HIDE DEF i
        <3>1. seconds \in SUBSET Nat /\ seconds # {}
            <4>1. PICK p \in pairs : p[1] = i  BY <2>1
            <4>2. p[2] \in seconds  BY <4>1
            <4>3. \A q \in pairs : q[2] \in Nat  BY <1>2
            <4>. QED  BY <4>2, <4>3
        <3>. HIDE DEF seconds
        <3>. QED  BY <3>1, MinFits
    <2>3. i \in DOMAIN cs /\ j \in DOMAIN cs /\ i < j /\ Joins(cs[i], cs[j])
        <3>. HIDE DEF i
        <3>1. PICK p \in pairs : p[1] = i /\ p[2] = j
            <4>. HIDE DEF j
            <4>. QED  BY <2>2
        <3>. HIDE DEF j
        <3>. QED  BY <3>1
    <2>. HIDE DEF i, j, pairs
    <2>. DEFINE n == Len(cs) - 1
                r == RemoveAt(js, j)
                was(k) == IF k < j THEN k ELSE k + 1
    <2>4. cs[i] \o cs[j] \in Seq(Finding)  BY <1>2, <2>3
    <2>5. js \in Seq(Seq(Finding)) /\ Len(js) = Len(cs) /\ js[i] = cs[i] \o cs[j]
          /\ \A k \in DOMAIN cs : k # i => js[k] = cs[k]
        <3>1. [cs EXCEPT ![i] = cs[i] \o cs[j]] = js  OBVIOUS
        <3>2. i \in 1 .. Len(cs)  BY <1>2, <2>3
        <3>3. /\ [cs EXCEPT ![i] = cs[i] \o cs[j]] \in Seq(Seq(Finding))
              /\ Len([cs EXCEPT ![i] = cs[i] \o cs[j]]) = Len(cs)
            BY <1>2, <2>4, <3>2, ExceptSeq
        <3>4. js[i] = cs[i] \o cs[j] /\ \A k \in DOMAIN cs : k # i => js[k] = cs[k]
            BY <2>3
        <3>. QED  BY <3>1, <3>3, <3>4
    <2>. HIDE DEF js
    <2>6. r \in Seq(Seq(Finding)) /\ DOMAIN r = 1 .. n /\ \A k \in 1 .. n : r[k] = js[was(k)]
        <3>1. j \in 1 .. Len(js) /\ Len(js) = Len(cs)  BY <1>2, <2>3, <2>5
        <3>2. /\ r \in Seq(Seq(Finding)) /\ Len(r) = Len(js) - 1
              /\ \A k \in 1 .. (Len(js) - 1) : r[k] = js[IF k < j THEN k ELSE k + 1]
            BY <2>5, <3>1, RemoveAtIs
        <3>. HIDE DEF r
        <3>. QED  BY <3>1, <3>2
    <2>. HIDE DEF r
    <2>7. /\ \A k \in 1 .. n : was(k) \in DOMAIN cs \ {j}
          /\ \A k, l \in 1 .. n : k # l => was(k) # was(l)
          /\ \A m \in DOMAIN cs \ {j} : \E k \in 1 .. n : was(k) = m
        <3>1. j \in Nat /\ j \in 1 .. Len(cs) /\ Len(cs) \in Nat  BY <1>2, <2>3
        <3>2. \A k \in 1 .. n : was(k) \in DOMAIN cs \ {j}  BY <1>2, <3>1
        <3>3. \A k, l \in 1 .. n : k # l => was(k) # was(l)  BY <3>1
        <3>4. ASSUME NEW m \in DOMAIN cs \ {j} PROVE \E k \in 1 .. n : was(k) = m
            <4>1. CASE m < j
                <5>1. m \in 1 .. n /\ was(m) = m  BY <1>2, <3>1, <4>1
                <5>. QED  BY <5>1
            <4>2. CASE ~(m < j)
                <5>1. m - 1 \in 1 .. n /\ was(m - 1) = m  BY <1>2, <3>1, <4>2
                <5>. QED  BY <5>1
            <4>. QED  BY <4>1, <4>2
        <3>. QED  BY <3>2, <3>3, <3>4
    <2>. HIDE DEF was, n
    <2>8. ToSet(js[i]) = ToSet(cs[i]) \cup ToSet(cs[j])  BY <1>2, <2>3, <2>5, ConcatMembers
    <2>9. Sound(ToSet(js[i])) /\ ToSet(js[i]) # {}
        <3>1. Sound(ToSet(cs[i])) /\ ToSet(cs[i]) # {}  BY <2>3 DEF Fits
        <3>2. Sound(ToSet(cs[i]) \cup ToSet(cs[j]))  BY <1>2, <2>3, <3>1, JoinsSound
        <3>. QED  BY <2>8, <3>1, <3>2
    <2>10. \A m \in DOMAIN cs : Sound(ToSet(js[m])) /\ ToSet(js[m]) # {}
        BY <2>5, <2>9 DEF Fits
    <2>11. \A k \in DOMAIN r : ToSet(r[k]) # {} /\ Sound(ToSet(r[k]))
        BY <2>6, <2>7, <2>10
    <2>12. \A m \in DOMAIN cs : m # i => ToSet(js[m]) = ToSet(cs[m])  BY <2>5
    <2>13. F = UNION {ToSet(r[k]) : k \in DOMAIN r}
        <3>1. F = UNION {ToSet(cs[m]) : m \in DOMAIN cs}  BY DEF Fits
        <3>2. ASSUME NEW k \in DOMAIN r PROVE ToSet(r[k]) \subseteq F
            <4>1. was(k) \in DOMAIN cs /\ r[k] = js[was(k)]  BY <2>6, <2>7
            <4>2. \A m \in DOMAIN cs : ToSet(js[m]) \subseteq F  BY <2>3, <2>8, <2>12, <3>1
            <4>. QED  BY <4>1, <4>2
        <3>3. ASSUME NEW f \in F PROVE \E k \in DOMAIN r : f \in ToSet(r[k])
            <4>1. PICK m \in DOMAIN cs : f \in ToSet(cs[m])  BY <3>1
            <4>2. CASE m = j
                <5>1. f \in ToSet(js[i]) /\ i \in DOMAIN cs \ {j}  BY <1>2, <2>3, <2>8, <4>1, <4>2
                <5>2. PICK k \in 1 .. n : was(k) = i  BY <2>7, <5>1
                <5>. QED  BY <2>6, <5>1, <5>2
            <4>3. CASE m # j
                <5>1. f \in ToSet(js[m])  BY <2>8, <2>12, <4>1
                <5>2. PICK k \in 1 .. n : was(k) = m  BY <2>7, <4>3
                <5>. QED  BY <2>6, <5>1, <5>2
            <4>. QED  BY <4>2, <4>3
        <3>. QED  BY <3>2, <3>3
    <2>14. \A k, l \in DOMAIN r : k # l => ToSet(r[k]) \cap ToSet(r[l]) = {}
        <3>1. \A m, o \in DOMAIN cs : m # o => ToSet(cs[m]) \cap ToSet(cs[o]) = {}  BY DEF Fits
        <3>2. ASSUME NEW m \in DOMAIN cs \ {j}, NEW o \in DOMAIN cs \ {j}, m # o
              PROVE  ToSet(js[m]) \cap ToSet(js[o]) = {}
            <4>1. /\ ToSet(cs[m]) \cap ToSet(cs[o]) = {} /\ ToSet(cs[m]) \cap ToSet(cs[j]) = {}
                  /\ ToSet(cs[o]) \cap ToSet(cs[j]) = {}
                BY <2>3, <3>1, <3>2
            <4>2. CASE m = i  BY <2>8, <2>12, <3>2, <4>1, <4>2
            <4>3. CASE o = i  BY <2>8, <2>12, <3>2, <4>1, <4>3
            <4>4. CASE m # i /\ o # i  BY <2>12, <4>1, <4>4
            <4>. QED  BY <4>2, <4>3, <4>4
        <3>3. ASSUME NEW k \in 1 .. n, NEW l \in 1 .. n, k # l
              PROVE  ToSet(r[k]) \cap ToSet(r[l]) = {}
            <4>1. was(k) \in DOMAIN cs \ {j} /\ was(l) \in DOMAIN cs \ {j} /\ was(k) # was(l)
                BY <2>7, <3>3
            <4>2. ToSet(js[was(k)]) \cap ToSet(js[was(l)]) = {}  BY <3>2, <4>1
            <4>. QED  BY <2>6, <4>2
        <3>. QED  BY <2>6, <3>3
    <2>15. Fits(r, F)  BY <2>6, <2>11, <2>13, <2>14, Zenon DEF Fits
    <2>. QED  BY <1>1, <1>4, <2>15 DEF r
<1>. QED  BY <1>3, <1>4

LEMMA MergeLinkedFits ==
    ASSUME NEW F, NEW cs, Fits(cs, F)
    PROVE  Fits(MergeLinked(cs), F)
<1>. DEFINE Q == {v \in Seq(Seq(Finding)) : Fits(v, F)}
            n == Len(cs)
<1>1. cs \in Q /\ cs \in Seq(Seq(Finding))  BY DEF Fits
<1>2. ASSUME NEW v \in Q PROVE JoinFirst(v) \in Q
    <2>1. Fits(v, F)  OBVIOUS
    <2>2. Fits(JoinFirst(v), F)  BY <2>1, JoinFirstFits
    <2>3. JoinFirst(v) \in Seq(Seq(Finding))  BY <2>2 DEF Fits
    <2>. QED  BY <2>2, <2>3, Zenon
<1>3. n \in Nat  BY <1>1
<1>4. PICK g \in [0 .. n -> Q] : LinkRun(g, cs)
    <2>. HIDE DEF Q
    <2>. QED  BY <1>1, <1>2, LinkRuns
<1>5. n \in 0 .. n /\ g[n] \in Q  BY <1>3
<1>6. g[n] = MergeLinked(cs)  BY <1>4 DEF LinkRun
<1>. HIDE DEF n
<1>. QED  BY <1>5, <1>6, Zenon

\* The clusters of a file divide its findings among them and are sound.
LEMMA ClustersFit ==
    ASSUME NEW fs \in Seq(Finding), OneEach(fs)
    PROVE  Fits(Clusters(fs), ToSet(fs))
<1>. DEFINE sorted == ByLine(fs)
            tools == Among(sorted, {f \in ToSet(sorted) : IsTool(f)})
            rest == Among(sorted, {f \in ToSet(sorted) : ~IsTool(f)})
            linked == MergeLinked(PlaceAll(tools \o rest))
            r == Clusters(fs)
<1>1. r = [i \in DOMAIN linked |-> Among(sorted, ToSet(linked[i]))]  BY Zenon DEF Clusters
<1>2. sorted \in Seq(Finding) /\ ToSet(sorted) = ToSet(fs) /\ OneEach(sorted)
    BY ByLineMembers
<1>. HIDE DEF sorted
<1>3. /\ tools \in Seq(Finding) /\ ToSet(tools) = ToSet(sorted) \cap {f \in ToSet(sorted) : IsTool(f)}
      /\ OneEach(tools)
    <2>1. tools \in Seq(Finding) /\ ToSet(tools) = ToSet(sorted) \cap {f \in ToSet(sorted) : IsTool(f)}
        BY <1>2, AmongMembers
    <2>. QED  BY <1>2, <2>1, AmongOneEach
<1>4. /\ rest \in Seq(Finding) /\ ToSet(rest) = ToSet(sorted) \cap {f \in ToSet(sorted) : ~IsTool(f)}
      /\ OneEach(rest)
    <2>1. rest \in Seq(Finding) /\ ToSet(rest) = ToSet(sorted) \cap {f \in ToSet(sorted) : ~IsTool(f)}
        BY <1>2, AmongMembers
    <2>. QED  BY <1>2, <2>1, AmongOneEach
<1>. HIDE DEF tools, rest
<1>5. tools \o rest \in Seq(Finding) /\ ToSet(tools \o rest) = ToSet(sorted) /\ OneEach(tools \o rest)
    <2>1. ToSet(tools) \cap ToSet(rest) = {}  BY <1>3, <1>4
    <2>2. ToSet(tools \o rest) = ToSet(tools) \cup ToSet(rest)  BY <1>3, <1>4, ConcatMembers
    <2>3. OneEach(tools \o rest)  BY <1>3, <1>4, <2>1, ConcatOneEach
    <2>4. ToSet(tools) \cup ToSet(rest) = ToSet(sorted)  BY <1>3, <1>4
    <2>. QED  BY <1>3, <1>4, <2>2, <2>3, <2>4
<1>6. Fits(PlaceAll(tools \o rest), ToSet(sorted))  BY <1>5, PlaceAllFits
<1>7. Fits(linked, ToSet(sorted))  BY <1>6, MergeLinkedFits
<1>. HIDE DEF linked
<1>8. ASSUME NEW i \in DOMAIN linked
      PROVE  r[i] \in Seq(Finding) /\ ToSet(r[i]) = ToSet(linked[i])
    <2>. DEFINE L == ToSet(linked[i])
    <2>1. L \subseteq ToSet(sorted)  BY <1>7 DEF Fits
    <2>2. r[i] = Among(sorted, L)  BY <1>1
    <2>. HIDE DEF L, r
    <2>3. Among(sorted, L) \in Seq(Finding) /\ ToSet(Among(sorted, L)) = ToSet(sorted) \cap L
        BY <1>2, AmongMembers
    <2>. QED  BY <2>1, <2>2, <2>3 DEF L
<1>9. DOMAIN r = DOMAIN linked  BY <1>1
<1>10. r \in Seq(Seq(Finding))
    <2>1. DOMAIN linked = 1 .. Len(linked) /\ Len(linked) \in Nat  BY <1>7 DEF Fits
    <2>2. r \in [1 .. Len(linked) -> Seq(Finding)]
        <3>1. r = [i \in 1 .. Len(linked) |-> r[i]]  BY <1>1, <1>9, <2>1
        <3>. HIDE DEF r
        <3>. QED  BY <1>8, <2>1, <3>1
    <2>. HIDE DEF r
    <2>. QED  BY <2>1, <2>2
<1>. HIDE DEF r
<1>11. \A i \in DOMAIN r : ToSet(r[i]) # {} /\ Sound(ToSet(r[i]))  BY <1>7, <1>8, <1>9 DEF Fits
<1>12. ToSet(fs) = UNION {ToSet(r[i]) : i \in DOMAIN r}
    <2>1. ToSet(sorted) = UNION {ToSet(linked[i]) : i \in DOMAIN linked}  BY <1>7 DEF Fits
    <2>. QED  BY <1>2, <1>8, <1>9, <2>1
<1>13. \A i, j \in DOMAIN r : i # j => ToSet(r[i]) \cap ToSet(r[j]) = {}
    BY <1>7, <1>8, <1>9 DEF Fits
<1>14. Fits(r, ToSet(fs))  BY <1>10, <1>11, <1>12, <1>13, Zenon DEF Fits
<1>. QED  BY <1>14 DEF r

-----------------------------------------------------------------------------
(* The clusters of a report *)

\* Findings that name different reported findings.
Apart(F) == \A f, g \in F : f # g => f.from \cap g.from = {}

LEMMA ReportMembers ==
    ASSUME NEW raw, IsReport(raw)
    PROVE  /\ raw \in Seq(Finding) /\ OneEach(raw) /\ Apart(ToSet(raw))
           /\ \A f \in ToSet(raw) : /\ f \in Finding /\ f.sources = {f.source} /\ ~f.demoted
                                    /\ f.from # {}
<1>1. raw \in Seq(Finding)  BY DEF IsReport
<1>2. \A i \in DOMAIN raw : /\ raw[i] \in Finding /\ raw[i].sources = {raw[i].source}
                            /\ ~raw[i].demoted /\ raw[i].from # {}
    BY <1>1 DEF IsReport
<1>3. \A i, j \in DOMAIN raw : i # j => raw[i].from \cap raw[j].from = {}  BY DEF IsReport
<1>4. OneEach(raw)
    <2>1. ASSUME NEW i \in DOMAIN raw, NEW j \in DOMAIN raw, raw[i] = raw[j], i # j PROVE FALSE
        <3>1. raw[i].from \cap raw[i].from = {}  BY <1>3, <2>1
        <3>. QED  BY <1>2, <3>1
    <2>. QED  BY <2>1 DEF OneEach
<1>5. Apart(ToSet(raw))  BY <1>3 DEF Apart, ToSet
<1>. QED  BY <1>1, <1>2, <1>4, <1>5 DEF ToSet

OfFile(raw, x) == Among(Confident(raw), {f \in ToSet(Confident(raw)) : f.file = x})
Files(raw) == {f.file : f \in ToSet(Confident(raw))} \ {""}

LEMMA OfFileMembers ==
    ASSUME NEW raw \in Seq(Finding), OneEach(raw), NEW x
    PROVE  /\ OfFile(raw, x) \in Seq(Finding) /\ OneEach(OfFile(raw, x))
           /\ ToSet(OfFile(raw, x)) = {f \in ToSet(raw) : f.sure /\ f.file = x}
           /\ ToSet(Confident(raw)) = {f \in ToSet(raw) : f.sure}
           /\ Confident(raw) \in Seq(Finding)
<1>. DEFINE sure == {f \in ToSet(raw) : f.sure}
            fs == Confident(raw)
            here == {f \in ToSet(fs) : f.file = x}
<1>1. fs = Among(raw, sure)  BY DEF Confident
<1>. HIDE DEF fs
<1>2. fs \in Seq(Finding) /\ ToSet(fs) = ToSet(raw) \cap sure
    <2>. HIDE DEF sure
    <2>. QED  BY <1>1, AmongMembers
<1>3. OneEach(fs)
    <2>. HIDE DEF sure
    <2>. QED  BY <1>1, AmongOneEach
<1>4. Among(fs, here) \in Seq(Finding) /\ ToSet(Among(fs, here)) = ToSet(fs) \cap here
    <2>. HIDE DEF here
    <2>. QED  BY <1>2, AmongMembers
<1>5. OneEach(Among(fs, here))
    <2>. HIDE DEF here
    <2>. QED  BY <1>2, <1>3, AmongOneEach
<1>6. OfFile(raw, x) = Among(fs, here)  BY DEF OfFile, fs
<1>7. ToSet(fs) = sure  BY <1>2
<1>8. ToSet(fs) \cap here = {f \in ToSet(raw) : f.sure /\ f.file = x}  BY <1>7
<1>. QED  BY <1>2, <1>4, <1>5, <1>6, <1>7, <1>8 DEF fs

\* The confident findings with a file are each in one cluster: of their file, and sound.
Divides(cls, raw) ==
    /\ \A c \in cls :
           /\ c \in Seq(Finding) /\ ToSet(c) # {} /\ Sound(ToSet(c))
           /\ \A f \in ToSet(c) : f \in ToSet(raw) /\ f.sure /\ f.file # ""
           /\ \A f, g \in ToSet(c) : f.file = g.file
    /\ \A f \in ToSet(raw) : f.sure /\ f.file # "" => \E c \in cls : f \in ToSet(c)
    /\ \A c, d \in cls : c # d => ToSet(c) \cap ToSet(d) = {}

LEMMA AllClustersDivide ==
    ASSUME NEW raw \in Seq(Finding), OneEach(raw)
    PROVE  Divides(AllClusters(raw), raw)
<1>. DEFINE cls == AllClusters(raw)
            In(x) == Clusters(OfFile(raw, x))
<1>1. cls = UNION {ToSet(In(x)) : x \in Files(raw)}
    BY Zenon DEF AllClusters, OfFile, Files
<1>2. ASSUME NEW x PROVE Fits(In(x), {f \in ToSet(raw) : f.sure /\ f.file = x})
    <2>1. /\ OfFile(raw, x) \in Seq(Finding) /\ OneEach(OfFile(raw, x))
          /\ ToSet(OfFile(raw, x)) = {f \in ToSet(raw) : f.sure /\ f.file = x}
        BY OfFileMembers
    <2>2. Fits(In(x), ToSet(OfFile(raw, x)))  BY <2>1, ClustersFit
    <2>. QED  BY <2>1, <2>2
<1>3. \A x : x \in Files(raw) <=> x # "" /\ \E f \in ToSet(raw) : f.sure /\ f.file = x
    <2>1. ToSet(Confident(raw)) = {f \in ToSet(raw) : f.sure}  BY OfFileMembers
    <2>. QED  BY <2>1 DEF Files
<1>4. ASSUME NEW c \in cls
      PROVE  \E x \in Files(raw) : \E i \in DOMAIN In(x) : c = In(x)[i]
    <2>1. PICK x \in Files(raw) : c \in ToSet(In(x))  BY <1>1
    <2>. QED  BY <2>1 DEF ToSet
<1>. HIDE DEF cls, In
<1>5. ASSUME NEW x, NEW i \in DOMAIN In(x)
      PROVE  /\ In(x)[i] \in Seq(Finding) /\ ToSet(In(x)[i]) # {} /\ Sound(ToSet(In(x)[i]))
             /\ \A f \in ToSet(In(x)[i]) : f \in ToSet(raw) /\ f.sure /\ f.file = x
    <2>1. Fits(In(x), {f \in ToSet(raw) : f.sure /\ f.file = x})  BY <1>2
    <2>2. In(x)[i] \in Seq(Finding)  BY <2>1 DEF Fits
    <2>3. ToSet(In(x)[i]) # {} /\ Sound(ToSet(In(x)[i]))  BY <2>1 DEF Fits
    <2>4. ToSet(In(x)[i]) \subseteq {f \in ToSet(raw) : f.sure /\ f.file = x}  BY <2>1 DEF Fits
    <2>. QED  BY <2>2, <2>3, <2>4
<1>6. ASSUME NEW c \in cls
      PROVE  /\ c \in Seq(Finding) /\ ToSet(c) # {} /\ Sound(ToSet(c))
             /\ \A f \in ToSet(c) : f \in ToSet(raw) /\ f.sure /\ f.file # ""
             /\ \A f, g \in ToSet(c) : f.file = g.file
    <2>1. PICK x \in Files(raw) : \E i \in DOMAIN In(x) : c = In(x)[i]  BY <1>4
    <2>2. PICK i \in DOMAIN In(x) : c = In(x)[i]  BY <2>1
    <2>3. x # ""  BY <1>3
    <2>4. /\ In(x)[i] \in Seq(Finding) /\ ToSet(In(x)[i]) # {} /\ Sound(ToSet(In(x)[i]))
          /\ \A f \in ToSet(In(x)[i]) : f \in ToSet(raw) /\ f.sure /\ f.file = x
        BY <1>5
    <2>5. \A f \in ToSet(c) : f \in ToSet(raw) /\ f.sure /\ f.file = x  BY <2>2, <2>4
    <2>6. c \in Seq(Finding) /\ ToSet(c) # {} /\ Sound(ToSet(c))  BY <2>2, <2>4
    <2>7. \A f \in ToSet(c) : f \in ToSet(raw) /\ f.sure /\ f.file # ""  BY <2>3, <2>5, Zenon
    <2>8. \A f, g \in ToSet(c) : f.file = g.file  BY <2>5, Zenon
    <2>. QED  BY <2>6, <2>7, <2>8, Zenon
<1>7. ASSUME NEW f \in ToSet(raw), f.sure, f.file # "" PROVE \E c \in cls : f \in ToSet(c)
    <2>. DEFINE x == f.file
                here == {g \in ToSet(raw) : g.sure /\ g.file = x}
    <2>1. x \in Files(raw) /\ f \in here  BY <1>3, <1>7
    <2>2. Fits(In(x), here)  BY <1>2
    <2>. HIDE DEF x, here
    <2>3. PICK i \in DOMAIN In(x) : f \in ToSet(In(x)[i])
        <3>1. here = UNION {ToSet(In(x)[i]) : i \in DOMAIN In(x)}  BY <2>2 DEF Fits
        <3>. QED  BY <2>1, <3>1
    <2>4. In(x)[i] \in ToSet(In(x))  BY DEF ToSet
    <2>5. In(x)[i] \in cls  BY <1>1, <2>1, <2>4
    <2>. QED  BY <2>3, <2>5
<1>8. ASSUME NEW c \in cls, NEW d \in cls, c # d PROVE ToSet(c) \cap ToSet(d) = {}
    <2>. PICK x \in Files(raw) : \E i \in DOMAIN In(x) : c = In(x)[i]  BY <1>4
    <2>1. PICK i \in DOMAIN In(x) : c = In(x)[i]  OBVIOUS
    <2>. PICK y \in Files(raw) : \E j \in DOMAIN In(y) : d = In(y)[j]  BY <1>4
    <2>2. PICK j \in DOMAIN In(y) : d = In(y)[j]  OBVIOUS
    <2>3. CASE x = y
        <3>1. i # j  BY <1>8, <2>1, <2>2, <2>3
        <3>2. Fits(In(x), {f \in ToSet(raw) : f.sure /\ f.file = x})  BY <1>2
        <3>. QED  BY <2>1, <2>2, <2>3, <3>1, <3>2 DEF Fits
    <2>4. CASE x # y
        <3>1. (\A f \in ToSet(c) : f.file = x) /\ \A f \in ToSet(d) : f.file = y
            BY <1>5, <2>1, <2>2
        <3>. QED  BY <2>4, <3>1
    <2>. QED  BY <2>3, <2>4
<1>9. Divides(cls, raw)  BY <1>6, <1>7, <1>8 DEF Divides
<1>. QED  BY <1>9 DEF cls

-----------------------------------------------------------------------------
(* Merged findings *)

LEMMA FindingFields ==
    ASSUME NEW f \in Finding
    PROVE  /\ f.sev \in Nat /\ f.line \in Nat /\ f.cat \in STRING /\ f.file \in STRING
           /\ f.sources \in SUBSET STRING /\ f.from \in SUBSET (STRING \X Nat)
           /\ f.demoted \in BOOLEAN /\ f.style \in BOOLEAN
BY MergeAssumption DEF Finding

LEMMA MembersType ==
    ASSUME NEW T, NEW s \in Seq(T)
    PROVE  /\ ToSet(s) \subseteq T /\ DOMAIN s \in SUBSET Nat
           /\ \A x \in ToSet(s) : \E i \in DOMAIN s : s[i] = x
<1>1. DOMAIN s = 1 .. Len(s) /\ Len(s) \in Nat /\ \A i \in 1 .. Len(s) : s[i] \in T  OBVIOUS
<1>. QED  BY <1>1 DEF ToSet

\* The finding m stands for the findings F, in the place and with the text of one of them.
Stands(m, F) ==
    /\ m \in Finding /\ ~m.demoted /\ m.source \in m.sources
    /\ m.from = UNION {f.from : f \in F} /\ m.sources = UNION {f.sources : f \in F}
    /\ \A f \in F : m.sev <= f.sev
    /\ \E w \in F : /\ m.file = w.file /\ m.line = w.line /\ m.text = w.text
                    /\ m.source = w.source /\ m.sev = w.sev

LEMMA WorstIs ==
    ASSUME NEW c \in Seq(Finding), ToSet(c) # {}
    PROVE  Worst(c) \in ToSet(c) /\ \A f \in ToSet(c) : Worst(c).sev <= f.sev
<1>. DEFINE sevs == {m.sev : m \in ToSet(c)}
            low == Min(sevs)
            at == {i \in DOMAIN c : c[i].sev = low}
<1>1. \A m \in ToSet(c) : m.sev \in Nat  BY MembersType, FindingFields
<1>2. low \in sevs /\ \A x \in sevs : low <= x
    <2>1. sevs \in SUBSET Nat /\ sevs # {}
        <3>1. PICK m \in ToSet(c) : TRUE  OBVIOUS
        <3>2. m.sev \in sevs  OBVIOUS
        <3>. QED  BY <1>1, <3>2
    <2>. HIDE DEF sevs
    <2>. QED  BY <2>1, MinFits
<1>. HIDE DEF low
<1>3. Min(at) \in at
    <2>1. PICK m \in ToSet(c) : m.sev = low  BY <1>2
    <2>2. PICK i \in DOMAIN c : c[i] = m  BY DEF ToSet
    <2>3. at \in SUBSET Nat /\ at # {}  BY <2>1, <2>2
    <2>. HIDE DEF at
    <2>. QED  BY <2>3, MinFits
<1>4. Worst(c) = c[Min(at)]  BY DEF Worst, low
<1>5. Worst(c).sev = low /\ Worst(c) \in ToSet(c)  BY <1>3, <1>4 DEF ToSet
<1>6. \A f \in ToSet(c) : f.sev \in sevs  OBVIOUS
<1>. QED  BY <1>2, <1>5, <1>6

LEMMA CollapseStands ==
    ASSUME NEW c \in Seq(Finding), ToSet(c) # {},
           \A f \in ToSet(c) : ~f.demoted /\ f.sources = {f.source}
    PROVE  Stands(Collapse(c), ToSet(c))
<1>. DEFINE w == Worst(c)
            real == {m.cat : m \in ToSet(c)} \ {"other"}
            cat == IF real # {} /\ \A a, b \in real : a = b
                     THEN CHOOSE a \in real : TRUE ELSE w.cat
            sources == UNION {m.sources : m \in ToSet(c)}
            from == UNION {m.from : m \in ToSet(c)}
            corr == Corroborated(c)
            r == [w EXCEPT !.sources = sources, !.cat = cat, !.corroborated = corr, !.from = from]
<1>1. Collapse(c) = r  BY DEF Collapse
<1>2. w \in ToSet(c) /\ \A f \in ToSet(c) : w.sev <= f.sev  BY WorstIs
<1>3. \A m \in ToSet(c) : m \in Finding  BY DEF ToSet
<1>4. sources \in SUBSET STRING /\ from \in SUBSET (STRING \X Nat)  BY <1>3 DEF Finding
<1>5. cat \in STRING
    <2>1. \A a \in real : a \in STRING  BY <1>3 DEF Finding
    <2>2. real # {} => (CHOOSE a \in real : TRUE) \in real
        <3>. HIDE DEF real
        <3>. QED  OBVIOUS
    <2>3. w.cat \in STRING  BY <1>2, <1>3 DEF Finding
    <2>. HIDE DEF real, w
    <2>. QED  BY <2>1, <2>2, <2>3
<1>6. corr \in BOOLEAN  BY DEF Corroborated
<1>7. w.source \in sources /\ ~w.demoted  BY <1>2
<1>8. w \in Finding  BY <1>2, <1>3
<1>. HIDE DEF w, sources, from, cat, corr
<1>9. /\ r \in Finding /\ r.sources = sources /\ r.from = from /\ r.sev = w.sev /\ r.file = w.file
      /\ r.line = w.line /\ r.text = w.text /\ r.source = w.source /\ r.demoted = w.demoted
    BY <1>4, <1>5, <1>6, <1>8 DEF Finding
<1>. HIDE DEF r
<1>10. /\ r.from = UNION {f.from : f \in ToSet(c)} /\ r.sources = UNION {f.sources : f \in ToSet(c)}
    BY <1>9 DEF from, sources
<1>11. Stands(r, ToSet(c))  BY <1>2, <1>7, <1>9, <1>10, Zenon DEF Stands
<1>. QED  BY <1>1, <1>11

\* A finding without a file stands for the findings with its text.
LEMMA FilelessStands ==
    ASSUME NEW fs \in Seq(Finding), NEW m \in Fileless(fs),
           \A f \in ToSet(fs) : ~f.demoted /\ f.sources = {f.source} /\ f.file = ""
    PROVE  /\ m \in Finding /\ ~m.demoted /\ m.file = "" /\ m.source \in m.sources
           /\ m.from \subseteq UNION {f.from : f \in ToSet(fs)}
<1>. DEFINE same(t) == {g \in ToSet(fs) : g.text = t}
            at(t) == {i \in DOMAIN fs : fs[i].text = t}
            first(t) == fs[Min(at(t))]
            r(t) == [first(t) EXCEPT !.sources = UNION {g.sources : g \in same(t)},
                                     !.from = UNION {g.from : g \in same(t)}]
<1>1. Fileless(fs) = {r(t) : t \in {g.text : g \in ToSet(fs)}}  BY DEF Fileless
<1>2. PICK g \in ToSet(fs) : m = r(g.text)
    <2>. HIDE DEF r
    <2>. QED  BY <1>1
<1>. DEFINE t == g.text
            w == first(t)
            sources == UNION {h.sources : h \in same(t)}
            from == UNION {h.from : h \in same(t)}
<1>3. at(t) \in SUBSET Nat /\ at(t) # {}
    <2>1. PICK i \in DOMAIN fs : fs[i] = g  BY DEF ToSet
    <2>2. i \in at(t)  BY <2>1
    <2>3. DOMAIN fs \in SUBSET Nat  BY MembersType
    <2>. QED  BY <2>2, <2>3
<1>4. Min(at(t)) \in at(t)
    <2>. HIDE DEF at, t
    <2>. QED  BY <1>3, MinFits
<1>5. w \in same(t)  BY <1>4 DEF ToSet
<1>6. \A h \in same(t) : h \in ToSet(fs) /\ h \in Finding  BY MembersType
<1>7. sources \in SUBSET STRING /\ from \in SUBSET (STRING \X Nat)
    <2>. HIDE DEF same, t
    <2>1. \A h \in same(t) : h.sources \in SUBSET STRING /\ h.from \in SUBSET (STRING \X Nat)
        BY <1>6, FindingFields
    <2>2. sources \in SUBSET STRING  BY <2>1
    <2>3. ASSUME NEW x \in from PROVE x \in STRING \X Nat
        <3>1. PICK h \in same(t) : x \in h.from  OBVIOUS
        <3>2. h.from \subseteq STRING \X Nat  BY <2>1
        <3>. HIDE DEF from
        <3>. QED  BY <3>1, <3>2
    <2>. HIDE DEF from
    <2>. QED  BY <2>2, <2>3
<1>8. /\ w \in Finding /\ ~w.demoted /\ w.file = "" /\ w.source \in sources
    <2>1. w \in ToSet(fs) /\ w \in Finding  BY <1>5, <1>6
    <2>2. w.source \in w.sources  BY <2>1
    <2>. HIDE DEF same, w, t
    <2>. QED  BY <1>5, <2>1, <2>2
<1>9. from \subseteq UNION {f.from : f \in ToSet(fs)}
    <2>. HIDE DEF same, t
    <2>. QED  BY <1>6
<1>10. m = [w EXCEPT !.sources = sources, !.from = from]  BY <1>2
<1>. HIDE DEF w, sources, from
<1>11. m \in Finding /\ m.sources = sources /\ m.from = from /\ m.file = w.file
       /\ m.source = w.source /\ m.demoted = w.demoted
    BY <1>7, <1>8, <1>10 DEF Finding
<1>. QED  BY <1>8, <1>9, <1>11

\* What merging a report raw into the findings ms keeps of it.
Merges(ms, raw) ==
    /\ \A m \in ms : m \in Finding /\ ~m.demoted /\ m.source \in m.sources
    /\ \A f \in ToSet(raw) :
           f.sure /\ f.file # "" =>
               \E m \in ms : /\ f.from \subseteq m.from /\ m.file = f.file /\ m.sev <= f.sev
                             /\ \A n \in ms \ {m} : n.from \cap m.from = {}
                             /\ IsStandalone(f) =>
                                    m.sources = f.sources /\ m.text = f.text /\ m.line = f.line

LEMMA MergedMerges ==
    ASSUME NEW raw, IsReport(raw)
    PROVE  Merges(Merged(raw), raw)
<1>. DEFINE cls == AllClusters(raw)
            bare == Among(Confident(raw), {f \in ToSet(raw) : f.file = ""})
            ms == Merged(raw)
<1>1. /\ raw \in Seq(Finding) /\ OneEach(raw) /\ Apart(ToSet(raw))
      /\ \A f \in ToSet(raw) : /\ f \in Finding /\ f.sources = {f.source} /\ ~f.demoted
                               /\ f.from # {}
    BY ReportMembers
<1>2. Divides(cls, raw)  BY <1>1, AllClustersDivide
<1>3. bare \in Seq(Finding) /\ \A f \in ToSet(bare) : f \in ToSet(raw) /\ f.file = ""
    <2>. DEFINE S == {f \in ToSet(raw) : f.file = ""}
    <2>1. Confident(raw) \in Seq(Finding)  BY <1>1, OfFileMembers
    <2>2. bare = Among(Confident(raw), S)  OBVIOUS
    <2>3. \A f \in S : f \in ToSet(raw) /\ f.file = ""  OBVIOUS
    <2>. HIDE DEF S
    <2>4. bare \in Seq(Finding) /\ ToSet(bare) = ToSet(Confident(raw)) \cap S
        BY <2>1, <2>2, AmongMembers
    <2>. QED  BY <2>3, <2>4
<1>4. ms = {Collapse(c) : c \in cls} \cup Fileless(bare)  BY DEF Merged
<1>. HIDE DEF cls, bare, ms
<1>5. ASSUME NEW c \in cls PROVE Stands(Collapse(c), ToSet(c))
    <2>1. c \in Seq(Finding) /\ ToSet(c) # {}  BY <1>2 DEF Divides
    <2>2. \A f \in ToSet(c) : ~f.demoted /\ f.sources = {f.source}  BY <1>1, <1>2 DEF Divides
    <2>. QED  BY <2>1, <2>2, CollapseStands
<1>6. ASSUME NEW m \in Fileless(bare)
      PROVE  /\ m \in Finding /\ ~m.demoted /\ m.file = "" /\ m.source \in m.sources
             /\ m.from \subseteq UNION {f.from : f \in ToSet(bare)}
    <2>1. \A f \in ToSet(bare) : ~f.demoted /\ f.sources = {f.source} /\ f.file = ""
        BY <1>1, <1>3
    <2>. QED  BY <1>3, <2>1, FilelessStands
<1>7. ASSUME NEW m \in ms PROVE m \in Finding /\ ~m.demoted /\ m.source \in m.sources
    <2>1. CASE m \in Fileless(bare)  BY <1>6, <2>1
    <2>2. ASSUME NEW c \in cls, m = Collapse(c)
          PROVE m \in Finding /\ ~m.demoted /\ m.source \in m.sources
        BY <1>5, <2>2 DEF Stands
    <2>. QED  BY <1>4, <2>1, <2>2
<1>8. ASSUME NEW f \in ToSet(raw), f.sure, f.file # ""
      PROVE  \E m \in ms : /\ f.from \subseteq m.from /\ m.file = f.file /\ m.sev <= f.sev
                           /\ \A n \in ms \ {m} : n.from \cap m.from = {}
                           /\ IsStandalone(f) =>
                                  m.sources = f.sources /\ m.text = f.text /\ m.line = f.line
    <2>1. PICK c \in cls : f \in ToSet(c)  BY <1>2, <1>8 DEF Divides
    <2>. DEFINE m == Collapse(c)
    <2>2. m \in ms /\ Stands(m, ToSet(c))  BY <1>4, <1>5
    <2>3. \A g \in ToSet(c) : g \in ToSet(raw) /\ g.file = f.file /\ g.file # ""
        BY <1>2, <2>1 DEF Divides
    <2>. HIDE DEF m
    <2>4. PICK w \in ToSet(c) : /\ m.file = w.file /\ m.line = w.line /\ m.text = w.text
                                /\ m.source = w.source /\ m.sev = w.sev
        BY <2>2 DEF Stands
    <2>5. f.from \subseteq m.from /\ m.file = f.file /\ m.sev <= f.sev
        BY <2>1, <2>2, <2>3, <2>4 DEF Stands
    <2>6. ASSUME NEW n \in ms \ {m} PROVE n.from \cap m.from = {}
        <3>1. ASSUME NEW x \in n.from, x \in m.from PROVE FALSE
            <4>1. PICK g \in ToSet(c) : x \in g.from  BY <2>2, <3>1 DEF Stands
            <4>2. \E h \in ToSet(raw) : h \notin ToSet(c) /\ x \in h.from
                <5>1. ASSUME n \in Fileless(bare)
                      PROVE  \E h \in ToSet(raw) : h \notin ToSet(c) /\ x \in h.from
                    <6>1. PICK h \in ToSet(bare) : x \in h.from  BY <1>6, <3>1, <5>1
                    <6>. QED  BY <1>3, <2>3, <6>1
                <5>2. ASSUME NEW d \in cls, n = Collapse(d)
                      PROVE  \E h \in ToSet(raw) : h \notin ToSet(c) /\ x \in h.from
                    <6>1. Stands(n, ToSet(d)) /\ c # d  BY <1>5, <5>2 DEF m
                    <6>2. PICK h \in ToSet(d) : x \in h.from  BY <3>1, <6>1 DEF Stands
                    <6>3. h \in ToSet(raw) /\ ToSet(c) \cap ToSet(d) = {}
                        BY <1>2, <6>1 DEF Divides
                    <6>. QED  BY <6>2, <6>3
                <5>. QED  BY <1>4, <5>1, <5>2
            <4>3. PICK h \in ToSet(raw) : h \notin ToSet(c) /\ x \in h.from  BY <4>2
            <4>4. g \in ToSet(raw) /\ g # h  BY <2>3, <4>3
            <4>. QED  BY <1>1, <4>1, <4>3, <4>4 DEF Apart
        <3>. QED  BY <3>1
    <2>7. IsStandalone(f) => m.sources = f.sources /\ m.text = f.text /\ m.line = f.line
        <3>. SUFFICES ASSUME IsStandalone(f)
                      PROVE  m.sources = f.sources /\ m.text = f.text /\ m.line = f.line
            OBVIOUS
        <3>1. \A g \in ToSet(c) : g = f  BY <1>2, <2>1 DEF Divides, Sound
        <3>2. w = f /\ ToSet(c) = {f}  BY <2>1, <3>1
        <3>3. m.sources = UNION {g.sources : g \in {f}}  BY <2>2, <3>2 DEF Stands
        <3>. QED  BY <2>4, <3>2, <3>3
    <2>. QED  BY <2>2, <2>5, <2>6, <2>7
<1>9. Merges(ms, raw)  BY <1>7, <1>8 DEF Merges
<1>. QED  BY <1>9 DEF ms

-----------------------------------------------------------------------------
(* What is kept *)

\* A finding that its source reports.
Proper(m) == m \in Finding /\ ~m.demoted /\ m.source \in m.sources

LEMMA ScopedKeeps ==
    ASSUME NEW S, \A m \in S : Proper(m)
    PROVE  /\ \A s \in Scoped(S) : Proper(s)
           /\ \A m \in S : ~OutOfDiff(m) => m \in Scoped(S)
           /\ \A m \in S : ~(Scope = "drop" /\ OutOfDiff(m)) =>
                  \E s \in Scoped(S) : s.from = m.from /\ s.text = m.text /\ s.source = m.source
<1>. DEFINE cap(f) == IF OutOfDiff(f) THEN [f EXCEPT !.sev = 3, !.out = TRUE] ELSE f
<1>1. ASSUME NEW m \in S
      PROVE  Proper(cap(m)) /\ cap(m).from = m.from /\ cap(m).text = m.text /\ cap(m).source = m.source
    <2>1. m \in Finding /\ ~m.demoted /\ m.source \in m.sources  BY DEF Proper
    <2>. DEFINE low == [m EXCEPT !.sev = 3]
                r == [low EXCEPT !.out = TRUE]
    <2>3. /\ low \in Finding /\ low.demoted = m.demoted /\ low.source = m.source
          /\ low.sources = m.sources /\ low.from = m.from /\ low.text = m.text
        BY <2>1 DEF Finding
    <2>4. r = [m EXCEPT !.sev = 3, !.out = TRUE]  OBVIOUS
    <2>. HIDE DEF low
    <2>2. /\ r \in Finding /\ r.demoted = m.demoted /\ r.source = m.source
          /\ r.sources = m.sources /\ r.from = m.from /\ r.text = m.text
        BY <2>3 DEF Finding
    <2>. HIDE DEF r
    <2>. QED  BY <2>1, <2>2, <2>4 DEF Proper
<1>. HIDE DEF cap
<1>2. CASE Scope = "off"
    <2>1. Scoped(S) = S  BY <1>2 DEF Scoped
    <2>. QED  BY <2>1
<1>3. CASE Scope = "drop"
    <2>1. Scoped(S) = {f \in S : ~OutOfDiff(f)}  BY <1>3 DEF Scoped
    <2>. QED  BY <1>3, <2>1
<1>4. CASE Scope = "cap"
    <2>1. Scoped(S) = {cap(f) : f \in S}  BY <1>4 DEF Scoped, cap
    <2>2. \A m \in S : ~OutOfDiff(m) => cap(m) = m  BY DEF cap
    <2>3. \A m \in S : cap(m) \in Scoped(S)  BY <2>1
    <2>4. \A m \in S : ~OutOfDiff(m) => m \in Scoped(S)  BY <2>2, <2>3
    <2>5. \A s \in Scoped(S) : Proper(s)  BY <1>1, <2>1
    <2>. QED  BY <1>1, <2>3, <2>4, <2>5
<1>. QED  BY <1>2, <1>3, <1>4, MergeAssumption

LEMMA RolledUpKeeps ==
    ASSUME NEW S, \A m \in S : Proper(m)
    PROVE  /\ \A k \in RolledUp(S) : Proper(k)
           /\ \A s \in S : \E k \in RolledUp(S) :
                  /\ k.sev = s.sev /\ k.text = s.text /\ k.source = s.source
                  /\ s.from \subseteq k.from
<1>. DEFINE rule(f) == {g \in S : IsAnalyzer(g) /\ SameRule(f, g)}
            rolled(f) == IsAnalyzer(f) /\ f.file # "" /\ Cardinality(rule(f)) > Repeats
            top(f) == CHOOSE g \in rule(f) : \A h \in rule(f) : g.line <= h.line
            up(f) == IF rolled(f) THEN [top(f) EXCEPT !.from = UNION {g.from : g \in rule(f)}] ELSE f
<1>1. RolledUp(S) = {up(f) : f \in S}  BY Zenon DEF RolledUp
<1>2. ASSUME NEW f \in S
      PROVE  /\ Proper(up(f)) /\ up(f).sev = f.sev /\ up(f).text = f.text /\ up(f).source = f.source
             /\ f.from \subseteq up(f).from
    <2>1. ASSUME rolled(f)
          PROVE  /\ Proper(up(f)) /\ up(f).sev = f.sev /\ up(f).text = f.text /\ up(f).source = f.source
                 /\ f.from \subseteq up(f).from
        <3>. DEFINE R == rule(f)
                    t == top(f)
                    from == UNION {g.from : g \in R}
        <3>1. \A g \in R : Proper(g) /\ SameRule(f, g)  OBVIOUS
        <3>2. f \in R  BY <2>1 DEF SameRule
        <3>3. up(f) = [t EXCEPT !.from = from]  BY <2>1
        <3>4. t = CHOOSE g \in R : \A h \in R : g.line <= h.line  OBVIOUS
        <3>. HIDE DEF R, t, rolled, up
        <3>5. t \in R
            <4>. DEFINE lines == {g.line : g \in R}
            <4>1. \A g \in R : g.line \in Nat  BY <3>1, FindingFields DEF Proper
            <4>2. lines \in SUBSET Nat /\ lines # {}
                <5>1. f.line \in lines  BY <3>2
                <5>. QED  BY <4>1, <5>1
            <4>3. PICK l \in lines : \A x \in lines : l <= x
                <5>. HIDE DEF lines
                <5>. QED  BY <4>2, LeastExists
            <4>4. PICK g \in R : g.line = l  BY <4>3
            <4>5. \A h \in R : g.line <= h.line  BY <4>3, <4>4
            <4>. QED  BY <3>4, <4>4, <4>5
        <3>6. /\ t \in Finding /\ ~t.demoted /\ t.source \in t.sources
              /\ f.sev = t.sev /\ f.text = t.text /\ f.source = t.source
            BY <3>1, <3>5 DEF Proper, SameRule
        <3>7. from \in SUBSET (STRING \X Nat)
            <4>1. ASSUME NEW x \in from PROVE x \in STRING \X Nat
                <5>1. PICK g \in R : x \in g.from  OBVIOUS
                <5>2. g.from \in SUBSET (STRING \X Nat)  BY <3>1, FindingFields DEF Proper
                <5>. HIDE DEF from
                <5>. QED  BY <5>1, <5>2
            <4>. HIDE DEF from
            <4>. QED  BY <4>1
        <3>8. f.from \subseteq from  BY <3>2
        <3>. HIDE DEF from
        <3>9. /\ up(f) \in Finding /\ up(f).demoted = t.demoted /\ up(f).source = t.source
              /\ up(f).sources = t.sources /\ up(f).sev = t.sev /\ up(f).text = t.text
              /\ up(f).from = from
            BY <3>3, <3>6, <3>7 DEF Finding
        <3>. QED  BY <3>6, <3>8, <3>9 DEF Proper
    <2>2. ASSUME ~rolled(f)
          PROVE  /\ Proper(up(f)) /\ up(f).sev = f.sev /\ up(f).text = f.text /\ up(f).source = f.source
                 /\ f.from \subseteq up(f).from
        <3>. HIDE DEF rolled
        <3>. QED  BY <2>2
    <2>. QED  BY <2>1, <2>2
<1>. HIDE DEF up
<1>3. \A k \in RolledUp(S) : Proper(k)  BY <1>1, <1>2
<1>4. ASSUME NEW s \in S
      PROVE \E k \in RolledUp(S) : /\ k.sev = s.sev /\ k.text = s.text /\ k.source = s.source
                                   /\ s.from \subseteq k.from
    <2>1. up(s) \in RolledUp(S)  BY <1>1
    <2>. QED  BY <1>2, <2>1
<1>. QED  BY <1>3, <1>4

\* What the steps after merging keep of the merged findings.
Keeps(ks, ms) ==
    /\ \A k \in ks : Proper(k)
    /\ \A m \in ms : m.text \notin Ruled /\ ~OutOfDiff(m) => \E k \in ks : k.sev = m.sev
    /\ \A m \in ms : m.text \notin Ruled /\ ~(Scope = "drop" /\ OutOfDiff(m)) =>
           \E k \in ks : m.from \subseteq k.from /\ k.text = m.text /\ k.source = m.source

LEMMA KeptKeeps ==
    ASSUME NEW raw, IsReport(raw)
    PROVE  Keeps(Kept(raw), Merged(raw))
<1>. DEFINE ms == Merged(raw)
            us == Unsuppressed(ms)
<1>1. \A m \in ms : Proper(m)  BY MergedMerges DEF Merges, Proper
<1>2. Kept(raw) = IF Scope = "off" THEN us ELSE RolledUp(Scoped(us))  BY DEF Kept
<1>. HIDE DEF ms
<1>3. us = {m \in ms : m.text \notin Ruled}  BY DEF Unsuppressed
<1>. HIDE DEF us
<1>4. CASE Scope = "off"
    <2>1. Keeps(us, ms)  BY <1>1, <1>3, <1>4 DEF Keeps
    <2>. QED  BY <1>2, <1>4, <2>1 DEF ms
<1>5. CASE Scope # "off"
    <2>. DEFINE ss == Scoped(us)
                ks == RolledUp(ss)
    <2>1. /\ \A s \in ss : Proper(s)
          /\ \A m \in us : ~OutOfDiff(m) => m \in ss
          /\ \A m \in us : ~(Scope = "drop" /\ OutOfDiff(m)) =>
                 \E s \in ss : s.from = m.from /\ s.text = m.text /\ s.source = m.source
        BY <1>1, <1>3, ScopedKeeps
    <2>. HIDE DEF ss
    <2>2. /\ \A k \in ks : Proper(k)
          /\ \A s \in ss : \E k \in ks :
                 /\ k.sev = s.sev /\ k.text = s.text /\ k.source = s.source
                 /\ s.from \subseteq k.from
        BY <2>1, RolledUpKeeps
    <2>. HIDE DEF ks
    <2>3. ASSUME NEW m \in ms, m.text \notin Ruled, ~OutOfDiff(m) PROVE \E k \in ks : k.sev = m.sev
        <3>1. m \in ss  BY <1>3, <2>1, <2>3
        <3>. QED  BY <2>2, <3>1
    <2>4. ASSUME NEW m \in ms, m.text \notin Ruled, ~(Scope = "drop" /\ OutOfDiff(m))
          PROVE  \E k \in ks : m.from \subseteq k.from /\ k.text = m.text /\ k.source = m.source
        <3>1. PICK s \in ss : s.from = m.from /\ s.text = m.text /\ s.source = m.source
            BY <1>3, <2>1, <2>4
        <3>2. PICK k \in ks : /\ k.sev = s.sev /\ k.text = s.text /\ k.source = s.source
                              /\ s.from \subseteq k.from
            BY <2>2
        <3>. QED  BY <3>1, <3>2
    <2>5. Keeps(ks, ms)  BY <2>2, <2>3, <2>4 DEF Keeps
    <2>. QED  BY <1>2, <1>5, <2>5 DEF ms, ks, ss
<1>. QED  BY <1>4, <1>5

-----------------------------------------------------------------------------
(* What the agents and the analyzers report *)

\* What one source reports and what another one does are a report together.
LEMMA ReportConcat ==
    ASSUME NEW s, NEW t, IsReport(s), IsReport(t),
           \A f \in ToSet(s), g \in ToSet(t) : f.source # g.source
    PROVE  IsReport(s \o t) /\ ToSet(s \o t) = ToSet(s) \cup ToSet(t)
<1>. DEFINE u == s \o t
<1>1. s \in Seq(Finding) /\ t \in Seq(Finding)  BY DEF IsReport
<1>2. /\ Len(u) = Len(s) + Len(t) /\ DOMAIN u = 1 .. Len(u)
      /\ DOMAIN s = 1 .. Len(s) /\ DOMAIN t = 1 .. Len(t)
      /\ \A i \in 1 .. Len(u) : u[i] = IF i <= Len(s) THEN s[i] ELSE t[i - Len(s)]
      /\ u \in Seq(Finding) /\ Len(s) \in Nat /\ Len(t) \in Nat
    BY <1>1
<1>3. ToSet(u) = ToSet(s) \cup ToSet(t)  BY <1>1, ConcatMembers
<1>. DEFINE Own(f) == /\ f.sources = {f.source} /\ ~f.demoted
                      /\ f.from # {} /\ f.from \subseteq {f.source} \X Nat
<1>4. (\A f \in ToSet(s) : Own(f)) /\ (\A f \in ToSet(t) : Own(f))  BY DEF IsReport, ToSet
<1>5. \A f \in ToSet(s), g \in ToSet(t) : f.from \cap g.from = {}
    <2>1. ASSUME NEW f \in ToSet(s), NEW g \in ToSet(t), NEW x \in f.from, x \in g.from
          PROVE  FALSE
        <3>1. f.from \subseteq {f.source} \X Nat /\ g.from \subseteq {g.source} \X Nat  BY <1>4
        <3>2. x[1] = f.source /\ x[1] = g.source  BY <2>1, <3>1
        <3>. QED  BY <3>2
    <2>. QED  BY <2>1
<1>. HIDE DEF u
<1>6. \A i \in DOMAIN u : Own(u[i])
    <2>1. \A i \in DOMAIN u : u[i] \in ToSet(s) \cup ToSet(t)  BY <1>3 DEF ToSet
    <2>. HIDE DEF Own
    <2>. QED  BY <1>4, <2>1
<1>7. ASSUME NEW i \in DOMAIN u, NEW j \in DOMAIN u, i # j PROVE u[i].from \cap u[j].from = {}
    <2>1. \A k \in DOMAIN u : k <= Len(s) => k \in DOMAIN s /\ u[k] = s[k] /\ u[k] \in ToSet(s)
        BY <1>2 DEF ToSet
    <2>2. \A k \in DOMAIN u : k > Len(s) => /\ k - Len(s) \in DOMAIN t
                                            /\ u[k] = t[k - Len(s)] /\ u[k] \in ToSet(t)
        <3>1. ASSUME NEW k \in DOMAIN u, k > Len(s)
              PROVE  k - Len(s) \in DOMAIN t /\ u[k] = t[k - Len(s)]
            BY <1>2, <3>1
        <3>. QED  BY <3>1 DEF ToSet
    <2>3. i \in Nat /\ j \in Nat  BY <1>2
    <2>4. CASE i <= Len(s) /\ j <= Len(s)  BY <1>7, <2>1, <2>4 DEF IsReport
    <2>5. CASE i > Len(s) /\ j > Len(s)
        <3>1. i - Len(s) # j - Len(s)  BY <1>2, <1>7, <2>3
        <3>2. t[i - Len(s)].from \cap t[j - Len(s)].from = {}  BY <2>2, <2>5, <3>1 DEF IsReport
        <3>. QED  BY <2>2, <2>5, <3>2
    <2>6. CASE i <= Len(s) /\ j > Len(s)  BY <1>5, <2>1, <2>2, <2>6
    <2>7. CASE i > Len(s) /\ j <= Len(s)  BY <1>5, <2>1, <2>2, <2>7
    <2>. QED  BY <1>2, <2>3, <2>4, <2>5, <2>6, <2>7
<1>8. IsReport(u)  BY <1>2, <1>6, <1>7, Zenon DEF IsReport
<1>. QED  BY <1>3, <1>8 DEF u

Result == [agent : Agents, code : Tier!Codes]
Phases == {"agents", "merged", "skipped", "judged", "exited", "posted"}

\* The findings and results are of their type, and no agent has two results.
Types ==
    /\ said \in [Agents -> Seq(Finding)] /\ known \in Known /\ phase \in Phases
    /\ \A a \in Agents : said[a] = <<>> \/ said[a] \in Answers[a]
    /\ results \in Seq(Result)
    /\ \A i, j \in DOMAIN results : results[i].agent = results[j].agent => i = j

\* Each agent that answered is among the successes once.
LEMMA SuccessesOnce ==
    ASSUME Types
    PROVE  /\ Successes \in Seq(Result)
           /\ ToSet(Successes) = {r \in ToSet(results) : r.code = Tier!Answer}
           /\ \A i, j \in DOMAIN Successes : Successes[i].agent = Successes[j].agent => i = j
<1>. DEFINE S == {r \in ToSet(results) : r.code = Tier!Answer}
            ok == Successes
<1>1. results \in Seq(Result)  BY DEF Types
<1>2. \A i, j \in DOMAIN results : results[i].agent = results[j].agent => i = j  BY DEF Types
<1>3. ok = Among(results, S)  BY DEF Successes
<1>. HIDE DEF ok
<1>4. ok \in Seq(Result) /\ ToSet(ok) = ToSet(results) \cap S
    <2>. HIDE DEF S
    <2>. QED  BY <1>1, <1>3, AmongMembers
<1>5. OneEach(results)  BY <1>2 DEF OneEach
<1>6. OneEach(ok)
    <2>. HIDE DEF S
    <2>. QED  BY <1>1, <1>3, <1>5, AmongOneEach
<1>7. ASSUME NEW i \in DOMAIN ok, NEW j \in DOMAIN ok, ok[i].agent = ok[j].agent PROVE i = j
    <2>1. ok[i] \in ToSet(results) /\ ok[j] \in ToSet(results)  BY <1>4 DEF ToSet
    <2>2. PICK p \in DOMAIN results : ok[i] = results[p]  BY <2>1 DEF ToSet
    <2>3. PICK q \in DOMAIN results : ok[j] = results[q]  BY <2>1 DEF ToSet
    <2>4. p = q  BY <1>2, <1>7, <2>2, <2>3
    <2>. QED  BY <1>6, <2>2, <2>3, <2>4 DEF OneEach
<1>8. ToSet(results) \cap S = S  OBVIOUS
<1>. QED  BY <1>4, <1>7, <1>8 DEF ok

\* What the answers and the analyzers report is a report.
LEMMA RawIsReport ==
    ASSUME Types
    PROVE  IsReport(Raw) /\ IsReport(known)
<1>. DEFINE ok == Successes
            n == Len(ok)
            ss == [i \in DOMAIN ok |-> said[ok[i].agent]]
            rest == FlattenSeq(ss)
<1>1. /\ ok \in Seq(Result)
      /\ \A i, j \in DOMAIN ok : ok[i].agent = ok[j].agent => i = j
    BY SuccessesOnce
<1>2. Raw = known \o rest  BY DEF Raw
<1>3. /\ said \in [Agents -> Seq(Finding)] /\ known \in Known
      /\ \A a \in Agents : said[a] = <<>> \/ said[a] \in Answers[a]
    BY DEF Types
<1>. HIDE DEF ok, rest
<1>4. n \in Nat /\ DOMAIN ok = 1 .. n /\ \A i \in 1 .. n : ok[i].agent \in Agents
    <2>1. \A r \in Result : r.agent \in Agents  BY DEF Result
    <2>. QED  BY <1>1, <2>1
<1>. HIDE DEF n
<1>5. IsReport(<<>>)  BY DEF IsReport
<1>6. ASSUME NEW a \in Agents
      PROVE  IsReport(said[a]) /\ \A f \in ToSet(said[a]) : f.source = a
    <2>1. CASE said[a] = <<>>  BY <1>5, <2>1 DEF ToSet
    <2>2. CASE said[a] \in Answers[a]  BY <2>2, VerdictAssumption DEF ToSet
    <2>. QED  BY <1>3, <2>1, <2>2
<1>7. ss \in Seq(Seq(Finding)) /\ Len(ss) = n /\ \A i \in 1 .. n : ss[i] = said[ok[i].agent]
    <2>1. ss = [i \in 1 .. n |-> said[ok[i].agent]]  BY <1>4
    <2>2. \A i \in 1 .. n : said[ok[i].agent] \in Seq(Finding)  BY <1>3, <1>4
    <2>. HIDE DEF ss
    <2>. QED  BY <1>4, <2>1, <2>2
<1>. HIDE DEF ss
<1>8. PICK g \in [0 .. n -> Seq(Finding)] : FlattenRun(g, ss)
    <2>1. \E g \in [0 .. Len(ss) -> Seq(Finding)] : FlattenRun(g, ss)  BY <1>7, FlattenRuns
    <2>. QED  BY <1>7, <2>1
<1>9. g[0] = <<>> /\ g[n] = rest /\ \A i \in 1 .. n : g[i] = g[i - 1] \o ss[i]
    BY <1>7, <1>8 DEF FlattenRun, rest
<1>. DEFINE From(fs, i) == \A f \in ToSet(fs) : \E j \in 1 .. i : f.source = ok[j].agent
            Good == {i \in 0 .. n : IsReport(g[i]) /\ From(g[i], i)}
<1>10. 0 \in Good
    <2>1. IsReport(g[0]) /\ From(g[0], 0)  BY <1>5, <1>9 DEF ToSet
    <2>2. 0 \in 0 .. n  BY <1>4
    <2>. QED  BY <2>1, <2>2, Zenon
<1>11. ASSUME NEW i \in 1 .. n, i - 1 \in Good PROVE i \in Good
    <2>1. i \in 0 .. n /\ i - 1 \in 0 .. n /\ IsReport(g[i - 1]) /\ From(g[i - 1], i - 1)
        BY <1>4, <1>11
    <2>. DEFINE t == ss[i]
    <2>2. g[i] = g[i - 1] \o t  BY <1>9
    <2>3. IsReport(t) /\ \A f \in ToSet(t) : f.source = ok[i].agent  BY <1>4, <1>6, <1>7
    <2>. HIDE DEF t
    <2>4. ASSUME NEW j \in 1 .. (i - 1) PROVE ok[j].agent # ok[i].agent
        <3>1. j \in 1 .. n /\ i \in 1 .. n /\ j # i  BY <1>4
        <3>2. j \in DOMAIN ok /\ i \in DOMAIN ok  BY <1>4, <3>1
        <3>. QED  BY <1>1, <3>1, <3>2
    <2>5. \A f \in ToSet(g[i - 1]), h \in ToSet(t) : f.source # h.source  BY <2>1, <2>3, <2>4
    <2>6. IsReport(g[i]) /\ ToSet(g[i]) = ToSet(g[i - 1]) \cup ToSet(t)
        BY <2>1, <2>2, <2>3, <2>5, ReportConcat
    <2>7. From(g[i], i)
        <3>1. \A j \in 1 .. (i - 1) : j \in 1 .. i  OBVIOUS
        <3>2. i \in 1 .. i  OBVIOUS
        <3>3. ASSUME NEW f \in ToSet(g[i]) PROVE \E j \in 1 .. i : f.source = ok[j].agent
            <4>1. CASE f \in ToSet(g[i - 1])  BY <2>1, <3>1, <4>1
            <4>2. CASE f \in ToSet(t)  BY <2>3, <3>2, <4>2
            <4>. QED  BY <2>6, <4>1, <4>2
        <3>. QED  BY <3>3
    <2>. HIDE DEF From
    <2>. QED  BY <2>1, <2>6, <2>7, Zenon
<1>12. 0 .. n \subseteq Good
    <2>. HIDE DEF Good
    <2>. QED  BY <1>4, <1>10, <1>11, UpTo
<1>13. IsReport(rest) /\ From(rest, n)
    <2>1. n \in 0 .. n  BY <1>4
    <2>. HIDE DEF From
    <2>2. IsReport(g[n]) /\ From(g[n], n)  BY <1>12, <2>1, Zenon
    <2>. QED  BY <1>9, <2>2
<1>14. IsReport(known) /\ \A f \in ToSet(known) : f.source \notin Agents
    BY <1>3, VerdictAssumption DEF ToSet
<1>15. \A f \in ToSet(known), h \in ToSet(rest) : f.source # h.source  BY <1>4, <1>13, <1>14
<1>. QED  BY <1>2, <1>13, <1>14, <1>15, ReportConcat

-----------------------------------------------------------------------------
(* The inductive invariant *)

\* Of every severity that the pipeline kept a finding is still there.
Shown == \A k \in Kept(Raw) : \E l \in kept : l.sev = k.sev

\* Judging starts from what the pipeline kept, and what is approved has no failure
\* and no finding that blocks.  The later phases come only once the tier is over.
IInv ==
    /\ Types
    /\ phase # "agents" => Tier!Over
    /\ phase = "merged" => kept = Kept(Raw)
    /\ phase \in {"merged", "judged", "posted"} => Shown
    /\ phase = "skipped" =>
           kept = Kept(known) /\ Skipped(results) /\ outcome.posted # "APPROVE"
    /\ phase = "posted" /\ outcome.posted = "APPROVE" =>
           Failures = <<>> /\ \A k \in kept : ~(k.sev <= High)

LEMMA InitIInv == Init => IInv
<1>. SUFFICES ASSUME Init PROVE IInv  OBVIOUS
<1>1. /\ said = [a \in Agents |-> <<>>] /\ known \in Known /\ results = <<>>
      /\ phase = "agents" /\ outcome = NoOutcome
    BY DEF Init, Tier!Init
<1>2. said \in [Agents -> Seq(Finding)]
    <2>1. <<>> \in Seq(Finding)  OBVIOUS
    <2>. QED  BY <1>1, <2>1
<1>3. Types  BY <1>1, <1>2 DEF Types, Phases
<1>. QED  BY <1>1, <1>3 DEF IInv

\* A tier that takes one more result keeps them apart.
LEMMA ReportTypes ==
    ASSUME Types, NEW a \in Agents, NEW code \in Tier!Codes, AgentReports(a, code)
    PROVE  Types'
<1>1. /\ a \notin Tier!Reported /\ results' = Append(results, [agent |-> a, code |-> code])
      /\ known' = known /\ phase' = phase
    BY DEF AgentReports, Tier!Report
<1>2. PICK fs \in Answers[a] \cup {<<>>} : said' = [said EXCEPT ![a] = fs]
    BY DEF AgentReports
<1>3. /\ said \in [Agents -> Seq(Finding)] /\ known \in Known /\ phase \in Phases
      /\ \A b \in Agents : said[b] = <<>> \/ said[b] \in Answers[b]
      /\ results \in Seq(Result)
      /\ \A i, j \in DOMAIN results : results[i].agent = results[j].agent => i = j
    BY DEF Types
<1>4. fs \in Seq(Finding)
    <2>1. CASE fs \in Answers[a]  BY <2>1, VerdictAssumption DEF IsReport
    <2>2. CASE fs = <<>>  BY <2>2
    <2>. QED  BY <2>1, <2>2
<1>5. said' \in [Agents -> Seq(Finding)]
      /\ \A b \in Agents : said'[b] = <<>> \/ said'[b] \in Answers[b]
    BY <1>2, <1>3, <1>4
<1>. DEFINE r == [agent |-> a, code |-> code]
<1>6. r \in Result /\ r.agent = a  BY DEF Result
<1>7. \A i \in DOMAIN results : results[i].agent # a  BY <1>1 DEF Tier!Reported, Tier!ToSet
<1>. HIDE DEF r
<1>8. /\ results' \in Seq(Result) /\ Len(results') = Len(results) + 1
      /\ DOMAIN results' = 1 .. Len(results') /\ DOMAIN results = 1 .. Len(results)
      /\ \A i \in DOMAIN results : results'[i] = results[i]
      /\ results'[Len(results) + 1] = r
    BY <1>1, <1>3, <1>6 DEF r
<1>9. Len(results) \in Nat  BY <1>3
<1>10. ASSUME NEW i \in DOMAIN results', NEW j \in DOMAIN results',
              results'[i].agent = results'[j].agent
       PROVE  i = j
    <2>1. i \in DOMAIN results \/ i = Len(results) + 1  BY <1>8, <1>9
    <2>2. j \in DOMAIN results \/ j = Len(results) + 1  BY <1>8, <1>9
    <2>. QED  BY <1>3, <1>6, <1>7, <1>8, <1>10, <2>1, <2>2
<1>. QED  BY <1>1, <1>3, <1>5, <1>8, <1>10 DEF Types

LEMMA NextIInv == IInv /\ [Next]_vars => IInv'
<1>. SUFFICES ASSUME IInv, [Next]_vars PROVE IInv'  OBVIOUS
<1>. USE DEF High
<1>1. Types /\ (phase # "agents" => Tier!Over)  BY DEF IInv
<1>2. \A a \in Agents, code \in Tier!Codes : AgentReports(a, code) => IInv'
    <2>. SUFFICES ASSUME NEW a \in Agents, NEW code \in Tier!Codes, AgentReports(a, code)
                  PROVE  IInv'
        OBVIOUS
    <2>1. Types'  BY <1>1, ReportTypes
    <2>2. phase' = "agents"  BY DEF AgentReports
    <2>. QED  BY <2>1, <2>2 DEF IInv
<1>3. ASSUME UNCHANGED <<said, known, results>>
      PROVE  /\ Raw' = Raw /\ Kept(Raw)' = Kept(Raw) /\ Kept(known)' = Kept(known)
             /\ Successes' = Successes /\ Failures' = Failures
             /\ Skipped(results)' = Skipped(results) /\ Tier!Over' = Tier!Over
             /\ (phase' \in Phases => Types')
    <2>1. Successes' = Successes /\ Failures' = Failures  BY <1>3 DEF Successes, Failures
    <2>2. Raw' = Raw  BY <1>3, <2>1 DEF Raw
    <2>3. Tier!Over' = Tier!Over  BY <1>3 DEF Tier!Over, Tier!Reported
    <2>4. phase' \in Phases => Types'  BY <1>1, <1>3 DEF Types
    <2>. QED  BY <1>3, <2>1, <2>2, <2>3, <2>4
<1>4. PostSkip => IInv'
    <2>. SUFFICES ASSUME PostSkip PROVE IInv'  OBVIOUS
    <2>1. /\ Tier!Over /\ Skipped(results) /\ kept' = Kept(known) /\ phase' = "skipped"
          /\ UNCHANGED <<said, known, results>>
        BY DEF PostSkip
    <2>2. PICK ceiling \in Ceilings : outcome' = Capped(Classify(kept', TRUE), ceiling)
        BY DEF PostSkip
    <2>3. outcome'.posted # "APPROVE"
        <3>1. Classify(kept', TRUE).event # "APPROVE"  BY DEF Classify
        <3>2. outcome'.posted \in {Classify(kept', TRUE).event, "COMMENT"}
            BY <2>2 DEF Capped, Classify
        <3>. QED  BY <3>1, <3>2
    <2>. QED  BY <1>3, <2>1, <2>3 DEF IInv, Phases
<1>5. Collect => IInv'
    <2>. SUFFICES ASSUME Collect PROVE IInv'  OBVIOUS
    <2>1. /\ Tier!Over /\ kept' = Kept(Raw) /\ phase' = "merged"
          /\ UNCHANGED <<said, known, results>>
        BY DEF Collect
    <2>2. kept' = Kept(Raw)'  BY <1>3, <2>1
    <2>3. Shown'  BY <2>2 DEF Shown
    <2>. QED  BY <1>3, <2>1, <2>2, <2>3 DEF IInv, Phases
<1>6. Judge => IInv'
    <2>. SUFFICES ASSUME Judge PROVE IInv'  OBVIOUS
    <2>1. phase = "merged" /\ phase' = "judged" /\ UNCHANGED <<said, known, results>>
        BY DEF Judge
    <2>2. PICK down \in SUBSET kept : kept' = {IF f \in down THEN Downranked(f) ELSE f : f \in kept}
        BY DEF Judge
    <2>3. \A k \in kept : Proper(k)
        <3>1. kept = Kept(Raw)  BY <2>1 DEF IInv
        <3>. QED  BY <1>1, <3>1, RawIsReport, KeptKeeps DEF Keeps
    <2>4. \A k \in kept : Downranked(k).sev = k.sev  BY <2>3 DEF Downranked, Proper, Finding
    <2>5. \A k \in kept : \E l \in kept' : l.sev = k.sev  BY <2>2, <2>4
    <2>6. Shown'  BY <1>3, <2>1, <2>5 DEF IInv, Shown
    <2>. QED  BY <1>1, <1>3, <2>1, <2>6 DEF IInv, Phases
<1>7. \A code \in Tier!Codes \ {Tier!Answer} : JudgeFails(code) => IInv'
    <2>. SUFFICES ASSUME NEW code \in Tier!Codes \ {Tier!Answer}, JudgeFails(code) PROVE IInv'
        OBVIOUS
    <2>1. /\ phase = "merged" /\ phase' \in {"judged", "exited"}
          /\ UNCHANGED <<said, known, results, kept, outcome>>
        BY DEF JudgeFails
    <2>2. Shown'  BY <1>3, <2>1 DEF IInv, Shown
    <2>. QED  BY <1>1, <1>3, <2>1, <2>2 DEF IInv, Phases
<1>8. Post => IInv'
    <2>. SUFFICES ASSUME Post PROVE IInv'  OBVIOUS
    <2>1. /\ phase \in {"merged", "judged"} /\ phase' = "posted"
          /\ UNCHANGED <<said, known, results, kept>>
        BY DEF Post
    <2>2. PICK ceiling \in Ceilings : outcome' = Capped(Classify(kept, Failures # <<>>), ceiling)
        BY DEF Post
    <2>3. Shown'  BY <1>3, <2>1 DEF IInv, Shown
    <2>4. ASSUME outcome'.posted = "APPROVE"
          PROVE  Failures = <<>> /\ \A k \in kept : ~(k.sev <= High)
        <3>1. Classify(kept, Failures # <<>>).event = "APPROVE"
            <4>1. outcome'.posted \in {Classify(kept, Failures # <<>>).event, "COMMENT"}
                BY <2>2 DEF Capped, Classify
            <4>. QED  BY <2>4, <4>1
        <3>. QED  BY <3>1 DEF Classify
    <2>. QED  BY <1>1, <1>3, <2>1, <2>3, <2>4 DEF IInv, Phases
<1>9. UNCHANGED vars => IInv'
    <2>. SUFFICES ASSUME UNCHANGED vars PROVE IInv'  OBVIOUS
    <2>1. UNCHANGED <<said, known, results>> /\ phase' = phase /\ kept' = kept /\ outcome' = outcome
        BY DEF vars
    <2>2. Shown' = Shown  BY <1>3, <2>1 DEF Shown
    <2>3. Types'  BY <1>1, <1>3, <2>1 DEF Types
    <2>. QED  BY <1>3, <2>1, <2>2, <2>3 DEF IInv
<1>. QED  BY <1>2, <1>4, <1>5, <1>6, <1>7, <1>8, <1>9, Zenon DEF Next

\* In every run the findings and results have their types, no agent has two results, a
\* judgement starts from what the pipeline kept, and an approval leaves no failure and
\* no finding that blocks: run_review() goes through its phases in order.
THEOREM InvariantHolds == Spec => []IInv
<1>1. Init => IInv  BY InitIInv
<1>2. IInv /\ [Next]_vars => IInv'  BY NextIInv
<1>. QED  BY <1>1, <1>2, PTL DEF Spec

-----------------------------------------------------------------------------
(* The properties *)

\* Clustering neither loses a finding nor plays one down, for any findings and any
\* lines: merge_findings() puts each confident one into exactly one merged finding.
THEOREM SeverityKept == Spec => []MergeKeepsSeverity
<1>1. IInv => MergeKeepsSeverity
    <2>. SUFFICES ASSUME IInv PROVE MergeKeepsSeverity  OBVIOUS
    <2>1. IsReport(Raw)  BY RawIsReport DEF IInv
    <2>2. Merges(Merged(Raw), Raw)  BY <2>1, MergedMerges
    <2>. QED  BY <2>2 DEF Merges, MergeKeepsSeverity
<1>. QED  BY <1>1, InvariantHolds, PTL

\* The real categories of a sound cluster are at most one.
LEMMA SoundCategories ==
    ASSUME NEW C, Sound(C)
    PROVE  Cardinality({m.cat : m \in C} \ {"other"}) <= 1
<1>. DEFINE cats == {m.cat : m \in C} \ {"other"}
<1>1. \A a, b \in cats : a = b  BY DEF Sound
<1>2. CASE cats = {}
    <2>1. Cardinality(cats) = 0  BY <1>2, FS_EmptySet
    <2>. QED  BY <2>1
<1>3. CASE cats # {}
    <2>1. PICK a \in cats : TRUE  BY <1>3
    <2>2. cats = {a}
        <3>. HIDE DEF cats
        <3>. QED  BY <1>1, <2>1
    <2>. HIDE DEF cats
    <2>3. Cardinality(cats) = 1  BY <2>2, FS_Singleton
    <2>. QED  BY <2>3 DEF cats
<1>. QED  BY <1>2, <1>3

\* What a cluster hides may be hidden: through any order of placing findings and any
\* joining of clusters by _merge_linked_clusters() a cluster has one real category, style
\* findings are among their likes, and a suppression-check finding stays one of its own.
THEOREM ClustersAreSound == Spec => []ClustersSound
<1>1. IInv => OneCategory
    <2>. SUFFICES ASSUME IInv PROVE OneCategory  OBVIOUS
    <2>1. IsReport(Raw)  BY RawIsReport DEF IInv
    <2>2. Divides(AllClusters(Raw), Raw)  BY <2>1, ReportMembers, AllClustersDivide
    <2>3. \A c \in AllClusters(Raw) : Sound(ToSet(c))  BY <2>2 DEF Divides
    <2>4. \A c \in AllClusters(Raw) : Cardinality({m.cat : m \in ToSet(c)} \ {"other"}) <= 1
        BY <2>3, SoundCategories
    <2>. QED  BY <2>4 DEF OneCategory
<1>2. IInv => StyleApart
    <2>. SUFFICES ASSUME IInv PROVE StyleApart  OBVIOUS
    <2>1. IsReport(Raw)  BY RawIsReport DEF IInv
    <2>2. Divides(AllClusters(Raw), Raw)  BY <2>1, ReportMembers, AllClustersDivide
    <2>3. \A c \in AllClusters(Raw) : Sound(ToSet(c))  BY <2>2 DEF Divides
    <2>4. ASSUME NEW c \in AllClusters(Raw), NEW m \in ToSet(c), NEW n \in ToSet(c), IsStyle(m)
          PROVE  m.cat = n.cat /\ (IsTool(m) /\ IsTool(n) => IsStyle(n))
        <3>1. Sound(ToSet(c))  BY <2>3
        <3>2. m.cat = n.cat /\ StyleFlagsAgree(m, n)  BY <2>4, <3>1 DEF Sound
        <3>. QED  BY <2>4, <3>2 DEF StyleFlagsAgree
    <2>. QED  BY <2>4, Zenon DEF StyleApart
<1>3. IInv => StandaloneStays
    <2>. SUFFICES ASSUME IInv, Collected, NEW f \in ToSet(Considered),
                         f.sure, f.file # "", IsStandalone(f), f.text \notin Ruled,
                         ~(Scope = "drop" /\ OutOfDiff(f))
                  PROVE  \E k \in kept : f.from \subseteq k.from /\ k.text = f.text /\ IsStandalone(k)
        BY DEF StandaloneStays
    <2>. DEFINE raw == Considered
    <2>1. IsReport(raw)  BY RawIsReport DEF IInv, Considered
    <2>2. kept = Kept(raw)  BY DEF IInv, Collected, Considered
    <2>. HIDE DEF raw
    <2>3. f \in ToSet(raw)  BY DEF raw
    <2>4. Merges(Merged(raw), raw) /\ Keeps(Kept(raw), Merged(raw))
        BY <2>1, MergedMerges, KeptKeeps
    <2>5. PICK m \in Merged(raw) :
              /\ f.from \subseteq m.from /\ m.file = f.file
              /\ m.sources = f.sources /\ m.text = f.text /\ m.line = f.line
        BY <2>3, <2>4 DEF Merges
    <2>6. ~(Scope = "drop" /\ OutOfDiff(m))  BY <2>5 DEF OutOfDiff, IsAnalyzer
    <2>7. PICK k \in Kept(raw) : m.from \subseteq k.from /\ k.text = m.text /\ k.source = m.source
        BY <2>4, <2>5, <2>6 DEF Keeps
    <2>8. m.source \in Standalone
        <3>1. m.source \in m.sources  BY <2>4 DEF Merges
        <3>2. f.sources = {f.source}  BY <2>1, <2>3, ReportMembers
        <3>. QED  BY <2>5, <3>1, <3>2 DEF IsStandalone
    <2>9. k.source \in k.sources  BY <2>4, <2>7 DEF Keeps, Proper
    <2>10. IsStandalone(k)  BY <2>7, <2>8, <2>9 DEF IsStandalone
    <2>. QED  BY <2>2, <2>5, <2>7, <2>10
<1>. QED  BY <1>1, <1>2, <1>3, InvariantHolds, PTL DEF ClustersSound

\* Without failures every agent has answered.
LEMMA AllAnswered ==
    ASSUME Types, Tier!Over, Failures = <<>>
    PROVE  Len(Successes) = Cardinality(Agents)
<1>. DEFINE ok == Successes
            n == Len(ok)
            bad == {r \in ToSet(results) : r.code # Tier!Answer}
            f == [i \in 1 .. n |-> ok[i].agent]
<1>1. /\ ok \in Seq(Result) /\ ToSet(ok) = {r \in ToSet(results) : r.code = Tier!Answer}
      /\ \A i, j \in DOMAIN ok : ok[i].agent = ok[j].agent => i = j
    BY SuccessesOnce
<1>2. results \in Seq(Result)  BY DEF Types
<1>3. ToSet(results) \cap bad = {}
    <2>1. Failures = Among(results, bad)  BY DEF Failures
    <2>2. ToSet(<<>>) = {}  BY DEF ToSet
    <2>. HIDE DEF bad
    <2>3. ToSet(Among(results, bad)) = ToSet(results) \cap bad  BY <1>2, AmongMembers
    <2>. QED  BY <2>1, <2>2, <2>3
<1>4. \A r \in ToSet(results) : r \in ToSet(ok)  BY <1>1, <1>3
<1>5. Agents = {r.agent : r \in ToSet(results)}  BY DEF Tier!Over, Tier!Reported, Tier!ToSet, ToSet
<1>. HIDE DEF ok, bad
<1>6. n \in Nat /\ DOMAIN ok = 1 .. n /\ \A i \in 1 .. n : ok[i] \in Result  BY <1>1
<1>7. \A r \in Result : r.agent \in Agents  BY DEF Result
<1>. HIDE DEF n
<1>8. f \in Bijection(1 .. n, Agents)
    <2>1. f \in [1 .. n -> Agents]  BY <1>6, <1>7
    <2>2. \A i, j \in 1 .. n : f[i] = f[j] => i = j  BY <1>1, <1>6
    <2>3. ASSUME NEW a \in Agents PROVE \E i \in 1 .. n : f[i] = a
        <3>1. PICK r \in ToSet(ok) : r.agent = a  BY <1>4, <1>5
        <3>2. PICK i \in DOMAIN ok : ok[i] = r  BY DEF ToSet
        <3>. QED  BY <1>6, <3>1, <3>2
    <2>4. f \in Injection(1 .. n, Agents)  BY <2>1, <2>2 DEF Injection, IsInjective
    <2>. HIDE DEF f
    <2>5. f \in Surjection(1 .. n, Agents)  BY <2>1, <2>3 DEF Surjection
    <2>. QED  BY <2>4, <2>5 DEF Bijection
<1>9. Cardinality(1 .. n) = n  BY <1>6, FS_Interval
<1>10. IsFiniteSet(1 .. n)  BY <1>6, FS_Interval
<1>11. ExistsBijection(1 .. n, Agents)  BY <1>8 DEF ExistsBijection
<1>12. Cardinality(Agents) = Cardinality(1 .. n)  BY <1>10, <1>11, FS_Bijection
<1>. QED  BY <1>9, <1>12 DEF n, ok

\* An approval is earned, whatever the agents answer and in whatever order: nobody failed,
\* and a Critical or High finding gave way only to a rule or lies outside the diff.
THEOREM ApprovalsAreEarned == Spec => []ApprovalIsEarned
<1>1. IInv => ApprovalIsEarned
    <2>. SUFFICES ASSUME IInv, phase = "posted", outcome.posted = "APPROVE"
                  PROVE  /\ Len(Successes) = Cardinality(Agents)
                         /\ \A f \in ToSet(Raw) :
                                f.sure /\ f.file # "" /\ f.sev <= High =>
                                    \E m \in Merged(Raw) :
                                        f.from \subseteq m.from /\ (m.text \in Ruled \/ OutOfDiff(m))
        BY DEF ApprovalIsEarned
    <2>1. /\ Types /\ Tier!Over /\ Shown /\ Failures = <<>>
          /\ \A k \in kept : ~(k.sev <= High)
        BY DEF IInv
    <2>2. Len(Successes) = Cardinality(Agents)  BY <2>1, AllAnswered
    <2>3. IsReport(Raw)  BY <2>1, RawIsReport
    <2>4. Merges(Merged(Raw), Raw) /\ Keeps(Kept(Raw), Merged(Raw))
        BY <2>3, MergedMerges, KeptKeeps
    <2>5. ASSUME NEW f \in ToSet(Raw), f.sure, f.file # "", f.sev <= High
          PROVE  \E m \in Merged(Raw) :
                     f.from \subseteq m.from /\ (m.text \in Ruled \/ OutOfDiff(m))
        <3>1. PICK m \in Merged(Raw) : f.from \subseteq m.from /\ m.sev <= f.sev
            BY <2>4, <2>5 DEF Merges
        <3>2. m.sev <= High
            <4>1. f \in Finding /\ m \in Finding  BY <2>3, <2>4, ReportMembers DEF Merges
            <4>2. f.sev \in Nat /\ m.sev \in Nat  BY <4>1, FindingFields
            <4>3. \A x, y \in Nat : x <= y /\ y <= High => x <= High  BY DEF High
            <4>. QED  BY <2>5, <3>1, <4>2, <4>3, Zenon
        <3>3. ASSUME m.text \notin Ruled, ~OutOfDiff(m) PROVE FALSE
            <4>1. PICK k \in Kept(Raw) : k.sev = m.sev  BY <2>4, <3>3 DEF Keeps
            <4>2. PICK l \in kept : l.sev = k.sev  BY <2>1 DEF Shown
            <4>. QED  BY <2>1, <3>2, <4>1, <4>2
        <3>. QED  BY <3>1, <3>3
    <2>. QED  BY <2>2, <2>5
<1>. QED  BY <1>1, InvariantHolds, PTL

\* A skip comment takes no answer's place and approves nothing: run_review() posts one only
\* when every prompt of the tier was too long.
THEOREM SkipsHideNoAnswer == Spec => []SkipHidesNoAnswer
<1>1. IInv => SkipHidesNoAnswer
    <2>. SUFFICES ASSUME IInv, phase = "skipped"
                  PROVE  Successes = <<>> /\ outcome.posted # "APPROVE"
        BY DEF SkipHidesNoAnswer
    <2>1. Types /\ Skipped(results) /\ outcome.posted # "APPROVE"  BY DEF IInv
    <2>2. \A r \in ToSet(results) : r.code = Tier!TooLong  BY <2>1 DEF Skipped, ToSet
    <2>3. Tier!TooLong # Tier!Answer  BY DEF Tier!TooLong, Tier!Answer
    <2>4. ToSet(Successes) = {} /\ Successes \in Seq(Result)
        <3>1. /\ Successes \in Seq(Result)
              /\ ToSet(Successes) = {r \in ToSet(results) : r.code = Tier!Answer}
            BY <2>1, SuccessesOnce
        <3>. QED  BY <2>2, <2>3, <3>1
    <2>5. DOMAIN Successes = {}  BY <2>4 DEF ToSet
    <2>6. Successes = <<>>  BY <2>4, <2>5
    <2>. QED  BY <2>1, <2>6
<1>. QED  BY <1>1, InvariantHolds, PTL

\* The judge moves findings to the body and does nothing else to them, and what an analyzer
\* and an agent both report it leaves where it is: judge_findings() and a failed judge call.
THEOREM JudgeMovesOnly == Spec => JudgeOnlyMoves
<1>. DEFINE Moves == phase = "merged" =>
                        /\ {[f EXCEPT !.demoted = FALSE] : f \in kept'} = kept
                        /\ \A f \in kept' : f.demoted => ~f.corroborated
<1>1. IInv /\ [Next]_vars => [Moves]_vars
    <2>. SUFFICES ASSUME IInv, Next, phase = "merged"
                  PROVE  /\ {[f EXCEPT !.demoted = FALSE] : f \in kept'} = kept
                         /\ \A f \in kept' : f.demoted => ~f.corroborated
        OBVIOUS
    <2>1. \A k \in kept : Proper(k)
        <3>1. kept = Kept(Raw) /\ Types  BY DEF IInv
        <3>. QED  BY <3>1, RawIsReport, KeptKeeps DEF Keeps
    <2>2. \A f \in kept : [f EXCEPT !.demoted = FALSE] = f /\ ~f.demoted
        BY <2>1 DEF Proper, Finding
    <2>3. CASE kept' = kept
        <3>1. {[f EXCEPT !.demoted = FALSE] : f \in kept} = kept  BY <2>2, Zenon
        <3>. QED  BY <2>2, <2>3, <3>1
    <2>4. CASE Judge
        <3>1. PICK down \in SUBSET kept : kept' = {IF f \in down THEN Downranked(f) ELSE f : f \in kept}
            BY <2>4 DEF Judge
        <3>. DEFINE new(f) == IF f \in down THEN Downranked(f) ELSE f
        <3>2. ASSUME NEW f \in kept
              PROVE  [new(f) EXCEPT !.demoted = FALSE] = f /\ (new(f).demoted => ~new(f).corroborated)
            <4>1. [[f EXCEPT !.demoted = TRUE] EXCEPT !.demoted = FALSE] = f
                BY <2>1 DEF Proper, Finding
            <4>2. [f EXCEPT !.demoted = TRUE].corroborated = f.corroborated
                BY <2>1 DEF Proper, Finding
            <4>. QED  BY <2>2, <4>1, <4>2 DEF Downranked
        <3>3. kept' = {new(f) : f \in kept}  BY <3>1
        <3>. HIDE DEF new
        <3>4. {[g EXCEPT !.demoted = FALSE] : g \in {new(f) : f \in kept}} = kept
            <4>. DEFINE back(g) == [g EXCEPT !.demoted = FALSE]
            <4>1. \A f \in kept : back(new(f)) = f  BY <3>2
            <4>. HIDE DEF back
            <4>2. {back(g) : g \in {new(f) : f \in kept}} = kept  BY <4>1
            <4>. QED  BY <4>2 DEF back
        <3>. QED  BY <3>2, <3>3, <3>4
    <2>5. kept' = kept \/ Judge
        BY DEF Next, AgentReports, PostSkip, Collect, JudgeFails, Post
    <2>. QED  BY <2>3, <2>4, <2>5
<1>. QED  BY <1>1, InvariantHolds, PTL DEF Spec, JudgeOnlyMoves
=============================================================================
