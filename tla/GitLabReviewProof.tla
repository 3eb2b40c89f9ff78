-------------------------- MODULE GitLabReviewProof --------------------------
(***************************************************************************)
(* Proofs about GitLabReview: for any findings, diffs and limits, and any  *)
(* number of runs and faults.                                              *)
(***************************************************************************)
EXTENDS GitLabReview, SequenceTheorems, FiniteSetTheorems, TLAPS

-----------------------------------------------------------------------------
(* Numbers and sets *)

\* A set of naturals that is not empty has a least element.
LEMMA LeastExists ==
    ASSUME NEW S \in SUBSET Nat, S # {}
    PROVE  \E m \in S : \A x \in S : m <= x
<1>. DEFINE Less == {ss \in Nat \X Nat : ss[1] < ss[2]}
<1>1. IsWellFoundedOn(Less, Nat)  BY NatLessThanWellFounded, Zenon DEF OpToRel
<1>2. \A x, y \in Nat : x < y => <<x, y>> \in Less  OBVIOUS
<1>. HIDE DEF Less
<1>3. PICK m \in S : \A x \in S : ~(<<x, m>> \in Less)  BY <1>1, WFMin, Zenon
<1>4. ASSUME NEW x \in S  PROVE m <= x
    <2>1. x \in Nat /\ m \in Nat /\ ~(x < m)  BY <1>2, <1>3, Zenon
    <2>. QED  BY <2>1
<1>. QED  BY <1>4

\* Nth numbers the elements of a finite set of naturals from 1, each of them once.
LEMMA NthFits ==
    ASSUME NEW S \in SUBSET Nat, IsFiniteSet(S)
    PROVE  /\ Cardinality(S) \in Nat
           /\ \A n \in 1..Cardinality(S) : Nth(S, n) \in S
           /\ \A n, m \in 1..Cardinality(S) : Nth(S, n) = Nth(S, m) => n = m
           /\ \A i \in S : \E n \in 1..Cardinality(S) : Nth(S, n) = i
<1>. DEFINE N == Cardinality(S)
            upto(i) == {j \in S : j <= i}
            rank == [i \in S |-> Cardinality(upto(i))]
<1>1. N \in Nat  BY FS_CardinalityType
<1>2. ASSUME NEW i \in S PROVE rank[i] \in 1..N
    <2>1. upto(i) \in SUBSET S /\ i \in upto(i)  OBVIOUS
    <2>2. IsFiniteSet(upto(i)) /\ Cardinality(upto(i)) <= N  BY <2>1, FS_Subset
    <2>3. Cardinality(upto(i)) \in Nat /\ Cardinality(upto(i)) # 0
        BY <2>1, <2>2, FS_CardinalityType, FS_EmptySet
    <2>. QED  BY <1>1, <2>2, <2>3
<1>3. ASSUME NEW i \in S, NEW j \in S, i < j PROVE rank[i] # rank[j]
    <2>1. upto(j) \in SUBSET S /\ upto(i) \in SUBSET upto(j)
        <3>1. ASSUME NEW x \in S, x <= i PROVE x <= j
            <4>1. x \in Nat /\ i \in Nat /\ j \in Nat  OBVIOUS
            <4>. QED  BY <1>3, <3>1, <4>1
        <3>. QED  BY <3>1
    <2>2. j \in upto(j) /\ j \notin upto(i)  BY <1>3
    <2>3. IsFiniteSet(upto(j))  BY <2>1, FS_Subset
    <2>4. Cardinality(upto(i)) # Cardinality(upto(j))  BY <2>1, <2>2, <2>3, FS_Subset
    <2>. QED  BY <2>4
<1>4. \A i, j \in S : rank[i] = rank[j] => i = j
    <2>1. \A i, j \in S : i # j => i < j \/ j < i  OBVIOUS
    <2>. QED  BY <1>3, <2>1
<1>5. rank \in [S -> 1..N]  BY <1>2
<1>. HIDE DEF rank
<1>6. rank \in Injection(S, 1..N)  BY <1>4, <1>5 DEF Injection, IsInjective
<1>7. IsFiniteSet(1..N) /\ Cardinality(1..N) = N  BY <1>1, FS_Interval
<1>8. rank \in Surjection(S, 1..N)  BY <1>6, <1>7, FS_Injection, Zenon
<1>9. \A n \in 1..N : \E i \in S : rank[i] = n  BY <1>8, Zenon DEF Surjection
<1>10. \A i \in S : rank[i] = Cardinality(upto(i))  BY DEF rank
<1>. HIDE DEF N
<1>11. ASSUME NEW n \in 1..N PROVE Nth(S, n) \in S /\ rank[Nth(S, n)] = n
    <2>1. \E i \in S : Cardinality(upto(i)) = n  BY <1>9, <1>10
    <2>2. Nth(S, n) \in S /\ Cardinality(upto(Nth(S, n))) = n  BY <2>1, Zenon DEF Nth
    <2>. QED  BY <1>10, <2>2
<1>12. ASSUME NEW i \in S PROVE \E n \in 1..N : Nth(S, n) = i
    <2>1. rank[i] \in 1..N  BY <1>5
    <2>. QED  BY <1>4, <1>11, <2>1
<1>. QED  BY <1>1, <1>11, <1>12 DEF N

-----------------------------------------------------------------------------
(* Types *)

DiscussionType == [line : Nat, mark : Nat, rank : Nat, fresh : BOOLEAN]

RunType ==
    [pc : {"idle", "summary", "findings", "post", "tidy", "done"}, known : BOOLEAN,
     added : SUBSET Nat, found : SUBSET Findings, claims : SUBSET (Findings \X Nat),
     new : SUBSET Findings, body : SUBSET Findings, kept : SUBSET Nat,
     posted : Nat, tried : Nat, clean : BOOLEAN]

TypeOK ==
    /\ discussions \in Seq(DiscussionType) /\ notes \in Seq(SUBSET Findings)
    /\ run \in RunType /\ faults \in Nat

LEMMA IdleFits ==
    Idle \in RunType /\ Idle.pc = "idle" /\ Idle.claims = {} /\ Idle.kept = {}
BY DEF Idle, RunType

-----------------------------------------------------------------------------
(* Findings and the discussions that show them *)

Distinct(fs) == \A f, g \in fs : f.line = g.line => f = g

At(ds, i, f) == ds[i].mark = f.line /\ ds[i].rank = f.rank

\* The discussions at these places show these findings, one each.
ShownAt(ds, fs, places) ==
    /\ \A f \in fs : \E i \in places : At(ds, i, f)
    /\ \A i \in places : \E f \in fs : At(ds, i, f)
    /\ \A i, j \in places : ds[i].mark = ds[j].mark => i = j

\* One more discussion shows one more finding.
LEMMA OneMoreShown ==
    ASSUME NEW ds, NEW fs, NEW places, ShownAt(ds, fs, places), NEW f, f \notin fs,
           Distinct(fs \cup {f}), NEW i, NEW next, At(next, i, f),
           \A j \in places : j # i /\ next[j].mark = ds[j].mark /\ next[j].rank = ds[j].rank
    PROVE  ShownAt(next, fs \cup {f}, places \cup {i})
<1>1. \A j \in places : \A g : At(ds, j, g) => At(next, j, g)  BY DEF At
<1>2. \A j \in places : next[j].mark # next[i].mark
    <2>1. ASSUME NEW j \in places, next[j].mark = next[i].mark PROVE FALSE
        <3>1. PICK g \in fs : At(ds, j, g)  BY DEF ShownAt
        <3>2. g.line = f.line  BY <2>1, <3>1 DEF At
        <3>. QED  BY <3>2 DEF Distinct
    <2>. QED  BY <2>1
<1>3. \A g \in fs \cup {f} : \E j \in places \cup {i} : At(next, j, g)
    BY <1>1 DEF ShownAt
<1>4. \A j \in places \cup {i} : \E g \in fs \cup {f} : At(next, j, g)
    BY <1>1 DEF ShownAt
<1>5. \A j, k \in places \cup {i} : next[j].mark = next[k].mark => j = k
    BY <1>2 DEF ShownAt
<1>. QED  BY <1>3, <1>4, <1>5 DEF ShownAt

\* The discussions at some places, one by one, are those at other places.
Moved(ds, next, from, elsewhere, places) ==
    /\ from \in [elsewhere -> places] /\ \A n \in elsewhere : next[n] = ds[from[n]]
    /\ \A i, j \in elsewhere : from[i] = from[j] => i = j
    /\ \A i \in places : \E j \in elsewhere : from[j] = i

\* The same discussions at other places.
LEMMA ShownElsewhere ==
    ASSUME NEW ds, NEW fs, NEW places, ShownAt(ds, fs, places),
           NEW elsewhere, NEW from, NEW next, Moved(ds, next, from, elsewhere, places)
    PROVE  ShownAt(next, fs, elsewhere)
<1>1. \A n \in elsewhere : from[n] \in places /\ next[n] = ds[from[n]]  BY DEF Moved
<1>2. \A n \in elsewhere : \A f : At(next, n, f) <=> At(ds, from[n], f)  BY <1>1 DEF At
<1>3. ASSUME NEW f \in fs PROVE \E n \in elsewhere : At(next, n, f)
    <2>1. PICK i \in places : At(ds, i, f)  BY DEF ShownAt
    <2>2. PICK n \in elsewhere : from[n] = i  BY DEF Moved
    <2>3. At(next, n, f)  BY <1>2, <2>1, <2>2
    <2>. QED  BY <2>3
<1>4. \A n \in elsewhere : \E f \in fs : At(next, n, f)
    BY <1>1, <1>2, Zenon DEF ShownAt
<1>5. ASSUME NEW n \in elsewhere, NEW m \in elsewhere, next[n].mark = next[m].mark
      PROVE  n = m
    <2>1. ds[from[n]].mark = ds[from[m]].mark  BY <1>1, <1>5
    <2>2. from[n] \in places /\ from[m] \in places  BY <1>1
    <2>3. from[n] = from[m]  BY <2>1, <2>2 DEF ShownAt
    <2>. QED  BY <2>3 DEF Moved
<1>. QED  BY <1>3, <1>4, <1>5 DEF ShownAt

-----------------------------------------------------------------------------
(* What holds of a run *)

\* What the claims that are left are about.
ClaimFindings(claims) == {c[1] : c \in claims}
ClaimPlaces(claims) == {c[2] : c \in claims}

\* No finding has two claims and no discussion two claimants.
ClaimsFit(claims, found, kept) ==
    /\ ClaimFindings(claims) \subseteq found /\ ClaimPlaces(claims) \subseteq kept
    /\ \A c, d \in claims : c[1] = d[1] \/ c[2] = d[2] => c = d

\* What a run has still to show: a claim, a new discussion and the note do not share
\* a finding.
Waiting(r) == r.new \cup r.body \cup ClaimFindings(r.claims)

WaitingApart(r) ==
    /\ r.new \cap r.body = {} /\ r.new \subseteq r.found /\ r.body \subseteq r.found
    /\ ClaimFindings(r.claims) \cap (r.new \cup r.body) = {}

NotesFit == run.pc \in {"findings", "post", "tidy", "done"} => notes # <<>>

PlacesFit ==
    run.pc \in {"post", "tidy"} =>
        Distinct(run.found) /\ run.kept \subseteq DOMAIN discussions

PostFits ==
    run.pc = "post" =>
        /\ ClaimsFit(run.claims, run.found, run.kept)
        /\ WaitingApart(run)
        /\ run.clean => ShownAt(discussions, run.found \ Waiting(run),
                                run.kept \ ClaimPlaces(run.claims))

\* Where the findings of a run are once all the discussions are written.
Settled(places) ==
    /\ run.body \subseteq run.found /\ Head(notes) = run.body
    /\ ShownAt(discussions, run.found \ run.body, places)

TidyFits == run.pc = "tidy" /\ run.clean => Settled(run.kept)
DoneFits == run.pc = "done" /\ run.clean => Settled(DOMAIN discussions)

RunFits == NotesFit /\ PlacesFit /\ PostFits /\ TidyFits /\ DoneFits

Inv == TypeOK /\ RunFits

-----------------------------------------------------------------------------
(* The steps around the discussions *)

\* When no run is in progress, nothing is due.
LEMMA IdleRunFits ==
    ASSUME run.pc = "idle" PROVE RunFits
BY DEF RunFits, NotesFit, PlacesFit, PostFits, TidyFits, DoneFits

LEMMA InitFits == Init => Inv
<1>. SUFFICES ASSUME Init PROVE Inv  OBVIOUS
<1>1. TypeOK
    <2>1. run \in RunType  BY IdleFits DEF Init
    <2>. QED  BY <2>1 DEF Init, TypeOK
<1>2. RunFits  BY IdleFits, IdleRunFits DEF Init
<1>. QED  BY <1>1, <1>2 DEF Inv

LEMMA FaultFits ==
    ASSUME faults \in Nat, NEW failed \in BOOLEAN, Fault(failed) PROVE faults' \in Nat
BY DEF Fault

\* A run that is left behind: by an error, when it is killed, or at its end.
LEMMA StopFits ==
    ASSUME Inv, Raise \/ Kill \/ Done PROVE Inv'
<1>1. faults' \in Nat  BY FaultFits DEF Raise, Kill, Done, Inv, TypeOK
<1>2. run' = Idle /\ discussions' = discussions /\ notes' = notes  BY DEF Raise, Kill, Done
<1>3. TypeOK'  BY <1>1, <1>2, IdleFits DEF Inv, TypeOK
<1>4. RunFits'
    <2>1. run'.pc = "idle"  BY <1>2, IdleFits
    <2>. QED  BY <2>1 DEF RunFits, NotesFit, PlacesFit, PostFits, TidyFits, DoneFits
<1>. QED  BY <1>3, <1>4 DEF Inv

LEMMA ResolveFits ==
    ASSUME Inv, Resolve PROVE Inv'
<1>1. PICK i \in DOMAIN discussions : discussions' = RemoveAt(discussions, i)  BY DEF Resolve
<1>2. notes' = notes /\ run' = run /\ faults' = faults /\ run.pc = "idle"  BY DEF Resolve
<1>3. discussions \in Seq(DiscussionType)  BY DEF Inv, TypeOK
<1>. HIDE DEF DiscussionType
<1>4. discussions' \in Seq(DiscussionType)  BY <1>1, <1>3 DEF RemoveAt
<1>5. TypeOK'  BY <1>2, <1>4 DEF Inv, TypeOK
<1>6. RunFits'  BY <1>2 DEF RunFits, NotesFit, PlacesFit, PostFits, TidyFits, DoneFits
<1>. QED  BY <1>5, <1>6 DEF Inv

LEMMA StartFits ==
    ASSUME Inv, Start PROVE Inv'
<1>1. PICK known, pushed \in BOOLEAN, pc \in {"summary", "findings"}, added \in AddedLines :
           /\ Fault(~known)
           /\ pc = "findings" => pushed /\ Own(known) # <<>>
           /\ discussions' = IF ~pushed THEN discussions
                             ELSE [i \in DOMAIN discussions |->
                                       [discussions[i] EXCEPT !.fresh = FALSE]]
           /\ run' = [Idle EXCEPT !.pc = pc, !.known = known, !.added = added,
                                  !.clean = known]
    BY Zenon DEF Start
<1>2. faults' \in Nat  BY <1>1, FaultFits DEF Inv, TypeOK
<1>3. run' \in RunType /\ run'.pc = pc
    <2>1. added \in SUBSET Nat  BY LinesAssumption
    <2>. QED  BY <1>1, <2>1 DEF Idle, RunType
<1>4. discussions' \in Seq(DiscussionType)
    <2>1. discussions \in Seq(DiscussionType)  BY DEF Inv, TypeOK
    <2>2. \A i \in DOMAIN discussions :
              [discussions[i] EXCEPT !.fresh = FALSE] \in DiscussionType
        <3>1. \A d \in DiscussionType : [d EXCEPT !.fresh = FALSE] \in DiscussionType
            BY DEF DiscussionType
        <3>. QED  BY <2>1, <3>1
    <2>3. Len(discussions) \in Nat /\ DOMAIN discussions = 1..Len(discussions)  BY <2>1
    <2>. HIDE DEF DiscussionType
    <2>4. [i \in DOMAIN discussions |-> [discussions[i] EXCEPT !.fresh = FALSE]]
              \in Seq(DiscussionType)
        BY <2>2, <2>3, IsASeq
    <2>. QED  BY <1>1, <2>1, <2>4, Zenon
<1>5. notes' = notes  BY DEF Start
<1>6. TypeOK'  BY <1>2, <1>3, <1>4, <1>5 DEF Inv, TypeOK
<1>7. RunFits'
    <2>1. run'.pc = "findings" => notes' # <<>>  BY <1>1, <1>3, <1>5 DEF Own
    <2>. QED
        BY <1>3, <2>1 DEF RunFits, NotesFit, PlacesFit, PostFits, TidyFits, DoneFits
<1>. QED  BY <1>6, <1>7 DEF Inv

LEMMA PostSummaryFits ==
    ASSUME Inv, PostSummary PROVE Inv'
<1>1. PICK listed \in BOOLEAN :
           LET own == IF listed THEN Own(run.known) ELSE <<>>
           IN /\ Fault(~listed)
              /\ notes' = IF own = <<>> THEN <<{}>> \o notes ELSE <<{}>>
              /\ run' = [run EXCEPT !.pc = "findings", !.clean = run.clean /\ listed]
    BY Zenon DEF PostSummary
<1>2. faults' \in Nat  BY <1>1, FaultFits DEF Inv, TypeOK
<1>3. run' \in RunType /\ run'.pc = "findings"
    <2>1. run \in RunType  BY DEF Inv, TypeOK
    <2>. QED  BY <1>1, <2>1 DEF RunType
<1>4. notes' \in Seq(SUBSET Findings) /\ notes' # <<>>
    <2>1. notes \in Seq(SUBSET Findings)  BY DEF Inv, TypeOK
    <2>2. <<{}>> \in Seq(SUBSET Findings) /\ <<{}>> # <<>>  OBVIOUS
    <2>3. <<{}>> \o notes \in Seq(SUBSET Findings) /\ <<{}>> \o notes # <<>>
        BY <2>1, <2>2, ConcatProperties
    <2>. QED  BY <1>1, <2>2, <2>3, Zenon
<1>5. discussions' = discussions  BY DEF PostSummary
<1>6. TypeOK'  BY <1>2, <1>3, <1>4, <1>5 DEF Inv, TypeOK
<1>7. RunFits'
    BY <1>3, <1>4 DEF RunFits, NotesFit, PlacesFit, PostFits, TidyFits, DoneFits
<1>. QED  BY <1>6, <1>7 DEF Inv

-----------------------------------------------------------------------------
(* The last steps of a run *)

\* Only the run's stage and whether it is clean change.
Advances(pc) ==
    /\ run' \in RunType /\ run'.pc = pc /\ (run'.clean => run.clean)
    /\ run'.known = run.known /\ run'.added = run.added /\ run'.found = run.found
    /\ run'.claims = run.claims /\ run'.new = run.new /\ run'.body = run.body
    /\ run'.kept = run.kept

LEMMA WriteNoteFits ==
    ASSUME Inv, WriteNote PROVE Inv'
<1>1. PICK done \in BOOLEAN :
           /\ Fault(~done)
           /\ notes' = IF done THEN <<Section(Head(notes), run.body)>> \o Tail(notes)
                       ELSE notes
           /\ run' = IF run.tried > 0 /\ run.posted = 0 THEN Idle
                     ELSE [run EXCEPT !.pc = "tidy", !.clean = run.clean /\ done]
    BY Zenon DEF WriteNote
<1>2. /\ run.pc = "post" /\ run.claims = {} /\ run.new = {}
      /\ discussions' = discussions
    BY DEF WriteNote
<1>3. faults' \in Nat  BY <1>1, FaultFits DEF Inv, TypeOK
<1>4. run \in RunType /\ notes \in Seq(SUBSET Findings) /\ notes # <<>>
    BY <1>2 DEF Inv, TypeOK, RunFits, NotesFit
<1>5. /\ notes' \in Seq(SUBSET Findings)
      /\ done => Head(notes') = run.body /\ notes' # <<>>
    <2>1. run.body \in SUBSET Findings  BY <1>4 DEF RunType
    <2>2. Tail(notes) \in Seq(SUBSET Findings)  BY <1>4
    <2>. DEFINE first == <<run.body>>
    <2>3. first \in Seq(SUBSET Findings) /\ first # <<>> /\ Len(first) = 1
          /\ first[1] = run.body
        BY <2>1
    <2>. HIDE DEF first
    <2>4. /\ first \o Tail(notes) \in Seq(SUBSET Findings)
          /\ (first \o Tail(notes))[1] = run.body
          /\ first \o Tail(notes) # <<>>
        BY <2>2, <2>3, ConcatProperties
    <2>5. Head(first \o Tail(notes)) = run.body  BY <2>4
    <2>6. CASE ~done  BY <1>1, <1>4, <2>6
    <2>7. CASE done
        <3>1. notes' = first \o Tail(notes)  BY <1>1, <2>7 DEF Section, first
        <3>. QED  BY <2>4, <2>5, <3>1
    <2>. QED  BY <2>6, <2>7
<1>6. CASE run.tried > 0 /\ run.posted = 0
    <2>1. run' = Idle  BY <1>1, <1>6
    <2>2. TypeOK'  BY <1>2, <1>3, <1>5, <2>1, IdleFits DEF Inv, TypeOK
    <2>3. run'.pc = "idle"  BY <2>1, IdleFits
    <2>4. RunFits'  BY <2>3 DEF RunFits, NotesFit, PlacesFit, PostFits, TidyFits, DoneFits
    <2>. QED  BY <2>2, <2>4 DEF Inv
<1>7. CASE ~(run.tried > 0 /\ run.posted = 0)
    <2>1. Advances("tidy") /\ (run'.clean => done)
        <3>1. run' = [run EXCEPT !.pc = "tidy", !.clean = run.clean /\ done]
            BY <1>1, <1>7, Zenon
        <3>. QED  BY <1>4, <3>1 DEF RunType, Advances
    <2>2. TypeOK'  BY <1>2, <1>3, <1>5, <2>1 DEF Inv, TypeOK, Advances
    <2>3. notes' # <<>>  BY <1>1, <1>4, <1>5
    <2>4. NotesFit' /\ PlacesFit'
        BY <1>2, <2>1, <2>3 DEF Inv, RunFits, NotesFit, PlacesFit, Advances
    <2>5. ASSUME run'.clean PROVE Settled(run.kept)'
        <3>1. run.clean /\ Head(notes') = run.body  BY <1>5, <2>1, <2>5 DEF Advances
        <3>2. WaitingApart(run)  BY <1>2 DEF Inv, RunFits, PostFits
        <3>3. /\ Waiting(run) = run.body
              /\ ClaimPlaces(run.claims) = {}
            BY <1>2 DEF Waiting, ClaimFindings, ClaimPlaces
        <3>4. ShownAt(discussions, run.found \ Waiting(run),
                      run.kept \ ClaimPlaces(run.claims))
            BY <1>2, <3>1, Zenon DEF Inv, RunFits, PostFits
        <3>5. run.kept \ ClaimPlaces(run.claims) = run.kept  BY <3>3
        <3>6. ShownAt(discussions, run.found \ run.body, run.kept)
            BY <3>3, <3>4, <3>5, Zenon
        <3>7. run.body \subseteq run.found  BY <3>2, Zenon DEF WaitingApart
        <3>8. run'.body = run.body /\ run'.found = run.found /\ run'.kept = run.kept
            BY <2>1 DEF Advances
        <3>. QED  BY <1>2, <3>1, <3>6, <3>7, <3>8 DEF Settled
    <2>6. RunFits'
        BY <2>1, <2>4, <2>5 DEF RunFits, PostFits, TidyFits, DoneFits, Advances
    <2>. QED  BY <2>2, <2>6 DEF Inv
<1>. QED  BY <1>6, <1>7

\* The discussions that are left open, numbered anew.
LEMMA Renumbered ==
    ASSUME NEW T, NEW ds \in Seq(T), NEW open \in SUBSET (DOMAIN ds)
    PROVE  LET left == [n \in 1..Cardinality(open) |-> ds[Nth(open, n)]]
           IN /\ left \in Seq(T) /\ DOMAIN left = 1..Cardinality(open)
              /\ \A fs : ShownAt(ds, fs, open) => ShownAt(left, fs, DOMAIN left)
<1>. DEFINE from == [n \in 1..Cardinality(open) |-> Nth(open, n)]
            left == [n \in 1..Cardinality(open) |-> ds[Nth(open, n)]]
<1>1. Len(ds) \in Nat /\ DOMAIN ds = 1..Len(ds)  OBVIOUS
<1>2. IsFiniteSet(open) /\ open \in SUBSET Nat
    <2>1. IsFiniteSet(1..Len(ds))  BY <1>1, FS_Interval
    <2>2. open \in SUBSET (1..Len(ds))  BY <1>1
    <2>. QED  BY <2>1, <2>2, FS_Subset
<1>3. /\ Cardinality(open) \in Nat
      /\ \A n \in 1..Cardinality(open) : Nth(open, n) \in open
      /\ \A n, m \in 1..Cardinality(open) : Nth(open, n) = Nth(open, m) => n = m
      /\ \A i \in open : \E n \in 1..Cardinality(open) : Nth(open, n) = i
    BY <1>2, NthFits
<1>4. from \in [1..Cardinality(open) -> open]  BY <1>3
<1>5. \A n \in 1..Cardinality(open) : ds[Nth(open, n)] \in T  BY <1>1, <1>3
<1>6. left \in Seq(T)  BY <1>3, <1>5, IsASeq
<1>7. DOMAIN left = 1..Cardinality(open)  OBVIOUS
<1>8. ASSUME NEW fs, ShownAt(ds, fs, open) PROVE ShownAt(left, fs, DOMAIN left)
    <2>1. \A n \in 1..Cardinality(open) : left[n] = ds[from[n]]  OBVIOUS
    <2>. HIDE DEF left
    <2>2. Moved(ds, left, from, 1..Cardinality(open), open)
        BY <1>3, <1>4, <2>1 DEF Moved
    <2>. HIDE DEF from
    <2>. QED  BY <1>7, <1>8, <2>2, ShownElsewhere
<1>. QED  BY <1>6, <1>7, <1>8

LEMMA ResolveStaleFits ==
    ASSUME Inv, ResolveStale PROVE Inv'
<1>1. PICK left \in SUBSET (DOMAIN discussions \ run.kept) :
           LET open == run.kept \cup left
           IN /\ IF run.known THEN Fault(left # {})
                 ELSE left = DOMAIN discussions \ run.kept /\ Fault(FALSE)
              /\ discussions' = [n \in 1..Cardinality(open) |-> discussions[Nth(open, n)]]
              /\ run' = [run EXCEPT !.pc = "done", !.clean = run.clean /\ left = {}]
    BY Zenon DEF ResolveStale
<1>. DEFINE open == run.kept \cup left
<1>2. run.pc = "tidy" /\ notes' = notes  BY DEF ResolveStale
<1>3. faults' \in Nat
    <2>1. \E failed \in BOOLEAN : Fault(failed)
        <3>1. CASE run.known  BY <1>1, <3>1
        <3>2. CASE ~run.known  BY <1>1, <3>2
        <3>. QED  BY <3>1, <3>2
    <2>. QED  BY <2>1, FaultFits DEF Inv, TypeOK
<1>4. Advances("done") /\ (run'.clean => left = {})
    <2>1. run \in RunType  BY DEF Inv, TypeOK
    <2>2. run' = [run EXCEPT !.pc = "done", !.clean = run.clean /\ left = {}]
        BY <1>1, Zenon
    <2>. QED  BY <2>1, <2>2 DEF RunType, Advances
<1>5. discussions \in Seq(DiscussionType)  BY DEF Inv, TypeOK
<1>6. open \in SUBSET (DOMAIN discussions)  BY <1>2 DEF Inv, RunFits, PlacesFit
<1>7. discussions' = [n \in 1..Cardinality(open) |-> discussions[Nth(open, n)]]
    BY <1>1, Zenon
<1>. HIDE DEF open, DiscussionType
<1>8. /\ discussions' \in Seq(DiscussionType)
      /\ \A fs : ShownAt(discussions, fs, open) =>
                     ShownAt(discussions', fs, DOMAIN discussions')
    BY <1>5, <1>6, <1>7, Renumbered
<1>9. TypeOK'  BY <1>2, <1>3, <1>4, <1>8 DEF Inv, TypeOK, Advances
<1>10. NotesFit' /\ PlacesFit'
    BY <1>2, <1>4 DEF Inv, RunFits, NotesFit, PlacesFit, Advances
<1>11. ASSUME run'.clean PROVE Settled(DOMAIN discussions)'
    <2>1. run.clean /\ open = run.kept  BY <1>4, <1>11 DEF Advances, open
    <2>2. Settled(run.kept)  BY <1>2, <2>1 DEF Inv, RunFits, TidyFits
    <2>3. ShownAt(discussions', run.found \ run.body, DOMAIN discussions')
        BY <1>8, <2>1, <2>2, Zenon DEF Settled
    <2>4. run'.body = run.body /\ run'.found = run.found  BY <1>4 DEF Advances
    <2>. QED  BY <1>2, <2>2, <2>3, <2>4 DEF Settled
<1>12. RunFits'
    BY <1>4, <1>10, <1>11 DEF RunFits, PostFits, TidyFits, DoneFits, Advances
<1>. QED  BY <1>9, <1>12 DEF Inv

-----------------------------------------------------------------------------
(* The steps that write the discussions *)

LEMMA FindingsFit ==
    ASSUME NEW f \in Findings PROVE f.line \in Nat /\ f.rank \in Nat
BY LinesAssumption

LEMMA Next1Fits ==
    ASSUME NEW claims \in SUBSET (Findings \X Nat), claims # {}
    PROVE  Next1(claims) \in claims
<1>1. ClaimPlaces(claims) \in SUBSET Nat /\ ClaimPlaces(claims) # {}
    BY DEF ClaimPlaces
<1>2. \E m \in ClaimPlaces(claims) : \A x \in ClaimPlaces(claims) : m <= x
    BY <1>1, LeastExists
<1>3. \E c \in claims : \A d \in claims : c[2] <= d[2]  BY <1>2 DEF ClaimPlaces
<1>. QED  BY <1>3, Zenon DEF Next1

LEMMA NextNewFits ==
    ASSUME run \in RunType, run.new # {} PROVE NextNew \in run.new
<1>. DEFINE lines == {f.line : f \in run.new}
<1>1. run.new \in SUBSET Findings  BY DEF RunType
<1>2. lines \in SUBSET Nat /\ lines # {}  BY <1>1, FindingsFit
<1>. HIDE DEF lines
<1>3. \E m \in lines : \A x \in lines : m <= x  BY <1>2, LeastExists
<1>. USE DEF lines
<1>4. \E f \in run.new : \A g \in run.new : f.line <= g.line  BY <1>3
<1>. QED  BY <1>4, Zenon DEF NextNew

Rewrite(ds, k, f) == [ds EXCEPT ![k].mark = f.line, ![k].rank = f.rank]

\* The discussion shows the finding, and the others are as they were.
Rewritten(ds, next, k, f) ==
    /\ next \in Seq(DiscussionType) /\ DOMAIN next = DOMAIN ds
    /\ At(next, k, f)
    /\ \A j \in DOMAIN ds : j # k =>
           next[j].mark = ds[j].mark /\ next[j].rank = ds[j].rank

LEMMA RewriteFits ==
    ASSUME NEW ds \in Seq(DiscussionType), NEW k \in DOMAIN ds, NEW f \in Findings
    PROVE  Rewritten(ds, Rewrite(ds, k, f), k, f)
<1>. DEFINE e == [ds[k] EXCEPT !.mark = f.line, !.rank = f.rank]
<1>1. ds[k] \in DiscussionType /\ k \in 1..Len(ds) /\ DOMAIN ds = 1..Len(ds)  OBVIOUS
<1>2. f.line \in Nat /\ f.rank \in Nat  BY FindingsFit
<1>3. e \in DiscussionType /\ e.mark = f.line /\ e.rank = f.rank
    BY <1>1, <1>2 DEF DiscussionType
<1>. DEFINE next == [ds EXCEPT ![k] = e]
<1>4. Rewrite(ds, k, f) = next  BY <1>1 DEF Rewrite
<1>. HIDE DEF e, DiscussionType
<1>5. /\ next \in Seq(DiscussionType) /\ Len(next) = Len(ds)
      /\ \A j \in 1..Len(ds) : next[j] = IF j = k THEN e ELSE ds[j]
    BY <1>1, <1>3
<1>. HIDE DEF next
<1>6. DOMAIN next = DOMAIN ds  BY <1>1, <1>5
<1>. QED  BY <1>1, <1>3, <1>4, <1>5, <1>6 DEF At, Rewritten

\* A claim is taken out, and its finding and its discussion with it.
ClaimTaken(claims, c, left, found, kept) ==
    /\ ClaimsFit(left, found, kept)
    /\ ClaimFindings(left) = ClaimFindings(claims) \ {c[1]}
    /\ ClaimPlaces(left) = ClaimPlaces(claims) \ {c[2]}
    /\ c[1] \in ClaimFindings(claims) /\ c[2] \in ClaimPlaces(claims)
    /\ c[1] \in found /\ c[2] \in kept

LEMMA ClaimTakenFits ==
    ASSUME NEW claims, NEW found, NEW kept, ClaimsFit(claims, found, kept), NEW c \in claims
    PROVE  ClaimTaken(claims, c, claims \ {c}, found, kept)
BY DEF ClaimTaken, ClaimsFit, ClaimFindings, ClaimPlaces

LEMMA UpdateFits ==
    ASSUME Inv, Update PROVE Inv'
<1>. DEFINE c == Next1(run.claims)
<1>1. PICK done \in BOOLEAN :
              /\ Fault(~done)
              /\ discussions' = IF ~done THEN discussions
                                ELSE [discussions EXCEPT ![c[2]].mark = c[1].line,
                                                         ![c[2]].rank = c[1].rank]
              /\ run' = [run EXCEPT !.claims = run.claims \ {c}, !.clean = run.clean /\ done]
    BY Zenon DEF Update
<1>2. run.pc = "post" /\ run.claims # {} /\ notes' = notes  BY DEF Update
<1>3. faults' \in Nat  BY <1>1, FaultFits DEF Inv, TypeOK
<1>4. run \in RunType /\ discussions \in Seq(DiscussionType)  BY DEF Inv, TypeOK
<1>5. c \in run.claims /\ run.claims \in SUBSET (Findings \X Nat)
    BY <1>2, <1>4, Next1Fits DEF RunType
<1>. HIDE DEF c, DiscussionType
<1>6. /\ run' \in RunType /\ run'.pc = "post" /\ (run'.clean => run.clean /\ done)
      /\ run'.found = run.found /\ run'.claims = run.claims \ {c} /\ run'.new = run.new
      /\ run'.body = run.body /\ run'.kept = run.kept
    BY <1>1, <1>2, <1>4, <1>5 DEF RunType
<1>7. /\ ClaimsFit(run.claims, run.found, run.kept) /\ WaitingApart(run)
      /\ run.clean => ShownAt(discussions, run.found \ Waiting(run),
                              run.kept \ ClaimPlaces(run.claims))
      /\ Distinct(run.found) /\ run.kept \subseteq DOMAIN discussions /\ notes # <<>>
    BY <1>2 DEF Inv, RunFits, PostFits, PlacesFit, NotesFit
<1>8. /\ ClaimsFit(run'.claims, run.found, run.kept)
      /\ ClaimFindings(run'.claims) = ClaimFindings(run.claims) \ {c[1]}
      /\ ClaimPlaces(run'.claims) = ClaimPlaces(run.claims) \ {c[2]}
      /\ c[1] \in ClaimFindings(run.claims) /\ c[2] \in ClaimPlaces(run.claims)
      /\ c[1] \in run.found /\ c[2] \in run.kept
    <2>1. ClaimTaken(run.claims, c, run.claims \ {c}, run.found, run.kept)
        BY <1>5, <1>7, ClaimTakenFits
    <2>. QED  BY <1>6, <2>1 DEF ClaimTaken
<1>9. c[1] \in Findings /\ c[2] \in DOMAIN discussions  BY <1>4, <1>5, <1>7, <1>8
<1>10. /\ discussions' \in Seq(DiscussionType)
       /\ DOMAIN discussions' = DOMAIN discussions
       /\ done => /\ At(discussions', c[2], c[1])
                  /\ \A j \in DOMAIN discussions : j # c[2] =>
                         /\ discussions'[j].mark = discussions[j].mark
                         /\ discussions'[j].rank = discussions[j].rank
    <2>1. CASE ~done  BY <1>1, <1>4, <2>1
    <2>2. CASE done
        <3>1. discussions' = Rewrite(discussions, c[2], c[1])  BY <1>1, <2>2 DEF Rewrite
        <3>2. Rewritten(discussions, discussions', c[2], c[1])
            BY <1>4, <1>9, <3>1, RewriteFits
        <3>. QED  BY <2>2, <3>2 DEF Rewritten
    <2>. QED  BY <2>1, <2>2
<1>11. TypeOK'  BY <1>2, <1>3, <1>6, <1>10 DEF Inv, TypeOK
<1>12. WaitingApart(run')  BY <1>6, <1>7, <1>8 DEF WaitingApart
<1>13. ASSUME run'.clean
       PROVE  ShownAt(discussions', run'.found \ Waiting(run'),
                      run'.kept \ ClaimPlaces(run'.claims))
    <2>. DEFINE fs == run.found \ Waiting(run)
                places == run.kept \ ClaimPlaces(run.claims)
    <2>1. ShownAt(discussions, fs, places) /\ done  BY <1>6, <1>7, <1>13
    <2>2. c[1] \notin fs  BY <1>8 DEF Waiting
    <2>3. Distinct(fs \cup {c[1]})
        <3>1. fs \cup {c[1]} \subseteq run.found  BY <1>8
        <3>. QED  BY <1>7, <3>1, Zenon DEF Distinct
    <2>4. \A j \in places : j # c[2] /\ discussions'[j].mark = discussions[j].mark
                                     /\ discussions'[j].rank = discussions[j].rank
        BY <1>7, <1>8, <1>10, <2>1
    <2>5. run'.found \ Waiting(run') = fs \cup {c[1]}
        <3>1. c[1] \notin run.new \cup run.body  BY <1>7, <1>8 DEF WaitingApart
        <3>. QED  BY <1>6, <1>8, <3>1 DEF Waiting
    <2>6. run'.kept \ ClaimPlaces(run'.claims) = places \cup {c[2]}  BY <1>6, <1>8
    <2>. HIDE DEF fs, places
    <2>7. ShownAt(discussions', fs \cup {c[1]}, places \cup {c[2]})
        BY <1>10, <2>1, <2>2, <2>3, <2>4, OneMoreShown
    <2>. QED  BY <2>5, <2>6, <2>7
<1>14. RunFits'
    <2>1. NotesFit' /\ PlacesFit'  BY <1>2, <1>6, <1>7, <1>10 DEF NotesFit, PlacesFit
    <2>2. PostFits'  BY <1>6, <1>8, <1>12, <1>13 DEF PostFits
    <2>. QED  BY <1>6, <2>1, <2>2 DEF RunFits, TidyFits, DoneFits
<1>. QED  BY <1>11, <1>14 DEF Inv

\* A new discussion comes last and shows its finding; the others are as they were.
LEMMA PostedFits ==
    ASSUME NEW ds \in Seq(DiscussionType), NEW f \in Findings, NEW next,
           next = Append(ds, [line |-> f.line, mark |-> f.line,
                              rank |-> f.rank, fresh |-> TRUE])
    PROVE  /\ next \in Seq(DiscussionType) /\ Len(ds) \in Nat
           /\ DOMAIN ds = 1..Len(ds) /\ DOMAIN next = DOMAIN ds \cup {Len(ds) + 1}
           /\ At(next, Len(ds) + 1, f)
           /\ \A j \in DOMAIN ds : j # Len(ds) + 1 /\ next[j] = ds[j]
<1>. DEFINE d == [line |-> f.line, mark |-> f.line, rank |-> f.rank, fresh |-> TRUE]
<1>1. d \in DiscussionType /\ d.mark = f.line /\ d.rank = f.rank
    BY FindingsFit DEF DiscussionType
<1>2. next = Append(ds, d)  OBVIOUS
<1>. HIDE DEF d, DiscussionType
<1>3. Len(ds) \in Nat /\ DOMAIN ds = 1..Len(ds)  OBVIOUS
<1>4. next \in Seq(DiscussionType) /\ Len(next) = Len(ds) + 1  BY <1>1, <1>2
<1>5. next[Len(ds) + 1] = d /\ \A j \in 1..Len(ds) : next[j] = ds[j]
    BY <1>1, <1>2, AppendProperties
<1>6. DOMAIN next = 1..(Len(ds) + 1)  BY <1>3, <1>4
<1>7. DOMAIN next = DOMAIN ds \cup {Len(ds) + 1}  BY <1>3, <1>6
<1>. QED  BY <1>1, <1>3, <1>4, <1>5, <1>7 DEF At

LEMMA PostStepFits ==
    ASSUME Inv, Post PROVE Inv'
<1>. DEFINE f == NextNew
            last == Len(discussions) + 1
<1>1. PICK done \in BOOLEAN :
              /\ Fault(~done)
              /\ discussions' = IF ~done THEN discussions
                                ELSE Append(discussions, [line |-> f.line, mark |-> f.line,
                                                          rank |-> f.rank, fresh |-> TRUE])
              /\ run' = [run EXCEPT
                     !.new = run.new \ {f}, !.tried = run.tried + 1,
                     !.posted = IF done THEN run.posted + 1 ELSE run.posted,
                     !.kept = IF done THEN run.kept \cup {Len(discussions) + 1} ELSE run.kept,
                     !.body = IF done THEN run.body ELSE run.body \cup {f},
                     !.clean = run.clean /\ done]
    BY Zenon DEF Post
<1>2. run.pc = "post" /\ run.claims = {} /\ run.new # {} /\ notes' = notes  BY DEF Post
<1>3. faults' \in Nat  BY <1>1, FaultFits DEF Inv, TypeOK
<1>4. run \in RunType /\ discussions \in Seq(DiscussionType)  BY DEF Inv, TypeOK
<1>5. f \in run.new /\ f \in Findings
    <2>1. f \in run.new  BY <1>2, <1>4, NextNewFits
    <2>. QED  BY <1>4, <2>1 DEF RunType
<1>. HIDE DEF f, DiscussionType
<1>6. Len(discussions) \in Nat /\ DOMAIN discussions = 1..Len(discussions)  BY <1>4
<1>7. /\ run' \in RunType /\ run'.pc = "post" /\ (run'.clean => run.clean /\ done)
      /\ run'.found = run.found /\ run'.claims = {} /\ run'.new = run.new \ {f}
      /\ run'.body = (IF done THEN run.body ELSE run.body \cup {f})
      /\ run'.kept = (IF done THEN run.kept \cup {last} ELSE run.kept)
    <2>. DEFINE new    == run.new \ {f}
                tried  == run.tried + 1
                posted == IF done THEN run.posted + 1 ELSE run.posted
                kept   == IF done THEN run.kept \cup {last} ELSE run.kept
                body   == IF done THEN run.body ELSE run.body \cup {f}
                clean  == run.clean /\ done
    <2>1. run' = [run EXCEPT !.new = new, !.tried = tried, !.posted = posted,
                             !.kept = kept, !.body = body, !.clean = clean]
        BY <1>1
    <2>2. /\ new \in SUBSET Findings /\ body \in SUBSET Findings
          /\ tried \in Nat /\ posted \in Nat
        BY <1>4, <1>5 DEF RunType
    <2>3. kept \in SUBSET Nat
        <3>1. last \in Nat /\ run.kept \in SUBSET Nat  BY <1>4, <1>6 DEF RunType
        <3>. HIDE DEF last
        <3>. QED  BY <3>1
    <2>4. clean \in BOOLEAN  OBVIOUS
    <2>. HIDE DEF last, new, tried, posted, kept, body, clean
    <2>5. /\ run' \in RunType /\ run'.pc = "post" /\ run'.clean = clean
          /\ run'.found = run.found /\ run'.claims = {} /\ run'.new = new
          /\ run'.body = body /\ run'.kept = kept
        BY <1>2, <1>4, <2>1, <2>2, <2>3, <2>4 DEF RunType
    <2>. QED  BY <2>5 DEF new, body, kept, clean
<1>8. /\ WaitingApart(run)
      /\ run.clean => ShownAt(discussions, run.found \ Waiting(run),
                              run.kept \ ClaimPlaces(run.claims))
      /\ Distinct(run.found) /\ run.kept \subseteq DOMAIN discussions /\ notes # <<>>
    BY <1>2 DEF Inv, RunFits, PostFits, PlacesFit, NotesFit
<1>9. /\ discussions' \in Seq(DiscussionType)
      /\ DOMAIN discussions \subseteq DOMAIN discussions'
      /\ done => /\ last \in DOMAIN discussions' /\ At(discussions', last, f)
                 /\ \A j \in DOMAIN discussions :
                        j # last /\ discussions'[j] = discussions[j]
    <2>1. CASE ~done
        <3>1. discussions' = discussions  BY <1>1, <2>1
        <3>. QED  BY <1>4, <2>1, <3>1
    <2>2. CASE done
        <3>1. discussions' = Append(discussions, [line |-> f.line, mark |-> f.line,
                                                  rank |-> f.rank, fresh |-> TRUE])
            BY <1>1, <2>2
        <3>2. /\ discussions' \in Seq(DiscussionType)
              /\ DOMAIN discussions' = DOMAIN discussions \cup {last}
              /\ At(discussions', last, f)
              /\ \A j \in DOMAIN discussions : j # last /\ discussions'[j] = discussions[j]
            BY <1>4, <1>5, <3>1, PostedFits
        <3>. QED  BY <3>2
    <2>. QED  BY <2>1, <2>2
<1>. HIDE DEF last
<1>10. TypeOK'  BY <1>2, <1>3, <1>7, <1>9 DEF Inv, TypeOK
<1>11. ClaimFindings({}) = {} /\ ClaimPlaces({}) = {}  BY DEF ClaimFindings, ClaimPlaces
<1>12. WaitingApart(run')
    <2>1. f \in run.found  BY <1>5, <1>8 DEF WaitingApart
    <2>. QED  BY <1>5, <1>7, <1>8, <1>11, <2>1 DEF WaitingApart
<1>13. ClaimsFit(run'.claims, run'.found, run'.kept)  BY <1>7, <1>11 DEF ClaimsFit
<1>14. ASSUME run'.clean
       PROVE  ShownAt(discussions', run'.found \ Waiting(run'),
                      run'.kept \ ClaimPlaces(run'.claims))
    <2>. DEFINE fs == run.found \ Waiting(run)
                places == run.kept
    <2>1. done /\ run.clean  BY <1>7, <1>14
    <2>2. places = run.kept \ ClaimPlaces(run.claims)  BY <1>2, <1>11
    <2>3. ShownAt(discussions, fs, places)  BY <1>8, <2>1, <2>2
    <2>4. f \notin fs  BY <1>5 DEF Waiting
    <2>5. Distinct(fs \cup {f})
        <3>1. fs \cup {f} \subseteq run.found  BY <1>5, <1>8 DEF WaitingApart
        <3>. QED  BY <1>8, <3>1, Zenon DEF Distinct
    <2>6. \A j \in places : j # last /\ discussions'[j].mark = discussions[j].mark
                                     /\ discussions'[j].rank = discussions[j].rank
        BY <1>8, <1>9, <2>1
    <2>7. run'.found \ Waiting(run') = fs \cup {f}
        <3>1. f \notin run.body /\ f \in run.found  BY <1>5, <1>8 DEF WaitingApart
        <3>. QED  BY <1>2, <1>5, <1>7, <1>11, <2>1, <3>1 DEF Waiting
    <2>8. run'.kept \ ClaimPlaces(run'.claims) = places \cup {last}  BY <1>7, <1>11, <2>1
    <2>. HIDE DEF fs, places
    <2>9. ShownAt(discussions', fs \cup {f}, places \cup {last})
        BY <1>9, <2>1, <2>3, <2>4, <2>5, <2>6, OneMoreShown
    <2>. QED  BY <2>7, <2>8, <2>9
<1>15. RunFits'
    <2>1. NotesFit' /\ PlacesFit'
        BY <1>2, <1>7, <1>8, <1>9 DEF NotesFit, PlacesFit
    <2>2. PostFits'  BY <1>7, <1>12, <1>13, <1>14 DEF PostFits
    <2>. QED  BY <1>7, <2>1, <2>2 DEF RunFits, TidyFits, DoneFits
<1>. QED  BY <1>10, <1>15 DEF Inv

-----------------------------------------------------------------------------
(* Classification *)

\* The first by a measure, then by another, then by number.
Precedes(own, off, i, j) ==
    \/ own[i] < own[j]
    \/ own[i] = own[j] /\ off[i] < off[j]
    \/ own[i] = own[j] /\ off[i] = off[j] /\ i <= j

LEMMA LeastByMeasure ==
    ASSUME NEW C \in SUBSET Nat, C # {}, NEW m \in [C -> Nat]
    PROVE  \E i \in C : \A j \in C : m[i] <= m[j]
<1>. DEFINE values == {m[i] : i \in C}
<1>1. values \in SUBSET Nat /\ values # {}  OBVIOUS
<1>. HIDE DEF values
<1>2. \E v \in values : \A x \in values : v <= x  BY <1>1, LeastExists
<1>. QED  BY <1>2 DEF values

LEMMA FirstExists ==
    ASSUME NEW C \in SUBSET Nat, C # {}, NEW own \in [C -> Nat], NEW off \in [C -> Nat]
    PROVE  \E i \in C : \A j \in C : Precedes(own, off, i, j)
<1>1. PICK a \in C : \A j \in C : own[a] <= own[j]  BY LeastByMeasure
<1>. DEFINE C1 == {i \in C : own[i] = own[a]}
            off1 == [i \in C1 |-> off[i]]
<1>2. C1 \in SUBSET Nat /\ C1 # {} /\ off1 \in [C1 -> Nat]  OBVIOUS
<1>. HIDE DEF off1
<1>3. PICK b \in C1 : \A j \in C1 : off1[b] <= off1[j]
    <2>. HIDE DEF C1
    <2>. QED  BY <1>2, LeastByMeasure
<1>4. \A j \in C1 : off[b] <= off[j]  BY <1>3 DEF off1
<1>. DEFINE C2 == {i \in C1 : off[i] = off[b]}
<1>5. C2 \in SUBSET Nat /\ C2 # {}  BY <1>2, <1>3
<1>6. PICK i \in C2 : \A j \in C2 : i <= j
    <2>. HIDE DEF C2
    <2>. QED  BY <1>5, LeastExists
<1>7. ASSUME NEW j \in C PROVE Precedes(own, off, i, j)
    <2>1. /\ own[i] = own[a] /\ off[i] = off[b] /\ i \in C
          /\ own[i] \in Nat /\ own[j] \in Nat /\ off[i] \in Nat /\ off[j] \in Nat
        OBVIOUS
    <2>2. own[a] <= own[j]  BY <1>1
    <2>3. CASE own[j] # own[a]  BY <2>1, <2>2, <2>3 DEF Precedes
    <2>4. CASE own[j] = own[a]
        <3>1. j \in C1 /\ off[b] <= off[j]  BY <1>4, <2>4
        <3>2. CASE off[j] # off[b]  BY <2>1, <2>4, <3>1, <3>2 DEF Precedes
        <3>3. CASE off[j] = off[b]
            <4>1. j \in C2  BY <3>1, <3>3
            <4>2. i <= j  BY <1>6, <4>1
            <4>. QED  BY <2>1, <2>4, <3>3, <4>2 DEF Precedes
        <3>. QED  BY <3>2, <3>3
    <2>. QED  BY <2>3, <2>4
<1>. QED  BY <1>7

\* A finding with candidates has a best one among them.
LEMMA BestFits ==
    ASSUME discussions \in Seq(DiscussionType), NEW f \in Findings,
           NEW listed \in SUBSET (DOMAIN discussions), Candidates(f, listed) # {}
    PROVE  Best(f, listed) \in listed
<1>. DEFINE C == Candidates(f, listed)
            own == [k \in C |-> IF discussions[k].mark = f.line THEN 0 ELSE 1]
            off == [k \in C |-> Distance(discussions[k].line, f.line)]
<1>1. Len(discussions) \in Nat /\ DOMAIN discussions = 1..Len(discussions)  OBVIOUS
<1>2. C \subseteq listed /\ C \in SUBSET Nat  BY <1>1 DEF Candidates
<1>3. own \in [C -> Nat]  OBVIOUS
<1>4. off \in [C -> Nat]
    <2>1. \A k \in C : discussions[k].line \in Nat
        <3>1. \A k \in DOMAIN discussions : discussions[k] \in DiscussionType  OBVIOUS
        <3>. QED  BY <1>2, <3>1 DEF DiscussionType
    <2>2. f.line \in Nat  BY FindingsFit
    <2>3. \A a, b \in Nat : Distance(a, b) \in Nat  BY DEF Distance
    <2>. HIDE DEF C
    <2>. QED  BY <2>1, <2>2, <2>3
<1>5. \A i, j \in C : Precedes(own, off, i, j) <=> Before(f, i, j)
    <2>. HIDE DEF C
    <2>. QED  BY DEF Precedes, Before
<1>. HIDE DEF own, off
<1>6. C # {}  OBVIOUS
<1>7. \E i \in C : \A j \in C : Precedes(own, off, i, j)
    <2>. HIDE DEF C
    <2>. QED  BY <1>2, <1>3, <1>4, <1>6, FirstExists
<1>8. \E i \in C : \A j \in C : Before(f, i, j)  BY <1>5, <1>7
<1>9. Best(f, listed) \in C  BY <1>8, Zenon DEF Best
<1>. QED  BY <1>2, <1>9

\* Of the findings that match a discussion one claims it.
LEMMA ClaimsFits ==
    ASSUME discussions \in Seq(DiscussionType), NEW found \in SUBSET Findings, Distinct(found),
           NEW listed \in SUBSET (DOMAIN discussions), NEW added
    PROVE  LET claims == Claims(Matches(found, listed, added))
           IN /\ ClaimsFit(claims, found, KeptAlive(claims, found, listed))
              /\ claims \in SUBSET (Findings \X Nat)
              /\ KeptAlive(claims, found, listed) = ClaimPlaces(claims)
              /\ KeptAlive(claims, found, listed) \in SUBSET (DOMAIN discussions)
              /\ KeptAlive(claims, found, listed) \in SUBSET Nat
<1>. DEFINE claims == Claims(Matches(found, listed, added))
<1>1. \A c \in claims : /\ c \in Matches(found, listed, added)
                        /\ \A d \in claims : d[2] = c[2] =>
                               \/ c[1].rank < d[1].rank
                               \/ c[1].rank = d[1].rank /\ c[1].line <= d[1].line
    BY DEF Claims
<1>. HIDE DEF claims
<1>2. ASSUME NEW c \in claims
      PROVE  /\ c = <<c[1], c[2]>> /\ c[1] \in found /\ c[2] = Best(c[1], listed)
             /\ c[1] \in Findings /\ c[2] \in DOMAIN discussions /\ c[2] \in Nat
    <2>1. PICK f \in found : c = <<f, Best(f, listed)>> /\ Candidates(f, listed) # {}
        BY <1>1 DEF Matches
    <2>2. Best(f, listed) \in listed  BY <2>1, BestFits
    <2>3. Len(discussions) \in Nat /\ DOMAIN discussions = 1..Len(discussions)  OBVIOUS
    <2>. QED  BY <2>1, <2>2, <2>3
<1>3. ASSUME NEW c \in claims, NEW d \in claims, c[1] = d[1] \/ c[2] = d[2] PROVE c = d
    <2>1. CASE c[1] = d[1]  BY <1>2, <2>1
    <2>2. CASE c[2] = d[2]
        <3>1. /\ \/ c[1].rank < d[1].rank
                 \/ c[1].rank = d[1].rank /\ c[1].line <= d[1].line
              /\ \/ d[1].rank < c[1].rank
                 \/ d[1].rank = c[1].rank /\ d[1].line <= c[1].line
            BY <1>1, <2>2
        <3>2. /\ c[1].rank \in Nat /\ d[1].rank \in Nat
              /\ c[1].line \in Nat /\ d[1].line \in Nat
            BY <1>2, FindingsFit
        <3>3. c[1].line = d[1].line  BY <3>1, <3>2
        <3>4. c[1] = d[1]  BY <1>2, <3>3 DEF Distinct
        <3>. QED  BY <1>2, <2>2, <3>4
    <2>. QED  BY <1>3, <2>1, <2>2
<1>4. KeptAlive(claims, found, listed) = ClaimPlaces(claims)  BY DEF KeptAlive, ClaimPlaces
<1>5. ClaimsFit(claims, found, KeptAlive(claims, found, listed))
    BY <1>2, <1>3, <1>4 DEF ClaimsFit, ClaimFindings, ClaimPlaces
<1>6. claims \in SUBSET (Findings \X Nat)  BY <1>2
<1>7. /\ KeptAlive(claims, found, listed) \in SUBSET (DOMAIN discussions)
      /\ KeptAlive(claims, found, listed) \in SUBSET Nat
    BY <1>2 DEF KeptAlive
<1>. QED  BY <1>4, <1>5, <1>6, <1>7 DEF claims

LEMMA ClassifyFits ==
    ASSUME Inv, Classify PROVE Inv'
<1>1. PICK found \in SUBSET Findings, pages \in 0..Len(discussions), order \in {"up", "down"} :
           LET listed  == Listed(run.known, pages)
               claims  == Claims(Matches(found, listed, run.added))
               new     == found \ {c[1] : c \in claims}
               onAdded == {f \in new : f.line \in run.added}
               first   == {f \in onAdded :
                              Cardinality({g \in onAdded :
                                  IF order = "up" THEN g.line < f.line ELSE g.line > f.line})
                                  < MAX_INLINE}
           IN /\ \A f, g \in found : f.line = g.line => f = g
              /\ Fault(pages # Len(discussions))
              /\ run' = [run EXCEPT
                     !.pc = "post", !.found = found, !.claims = claims, !.new = first,
                     !.body = new \ first, !.kept = KeptAlive(claims, found, listed),
                     !.clean = run.clean /\ pages = Len(discussions)]
    BY Zenon DEF Classify
<1>. DEFINE listed  == Listed(run.known, pages)
            claims  == Claims(Matches(found, listed, run.added))
            new     == found \ {c[1] : c \in claims}
            onAdded == {f \in new : f.line \in run.added}
            first   == {f \in onAdded :
                           Cardinality({g \in onAdded :
                               IF order = "up" THEN g.line < f.line ELSE g.line > f.line})
                               < MAX_INLINE}
            kept    == KeptAlive(claims, found, listed)
            body    == new \ first
            clean   == run.clean /\ pages = Len(discussions)
<1>2. /\ Fault(pages # Len(discussions)) /\ Distinct(found)
      /\ run' = [run EXCEPT !.pc = "post", !.found = found, !.claims = claims, !.new = first,
                            !.body = body, !.kept = kept, !.clean = clean]
    BY <1>1, Zenon DEF Distinct
<1>3. run.pc = "findings" /\ discussions' = discussions /\ notes' = notes  BY DEF Classify
<1>4. faults' \in Nat  BY <1>2, FaultFits DEF Inv, TypeOK
<1>5. run \in RunType /\ discussions \in Seq(DiscussionType) /\ notes # <<>>
    BY <1>3 DEF Inv, TypeOK, RunFits, NotesFit
<1>6. /\ first \subseteq new /\ new = found \ ClaimFindings(claims)
      /\ body = new \ first /\ clean \in BOOLEAN
    BY DEF ClaimFindings
<1>7. listed \in SUBSET (DOMAIN discussions)
    <2>1. Len(discussions) \in Nat /\ DOMAIN discussions = 1..Len(discussions)  BY <1>5
    <2>. QED  BY <2>1 DEF Listed
<1>. HIDE DEF listed
<1>8. /\ ClaimsFit(claims, found, kept) /\ claims \in SUBSET (Findings \X Nat)
      /\ kept = ClaimPlaces(claims)
      /\ kept \in SUBSET (DOMAIN discussions) /\ kept \in SUBSET Nat
    BY <1>2, <1>5, <1>7, ClaimsFits
<1>. HIDE DEF claims, new, onAdded, first, kept, body, clean
<1>9. /\ first \in SUBSET Findings /\ body \in SUBSET Findings  BY <1>6
<1>10. /\ run' \in RunType /\ run'.pc = "post" /\ run'.found = found
       /\ run'.claims = claims /\ run'.new = first /\ run'.body = body /\ run'.kept = kept
    BY <1>2, <1>5, <1>6, <1>8, <1>9 DEF RunType
<1>11. TypeOK'  BY <1>3, <1>4, <1>10 DEF Inv, TypeOK
<1>12. WaitingApart(run')
    <2>1. ClaimFindings(claims) \subseteq found  BY <1>8 DEF ClaimsFit
    <2>. QED  BY <1>6, <1>10, <2>1 DEF WaitingApart
<1>13. ShownAt(discussions', run'.found \ Waiting(run'),
               run'.kept \ ClaimPlaces(run'.claims))
    <2>1. run'.found \ Waiting(run') = {}  BY <1>6, <1>10 DEF Waiting
    <2>2. run'.kept \ ClaimPlaces(run'.claims) = {}  BY <1>8, <1>10
    <2>3. ShownAt(discussions', {}, {})  BY DEF ShownAt
    <2>. QED  BY <2>1, <2>2, <2>3
<1>14. ClaimsFit(run'.claims, run'.found, run'.kept)  BY <1>8, <1>10
<1>15. RunFits'
    <2>1. NotesFit' /\ PlacesFit'
        BY <1>2, <1>3, <1>5, <1>8, <1>10 DEF NotesFit, PlacesFit
    <2>2. PostFits'  BY <1>12, <1>13, <1>14 DEF PostFits
    <2>. QED  BY <1>10, <2>1, <2>2 DEF RunFits, TidyFits, DoneFits
<1>. QED  BY <1>11, <1>15 DEF Inv

-----------------------------------------------------------------------------
(* The theorems *)

LEMMA NextFits ==
    ASSUME Inv, [Next]_vars PROVE Inv'
<1>1. CASE UNCHANGED vars
    BY <1>1 DEF vars, Inv, TypeOK, RunFits, NotesFit, PlacesFit, PostFits, TidyFits,
                DoneFits, Settled
<1>2. CASE Resolve  BY <1>2, ResolveFits
<1>3. CASE Start  BY <1>3, StartFits
<1>4. CASE PostSummary  BY <1>4, PostSummaryFits
<1>5. CASE Classify  BY <1>5, ClassifyFits
<1>6. CASE Update  BY <1>6, UpdateFits
<1>7. CASE Post  BY <1>7, PostStepFits
<1>8. CASE Raise \/ Done \/ Kill  BY <1>8, StopFits
<1>9. CASE WriteNote  BY <1>9, WriteNoteFits
<1>10. CASE ResolveStale  BY <1>10, ResolveStaleFits
<1>. QED
    BY <1>1, <1>2, <1>3, <1>4, <1>5, <1>6, <1>7, <1>8, <1>9, <1>10 DEF Next

LEMMA RunsFit == Spec => []Inv
<1>1. Inv /\ [Next]_vars => Inv'  BY NextFits
<1>. QED  BY <1>1, InitFits, PTL DEF Spec

\* Whatever runs and faults there are, the discussions, the notes and the run keep their
\* types: what is rewritten, posted and left open is well formed (gitlab.py:1024).
THEOREM GitLabTypeCorrect == Spec => []TypeOK
<1>1. Inv => TypeOK  BY DEF Inv
<1>. QED  BY <1>1, RunsFit, PTL

\* After a run in which no call failed every finding is shown, whatever findings were
\* near one another and whatever earlier runs left (gitlab.py:621, _canonical.py:767).
THEOREM FindingsAreShown == Spec => []ReportedIsVisible
<1>1. Inv => ReportedIsVisible
    <2>. SUFFICES ASSUME Inv, run.pc = "done", run.clean, NEW f \in run.found
                  PROVE  ShownInline(f) \/ f \in Head(notes)
        BY DEF ReportedIsVisible
    <2>1. Settled(DOMAIN discussions)  BY DEF Inv, RunFits, DoneFits
    <2>2. CASE f \in run.body  BY <2>1, <2>2 DEF Settled
    <2>3. CASE f \notin run.body
        <3>1. \E i \in DOMAIN discussions : At(discussions, i, f)
            BY <2>1, <2>3 DEF Settled, ShownAt
        <3>. QED  BY <3>1 DEF ShownInline, At
    <2>. QED  BY <2>2, <2>3
<1>. QED  BY <1>1, RunsFit, PTL

\* After such a run nothing else is shown, and nothing twice: what earlier runs left is
\* rewritten, resolved or replaced (gitlab.py:784).
THEOREM NothingElseIsShown == Spec => []OnlyReportedIsVisible
<1>1. Inv => OnlyReportedIsVisible
    <2>. SUFFICES ASSUME Inv, run.pc = "done", run.clean
                  PROVE  /\ Head(notes) \subseteq run.found
                         /\ \A i, j \in DOMAIN discussions :
                                /\ \E f \in run.found \ Head(notes) :
                                       f.line = discussions[i].mark
                                /\ discussions[i].mark = discussions[j].mark => i = j
        BY DEF OnlyReportedIsVisible
    <2>1. /\ run.body \subseteq run.found /\ Head(notes) = run.body
          /\ ShownAt(discussions, run.found \ run.body, DOMAIN discussions)
        BY DEF Inv, RunFits, DoneFits, Settled
    <2>2. \A i \in DOMAIN discussions :
              \E f \in run.found \ run.body : f.line = discussions[i].mark
        BY <2>1 DEF ShownAt, At
    <2>3. \A i, j \in DOMAIN discussions :
              discussions[i].mark = discussions[j].mark => i = j
        BY <2>1 DEF ShownAt
    <2>. QED  BY <2>1, <2>2, <2>3
<1>. QED  BY <1>1, RunsFit, PTL
=============================================================================
