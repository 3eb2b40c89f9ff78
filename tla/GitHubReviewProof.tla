------------------------- MODULE GitHubReviewProof -------------------------
(***************************************************************************)
(* Proofs about CanonicalReview, the review runs on a GitHub pull request, *)
(* and SlashDismiss, the verdict commands beside them: for every finite    *)
(* set of findings and any number of runs, commands and faults.            *)
(***************************************************************************)
EXTENDS SlashDismiss, SequenceTheorems, FiniteSetTheorems, TLAPS

-----------------------------------------------------------------------------
(* Numbers, sequences and sets *)

\* A set of naturals that is not empty has a least element.
LEMMA LeastExists ==
    ASSUME NEW S \in SUBSET Nat, S # {}
    PROVE  \E m \in S : \A x \in S : m <= x
<1>. DEFINE Less == {ss \in Nat \X Nat : ss[1] < ss[2]}
<1>1. IsWellFoundedOn(Less, Nat)  BY NatLessThanWellFounded, Zenon DEF OpToRel
<1>2. \A x, y \in Nat : x < y => <<x, y>> \in Less  OBVIOUS
<1>. HIDE DEF Less
<1>3. PICK m \in S : \A x \in S : ~(<<x, m>> \in Less)  BY <1>1, WFMin, Zenon
<1>4. ASSUME NEW x \in S  PROVE m <= x
    <2>1. x \in Nat /\ m \in Nat /\ ~(x < m)  BY <1>2, <1>3, Zenon
    <2>. QED  BY <2>1
<1>. QED  BY <1>4

\* Min and Max return the least and the greatest element.
LEMMA MinIsLeast ==
    ASSUME NEW S \in SUBSET Nat, S # {}
    PROVE  Min(S) \in S /\ \A x \in S : Min(S) <= x
BY LeastExists DEF Min

LEMMA MaxIsGreatest ==
    ASSUME NEW n \in Nat, NEW S \in SUBSET (0..n), S # {}
    PROVE  Max(S) \in S /\ \A x \in S : Max(S) >= x
<1>. DEFINE Rest == {n - x : x \in S}
<1>1. \A x \in S : n - x \in Nat /\ n - x \in Rest  OBVIOUS
<1>2. \A y \in Rest : \E x \in S : y = n - x  OBVIOUS
<1>3. Rest \in SUBSET Nat /\ Rest # {}  BY <1>1, <1>2
<1>. HIDE DEF Rest
<1>4. PICK m \in Rest : \A x \in Rest : m <= x  BY <1>3, LeastExists
<1>5. PICK g \in S : m = n - g  BY <1>2
<1>6. \A x \in S : g >= x  BY <1>1, <1>4, <1>5
<1>. QED  BY <1>6 DEF Max

\* A listing that ended early is the beginning of the complete one.
LEMMA PartialFits ==
    ASSUME NEW T, NEW s \in Seq(T), NEW got \in Partial(s)
    PROVE  /\ got \in Seq(T) /\ Len(got) <= Len(s) /\ DOMAIN got \subseteq DOMAIN s
           /\ \A i \in DOMAIN got : got[i] = s[i]
<1>1. PICK n \in 0..Len(s) : got = SubSeq(s, 1, n)  BY DEF Partial, Upto
<1>. QED  BY <1>1

\* SetToSeq lists each element of a finite set once.
LEMMA SetToSeqLists ==
    ASSUME NEW S, IsFiniteSet(S)
    PROVE  /\ Cardinality(S) \in Nat
           /\ SetToSeq(S) \in [1..Cardinality(S) -> S]
           /\ \A i, j \in 1..Cardinality(S) : SetToSeq(S)[i] = SetToSeq(S)[j] => i = j
           /\ \A x \in S : \E i \in 1..Cardinality(S) : SetToSeq(S)[i] = x
<1>. DEFINE n == Cardinality(S)
<1>1. n \in Nat /\ \E f : f \in Bijection(1..n, S)
    BY FS_CardinalityType DEF ExistsBijection
<1>2. PICK f : f \in Bijection(1..n, S)  BY <1>1
<1>3. f \in [1..n -> S] /\ IsInjective(f)
    BY <1>2 DEF Bijection, Injection
<1>4. SetToSeq(S) \in [1..n -> S] /\ IsInjective(SetToSeq(S))
    BY <1>3, Zenon DEF SetToSeq
<1>5. SetToSeq(S) \in Injection(1..n, S)  BY <1>4 DEF Injection
<1>6. Cardinality(1..n) = n  BY <1>1, FS_Interval
<1>7. SetToSeq(S) \in Surjection(1..n, S)  BY <1>5, <1>6, FS_Injection, Zenon
<1>8. \A x \in S : \E i \in 1..n : SetToSeq(S)[i] = x  BY <1>7, Zenon DEF Surjection
<1>. QED  BY <1>1, <1>4, <1>8, Zenon DEF IsInjective

-----------------------------------------------------------------------------
(* Types *)

Marks == {"none", "dismissed", "fixed", "recurred"}

BodyType == [kind : {"empty", "review", "approval"}, ids : SUBSET Findings,
             bullets : SUBSET (Findings \ Inline), verdict : [Findings -> Marks]]

ReviewType ==
    [state : {"COMMENTED", "CHANGES_REQUESTED", "APPROVED", "DISMISSED"}, body : BodyType]

ThreadType == [finding : Findings, review : Nat, open : BOOLEAN, outdated : BOOLEAN]

RunPcs == {"idle", "reviews", "threads", "effects", "put", "post", "approve", "supersede",
           "stale", "dismiss"}

EventNames == {"REQUEST_CHANGES", "APPROVE", "COMMENT"}

RunType ==
    [pc : RunPcs, found : SUBSET Findings, event : EventNames, moved : BOOLEAN,
     reviews : Seq(ReviewType), threads : Seq(ThreadType), complete : BOOLEAN,
     kept : SUBSET Nat, todo : SUBSET Findings, landed : Nat,
     wasBlocked : BOOLEAN, clean : BOOLEAN, alone : BOOLEAN]

ReviewsTypeOK ==
    /\ reviews \in Seq(ReviewType) /\ threads \in Seq(ThreadType)
    /\ run \in RunType /\ runs \in Nat

LEMMA EmptyFits == NoVerdicts \in [Findings -> Marks] /\ EmptyReview \in ReviewType
BY DEF NoVerdicts, EmptyReview, EmptyBody, ReviewType, BodyType, Marks

LEMMA FreshFits == Fresh \in RunType
BY DEF Fresh, RunType, RunPcs, EventNames

LEMMA InitFits == Init => ReviewsTypeOK
BY FreshFits DEF Init, ReviewsTypeOK

-----------------------------------------------------------------------------
(* What is read back *)

LEMMA SelectCanonicalFits ==
    ASSUME NEW revs \in Seq(ReviewType)
    PROVE  /\ SelectCanonical(revs) \in 0..Len(revs)
           /\ SelectCanonical(revs) # 0 =>
                  revs[SelectCanonical(revs)].body.kind # "empty"
<1>. DEFINE S == {0} \cup {i \in DOMAIN revs : revs[i].body.kind # "empty"}
<1>1. Len(revs) \in Nat /\ S \in SUBSET (0..Len(revs)) /\ S # {}  OBVIOUS
<1>2. Max(S) \in S
    <2>. HIDE DEF S
    <2>. QED  BY <1>1, MaxIsGreatest
<1>. QED  BY <1>1, <1>2 DEF SelectCanonical

\* The union of the verdicts says of a finding what the newest body with a verdict says.
LEMMA MergeVerdictsFits ==
    ASSUME NEW revs \in Seq(ReviewType)
    PROVE  /\ MergeVerdicts(revs) \in [Findings -> Marks]
           /\ \A f \in Findings :
                  \/ /\ MergeVerdicts(revs)[f] = "none"
                     /\ \A i \in DOMAIN revs : revs[i].body.verdict[f] = "none"
                  \/ \E i \in DOMAIN revs :
                        /\ MergeVerdicts(revs)[f] = revs[i].body.verdict[f]
                        /\ revs[i].body.verdict[f] # "none"
                        /\ \A j \in DOMAIN revs :
                              j > i => revs[j].body.verdict[f] = "none"
<1>1. \A i \in DOMAIN revs : revs[i].body.verdict \in [Findings -> Marks]
    <2>1. \A i \in DOMAIN revs : revs[i] \in ReviewType  OBVIOUS
    <2>. QED  BY <2>1 DEF ReviewType, BodyType
<1>2. ASSUME NEW f \in Findings
      PROVE  /\ MergeVerdicts(revs)[f] \in Marks
             /\ \/ /\ MergeVerdicts(revs)[f] = "none"
                   /\ \A i \in DOMAIN revs : revs[i].body.verdict[f] = "none"
                \/ \E i \in DOMAIN revs :
                      /\ MergeVerdicts(revs)[f] = revs[i].body.verdict[f]
                      /\ revs[i].body.verdict[f] # "none"
                      /\ \A j \in DOMAIN revs :
                            j > i => revs[j].body.verdict[f] = "none"
    <2>. DEFINE S == {i \in DOMAIN revs : revs[i].body.verdict[f] # "none"}
    <2>1. MergeVerdicts(revs)[f] = IF S = {} THEN "none" ELSE revs[Max(S)].body.verdict[f]
        BY DEF MergeVerdicts
    <2>2. CASE S = {}  BY <2>1, <2>2 DEF Marks
    <2>3. CASE S # {}
        <3>1. /\ Len(revs) \in Nat /\ S \in SUBSET (0..Len(revs))
              /\ \A j \in DOMAIN revs :
                     j \in Nat /\ (j \notin S => revs[j].body.verdict[f] = "none")
            OBVIOUS
        <3>2. Max(S) \in S /\ \A j \in S : Max(S) >= j
            <4>. HIDE DEF S
            <4>. QED  BY <2>3, <3>1, MaxIsGreatest
        <3>3. \A j \in DOMAIN revs : j > Max(S) => revs[j].body.verdict[f] = "none"
            <4>. HIDE DEF S
            <4>. QED  BY <3>1, <3>2
        <3>. QED  BY <1>1, <2>1, <2>3, <3>2, <3>3
    <2>. QED  BY <2>2, <2>3
<1>3. MergeVerdicts(revs) = [f \in Findings |-> MergeVerdicts(revs)[f]]
    BY DEF MergeVerdicts
<1>. QED  BY <1>2, <1>3

LEMMA PriorFits == ASSUME ReviewsTypeOK PROVE Prior \in [Findings -> Marks]
BY MergeVerdictsFits DEF Prior, ReviewsTypeOK, RunType

\* Findings that are rendered are reported, and neither dismissed nor spoken for.
LEMMA RenderedFits ==
    ASSUME ReviewsTypeOK
    PROVE  /\ RenderedBody \in BodyType
           /\ Rendered \subseteq run.found \ Suppressed
           /\ Suppressed \cap Recurred = {}
           /\ \A ths : /\ Matched(ths) \subseteq run.found \ Suppressed
                        /\ Reopenable(ths) \subseteq run.found \ Suppressed
                        /\ Matched(ths) \cap Reopenable(ths) = {}
<1>1. run.found \in SUBSET Findings /\ Prior \in [Findings -> Marks]
    BY PriorFits DEF ReviewsTypeOK, RunType
<1>2. UpdatedVerdicts \in [Findings -> Marks]  BY <1>1 DEF UpdatedVerdicts, Marks
<1>3. Suppressed \cap Recurred = {}  BY DEF Suppressed, Recurred
<1>4. /\ Rendered \subseteq run.found \ Suppressed
      /\ \A ths : /\ Matched(ths) \subseteq run.found \ Suppressed
                   /\ Reopenable(ths) \subseteq run.found \ Suppressed
                   /\ Matched(ths) \cap Reopenable(ths) = {}
    BY <1>3 DEF Rendered, New, Matched, Reopenable, Recurred
<1>5. Bullets \subseteq Findings \ Inline  BY <1>1, <1>4 DEF Bullets
<1>. QED  BY <1>1, <1>2, <1>3, <1>4, <1>5 DEF RenderedBody, BodyType

-----------------------------------------------------------------------------
(* Posting a review *)

\* new has a thread of review r for each of fs.
Lists(new, fs, r) ==
    /\ new \in Seq(ThreadType)
    /\ \A i \in DOMAIN new : /\ new[i].finding \in fs /\ new[i].review = r
                             /\ new[i].open /\ ~new[i].outdated
    /\ \A i, j \in DOMAIN new : new[i].finding = new[j].finding => i = j
    /\ \A f \in fs : \E i \in DOMAIN new : new[i].finding = f
    /\ fs = {} => new = <<>>

LEMMA NewThreadsFit ==
    ASSUME NEW fs \in SUBSET Findings, NEW r \in Nat
    PROVE  Lists(NewThreads(fs, r), fs, r)
<1>. DEFINE n == Cardinality(fs)
            seq == SetToSeq(fs)
            new == [i \in 1..n |-> [finding |-> seq[i], review |-> r,
                                    open |-> TRUE, outdated |-> FALSE]]
<1>0. IsFiniteSet(fs)  BY FS_Subset, FindingsAssumption
<1>1. /\ n \in Nat /\ seq \in [1..n -> fs]
      /\ \A i, j \in 1..n : seq[i] = seq[j] => i = j
      /\ \A x \in fs : \E i \in 1..n : seq[i] = x
    BY <1>0, SetToSeqLists, Zenon
<1>2. NewThreads(fs, r) = new  BY DEF NewThreads
<1>3. fs = {} => n = 0  BY FS_EmptySet
<1>. HIDE DEF n, seq
<1>4. new \in Seq(ThreadType) /\ DOMAIN new = 1..n
    <2>1. \A i \in 1..n : [finding |-> seq[i], review |-> r, open |-> TRUE,
                           outdated |-> FALSE] \in ThreadType
        BY <1>1 DEF ThreadType
    <2>. QED  BY <1>1, <2>1, IsASeq
<1>5. \A i \in 1..n : /\ new[i].finding = seq[i] /\ new[i].review = r
                       /\ new[i].open /\ ~new[i].outdated
    OBVIOUS
<1>6. fs = {} => new = <<>>  BY <1>1, <1>3, <1>4
<1>. HIDE DEF new
<1>7. Lists(new, fs, r)  BY <1>1, <1>4, <1>5, <1>6 DEF Lists
<1>. QED  BY <1>2, <1>7

\* n reviews are appended, with the body that the run renders.
ReviewsPosted(n, event) ==
    /\ n \in 1..2 /\ reviews' \in Seq(ReviewType) /\ Len(reviews') = Len(reviews) + n
    /\ \A i \in DOMAIN reviews : reviews'[i] = reviews[i]
    /\ \A i \in DOMAIN reviews' \ DOMAIN reviews :
           reviews'[i].state = StateOf(event) /\ reviews'[i].body = RenderedBody

\* Their threads are appended: the last review has one for each of the comments.
ThreadsPosted(comments) ==
    /\ threads' \in Seq(ThreadType) /\ Len(threads) <= Len(threads')
    /\ \A i \in DOMAIN threads : threads'[i] = threads[i]
    /\ \A i \in Added : /\ threads'[i].finding \in comments
                        /\ threads'[i].open /\ ~threads'[i].outdated
                        /\ threads'[i].review \in DOMAIN reviews'
    /\ \A i, j \in Added :
           /\ threads'[i].review = Len(reviews') /\ threads'[j].review = Len(reviews')
           /\ threads'[i].finding = threads'[j].finding
           => i = j
    /\ \A f \in comments : \E i \in Added :
           threads'[i].review = Len(reviews') /\ threads'[i].finding = f
    /\ comments = {} => threads' = threads

LEMMA StateOfFits == \A event \in EventNames : StateOf(event) \in {"COMMENTED",
                                             "CHANGES_REQUESTED", "APPROVED"}
BY DEF StateOf, EventNames

LEMMA ReviewsArePosted ==
    ASSUME ReviewsTypeOK, NEW event \in EventNames, NEW n \in 1..2,
           reviews' = reviews \o [i \in 1..n |-> [state |-> StateOf(event),
                                                  body |-> RenderedBody]]
    PROVE  ReviewsPosted(n, event)
<1>. DEFINE review == [state |-> StateOf(event), body |-> RenderedBody]
            new == [i \in 1..n |-> review]
<1>1. review \in ReviewType  BY RenderedFits, StateOfFits DEF ReviewType
<1>2. n \in Nat /\ new \in Seq(ReviewType) /\ Len(new) = n
    BY <1>1, IsASeq
<1>3. review.state = StateOf(event) /\ review.body = RenderedBody  OBVIOUS
<1>4. \A i \in 1..n : new[i] = review  OBVIOUS
<1>. HIDE DEF review, new
<1>5. reviews' = reviews \o new  BY DEF new, review
<1>6. reviews \in Seq(ReviewType)  BY DEF ReviewsTypeOK
<1>7. /\ reviews' \in Seq(ReviewType) /\ Len(reviews') = Len(reviews) + n
      /\ \A i \in 1..Len(reviews) + n :
             reviews'[i] = IF i <= Len(reviews) THEN reviews[i] ELSE new[i - Len(reviews)]
    BY <1>2, <1>5, <1>6, ConcatProperties
<1>8. DOMAIN reviews = 1..Len(reviews) /\ DOMAIN reviews' = 1..Len(reviews')
      /\ Len(reviews) \in Nat
    BY <1>6, <1>7
<1>. QED  BY <1>2, <1>3, <1>4, <1>7, <1>8 DEF ReviewsPosted

\* all is ths with a thread of review r appended for each of fs.
Extends(all, ths, fs, r) ==
    /\ all \in Seq(ThreadType) /\ Len(ths) <= Len(all)
    /\ \A i \in DOMAIN ths : i \in DOMAIN all /\ all[i] = ths[i]
    /\ \A i \in DOMAIN all \ DOMAIN ths :
           all[i].finding \in fs /\ all[i].open /\ ~all[i].outdated /\ all[i].review = r
    /\ \A i, j \in DOMAIN all \ DOMAIN ths : all[i].finding = all[j].finding => i = j
    /\ \A f \in fs : \E i \in DOMAIN all \ DOMAIN ths : all[i].finding = f
    /\ fs = {} => all = ths

LEMMA ListAppended ==
    ASSUME NEW ths \in Seq(ThreadType), NEW fs, NEW r, NEW new, Lists(new, fs, r),
           NEW all, all = ths \o new
    PROVE  Extends(all, ths, fs, r)
<1>1. new \in Seq(ThreadType)  BY DEF Lists
<1>2. /\ all \in Seq(ThreadType) /\ Len(all) = Len(ths) + Len(new)
      /\ \A i \in 1..Len(ths) + Len(new) :
             all[i] = IF i <= Len(ths) THEN ths[i] ELSE new[i - Len(ths)]
    BY <1>1, ConcatProperties
<1>3. /\ DOMAIN ths = 1..Len(ths) /\ DOMAIN new = 1..Len(new) /\ DOMAIN all = 1..Len(all)
      /\ Len(ths) \in Nat /\ Len(new) \in Nat
    BY <1>1, <1>2
<1>4. fs = {} => all = ths  BY ConcatEmptySeq DEF Lists
<1>5. \A i \in DOMAIN ths : i \in DOMAIN all /\ all[i] = ths[i]  BY <1>2, <1>3
<1>6. \A i \in DOMAIN all \ DOMAIN ths : i - Len(ths) \in DOMAIN new /\ all[i] = new[i - Len(ths)]
    BY <1>2, <1>3
<1>7. ASSUME NEW i \in DOMAIN all \ DOMAIN ths, NEW j \in DOMAIN all \ DOMAIN ths,
             all[i].finding = all[j].finding
      PROVE  i = j
    <2>1. i - Len(ths) = j - Len(ths)  BY <1>6, <1>7 DEF Lists
    <2>. QED  BY <1>2, <1>3, <2>1
<1>8. ASSUME NEW f \in fs PROVE \E i \in DOMAIN all \ DOMAIN ths : all[i].finding = f
    <2>1. PICK k \in DOMAIN new : new[k].finding = f  BY DEF Lists
    <2>2. k + Len(ths) \in DOMAIN all \ DOMAIN ths /\ (k + Len(ths)) - Len(ths) = k
        BY <1>2, <1>3
    <2>3. all[k + Len(ths)] = new[k]  BY <1>6, <2>2
    <2>. QED  BY <2>1, <2>2, <2>3
<1>9. Len(ths) <= Len(all)  BY <1>2, <1>3
<1>10. \A i \in DOMAIN all \ DOMAIN ths :
           all[i].finding \in fs /\ all[i].open /\ ~all[i].outdated /\ all[i].review = r
    BY <1>6 DEF Lists
<1>. QED  BY <1>2, <1>4, <1>5, <1>7, <1>8, <1>9, <1>10 DEF Extends

LEMMA ThreadsAppended ==
    ASSUME NEW ths \in Seq(ThreadType), NEW fs \in SUBSET Findings, NEW r \in Nat
    PROVE  Extends(ths \o NewThreads(fs, r), ths, fs, r)
BY NewThreadsFit, ListAppended

\* The review is posted once, or the answer to the first post is lost.
LEMMA PostedOnce ==
    ASSUME NEW comments, threads \in Seq(ThreadType), reviews' \in Seq(ReviewType),
           Len(reviews') # 0, Extends(threads', threads, comments, Len(reviews'))
    PROVE  ThreadsPosted(comments)
<1>1. Added = DOMAIN threads' \ DOMAIN threads  BY DEF Extends, Added
<1>2. Len(reviews') \in DOMAIN reviews'  OBVIOUS
<1>. QED  BY <1>1, <1>2 DEF Extends, ThreadsPosted

LEMMA PostedTwice ==
    ASSUME NEW comments, NEW first, NEW r \in Nat \ {0},
           threads \in Seq(ThreadType), reviews' \in Seq(ReviewType), Len(reviews') = r + 1,
           Extends(first, threads, comments, r), Extends(threads', first, comments, r + 1)
    PROVE  ThreadsPosted(comments)
<1>1. /\ DOMAIN threads = 1..Len(threads) /\ DOMAIN threads' = 1..Len(threads')
      /\ DOMAIN first = 1..Len(first) /\ Len(threads) \in Nat /\ Len(first) \in Nat
      /\ Len(threads') \in Nat /\ r \in DOMAIN reviews' /\ r + 1 \in DOMAIN reviews'
      /\ Len(threads) <= Len(first) /\ Len(first) <= Len(threads')
    BY DEF Extends
<1>2. Added = DOMAIN threads' \ DOMAIN threads  BY <1>1 DEF Added
<1>3. DOMAIN threads \subseteq DOMAIN first /\ DOMAIN first \subseteq DOMAIN threads'
    BY <1>1
<1>4. \A i \in Added : \/ i \in DOMAIN threads' \ DOMAIN first
                        \/ i \in DOMAIN first \ DOMAIN threads
    BY <1>2
<1>5. /\ \A i \in DOMAIN first \ DOMAIN threads : /\ threads'[i].finding \in comments
                                                /\ threads'[i].open /\ ~threads'[i].outdated
                                                /\ threads'[i].review = r
      /\ \A i \in DOMAIN threads' \ DOMAIN first : /\ threads'[i].finding \in comments
                                                 /\ threads'[i].open /\ ~threads'[i].outdated
                                                 /\ threads'[i].review = r + 1
    BY DEF Extends
<1>6. \A i \in Added : threads'[i].review = Len(reviews') => i \in DOMAIN threads' \ DOMAIN first
    BY <1>4, <1>5
<1>7. \A i \in Added : /\ threads'[i].finding \in comments
                       /\ threads'[i].open /\ ~threads'[i].outdated
                       /\ threads'[i].review \in DOMAIN reviews'
    BY <1>1, <1>4, <1>5
<1>8. \A i, j \in Added :
          /\ threads'[i].review = Len(reviews') /\ threads'[j].review = Len(reviews')
          /\ threads'[i].finding = threads'[j].finding
          => i = j
    BY <1>6 DEF Extends
<1>9. \A f \in comments : \E i \in Added :
          threads'[i].review = Len(reviews') /\ threads'[i].finding = f
    <2>1. \A i \in DOMAIN threads' \ DOMAIN first : i \in Added  BY <1>2, <1>3
    <2>. QED  BY <1>5, <2>1 DEF Extends
<1>10. \A i \in DOMAIN threads : threads'[i] = threads[i]  BY <1>3 DEF Extends
<1>11. comments = {} => threads' = threads  BY DEF Extends
<1>12. threads' \in Seq(ThreadType) /\ Len(threads) <= Len(threads')
    BY <1>1 DEF Extends
<1>. QED  BY <1>7, <1>8, <1>9, <1>10, <1>11, <1>12 DEF ThreadsPosted

LEMMA ThreadsArePosted ==
    ASSUME ReviewsTypeOK, NEW comments \in SUBSET Findings, NEW event, NEW n,
           ReviewsPosted(n, event),
           threads' = threads \o NewThreads(comments, Len(reviews) + 1)
                              \o IF n = 2 THEN NewThreads(comments, Len(reviews) + 1 + 1)
                                 ELSE <<>>
    PROVE  ThreadsPosted(comments)
<1>. DEFINE r == Len(reviews) + 1
            first == threads \o NewThreads(comments, r)
<1>1. /\ threads \in Seq(ThreadType) /\ r \in Nat \ {0} /\ r + 1 \in Nat /\ n \in 1..2
      /\ reviews' \in Seq(ReviewType) /\ Len(reviews') = r + n - 1
    BY DEF ReviewsTypeOK, ReviewsPosted
<1>2. threads' = first \o IF n = 2 THEN NewThreads(comments, r + 1) ELSE <<>>  OBVIOUS
<1>. HIDE DEF r
<1>3. Extends(first, threads, comments, r)  BY <1>1, ThreadsAppended
<1>. HIDE DEF first
<1>4. first \in Seq(ThreadType)  BY <1>3 DEF Extends
<1>5. CASE n = 1
    <2>1. threads' = first /\ Len(reviews') = r
        BY <1>1, <1>2, <1>4, <1>5, ConcatEmptySeq
    <2>. QED  BY <1>1, <1>3, <2>1, PostedOnce
<1>6. CASE n = 2
    <2>0. threads' = first \o NewThreads(comments, r + 1)  BY <1>2, <1>6, Zenon
    <2>1. threads' = first \o NewThreads(comments, r + 1) /\ Len(reviews') = r + 1
        <3>1. r + n - 1 = r + 1  BY <1>1, <1>6
        <3>. QED  BY <1>1, <2>0, <3>1, Zenon
    <2>2. Extends(threads', first, comments, r + 1)
        BY <1>1, <1>4, <2>1, ThreadsAppended
    <2>. QED  BY <1>1, <1>3, <2>1, <2>2, PostedTwice
<1>. QED  BY <1>1, <1>5, <1>6

\* The run goes on as r with the new threads registered, and unclean without.
RunPosted(r, ok) ==
    /\ run' \in RunType
    /\ run'.pc = r.pc /\ run'.found = r.found /\ run'.event = r.event /\ run'.moved = r.moved
    /\ run'.reviews = r.reviews /\ run'.threads = r.threads /\ run'.complete = r.complete
    /\ run'.todo = r.todo /\ run'.landed = r.landed /\ run'.alone = r.alone
    /\ run'.kept \in {run.kept, Registered}
    /\ run'.clean => r.clean /\ ok /\ run'.kept = Registered

LEMMA RegisteredFits ==
    ASSUME ReviewsTypeOK, NEW comments, ThreadsPosted(comments)
    PROVE  Registered \in SUBSET Nat
<1>1. Len(threads) \in Nat /\ Len(threads') \in Nat /\ run.kept \in SUBSET Nat
    BY DEF ReviewsTypeOK, ThreadsPosted, RunType
<1>. QED  BY <1>1 DEF Registered, Added

LEMMA PostEffect ==
    ASSUME ReviewsTypeOK, NEW event \in EventNames, NEW comments \in SUBSET Findings,
           NEW ok \in BOOLEAN, NEW r, r \in RunType, r.kept = run.kept,
           Post(event, comments, ok, r)
    PROVE  /\ \E n : ReviewsPosted(n, event)
           /\ ThreadsPosted(comments) /\ RunPosted(r, ok)
<1>1. PICK n \in Copies :
          LET next == Len(reviews) + 1
          IN /\ reviews' = reviews \o [i \in 1..n |-> [state |-> StateOf(event),
                                                       body |-> RenderedBody]]
             /\ threads' = threads \o NewThreads(comments, next)
                                   \o IF n = 2 THEN NewThreads(comments, next + 1) ELSE <<>>
             /\ \/ n = 1 /\ StepIf(ok, [r EXCEPT !.kept = Registered])
                \/ n = 2 /\ ok /\ faults' = faults + 2 /\ run' = [r EXCEPT !.kept = Registered]
                \/ n = 1 /\ comments # {} /\ FailStep(r)
    BY Zenon DEF Post
<1>2. /\ reviews' = reviews \o [i \in 1..n |-> [state |-> StateOf(event),
                                                body |-> RenderedBody]]
      /\ threads' = threads \o NewThreads(comments, Len(reviews) + 1)
                            \o IF n = 2 THEN NewThreads(comments, Len(reviews) + 1 + 1)
                               ELSE <<>>
      /\ \/ StepIf(ok, [r EXCEPT !.kept = Registered])
         \/ ok /\ run' = [r EXCEPT !.kept = Registered]
         \/ FailStep(r)
    BY <1>1, Zenon
<1>3. n \in 1..2  BY DEF Copies
<1>4. ReviewsPosted(n, event)  BY <1>2, <1>3, ReviewsArePosted
<1>5. ThreadsPosted(comments)  BY <1>2, <1>4, ThreadsArePosted
<1>6. Registered \in SUBSET Nat  BY <1>5, RegisteredFits
<1>7. \/ ok /\ run' = [r EXCEPT !.kept = Registered]
      \/ run' = [[r EXCEPT !.kept = Registered] EXCEPT !.clean = FALSE]
      \/ run' = [r EXCEPT !.clean = FALSE]
    BY <1>2 DEF StepIf, Step, FailStep
<1>. DEFINE kept == Registered
<1>. HIDE DEF kept
<1>8. RunPosted(r, ok)
    <2>0. kept \in SUBSET Nat  BY <1>6 DEF kept
    <2>1. CASE ok /\ run' = [r EXCEPT !.kept = kept]
        <3>1. run' \in RunType  BY <2>0, <2>1 DEF RunType
        <3>. QED  BY <2>1, <3>1 DEF RunPosted, RunType, kept
    <2>2. CASE run' = [[r EXCEPT !.kept = kept] EXCEPT !.clean = FALSE]
        <3>1. run' \in RunType  BY <2>0, <2>2 DEF RunType
        <3>. QED  BY <2>2, <3>1 DEF RunPosted, RunType, kept
    <2>3. CASE run' = [r EXCEPT !.clean = FALSE]
        <3>1. run' \in RunType  BY <2>3 DEF RunType
        <3>. QED  BY <2>3, <3>1 DEF RunPosted, RunType
    <2>. QED  BY <1>7, <2>1, <2>2, <2>3 DEF kept
<1>. QED  BY <1>4, <1>5, <1>8

-----------------------------------------------------------------------------
(* What each step of a run does *)

\* What no step of a run changes: the facts it goes by.
Steady ==
    /\ run'.found = run.found /\ run'.event = run.event /\ run'.moved = run.moved
    /\ run'.reviews = run.reviews /\ run'.alone = run.alone
    /\ run' \in RunType /\ (run'.clean => run.clean) /\ runs' = runs

ReadReviewsSets ==
    /\ run.pc = "reviews" /\ run'.pc = "threads" /\ run' \in RunType
    /\ run'.found = run.found /\ run'.event = run.event /\ run'.moved = run.moved
    /\ run'.alone = run.alone /\ run'.threads = run.threads /\ run'.kept = run.kept
    /\ run'.todo = run.todo /\ run'.reviews \in {reviews, <<>>}
    /\ (run'.clean => run.clean /\ run'.reviews = reviews)
    /\ UNCHANGED <<reviews, threads, runs>>

LEMMA ReadReviewsEffect == ASSUME ReviewsTypeOK, ReadReviews PROVE ReadReviewsSets
<1>1. PICK ok \in BOOLEAN :
          StepIf(ok, [run EXCEPT !.pc = "threads", !.reviews = PriorBotReviews(ok)])
    BY DEF ReadReviews
<1>. DEFINE got == PriorBotReviews(ok)
<1>2. got \in {reviews, <<>>} /\ got \in Seq(ReviewType) /\ (ok => got = reviews)
    BY DEF PriorBotReviews, ReviewsTypeOK
<1>. HIDE DEF got
<1>3. \/ ok /\ run' = [run EXCEPT !.pc = "threads", !.reviews = got]
      \/ run' = [run EXCEPT !.pc = "threads", !.reviews = got, !.clean = FALSE]
    BY <1>1 DEF StepIf, Step, FailStep, got
<1>4. run \in RunType  BY DEF ReviewsTypeOK
<1>5. run.pc = "reviews" /\ UNCHANGED <<reviews, threads, runs>>  BY DEF ReadReviews
<1>6. run' \in RunType
    <2>1. CASE run' = [run EXCEPT !.pc = "threads", !.reviews = got]
        BY <1>2, <1>4, <2>1 DEF RunType, RunPcs
    <2>2. CASE run' = [run EXCEPT !.pc = "threads", !.reviews = got, !.clean = FALSE]
        BY <1>2, <1>4, <2>2 DEF RunType, RunPcs
    <2>. QED  BY <1>3, <2>1, <2>2
<1>7. /\ run'.pc = "threads" /\ run'.found = run.found /\ run'.event = run.event
      /\ run'.moved = run.moved /\ run'.alone = run.alone /\ run'.threads = run.threads
      /\ run'.kept = run.kept /\ run'.todo = run.todo /\ run'.reviews = got
      /\ run'.clean => run.clean /\ ok
    BY <1>3, <1>4, <1>6 DEF RunType
<1>. QED  BY <1>2, <1>5, <1>6, <1>7 DEF ReadReviewsSets

\* The run's copies against the reviews and threads, and what is left to reopen.
CopiesFit ==
    /\ Len(run.reviews) <= Len(reviews)
    /\ \A i \in DOMAIN run.threads :
           /\ i \in DOMAIN threads /\ run.threads[i].finding = threads[i].finding
           /\ run.threads[i].review = threads[i].review
    /\ run.todo # {} => run.pc = "effects" /\ run.todo \subseteq Reopenable(run.threads)

LEMMA CarriedFits ==
    ASSUME NEW ths \in Seq(ThreadType), NEW f
    PROVE  /\ CarriedBy(ths, f) # {} => Min(CarriedBy(ths, f)) \in CarriedBy(ths, f)
           /\ OpenOf(ths, f) # {} => Min(OpenOf(ths, f)) \in OpenOf(ths, f)
           /\ OpenOf(ths, f) \subseteq CarriedBy(ths, f)
           /\ CarriedBy(ths, f) \subseteq DOMAIN ths /\ DOMAIN ths \subseteq Nat
<1>1. /\ OpenOf(ths, f) \subseteq CarriedBy(ths, f)
      /\ CarriedBy(ths, f) \subseteq DOMAIN ths /\ DOMAIN ths \subseteq Nat
    BY DEF OpenOf, CarriedBy
<1>2. CarriedBy(ths, f) \in SUBSET Nat /\ OpenOf(ths, f) \in SUBSET Nat  BY <1>1
<1>. QED  BY <1>1, <1>2, MinIsLeast

\* A claimed thread is the open one that speaks for a matched finding.
LEMMA ClaimedFits ==
    ASSUME NEW ths \in Seq(ThreadType), NEW i \in Claimed(ths)
    PROVE  /\ i \in DOMAIN ths /\ i \in Nat /\ ths[i].open /\ ths[i].finding \in Matched(ths)
           /\ i = Min(OpenOf(ths, ths[i].finding))
<1>1. PICK f \in Matched(ths) : i = Min(OpenOf(ths, f))  BY DEF Claimed
<1>2. OpenOf(ths, f) # {}  BY <1>1 DEF Matched
<1>3. i \in OpenOf(ths, f) /\ DOMAIN ths \subseteq Nat  BY <1>1, <1>2, CarriedFits
<1>. QED  BY <1>1, <1>3 DEF OpenOf

LEMMA MatchedIsClaimed ==
    ASSUME NEW ths \in Seq(ThreadType), NEW f \in Matched(ths)
    PROVE  \E i \in Claimed(ths) : i \in OpenOf(ths, f) /\ ~ths[i].outdated
<1>1. OpenOf(ths, f) # {} /\ ~ths[Min(OpenOf(ths, f))].outdated  BY DEF Matched
<1>2. Min(OpenOf(ths, f)) \in OpenOf(ths, f)  BY <1>1, CarriedFits
<1>. QED  BY <1>1, <1>2 DEF Claimed

ReadThreadsSets ==
    /\ run.pc = "threads" /\ run'.pc = "effects" /\ Steady
    /\ run'.threads \in Partial(threads) /\ run'.landed = run.landed
    /\ run'.kept = Claimed(run'.threads) /\ run'.todo = Reopenable(run'.threads)
    /\ run'.complete => run'.threads = threads
    /\ run'.clean => run'.complete
    /\ UNCHANGED <<reviews, threads>>

LEMMA ReadThreadsEffect == ASSUME ReviewsTypeOK, ReadThreads PROVE ReadThreadsSets
<1>1. PICK got \in Partial(threads), complete \in BOOLEAN :
        /\ complete => got = threads
        /\ StepIf(complete,
                  [run EXCEPT !.pc = "effects", !.threads = got, !.complete = complete,
                              !.kept = Claimed(got), !.todo = Reopenable(got)])
    BY Zenon DEF ReadThreads
<1>. DEFINE kept == Claimed(got)
            todo == Reopenable(got)
<1>2. got \in Seq(ThreadType)  BY PartialFits DEF ReviewsTypeOK
<1>3. kept \in SUBSET Nat /\ todo \in SUBSET Findings
    BY <1>2, ClaimedFits, RenderedFits DEF ReviewsTypeOK, RunType
<1>4. /\ complete /\ run' = [run EXCEPT !.pc = "effects", !.threads = got,
                                        !.complete = complete, !.kept = kept, !.todo = todo]
      \/ run' = [[run EXCEPT !.pc = "effects", !.threads = got, !.complete = complete,
                             !.kept = kept, !.todo = todo] EXCEPT !.clean = FALSE]
    BY <1>1 DEF StepIf, Step, FailStep
<1>5. run \in RunType  BY DEF ReviewsTypeOK
<1>6. run.pc = "threads" /\ UNCHANGED <<reviews, threads, runs>>  BY DEF ReadThreads
<1>. HIDE DEF kept, todo
<1>7. /\ run'.pc = "effects" /\ Steady /\ run'.threads = got /\ run'.kept = kept
      /\ run'.todo = todo /\ run'.complete = complete /\ run'.landed = run.landed
      /\ run'.clean => complete
    <2>1. CASE /\ complete
               /\ run' = [run EXCEPT !.pc = "effects", !.threads = got,
                                     !.complete = complete, !.kept = kept, !.todo = todo]
        <3>1. run' \in RunType  BY <1>2, <1>3, <1>5, <2>1 DEF RunType, RunPcs
        <3>. QED  BY <1>5, <1>6, <2>1, <3>1 DEF Steady, RunType
    <2>2. CASE run' = [[run EXCEPT !.pc = "effects", !.threads = got, !.complete = complete,
                                   !.kept = kept, !.todo = todo] EXCEPT !.clean = FALSE]
        <3>1. run' \in RunType  BY <1>2, <1>3, <1>5, <2>2 DEF RunType, RunPcs
        <3>. QED  BY <1>5, <1>6, <2>2, <3>1 DEF Steady, RunType
    <2>. QED  BY <1>4, <2>1, <2>2
<1>. QED  BY <1>1, <1>6, <1>7 DEF ReadThreadsSets, kept, todo

\* The threads stay the same but for their states.
SameThreads ==
    /\ threads' \in Seq(ThreadType) /\ Len(threads') = Len(threads)
    /\ \A j \in DOMAIN threads : /\ threads'[j].finding = threads[j].finding
                                 /\ threads'[j].review = threads[j].review

SameView == \A j \in DOMAIN threads : threads'[j].outdated = threads[j].outdated

ReopenSets(f, i, reopened) ==
    /\ run.pc = "effects" /\ run'.pc = "effects" /\ Steady
    /\ f \in run.todo /\ run'.todo = run.todo \ {f}
    /\ i = Min(CarriedBy(run.threads, f)) /\ i \in CarriedBy(run.threads, f)
    /\ run'.complete = run.complete /\ run'.landed = run.landed
    /\ run'.kept = IF reopened THEN run.kept \cup {i} ELSE run.kept
    /\ reviews' = reviews \/ reviews' = Append(reviews, EmptyReview)
    /\ run'.clean => reopened
    /\ SameThreads /\ SameView
    /\ \A j \in DOMAIN threads : threads'[j].open <=> threads[j].open \/ (j = i /\ reopened)
    /\ DOMAIN run'.threads = DOMAIN run.threads
    /\ \A j \in DOMAIN run.threads :
           /\ run'.threads[j].finding = run.threads[j].finding
           /\ run'.threads[j].review = run.threads[j].review
           /\ run'.threads[j].outdated = run.threads[j].outdated
           /\ run'.threads[j].open <=> run.threads[j].open \/ (j = i /\ reopened)

\* The state of one thread is set.
LEMMA OpenSet ==
    ASSUME NEW ths \in Seq(ThreadType), NEW i \in DOMAIN ths, NEW open \in BOOLEAN,
           NEW next, next = [ths EXCEPT ![i].open = open]
    PROVE  /\ next \in Seq(ThreadType) /\ Len(next) = Len(ths) /\ DOMAIN next = DOMAIN ths
           /\ \A j \in DOMAIN ths :
                  /\ next[j].finding = ths[j].finding /\ next[j].review = ths[j].review
                  /\ next[j].outdated = ths[j].outdated
                  /\ next[j].open <=> IF j = i THEN open ELSE ths[j].open
<1>1. ths[i] \in ThreadType  OBVIOUS
<1>. DEFINE th == [ths[i] EXCEPT !.open = open]
<1>3. next = [ths EXCEPT ![i] = th]  OBVIOUS
<1>4. /\ th \in ThreadType /\ th.finding = ths[i].finding /\ th.review = ths[i].review
      /\ th.outdated = ths[i].outdated /\ th.open = open
    BY <1>1 DEF ThreadType
<1>. HIDE DEF th
<1>5. next \in Seq(ThreadType) /\ Len(next) = Len(ths) /\ DOMAIN next = DOMAIN ths
    BY <1>3, <1>4
<1>6. \A j \in DOMAIN ths : next[j] = IF j = i THEN th ELSE ths[j]  BY <1>3
<1>. QED  BY <1>4, <1>5, <1>6

LEMMA Reopened ==
    ASSUME NEW ths \in Seq(ThreadType), NEW i \in DOMAIN ths
    PROVE  LET next == [ths EXCEPT ![i].open = TRUE]
           IN  /\ next \in Seq(ThreadType) /\ Len(next) = Len(ths)
               /\ DOMAIN next = DOMAIN ths
               /\ \A j \in DOMAIN ths :
                      /\ next[j].finding = ths[j].finding /\ next[j].review = ths[j].review
                      /\ next[j].outdated = ths[j].outdated
                      /\ next[j].open <=> j = i \/ ths[j].open
<1>. DEFINE th == [ths[i] EXCEPT !.open = TRUE]
            next == [ths EXCEPT ![i].open = TRUE]
<1>1. ths[i] \in ThreadType  OBVIOUS
<1>2. next = [ths EXCEPT ![i] = th]  OBVIOUS
<1>3. /\ th \in ThreadType /\ th.finding = ths[i].finding /\ th.review = ths[i].review
      /\ th.outdated = ths[i].outdated /\ (th.open <=> TRUE)
    BY <1>1 DEF ThreadType
<1>. HIDE DEF th, next
<1>4. next \in Seq(ThreadType) /\ Len(next) = Len(ths) /\ DOMAIN next = DOMAIN ths
    BY <1>2, <1>3
<1>5. \A j \in DOMAIN ths : next[j] = IF j = i THEN th ELSE ths[j]  BY <1>2
<1>6. /\ next \in Seq(ThreadType) /\ Len(next) = Len(ths) /\ DOMAIN next = DOMAIN ths
      /\ \A j \in DOMAIN ths :
             /\ next[j].finding = ths[j].finding /\ next[j].review = ths[j].review
             /\ next[j].outdated = ths[j].outdated
             /\ next[j].open <=> j = i \/ ths[j].open
    BY <1>3, <1>4, <1>5
<1>. QED  BY <1>6 DEF next

LEMMA ReopenEffect ==
    ASSUME ReviewsTypeOK, CopiesFit, NEW f, Reopen(f)
    PROVE  \E i, reopened : ReopenSets(f, i, reopened)
<1>. DEFINE i == Min(CarriedBy(run.threads, f))
            r == [run EXCEPT !.todo = @ \ {f}]
<1>1. PICK replied \in BOOLEAN, reopened \in BOOLEAN :
            /\ reviews' = AfterReply(replied)
            /\ threads' = AfterUnresolve(i, reopened)
            /\ StepIf(replied /\ reopened,
                      IF reopened
                        THEN [r EXCEPT !.threads[i].open = TRUE, !.kept = @ \cup {i}]
                        ELSE r)
    BY Zenon DEF Reopen
<1>2. /\ run.pc = "effects" /\ f \in run.todo /\ runs' = runs /\ run \in RunType
      /\ run.threads \in Seq(ThreadType) /\ threads \in Seq(ThreadType)
    BY DEF Reopen, ReviewsTypeOK, RunType
<1>3. f \in Reopenable(run.threads)  BY <1>2 DEF CopiesFit
<1>4. i \in CarriedBy(run.threads, f) /\ i \in DOMAIN run.threads /\ i \in Nat
    BY <1>2, <1>3, CarriedFits DEF Reopenable
<1>5. i \in DOMAIN threads  BY <1>4 DEF CopiesFit
<1>6. reviews' = reviews \/ reviews' = Append(reviews, EmptyReview)
    BY <1>1 DEF AfterReply
<1>. HIDE DEF i
<1>7. /\ SameThreads /\ SameView
      /\ \A j \in DOMAIN threads : threads'[j].open <=> threads[j].open \/ (j = i /\ reopened)
    <2>. DEFINE open == threads[i].open \/ reopened
    <2>1. open \in BOOLEAN  OBVIOUS
    <2>2. threads' = [threads EXCEPT ![i].open = open]  BY <1>1 DEF AfterUnresolve
    <2>3. open <=> threads[i].open \/ reopened  OBVIOUS
    <2>. HIDE DEF open
    <2>4. /\ threads' \in Seq(ThreadType) /\ Len(threads') = Len(threads)
          /\ \A j \in DOMAIN threads :
                 /\ threads'[j].finding = threads[j].finding
                 /\ threads'[j].review = threads[j].review
                 /\ threads'[j].outdated = threads[j].outdated
                 /\ threads'[j].open <=> IF j = i THEN open ELSE threads[j].open
        BY <1>2, <1>5, <2>1, <2>2, OpenSet
    <2>. QED  BY <2>3, <2>4 DEF SameThreads, SameView
<1>. DEFINE ths == [run.threads EXCEPT ![i].open = TRUE]
            kept == run.kept \cup {i}
            todo == run.todo \ {f}
<1>8. /\ ths \in Seq(ThreadType) /\ DOMAIN ths = DOMAIN run.threads
      /\ \A j \in DOMAIN run.threads :
             /\ ths[j].finding = run.threads[j].finding
             /\ ths[j].review = run.threads[j].review
             /\ ths[j].outdated = run.threads[j].outdated
             /\ ths[j].open <=> j = i \/ run.threads[j].open
    BY <1>2, <1>4, Reopened
<1>9. kept \in SUBSET Nat /\ todo \in SUBSET Findings  BY <1>2, <1>4 DEF RunType
<1>10. \/ /\ reopened
          /\ \/ run' = [run EXCEPT !.todo = todo, !.threads = ths, !.kept = kept]
             \/ run' = [run EXCEPT !.todo = todo, !.threads = ths, !.kept = kept,
                                   !.clean = FALSE]
       \/ ~reopened /\ run' = [run EXCEPT !.todo = todo, !.clean = FALSE]
    <2>1. CASE reopened
        <3>. DEFINE r2 == [r EXCEPT !.threads[i].open = TRUE, !.kept = @ \cup {i}]
        <3>1. run' = r2 \/ run' = [r2 EXCEPT !.clean = FALSE]
            BY <1>1, <2>1 DEF StepIf, Step, FailStep
        <3>2. r2 = [run EXCEPT !.todo = todo, !.threads = ths, !.kept = kept]
            BY <1>2 DEF RunType
        <3>. HIDE DEF r2, ths, kept, todo
        <3>. QED  BY <1>2, <2>1, <3>1, <3>2 DEF RunType
    <2>2. CASE ~reopened
        <3>1. run' = [r EXCEPT !.clean = FALSE]
            BY <1>1, <2>2 DEF StepIf, Step, FailStep
        <3>. QED  BY <1>2, <2>2, <3>1 DEF RunType
    <2>. QED  BY <2>1, <2>2
<1>. HIDE DEF ths, kept, todo
<1>11. run' \in RunType  BY <1>2, <1>8, <1>9, <1>10 DEF RunType
<1>12. /\ run'.pc = "effects" /\ Steady /\ run'.todo = todo
       /\ run'.complete = run.complete /\ run'.landed = run.landed
       /\ run'.kept = (IF reopened THEN kept ELSE run.kept)
       /\ run'.threads = (IF reopened THEN ths ELSE run.threads)
       /\ run'.clean => reopened
    BY <1>2, <1>10, <1>11 DEF RunType, Steady
<1>13. /\ DOMAIN run'.threads = DOMAIN run.threads
       /\ \A j \in DOMAIN run.threads :
           /\ run'.threads[j].finding = run.threads[j].finding
           /\ run'.threads[j].review = run.threads[j].review
           /\ run'.threads[j].outdated = run.threads[j].outdated
           /\ run'.threads[j].open <=> run.threads[j].open \/ (j = i /\ reopened)
    BY <1>8, <1>12
<1>14. ReopenSets(f, i, reopened)
    BY <1>2, <1>4, <1>6, <1>7, <1>12, <1>13 DEF ReopenSets, i, kept, todo
<1>. QED  BY <1>14

\* What is done with the copies once the threads have been reopened: nothing.
SameCopies ==
    run'.threads = run.threads /\ run'.complete = run.complete /\ run'.todo = run.todo

RecheckSets ==
    /\ Ready /\ Reuses /\ Steady /\ SameCopies /\ run'.kept = run.kept
    /\ \/ run'.pc = "post" /\ run'.landed = run.landed
       \/ run'.pc = "put" /\ run'.landed = run.landed /\ CanonUnchanged
       \/ run'.pc = "stale" /\ run'.landed = Canon /\ CanonUnchanged /\ run.moved
    /\ UNCHANGED <<reviews, threads>>

LEMMA CanonFits ==
    ASSUME ReviewsTypeOK
    PROVE  /\ Canon \in Nat /\ (Canon # 0 => Canon \in DOMAIN run.reviews)
           /\ run.reviews \in Seq(ReviewType) /\ Canon <= Len(run.reviews)
BY SelectCanonicalFits DEF Canon, ReviewsTypeOK, RunType

LEMMA RecheckEffect == ASSUME ReviewsTypeOK, Recheck PROVE RecheckSets
<1>. DEFINE canon == Canon
<1>1. /\ run \in RunType /\ canon \in Nat /\ Ready /\ Reuses
      /\ UNCHANGED <<reviews, threads, runs>>
    BY CanonFits DEF ReviewsTypeOK, Recheck
<1>. HIDE DEF canon
<1>2. \/ run' = [run EXCEPT !.pc = "post"]
      \/ run' = [run EXCEPT !.pc = "post", !.clean = FALSE]
      \/ CanonUnchanged /\ run' = [run EXCEPT !.pc = "put"]
      \/ CanonUnchanged /\ run' = [run EXCEPT !.pc = "put", !.clean = FALSE]
      \/ CanonUnchanged /\ run.moved /\ run' = [run EXCEPT !.pc = "stale", !.landed = canon]
    BY DEF Recheck, Step, FailStep, HeadMoved, canon
<1>3. run' \in RunType
    <2>1. CASE run' = [run EXCEPT !.pc = "post"]  BY <1>1, <2>1 DEF RunType, RunPcs
    <2>2. CASE run' = [run EXCEPT !.pc = "post", !.clean = FALSE]
        BY <1>1, <2>2 DEF RunType, RunPcs
    <2>3. CASE run' = [run EXCEPT !.pc = "put"]  BY <1>1, <2>3 DEF RunType, RunPcs
    <2>4. CASE run' = [run EXCEPT !.pc = "put", !.clean = FALSE]
        BY <1>1, <2>4 DEF RunType, RunPcs
    <2>5. CASE run' = [run EXCEPT !.pc = "stale", !.landed = canon]
        BY <1>1, <2>5 DEF RunType, RunPcs
    <2>. QED  BY <1>2, <2>1, <2>2, <2>3, <2>4, <2>5
<1>4. Steady /\ SameCopies /\ run'.kept = run.kept
    BY <1>1, <1>2, <1>3 DEF RunType, Steady, SameCopies
<1>5. \/ run'.pc = "post" /\ run'.landed = run.landed
      \/ run'.pc = "put" /\ run'.landed = run.landed /\ CanonUnchanged
      \/ run'.pc = "stale" /\ run'.landed = canon /\ CanonUnchanged /\ run.moved
    BY <1>1, <1>2 DEF RunType
<1>. QED  BY <1>1, <1>4, <1>5 DEF RecheckSets, canon

PutSets ==
    /\ run.pc = "put" /\ Steady /\ SameCopies /\ run'.kept = run.kept /\ threads' = threads
    /\ \/ /\ run'.pc = "stale" /\ run'.landed = Canon
          /\ reviews' = Rewritten(Canon, RenderedBody)
       \/ run'.pc = "post" /\ ~run'.clean /\ run'.landed = run.landed /\ reviews' = reviews

LEMMA PutEffect == ASSUME ReviewsTypeOK, Put PROVE PutSets
<1>. DEFINE canon == Canon
            body == RenderedBody
<1>1. /\ run \in RunType /\ canon \in Nat /\ run.pc = "put" /\ UNCHANGED <<threads, runs>>
    BY CanonFits DEF ReviewsTypeOK, Put
<1>. HIDE DEF canon, body
<1>2. \/ reviews' = Rewritten(canon, body) /\ run' = [run EXCEPT !.pc = "stale", !.landed = canon]
      \/ reviews' = reviews /\ run' = [run EXCEPT !.pc = "post", !.clean = FALSE]
    BY DEF Put, Step, FailStep, canon, body
<1>3. run' \in RunType  BY <1>1, <1>2 DEF RunType, RunPcs
<1>4. Steady /\ SameCopies /\ run'.kept = run.kept
    BY <1>1, <1>2, <1>3 DEF RunType, Steady, SameCopies
<1>5. \/ /\ run'.pc = "stale" /\ run'.landed = canon
         /\ reviews' = Rewritten(canon, body)
      \/ run'.pc = "post" /\ ~run'.clean /\ run'.landed = run.landed /\ reviews' = reviews
    BY <1>1, <1>2 DEF RunType
<1>. QED  BY <1>1, <1>4, <1>5 DEF PutSets, canon, body

SupersedeSets ==
    /\ run.pc = "supersede" /\ run'.pc = "stale" /\ Steady /\ SameCopies
    /\ run'.kept = run.kept /\ run'.landed = run.landed /\ threads' = threads
    /\ reviews' = Dismissed({Canon}) \/ reviews' = reviews

LEMMA SupersedeEffect == ASSUME ReviewsTypeOK, Supersede PROVE SupersedeSets
<1>1. /\ run \in RunType /\ run.pc = "supersede" /\ UNCHANGED <<threads, runs>>
      /\ reviews' = Dismissed({Canon}) \/ reviews' = reviews
    BY DEF ReviewsTypeOK, Supersede
<1>2. \/ run' = [run EXCEPT !.pc = "stale"]
      \/ run' = [run EXCEPT !.pc = "stale", !.clean = FALSE]
    BY DEF Supersede, Step, FailStep
<1>3. run' \in RunType  BY <1>1, <1>2 DEF RunType, RunPcs
<1>4. Steady /\ SameCopies /\ run'.kept = run.kept /\ run'.landed = run.landed /\ run'.pc = "stale"
    BY <1>1, <1>2, <1>3 DEF RunType, Steady, SameCopies
<1>. QED  BY <1>1, <1>4 DEF SupersedeSets

\* Threads are closed, all those of gone.
LEMMA ThreadsClosed ==
    ASSUME threads \in Seq(ThreadType), NEW gone,
           threads' = [i \in DOMAIN threads |-> [threads[i] EXCEPT !.open = @ /\ i \notin gone]]
    PROVE  /\ SameThreads /\ SameView
           /\ \A j \in DOMAIN threads :
                  threads'[j].open <=> threads[j].open /\ j \notin gone
<1>1. ASSUME NEW j \in DOMAIN threads
      PROVE  /\ threads'[j] \in ThreadType /\ threads'[j].finding = threads[j].finding
             /\ threads'[j].review = threads[j].review
             /\ threads'[j].outdated = threads[j].outdated
             /\ threads'[j].open <=> threads[j].open /\ j \notin gone
    <2>. DEFINE open == threads[j].open /\ j \notin gone
    <2>1. open \in BOOLEAN /\ threads[j] \in ThreadType  OBVIOUS
    <2>2. threads'[j] = [threads[j] EXCEPT !.open = open]  OBVIOUS
    <2>3. open <=> threads[j].open /\ j \notin gone  OBVIOUS
    <2>. HIDE DEF open
    <2>4. /\ threads'[j] \in ThreadType /\ threads'[j].finding = threads[j].finding
          /\ threads'[j].review = threads[j].review
          /\ threads'[j].outdated = threads[j].outdated /\ threads'[j].open = open
        BY <2>1, <2>2 DEF ThreadType
    <2>. QED  BY <2>3, <2>4
<1>2. DOMAIN threads = 1..Len(threads) /\ Len(threads) \in Nat  OBVIOUS
<1>3. threads' \in Seq(ThreadType) /\ Len(threads') = Len(threads)
    <2>1. threads' = [j \in 1..Len(threads) |-> threads'[j]]  BY <1>2
    <2>2. \A j \in 1..Len(threads) : threads'[j] \in ThreadType  BY <1>1, <1>2
    <2>3. threads' \in [1..Len(threads) -> ThreadType]  BY <2>1, <2>2
    <2>. QED  BY <1>2, <2>3
<1>. QED  BY <1>1, <1>3 DEF SameThreads, SameView

ResolveStaleSets ==
    /\ run.pc = "stale" /\ run'.pc = "dismiss" /\ Steady
    /\ run'.kept = run.kept /\ run'.landed = run.landed /\ run'.complete = run.complete
    /\ run'.todo = run.todo /\ run'.threads \in Partial(threads) /\ reviews' = reviews
    /\ SameThreads /\ SameView
    /\ \A j \in DOMAIN threads :
           /\ threads'[j].open => threads[j].open
           /\ threads[j].open /\ j \in run.kept => threads'[j].open
           /\ run'.clean /\ threads'[j].open => j \in run.kept

LEMMA ResolveStaleEffect == ASSUME ReviewsTypeOK, ResolveStale PROVE ResolveStaleSets
<1>1. PICK got \in Partial(threads) : \E failed \in SUBSET Stale(got), ok \in BOOLEAN :
        /\ ok => got = threads /\ failed = {}
        /\ threads' = [i \in DOMAIN threads |->
                          [threads[i] EXCEPT !.open = @ /\ i \notin Stale(got) \ failed]]
        /\ StepIf(ok, [run EXCEPT !.pc = "dismiss", !.threads = got])
    BY Zenon DEF ResolveStale
<1>2. PICK failed \in SUBSET Stale(got), ok \in BOOLEAN :
        /\ ok => got = threads /\ failed = {}
        /\ threads' = [i \in DOMAIN threads |->
                          [threads[i] EXCEPT !.open = @ /\ i \notin Stale(got) \ failed]]
        /\ StepIf(ok, [run EXCEPT !.pc = "dismiss", !.threads = got])
    BY <1>1, Zenon
<1>3. /\ run \in RunType /\ run.pc = "stale" /\ UNCHANGED <<reviews, runs>>
      /\ threads \in Seq(ThreadType) /\ got \in Seq(ThreadType)
    BY PartialFits DEF ReviewsTypeOK, ResolveStale
<1>4. \/ ok /\ run' = [run EXCEPT !.pc = "dismiss", !.threads = got]
      \/ ~ok /\ run' = [run EXCEPT !.pc = "dismiss", !.threads = got, !.clean = FALSE]
    BY <1>2 DEF StepIf, Step, FailStep
<1>5. run' \in RunType
    <2>1. CASE run' = [run EXCEPT !.pc = "dismiss", !.threads = got]
        BY <1>3, <2>1 DEF RunType, RunPcs
    <2>2. CASE run' = [run EXCEPT !.pc = "dismiss", !.threads = got, !.clean = FALSE]
        BY <1>3, <2>2 DEF RunType, RunPcs
    <2>. QED  BY <1>4, <2>1, <2>2
<1>6. /\ Steady /\ run'.pc = "dismiss" /\ run'.kept = run.kept /\ run'.landed = run.landed
      /\ run'.complete = run.complete /\ run'.todo = run.todo /\ run'.threads = got
      /\ run'.clean => ok
    BY <1>3, <1>4, <1>5 DEF RunType, Steady
<1>. DEFINE gone == Stale(got) \ failed
<1>7. threads' = [i \in DOMAIN threads |-> [threads[i] EXCEPT !.open = @ /\ i \notin gone]]
    BY <1>2, Zenon
<1>8. /\ \A i \in run.kept : i \notin gone
      /\ ok => \A i \in DOMAIN threads : threads[i].open /\ i \notin run.kept => i \in gone
    BY <1>2 DEF Stale
<1>. HIDE DEF gone
<1>9. /\ SameThreads /\ SameView
      /\ \A j \in DOMAIN threads : threads'[j].open <=> threads[j].open /\ j \notin gone
    BY <1>3, <1>7, ThreadsClosed
<1>. QED  BY <1>1, <1>3, <1>6, <1>8, <1>9 DEF ResolveStaleSets

\* The reviews stay the same but for the states of those of ids.
ReviewsDismissed(revs, ids) ==
    /\ revs \in Seq(ReviewType) /\ Len(revs) = Len(reviews)
    /\ \A j \in DOMAIN reviews :
           /\ revs[j].body = reviews[j].body
           /\ revs[j].state = IF j \in ids /\ reviews[j].state = "CHANGES_REQUESTED"
                                THEN "DISMISSED" ELSE reviews[j].state

LEMMA DismissedFits ==
    ASSUME reviews \in Seq(ReviewType), NEW ids
    PROVE  ReviewsDismissed(Dismissed(ids), ids)
<1>. DEFINE revs == Dismissed(ids)
<1>1. DOMAIN reviews = 1..Len(reviews) /\ Len(reviews) \in Nat  OBVIOUS
<1>2. revs = [j \in 1..Len(reviews) |-> revs[j]]  BY <1>1 DEF Dismissed
<1>3. ASSUME NEW j \in DOMAIN reviews
      PROVE  /\ revs[j] \in ReviewType /\ revs[j].body = reviews[j].body
             /\ revs[j].state = IF j \in ids /\ reviews[j].state = "CHANGES_REQUESTED"
                                  THEN "DISMISSED" ELSE reviews[j].state
    <2>1. reviews[j] \in ReviewType  OBVIOUS
    <2>2. revs[j] = IF j \in ids /\ reviews[j].state = "CHANGES_REQUESTED"
                      THEN [reviews[j] EXCEPT !.state = "DISMISSED"] ELSE reviews[j]
        BY DEF Dismissed
    <2>. HIDE DEF revs
    <2>. QED  BY <2>1, <2>2 DEF ReviewType
<1>. HIDE DEF revs
<1>4. \A j \in 1..Len(reviews) : revs[j] \in ReviewType  BY <1>1, <1>3
<1>5. revs \in [1..Len(reviews) -> ReviewType]  BY <1>2, <1>4
<1>6. revs \in Seq(ReviewType) /\ Len(revs) = Len(reviews)  BY <1>1, <1>5
<1>7. ReviewsDismissed(revs, ids)  BY <1>3, <1>6 DEF ReviewsDismissed
<1>. QED  BY <1>7 DEF revs

DismissStaleSets ==
    /\ run.pc = "dismiss" /\ run'.pc = "idle" /\ Steady /\ run'.landed = run.landed
    /\ run'.todo = run.todo /\ run'.threads \in {run.threads, <<>>} /\ threads' = threads
    /\ reviews' = reviews \/ \E ids : run.landed \notin ids /\ reviews' = Dismissed(ids)

LEMMA OverFits ==
    ASSUME run \in RunType
    PROVE  Over \in RunType /\ [Over EXCEPT !.clean = FALSE] \in RunType
<1>1. ASSUME NEW ths \in Seq(ThreadType), NEW kept \in SUBSET Nat, NEW r,
             r = [run EXCEPT !.pc = "idle", !.threads = ths, !.kept = kept]
      PROVE  r \in RunType /\ [r EXCEPT !.clean = FALSE] \in RunType
    <2>1. r \in RunType  BY <1>1 DEF RunType, RunPcs
    <2>. QED  BY <2>1 DEF RunType
<1>2. <<>> \in Seq(ThreadType) /\ {} \in SUBSET Nat  OBVIOUS
<1>. QED  BY <1>1, <1>2, Zenon DEF Over

LEMMA DismissStaleEffect == ASSUME ReviewsTypeOK, DismissStale PROVE DismissStaleSets
<1>1. /\ run \in RunType /\ run.pc = "dismiss" /\ UNCHANGED <<threads, runs>>
    BY DEF ReviewsTypeOK, DismissStale
<1>2. \/ reviews' = reviews /\ run' = [run EXCEPT !.pc = "idle"]
      \/ /\ \E ids : run.landed \notin ids /\ reviews' = Dismissed(ids)
         /\ \/ run' = Over \/ run' = [Over EXCEPT !.clean = FALSE]
    <2>1. CASE run.landed = 0 /\ Step([run EXCEPT !.pc = "idle"]) /\ reviews' = reviews
        BY <2>1 DEF Step
    <2>2. CASE \E got \in BotReviews :
             \E failed \in SUBSET StaleReviews(got), ok \in BOOLEAN :
                /\ ok => got = reviews /\ failed = {}
                /\ reviews' = Dismissed(StaleReviews(got) \ failed)
                /\ StepIf(ok, Over)
        <3>1. PICK got \in BotReviews :
             \E failed \in SUBSET StaleReviews(got), ok \in BOOLEAN :
                /\ ok => got = reviews /\ failed = {}
                /\ reviews' = Dismissed(StaleReviews(got) \ failed)
                /\ StepIf(ok, Over)
            BY <2>2, Zenon
        <3>2. PICK failed \in SUBSET StaleReviews(got), ok \in BOOLEAN :
                /\ reviews' = Dismissed(StaleReviews(got) \ failed)
                /\ StepIf(ok, Over)
            BY <3>1, Zenon
        <3>3. run.landed \notin StaleReviews(got) \ failed  BY DEF StaleReviews
        <3>4. run' = Over \/ run' = [Over EXCEPT !.clean = FALSE]
            BY <3>2 DEF StepIf, Step, FailStep
        <3>. QED  BY <3>2, <3>3, <3>4, Zenon
    <2>. QED  BY <2>1, <2>2, Zenon DEF DismissStale
<1>3. run' \in RunType
    <2>1. CASE run' = [run EXCEPT !.pc = "idle"]  BY <1>1, <2>1 DEF RunType, RunPcs
    <2>2. CASE run' = Over  BY <1>1, <2>2, OverFits
    <2>3. CASE run' = [Over EXCEPT !.clean = FALSE]  BY <1>1, <2>3, OverFits
    <2>. QED  BY <1>2, <2>1, <2>2, <2>3
<1>4. /\ run'.pc = "idle" /\ Steady /\ run'.landed = run.landed /\ run'.todo = run.todo
      /\ run'.threads \in {run.threads, <<>>}
    <2>1. CASE run' = [run EXCEPT !.pc = "idle"]  BY <1>1, <1>3, <2>1 DEF RunType, Steady
    <2>2. CASE run' = Over  BY <1>1, <1>3, <2>2 DEF Over, RunType, Steady
    <2>3. CASE run' = [Over EXCEPT !.clean = FALSE]
        BY <1>1, <1>3, <2>3 DEF Over, RunType, Steady
    <2>. QED  BY <1>2, <2>1, <2>2, <2>3
<1>5. reviews' = reviews \/ \E ids : run.landed \notin ids /\ reviews' = Dismissed(ids)
    BY <1>2, Zenon
<1>. QED  BY <1>1, <1>4, <1>5 DEF DismissStaleSets

CommentsFirstSets ==
    /\ Posting /\ RenderEvent = "APPROVE" /\ run'.pc = "approve"
    /\ Steady /\ SameCopies /\ run'.landed = run.landed
    /\ \/ /\ \E n : ReviewsPosted(n, "COMMENT")
          /\ ThreadsPosted(Comments) /\ run'.kept \in {run.kept, Registered}
          /\ run'.clean => run'.kept = Registered
       \/ UNCHANGED <<reviews, threads>> /\ run'.kept = run.kept /\ ~run'.clean

LEMMA RenderEventFits ==
    ASSUME ReviewsTypeOK
    PROVE  /\ RenderEvent \in EventNames /\ Comments \in SUBSET Findings
           /\ Comments \subseteq Rendered
           /\ RenderEvent = "APPROVE" => run.event = "APPROVE" /\ ~HoldsApproval
           /\ run.event = "REQUEST_CHANGES" => RenderEvent = "REQUEST_CHANGES"
BY RenderedFits DEF RenderEvent, EventNames, Comments, HoldsApproval, ReviewsTypeOK, RunType

LEMMA CommentsFirstEffect == ASSUME ReviewsTypeOK, PostCommentsFirst PROVE CommentsFirstSets
<1>. DEFINE r == [run EXCEPT !.pc = "approve"]
<1>1. /\ run \in RunType /\ Posting /\ RenderEvent = "APPROVE" /\ runs' = runs
      /\ Comments \in SUBSET Findings
    BY RenderEventFits DEF ReviewsTypeOK, PostCommentsFirst
<1>2. /\ r \in RunType /\ r.pc = "approve" /\ r.found = run.found /\ r.event = run.event
      /\ r.moved = run.moved /\ r.reviews = run.reviews /\ r.threads = run.threads
      /\ r.complete = run.complete /\ r.todo = run.todo /\ r.landed = run.landed
      /\ r.alone = run.alone /\ r.clean = run.clean /\ r.kept = run.kept
    BY <1>1 DEF RunType, RunPcs
<1>3. \/ Post("COMMENT", Comments, TRUE, r)
      \/ FailStep(r) /\ UNCHANGED <<reviews, threads>>
    BY DEF PostCommentsFirst
<1>. HIDE DEF r
<1>4. CASE Post("COMMENT", Comments, TRUE, r)
    <2>1. "COMMENT" \in EventNames /\ TRUE \in BOOLEAN  BY DEF EventNames
    <2>2. /\ \E n : ReviewsPosted(n, "COMMENT")
          /\ ThreadsPosted(Comments) /\ RunPosted(r, TRUE)
        BY <1>1, <1>2, <1>4, <2>1, PostEffect
    <2>. QED  BY <1>1, <1>2, <2>2 DEF RunPosted, CommentsFirstSets, Steady, SameCopies
<1>5. CASE FailStep(r) /\ UNCHANGED <<reviews, threads>>
    <2>1. run' = [r EXCEPT !.clean = FALSE]  BY <1>5 DEF FailStep
    <2>2. run' \in RunType  BY <1>2, <2>1 DEF RunType
    <2>. QED  BY <1>1, <1>2, <1>5, <2>1, <2>2 DEF RunType, CommentsFirstSets, Steady, SameCopies
<1>. QED  BY <1>3, <1>4, <1>5

LEMMA PostAppends ==
    ASSUME ReviewsTypeOK, NEW event \in EventNames, NEW comments, NEW ok, NEW r,
           Post(event, comments, ok, r)
    PROVE  Len(reviews') \in Nat
<1>1. PICK n \in Copies :
          LET next == Len(reviews) + 1
          IN /\ reviews' = reviews \o [i \in 1..n |-> [state |-> StateOf(event),
                                                       body |-> RenderedBody]]
             /\ threads' = threads \o NewThreads(comments, next)
                                   \o IF n = 2 THEN NewThreads(comments, next + 1) ELSE <<>>
             /\ \/ n = 1 /\ StepIf(ok, [r EXCEPT !.kept = Registered])
                \/ n = 2 /\ ok /\ faults' = faults + 2 /\ run' = [r EXCEPT !.kept = Registered]
                \/ n = 1 /\ comments # {} /\ FailStep(r)
    BY Zenon DEF Post
<1>2. reviews' = reviews \o [i \in 1..n |-> [state |-> StateOf(event), body |-> RenderedBody]]
    BY <1>1, Zenon
<1>3. n \in 1..2  BY DEF Copies
<1>4. ReviewsPosted(n, event)  BY <1>2, <1>3, ReviewsArePosted
<1>. QED  BY <1>4 DEF ReviewsPosted

\* The threads that come with the run's review, if it is no approval.
PostedComments == IF RenderEvent = "APPROVE" THEN {} ELSE Comments

ReviewIsPosted(event) ==
    /\ event \in {RenderEvent, "COMMENT"} /\ \E n : ReviewsPosted(n, event)
    /\ ThreadsPosted(PostedComments) /\ run'.kept \in {run.kept, Registered}
    /\ run'.pc \in {"supersede", "stale"} /\ (run'.pc = "supersede" => Supersedes)
    /\ run'.landed = Len(reviews') /\ run'.threads = run.threads
    /\ run'.clean => run'.kept = Registered /\ event = RenderEvent

PostReviewSets ==
    /\ \/ run.pc = "approve"
       \/ Posting /\ ~(RenderEvent = "APPROVE" /\ Comments # {})
    /\ Steady /\ run'.todo = run.todo
    /\ \/ \E event : ReviewIsPosted(event)
       \/ /\ run'.pc = "stale" /\ run'.kept = run.kept /\ run'.threads = run.threads
          /\ ~run'.clean /\ UNCHANGED <<reviews, threads>>
       \/ /\ run'.pc = "idle" /\ run'.threads = <<>> /\ ~run'.clean
          /\ UNCHANGED <<reviews, threads>>

\* The run as it goes on once its review is posted, but for what it keeps.
PostGoesOn(r, pc) ==
    /\ r \in RunType /\ r.pc = pc /\ r.found = run.found /\ r.event = run.event
    /\ r.moved = run.moved /\ r.reviews = run.reviews /\ r.threads = run.threads
    /\ r.complete = run.complete /\ r.todo = run.todo /\ r.landed = Len(reviews')
    /\ r.alone = run.alone /\ r.clean = run.clean /\ r.kept = run.kept

LEMMA PostedFits ==
    ASSUME ReviewsTypeOK, NEW event \in {RenderEvent, "COMMENT"}, NEW ok \in BOOLEAN,
           ok => event = RenderEvent, runs' = runs,
           NEW pc \in {"supersede", "stale"}, pc = "supersede" => Supersedes,
           NEW r, r = [[run EXCEPT !.landed = Len(reviews')] EXCEPT !.pc = pc],
           Post(event, PostedComments, ok, r)
    PROVE  ReviewIsPosted(event) /\ Steady /\ run'.todo = run.todo
<1>1. event \in EventNames /\ PostedComments \in SUBSET Findings /\ run \in RunType
    BY RenderEventFits DEF EventNames, PostedComments, ReviewsTypeOK
<1>2. Len(reviews') \in Nat  BY <1>1, PostAppends
<1>3. PostGoesOn(r, pc)  BY <1>1, <1>2 DEF RunType, RunPcs, PostGoesOn
<1>4. r \in RunType /\ r.kept = run.kept  BY <1>3 DEF PostGoesOn
<1>5. /\ \E n : ReviewsPosted(n, event)
      /\ ThreadsPosted(PostedComments) /\ RunPosted(r, ok)
    BY <1>1, <1>4, PostEffect
<1>. QED  BY <1>3, <1>5 DEF PostGoesOn, RunPosted, ReviewIsPosted, Steady

LEMMA PostReviewEffect == ASSUME ReviewsTypeOK, PostReview PROVE PostReviewSets
<1>. DEFINE landed == [run EXCEPT !.landed = Len(reviews')]
            pc == IF Supersedes THEN "supersede" ELSE "stale"
            guard == \/ run.pc = "approve"
                     \/ Posting /\ ~(RenderEvent = "APPROVE" /\ Comments # {})
<1>1. /\ run \in RunType /\ guard /\ runs' = runs
      /\ \/ Post(RenderEvent, PostedComments, TRUE, [landed EXCEPT !.pc = pc])
         \/ Post("COMMENT", PostedComments, FALSE, [landed EXCEPT !.pc = "stale"])
         \/ FailStep([run EXCEPT !.pc = "stale"]) /\ UNCHANGED <<reviews, threads>>
         \/ FailStep(Over) /\ UNCHANGED <<reviews, threads>>
    BY DEF ReviewsTypeOK, PostReview, PostedComments
<1>2. pc \in {"supersede", "stale"} /\ (pc = "supersede" => Supersedes)  OBVIOUS
<1>. HIDE DEF pc, guard
<1>3. CASE Post(RenderEvent, PostedComments, TRUE, [landed EXCEPT !.pc = pc])
    <2>1. TRUE \in BOOLEAN /\ RenderEvent \in {RenderEvent, "COMMENT"}  OBVIOUS
    <2>2. ReviewIsPosted(RenderEvent) /\ Steady /\ run'.todo = run.todo
        BY <1>1, <1>2, <1>3, <2>1, PostedFits, Zenon
    <2>. QED  BY <1>1, <2>2 DEF PostReviewSets, guard
<1>4. CASE Post("COMMENT", PostedComments, FALSE, [landed EXCEPT !.pc = "stale"])
    <2>1. /\ FALSE \in BOOLEAN /\ "COMMENT" \in {RenderEvent, "COMMENT"}
          /\ "stale" \in {"supersede", "stale"} /\ "stale" # "supersede"
        OBVIOUS
    <2>2. ReviewIsPosted("COMMENT") /\ Steady /\ run'.todo = run.todo
        BY <1>1, <1>4, <2>1, PostedFits, Zenon
    <2>. QED  BY <1>1, <2>2 DEF PostReviewSets, guard
<1>5. CASE FailStep([run EXCEPT !.pc = "stale"]) /\ UNCHANGED <<reviews, threads>>
    <2>1. run' = [run EXCEPT !.pc = "stale", !.clean = FALSE]  BY <1>5 DEF FailStep
    <2>2. run' \in RunType  BY <1>1, <2>1 DEF RunType, RunPcs
    <2>. QED  BY <1>1, <1>5, <2>1, <2>2 DEF RunType, PostReviewSets, Steady, guard
<1>6. CASE FailStep(Over) /\ UNCHANGED <<reviews, threads>>
    <2>1. run' = [Over EXCEPT !.clean = FALSE]  BY <1>6 DEF FailStep
    <2>2. run' \in RunType  BY <1>1, <2>1, OverFits
    <2>3. /\ run'.pc = "idle" /\ run'.threads = <<>> /\ ~run'.clean /\ run'.todo = run.todo
          /\ Steady
        BY <1>1, <2>1, <2>2 DEF Over, RunType, Steady
    <2>. QED  BY <1>1, <1>6, <2>3 DEF PostReviewSets, guard
<1>. QED  BY <1>1, <1>3, <1>4, <1>5, <1>6

-----------------------------------------------------------------------------
(* What starts a run, and what others do to it *)

StartRunSets ==
    /\ run' \in RunType /\ run'.pc = "reviews" /\ run'.reviews = <<>> /\ run'.threads = <<>>
    /\ run'.todo = {} /\ (run'.event = "APPROVE" => run'.found \cap Severe = {})
    /\ runs' = runs + 1 /\ UNCHANGED <<reviews, threads>>

LEMMA StartRunEffect == ASSUME ReviewsTypeOK, StartRun PROVE StartRunSets
<1>. DEFINE blocked == Blocked
<1>1. PICK found \in SUBSET Findings : \E event \in Events(found) :
        run' = [Fresh EXCEPT !.pc = "reviews", !.found = found, !.event = event,
                             !.wasBlocked = blocked]
    BY Zenon DEF StartRun
<1>2. PICK event \in Events(found) :
        run' = [Fresh EXCEPT !.pc = "reviews", !.found = found, !.event = event,
                             !.wasBlocked = blocked]
    BY <1>1
<1>3. event \in EventNames /\ (event = "APPROVE" => found \cap Severe = {})
    BY DEF Events, EventNames
<1>4. blocked \in BOOLEAN  BY DEF Blocked
<1>. HIDE DEF blocked
<1>5. run' \in RunType  BY <1>2, <1>3, <1>4, FreshFits DEF RunType, RunPcs
<1>6. /\ run'.pc = "reviews" /\ run'.found = found /\ run'.event = event
      /\ run'.reviews = <<>> /\ run'.threads = <<>> /\ run'.todo = {}
    BY <1>2, <1>5 DEF Fresh
<1>7. runs' = runs + 1 /\ UNCHANGED <<reviews, threads>>  BY DEF StartRun
<1>. QED  BY <1>3, <1>5, <1>6, <1>7 DEF StartRunSets

\* A step of somebody else does not touch what the run does.
SameRun ==
    /\ run' \in RunType /\ runs' = runs
    /\ run'.pc = run.pc /\ run'.found = run.found /\ run'.event = run.event
    /\ run'.reviews = run.reviews /\ run'.threads = run.threads
    /\ run'.complete = run.complete /\ run'.kept = run.kept /\ run'.todo = run.todo
    /\ run'.landed = run.landed /\ run'.clean = run.clean

PushSets ==
    /\ SameRun /\ run'.moved /\ run'.alone = run.alone /\ reviews' = reviews /\ SameThreads
    /\ \A j \in DOMAIN threads : threads'[j].open = threads[j].open

LEMMA PushEffect == ASSUME ReviewsTypeOK, Push PROVE PushSets
<1>1. PICK old : threads' = [i \in DOMAIN threads |->
                                [threads[i] EXCEPT !.outdated = @ \/ i \in old]]
    BY DEF Push
<1>2. run \in RunType /\ threads \in Seq(ThreadType)  BY DEF ReviewsTypeOK
<1>3. ASSUME NEW j \in DOMAIN threads
      PROVE  /\ threads'[j] \in ThreadType /\ threads'[j].finding = threads[j].finding
             /\ threads'[j].review = threads[j].review /\ threads'[j].open = threads[j].open
    <2>. DEFINE outdated == threads[j].outdated \/ j \in old
    <2>1. outdated \in BOOLEAN /\ threads[j] \in ThreadType  BY <1>2
    <2>2. threads'[j] = [threads[j] EXCEPT !.outdated = outdated]  BY <1>1
    <2>. HIDE DEF outdated
    <2>. QED  BY <2>1, <2>2 DEF ThreadType
<1>4. DOMAIN threads = 1..Len(threads) /\ Len(threads) \in Nat  BY <1>2
<1>5. threads' \in Seq(ThreadType) /\ Len(threads') = Len(threads)
    <2>1. threads' = [j \in 1..Len(threads) |-> threads'[j]]  BY <1>1, <1>4
    <2>2. \A j \in 1..Len(threads) : threads'[j] \in ThreadType  BY <1>3, <1>4
    <2>3. threads' \in [1..Len(threads) -> ThreadType]  BY <2>1, <2>2
    <2>. QED  BY <1>4, <2>3
<1>6. run' = [run EXCEPT !.moved = TRUE] /\ UNCHANGED <<reviews, runs>>  BY DEF Push
<1>7. run' \in RunType  BY <1>2, <1>6 DEF RunType
<1>8. SameRun /\ run'.moved /\ run'.alone = run.alone
    BY <1>2, <1>6, <1>7 DEF RunType, SameRun
<1>. QED  BY <1>3, <1>5, <1>6, <1>8 DEF PushSets, SameThreads

ResolvedByOther ==
    /\ SameRun /\ ~run'.alone /\ SameThreads
    /\ \A j \in DOMAIN threads : threads'[j].open => threads[j].open

LEMMA NotAlone ==
    ASSUME run \in RunType, run' = [run EXCEPT !.alone = FALSE], runs' = runs
    PROVE  SameRun /\ ~run'.alone
<1>1. run' \in RunType  BY DEF RunType
<1>. QED  BY <1>1 DEF RunType, SameRun

LEMMA Closed ==
    ASSUME NEW ths \in Seq(ThreadType), NEW i \in DOMAIN ths
    PROVE  LET next == [ths EXCEPT ![i].open = FALSE]
           IN  /\ next \in Seq(ThreadType) /\ Len(next) = Len(ths)
               /\ DOMAIN next = DOMAIN ths
               /\ \A j \in DOMAIN ths :
                      /\ next[j].finding = ths[j].finding /\ next[j].review = ths[j].review
                      /\ next[j].outdated = ths[j].outdated
                      /\ next[j].open <=> ths[j].open /\ j # i
<1>. DEFINE th == [ths[i] EXCEPT !.open = FALSE]
            next == [ths EXCEPT ![i].open = FALSE]
<1>1. ths[i] \in ThreadType  OBVIOUS
<1>2. next = [ths EXCEPT ![i] = th]  OBVIOUS
<1>3. /\ th \in ThreadType /\ th.finding = ths[i].finding /\ th.review = ths[i].review
      /\ th.outdated = ths[i].outdated /\ (th.open <=> FALSE)
    BY <1>1 DEF ThreadType
<1>. HIDE DEF th, next
<1>4. next \in Seq(ThreadType) /\ Len(next) = Len(ths) /\ DOMAIN next = DOMAIN ths
    BY <1>2, <1>3
<1>5. \A j \in DOMAIN ths : next[j] = IF j = i THEN th ELSE ths[j]  BY <1>2
<1>6. /\ next \in Seq(ThreadType) /\ Len(next) = Len(ths) /\ DOMAIN next = DOMAIN ths
      /\ \A j \in DOMAIN ths :
             /\ next[j].finding = ths[j].finding /\ next[j].review = ths[j].review
             /\ next[j].outdated = ths[j].outdated
             /\ next[j].open <=> ths[j].open /\ j # i
    BY <1>3, <1>4, <1>5
<1>. QED  BY <1>6 DEF next

LEMMA OneClosed ==
    ASSUME threads \in Seq(ThreadType), NEW i, threads' = [threads EXCEPT ![i].open = FALSE]
    PROVE  /\ SameThreads
           /\ \A j \in DOMAIN threads : threads'[j].open <=> threads[j].open /\ j # i
<1>1. CASE i \in DOMAIN threads  BY <1>1, Closed DEF SameThreads
<1>2. CASE i \notin DOMAIN threads
    <2>1. threads' = threads  BY <1>2
    <2>. QED  BY <1>2, <2>1 DEF SameThreads
<1>. QED  BY <1>1, <1>2

LEMMA HumanResolveEffect ==
    ASSUME ReviewsTypeOK, NEW i \in DOMAIN threads, HumanResolve(i)
    PROVE  ResolvedByOther /\ reviews' = reviews
<1>1. /\ threads' = [threads EXCEPT ![i].open = FALSE] /\ UNCHANGED <<reviews, runs>>
      /\ run' = [run EXCEPT !.alone = FALSE]
    BY DEF HumanResolve
<1>2. SameRun /\ ~run'.alone  BY <1>1, NotAlone DEF ReviewsTypeOK
<1>3. SameThreads /\ \A j \in DOMAIN threads : threads'[j].open => threads[j].open
    BY <1>1, OneClosed DEF ReviewsTypeOK
<1>. QED  BY <1>1, <1>2, <1>3 DEF ResolvedByOther

\* The body of one review is written; nothing happens if there is none.
BodySet(next, revs, i, body) ==
    /\ next \in Seq(ReviewType) /\ Len(next) = Len(revs)
    /\ \A j \in DOMAIN revs :
           /\ next[j].state = revs[j].state
           /\ next[j].body = IF j = i THEN body ELSE revs[j].body

WithBody(revs, i, body) == [revs EXCEPT ![i].body = body]

LEMMA RewrittenFits ==
    ASSUME NEW revs \in Seq(ReviewType), NEW i, NEW body, i \in DOMAIN revs => body \in BodyType
    PROVE  BodySet(WithBody(revs, i, body), revs, i, body)
<1>. DEFINE next == WithBody(revs, i, body)
<1>0. next = [revs EXCEPT ![i].body = body]  BY DEF WithBody
<1>. HIDE DEF next
<1>1. ASSUME i \in DOMAIN revs PROVE BodySet(next, revs, i, body)
    <2>. DEFINE rev == [revs[i] EXCEPT !.body = body]
    <2>1. revs[i] \in ReviewType  BY <1>1
    <2>2. next = [revs EXCEPT ![i] = rev]  BY <1>0, <1>1
    <2>3. rev \in ReviewType /\ rev.state = revs[i].state /\ rev.body = body
        BY <1>1, <2>1 DEF ReviewType
    <2>. HIDE DEF rev
    <2>4. next \in Seq(ReviewType) /\ Len(next) = Len(revs)  BY <1>1, <2>2, <2>3
    <2>5. \A j \in DOMAIN revs : next[j] = IF j = i THEN rev ELSE revs[j]  BY <2>2
    <2>. QED  BY <2>3, <2>4, <2>5 DEF BodySet
<1>2. ASSUME i \notin DOMAIN revs PROVE BodySet(next, revs, i, body)
    <2>1. next = revs  BY <1>0, <1>2
    <2>. QED  BY <1>2, <2>1 DEF BodySet
<1>. QED  BY <1>1, <1>2 DEF next

\* The body that a command writes back: the one that it has read, but for the verdicts.
VerdictAdded(body, old, revs, f, mark) ==
    /\ body \in BodyType /\ body.kind = old.kind /\ body.ids = old.ids
    /\ body.bullets = old.bullets
    /\ body.verdict = [MergeVerdicts(revs) EXCEPT ![f] = mark]

LEMMA RecordedFits ==
    ASSUME NEW revs \in Seq(ReviewType), SelectCanonical(revs) # 0,
           NEW f \in Findings, NEW mark \in {"dismissed", "fixed"}
    PROVE  VerdictAdded(Recorded(revs, f, mark), revs[SelectCanonical(revs)].body, revs, f, mark)
<1>. DEFINE old == revs[SelectCanonical(revs)].body
            verdict == [MergeVerdicts(revs) EXCEPT ![f] = mark]
<1>1. old \in BodyType
    <2>1. SelectCanonical(revs) \in DOMAIN revs  BY SelectCanonicalFits
    <2>2. revs[SelectCanonical(revs)] \in ReviewType  BY <2>1
    <2>. QED  BY <2>2 DEF ReviewType
<1>2. verdict \in [Findings -> Marks]  BY MergeVerdictsFits DEF Marks
<1>3. Recorded(revs, f, mark) = [old EXCEPT !.verdict = verdict]  BY DEF Recorded
<1>. HIDE DEF old, verdict
<1>4. /\ Recorded(revs, f, mark) \in BodyType
      /\ Recorded(revs, f, mark).kind = old.kind /\ Recorded(revs, f, mark).ids = old.ids
      /\ Recorded(revs, f, mark).bullets = old.bullets
      /\ Recorded(revs, f, mark).verdict = verdict
    BY <1>1, <1>2, <1>3 DEF BodyType
<1>. QED  BY <1>4 DEF VerdictAdded, old, verdict

CommandSets(f, mark) ==
    /\ run.pc = "idle" /\ ResolvedByOther
    /\ reviews' \in Seq(ReviewType) /\ Len(reviews') = Len(reviews)
    /\ \A j \in DOMAIN reviews :
           \/ reviews'[j].body = reviews[j].body
           \/ VerdictAdded(reviews'[j].body, reviews[j].body, reviews, f, mark)
    /\ f \in Inline => CarriedBy(threads, f) # {}

LEMMA CommandEffect ==
    ASSUME ReviewsTypeOK, NEW f \in Known(reviews), NEW mark \in {"dismissed", "fixed"},
           Command(f, mark)
    PROVE  CommandSets(f, mark)
<1>. DEFINE listed   == f \in reviews[Shows(reviews, f)].body.bullets
            resolved == IF listed THEN {} ELSE ThreadOf(threads, f)
            left     == [i \in DOMAIN threads |->
                            [threads[i] EXCEPT !.open = @ /\ i \notin resolved]]
            cleared  == {threads[i].review : i \in {j \in resolved :
                                                  OpenIn(left, threads[j].review) = {}}}
            canon    == SelectCanonical(reviews)
            revs     == Dismissed(cleared)
            body     == Recorded(reviews, f, mark)
<1>1. /\ run.pc = "idle" /\ (listed \/ resolved # {}) /\ threads' = left
      /\ reviews' = [revs EXCEPT ![canon].body = body]
      /\ run' = [run EXCEPT !.alone = FALSE] /\ runs' = runs
    BY Zenon DEF Command
<1>2. /\ reviews \in Seq(ReviewType) /\ threads \in Seq(ThreadType) /\ run \in RunType
      /\ \A i \in DOMAIN reviews : reviews[i].body \in BodyType
    <2>1. reviews \in Seq(ReviewType)  BY DEF ReviewsTypeOK
    <2>2. \A i \in DOMAIN reviews : reviews[i] \in ReviewType  BY <2>1
    <2>. QED  BY <2>1, <2>2 DEF ReviewsTypeOK, ReviewType
<1>3. SameRun /\ ~run'.alone  BY <1>1, <1>2, NotAlone
<1>4. SameThreads /\ \A j \in DOMAIN threads : threads'[j].open => threads[j].open
    <2>1. threads' = [i \in DOMAIN threads |->
                            [threads[i] EXCEPT !.open = @ /\ i \notin resolved]]
        BY <1>1
    <2>. HIDE DEF resolved
    <2>. QED  BY <1>2, <2>1, ThreadsClosed
<1>5. /\ f \in Findings /\ Shows(reviews, f) \in DOMAIN reviews
    <2>. DEFINE S == {0} \cup {i \in DOMAIN reviews : f \in reviews[i].body.ids}
    <2>1. PICK i \in DOMAIN reviews : f \in reviews[i].body.ids  BY DEF Known
    <2>2. Len(reviews) \in Nat /\ S \in SUBSET (0..Len(reviews)) /\ i \in S /\ i > 0
        BY <1>2, <2>1
    <2>3. Shows(reviews, f) = Max(S)  BY DEF Shows
    <2>4. Max(S) \in S /\ Max(S) # 0
        <3>. HIDE DEF S
        <3>1. Max(S) \in S /\ Max(S) >= i  BY <2>2, MaxIsGreatest
        <3>. QED  BY <2>2, <3>1
    <2>5. f \in Findings  BY <1>2, <2>1 DEF BodyType
    <2>. QED  BY <2>3, <2>4, <2>5
<1>6. f \in Inline => CarriedBy(threads, f) # {}
    <2>1. reviews[Shows(reviews, f)].body.bullets \subseteq Findings \ Inline
        BY <1>2, <1>5 DEF BodyType
    <2>2. f \in Inline => ThreadOf(threads, f) # {}  BY <1>1, <2>1
    <2>3. OpenOf(threads, f) \subseteq CarriedBy(threads, f)  BY DEF OpenOf, CarriedBy
    <2>. QED  BY <2>2, <2>3 DEF ThreadOf
<1>. HIDE DEF cleared
<1>7. ReviewsDismissed(revs, cleared)  BY <1>2, DismissedFits
<1>8. canon \in DOMAIN revs => VerdictAdded(body, reviews[canon].body, reviews, f, mark)
    <2>1. canon \in DOMAIN revs => canon # 0  BY <1>7 DEF ReviewsDismissed
    <2>. QED  BY <1>2, <1>5, <2>1, RecordedFits
<1>. HIDE DEF revs, canon, body
<1>9. /\ reviews' \in Seq(ReviewType) /\ Len(reviews') = Len(revs)
      /\ \A j \in DOMAIN revs :
             reviews'[j].body = IF j = canon THEN body ELSE revs[j].body
    <2>1. reviews' = [revs EXCEPT ![canon].body = body]  BY <1>1
    <2>2. revs \in Seq(ReviewType)  BY <1>7 DEF ReviewsDismissed
    <2>3. canon \in DOMAIN revs => body \in BodyType  BY <1>8 DEF VerdictAdded
    <2>4. reviews' = WithBody(revs, canon, body)  BY <2>1 DEF WithBody
    <2>5. BodySet(reviews', revs, canon, body)  BY <2>2, <2>3, <2>4, RewrittenFits
    <2>. QED  BY <2>5 DEF BodySet
<1>10. Len(revs) = Len(reviews) /\ DOMAIN revs = DOMAIN reviews
    BY <1>2, <1>7 DEF ReviewsDismissed
<1>11. \A j \in DOMAIN reviews :
           \/ reviews'[j].body = reviews[j].body
           \/ VerdictAdded(reviews'[j].body, reviews[j].body, reviews, f, mark)
    BY <1>7, <1>8, <1>9, <1>10 DEF ReviewsDismissed
<1>. QED  BY <1>1, <1>3, <1>4, <1>6, <1>9, <1>10, <1>11 DEF CommandSets, ResolvedByOther

\* What a step of the runs, of the author or of another person does.
RunsEffects ==
    \/ StartRunSets \/ PushSets \/ (ResolvedByOther /\ reviews' = reviews)
    \/ ReadReviewsSets \/ ReadThreadsSets \/ (\E f, i, reopened : ReopenSets(f, i, reopened))
    \/ RecheckSets \/ PutSets \/ CommentsFirstSets \/ PostReviewSets \/ SupersedeSets
    \/ ResolveStaleSets \/ DismissStaleSets

LEMMA RunsNextEffect == ASSUME ReviewsTypeOK, CopiesFit, RunsNext PROVE RunsEffects
<1>1. CASE StartRun  BY <1>1, StartRunEffect DEF RunsEffects
<1>2. CASE Push  BY <1>2, PushEffect DEF RunsEffects
<1>3. ASSUME NEW i \in DOMAIN threads, HumanResolve(i) PROVE RunsEffects
    BY <1>3, HumanResolveEffect DEF RunsEffects
<1>4. CASE ReadReviews  BY <1>4, ReadReviewsEffect DEF RunsEffects
<1>5. CASE ReadThreads  BY <1>5, ReadThreadsEffect DEF RunsEffects
<1>6. ASSUME NEW f \in Findings, Reopen(f) PROVE RunsEffects
    BY <1>6, ReopenEffect DEF RunsEffects
<1>7. CASE Recheck  BY <1>7, RecheckEffect DEF RunsEffects
<1>8. CASE Put  BY <1>8, PutEffect DEF RunsEffects
<1>9. CASE PostCommentsFirst  BY <1>9, CommentsFirstEffect DEF RunsEffects
<1>10. CASE PostReview  BY <1>10, PostReviewEffect DEF RunsEffects
<1>11. CASE Supersede  BY <1>11, SupersedeEffect DEF RunsEffects
<1>12. CASE ResolveStale  BY <1>12, ResolveStaleEffect DEF RunsEffects
<1>13. CASE DismissStale  BY <1>13, DismissStaleEffect DEF RunsEffects
<1>. QED
    BY <1>1, <1>2, <1>3, <1>4, <1>5, <1>6, <1>7, <1>8, <1>9, <1>10, <1>11, <1>12, <1>13
    DEF RunsNext, RunStep

\* Reviews and threads are never removed, and a thread keeps its finding and review.
Grown ==
    /\ reviews' \in Seq(ReviewType) /\ Len(reviews) <= Len(reviews')
    /\ threads' \in Seq(ThreadType) /\ Len(threads) <= Len(threads')
    /\ \A j \in DOMAIN threads : /\ j \in DOMAIN threads'
                                 /\ threads'[j].finding = threads[j].finding
                                 /\ threads'[j].review = threads[j].review

LEMMA SameThreadsGrow ==
    ASSUME ReviewsTypeOK, SameThreads, reviews' \in Seq(ReviewType), Len(reviews) <= Len(reviews')
    PROVE  Grown
<1>1. threads \in Seq(ThreadType)  BY DEF ReviewsTypeOK
<1>2. Len(threads) <= Len(threads') /\ DOMAIN threads' = DOMAIN threads
    BY <1>1 DEF SameThreads
<1>. QED  BY <1>2 DEF SameThreads, Grown

LEMMA PostedGrow ==
    ASSUME ReviewsTypeOK, NEW event, NEW n, ReviewsPosted(n, event),
           NEW comments, ThreadsPosted(comments)
    PROVE  Grown
<1>1. threads \in Seq(ThreadType) /\ reviews \in Seq(ReviewType)  BY DEF ReviewsTypeOK
<1>2. Len(reviews) <= Len(reviews')  BY <1>1 DEF ReviewsPosted
<1>3. threads' \in Seq(ThreadType) /\ DOMAIN threads \subseteq DOMAIN threads'
    BY <1>1 DEF ThreadsPosted
<1>. QED  BY <1>2, <1>3 DEF Grown, ThreadsPosted, ReviewsPosted

LEMMA RunsGrow == ASSUME ReviewsTypeOK, RunsEffects PROVE Grown /\ run' \in RunType /\ runs' \in Nat
<1>1. /\ reviews \in Seq(ReviewType) /\ threads \in Seq(ThreadType)
      /\ run \in RunType /\ runs \in Nat
    BY DEF ReviewsTypeOK
<1>2. UNCHANGED threads => SameThreads  BY <1>1 DEF SameThreads
<1>3. UNCHANGED reviews => reviews' \in Seq(ReviewType) /\ Len(reviews) <= Len(reviews')
    BY <1>1
<1>4. UNCHANGED <<reviews, threads>> => Grown  BY <1>2, <1>3, SameThreadsGrow
<1>5. \A ids : reviews' = Dismissed(ids) => reviews' \in Seq(ReviewType) /\ Len(reviews) <= Len(reviews')
    BY <1>1, DismissedFits DEF ReviewsDismissed
<1>6. CASE StartRunSets  BY <1>1, <1>4, <1>6 DEF StartRunSets
<1>7. CASE PushSets  BY <1>1, <1>3, <1>7, SameThreadsGrow DEF PushSets, SameRun
<1>8. CASE ResolvedByOther /\ reviews' = reviews
    BY <1>1, <1>3, <1>8, SameThreadsGrow DEF ResolvedByOther, SameRun
<1>9. CASE ReadReviewsSets  BY <1>1, <1>4, <1>9 DEF ReadReviewsSets
<1>10. CASE ReadThreadsSets  BY <1>1, <1>4, <1>10 DEF ReadThreadsSets, Steady
<1>11. ASSUME NEW f, NEW i, NEW reopened, ReopenSets(f, i, reopened)
       PROVE  Grown /\ run' \in RunType /\ runs' \in Nat
    <2>1. reviews' \in Seq(ReviewType) /\ Len(reviews) <= Len(reviews')
        <3>1. CASE reviews' = reviews  BY <1>3, <3>1
        <3>2. CASE reviews' = Append(reviews, EmptyReview)
            BY <1>1, <3>2, EmptyFits
        <3>. QED  BY <1>11, <3>1, <3>2 DEF ReopenSets
    <2>. QED  BY <1>1, <1>11, <2>1, SameThreadsGrow DEF ReopenSets, Steady
<1>12. CASE RecheckSets  BY <1>1, <1>4, <1>12 DEF RecheckSets, Steady
<1>13. CASE PutSets
    <2>1. RenderedBody \in BodyType  BY RenderedFits
    <2>2. CASE reviews' = Rewritten(Canon, RenderedBody)
        <3>1. reviews' = WithBody(reviews, Canon, RenderedBody)
            BY <2>2 DEF Rewritten, WithBody
        <3>2. reviews' \in Seq(ReviewType) /\ Len(reviews') = Len(reviews)
            BY <1>1, <2>1, <3>1, RewrittenFits DEF BodySet
        <3>. QED  BY <1>1, <1>2, <1>13, <3>2, SameThreadsGrow DEF PutSets, Steady
    <2>. QED  BY <1>1, <1>4, <1>13, <2>2 DEF PutSets, Steady
<1>14. CASE CommentsFirstSets  BY <1>1, <1>4, <1>14, PostedGrow DEF CommentsFirstSets, Steady
<1>15. CASE PostReviewSets
    BY <1>1, <1>4, <1>15, PostedGrow DEF PostReviewSets, ReviewIsPosted, Steady
<1>16. CASE SupersedeSets
    BY <1>1, <1>2, <1>3, <1>5, <1>16, SameThreadsGrow DEF SupersedeSets, Steady
<1>17. CASE ResolveStaleSets
    BY <1>1, <1>3, <1>17, SameThreadsGrow DEF ResolveStaleSets, Steady
<1>18. CASE DismissStaleSets
    BY <1>1, <1>2, <1>3, <1>5, <1>18, SameThreadsGrow DEF DismissStaleSets, Steady
<1>. QED
    BY <1>6, <1>7, <1>8, <1>9, <1>10, <1>11, <1>12, <1>13, <1>14, <1>15, <1>16, <1>17, <1>18
    DEF RunsEffects

LEMMA CommandsGrow ==
    ASSUME ReviewsTypeOK, NEW f, NEW mark, CommandSets(f, mark)
    PROVE  Grown /\ run' \in RunType /\ runs' \in Nat
<1>1. reviews' \in Seq(ReviewType) /\ Len(reviews) <= Len(reviews')
    BY DEF CommandSets, ReviewsTypeOK
<1>. QED  BY <1>1, SameThreadsGrow DEF CommandSets, ResolvedByOther, SameRun, ReviewsTypeOK

\* How the findings of the run are classified depends on what the run has read.
LEMMA ClassesSteady ==
    ASSUME run'.found = run.found, run'.reviews = run.reviews
    PROVE  /\ Prior' = Prior /\ Suppressed' = Suppressed /\ Recurred' = Recurred
           /\ Canon' = Canon
BY DEF Prior, Suppressed, Recurred, Canon, MergeVerdicts, SelectCanonical

LEMMA ThreadClassesSteady ==
    ASSUME run'.found = run.found, run'.reviews = run.reviews, run'.threads = run.threads
    PROVE  /\ Matched(run.threads)' = Matched(run.threads)
           /\ Reopenable(run.threads)' = Reopenable(run.threads)
           /\ Rendered' = Rendered /\ Comments' = Comments
<1>1. Suppressed' = Suppressed /\ Recurred' = Recurred  BY ClassesSteady
<1>2. Matched(run.threads)' = Matched(run.threads)  BY <1>1 DEF Matched, OpenOf
<1>3. Reopenable(run.threads)' = Reopenable(run.threads)  BY <1>1 DEF Reopenable, CarriedBy
<1>4. New(run.threads)' = New(run.threads)  BY <1>1, <1>2 DEF New
<1>. QED  BY <1>1, <1>2, <1>3, <1>4 DEF Rendered, Comments

\* Reopening the threads of findings that came back changes nothing of it.
LEMMA ReopenClasses ==
    ASSUME ReviewsTypeOK, CopiesFit, NEW f, NEW i, NEW reopened, ReopenSets(f, i, reopened)
    PROVE  /\ Matched(run.threads)' = Matched(run.threads)
           /\ Reopenable(run.threads)' = Reopenable(run.threads)
           /\ Rendered' = Rendered /\ Comments' = Comments
<1>1. Suppressed' = Suppressed /\ Recurred' = Recurred
    BY ClassesSteady DEF ReopenSets, Steady
<1>2. f \in Recurred  BY DEF ReopenSets, CopiesFit, Reopenable
<1>3. \A g : CarriedBy(run'.threads, g) = CarriedBy(run.threads, g)
    BY DEF ReopenSets, CarriedBy
<1>4. Reopenable(run.threads)' = Reopenable(run.threads)
    BY <1>1, <1>3 DEF Reopenable, CarriedBy
<1>5. ASSUME NEW g, g # f PROVE OpenOf(run'.threads, g) = OpenOf(run.threads, g)
    BY <1>5 DEF ReopenSets, OpenOf, CarriedBy
<1>6. run.threads \in Seq(ThreadType)  BY DEF ReviewsTypeOK, RunType
<1>7. ASSUME NEW g, OpenOf(run.threads, g) # {}
      PROVE  LET j == Min(OpenOf(run.threads, g))
             IN  run'.threads[j].outdated = run.threads[j].outdated
    <2>1. Min(OpenOf(run.threads, g)) \in DOMAIN run.threads  BY <1>6, <1>7, CarriedFits
    <2>. QED  BY <2>1 DEF ReopenSets
<1>8. \A g : g \in Matched(run.threads)' <=> g \in Matched(run.threads)
    <2>1. ASSUME NEW g PROVE g \in Matched(run.threads)' <=> g \in Matched(run.threads)
        <3>1. CASE g = f  BY <1>1, <1>2, <3>1 DEF Matched
        <3>2. CASE g # f
            <4>1. OpenOf(run.threads, g)' = OpenOf(run.threads, g)
                BY <1>5, <3>2 DEF OpenOf
            <4>. QED  BY <1>1, <1>7, <4>1 DEF Matched, ReopenSets, Steady
        <3>. QED  BY <3>1, <3>2
    <2>. QED  BY <2>1
<1>9. Matched(run.threads)' = Matched(run.threads)  BY <1>8 DEF Matched
<1>10. New(run.threads)' = New(run.threads)
    BY <1>1, <1>9 DEF New, ReopenSets, Steady
<1>. QED  BY <1>1, <1>4, <1>9, <1>10 DEF Rendered, Comments

\* The copy of the threads is one of threads that exist.
CopyOf(ths) ==
    \A j \in DOMAIN ths : /\ j \in DOMAIN threads /\ ths[j].finding = threads[j].finding
                          /\ ths[j].review = threads[j].review

LEMMA CopiesCarry ==
    ASSUME ReviewsTypeOK, Grown, Len(run'.reviews) <= Len(reviews), run' \in RunType,
           CopyOf(run'.threads),
           run'.todo # {} => run'.pc = "effects" /\ run'.todo \subseteq Reopenable(run.threads)'
    PROVE  CopiesFit'
<1>1. Len(run'.reviews) <= Len(reviews')
    <2>1. Len(run'.reviews) \in Nat /\ Len(reviews) \in Nat /\ Len(reviews') \in Nat
        BY DEF ReviewsTypeOK, Grown, RunType
    <2>. QED  BY <2>1 DEF Grown
<1>2. \A i \in DOMAIN run'.threads :
           /\ i \in DOMAIN threads' /\ run'.threads[i].finding = threads'[i].finding
           /\ run'.threads[i].review = threads'[i].review
    BY DEF CopyOf, Grown
<1>. QED  BY <1>1, <1>2 DEF CopiesFit

LEMMA CopiesStep == ASSUME ReviewsTypeOK, CopiesFit, RunsEffects PROVE CopiesFit'
<1>1. Grown /\ run' \in RunType /\ Len(run.reviews) <= Len(reviews) /\ CopyOf(run.threads)
    BY RunsGrow DEF CopiesFit, CopyOf
<1>2. /\ run.pc # "effects" => run.todo = {}
      /\ run.todo \subseteq Reopenable(run.threads)
    BY DEF CopiesFit
<1>3. CopyOf(<<>>) /\ Len(<<>>) <= Len(reviews) /\ Len(reviews) <= Len(reviews)
    BY DEF CopyOf, ReviewsTypeOK
<1>4. \A got \in Partial(threads) : CopyOf(got)  BY PartialFits DEF CopyOf, ReviewsTypeOK
<1>5. CASE StartRunSets  BY <1>1, <1>3, <1>5, CopiesCarry DEF StartRunSets
<1>6. CASE SameRun
    <2>1. Reopenable(run.threads)' = Reopenable(run.threads)
        BY <1>6, ThreadClassesSteady DEF SameRun
    <2>2. run'.todo # {} => run'.pc = "effects" /\ run'.todo \subseteq Reopenable(run.threads)'
        BY <1>2, <1>6, <2>1 DEF SameRun
    <2>. QED  BY <1>1, <1>6, <2>2, CopiesCarry DEF SameRun
<1>7. CASE ReadReviewsSets
    <2>1. run'.todo # {} => run'.pc = "effects" /\ run'.todo \subseteq Reopenable(run.threads)'
        BY <1>2, <1>7 DEF ReadReviewsSets
    <2>. QED  BY <1>1, <1>3, <1>7, <2>1, CopiesCarry DEF ReadReviewsSets
<1>8. CASE ReadThreadsSets
    <2>1. run'.todo # {} => run'.pc = "effects" /\ run'.todo \subseteq Reopenable(run.threads)'
        BY <1>8, ClassesSteady DEF ReadThreadsSets, Steady, Reopenable
    <2>. QED  BY <1>1, <1>4, <1>8, <2>1, CopiesCarry DEF ReadThreadsSets, Steady
<1>9. ASSUME NEW f, NEW i, NEW reopened, ReopenSets(f, i, reopened) PROVE CopiesFit'
    <2>1. Reopenable(run.threads)' = Reopenable(run.threads)  BY <1>9, ReopenClasses
    <2>2. run'.todo # {} => run'.pc = "effects" /\ run'.todo \subseteq Reopenable(run.threads)'
        BY <1>2, <1>9, <2>1 DEF ReopenSets
    <2>3. CopyOf(run'.threads)  BY <1>1, <1>9 DEF ReopenSets, CopyOf
    <2>. QED  BY <1>1, <1>9, <2>2, <2>3, CopiesCarry DEF ReopenSets, Steady
<1>10. ASSUME Steady, run'.todo = run.todo, run.todo = {}, CopyOf(run'.threads) PROVE CopiesFit'
    BY <1>1, <1>10, CopiesCarry DEF Steady
<1>11. CASE RecheckSets
    BY <1>1, <1>10, <1>11 DEF RecheckSets, SameCopies, Ready
<1>12. CASE PutSets  BY <1>1, <1>2, <1>10, <1>12 DEF PutSets, SameCopies
<1>13. Posting => run.todo = {}  BY <1>2 DEF Posting, Ready
<1>14. CASE CommentsFirstSets
    BY <1>1, <1>10, <1>13, <1>14 DEF CommentsFirstSets, SameCopies
<1>15. CASE PostReviewSets
    BY <1>1, <1>2, <1>3, <1>10, <1>13, <1>15 DEF PostReviewSets, ReviewIsPosted
<1>16. CASE SupersedeSets  BY <1>1, <1>2, <1>10, <1>16 DEF SupersedeSets, SameCopies
<1>17. CASE ResolveStaleSets  BY <1>1, <1>2, <1>4, <1>10, <1>17 DEF ResolveStaleSets
<1>18. CASE DismissStaleSets  BY <1>1, <1>2, <1>3, <1>10, <1>18 DEF DismissStaleSets
<1>. QED
    BY <1>5, <1>6, <1>7, <1>8, <1>9, <1>11, <1>12, <1>14, <1>15, <1>16, <1>17, <1>18
    DEF RunsEffects, PushSets, ResolvedByOther

\* What every step of the reviews keeps, whoever takes it.
ReviewsFit == ReviewsTypeOK /\ CopiesFit

LEMMA StutterFits == ASSUME ReviewsFit, UNCHANGED reviewVars PROVE ReviewsFit'
<1>1. run' = run /\ reviews' = reviews /\ threads' = threads /\ runs' = runs
    BY DEF reviewVars
<1>2. Reopenable(run.threads)' = Reopenable(run.threads)  BY <1>1, ThreadClassesSteady
<1>. QED  BY <1>1, <1>2 DEF ReviewsFit, ReviewsTypeOK, CopiesFit

LEMMA RunsStepFits == ASSUME ReviewsFit, RunsEffects PROVE ReviewsFit'
BY RunsGrow, CopiesStep DEF ReviewsFit, ReviewsTypeOK, Grown

LEMMA SameRunFits ==
    ASSUME ReviewsFit, SameRun, Grown, runs' \in Nat
    PROVE  ReviewsFit'
<1>1. Reopenable(run.threads)' = Reopenable(run.threads)
    BY ThreadClassesSteady DEF SameRun
<1>2. run'.todo # {} => run'.pc = "effects" /\ run'.todo \subseteq Reopenable(run.threads)'
    BY <1>1 DEF SameRun, ReviewsFit, CopiesFit
<1>3. CopyOf(run'.threads) /\ Len(run'.reviews) <= Len(reviews)
    BY DEF SameRun, ReviewsFit, CopiesFit, CopyOf
<1>. QED  BY <1>2, <1>3, CopiesCarry DEF SameRun, ReviewsFit, ReviewsTypeOK, Grown

\* The steps of ReviewNext by what they do.
ReviewEffects ==
    \/ RunsEffects
    \/ \E f \in Known(reviews), mark \in {"dismissed", "fixed"} : CommandSets(f, mark)

LEMMA ReviewNextEffect == ASSUME ReviewsFit, ReviewNext PROVE ReviewEffects
BY RunsNextEffect, CommandEffect DEF ReviewsFit, ReviewNext, ReviewEffects

LEMMA ReviewStepFits == ASSUME ReviewsFit, ReviewEffects PROVE ReviewsFit'
<1>1. CASE RunsEffects  BY <1>1, RunsStepFits
<1>2. ASSUME NEW f, NEW mark, CommandSets(f, mark) PROVE ReviewsFit'
    BY <1>2, CommandsGrow, SameRunFits DEF CommandSets, ResolvedByOther, ReviewsFit
<1>. QED  BY <1>1, <1>2 DEF ReviewEffects

LEMMA InitReviewsFit == Init => ReviewsFit
<1>1. ASSUME Init PROVE CopiesFit  BY <1>1 DEF Init, Fresh, CopiesFit
<1>. QED  BY <1>1, InitFits DEF ReviewsFit

LEMMA ReviewFits == ReviewSpec => []ReviewsFit
<1>1. ReviewsFit /\ [ReviewNext]_reviewVars => ReviewsFit'
    BY ReviewNextEffect, ReviewStepFits, StutterFits
<1>. QED  BY <1>1, InitReviewsFit, PTL DEF ReviewSpec

\* The reviews, the threads and the state of the run always have the types they are
\* meant to have: what is posted, put back, reopened and resolved is well formed.
THEOREM ReviewTypeCorrect == ReviewSpec => []ReviewsTypeOK
<1>1. ReviewsFit => ReviewsTypeOK  BY DEF ReviewsFit
<1>. QED  BY <1>1, ReviewFits, PTL

-----------------------------------------------------------------------------
(* Approvals and open threads *)

\* A run that approves has nothing severe to report.
EventFits == run.event = "APPROVE" => run.found \cap Severe = {}

\* Until the run has posted it knows of every open severe thread, if it could read the
\* threads at all.
OpenRead ==
    run.pc \in {"effects", "put", "post", "approve"} /\ run.complete =>
        \A i \in DOMAIN threads : threads[i].open /\ threads[i].finding \in Severe =>
            i \in DOMAIN run.threads /\ run.threads[i].open

SevereKnown == EventFits /\ OpenRead

LEMMA EventStep == ASSUME ReviewsFit, EventFits, ReviewEffects PROVE EventFits'
<1>1. CASE run'.event = run.event /\ run'.found = run.found  BY <1>1 DEF EventFits
<1>2. CASE StartRunSets  BY <1>2 DEF StartRunSets, EventFits
<1>. QED
    BY <1>1, <1>2 DEF ReviewEffects, RunsEffects, PushSets, ResolvedByOther, SameRun, Steady,
       ReadReviewsSets, ReadThreadsSets, ReopenSets, RecheckSets, PutSets, CommentsFirstSets,
       PostReviewSets, SupersedeSets, ResolveStaleSets, DismissStaleSets, CommandSets

LEMMA OpenReadStep ==
    ASSUME ReviewsFit, SevereKnown, ReviewEffects PROVE OpenRead'
<1>1. ASSUME run'.pc \notin {"effects", "put", "post", "approve"} PROVE OpenRead'
    BY <1>1 DEF OpenRead
<1>2. ASSUME run'.pc \in {"effects", "put", "post", "approve"},
             run.pc \in {"effects", "put", "post", "approve"},
             run'.complete = run.complete, run'.threads = run.threads,
             DOMAIN threads' = DOMAIN threads,
             \A j \in DOMAIN threads : /\ threads'[j].finding = threads[j].finding
                                       /\ threads'[j].open => threads[j].open
      PROVE  OpenRead'
    BY <1>2 DEF OpenRead, SevereKnown
<1>3. threads \in Seq(ThreadType)  BY DEF ReviewsFit, ReviewsTypeOK
<1>4. ASSUME SameThreads PROVE DOMAIN threads' = DOMAIN threads
    BY <1>3, <1>4 DEF SameThreads
<1>5. CASE StartRunSets  BY <1>1, <1>5 DEF StartRunSets
<1>6. CASE PushSets  BY <1>1, <1>2, <1>4, <1>6 DEF PushSets, SameThreads, SameRun
<1>7. CASE ResolvedByOther  BY <1>1, <1>2, <1>4, <1>7 DEF ResolvedByOther, SameThreads, SameRun
<1>8. CASE ReadReviewsSets  BY <1>1, <1>8 DEF ReadReviewsSets
<1>9. CASE ReadThreadsSets  BY <1>9 DEF ReadThreadsSets, OpenRead
<1>10. ASSUME NEW f, NEW i, NEW reopened, ReopenSets(f, i, reopened) PROVE OpenRead'
    <2>1. DOMAIN threads' = DOMAIN threads  BY <1>4, <1>10 DEF ReopenSets
    <2>2. /\ i \in DOMAIN run.threads /\ run.pc = "effects"
          /\ run'.complete = run.complete /\ DOMAIN run'.threads = DOMAIN run.threads
          /\ \A j \in DOMAIN threads :
                 /\ threads'[j].finding = threads[j].finding
                 /\ threads'[j].open <=> threads[j].open \/ (j = i /\ reopened)
          /\ \A j \in DOMAIN run.threads :
                 run'.threads[j].open <=> run.threads[j].open \/ (j = i /\ reopened)
        BY <1>10 DEF ReopenSets, SameThreads, CarriedBy
    <2>. QED  BY <2>1, <2>2 DEF OpenRead, SevereKnown
<1>11. CASE RecheckSets
    BY <1>1, <1>2, <1>11 DEF RecheckSets, SameCopies, Ready
<1>12. CASE PutSets  BY <1>1, <1>2, <1>12 DEF PutSets, SameCopies
<1>13. CASE CommentsFirstSets
    <2>0. run.pc \in {"effects", "put", "post", "approve"}
        BY <1>13 DEF CommentsFirstSets, Posting, Ready
    <2>1. CASE UNCHANGED <<reviews, threads>>
        BY <1>2, <1>13, <2>0, <2>1 DEF CommentsFirstSets, SameCopies
    <2>2. CASE ThreadsPosted(Comments)
        <3>1. run.found \cap Severe = {} /\ Comments \subseteq run.found
            BY <1>13, RenderEventFits, RenderedFits
            DEF CommentsFirstSets, SevereKnown, EventFits, ReviewsFit
        <3>2. \A i \in DOMAIN threads' \ DOMAIN threads : i \in Added
            BY <1>3, <2>2 DEF ThreadsPosted, Added
        <3>3. \A i \in DOMAIN threads' \ DOMAIN threads : threads'[i].finding \notin Severe
            BY <2>2, <3>1, <3>2 DEF ThreadsPosted
        <3>4. \A i \in DOMAIN threads : threads'[i] = threads[i]
            BY <2>2 DEF ThreadsPosted
        <3>5. run'.complete = run.complete /\ run'.threads = run.threads
            BY <1>13 DEF CommentsFirstSets, SameCopies
        <3>. QED  BY <2>0, <3>3, <3>4, <3>5 DEF OpenRead, SevereKnown
    <2>. QED  BY <1>13, <2>1, <2>2 DEF CommentsFirstSets
<1>14. CASE PostReviewSets  BY <1>1, <1>14 DEF PostReviewSets, ReviewIsPosted
<1>15. CASE SupersedeSets  BY <1>1, <1>15 DEF SupersedeSets
<1>16. CASE ResolveStaleSets  BY <1>1, <1>16 DEF ResolveStaleSets
<1>17. CASE DismissStaleSets  BY <1>1, <1>17 DEF DismissStaleSets
<1>. QED
    BY <1>5, <1>6, <1>7, <1>8, <1>9, <1>10, <1>11, <1>12, <1>13, <1>14, <1>15, <1>16, <1>17
    DEF ReviewEffects, RunsEffects, CommandSets

LEMMA ReviewSevereKnown == ReviewSpec => []SevereKnown
<1>1. Init => SevereKnown  BY DEF Init, Fresh, SevereKnown, EventFits, OpenRead
<1>2. SevereKnown /\ UNCHANGED reviewVars => SevereKnown'
    BY DEF reviewVars, SevereKnown, EventFits, OpenRead
<1>3. ReviewsFit /\ SevereKnown /\ [ReviewNext]_reviewVars => SevereKnown'
    BY <1>2, ReviewNextEffect, EventStep, OpenReadStep DEF SevereKnown
<1>. QED  BY <1>1, <1>3, ReviewFits, PTL DEF ReviewSpec

LEMMA NothingNew ==
    ASSUME ReviewsFit, Len(reviews') = Len(reviews), reviews' \in Seq(ReviewType)
    PROVE  DOMAIN reviews' = DOMAIN reviews
BY DEF ReviewsFit, ReviewsTypeOK

LEMMA ApprovalsArePosted ==
    ASSUME ReviewsFit, ReviewEffects, NEW r \in DOMAIN reviews' \ DOMAIN reviews,
           reviews'[r].state = "APPROVED"
    PROVE  PostReviewSets /\ ReviewIsPosted("APPROVE")
<1>1. reviews \in Seq(ReviewType) /\ DOMAIN reviews' # DOMAIN reviews
    BY DEF ReviewsFit, ReviewsTypeOK
<1>2. \A ids : reviews' # Dismissed(ids)
    BY <1>1, DismissedFits, NothingNew DEF ReviewsDismissed
<1>3. reviews' # reviews  BY <1>1
<1>4. ASSUME NEW f, NEW i, NEW reopened, ReopenSets(f, i, reopened) PROVE FALSE
    <2>1. reviews' = Append(reviews, EmptyReview)  BY <1>3, <1>4 DEF ReopenSets
    <2>2. r = Len(reviews) + 1 /\ reviews'[r] = EmptyReview  BY <1>1, <2>1
    <2>. QED  BY <2>2 DEF EmptyReview
<1>5. CASE PutSets
    <2>1. reviews' = WithBody(reviews, Canon, RenderedBody)
        BY <1>3, <1>5 DEF PutSets, Rewritten, WithBody
    <2>2. reviews' \in Seq(ReviewType) /\ Len(reviews') = Len(reviews)
        BY <1>1, <2>1, RenderedFits, RewrittenFits DEF BodySet, ReviewsFit
    <2>. QED  BY <1>1, <2>2, NothingNew
<1>6. \A n, event : ReviewsPosted(n, event) /\ event \in EventNames => event = "APPROVE"
    BY DEF ReviewsPosted, StateOf, EventNames
<1>7. ~CommentsFirstSets
    BY <1>3, <1>6 DEF CommentsFirstSets, EventNames
<1>8. CASE PostReviewSets
    <2>1. PICK event : ReviewIsPosted(event)  BY <1>3, <1>8 DEF PostReviewSets
    <2>2. event \in EventNames
        BY <2>1, RenderEventFits DEF ReviewIsPosted, EventNames, ReviewsFit
    <2>3. event = "APPROVE"  BY <1>6, <2>1, <2>2 DEF ReviewIsPosted
    <2>. QED  BY <1>8, <2>1, <2>3
<1>9. \A f, mark : ~CommandSets(f, mark)  BY <1>1, NothingNew DEF CommandSets
<1>. QED
    BY <1>2, <1>3, <1>4, <1>5, <1>7, <1>8, <1>9
    DEF ReviewEffects, RunsEffects, StartRunSets, PushSets, ReadReviewsSets, ReadThreadsSets,
        RecheckSets, SupersedeSets, ResolveStaleSets, DismissStaleSets

\* No run approves the pull request over an open High or Critical thread: it has none to
\* report itself, and the open ones of earlier runs hold the approval back.
THEOREM ApprovalsHeldBack == ReviewSpec => NotApprovedOverOpen
<1>. DEFINE Held == \A r \in DOMAIN reviews' \ DOMAIN reviews :
            /\ reviews'[r].state = "APPROVED" /\ reviews'[r].body.kind = "review"
            /\ run.complete
            => \A i \in DOMAIN threads' :
                   threads'[i].open => threads'[i].finding \notin Severe
<1>1. ASSUME ReviewsFit, SevereKnown, ReviewEffects PROVE Held
    <2>. SUFFICES ASSUME NEW r \in DOMAIN reviews' \ DOMAIN reviews,
                         reviews'[r].state = "APPROVED", run.complete,
                         NEW i \in DOMAIN threads', threads'[i].open,
                         threads'[i].finding \in Severe
                  PROVE  FALSE
        OBVIOUS
    <2>1. PostReviewSets /\ ReviewIsPosted("APPROVE")  BY <1>1, ApprovalsArePosted
    <2>2. RenderEvent = "APPROVE"  BY <2>1 DEF ReviewIsPosted
    <2>3. run.event = "APPROVE" /\ ~HoldsApproval
        BY <1>1, <2>2, RenderEventFits DEF ReviewsFit
    <2>4. threads' = threads
        BY <2>1, <2>2 DEF ReviewIsPosted, PostedComments, ThreadsPosted
    <2>5. run.pc \in {"effects", "put", "post", "approve"}
        BY <2>1 DEF PostReviewSets, Posting, Ready
    <2>6. i \in DOMAIN run.threads /\ run.threads[i].open
        BY <1>1, <2>4, <2>5 DEF SevereKnown, OpenRead
    <2>7. run.threads[i].finding \in Severe
        BY <1>1, <2>4, <2>6 DEF ReviewsFit, CopiesFit
    <2>8. i \notin CarriedForward  BY <2>3, <2>7 DEF HoldsApproval
    <2>9. i \in Touched(run.threads)  BY <2>6, <2>8 DEF CarriedForward
    <2>10. run.threads[i].finding \in run.found
        <3>1. run.threads \in Seq(ThreadType)  BY <1>1 DEF ReviewsFit, ReviewsTypeOK, RunType
        <3>2. CASE i \in Claimed(run.threads)
            BY <1>1, <3>1, <3>2, ClaimedFits, RenderedFits DEF ReviewsFit
        <3>3. ASSUME NEW f \in Reopenable(run.threads), i = Min(CarriedBy(run.threads, f))
              PROVE  run.threads[i].finding \in run.found
            <4>1. i \in CarriedBy(run.threads, f)  BY <3>1, <3>3, CarriedFits DEF Reopenable
            <4>. QED  BY <1>1, <4>1, RenderedFits DEF CarriedBy, ReviewsFit
        <3>. QED  BY <2>9, <3>2, <3>3 DEF Touched
    <2>. QED  BY <1>1, <2>3, <2>7, <2>10 DEF SevereKnown, EventFits
<1>2. UNCHANGED reviewVars => Held  BY DEF reviewVars
<1>3. ReviewsFit /\ SevereKnown /\ [ReviewNext]_reviewVars => [Held]_reviewVars
    BY <1>1, <1>2, ReviewNextEffect
<1>. QED  BY <1>3, ReviewFits, ReviewSevereKnown, PTL DEF ReviewSpec, NotApprovedOverOpen

-----------------------------------------------------------------------------
(* The threads that a run leaves open *)

\* The run is in the state that its decisions lead to.
StagesFit ==
    /\ run.pc = "approve" => RenderEvent = "APPROVE"
    /\ run.pc = "put" => Reuses
    /\ run.pc \in {"effects", "put", "post", "approve"} /\ run.clean => run.complete

\* Each of the threads has a finding of its own, which is one of fs.
EachOwn(kept, ths, fs) ==
    /\ \A i \in kept : i \in DOMAIN ths /\ ths[i].finding \in fs
    /\ \A i, j \in kept : ths[i].finding = ths[j].finding => i = j

\* The findings that the threads kept so far speak for.
Spoken == Matched(run.threads) \cup (Reopenable(run.threads) \ run.todo)

\* A run keeps one thread for a finding that it reports, and leaves no other open.
KeptFits ==
    /\ run.pc \in {"effects", "put", "post"} => EachOwn(run.kept, run.threads, Spoken)
    /\ run.pc \in {"approve", "supersede", "stale", "dismiss"} =>
           EachOwn(run.kept, threads, run.found \ Suppressed)
    /\ run.pc = "dismiss" /\ run.clean =>
           \A i \in DOMAIN threads : threads[i].open => i \in run.kept

\* A finding with a verdict that is on a line of the diff has a thread.
VerdictsShown(revs) ==
    \A f \in Inline : \A i \in DOMAIN revs :
        revs[i].body.verdict[f] # "none" => CarriedBy(threads, f) # {}

VerdictShown ==
    /\ VerdictsShown(reviews) /\ VerdictsShown(run.reviews)
    /\ run.pc \in {"effects", "put", "post", "approve"} /\ run.complete =>
           Recurred \cap Inline \subseteq Reopenable(run.threads)

\* A kept thread of the finding is open, and not outdated unless the finding recurred.
Kept(f) ==
    \E i \in run.kept : /\ i \in DOMAIN threads /\ threads[i].open
                        /\ threads[i].finding = f
                        /\ threads[i].outdated => f \in Recurred

\* What the run reports stays visible at each stage.
Alive ==
    run.clean /\ run.alone /\ ~run.moved =>
        /\ run.pc \in {"effects", "put", "post", "approve"} =>
               \A f \in Spoken : Kept(f)
        /\ run.pc = "approve" => \A f \in Comments : Kept(f)
        /\ run.pc \in {"supersede", "stale", "dismiss"} =>
               /\ run.landed \in DOMAIN reviews
               /\ \A f \in run.found \ Suppressed :
                      Kept(f) \/ f \in reviews[run.landed].body.bullets

\* The review of the run blocks at each stage.
Blocks ==
    run.clean /\ run.alone /\ run.event = "REQUEST_CHANGES" =>
        /\ run.pc = "put" => reviews[Canon].state = "CHANGES_REQUESTED"
        /\ run.pc \in {"supersede", "stale", "dismiss"} \/ (run.pc = "idle" /\ runs > 0) =>
               /\ run.landed \in DOMAIN reviews
               /\ reviews[run.landed].state = "CHANGES_REQUESTED"
        /\ run.pc = "supersede" => run.landed > Len(run.reviews)

\* The run has learnt nothing new.
Unread ==
    /\ run'.found = run.found /\ run'.event = run.event /\ run'.reviews = run.reviews
    /\ run'.threads = run.threads /\ run'.complete = run.complete

LEMMA DecisionsSteady ==
    ASSUME Unread
    PROVE  /\ RenderEvent' = RenderEvent /\ (Reuses' <=> Reuses) /\ Canon' = Canon
           /\ Suppressed' = Suppressed /\ Recurred' = Recurred /\ Rendered' = Rendered
           /\ Matched(run.threads)' = Matched(run.threads)
           /\ Reopenable(run.threads)' = Reopenable(run.threads) /\ Comments' = Comments
<1>1. /\ Canon' = Canon /\ Suppressed' = Suppressed /\ Recurred' = Recurred
      /\ Matched(run.threads)' = Matched(run.threads) /\ Rendered' = Rendered
      /\ Reopenable(run.threads)' = Reopenable(run.threads) /\ Comments' = Comments
    BY ClassesSteady, ThreadClassesSteady DEF Unread
<1>2. New(run.threads)' = New(run.threads)  BY <1>1 DEF New, Unread
<1>3. Claimed(run.threads)' = Claimed(run.threads)  BY <1>1 DEF Claimed, OpenOf, Unread
<1>4. Touched(run.threads)' = Touched(run.threads)
    BY <1>1, <1>3 DEF Touched, CarriedBy, Unread
<1>5. CarriedForward' = CarriedForward  BY <1>4 DEF CarriedForward, Unread
<1>6. HoldsApproval' <=> HoldsApproval  BY <1>1, <1>5 DEF HoldsApproval, Unread
<1>7. RenderEvent' = RenderEvent  BY <1>6 DEF RenderEvent, Unread
<1>8. Reuses' <=> Reuses  BY <1>1, <1>2, <1>6 DEF Reuses, Unread, StateOf, Known
<1>. QED  BY <1>1, <1>7, <1>8

LEMMA StagesStep == ASSUME StagesFit, ReviewEffects PROVE StagesFit'
<1>1. ASSUME run'.pc \notin {"effects", "put", "post", "approve"} PROVE StagesFit'
    BY <1>1 DEF StagesFit
<1>2. CASE SameRun
    <2>1. Unread  BY <1>2 DEF SameRun, Unread
    <2>. QED  BY <1>2, <2>1, DecisionsSteady DEF SameRun, StagesFit
<1>3. CASE ReadThreadsSets  BY <1>3 DEF ReadThreadsSets, StagesFit
<1>4. ASSUME NEW f, NEW i, NEW reopened, ReopenSets(f, i, reopened) PROVE StagesFit'
    BY <1>4 DEF ReopenSets, Steady, StagesFit
<1>5. CASE RecheckSets
    <2>1. Unread  BY <1>5 DEF RecheckSets, SameCopies, Steady, Unread
    <2>. QED  BY <1>5, <2>1, DecisionsSteady
              DEF RecheckSets, SameCopies, Steady, StagesFit, Ready
<1>6. CASE PutSets  BY <1>6 DEF PutSets, SameCopies, Steady, StagesFit
<1>7. CASE CommentsFirstSets
    <2>1. Unread  BY <1>7 DEF CommentsFirstSets, SameCopies, Steady, Unread
    <2>. QED  BY <1>7, <2>1, DecisionsSteady
              DEF CommentsFirstSets, SameCopies, Steady, StagesFit, Posting, Ready
<1>8. CASE PostReviewSets  BY <1>1, <1>8 DEF PostReviewSets, ReviewIsPosted
<1>. QED
    BY <1>1, <1>2, <1>3, <1>4, <1>5, <1>6, <1>7, <1>8
    DEF ReviewEffects, RunsEffects, CommandSets, PushSets, ResolvedByOther, StartRunSets,
        ReadReviewsSets, SupersedeSets, ResolveStaleSets, DismissStaleSets

\* The threads of a new review are kept beside those kept before.
LEMMA OwnPosted ==
    ASSUME ReviewsFit, NEW fs, NEW comments, EachOwn(run.kept, threads, fs),
           ThreadsPosted(comments), fs \cap comments = {}, run'.kept \in {run.kept, Registered}
    PROVE  EachOwn(run'.kept, threads', fs \cup comments)
<1>1. /\ threads \in Seq(ThreadType) /\ threads' \in Seq(ThreadType)
      /\ Len(threads) \in Nat /\ Len(threads') \in Nat /\ Len(threads) <= Len(threads')
      /\ DOMAIN threads = 1..Len(threads) /\ DOMAIN threads' = 1..Len(threads')
    BY DEF ReviewsFit, ReviewsTypeOK, ThreadsPosted
<1>2. Added \subseteq DOMAIN threads' /\ Added \cap DOMAIN threads = {}
    BY <1>1 DEF Added
<1>3. \A i \in run'.kept :
          i \in run.kept \/ (i \in Added /\ threads'[i].review = Len(reviews'))
    BY DEF Registered
<1>4. \A i \in run.kept : /\ i \in DOMAIN threads /\ i \in DOMAIN threads'
                          /\ threads'[i].finding = threads[i].finding
                          /\ threads'[i].finding \in fs
    BY <1>1 DEF EachOwn, ThreadsPosted
<1>5. \A i \in Added : threads'[i].finding \in comments  BY DEF ThreadsPosted
<1>6. \A i \in run'.kept : i \in DOMAIN threads' /\ threads'[i].finding \in fs \cup comments
    BY <1>2, <1>3, <1>4, <1>5
<1>7. ASSUME NEW i \in run'.kept, NEW j \in run'.kept,
             threads'[i].finding = threads'[j].finding
      PROVE  i = j
    <2>1. CASE i \in run.kept /\ j \in run.kept  BY <1>4, <1>7, <2>1 DEF EachOwn
    <2>2. CASE i \in Added /\ j \in Added /\ i \notin run.kept /\ j \notin run.kept
        BY <1>3, <1>7, <2>2 DEF ThreadsPosted
    <2>. QED  BY <1>3, <1>4, <1>5, <1>7, <2>1, <2>2
<1>. QED  BY <1>6, <1>7 DEF EachOwn

\* What the run has kept when it posts is what it reports.
LEMMA OwnWhilePosting ==
    ASSUME ReviewsFit, KeptFits, run.pc \in {"effects", "put", "post"}
    PROVE  EachOwn(run.kept, threads, Spoken)
BY DEF KeptFits, EachOwn, ReviewsFit, CopiesFit

LEMMA SpokenFits ==
    ASSUME ReviewsFit
    PROVE  /\ Spoken \subseteq run.found \ Suppressed /\ Spoken \cap Comments = {}
           /\ Comments \subseteq run.found \ Suppressed
<1>1. Spoken \subseteq run.found \ Suppressed /\ Comments \subseteq run.found \ Suppressed
    BY RenderedFits, RenderEventFits DEF Spoken, ReviewsFit
<1>2. Spoken \cap Rendered = {}
    BY DEF Spoken, Rendered, New, Matched, Reopenable
<1>. QED  BY <1>1, <1>2, RenderEventFits DEF ReviewsFit

LEMMA OwnWeakens ==
    ASSUME NEW kept, NEW ths, NEW fs, NEW all, EachOwn(kept, ths, fs), fs \subseteq all
    PROVE  EachOwn(kept, ths, all)
BY DEF EachOwn

LEMMA OwnReopened ==
    ASSUME ReviewsFit, KeptFits, NEW f, NEW i, NEW reopened, ReopenSets(f, i, reopened)
    PROVE  EachOwn(run'.kept, run'.threads, Spoken')
<1>1. Spoken' = Matched(run.threads) \cup (Reopenable(run.threads) \ (run.todo \ {f}))
    <2>1. /\ Matched(run.threads)' = Matched(run.threads)
          /\ Reopenable(run.threads)' = Reopenable(run.threads)
        BY ReopenClasses DEF ReviewsFit
    <2>2. run'.todo = run.todo \ {f}  BY DEF ReopenSets
    <2>. QED  BY <2>1, <2>2 DEF Spoken
<1>2. /\ i \in DOMAIN run.threads /\ run.threads[i].finding = f /\ f \in run.todo
      /\ f \in Reopenable(run.threads) /\ f \notin Matched(run.threads)
    BY RenderedFits DEF ReopenSets, CarriedBy, ReviewsFit, CopiesFit
<1>3. EachOwn(run.kept, run.threads, Spoken)  BY DEF KeptFits, ReopenSets
<1>4. \A j \in run'.kept : j \in run.kept \/ j = i  BY DEF ReopenSets
<1>5. /\ DOMAIN run'.threads = DOMAIN run.threads
      /\ \A j \in DOMAIN run.threads : run'.threads[j].finding = run.threads[j].finding
    BY DEF ReopenSets
<1>6. \A j \in run.kept : run.threads[j].finding \in Spoken /\ j \in DOMAIN run.threads
    BY <1>3 DEF EachOwn
<1>7. f \notin Spoken /\ Spoken \subseteq Spoken' /\ f \in Spoken'
    BY <1>1, <1>2 DEF Spoken
<1>8. \A j, k \in run.kept : run.threads[j].finding = run.threads[k].finding => j = k
    BY <1>3 DEF EachOwn
<1>. QED  BY <1>2, <1>4, <1>5, <1>6, <1>7, <1>8 DEF EachOwn

LEMMA OwnClaimed ==
    ASSUME ReviewsFit, ReadThreadsSets
    PROVE  EachOwn(run'.kept, run'.threads, Spoken')
<1>. DEFINE ths == run'.threads
<1>1. ths \in Seq(ThreadType) /\ run'.kept = Claimed(ths)
    BY DEF ReadThreadsSets, Steady, RunType
<1>2. Matched(run.threads)' = Matched(ths)
    BY ClassesSteady DEF ReadThreadsSets, Steady, Matched, OpenOf
<1>3. Spoken' = Matched(ths) \cup (Reopenable(run.threads)' \ run'.todo)
    BY <1>2 DEF Spoken
<1>. HIDE DEF ths
<1>4. \A i \in Claimed(ths) : /\ i \in DOMAIN ths /\ ths[i].finding \in Matched(ths)
                              /\ i = Min(OpenOf(ths, ths[i].finding))
    BY <1>1, ClaimedFits
<1>5. EachOwn(run'.kept, ths, Spoken')  BY <1>1, <1>3, <1>4 DEF EachOwn
<1>. QED  BY <1>5 DEF ths

LEMMA KeptStep == ASSUME ReviewsFit, StagesFit, KeptFits, ReviewEffects PROVE KeptFits'
<1>0. threads \in Seq(ThreadType) /\ run \in RunType  BY DEF ReviewsFit, ReviewsTypeOK
<1>1. ASSUME run'.pc \in {"idle", "reviews", "threads"} PROVE KeptFits'
    BY <1>1 DEF KeptFits
<1>2. ASSUME SameThreads, NEW fs, EachOwn(run.kept, threads, fs)
      PROVE  EachOwn(run.kept, threads', fs) /\ DOMAIN threads' = DOMAIN threads
    BY <1>0, <1>2 DEF SameThreads, EachOwn
<1>3. ASSUME SameRun, SameThreads, \A j \in DOMAIN threads : threads'[j].open => threads[j].open
      PROVE  KeptFits'
    <2>1. Unread /\ run'.todo = run.todo  BY <1>3 DEF SameRun, Unread
    <2>2. Suppressed' = Suppressed /\ Spoken' = Spoken
        <3>1. /\ Suppressed' = Suppressed /\ Matched(run.threads)' = Matched(run.threads)
              /\ Reopenable(run.threads)' = Reopenable(run.threads)
            BY <2>1, DecisionsSteady
        <3>. QED  BY <2>1, <3>1 DEF Spoken
    <2>3. DOMAIN threads' = DOMAIN threads  BY <1>0, <1>3 DEF SameThreads
    <2>. QED  BY <1>2, <1>3, <2>2, <2>3 DEF KeptFits, SameRun
<1>4. CASE ReadThreadsSets  BY <1>4, OwnClaimed DEF KeptFits, ReadThreadsSets
<1>5. ASSUME NEW f, NEW i, NEW reopened, ReopenSets(f, i, reopened) PROVE KeptFits'
    <2>1. EachOwn(run'.kept, run'.threads, Spoken')  BY <1>5, OwnReopened
    <2>2. run'.pc = "effects"  BY <1>5 DEF ReopenSets
    <2>. QED  BY <2>1, <2>2 DEF KeptFits
<1>6. ASSUME Steady, SameCopies, run'.kept = run.kept, run'.pc = "post" \/ run'.pc = "put",
             run.pc \in {"effects", "put", "post"}
      PROVE  KeptFits'
    <2>1. Unread  BY <1>6 DEF Steady, SameCopies, Unread
    <2>2. Spoken' = Spoken
        <3>1. /\ Matched(run.threads)' = Matched(run.threads)
              /\ Reopenable(run.threads)' = Reopenable(run.threads)
            BY <2>1, DecisionsSteady
        <3>. QED  BY <1>6, <3>1 DEF Spoken, SameCopies
    <2>. QED  BY <1>6, <2>2 DEF KeptFits, SameCopies
<1>7. ASSUME Steady, run'.pc \in {"approve", "supersede", "stale", "dismiss"},
             run'.pc # "dismiss",
             EachOwn(run'.kept, threads', run.found \ Suppressed)
      PROVE  KeptFits'
    <2>1. Suppressed' = Suppressed /\ run'.found = run.found
        BY <1>7, ClassesSteady DEF Steady
    <2>. QED  BY <1>7, <2>1 DEF KeptFits
<1>8. ASSUME run.pc \in {"effects", "put", "post"}
      PROVE  EachOwn(run.kept, threads, run.found \ Suppressed)
    BY <1>8, OwnWhilePosting, OwnWeakens, SpokenFits
<1>9. CASE RecheckSets
    <2>1. CASE run'.pc = "stale"
        BY <1>7, <1>8, <1>9, <2>1 DEF RecheckSets, Ready
    <2>. QED  BY <1>6, <1>9, <2>1 DEF RecheckSets, Ready
<1>10. CASE PutSets
    <2>1. CASE run'.pc = "stale"  BY <1>7, <1>8, <1>10, <2>1 DEF PutSets
    <2>. QED  BY <1>6, <1>10, <2>1 DEF PutSets
<1>11. ASSUME run.pc \in {"effects", "put", "post"}, NEW comments, comments \subseteq Comments,
              ThreadsPosted(comments), run'.kept \in {run.kept, Registered}
       PROVE  EachOwn(run'.kept, threads', run.found \ Suppressed)
    <2>1. EachOwn(run.kept, threads, Spoken) /\ Spoken \cap comments = {}
          /\ Spoken \cup comments \subseteq run.found \ Suppressed
        BY <1>11, OwnWhilePosting, SpokenFits
    <2>2. EachOwn(run'.kept, threads', Spoken \cup comments)
        BY <1>11, <2>1, OwnPosted
    <2>. QED  BY <2>1, <2>2, OwnWeakens
<1>12. Posting => run.pc \in {"effects", "put", "post"}  BY DEF Posting, Ready
<1>13. CASE CommentsFirstSets
    <2>1. EachOwn(run'.kept, threads', run.found \ Suppressed)
        BY <1>8, <1>11, <1>12, <1>13 DEF CommentsFirstSets
    <2>. QED  BY <1>7, <1>13, <2>1 DEF CommentsFirstSets
<1>14. CASE PostReviewSets
    <2>1. ASSUME NEW event, ReviewIsPosted(event)
          PROVE  EachOwn(run'.kept, threads', run.found \ Suppressed)
        <3>1. PostedComments \subseteq Comments  BY DEF PostedComments
        <3>2. CASE run.pc = "approve"
            <4>1. PostedComments = {}  BY <3>2 DEF StagesFit, PostedComments
            <4>2. EachOwn(run'.kept, threads', (run.found \ Suppressed) \cup {})
                BY <2>1, <3>2, <4>1, OwnPosted DEF ReviewIsPosted, KeptFits
            <4>. QED  BY <4>2, OwnWeakens
        <3>. QED  BY <1>11, <1>12, <1>14, <2>1, <3>1, <3>2 DEF PostReviewSets, ReviewIsPosted
    <2>2. ASSUME run'.kept = run.kept, threads' = threads
          PROVE  EachOwn(run'.kept, threads', run.found \ Suppressed)
        BY <1>8, <1>12, <1>14, <2>2 DEF PostReviewSets, KeptFits
    <2>. QED  BY <1>1, <1>7, <1>14, <2>1, <2>2 DEF PostReviewSets, ReviewIsPosted
<1>15. CASE SupersedeSets
    BY <1>7, <1>15 DEF SupersedeSets, KeptFits
<1>16. CASE ResolveStaleSets
    <2>1. EachOwn(run'.kept, threads', run.found \ Suppressed) /\ DOMAIN threads' = DOMAIN threads
        BY <1>2, <1>16 DEF ResolveStaleSets, KeptFits
    <2>2. Suppressed' = Suppressed /\ run'.found = run.found
        BY <1>16, ClassesSteady DEF ResolveStaleSets, Steady
    <2>. QED  BY <1>16, <2>1, <2>2 DEF ResolveStaleSets, KeptFits
<1>17. CASE PushSets  BY <1>3, <1>17 DEF PushSets
<1>. QED
    BY <1>1, <1>3, <1>4, <1>5, <1>9, <1>10, <1>13, <1>14, <1>15, <1>16, <1>17
    DEF ReviewEffects, RunsEffects, CommandSets, ResolvedByOther, StartRunSets,
        ReadReviewsSets, DismissStaleSets

\* What is proved of the runs before the properties of their end.
RunsFit == ReviewsFit /\ SevereKnown /\ StagesFit /\ KeptFits

LEMMA RunsFitStep == ASSUME RunsFit, [ReviewNext]_reviewVars PROVE RunsFit'
<1>1. CASE ReviewNext
    BY <1>1, ReviewNextEffect, ReviewStepFits, EventStep, OpenReadStep, StagesStep, KeptStep
    DEF RunsFit, SevereKnown
<1>2. CASE UNCHANGED reviewVars
    <2>1. run' = run /\ threads' = threads  BY <1>2 DEF reviewVars
    <2>2. Unread  BY <2>1 DEF Unread
    <2>3. StagesFit'  BY <2>1, <2>2, DecisionsSteady DEF RunsFit, StagesFit
    <2>4. KeptFits'
        <3>1. /\ Matched(run.threads)' = Matched(run.threads) /\ Suppressed' = Suppressed
              /\ Reopenable(run.threads)' = Reopenable(run.threads)
            BY <2>2, DecisionsSteady
        <3>2. Spoken' = Spoken  BY <2>1, <3>1 DEF Spoken
        <3>. QED  BY <2>1, <3>1, <3>2 DEF RunsFit, KeptFits
    <2>5. SevereKnown'  BY <2>1 DEF RunsFit, SevereKnown, EventFits, OpenRead
    <2>. QED  BY <1>2, <2>3, <2>4, <2>5, StutterFits DEF RunsFit
<1>. QED  BY <1>1, <1>2

LEMMA ReviewRunsFit == ReviewSpec => []RunsFit
<1>1. ASSUME Init PROVE RunsFit
    <2>1. run.pc = "idle" /\ run.event = "COMMENT" /\ threads = <<>>
        BY <1>1 DEF Init, Fresh
    <2>. QED  BY <1>1, <2>1, InitReviewsFit
              DEF RunsFit, SevereKnown, EventFits, OpenRead, StagesFit, KeptFits
<1>2. RunsFit /\ [ReviewNext]_reviewVars => RunsFit'  BY RunsFitStep
<1>. QED  BY <1>1, <1>2, PTL DEF ReviewSpec

\* A clean run leaves one open thread for a finding at most, and none for a finding that
\* it does not report or that was dismissed: the cleanup resolves every open thread but
\* those kept, and each of the kept ones has a reported finding of its own.
THEOREM CleanRunsTidy == ReviewSpec => []CleanRunTidies
<1>1. Init => CleanRunTidies  BY DEF Init, CleanRunTidies, EndedClean
<1>2. ASSUME RunsFit, CleanRunTidies, ReviewEffects PROVE CleanRunTidies'
    <2>0. threads \in Seq(ThreadType)  BY <1>2 DEF RunsFit, ReviewsFit, ReviewsTypeOK
    <2>1. ASSUME run'.pc # "idle" \/ ~run'.clean PROVE CleanRunTidies'
        BY <2>1 DEF CleanRunTidies, EndedClean
    <2>2. ASSUME SameRun, SameThreads,
                 \A j \in DOMAIN threads : threads'[j].open => threads[j].open
          PROVE  CleanRunTidies'
        <3>1. Suppressed' = Suppressed  BY <2>2, ClassesSteady DEF SameRun
        <3>2. DOMAIN threads' = DOMAIN threads  BY <2>0, <2>2 DEF SameThreads
        <3>3. EndedClean' => EndedClean  BY <2>2 DEF SameRun, EndedClean
        <3>4. CASE ~EndedClean'  BY <3>4 DEF CleanRunTidies
        <3>5. CASE EndedClean'
            <4>1. \A i \in DOMAIN threads : threads[i].open =>
                    /\ threads[i].finding \in run.found \ Suppressed
                    /\ \A j \in DOMAIN threads \ {i} :
                           threads[j].open => threads[j].finding # threads[i].finding
                BY <1>2, <3>3, <3>5 DEF CleanRunTidies
            <4>2. run'.found = run.found  BY <2>2 DEF SameRun
            <4>3. \A i \in DOMAIN threads' : threads'[i].open =>
                    /\ threads'[i].finding \in run'.found \ Suppressed'
                    /\ \A j \in DOMAIN threads' \ {i} :
                           threads'[j].open => threads'[j].finding # threads'[i].finding
                BY <2>2, <3>1, <3>2, <4>1, <4>2 DEF SameThreads
            <4>. QED  BY <4>3 DEF CleanRunTidies
        <3>. QED  BY <3>4, <3>5
    <2>3. CASE DismissStaleSets
        <3>1. CASE ~run'.clean  BY <2>1, <3>1
        <3>2. CASE run'.clean
            <4>1. run.pc = "dismiss" /\ run.clean /\ threads' = threads
                  /\ run'.found = run.found /\ Suppressed' = Suppressed
                BY <2>3, <3>2, ClassesSteady DEF DismissStaleSets, Steady
            <4>2. /\ EachOwn(run.kept, threads, run.found \ Suppressed)
                  /\ \A i \in DOMAIN threads : threads[i].open => i \in run.kept
                BY <1>2, <4>1 DEF RunsFit, KeptFits
            <4>. QED  BY <4>1, <4>2 DEF EachOwn, CleanRunTidies
        <3>. QED  BY <3>1, <3>2
    <2>4. CASE PushSets  BY <2>2, <2>4 DEF PushSets
    <2>. QED
        BY <1>2, <2>1, <2>2, <2>3, <2>4
        DEF ReviewEffects, RunsEffects, CommandSets, ResolvedByOther, StartRunSets,
            ReadReviewsSets, ReadThreadsSets, ReopenSets, RecheckSets, PutSets,
            CommentsFirstSets, PostReviewSets, ReviewIsPosted, SupersedeSets, ResolveStaleSets
<1>3. CleanRunTidies /\ UNCHANGED reviewVars => CleanRunTidies'
    <2>1. ASSUME CleanRunTidies, UNCHANGED reviewVars PROVE CleanRunTidies'
        <3>1. run' = run /\ threads' = threads /\ runs' = runs  BY <2>1 DEF reviewVars
        <3>2. Suppressed' = Suppressed  BY <3>1, ClassesSteady
        <3>. QED  BY <2>1, <3>1, <3>2 DEF CleanRunTidies, EndedClean
    <2>. QED  BY <2>1
<1>4. RunsFit /\ CleanRunTidies /\ [ReviewNext]_reviewVars => CleanRunTidies'
    BY <1>2, <1>3, ReviewNextEffect DEF RunsFit
<1>. QED  BY <1>1, <1>4, ReviewRunsFit, PTL DEF ReviewSpec

-----------------------------------------------------------------------------
(* Verdicts and threads *)

\* What a step can have made of the body of a review.
BodyFrom(body, j) ==
    \/ j \in DOMAIN reviews /\ body = reviews[j].body
    \/ body = EmptyBody
    \/ body = RenderedBody
    \/ \E f, mark : CommandSets(f, mark) /\ body.verdict = [MergeVerdicts(reviews) EXCEPT ![f] = mark]

BodiesFrom == \A j \in DOMAIN reviews' : BodyFrom(reviews'[j].body, j)

LEMMA SameBodies ==
    ASSUME reviews \in Seq(ReviewType), reviews' \in Seq(ReviewType),
           Len(reviews') = Len(reviews),
           \A j \in DOMAIN reviews : reviews'[j].body = reviews[j].body
    PROVE  BodiesFrom
BY DEF BodiesFrom, BodyFrom

LEMMA BodiesStep == ASSUME ReviewsFit, ReviewEffects PROVE BodiesFrom
<1>0. reviews \in Seq(ReviewType)  BY DEF ReviewsFit, ReviewsTypeOK
<1>1. ASSUME reviews' = reviews PROVE BodiesFrom  BY <1>0, <1>1, SameBodies
<1>2. ASSUME NEW ids, reviews' = Dismissed(ids) PROVE BodiesFrom
    BY <1>0, <1>2, DismissedFits, SameBodies DEF ReviewsDismissed
<1>3. ASSUME reviews' = Append(reviews, EmptyReview) PROVE BodiesFrom
    <2>1. \A j \in DOMAIN reviews' : \/ j \in DOMAIN reviews /\ reviews'[j] = reviews[j]
                                     \/ reviews'[j] = EmptyReview
        BY <1>0, <1>3
    <2>2. EmptyReview.body = EmptyBody  BY DEF EmptyReview
    <2>. QED  BY <2>1, <2>2 DEF BodiesFrom, BodyFrom
<1>4. ASSUME NEW n, NEW event, ReviewsPosted(n, event) PROVE BodiesFrom
    BY <1>0, <1>4 DEF ReviewsPosted, BodiesFrom, BodyFrom
<1>5. CASE PutSets
    <2>1. CASE reviews' = Rewritten(Canon, RenderedBody)
        <3>1. reviews' = WithBody(reviews, Canon, RenderedBody)
            BY <2>1 DEF Rewritten, WithBody
        <3>2. BodySet(reviews', reviews, Canon, RenderedBody)
            BY <1>0, <3>1, RewrittenFits, RenderedFits DEF ReviewsFit
        <3>3. DOMAIN reviews' = DOMAIN reviews  BY <1>0, <3>2 DEF BodySet
        <3>. QED  BY <3>2, <3>3 DEF BodySet, BodiesFrom, BodyFrom
    <2>. QED  BY <1>1, <1>5, <2>1 DEF PutSets
<1>6. ASSUME NEW f, NEW mark, CommandSets(f, mark) PROVE BodiesFrom
    <2>1. /\ reviews' \in Seq(ReviewType) /\ Len(reviews') = Len(reviews)
          /\ \A j \in DOMAIN reviews :
                 \/ reviews'[j].body = reviews[j].body
                 \/ reviews'[j].body.verdict = [MergeVerdicts(reviews) EXCEPT ![f] = mark]
        BY <1>6 DEF CommandSets, VerdictAdded
    <2>2. DOMAIN reviews' = DOMAIN reviews  BY <1>0, <2>1
    <2>. QED  BY <1>6, <2>1, <2>2 DEF BodiesFrom, BodyFrom
<1>. QED
    BY <1>1, <1>2, <1>3, <1>4, <1>5, <1>6
    DEF ReviewEffects, RunsEffects, StartRunSets, PushSets, ReadReviewsSets, ReadThreadsSets,
        ReopenSets, RecheckSets, CommentsFirstSets, PostReviewSets, ReviewIsPosted,
        SupersedeSets, ResolveStaleSets, DismissStaleSets

\* A verdict is carried over from a body that has one.
LEMMA MergedHasSource ==
    ASSUME NEW revs \in Seq(ReviewType), VerdictsShown(revs), NEW f \in Inline,
           MergeVerdicts(revs)[f] # "none"
    PROVE  CarriedBy(threads, f) # {}
<1>1. f \in Findings  BY FindingsAssumption
<1>2. PICK i \in DOMAIN revs : revs[i].body.verdict[f] # "none"
    BY <1>1, MergeVerdictsFits
<1>. QED  BY <1>2 DEF VerdictsShown

LEMMA PriorHasSource ==
    ASSUME ReviewsFit, VerdictShown, NEW f \in Inline, Prior[f] # "none"
    PROVE  CarriedBy(threads, f) # {}
BY MergedHasSource DEF Prior, VerdictShown, ReviewsFit, ReviewsTypeOK, RunType

LEMMA VerdictsShownStep ==
    ASSUME ReviewsFit, VerdictShown, ReviewEffects, Grown
    PROVE  VerdictsShown(reviews)' /\ VerdictsShown(run.reviews)'
<1>1. ASSUME NEW f, CarriedBy(threads, f) # {} PROVE CarriedBy(threads', f) # {}
    BY <1>1 DEF CarriedBy, Grown
<1>2. ASSUME NEW f \in Inline, NEW j \in DOMAIN reviews',
             reviews'[j].body.verdict[f] # "none"
      PROVE  CarriedBy(threads', f) # {}
    <2>1. BodyFrom(reviews'[j].body, j)  BY BodiesStep DEF BodiesFrom
    <2>2. f \in Findings  BY FindingsAssumption
    <2>3. CASE j \in DOMAIN reviews /\ reviews'[j].body = reviews[j].body
        BY <1>1, <1>2, <2>3 DEF VerdictShown, VerdictsShown
    <2>4. CASE reviews'[j].body = EmptyBody
        BY <1>2, <2>2, <2>4 DEF EmptyBody, NoVerdicts
    <2>5. CASE reviews'[j].body = RenderedBody
        <3>1. UpdatedVerdicts[f] # "none"  BY <1>2, <2>5 DEF RenderedBody
        <3>2. Prior[f] # "none"  BY <2>2, <3>1 DEF UpdatedVerdicts, Recurred
        <3>. QED  BY <1>1, <3>2, PriorHasSource
    <2>6. ASSUME NEW g, NEW mark, CommandSets(g, mark),
                 reviews'[j].body.verdict = [MergeVerdicts(reviews) EXCEPT ![g] = mark]
          PROVE  CarriedBy(threads', f) # {}
        <3>1. reviews \in Seq(ReviewType)  BY DEF ReviewsFit, ReviewsTypeOK
        <3>2. CASE f = g  BY <1>1, <2>6, <3>2 DEF CommandSets
        <3>3. CASE f # g
            <4>1. MergeVerdicts(reviews)[f] # "none"
                BY <1>2, <2>2, <2>6, <3>1, <3>3, MergeVerdictsFits
            <4>. QED  BY <1>1, <3>1, <4>1, MergedHasSource DEF VerdictShown
        <3>. QED  BY <3>2, <3>3
    <2>. QED  BY <2>1, <2>3, <2>4, <2>5, <2>6 DEF BodyFrom
<1>3. VerdictsShown(reviews)'  BY <1>2 DEF VerdictsShown
<1>4. CASE run'.reviews = run.reviews
    <2>1. VerdictsShown(run.reviews)  BY DEF VerdictShown
    <2>. QED  BY <1>1, <1>3, <1>4, <2>1 DEF VerdictsShown
<1>5. CASE run'.reviews = reviews
    <2>1. VerdictsShown(reviews)  BY DEF VerdictShown
    <2>. QED  BY <1>1, <1>3, <1>5, <2>1 DEF VerdictsShown
<1>6. CASE run'.reviews = <<>>  BY <1>3, <1>6 DEF VerdictsShown
<1>. QED
    BY <1>4, <1>5, <1>6
    DEF ReviewEffects, RunsEffects, StartRunSets, PushSets, ReadReviewsSets, ReadThreadsSets,
        ReopenSets, RecheckSets, PutSets, CommentsFirstSets, PostReviewSets, SupersedeSets,
        ResolveStaleSets, DismissStaleSets, Steady, SameRun, CommandSets, ResolvedByOther

LEMMA VerdictShownStep == ASSUME ReviewsFit, VerdictShown, ReviewEffects PROVE VerdictShown'
<1>1. Grown  BY RunsGrow, CommandsGrow DEF ReviewEffects, ReviewsFit
<1>2. VerdictsShown(reviews)' /\ VerdictsShown(run.reviews)'  BY <1>1, VerdictsShownStep
<1>. DEFINE Back == Recurred \cap Inline \subseteq Reopenable(run.threads)
<1>3. ASSUME run'.pc \notin {"effects", "put", "post", "approve"} PROVE VerdictShown'
    BY <1>2, <1>3 DEF VerdictShown
<1>4. ASSUME run.pc \in {"effects", "put", "post", "approve"}, run'.complete = run.complete,
             Recurred' = Recurred, Reopenable(run.threads)' = Reopenable(run.threads)
      PROVE  VerdictShown'
    BY <1>2, <1>4 DEF VerdictShown
<1>5. ASSUME Unread, run.pc \in {"effects", "put", "post", "approve"} PROVE VerdictShown'
    <2>1. Recurred' = Recurred /\ Reopenable(run.threads)' = Reopenable(run.threads)
        BY <1>5, DecisionsSteady
    <2>. QED  BY <1>4, <1>5, <2>1 DEF Unread
<1>6. CASE SameRun
    <2>1. Unread  BY <1>6 DEF SameRun, Unread
    <2>. QED  BY <1>3, <1>5, <1>6, <2>1 DEF SameRun
<1>7. CASE ReadThreadsSets
    <2>1. Recurred' = Recurred  BY <1>7, ClassesSteady DEF ReadThreadsSets, Steady
    <2>2. ASSUME run'.complete, NEW f \in Recurred \cap Inline
          PROVE  f \in Reopenable(run.threads)'
        <3>1. CarriedBy(threads, f) # {}  BY <2>2, PriorHasSource DEF Recurred
        <3>2. run'.threads = threads  BY <1>7, <2>2 DEF ReadThreadsSets
        <3>. QED  BY <2>1, <2>2, <3>1, <3>2 DEF Reopenable, CarriedBy
    <2>. QED  BY <1>2, <2>1, <2>2 DEF VerdictShown
<1>8. ASSUME NEW f, NEW i, NEW reopened, ReopenSets(f, i, reopened) PROVE VerdictShown'
    <2>1. Recurred' = Recurred  BY <1>8, ClassesSteady DEF ReopenSets, Steady
    <2>2. Reopenable(run.threads)' = Reopenable(run.threads)
        BY <1>8, ReopenClasses DEF ReviewsFit
    <2>. QED  BY <1>4, <1>8, <2>1, <2>2 DEF ReopenSets
<1>9. ASSUME SameCopies, Steady, run.pc \in {"effects", "put", "post", "approve"}
      PROVE VerdictShown'
    BY <1>5, <1>9 DEF Unread, SameCopies, Steady
<1>10. Posting => run.pc \in {"effects", "put", "post", "approve"}  BY DEF Posting, Ready
<1>. QED
    BY <1>3, <1>6, <1>7, <1>8, <1>9, <1>10
    DEF ReviewEffects, RunsEffects, StartRunSets, PushSets, ReadReviewsSets, RecheckSets,
        PutSets, CommentsFirstSets, PostReviewSets, ReviewIsPosted, SupersedeSets,
        ResolveStaleSets, DismissStaleSets, CommandSets, ResolvedByOther, Ready

-----------------------------------------------------------------------------
(* What stays visible *)

\* What a run reports is spoken for by a thread, posted as a thread or listed.
LEMMA ReportedSomewhere ==
    ASSUME run.todo = {}, NEW f \in run.found \ Suppressed
    PROVE  f \in Spoken \/ f \in Comments \/ f \in Bullets
BY DEF Spoken, Comments, Bullets, Rendered, New, Reopenable

LEMMA SpokenSteady ==
    ASSUME Steady, SameCopies
    PROVE  Spoken' = Spoken /\ Comments' = Comments
<1>1. Unread  BY DEF Steady, SameCopies, Unread
<1>2. /\ Matched(run.threads)' = Matched(run.threads) /\ Comments' = Comments
      /\ Reopenable(run.threads)' = Reopenable(run.threads)
    BY <1>1, DecisionsSteady
<1>. QED  BY <1>2 DEF Spoken, SameCopies

\* A kept thread stays kept and open.
LEMMA KeptStays ==
    ASSUME NEW f, Kept(f), run.kept \subseteq run'.kept, Recurred' = Recurred,
           \A j \in DOMAIN threads : /\ j \in DOMAIN threads'
                                     /\ threads'[j].outdated = threads[j].outdated
                                     /\ threads'[j].finding = threads[j].finding
                                     /\ j \in run.kept /\ threads[j].open => threads'[j].open
    PROVE  Kept(f)'
BY DEF Kept

LEMMA PostedKeeps ==
    ASSUME ReviewsFit, NEW comments, ThreadsPosted(comments), run'.kept = Registered,
           Recurred' = Recurred
    PROVE  /\ \A f : Kept(f) => Kept(f)'
           /\ \A f \in comments : Kept(f)'
<1>1. /\ Len(threads) \in Nat /\ Len(threads') \in Nat /\ Len(threads) <= Len(threads')
      /\ DOMAIN threads = 1..Len(threads) /\ DOMAIN threads' = 1..Len(threads')
    BY DEF ReviewsFit, ReviewsTypeOK, ThreadsPosted
<1>2. Added \subseteq DOMAIN threads' /\ DOMAIN threads \subseteq DOMAIN threads'
    BY <1>1 DEF Added
<1>3. ASSUME NEW f, Kept(f) PROVE Kept(f)'
    BY <1>2, <1>3, KeptStays DEF ThreadsPosted, Registered
<1>4. ASSUME NEW f \in comments PROVE Kept(f)'
    <2>1. PICK i \in Added : threads'[i].review = Len(reviews') /\ threads'[i].finding = f
        BY DEF ThreadsPosted
    <2>2. i \in run'.kept /\ threads'[i].open /\ ~threads'[i].outdated /\ i \in DOMAIN threads'
        BY <1>2, <2>1 DEF Registered, ThreadsPosted
    <2>. QED  BY <2>1, <2>2 DEF Kept
<1>. QED  BY <1>3, <1>4

\* The review just posted is the last one and has the body of the run.
LEMMA PostedLast ==
    ASSUME ReviewsFit, NEW n, NEW event, ReviewsPosted(n, event)
    PROVE  /\ Len(reviews') \in DOMAIN reviews' /\ Len(reviews') > Len(run.reviews)
           /\ reviews'[Len(reviews')].body = RenderedBody
           /\ reviews'[Len(reviews')].state = StateOf(event)
<1>1. /\ Len(reviews) \in Nat /\ n \in 1..2 /\ Len(reviews') = Len(reviews) + n
      /\ Len(run.reviews) \in Nat /\ Len(run.reviews) <= Len(reviews)
      /\ DOMAIN reviews = 1..Len(reviews) /\ DOMAIN reviews' = 1..Len(reviews')
    BY DEF ReviewsFit, ReviewsTypeOK, CopiesFit, RunType, ReviewsPosted
<1>2. Len(reviews') \in DOMAIN reviews' \ DOMAIN reviews /\ Len(reviews') > Len(run.reviews)
    BY <1>1
<1>. QED  BY <1>2 DEF ReviewsPosted

\* The run can still vouch for what it reports.
Undisturbed == run.clean /\ run.alone /\ ~run.moved

LEMMA AliveReading ==
    ASSUME ReviewsFit, ReadThreadsSets, run'.clean, NEW f \in Spoken'
    PROVE  Kept(f)'
<1>1. threads' = threads /\ run'.threads = threads /\ run'.kept = Claimed(threads)
    BY DEF ReadThreadsSets
<1>2. threads \in Seq(ThreadType)  BY DEF ReviewsFit, ReviewsTypeOK
<1>3. Matched(run.threads)' = Matched(threads)
    BY <1>1, ClassesSteady DEF ReadThreadsSets, Steady, Matched, OpenOf
<1>4. run'.todo = Reopenable(run.threads)'
    BY ClassesSteady DEF ReadThreadsSets, Steady, Reopenable
<1>5. f \in Matched(threads)  BY <1>3, <1>4 DEF Spoken
<1>6. PICK i \in Claimed(threads) : i \in OpenOf(threads, f) /\ ~threads[i].outdated
    BY <1>2, <1>5, MatchedIsClaimed
<1>. QED  BY <1>1, <1>6 DEF Kept, OpenOf

LEMMA AliveReopening ==
    ASSUME ReviewsFit, \A g \in Spoken : Kept(g), NEW f, NEW i, NEW reopened,
           ReopenSets(f, i, reopened), run'.clean, NEW g \in Spoken'
    PROVE  Kept(g)'
<1>1. /\ Matched(run.threads)' = Matched(run.threads)
      /\ Reopenable(run.threads)' = Reopenable(run.threads)
    BY ReopenClasses DEF ReviewsFit
<1>2. run'.todo = run.todo \ {f} /\ reopened /\ run'.kept = run.kept \cup {i}
    BY DEF ReopenSets
<1>3. g \in Spoken \/ g = f  BY <1>1, <1>2 DEF Spoken
<1>4. threads \in Seq(ThreadType)  BY DEF ReviewsFit, ReviewsTypeOK
<1>5. DOMAIN threads' = DOMAIN threads  BY <1>4 DEF ReopenSets, SameThreads
<1>6. Recurred' = Recurred  BY ClassesSteady DEF ReopenSets, Steady
<1>7. f \in Recurred  BY DEF ReviewsFit, ReopenSets, CopiesFit, Reopenable
<1>8. ASSUME Kept(g) PROVE Kept(g)'
    BY <1>2, <1>5, <1>6, <1>8, KeptStays DEF ReopenSets, SameThreads, SameView
<1>9. CASE g = f
    <2>1. i \in DOMAIN run.threads /\ run.threads[i].finding = f
        BY DEF ReopenSets, CarriedBy
    <2>2. i \in DOMAIN threads /\ threads[i].finding = f
        BY <2>1 DEF ReviewsFit, CopiesFit
    <2>3. threads'[i].open /\ threads'[i].finding = f
        BY <1>2, <2>2 DEF ReopenSets, SameThreads
    <2>. QED  BY <1>2, <1>5, <1>6, <1>7, <1>9, <2>2, <2>3 DEF Kept
<1>. QED  BY <1>3, <1>8, <1>9

\* A review that is put back says all that no thread says.
LEMMA AlivePutting ==
    ASSUME ReviewsFit, StagesFit, VerdictShown, Alive, Undisturbed, PutSets, run'.clean
    PROVE  Alive'
<1>0. reviews \in Seq(ReviewType)  BY DEF ReviewsFit, ReviewsTypeOK
<1>1. /\ run.pc = "put" /\ run'.pc = "stale" /\ run'.landed = Canon /\ threads' = threads
      /\ reviews' = WithBody(reviews, Canon, RenderedBody) /\ Steady /\ SameCopies
      /\ run'.kept = run.kept
    BY DEF PutSets, Rewritten, WithBody
<1>2. Reuses /\ run.complete  BY <1>1 DEF StagesFit, Undisturbed
<1>3. Canon \in DOMAIN reviews
    <2>1. Canon \in Nat \ {0} /\ Canon <= Len(run.reviews) /\ Len(run.reviews) \in Nat
        BY <1>2, CanonFits DEF Reuses, ReviewsFit
    <2>. QED  BY <1>0, <2>1 DEF ReviewsFit, CopiesFit
<1>4. /\ Canon \in DOMAIN reviews' /\ reviews'[Canon].body = RenderedBody
    BY <1>0, <1>1, <1>3, RewrittenFits, RenderedFits DEF BodySet, ReviewsFit
<1>5. run.todo = {}  BY <1>1 DEF ReviewsFit, CopiesFit
<1>6. Comments = {}
    <2>1. Recurred \cap Inline \subseteq Reopenable(run.threads)
        BY <1>1, <1>2 DEF VerdictShown
    <2>2. New(run.threads) \cap Inline = {}  BY <1>2 DEF Reuses
    <2>. QED  BY <2>1, <2>2 DEF Comments, Rendered
<1>7. \A f \in run.found \ Suppressed : Kept(f) \/ f \in Bullets
    BY <1>1, <1>5, <1>6, ReportedSomewhere DEF Alive, Undisturbed
<1>8. \A f : Kept(f) => Kept(f)'
    <2>1. Recurred' = Recurred  BY <1>1, ClassesSteady DEF Steady
    <2>. QED  BY <1>1, <2>1 DEF Kept
<1>9. run'.found = run.found /\ Suppressed' = Suppressed
    BY <1>1, ClassesSteady DEF Steady
<1>10. RenderedBody.bullets = Bullets  BY DEF RenderedBody
<1>. QED  BY <1>1, <1>4, <1>7, <1>8, <1>9, <1>10 DEF Alive

LEMMA AlivePosting ==
    ASSUME ReviewsFit, StagesFit, Alive, Undisturbed, PostReviewSets,
           NEW event, ReviewIsPosted(event), run'.clean
    PROVE  Alive'
<1>1. /\ ThreadsPosted(PostedComments) /\ run'.kept = Registered
      /\ run'.landed = Len(reviews') /\ run'.pc \in {"supersede", "stale"} /\ Steady
    BY DEF ReviewIsPosted, PostReviewSets
<1>2. Len(reviews') \in DOMAIN reviews' /\ reviews'[Len(reviews')].body = RenderedBody
    BY PostedLast DEF ReviewIsPosted
<1>3. /\ \A f : Kept(f) => Kept(f)'
      /\ \A f \in PostedComments : Kept(f)'
    <2>1. Recurred' = Recurred  BY <1>1, ClassesSteady DEF Steady
    <2>. QED  BY <1>1, <2>1, PostedKeeps
<1>4. run.pc \in {"effects", "put", "post", "approve"} /\ run.todo = {}
    BY DEF PostReviewSets, Posting, Ready, ReviewsFit, CopiesFit
<1>5. \A f \in Spoken : Kept(f)'  BY <1>3, <1>4 DEF Alive, Undisturbed
<1>6. \A f \in Comments : Kept(f)'
    <2>1. CASE run.pc = "approve"  BY <1>3, <2>1 DEF Alive, Undisturbed
    <2>2. CASE RenderEvent # "APPROVE"  BY <1>3, <2>2 DEF PostedComments
    <2>. QED  BY <2>1, <2>2 DEF PostReviewSets
<1>7. \A f \in run.found \ Suppressed : Kept(f)' \/ f \in Bullets
    BY <1>4, <1>5, <1>6, ReportedSomewhere
<1>8. run'.found = run.found /\ Suppressed' = Suppressed
    BY <1>1, ClassesSteady DEF Steady
<1>9. RenderedBody.bullets = Bullets  BY DEF RenderedBody
<1>. QED  BY <1>1, <1>2, <1>7, <1>8, <1>9 DEF Alive

LEMMA AliveStep ==
    ASSUME ReviewsFit, StagesFit, VerdictShown, Alive, ReviewEffects PROVE Alive'
<1>0. threads \in Seq(ThreadType) /\ reviews \in Seq(ReviewType)
    BY DEF ReviewsFit, ReviewsTypeOK
<1>1. ASSUME ~Undisturbed' PROVE Alive'  BY <1>1 DEF Alive, Undisturbed
<1>2. ASSUME run'.pc \in {"idle", "reviews", "threads"} PROVE Alive'  BY <1>2 DEF Alive
<1>3. Steady /\ Undisturbed' => Undisturbed  BY DEF Steady, Undisturbed
<1>4. CASE PushSets \/ ResolvedByOther
    BY <1>1, <1>4 DEF PushSets, ResolvedByOther, Undisturbed
<1>5. CASE ReadThreadsSets
    BY <1>1, <1>5, AliveReading DEF ReadThreadsSets, Alive, Undisturbed
<1>6. ASSUME NEW f, NEW i, NEW reopened, ReopenSets(f, i, reopened), Undisturbed' PROVE Alive'
    <2>1. Undisturbed  BY <1>3, <1>6 DEF ReopenSets
    <2>2. \A g \in Spoken : Kept(g)  BY <1>6, <2>1 DEF ReopenSets, Alive, Undisturbed
    <2>3. run'.clean /\ run'.pc = "effects"  BY <1>6 DEF Undisturbed, ReopenSets
    <2>4. \A g \in Spoken' : Kept(g)'  BY <1>6, <2>2, <2>3, AliveReopening
    <2>. QED  BY <2>3, <2>4 DEF Alive
<1>7. ASSUME RecheckSets, Undisturbed' PROVE Alive'
    <2>1. Undisturbed /\ run'.pc \in {"put", "post"} /\ run.pc = "effects"
        BY <1>3, <1>7 DEF RecheckSets, Steady, Undisturbed, Ready
    <2>2. Spoken' = Spoken  BY <1>7, SpokenSteady DEF RecheckSets
    <2>3. \A f : Kept(f) => Kept(f)'
        <3>1. Recurred' = Recurred  BY <1>7, ClassesSteady DEF RecheckSets, Steady
        <3>. QED  BY <1>7, <3>1 DEF RecheckSets, Kept
    <2>4. \A f \in Spoken : Kept(f)  BY <2>1 DEF Alive, Undisturbed
    <2>. QED  BY <2>1, <2>2, <2>3, <2>4 DEF Alive
<1>8. ASSUME PutSets, Undisturbed' PROVE Alive'
    BY <1>3, <1>8, AlivePutting DEF PutSets, Undisturbed
<1>9. ASSUME CommentsFirstSets, Undisturbed' PROVE Alive'
    <2>1. Undisturbed /\ run.pc \in {"effects", "post"} /\ run'.pc = "approve"
        BY <1>3, <1>9 DEF CommentsFirstSets, Posting, Ready
    <2>2. ThreadsPosted(Comments) /\ run'.kept = Registered
        BY <1>9 DEF CommentsFirstSets, Undisturbed
    <2>3. (\A f : Kept(f) => Kept(f)') /\ \A f \in Comments : Kept(f)'
        <3>1. Recurred' = Recurred  BY <1>9, ClassesSteady DEF CommentsFirstSets, Steady
        <3>. QED  BY <2>2, <3>1, PostedKeeps
    <2>4. Spoken' = Spoken /\ Comments' = Comments
        BY <1>9, SpokenSteady DEF CommentsFirstSets
    <2>5. \A f \in Spoken : Kept(f)  BY <2>1 DEF Alive, Undisturbed
    <2>. QED  BY <2>1, <2>3, <2>4, <2>5 DEF Alive
<1>10. ASSUME PostReviewSets, Undisturbed' PROVE Alive'
    BY <1>3, <1>10, AlivePosting DEF PostReviewSets, Undisturbed
<1>11. ASSUME Steady, run.pc \in {"supersede", "stale", "dismiss"},
              run'.pc \in {"supersede", "stale", "dismiss"}, run'.landed = run.landed,
              \A f : Kept(f) => Kept(f)', Undisturbed',
              \A j \in DOMAIN reviews : j \in DOMAIN reviews' /\ reviews'[j].body = reviews[j].body
       PROVE  Alive'
    <2>1. Undisturbed  BY <1>3, <1>11
    <2>2. run'.found = run.found /\ Suppressed' = Suppressed
        BY <1>11, ClassesSteady DEF Steady
    <2>3. /\ run.landed \in DOMAIN reviews
          /\ \A f \in run.found \ Suppressed :
                Kept(f) \/ f \in reviews[run.landed].body.bullets
        BY <1>11, <2>1 DEF Alive, Undisturbed
    <2>. QED  BY <1>11, <2>2, <2>3 DEF Alive
<1>12. ASSUME SupersedeSets, Undisturbed' PROVE Alive'
    <2>1. \A f : Kept(f) => Kept(f)'
        <3>1. Recurred' = Recurred  BY <1>12, ClassesSteady DEF SupersedeSets, Steady
        <3>. QED  BY <1>12, <3>1 DEF SupersedeSets, Kept
    <2>2. \A j \in DOMAIN reviews : j \in DOMAIN reviews' /\ reviews'[j].body = reviews[j].body
        BY <1>0, <1>12, DismissedFits DEF SupersedeSets, ReviewsDismissed
    <2>. QED  BY <1>11, <1>12, <2>1, <2>2 DEF SupersedeSets
<1>13. ASSUME ResolveStaleSets, Undisturbed' PROVE Alive'
    <2>1. DOMAIN threads' = DOMAIN threads  BY <1>0, <1>13 DEF ResolveStaleSets, SameThreads
    <2>2. \A f : Kept(f) => Kept(f)'
        <3>1. Recurred' = Recurred  BY <1>13, ClassesSteady DEF ResolveStaleSets, Steady
        <3>. QED  BY <1>13, <2>1, <3>1, KeptStays DEF ResolveStaleSets, SameThreads, SameView
    <2>3. \A j \in DOMAIN reviews : j \in DOMAIN reviews' /\ reviews'[j].body = reviews[j].body
        BY <1>13 DEF ResolveStaleSets
    <2>. QED  BY <1>11, <1>13, <2>2, <2>3 DEF ResolveStaleSets
<1>. QED
    BY <1>1, <1>2, <1>4, <1>5, <1>6, <1>7, <1>8, <1>9, <1>10, <1>12, <1>13
    DEF ReviewEffects, RunsEffects, CommandSets, StartRunSets, ReadReviewsSets,
        DismissStaleSets

VisibleFits == VerdictShown /\ Alive

LEMMA ReviewVisibleFits == ReviewSpec => []VisibleFits
<1>1. ASSUME Init PROVE VisibleFits
    <2>1. run = Fresh /\ reviews = <<>>  BY <1>1 DEF Init
    <2>2. run.pc = "idle" /\ run.reviews = <<>>  BY <2>1 DEF Fresh
    <2>. QED  BY <2>1, <2>2 DEF VisibleFits, VerdictShown, VerdictsShown, Alive
<1>2. ASSUME VisibleFits, UNCHANGED reviewVars PROVE VisibleFits'
    <2>1. run' = run /\ threads' = threads /\ reviews' = reviews  BY <1>2 DEF reviewVars
    <2>2. Unread  BY <2>1 DEF Unread
    <2>3. /\ Matched(run.threads)' = Matched(run.threads) /\ Suppressed' = Suppressed
          /\ Reopenable(run.threads)' = Reopenable(run.threads) /\ Recurred' = Recurred
          /\ Comments' = Comments
        BY <2>2, DecisionsSteady
    <2>4. Spoken' = Spoken /\ \A f : Kept(f)' <=> Kept(f)  BY <2>1, <2>3 DEF Spoken, Kept
    <2>5. VerdictsShown(reviews)' /\ VerdictsShown(run.reviews)'
        BY <1>2, <2>1 DEF VisibleFits, VerdictShown, VerdictsShown, CarriedBy
    <2>. QED  BY <1>2, <2>1, <2>3, <2>4, <2>5 DEF VisibleFits, VerdictShown, Alive
<1>3. RunsFit /\ VisibleFits /\ [ReviewNext]_reviewVars => VisibleFits'
    BY <1>2, ReviewNextEffect, VerdictShownStep, AliveStep DEF RunsFit, VisibleFits
<1>. QED  BY <1>1, <1>3, ReviewRunsFit, PTL DEF ReviewSpec

\* A clean run during which nobody pushes or resolves anything leaves every finding it
\* reports in an open thread that is not outdated or in the body of its review: what is
\* matched or posted is kept when the run cleans up, and what has no line of the diff is
\* listed.  Only a finding that recurred may have an outdated thread alone, reopened.
THEOREM ReportedStaysVisible == ReviewSpec => []FindingsStayVisible
<1>1. Init => FindingsStayVisible  BY DEF Init, FindingsStayVisible, EndedClean
<1>2. ASSUME RunsFit, VisibleFits, FindingsStayVisible, ReviewEffects
      PROVE  FindingsStayVisible'
    <2>0. threads \in Seq(ThreadType) /\ reviews \in Seq(ReviewType)
        BY <1>2 DEF RunsFit, ReviewsFit, ReviewsTypeOK
    <2>1. ASSUME run'.pc # "idle" \/ ~Undisturbed' PROVE FindingsStayVisible'
        BY <2>1 DEF FindingsStayVisible, EndedClean, Undisturbed
    <2>2. ASSUME DismissStaleSets, Undisturbed' PROVE FindingsStayVisible'
        <3>1. Undisturbed /\ run.pc = "dismiss" /\ threads' = threads
            BY <2>2 DEF DismissStaleSets, Steady, Undisturbed
        <3>2. /\ run.landed \in DOMAIN reviews
              /\ \A f \in run.found \ Suppressed :
                    Kept(f) \/ f \in reviews[run.landed].body.bullets
            BY <1>2, <3>1 DEF VisibleFits, Alive, Undisturbed
        <3>3. run'.found = run.found /\ Suppressed' = Suppressed /\ run'.landed = run.landed
            BY <2>2, ClassesSteady DEF DismissStaleSets, Steady
        <3>4. reviews'[run.landed].body = reviews[run.landed].body
            BY <2>0, <2>2, <3>2, DismissedFits DEF DismissStaleSets, ReviewsDismissed
        <3>5. Recurred' = Recurred  BY <2>2, ClassesSteady DEF DismissStaleSets, Steady
        <3>6. \A f : Kept(f) =>
                  \E i \in OpenOf(threads', f) : threads'[i].outdated => f \in Recurred'
            BY <3>1, <3>5 DEF Kept, OpenOf
        <3>. QED  BY <3>1, <3>2, <3>3, <3>4, <3>6 DEF FindingsStayVisible
    <2>3. CASE PushSets \/ ResolvedByOther
        BY <2>1, <2>3 DEF PushSets, ResolvedByOther, Undisturbed
    <2>. QED
        BY <1>2, <2>1, <2>2, <2>3
        DEF ReviewEffects, RunsEffects, CommandSets, StartRunSets,
            ReadReviewsSets, ReadThreadsSets, ReopenSets, RecheckSets, PutSets,
            CommentsFirstSets, PostReviewSets, ReviewIsPosted, SupersedeSets,
            ResolveStaleSets, Undisturbed
<1>3. ASSUME FindingsStayVisible, UNCHANGED reviewVars PROVE FindingsStayVisible'
    <2>1. run' = run /\ threads' = threads /\ runs' = runs /\ reviews' = reviews
        BY <1>3 DEF reviewVars
    <2>2. Suppressed' = Suppressed /\ Recurred' = Recurred  BY <2>1, ClassesSteady
    <2>. QED  BY <1>3, <2>1, <2>2 DEF FindingsStayVisible, EndedClean, OpenOf
<1>4. RunsFit /\ VisibleFits /\ FindingsStayVisible /\ [ReviewNext]_reviewVars
        => FindingsStayVisible'
    BY <1>2, <1>3, ReviewNextEffect DEF RunsFit
<1>. QED  BY <1>1, <1>4, ReviewRunsFit, ReviewVisibleFits, PTL DEF ReviewSpec

-----------------------------------------------------------------------------
(* What goes on blocking *)

Firm == run.clean /\ run.alone /\ run.event = "REQUEST_CHANGES"

LEMMA BlocksStep ==
    ASSUME ReviewsFit, StagesFit, Blocks, ReviewEffects PROVE Blocks'
<1>0. reviews \in Seq(ReviewType) /\ runs \in Nat  BY DEF ReviewsFit, ReviewsTypeOK
<1>1. ASSUME ~Firm' PROVE Blocks'  BY <1>1 DEF Blocks, Firm
<1>2. ASSUME run'.pc \in {"reviews", "threads", "effects", "post", "approve"} PROVE Blocks'
    BY <1>2 DEF Blocks
<1>3. Steady /\ Firm' => Firm  BY DEF Steady, Firm
<1>4. Steady => Canon' = Canon /\ run'.reviews = run.reviews
    BY ClassesSteady DEF Steady
<1>5. CASE PushSets
    <2>1. Canon' = Canon  BY <1>5, ClassesSteady DEF PushSets, SameRun
    <2>. QED  BY <1>5, <2>1 DEF PushSets, SameRun, Blocks
<1>6. CASE ResolvedByOther  BY <1>1, <1>6 DEF ResolvedByOther, Firm
<1>7. ASSUME Reuses, Firm
      PROVE  /\ Canon \in DOMAIN reviews /\ Canon # 0
             /\ CanonUnchanged => reviews[Canon].state = "CHANGES_REQUESTED"
    <2>1. Canon \in Nat \ {0} /\ Canon <= Len(run.reviews) /\ Len(run.reviews) \in Nat
        BY <1>7, CanonFits DEF Reuses, ReviewsFit
    <2>2. run.reviews[Canon].state = "CHANGES_REQUESTED"
        BY <1>7 DEF Reuses, Firm, StateOf
    <2>. QED  BY <1>0, <2>1, <2>2 DEF ReviewsFit, CopiesFit, CanonUnchanged
<1>8. ASSUME RecheckSets, Firm' PROVE Blocks'
    <2>1. Firm /\ Reuses /\ reviews' = reviews /\ Canon' = Canon
        BY <1>3, <1>4, <1>8 DEF RecheckSets
    <2>. QED  BY <1>2, <1>7, <1>8, <2>1 DEF RecheckSets, Blocks
<1>9. ASSUME PutSets, Firm' PROVE Blocks'
    <2>1. /\ Firm /\ run.pc = "put" /\ run'.pc = "stale" /\ run'.landed = Canon
          /\ reviews' = WithBody(reviews, Canon, RenderedBody)
        BY <1>3, <1>9 DEF PutSets, Firm, Rewritten, WithBody
    <2>2. Canon \in DOMAIN reviews /\ reviews[Canon].state = "CHANGES_REQUESTED"
        BY <1>7, <2>1 DEF StagesFit, Blocks, Firm
    <2>3. BodySet(reviews', reviews, Canon, RenderedBody)
        BY <1>0, <2>1, RewrittenFits, RenderedFits DEF ReviewsFit
    <2>4. Canon \in DOMAIN reviews' /\ reviews'[Canon].state = "CHANGES_REQUESTED"
        BY <1>0, <2>2, <2>3 DEF BodySet
    <2>. QED  BY <2>1, <2>4 DEF Blocks
<1>10. ASSUME PostReviewSets, Firm' PROVE Blocks'
    <2>1. Firm /\ run'.clean /\ run'.reviews = run.reviews
        BY <1>3, <1>4, <1>10 DEF PostReviewSets, Firm
    <2>2. PICK event : ReviewIsPosted(event)  BY <1>10, <2>1 DEF PostReviewSets
    <2>3. event = "REQUEST_CHANGES"
        BY <2>1, <2>2, RenderEventFits DEF ReviewIsPosted, Firm, ReviewsFit
    <2>4. /\ run'.landed = Len(reviews') /\ run'.pc \in {"supersede", "stale"}
          /\ run'.landed \in DOMAIN reviews' /\ run'.landed > Len(run.reviews)
          /\ reviews'[run'.landed].state = StateOf(event)
        BY <2>2, PostedLast DEF ReviewIsPosted
    <2>5. StateOf(event) = "CHANGES_REQUESTED"  BY <2>3 DEF StateOf
    <2>. QED  BY <2>1, <2>4, <2>5 DEF Blocks
<1>11. ASSUME reviews' = reviews \/ \E ids : run.landed \notin ids /\ reviews' = Dismissed(ids),
              run'.pc \in {"stale", "dismiss", "idle"}, run'.landed = run.landed,
              run.pc \in {"supersede", "stale", "dismiss"}, Firm
       PROVE  Blocks'
    <2>1. run.landed \in DOMAIN reviews /\ reviews[run.landed].state = "CHANGES_REQUESTED"
        BY <1>11 DEF Blocks, Firm
    <2>2. run.landed \in DOMAIN reviews' /\ reviews'[run.landed].state = "CHANGES_REQUESTED"
        <3>1. CASE reviews' = reviews  BY <2>1, <3>1
        <3>2. ASSUME NEW ids, run.landed \notin ids, reviews' = Dismissed(ids)
              PROVE  /\ run.landed \in DOMAIN reviews'
                     /\ reviews'[run.landed].state = "CHANGES_REQUESTED"
            <4>1. ReviewsDismissed(reviews', ids)  BY <1>0, <3>2, DismissedFits
            <4>. QED  BY <1>0, <2>1, <3>2, <4>1 DEF ReviewsDismissed
        <3>. QED  BY <1>11, <3>1, <3>2
    <2>. QED  BY <1>11, <2>2 DEF Blocks
<1>12. ASSUME SupersedeSets, Firm' PROVE Blocks'
    <2>1. Firm /\ run.landed > Len(run.reviews)
        BY <1>3, <1>12 DEF SupersedeSets, Blocks, Firm
    <2>2. run.landed \notin {Canon}
        <3>1. /\ run.landed \in Nat /\ Canon \in Nat /\ Canon <= Len(run.reviews)
              /\ Len(run.reviews) \in Nat
            BY CanonFits DEF ReviewsFit, ReviewsTypeOK, RunType
        <3>. QED  BY <2>1, <3>1
    <2>. QED  BY <1>11, <1>12, <2>1, <2>2 DEF SupersedeSets
<1>13. ASSUME ResolveStaleSets, Firm' PROVE Blocks'
    <2>1. Firm  BY <1>3, <1>13 DEF ResolveStaleSets
    <2>. QED  BY <1>11, <1>13, <2>1 DEF ResolveStaleSets
<1>14. ASSUME DismissStaleSets, Firm' PROVE Blocks'
    <2>1. Firm  BY <1>3, <1>14 DEF DismissStaleSets
    <2>. QED  BY <1>11, <1>14, <2>1 DEF DismissStaleSets
<1>. QED
    BY <1>1, <1>2, <1>5, <1>6, <1>8, <1>9, <1>10, <1>12, <1>13, <1>14
    DEF ReviewEffects, RunsEffects, CommandSets, StartRunSets, ReadReviewsSets,
        ReadThreadsSets, ReopenSets, CommentsFirstSets

\* A clean run with a High or Critical finding ends with its own review blocking the pull
\* request: the review is the one that was put back while it still blocked or the last one
\* posted, and neither the supersession nor the cleanup dismisses that one.
THEOREM CleanRunsBlock == ReviewSpec => []CleanRunBlocks
<1>1. Init => Blocks  BY DEF Init, Fresh, Blocks
<1>2. ASSUME Blocks, UNCHANGED reviewVars PROVE Blocks'
    <2>1. run' = run /\ reviews' = reviews /\ runs' = runs  BY <1>2 DEF reviewVars
    <2>2. Canon' = Canon  BY <2>1, ClassesSteady
    <2>. QED  BY <1>2, <2>1, <2>2 DEF Blocks
<1>3. RunsFit /\ Blocks /\ [ReviewNext]_reviewVars => Blocks'
    BY <1>2, ReviewNextEffect, BlocksStep DEF RunsFit
<1>4. Blocks => CleanRunBlocks  BY DEF Blocks, CleanRunBlocks, EndedClean
<1>. QED  BY <1>1, <1>3, <1>4, ReviewRunsFit, PTL DEF ReviewSpec

-----------------------------------------------------------------------------
(* The commands: what they are, and what each step of theirs does *)

AnyFinding == CHOOSE f \in Findings : TRUE

CommandPcs == {"idle", "list", "resolve", "record", "check", "clear", "dismiss", "ended"}

CommandType ==
    [pc : CommandPcs, reply : BOOLEAN, finding : Findings \cup {AnyFinding},
     mark : {"none", "dismissed", "fixed"}, approve : BOOLEAN, target : Nat,
     reviews : Seq(ReviewType), threads : Seq(ThreadType), left : SUBSET Nat,
     cleared : SUBSET Nat, quiet : BOOLEAN]

CommandsTypeOK == cmd \in [Commands -> CommandType]

LEMMA NoCommandFits ==
    /\ NoCommand \in CommandType /\ NoCommand.pc = "idle" /\ NoCommand.target = 0
    /\ NoCommand.cleared = {}
<1>1. AnyFinding \in Findings \cup {AnyFinding}  OBVIOUS
<1>2. NoCommand = [pc |-> "idle", reply |-> FALSE, finding |-> AnyFinding,
                   mark |-> "none", approve |-> FALSE, target |-> 0, reviews |-> <<>>,
                   threads |-> <<>>, left |-> {}, cleared |-> {}, quiet |-> TRUE]
    BY Zenon DEF NoCommand, AnyFinding
<1>. QED  BY <1>1, <1>2 DEF CommandType, CommandPcs

LEMMA EndedFits ==
    /\ Ended \in CommandType /\ Ended.pc = "ended" /\ Ended.cleared = {} /\ Ended.target = 0
BY NoCommandFits DEF Ended, CommandType, CommandPcs

\* Another command goes on undisturbed, or knows that it has been overtaken.
GoesOn(old, new) ==
    /\ new \in CommandType
    /\ new.pc = old.pc /\ new.reply = old.reply /\ new.finding = old.finding
    /\ new.mark = old.mark /\ new.approve = old.approve /\ new.target = old.target
    /\ new.reviews = old.reviews /\ new.threads = old.threads /\ new.left = old.left
    /\ new.cleared = old.cleared
    /\ new.quiet => old.quiet /\ (~Changed \/ old.pc \in {"idle", "ended"})

LEMMA OvertakenFits ==
    ASSUME CommandsTypeOK
    PROVE  /\ Overtaken \in [Commands -> CommandType]
           /\ \A d \in Commands : GoesOn(cmd[d], Overtaken[d])
<1>. DEFINE changed == Changed
<1>. HIDE DEF changed
<1>1. ASSUME NEW d \in Commands PROVE GoesOn(cmd[d], Overtaken[d])
    <2>1. cmd[d] \in CommandType  BY DEF CommandsTypeOK
    <2>2. Overtaken[d] = IF changed /\ cmd[d].pc \notin {"idle", "ended"}
                           THEN [cmd[d] EXCEPT !.quiet = FALSE] ELSE cmd[d]
        BY DEF Overtaken, changed
    <2>3. CASE changed /\ cmd[d].pc \notin {"idle", "ended"}
        <3>1. Overtaken[d] = [cmd[d] EXCEPT !.quiet = FALSE]  BY <2>2, <2>3
        <3>. QED  BY <2>1, <3>1 DEF CommandType, GoesOn
    <2>4. CASE ~(changed /\ cmd[d].pc \notin {"idle", "ended"})
        <3>1. Overtaken[d] = cmd[d]  BY <2>2, <2>4
        <3>. QED  BY <2>1, <2>4, <3>1 DEF GoesOn, changed
    <2>. QED  BY <2>3, <2>4
<1>2. Overtaken = [d \in Commands |-> Overtaken[d]]  BY DEF Overtaken
<1>. QED  BY <1>1, <1>2 DEF GoesOn

\* Command c goes on as r, and the others as they were.
OnlyBy(c, r) ==
    /\ cmd' \in [Commands -> CommandType] /\ cmd'[c] = r
    /\ \A d \in Commands \ {c} : GoesOn(cmd[d], cmd'[d])
    /\ SameRun /\ run'.moved = run.moved

LEMMA GoEffect ==
    ASSUME ReviewsTypeOK, CommandsTypeOK, NEW c \in Commands, NEW r, r \in CommandType,
           Go(c, r)
    PROVE  OnlyBy(c, r)
<1>1. cmd' = [Overtaken EXCEPT ![c] = r]  BY DEF Go
<1>2. Overtaken \in [Commands -> CommandType] /\ \A d \in Commands : GoesOn(cmd[d], Overtaken[d])
    BY OvertakenFits
<1>3. /\ cmd' \in [Commands -> CommandType] /\ cmd'[c] = r
      /\ \A d \in Commands \ {c} : cmd'[d] = Overtaken[d]
    BY <1>1, <1>2
<1>4. SameRun /\ run'.moved = run.moved
    <2>. DEFINE alone == run.alone /\ ~Changed
    <2>1. run \in RunType /\ runs' = runs /\ run' = [run EXCEPT !.alone = alone] /\ alone \in BOOLEAN
        BY DEF Go, ReviewsTypeOK
    <2>. HIDE DEF alone
    <2>2. run' \in RunType  BY <2>1 DEF RunType
    <2>. QED  BY <2>1, <2>2 DEF RunType, SameRun
<1>. QED  BY <1>2, <1>3, <1>4 DEF OnlyBy

\* The same with all calls answered, or with one that fails.
GoesAs(c, r, ok) ==
    /\ cmd' \in [Commands -> CommandType]
    /\ \A d \in Commands \ {c} : GoesOn(cmd[d], cmd'[d])
    /\ SameRun /\ run'.moved = run.moved
    /\ \/ cmd'[c] = r /\ ok /\ faults' = faults
       \/ cmd'[c] = [r EXCEPT !.quiet = FALSE] /\ ~ok /\ faults' = faults + 1

\* Only command c goes on, and the run is left alone.
StepOf(c) ==
    /\ cmd' \in [Commands -> CommandType]
    /\ \A d \in Commands \ {c} : GoesOn(cmd[d], cmd'[d])
    /\ SameRun /\ run'.moved = run.moved

\* It goes on as r, knowing whether a call has failed.
Becomes(c, r, ok) ==
    /\ StepOf(c) /\ cmd'[c] \in CommandType
    /\ cmd'[c].pc = r.pc /\ cmd'[c].reply = r.reply /\ cmd'[c].finding = r.finding
    /\ cmd'[c].mark = r.mark /\ cmd'[c].approve = r.approve
    /\ cmd'[c].target = r.target /\ cmd'[c].reviews = r.reviews
    /\ cmd'[c].threads = r.threads /\ cmd'[c].left = r.left
    /\ cmd'[c].cleared = r.cleared /\ (cmd'[c].quiet => r.quiet /\ ok)
    /\ faults' = IF ok THEN faults ELSE faults + 1

LEMMA GoesFits ==
    ASSUME NEW c \in Commands, NEW r \in CommandType, NEW ok \in BOOLEAN, GoesAs(c, r, ok)
    PROVE  Becomes(c, r, ok)
<1>1. StepOf(c)  BY DEF GoesAs, StepOf
<1>2. cmd'[c] \in CommandType  BY <1>1 DEF StepOf
<1>3. CASE cmd'[c] = r /\ ok /\ faults' = faults  BY <1>1, <1>2, <1>3 DEF Becomes
<1>4. CASE cmd'[c] = [r EXCEPT !.quiet = FALSE] /\ ~ok /\ faults' = faults + 1
    BY <1>1, <1>2, <1>4 DEF CommandType, Becomes
<1>. QED  BY <1>3, <1>4 DEF GoesAs

LEMMA DoIfEffect ==
    ASSUME ReviewsTypeOK, CommandsTypeOK, NEW c \in Commands, NEW r, r \in CommandType,
           NEW ok \in BOOLEAN, DoIf(ok, c, r)
    PROVE  Becomes(c, r, ok)
<1>1. ASSUME ok PROVE GoesAs(c, r, ok)
    <2>1. Go(c, r) /\ faults' = faults  BY <1>1 DEF DoIf, Do, Answered
    <2>2. OnlyBy(c, r)  BY <2>1, GoEffect
    <2>. QED  BY <1>1, <2>1, <2>2 DEF OnlyBy, GoesAs
<1>2. ASSUME ~ok PROVE GoesAs(c, r, ok)
    <2>. DEFINE q == [r EXCEPT !.quiet = FALSE]
    <2>1. Go(c, q) /\ faults' = faults + 1  BY <1>2 DEF DoIf, Miss, Failing
    <2>2. q \in CommandType  BY DEF CommandType
    <2>3. OnlyBy(c, q)  BY <2>1, <2>2, GoEffect
    <2>. QED  BY <1>2, <2>1, <2>3 DEF OnlyBy, GoesAs
<1>3. GoesAs(c, r, ok)  BY <1>1, <1>2
<1>. QED  BY <1>3, GoesFits

LEMMA DoEffect ==
    ASSUME ReviewsTypeOK, CommandsTypeOK, NEW c \in Commands, NEW r, r \in CommandType, Do(c, r)
    PROVE  Becomes(c, r, TRUE)
BY DoIfEffect DEF DoIf

LEMMA MissEffect ==
    ASSUME ReviewsTypeOK, CommandsTypeOK, NEW c \in Commands, NEW r, r \in CommandType, Miss(c, r)
    PROVE  Becomes(c, r, FALSE)
BY DoIfEffect DEF DoIf

\* What a command knows of itself stays the same.
SameCommand(old, new) ==
    /\ new \in CommandType /\ new.reply = old.reply /\ new.finding = old.finding
    /\ new.mark = old.mark /\ (new.quiet => old.quiet)

\* So does what it knows of the threads.
SameCopy(old, new) ==
    SameCommand(old, new) /\ new.target = old.target /\ new.threads = old.threads

Ends(c) == cmd'[c].pc = "ended" /\ cmd'[c].cleared = {} /\ cmd'[c] \in CommandType

BeginSets(c) ==
    /\ cmd[c].pc = "idle" /\ StepOf(c) /\ UNCHANGED <<reviews, threads>>
    /\ cmd'[c].pc \in {"list", "resolve"} /\ cmd'[c].finding \in Findings
    /\ cmd'[c].mark \in {"dismissed", "fixed"} /\ cmd'[c].cleared = {}
    /\ cmd'[c].pc = "list" => cmd'[c].target = 0

LEMMA HandlingFits ==
    ASSUME NEW word, NEW trusted \in BOOLEAN
    PROVE  /\ Handling(word, trusted) \in CommandType
           /\ Handling(word, trusted).mark \in {"dismissed", "fixed"}
           /\ Handling(word, trusted).target = 0 /\ Handling(word, trusted).cleared = {}
<1>. DEFINE mark == MarkOf(word)
            approve == ApproveAllowed(word, trusted)
<1>1. mark \in {"dismissed", "fixed"} /\ approve \in BOOLEAN  BY DEF MarkOf, ApproveAllowed
<1>. HIDE DEF mark, approve
<1>2. Handling(word, trusted) = [NoCommand EXCEPT !.mark = mark, !.approve = approve]
    BY DEF Handling, mark, approve
<1>. QED  BY <1>1, <1>2, NoCommandFits DEF CommandType

LEMMA DismissEffect ==
    ASSUME ReviewsTypeOK, CommandsTypeOK, NEW c \in Commands, Dismiss(c)
    PROVE  BeginSets(c)
<1>1. PICK given \in TopLevel, trusted \in BOOLEAN : \E f \in given.finding \cap Known(reviews) :
           Do(c, [Handling(given.word, trusted) EXCEPT !.pc = "list", !.finding = f])
    BY Zenon DEF Dismiss
<1>2. PICK f \in given.finding \cap Known(reviews) :
           Do(c, [Handling(given.word, trusted) EXCEPT !.pc = "list", !.finding = f])
    BY <1>1
<1>. DEFINE h == Handling(given.word, trusted)
            r == [h EXCEPT !.pc = "list", !.finding = f]
<1>3. /\ h \in CommandType /\ h.mark \in {"dismissed", "fixed"} /\ h.target = 0
      /\ h.cleared = {}
    BY HandlingFits
<1>4. f \in Findings
    <2>1. \A i \in DOMAIN reviews : reviews[i] \in ReviewType  BY DEF ReviewsTypeOK
    <2>2. PICK i \in DOMAIN reviews : f \in reviews[i].body.ids  BY DEF Known
    <2>. QED  BY <2>1, <2>2 DEF ReviewType, BodyType
<1>5. Do(c, r)  BY <1>2
<1>. HIDE DEF h
<1>6. /\ r \in CommandType /\ r.pc = "list" /\ r.finding = f /\ r.mark = h.mark
      /\ r.target = 0 /\ r.cleared = {}
    BY <1>3, <1>4 DEF CommandType, CommandPcs
<1>. HIDE DEF r
<1>7. Becomes(c, r, TRUE)  BY <1>5, <1>6, DoEffect
<1>8. cmd[c].pc = "idle" /\ UNCHANGED <<reviews, threads>>  BY DEF Dismiss
<1>. QED  BY <1>3, <1>4, <1>6, <1>7, <1>8 DEF BeginSets, Becomes

LEMMA DismissInlineEffect ==
    ASSUME ReviewsTypeOK, CommandsTypeOK, NEW c \in Commands, DismissInline(c)
    PROVE  BeginSets(c)
<1>1. PICK word \in Replies, trusted \in BOOLEAN, i \in DOMAIN threads :
           Do(c, [Handling(word, trusted) EXCEPT
                    !.pc = "resolve", !.reply = TRUE, !.target = i,
                    !.finding = threads[i].finding])
    BY Zenon DEF DismissInline
<1>. DEFINE h == Handling(word, trusted)
            f == threads[i].finding
            r == [h EXCEPT !.pc = "resolve", !.reply = TRUE, !.target = i, !.finding = f]
<1>2. /\ h \in CommandType /\ h.mark \in {"dismissed", "fixed"} /\ h.cleared = {}
    BY HandlingFits
<1>3. f \in Findings /\ i \in Nat
    <2>1. threads \in Seq(ThreadType)  BY DEF ReviewsTypeOK
    <2>2. threads[i] \in ThreadType /\ i \in Nat  BY <2>1
    <2>. QED  BY <2>2 DEF ThreadType
<1>4. Do(c, r)  BY <1>1
<1>. HIDE DEF h, f
<1>5. /\ r \in CommandType /\ r.pc = "resolve" /\ r.finding = f /\ r.mark = h.mark
      /\ r.cleared = {}
    BY <1>2, <1>3 DEF CommandType, CommandPcs
<1>. HIDE DEF r
<1>6. Becomes(c, r, TRUE)  BY <1>4, <1>5, DoEffect
<1>7. cmd[c].pc = "idle" /\ UNCHANGED <<reviews, threads>>  BY DEF DismissInline
<1>. QED  BY <1>2, <1>3, <1>5, <1>6, <1>7 DEF Becomes, BeginSets

AskWhichSets(c) ==
    cmd[c].pc = "idle" /\ StepOf(c) /\ UNCHANGED <<reviews, threads>> /\ Ends(c)

LEMMA AskWhichEffect ==
    ASSUME ReviewsTypeOK, CommandsTypeOK, NEW c \in Commands, AskWhich(c)
    PROVE  AskWhichSets(c)
<1>1. Becomes(c, Ended, TRUE)  BY EndedFits, DoEffect DEF AskWhich
<1>. QED  BY <1>1, EndedFits DEF Becomes, AskWhich, AskWhichSets, Ends

ListSets(c) ==
    /\ cmd[c].pc = "list" /\ StepOf(c) /\ UNCHANGED <<reviews, threads>>
    /\ \/ Ends(c)
       \/ /\ cmd'[c].pc \in {"record", "resolve"} /\ SameCopy(cmd[c], cmd'[c])
          /\ cmd'[c].cleared = cmd[c].cleared

LEMMA ListEffect ==
    ASSUME ReviewsTypeOK, CommandsTypeOK, NEW c \in Commands, List(c)
    PROVE  ListSets(c)
<1>1. PICK got \in BotReviews, ok \in BOOLEAN :
        LET i == Shows(got, cmd[c].finding)
            r == [cmd[c] EXCEPT !.reviews = got]
        IN /\ ok => got = reviews
           /\ \/ cmd[c].reply /\ DoIf(ok, c, [r EXCEPT !.pc = "record"])
              \/ ~cmd[c].reply /\ i = 0 /\ DoIf(ok, c, Ended)
              \/ /\ ~cmd[c].reply /\ i # 0
                 /\ DoIf(ok, c, IF cmd[c].finding \in got[i].body.bullets
                                  THEN [r EXCEPT !.pc = "record"]
                                  ELSE [r EXCEPT !.pc = "resolve"])
    BY Zenon DEF List
<1>. DEFINE r == [cmd[c] EXCEPT !.reviews = got]
<1>2. \/ DoIf(ok, c, Ended)
      \/ \E pc \in {"record", "resolve"} : DoIf(ok, c, [r EXCEPT !.pc = pc])
    BY <1>1, Zenon
<1>3. cmd[c] \in CommandType /\ got \in Seq(ReviewType)
    BY PartialFits DEF CommandsTypeOK, BotReviews, ReviewsTypeOK
<1>4. cmd[c].pc = "list" /\ UNCHANGED <<reviews, threads>>  BY DEF List
<1>5. CASE DoIf(ok, c, Ended)
    <2>1. Becomes(c, Ended, ok)  BY <1>5, EndedFits, DoIfEffect
    <2>. QED  BY <1>4, <2>1, EndedFits DEF Becomes, ListSets, Ends
<1>6. ASSUME NEW pc \in {"record", "resolve"}, DoIf(ok, c, [r EXCEPT !.pc = pc])
      PROVE  ListSets(c)
    <2>. DEFINE q == [r EXCEPT !.pc = pc]
    <2>1. /\ q \in CommandType /\ q.pc = pc /\ q.reply = cmd[c].reply
          /\ q.finding = cmd[c].finding /\ q.mark = cmd[c].mark /\ q.quiet = cmd[c].quiet
          /\ q.target = cmd[c].target /\ q.threads = cmd[c].threads
          /\ q.cleared = cmd[c].cleared
        BY <1>3 DEF CommandType, CommandPcs
    <2>2. DoIf(ok, c, q)  BY <1>6
    <2>. HIDE DEF q
    <2>3. Becomes(c, q, ok)  BY <2>1, <2>2, DoIfEffect
    <2>. QED  BY <1>4, <2>1, <2>3 DEF Becomes, ListSets, SameCopy, SameCommand
<1>. QED  BY <1>2, <1>5, <1>6

\* Thread i of the command is closed, in the copy too unless something has failed.
TargetSets(c, i) ==
    /\ cmd'[c].pc \in {"list", "record"} /\ SameCommand(cmd[c], cmd'[c])
    /\ cmd'[c].cleared = cmd[c].cleared /\ cmd'[c].target = i /\ i # 0
    /\ SameThreads
    /\ cmd'[c].quiet => cmd'[c].threads = threads' /\ i \in DOMAIN threads

ResolveSets(c) ==
    /\ cmd[c].pc = "resolve" /\ StepOf(c) /\ UNCHANGED reviews
    /\ \/ Ends(c) /\ UNCHANGED threads
       \/ \E i : TargetSets(c, i)

LEMMA TargetFits ==
    ASSUME CommandsTypeOK, NEW c \in Commands, NEW ths \in Seq(ThreadType), NEW i \in Target(c, ths)
    PROVE  i \in DOMAIN ths
<1>1. CASE cmd[c].reply  BY <1>1 DEF Target
<1>2. CASE ~cmd[c].reply
    <2>. DEFINE f == cmd[c].finding
    <2>1. i \in ThreadOf(ths, f)  BY <1>2 DEF Target
    <2>2. OpenOf(ths, f) \in SUBSET Nat /\ CarriedBy(ths, f) \in SUBSET Nat
        BY DEF OpenOf, CarriedBy
    <2>3. \/ OpenOf(ths, f) # {} /\ i = Min(OpenOf(ths, f))
          \/ CarriedBy(ths, f) # {} /\ i = Min(CarriedBy(ths, f))
        BY <2>1 DEF ThreadOf
    <2>4. i \in OpenOf(ths, f) \/ i \in CarriedBy(ths, f)  BY <2>2, <2>3, MinIsLeast
    <2>. QED  BY <2>4 DEF OpenOf, CarriedBy
<1>. QED  BY <1>1, <1>2

LEMMA ResolveEffect ==
    ASSUME ReviewsTypeOK, CommandsTypeOK, NEW c \in Commands, Resolve(c)
    PROVE  ResolveSets(c)
<1>1. PICK got \in Partial(threads), ok \in BOOLEAN :
        /\ ok => got = threads
        /\ \/ Target(c, got) = {} /\ UNCHANGED threads /\ DoIf(ok, c, Ended)
           \/ \E i \in Target(c, got) :
                /\ threads' = [threads EXCEPT ![i].open = FALSE]
                /\ DoIf(ok, c, [cmd[c] EXCEPT
                        !.pc = IF cmd[c].reply THEN "list" ELSE "record",
                        !.target = i, !.threads = [got EXCEPT ![i].open = FALSE]])
           \/ Target(c, got) # {} /\ UNCHANGED threads /\ Miss(c, Ended)
    BY Zenon DEF Resolve
<1>2. cmd[c].pc = "resolve" /\ UNCHANGED reviews  BY DEF Resolve
<1>3. /\ cmd[c] \in CommandType /\ threads \in Seq(ThreadType) /\ got \in Seq(ThreadType)
      /\ DOMAIN got \subseteq DOMAIN threads
    BY PartialFits DEF CommandsTypeOK, ReviewsTypeOK
<1>4. ASSUME NEW done \in BOOLEAN, DoIf(done, c, Ended), UNCHANGED threads
      PROVE  ResolveSets(c)
    <2>1. Becomes(c, Ended, done)  BY <1>4, EndedFits, DoIfEffect
    <2>. QED  BY <1>2, <1>4, <2>1, EndedFits DEF ResolveSets, Ends, Becomes
<1>5. ASSUME NEW i \in Target(c, got),
             threads' = [threads EXCEPT ![i].open = FALSE],
             DoIf(ok, c, [cmd[c] EXCEPT
                        !.pc = IF cmd[c].reply THEN "list" ELSE "record",
                        !.target = i, !.threads = [got EXCEPT ![i].open = FALSE]])
      PROVE  ResolveSets(c)
    <2>. DEFINE pc == IF cmd[c].reply THEN "list" ELSE "record"
                copy == [got EXCEPT ![i].open = FALSE]
                q == [cmd[c] EXCEPT !.pc = pc, !.target = i, !.threads = copy]
    <2>1. i \in DOMAIN got /\ i \in DOMAIN threads /\ i \in Nat /\ i # 0
        BY <1>3, TargetFits
    <2>2. copy \in Seq(ThreadType)  BY <1>3, <2>1, Closed
    <2>3. ok => copy = threads'  BY <1>1, <1>5
    <2>4. pc \in {"list", "record"}  OBVIOUS
    <2>5. DoIf(ok, c, q)  BY <1>5
    <2>. HIDE DEF pc, copy
    <2>6. /\ q \in CommandType /\ q.pc = pc /\ q.reply = cmd[c].reply
          /\ q.finding = cmd[c].finding /\ q.mark = cmd[c].mark /\ q.quiet = cmd[c].quiet
          /\ q.target = i /\ q.threads = copy /\ q.cleared = cmd[c].cleared
        BY <1>3, <2>1, <2>2, <2>4 DEF CommandType, CommandPcs
    <2>. HIDE DEF q
    <2>7. Becomes(c, q, ok)  BY <2>5, <2>6, DoIfEffect
    <2>8. SameThreads  BY <1>3, <1>5, OneClosed
    <2>9. TargetSets(c, i)
        BY <2>1, <2>3, <2>4, <2>6, <2>7, <2>8 DEF TargetSets, SameCommand, Becomes
    <2>. QED  BY <1>2, <2>7, <2>9 DEF ResolveSets, Becomes
<1>6. Miss(c, Ended) => DoIf(FALSE, c, Ended)  BY DEF DoIf
<1>. QED  BY <1>1, <1>4, <1>5, <1>6

\* What a command that is under way knows.  While it is quiet, its copy of the threads
\* is what they are, and when it clears the reviews, those that block are still to be
\* cleared and have no open thread.
Underway == {"list", "resolve", "record", "check", "clear", "dismiss"}

CmdFits(c) ==
    /\ cmd[c].pc \in Underway =>
           cmd[c].finding \in Findings /\ cmd[c].mark \in {"dismissed", "fixed"}
    /\ cmd[c].pc \in {"check", "clear", "dismiss"} => cmd[c].target # 0
    /\ cmd[c].pc \notin {"clear", "dismiss"} => cmd[c].cleared = {}
    /\ cmd[c].quiet /\ cmd[c].target # 0 /\ cmd[c].pc \in Underway \ {"resolve"} =>
           cmd[c].threads = threads /\ cmd[c].target \in DOMAIN threads
    /\ cmd[c].quiet /\ cmd[c].pc = "clear" =>
           /\ Blocking(reviews) \subseteq cmd[c].left
           /\ \A i \in cmd[c].left \cup cmd[c].cleared : OpenIn(threads, i) = {}

\* The verdict is written with those that the command has read, into one body.
Marked(c) ==
    /\ reviews' \in Seq(ReviewType) /\ Len(reviews') = Len(reviews)
    /\ \A j \in DOMAIN reviews :
           \/ reviews'[j].body = reviews[j].body
           \/ reviews'[j].body.verdict =
                  [MergeVerdicts(cmd[c].reviews) EXCEPT ![cmd[c].finding] = cmd[c].mark]

RecordSets(c) ==
    /\ cmd[c].pc = "record" /\ StepOf(c) /\ UNCHANGED threads
    /\ cmd'[c] # cmd[c] /\ (UNCHANGED reviews \/ Marked(c))
    /\ \/ Ends(c)
       \/ /\ cmd[c].target # 0 /\ cmd'[c].pc \in {"check", "dismiss"}
          /\ SameCopy(cmd[c], cmd'[c]) /\ cmd'[c].cleared = cmd[c].cleared

LEMMA MarkedFits ==
    ASSUME ReviewsTypeOK, CommandsTypeOK, NEW c \in Commands, CmdFits(c), cmd[c].pc = "record",
           reviews' = Rewritten(SelectCanonical(cmd[c].reviews),
                          Recorded(cmd[c].reviews, cmd[c].finding, cmd[c].mark))
    PROVE  Marked(c)
<1>. DEFINE revs == cmd[c].reviews
            f == cmd[c].finding
            mark == cmd[c].mark
            canon == SelectCanonical(revs)
            body == Recorded(revs, f, mark)
<1>1. revs \in Seq(ReviewType) /\ reviews \in Seq(ReviewType)
    <2>1. cmd[c] \in CommandType  BY DEF CommandsTypeOK
    <2>. QED  BY <2>1 DEF CommandType, ReviewsTypeOK
<1>2. f \in Findings /\ mark \in {"dismissed", "fixed"}  BY DEF CmdFits, Underway
<1>. HIDE DEF revs, f, mark
<1>3. canon # 0 => VerdictAdded(body, revs[canon].body, revs, f, mark)
    BY <1>1, <1>2, RecordedFits
<1>4. reviews' = WithBody(reviews, canon, body)
    BY DEF Rewritten, WithBody, revs, f, mark
<1>5. canon \in DOMAIN reviews => canon # 0  BY <1>1
<1>. HIDE DEF canon, body
<1>6. canon \in DOMAIN reviews => body \in BodyType  BY <1>3, <1>5 DEF VerdictAdded
<1>7. BodySet(reviews', reviews, canon, body)  BY <1>1, <1>4, <1>6, RewrittenFits
<1>8. canon # 0 => body.verdict = [MergeVerdicts(revs) EXCEPT ![f] = mark]
    BY <1>3 DEF VerdictAdded
<1>9. \A j \in DOMAIN reviews :
           \/ reviews'[j].body = reviews[j].body
           \/ reviews'[j].body.verdict = [MergeVerdicts(revs) EXCEPT ![f] = mark]
    BY <1>5, <1>7, <1>8 DEF BodySet
<1>10. reviews' \in Seq(ReviewType) /\ Len(reviews') = Len(reviews)  BY <1>7 DEF BodySet
<1>. QED  BY <1>9, <1>10 DEF Marked, revs, f, mark

LEMMA RecordEffect ==
    ASSUME ReviewsTypeOK, CommandsTypeOK, NEW c \in Commands, CmdFits(c), Record(c)
    PROVE  RecordSets(c)
<1>. DEFINE pc == IF cmd[c].approve THEN "check" ELSE "dismiss"
            after == IF cmd[c].target = 0 THEN Ended ELSE [cmd[c] EXCEPT !.pc = pc]
<1>1. /\ cmd[c].pc = "record" /\ UNCHANGED threads
      /\ \/ /\ reviews' = Rewritten(SelectCanonical(cmd[c].reviews),
                    Recorded(cmd[c].reviews, cmd[c].finding, cmd[c].mark))
            /\ Do(c, after)
         \/ UNCHANGED reviews /\ Miss(c, after)
         \/ UNCHANGED reviews /\ Do(c, after)
    BY Zenon DEF Record
<1>2. cmd[c] \in CommandType  BY DEF CommandsTypeOK
<1>3. /\ after \in CommandType
      /\ \/ after = Ended
         \/ /\ cmd[c].target # 0 /\ after.pc \in {"check", "dismiss"}
            /\ SameCopy(cmd[c], after) /\ after.cleared = cmd[c].cleared
    <2>1. CASE cmd[c].target = 0  BY <2>1, EndedFits
    <2>2. CASE cmd[c].target # 0
        <3>1. after = [cmd[c] EXCEPT !.pc = pc] /\ pc \in {"check", "dismiss"}  BY <2>2
        <3>. HIDE DEF pc, after
        <3>2. after \in CommandType  BY <1>2, <3>1 DEF CommandType, CommandPcs
        <3>3. /\ after.pc = pc /\ after.reply = cmd[c].reply /\ after.finding = cmd[c].finding
              /\ after.mark = cmd[c].mark /\ after.quiet = cmd[c].quiet
              /\ after.target = cmd[c].target /\ after.threads = cmd[c].threads
              /\ after.cleared = cmd[c].cleared
            BY <1>2, <3>1 DEF CommandType
        <3>. QED  BY <2>2, <3>1, <3>2, <3>3 DEF SameCopy, SameCommand
    <2>. QED  BY <2>1, <2>2
<1>. HIDE DEF after
<1>4. PICK ok \in BOOLEAN : Becomes(c, after, ok)  BY <1>1, <1>3, DoEffect, MissEffect
<1>5. UNCHANGED reviews \/ Marked(c)  BY <1>1, MarkedFits
<1>6. \/ Ends(c)
      \/ /\ cmd[c].target # 0 /\ cmd'[c].pc \in {"check", "dismiss"}
         /\ SameCopy(cmd[c], cmd'[c]) /\ cmd'[c].cleared = cmd[c].cleared
    <2>1. CASE after = Ended  BY <1>4, <2>1, EndedFits DEF Ends, Becomes
    <2>2. CASE after # Ended
        BY <1>3, <1>4, <2>2 DEF SameCopy, SameCommand, Becomes
    <2>. QED  BY <2>1, <2>2
<1>7. cmd'[c] # cmd[c]  BY <1>1, <1>6 DEF Ends
<1>. QED  BY <1>1, <1>4, <1>5, <1>6, <1>7 DEF RecordSets, Becomes

CheckSets(c) ==
    /\ cmd[c].pc = "check" /\ StepOf(c) /\ UNCHANGED <<reviews, threads>>
    /\ SameCopy(cmd[c], cmd'[c]) /\ cmd'[c].cleared = cmd[c].cleared
    /\ \/ cmd'[c].pc = "dismiss"
       \/ /\ cmd'[c].pc = "clear"
          /\ cmd'[c].quiet => /\ cmd'[c].left = Blocking(reviews)
                              /\ \A i \in cmd'[c].left : OpenIn(cmd[c].threads, i) = {}

LEMMA NotApprovedFits ==
    ASSUME CommandsTypeOK, NEW c \in Commands
    PROVE  /\ NotApproved(c) \in CommandType /\ NotApproved(c).pc = "dismiss"
           /\ SameCopy(cmd[c], NotApproved(c)) /\ NotApproved(c).cleared = cmd[c].cleared
<1>. DEFINE r == NotApproved(c)
<1>1. cmd[c] \in CommandType /\ r = [cmd[c] EXCEPT !.pc = "dismiss"]
    BY DEF CommandsTypeOK, NotApproved
<1>. HIDE DEF r
<1>2. r \in CommandType /\ r.pc = "dismiss"  BY <1>1 DEF CommandType, CommandPcs
<1>3. /\ r.reply = cmd[c].reply /\ r.finding = cmd[c].finding /\ r.mark = cmd[c].mark
      /\ r.quiet = cmd[c].quiet /\ r.target = cmd[c].target /\ r.threads = cmd[c].threads
      /\ r.cleared = cmd[c].cleared
    BY <1>1 DEF CommandType
<1>. QED  BY <1>2, <1>3 DEF SameCopy, SameCommand, r

LEMMA CheckApprovalEffect ==
    ASSUME ReviewsTypeOK, CommandsTypeOK, NEW c \in Commands, CheckApproval(c)
    PROVE  CheckSets(c)
<1>1. PICK got \in BotReviews, ok \in BOOLEAN :
        /\ ok => got = reviews
        /\ DoIf(ok, c, IF Blocking(got) # {} /\ AllClear(c, got)
                         THEN [cmd[c] EXCEPT !.pc = "clear", !.left = Blocking(got)]
                         ELSE NotApproved(c))
    BY Zenon DEF CheckApproval
<1>2. /\ cmd[c].pc = "check" /\ UNCHANGED <<reviews, threads>> /\ cmd[c] \in CommandType
      /\ got \in Seq(ReviewType)
    BY PartialFits DEF CheckApproval, CommandsTypeOK, BotReviews, ReviewsTypeOK
<1>3. Blocking(got) \in SUBSET Nat  BY <1>2 DEF Blocking
<1>4. ASSUME AllClear(c, got),
             DoIf(ok, c, [cmd[c] EXCEPT !.pc = "clear", !.left = Blocking(got)])
      PROVE  CheckSets(c)
    <2>. DEFINE left == Blocking(got)
                q == [cmd[c] EXCEPT !.pc = "clear", !.left = left]
    <2>1. left \in SUBSET Nat /\ DoIf(ok, c, q)  BY <1>3, <1>4
    <2>2. ok => left = Blocking(reviews) /\ \A i \in left : OpenIn(cmd[c].threads, i) = {}
        BY <1>1, <1>4 DEF AllClear
    <2>. HIDE DEF left
    <2>3. /\ q \in CommandType /\ q.pc = "clear" /\ q.reply = cmd[c].reply
          /\ q.finding = cmd[c].finding /\ q.mark = cmd[c].mark /\ q.quiet = cmd[c].quiet
          /\ q.target = cmd[c].target /\ q.threads = cmd[c].threads
          /\ q.cleared = cmd[c].cleared /\ q.left = left
        BY <1>2, <2>1 DEF CommandType, CommandPcs
    <2>. HIDE DEF q
    <2>4. Becomes(c, q, ok)  BY <2>1, <2>3, DoIfEffect
    <2>. QED  BY <1>2, <2>2, <2>3, <2>4 DEF CheckSets, SameCopy, SameCommand, Becomes
<1>5. ASSUME DoIf(ok, c, NotApproved(c)) PROVE CheckSets(c)
    <2>1. Becomes(c, NotApproved(c), ok)  BY <1>5, NotApprovedFits, DoIfEffect
    <2>. QED  BY <1>2, <2>1, NotApprovedFits DEF CheckSets, SameCopy, SameCommand, Becomes
<1>. QED  BY <1>1, <1>4, <1>5

ClearSets(c) ==
    /\ cmd[c].pc = "clear" /\ StepOf(c) /\ UNCHANGED threads
    /\ SameCopy(cmd[c], cmd'[c])
    /\ \/ cmd'[c].pc = "dismiss" /\ UNCHANGED reviews
       \/ \E i \in cmd[c].left :
             /\ cmd'[c].pc = "clear" /\ cmd'[c].left = cmd[c].left \ {i}
             /\ cmd'[c].cleared \subseteq cmd[c].cleared \cup {i}
             /\ \/ reviews' = Dismissed({i})
                \/ UNCHANGED reviews /\ ~StillBlocks(i)

LEMMA ClearNextEffect ==
    ASSUME ReviewsTypeOK, CommandsTypeOK, NEW c \in Commands, ClearNext(c)
    PROVE  ClearSets(c)
<1>. DEFINE i == Min(cmd[c].left)
            next == [cmd[c] EXCEPT !.left = @ \ {i}]
            done == [next EXCEPT !.cleared = @ \cup {i}]
<1>1. /\ cmd[c].pc = "clear" /\ cmd[c].left # {} /\ UNCHANGED threads
      /\ \/ reviews' = Dismissed({i}) /\ Do(c, done)
         \/ ~StillBlocks(i) /\ UNCHANGED reviews /\ Do(c, next)
         \/ UNCHANGED reviews /\ Miss(c, NotApproved(c))
    BY Zenon DEF ClearNext
<1>2. cmd[c] \in CommandType  BY DEF CommandsTypeOK
<1>3. i \in cmd[c].left /\ i \in Nat
    <2>1. cmd[c].left \in SUBSET Nat  BY <1>2 DEF CommandType
    <2>. QED  BY <1>1, <2>1, MinIsLeast
<1>. HIDE DEF i
<1>4. /\ next \in CommandType /\ next.pc = "clear" /\ next.left = cmd[c].left \ {i}
      /\ next.cleared = cmd[c].cleared /\ SameCopy(cmd[c], next)
    BY <1>1, <1>2 DEF CommandType, SameCopy, SameCommand
<1>. HIDE DEF next
<1>5. /\ done \in CommandType /\ done.pc = "clear" /\ done.left = cmd[c].left \ {i}
      /\ done.cleared = cmd[c].cleared \cup {i} /\ SameCopy(cmd[c], done)
    BY <1>3, <1>4 DEF CommandType, SameCopy, SameCommand
<1>. HIDE DEF done
<1>6. ASSUME NEW r \in {next, done}, Do(c, r)
      PROVE  /\ StepOf(c) /\ SameCopy(cmd[c], cmd'[c])
             /\ cmd'[c].pc = "clear" /\ cmd'[c].left = cmd[c].left \ {i}
             /\ cmd'[c].cleared \subseteq cmd[c].cleared \cup {i}
    <2>1. /\ r \in CommandType /\ r.pc = "clear" /\ r.left = cmd[c].left \ {i}
          /\ r.cleared \subseteq cmd[c].cleared \cup {i} /\ SameCopy(cmd[c], r)
        BY <1>4, <1>5
    <2>2. Becomes(c, r, TRUE)  BY <1>6, <2>1, DoEffect
    <2>. QED  BY <2>1, <2>2 DEF SameCopy, SameCommand, Becomes
<1>7. CASE reviews' = Dismissed({i}) /\ Do(c, done)
    BY <1>1, <1>3, <1>6, <1>7 DEF ClearSets
<1>8. CASE ~StillBlocks(i) /\ UNCHANGED reviews /\ Do(c, next)
    BY <1>1, <1>3, <1>6, <1>8 DEF ClearSets
<1>9. CASE UNCHANGED reviews /\ Miss(c, NotApproved(c))
    <2>1. Becomes(c, NotApproved(c), FALSE)  BY <1>9, NotApprovedFits, MissEffect
    <2>. QED  BY <1>1, <1>9, <2>1, NotApprovedFits
              DEF ClearSets, SameCopy, SameCommand, Becomes
<1>. QED  BY <1>1, <1>7, <1>8, <1>9

ApproveSets(c) ==
    /\ cmd[c].pc = "clear" /\ cmd[c].left = {} /\ StepOf(c) /\ UNCHANGED threads
    /\ \/ Ends(c) /\ reviews' = Append(reviews, Approval)
       \/ cmd'[c].pc = "dismiss" /\ SameCopy(cmd[c], cmd'[c]) /\ UNCHANGED reviews

LEMMA ApproveEffect ==
    ASSUME ReviewsTypeOK, CommandsTypeOK, NEW c \in Commands, Approve(c)
    PROVE  ApproveSets(c)
<1>1. /\ cmd[c].pc = "clear" /\ cmd[c].left = {} /\ UNCHANGED threads
      /\ \/ reviews' = Append(reviews, Approval) /\ Do(c, Ended)
         \/ UNCHANGED reviews /\ Miss(c, NotApproved(c))
         \/ UNCHANGED reviews /\ Do(c, NotApproved(c))
    BY DEF Approve
<1>2. CASE reviews' = Append(reviews, Approval) /\ Do(c, Ended)
    <2>1. Becomes(c, Ended, TRUE)  BY <1>2, EndedFits, DoEffect
    <2>. QED  BY <1>1, <1>2, <2>1, EndedFits DEF ApproveSets, Ends, Becomes
<1>3. ASSUME NEW ok \in BOOLEAN, UNCHANGED reviews, DoIf(ok, c, NotApproved(c))
      PROVE  ApproveSets(c)
    <2>1. Becomes(c, NotApproved(c), ok)  BY <1>3, NotApprovedFits, DoIfEffect
    <2>. QED  BY <1>1, <1>3, <2>1, NotApprovedFits
              DEF ApproveSets, SameCopy, SameCommand, Becomes
<1>4. /\ Do(c, NotApproved(c)) => DoIf(TRUE, c, NotApproved(c))
      /\ Miss(c, NotApproved(c)) => DoIf(FALSE, c, NotApproved(c))
    BY DEF DoIf
<1>. QED  BY <1>1, <1>2, <1>3, <1>4

DismissOwnSets(c) ==
    LET i == cmd[c].threads[cmd[c].target].review
    IN /\ cmd[c].pc = "dismiss" /\ StepOf(c) /\ UNCHANGED threads /\ Ends(c)
       /\ \/ reviews' = Dismissed({i})
          \/ UNCHANGED reviews /\ faults' = faults + 1
          \/ UNCHANGED reviews /\ OpenIn(cmd[c].threads, i) # {}

LEMMA DismissOwnEffect ==
    ASSUME ReviewsTypeOK, CommandsTypeOK, NEW c \in Commands, DismissOwn(c)
    PROVE  DismissOwnSets(c)
<1>. DEFINE i == cmd[c].threads[cmd[c].target].review
<1>1. /\ cmd[c].pc = "dismiss" /\ UNCHANGED threads
      /\ \/ reviews' = Dismissed({i}) /\ Do(c, Ended)
         \/ UNCHANGED reviews /\ Miss(c, Ended)
         \/ OpenIn(cmd[c].threads, i) # {} /\ UNCHANGED reviews /\ Do(c, Ended)
    BY Zenon DEF DismissOwn
<1>2. PICK ok \in BOOLEAN : Becomes(c, Ended, ok) /\ (Miss(c, Ended) => faults' = faults + 1)
    BY <1>1, EndedFits, DoEffect, MissEffect DEF Miss, Failing
<1>3. StepOf(c) /\ Ends(c)  BY <1>2, EndedFits DEF Ends, Becomes
<1>. HIDE DEF i
<1>4. \/ reviews' = Dismissed({i})
      \/ UNCHANGED reviews /\ faults' = faults + 1
      \/ UNCHANGED reviews /\ OpenIn(cmd[c].threads, i) # {}
    BY <1>1, <1>2
<1>. QED  BY <1>1, <1>3, <1>4 DEF DismissOwnSets, i

\* What a step of command c does.
CommandEffects(c) ==
    \/ BeginSets(c) \/ AskWhichSets(c) \/ ListSets(c) \/ ResolveSets(c) \/ RecordSets(c)
    \/ CheckSets(c) \/ ClearSets(c) \/ ApproveSets(c) \/ DismissOwnSets(c)

LEMMA CommandStepEffect ==
    ASSUME ReviewsTypeOK, CommandsTypeOK, NEW c \in Commands, CmdFits(c), CommandStep(c)
    PROVE  CommandEffects(c)
<1>1. CASE Dismiss(c)  BY <1>1, DismissEffect DEF CommandEffects
<1>2. CASE AskWhich(c)  BY <1>2, AskWhichEffect DEF CommandEffects
<1>3. CASE DismissInline(c)  BY <1>3, DismissInlineEffect DEF CommandEffects
<1>4. CASE List(c)  BY <1>4, ListEffect DEF CommandEffects
<1>5. CASE Resolve(c)  BY <1>5, ResolveEffect DEF CommandEffects
<1>6. CASE Record(c)  BY <1>6, RecordEffect DEF CommandEffects
<1>7. CASE CheckApproval(c)  BY <1>7, CheckApprovalEffect DEF CommandEffects
<1>8. CASE ClearNext(c)  BY <1>8, ClearNextEffect DEF CommandEffects
<1>9. CASE Approve(c)  BY <1>9, ApproveEffect DEF CommandEffects
<1>10. CASE DismissOwn(c)  BY <1>10, DismissOwnEffect DEF CommandEffects
<1>. QED
    BY <1>1, <1>2, <1>3, <1>4, <1>5, <1>6, <1>7, <1>8, <1>9, <1>10 DEF CommandStep

-----------------------------------------------------------------------------
(* The commands beside the runs: what holds at any time *)

ThreadsOnReviews == \A i \in DOMAIN threads : threads[i].review \in DOMAIN reviews

SlashTypeOK == ReviewsTypeOK /\ CommandsTypeOK /\ faults \in Nat

SlashFits ==
    /\ ReviewsFit /\ CommandsTypeOK /\ faults \in Nat /\ ThreadsOnReviews
    /\ \A c \in Commands : CmdFits(c)

LEMMA InitSlashFits == SlashInit => SlashFits
<1>. SUFFICES ASSUME SlashInit PROVE SlashFits  OBVIOUS
<1>1. ReviewsFit  BY InitReviewsFit DEF SlashInit
<1>2. CommandsTypeOK  BY NoCommandFits DEF SlashInit, CommandsTypeOK
<1>3. faults \in Nat /\ ThreadsOnReviews  BY DEF SlashInit, Init, ThreadsOnReviews
<1>4. ASSUME NEW c \in Commands PROVE CmdFits(c)
    <2>1. cmd[c].pc = "idle" /\ cmd[c].cleared = {} /\ cmd[c].target = 0
        BY NoCommandFits DEF SlashInit
    <2>. QED  BY <2>1 DEF CmdFits, Underway
<1>. QED  BY <1>1, <1>2, <1>3, <1>4 DEF SlashFits

\* The faults of a step are counted.
Counted == faults' \in {faults, faults + 1, faults + 2}

LEMMA StepsCounted ==
    /\ Answered => Counted
    /\ Failing => Counted
    /\ \A r : Step(r) => Counted
    /\ \A r : FailStep(r) => Counted
    /\ \A ok, r : StepIf(ok, r) => Counted
    /\ \A c, r : Do(c, r) => Counted
    /\ \A c, r : Miss(c, r) => Counted
    /\ \A ok, c, r : DoIf(ok, c, r) => Counted
BY DEF Answered, Failing, Step, FailStep, StepIf, Do, Miss, DoIf, Counted

LEMMA PostCounted == ASSUME NEW event, NEW comments, NEW ok, NEW r, Post(event, comments, ok, r)
                     PROVE  Counted
<1>1. PICK n \in Copies :
        \/ n = 1 /\ StepIf(ok, [r EXCEPT !.kept = Registered])
        \/ n = 2 /\ ok /\ faults' = faults + 2 /\ run' = [r EXCEPT !.kept = Registered]
        \/ n = 1 /\ comments # {} /\ FailStep(r)
    BY Zenon DEF Post
<1>. QED  BY <1>1, StepsCounted DEF Counted

LEMMA RunsCounted == ASSUME RunsNext PROVE Counted
<1>1. CASE StartRun  BY <1>1 DEF StartRun, Counted
<1>2. CASE Push  BY <1>2 DEF Push, Counted
<1>3. ASSUME NEW i, HumanResolve(i) PROVE Counted  BY <1>3 DEF HumanResolve, Counted
<1>4. CASE ReadReviews  BY <1>4, StepsCounted, Zenon DEF ReadReviews
<1>5. CASE ReadThreads  BY <1>5, StepsCounted, Zenon DEF ReadThreads
<1>6. ASSUME NEW f, Reopen(f) PROVE Counted  BY <1>6, StepsCounted, Zenon DEF Reopen
<1>7. CASE Recheck  BY <1>7, StepsCounted, Zenon DEF Recheck
<1>8. CASE Put  BY <1>8, StepsCounted, Zenon DEF Put
<1>9. CASE PostCommentsFirst
    BY <1>9, StepsCounted, PostCounted, Zenon DEF PostCommentsFirst
<1>10. CASE PostReview  BY <1>10, StepsCounted, PostCounted, Zenon DEF PostReview
<1>11. CASE Supersede  BY <1>11, StepsCounted, Zenon DEF Supersede
<1>12. CASE ResolveStale  BY <1>12, StepsCounted, Zenon DEF ResolveStale
<1>13. CASE DismissStale  BY <1>13, StepsCounted, Zenon DEF DismissStale
<1>. QED
    BY <1>1, <1>2, <1>3, <1>4, <1>5, <1>6, <1>7, <1>8, <1>9, <1>10, <1>11, <1>12, <1>13
    DEF RunsNext, RunStep

LEMMA CommandCounted == ASSUME NEW c \in Commands, CommandStep(c) PROVE Counted
<1>1. CASE Dismiss(c)  BY <1>1, StepsCounted, Zenon DEF Dismiss
<1>2. CASE AskWhich(c)  BY <1>2, StepsCounted, Zenon DEF AskWhich
<1>3. CASE DismissInline(c)  BY <1>3, StepsCounted, Zenon DEF DismissInline
<1>4. CASE List(c)  BY <1>4, StepsCounted, Zenon DEF List
<1>5. CASE Resolve(c)  BY <1>5, StepsCounted, Zenon DEF Resolve
<1>6. CASE Record(c)  BY <1>6, StepsCounted, Zenon DEF Record
<1>7. CASE CheckApproval(c)  BY <1>7, StepsCounted, Zenon DEF CheckApproval
<1>8. CASE ClearNext(c)  BY <1>8, StepsCounted, Zenon DEF ClearNext
<1>9. CASE Approve(c)  BY <1>9, StepsCounted, Zenon DEF Approve
<1>10. CASE DismissOwn(c)  BY <1>10, StepsCounted, Zenon DEF DismissOwn
<1>. QED
    BY <1>1, <1>2, <1>3, <1>4, <1>5, <1>6, <1>7, <1>8, <1>9, <1>10 DEF CommandStep

LEMMA OthersFit ==
    ASSUME NEW d \in Commands, CmdFits(d), GoesOn(cmd[d], cmd'[d])
    PROVE  CmdFits(d)'
<1>1. cmd'[d].quiet /\ cmd[d].pc \in Underway => reviews' = reviews /\ threads' = threads
    BY DEF GoesOn, Changed, Underway
<1>2. CASE cmd[d].pc \in Underway
    <2>1. cmd'[d].quiet => reviews' = reviews /\ threads' = threads  BY <1>1, <1>2
    <2>. QED  BY <2>1 DEF GoesOn, CmdFits
<1>3. CASE cmd[d].pc \notin Underway
    BY <1>3 DEF GoesOn, CmdFits, Underway
<1>. QED  BY <1>2, <1>3

\* A step of command c changes the reviews in one of these ways.
ReviewsByCommand(c) ==
    \/ UNCHANGED reviews \/ (RecordSets(c) /\ Marked(c))
    \/ reviews' = Append(reviews, Approval) \/ \E ids : reviews' = Dismissed(ids)

LEMMA CommandReviews ==
    ASSUME NEW c \in Commands, CommandEffects(c)
    PROVE  /\ ReviewsByCommand(c) /\ StepOf(c)
           /\ UNCHANGED threads \/ SameThreads
<1>1. CASE BeginSets(c) \/ AskWhichSets(c)
    BY <1>1 DEF BeginSets, AskWhichSets, ReviewsByCommand
<1>2. CASE ListSets(c)  BY <1>2 DEF ListSets, ReviewsByCommand
<1>3. CASE ResolveSets(c)  BY <1>3 DEF ResolveSets, TargetSets, ReviewsByCommand
<1>4. CASE RecordSets(c)  BY <1>4 DEF RecordSets, ReviewsByCommand
<1>5. CASE CheckSets(c)  BY <1>5 DEF CheckSets, ReviewsByCommand
<1>6. CASE ClearSets(c)  BY <1>6 DEF ClearSets, ReviewsByCommand
<1>7. CASE ApproveSets(c)  BY <1>7 DEF ApproveSets, ReviewsByCommand
<1>8. CASE DismissOwnSets(c)  BY <1>8 DEF DismissOwnSets, ReviewsByCommand
<1>. QED  BY <1>1, <1>2, <1>3, <1>4, <1>5, <1>6, <1>7, <1>8 DEF CommandEffects

LEMMA ApprovalFits ==
    Approval \in ReviewType /\ Approval.state = "APPROVED" /\ Approval.body.bullets = {}
    /\ Approval.body.verdict = NoVerdicts
BY EmptyFits DEF Approval, ReviewType, BodyType

LEMMA CommandGrows ==
    ASSUME ReviewsTypeOK, NEW c \in Commands, CommandEffects(c)
    PROVE  Grown /\ (UNCHANGED threads \/ SameThreads)
<1>1. reviews \in Seq(ReviewType) /\ threads \in Seq(ThreadType)  BY DEF ReviewsTypeOK
<1>2. UNCHANGED threads => SameThreads  BY <1>1 DEF SameThreads
<1>3. reviews' \in Seq(ReviewType) /\ Len(reviews) <= Len(reviews')
    <2>1. CASE UNCHANGED reviews  BY <1>1, <2>1
    <2>2. CASE Marked(c)  BY <1>1, <2>2 DEF Marked
    <2>3. CASE reviews' = Append(reviews, Approval)  BY <1>1, <2>3, ApprovalFits
    <2>4. ASSUME NEW ids, reviews' = Dismissed(ids)
          PROVE  reviews' \in Seq(ReviewType) /\ Len(reviews) <= Len(reviews')
        BY <1>1, <2>4, DismissedFits DEF ReviewsDismissed
    <2>. QED  BY <2>1, <2>2, <2>3, <2>4, CommandReviews DEF ReviewsByCommand
<1>. QED  BY <1>2, <1>3, CommandReviews, SameThreadsGrow

\* Threads stay on reviews: commands add none, and a run posts them with their review.
LEMMA GrownOnReviews ==
    ASSUME ReviewsTypeOK, ThreadsOnReviews, Grown, DOMAIN threads' = DOMAIN threads
    PROVE  ThreadsOnReviews'
<1>1. DOMAIN reviews \subseteq DOMAIN reviews'  BY DEF Grown, ReviewsTypeOK
<1>. QED  BY <1>1 DEF Grown, ThreadsOnReviews

LEMMA PostedOnReviews ==
    ASSUME ReviewsTypeOK, ThreadsOnReviews, Grown, NEW comments, ThreadsPosted(comments)
    PROVE  ThreadsOnReviews'
<1>1. DOMAIN reviews \subseteq DOMAIN reviews'  BY DEF Grown, ReviewsTypeOK
<1>2. \A i \in DOMAIN threads' : i \in DOMAIN threads \/ i \in Added
    BY DEF ThreadsPosted, ReviewsTypeOK, Added
<1>. QED  BY <1>1, <1>2 DEF Grown, ThreadsPosted, ThreadsOnReviews

LEMMA RunsOnReviews ==
    ASSUME ReviewsTypeOK, ThreadsOnReviews, RunsEffects
    PROVE  ThreadsOnReviews'
<1>1. Grown  BY RunsGrow
<1>2. SameThreads => DOMAIN threads' = DOMAIN threads  BY DEF SameThreads, ReviewsTypeOK
<1>3. DOMAIN threads' = DOMAIN threads => ThreadsOnReviews'  BY <1>1, GrownOnReviews
<1>4. \A comments : ThreadsPosted(comments) => ThreadsOnReviews'
    BY <1>1, PostedOnReviews
<1>5. CASE StartRunSets \/ PushSets \/ (ResolvedByOther /\ reviews' = reviews)
    BY <1>2, <1>3, <1>5 DEF StartRunSets, PushSets, ResolvedByOther
<1>6. CASE ReadReviewsSets \/ ReadThreadsSets
    BY <1>3, <1>6 DEF ReadReviewsSets, ReadThreadsSets
<1>7. ASSUME NEW f, NEW i, NEW reopened, ReopenSets(f, i, reopened) PROVE ThreadsOnReviews'
    BY <1>2, <1>3, <1>7 DEF ReopenSets
<1>8. CASE RecheckSets \/ PutSets  BY <1>3, <1>8 DEF RecheckSets, PutSets
<1>9. CASE CommentsFirstSets  BY <1>3, <1>4, <1>9 DEF CommentsFirstSets
<1>10. CASE PostReviewSets  BY <1>3, <1>4, <1>10 DEF PostReviewSets, ReviewIsPosted
<1>11. CASE SupersedeSets \/ ResolveStaleSets \/ DismissStaleSets
    BY <1>2, <1>3, <1>11 DEF SupersedeSets, ResolveStaleSets, DismissStaleSets
<1>. QED  BY <1>5, <1>6, <1>7, <1>8, <1>9, <1>10, <1>11 DEF RunsEffects

\* What a step of the command leaves of it fits in each case.
LEMMA EndsFit == ASSUME NEW c \in Commands, Ends(c) PROVE CmdFits(c)'
BY DEF Ends, CmdFits, Underway

\* What is known of the command does not change, with the threads, before it clears.
LEMMA CopyFits ==
    ASSUME NEW c \in Commands, CmdFits(c), cmd[c].pc \in Underway, UNCHANGED threads,
           SameCopy(cmd[c], cmd'[c]),
           cmd[c].pc \in {"list", "record"} => cmd'[c].cleared = cmd[c].cleared,
           cmd[c].pc # "resolve",
           cmd'[c].pc \in {"resolve", "record", "check", "dismiss"},
           cmd'[c].pc \in {"check", "dismiss"} => cmd[c].target # 0,
           cmd'[c].pc # "dismiss" => cmd[c].pc \in {"list", "record"}
    PROVE  CmdFits(c)'
<1>1. /\ cmd'[c].finding = cmd[c].finding /\ cmd'[c].mark = cmd[c].mark
      /\ cmd'[c].target = cmd[c].target /\ cmd'[c].threads = cmd[c].threads
      /\ (cmd'[c].quiet => cmd[c].quiet)
    BY DEF SameCopy, SameCommand
<1>2. cmd'[c].quiet /\ cmd'[c].target # 0 =>
           cmd'[c].threads = threads' /\ cmd'[c].target \in DOMAIN threads'
    BY <1>1 DEF CmdFits
<1>3. cmd'[c].finding \in Findings /\ cmd'[c].mark \in {"dismissed", "fixed"}
    BY <1>1 DEF CmdFits
<1>4. cmd'[c].pc \notin {"clear", "dismiss"} => cmd'[c].cleared = {}  BY DEF CmdFits
<1>. QED  BY <1>1, <1>2, <1>3, <1>4 DEF CmdFits

LEMMA BeginFits == ASSUME NEW c \in Commands, BeginSets(c) PROVE CmdFits(c)'
BY DEF BeginSets, CmdFits, Underway

LEMMA ResolveFits ==
    ASSUME ReviewsTypeOK, NEW c \in Commands, CmdFits(c), cmd[c].pc = "resolve",
           NEW i, TargetSets(c, i)
    PROVE  CmdFits(c)'
<1>1. DOMAIN threads' = DOMAIN threads  BY DEF TargetSets, SameThreads, ReviewsTypeOK
<1>2. cmd'[c].finding \in Findings /\ cmd'[c].mark \in {"dismissed", "fixed"}
    BY DEF TargetSets, SameCommand, CmdFits, Underway
<1>3. cmd'[c].cleared = {}  BY DEF TargetSets, CmdFits
<1>. QED  BY <1>1, <1>2, <1>3 DEF TargetSets, CmdFits, Underway

LEMMA CheckFits ==
    ASSUME NEW c \in Commands, CmdFits(c), CheckSets(c)
    PROVE  CmdFits(c)'
<1>1. CASE cmd'[c].pc = "dismiss"
    BY <1>1, CopyFits DEF CheckSets, CmdFits, Underway
<1>2. CASE cmd'[c].pc = "clear"
    <2>1. /\ cmd'[c].finding = cmd[c].finding /\ cmd'[c].mark = cmd[c].mark
          /\ cmd'[c].target = cmd[c].target /\ cmd'[c].threads = cmd[c].threads
          /\ (cmd'[c].quiet => cmd[c].quiet) /\ cmd'[c].cleared = cmd[c].cleared
          /\ cmd[c].pc = "check" /\ reviews' = reviews /\ threads' = threads
        BY DEF CheckSets, SameCopy, SameCommand
    <2>2. cmd'[c].target # 0 /\ cmd'[c].cleared = {}  BY <2>1 DEF CmdFits
    <2>3. cmd'[c].quiet => cmd[c].threads = threads /\ cmd[c].target \in DOMAIN threads
        BY <2>1, <2>2 DEF CmdFits, Underway
    <2>4. cmd'[c].quiet => /\ Blocking(reviews') \subseteq cmd'[c].left
                           /\ \A i \in cmd'[c].left \cup cmd'[c].cleared : OpenIn(threads', i) = {}
        BY <1>2, <2>1, <2>2, <2>3 DEF CheckSets
    <2>5. cmd'[c].finding \in Findings /\ cmd'[c].mark \in {"dismissed", "fixed"}
        BY <2>1 DEF CmdFits, Underway
    <2>. QED  BY <1>2, <2>1, <2>2, <2>3, <2>4, <2>5 DEF CmdFits
<1>. QED  BY <1>1, <1>2 DEF CheckSets

LEMMA BlockingDismissed ==
    ASSUME ReviewsTypeOK, NEW i, reviews' = Dismissed({i})
    PROVE  Blocking(reviews') = Blocking(reviews) \ {i}
<1>1. ReviewsDismissed(reviews', {i}) /\ reviews \in Seq(ReviewType)
    BY DismissedFits DEF ReviewsTypeOK
<1>2. DOMAIN reviews' = DOMAIN reviews  BY <1>1 DEF ReviewsDismissed
<1>3. \A j \in DOMAIN reviews :
          reviews'[j].state = "CHANGES_REQUESTED" <=>
              reviews[j].state = "CHANGES_REQUESTED" /\ j # i
    BY <1>1 DEF ReviewsDismissed
<1>. QED  BY <1>2, <1>3 DEF Blocking

LEMMA ClearFits ==
    ASSUME ReviewsTypeOK, NEW c \in Commands, CmdFits(c), ClearSets(c)
    PROVE  CmdFits(c)'
<1>1. CASE cmd'[c].pc = "dismiss"
    BY <1>1, CopyFits DEF ClearSets, CmdFits, Underway
<1>2. ASSUME NEW i \in cmd[c].left, cmd'[c].pc = "clear", cmd'[c].left = cmd[c].left \ {i},
             cmd'[c].cleared \subseteq cmd[c].cleared \cup {i},
             reviews' = Dismissed({i}) \/ (UNCHANGED reviews /\ ~StillBlocks(i))
      PROVE  CmdFits(c)'
    <2>1. /\ cmd'[c].finding = cmd[c].finding /\ cmd'[c].mark = cmd[c].mark
          /\ cmd'[c].target = cmd[c].target /\ cmd'[c].threads = cmd[c].threads
          /\ (cmd'[c].quiet => cmd[c].quiet)
          /\ cmd[c].pc = "clear" /\ threads' = threads
        BY DEF ClearSets, SameCopy, SameCommand
    <2>2. cmd[c].target # 0  BY <2>1 DEF CmdFits
    <2>3. cmd'[c].quiet => cmd[c].threads = threads /\ cmd[c].target \in DOMAIN threads
        BY <2>1, <2>2 DEF CmdFits, Underway
    <2>4. cmd'[c].quiet => /\ Blocking(reviews) \subseteq cmd[c].left
                           /\ \A j \in cmd[c].left \cup cmd[c].cleared : OpenIn(threads, j) = {}
        BY <2>1 DEF CmdFits
    <2>5. cmd'[c].quiet => \A j \in cmd'[c].left \cup cmd'[c].cleared : OpenIn(threads', j) = {}
        BY <1>2, <2>1, <2>4
    <2>6. cmd'[c].quiet => Blocking(reviews') \subseteq cmd'[c].left
        <3>1. CASE reviews' = Dismissed({i})
            BY <1>2, <2>4, <3>1, BlockingDismissed
        <3>2. CASE UNCHANGED reviews /\ ~StillBlocks(i)
            BY <1>2, <2>4, <3>2 DEF Blocking, StillBlocks
        <3>. QED  BY <1>2, <3>1, <3>2
    <2>7. cmd'[c].finding \in Findings /\ cmd'[c].mark \in {"dismissed", "fixed"}
        BY <2>1 DEF CmdFits, Underway
    <2>. QED  BY <1>2, <2>1, <2>2, <2>3, <2>5, <2>6, <2>7 DEF CmdFits
<1>. QED  BY <1>1, <1>2 DEF ClearSets

LEMMA CommandFits ==
    ASSUME ReviewsTypeOK, NEW c \in Commands, CmdFits(c), CommandEffects(c)
    PROVE  CmdFits(c)'
<1>1. CASE BeginSets(c)  BY <1>1, BeginFits
<1>2. CASE AskWhichSets(c)  BY <1>2, EndsFit DEF AskWhichSets
<1>3. CASE ListSets(c)  BY <1>3, EndsFit, CopyFits DEF ListSets, Underway
<1>4. CASE ResolveSets(c)  BY <1>4, EndsFit, ResolveFits DEF ResolveSets
<1>5. CASE RecordSets(c)  BY <1>5, EndsFit, CopyFits DEF RecordSets, Underway
<1>6. CASE CheckSets(c)  BY <1>6, CheckFits
<1>7. CASE ClearSets(c)  BY <1>7, ClearFits
<1>8. CASE ApproveSets(c)
    BY <1>8, EndsFit, CopyFits DEF ApproveSets, Underway, CmdFits
<1>9. CASE DismissOwnSets(c)  BY <1>9, EndsFit DEF DismissOwnSets
<1>. QED
    BY <1>1, <1>2, <1>3, <1>4, <1>5, <1>6, <1>7, <1>8, <1>9 DEF CommandEffects

\* A step of the commands and of the runs.
NextEffects ==
    /\ Counted
    /\ \/ RunsEffects /\ cmd' = Overtaken
       \/ \E c \in Commands : CommandEffects(c)

LEMMA NextEffect == ASSUME SlashFits, Next PROVE NextEffects
<1>1. CASE OtherStep
    BY <1>1, RunsNextEffect, RunsCounted DEF OtherStep, SlashFits, ReviewsFit, NextEffects
<1>2. ASSUME NEW c \in Commands, CommandStep(c) PROVE NextEffects
    BY <1>2, CommandStepEffect, CommandCounted DEF SlashFits, ReviewsFit, NextEffects
<1>. QED  BY <1>1, <1>2 DEF Next

LEMMA SlashStepFits == ASSUME SlashFits, NextEffects PROVE SlashFits'
<1>0. /\ ReviewsFit /\ ReviewsTypeOK /\ CommandsTypeOK /\ ThreadsOnReviews
      /\ \A c \in Commands : CmdFits(c)
    BY DEF SlashFits, ReviewsFit
<1>1. faults' \in Nat  BY DEF SlashFits, NextEffects, Counted
<1>2. ASSUME RunsEffects, cmd' = Overtaken PROVE SlashFits'
    <2>1. ReviewsFit' /\ ThreadsOnReviews'  BY <1>0, <1>2, RunsStepFits, RunsOnReviews
    <2>2. cmd' \in [Commands -> CommandType] /\ \A d \in Commands : GoesOn(cmd[d], cmd'[d])
        BY <1>0, <1>2, OvertakenFits
    <2>3. \A d \in Commands : CmdFits(d)'  BY <1>0, <2>2, OthersFit
    <2>. QED  BY <1>1, <2>1, <2>2, <2>3 DEF SlashFits, CommandsTypeOK
<1>3. ASSUME NEW c \in Commands, CommandEffects(c) PROVE SlashFits'
    <2>1. Grown /\ (UNCHANGED threads \/ SameThreads) /\ StepOf(c)
        BY <1>0, <1>3, CommandGrows, CommandReviews
    <2>2. DOMAIN threads' = DOMAIN threads  BY <1>0, <2>1 DEF SameThreads, ReviewsTypeOK
    <2>3. ThreadsOnReviews'  BY <1>0, <2>1, <2>2, GrownOnReviews
    <2>4. ReviewsFit'
        BY <1>0, <2>1, SameRunFits DEF StepOf, SameRun, ReviewsTypeOK
    <2>5. CmdFits(c)'  BY <1>0, <1>3, CommandFits
    <2>6. \A d \in Commands \ {c} : CmdFits(d)'  BY <1>0, <2>1, OthersFit DEF StepOf
    <2>. QED  BY <1>1, <2>1, <2>3, <2>4, <2>5, <2>6 DEF SlashFits, StepOf, CommandsTypeOK
<1>. QED  BY <1>2, <1>3 DEF NextEffects

LEMMA SlashStutter == ASSUME SlashFits, UNCHANGED vars PROVE SlashFits'
<1>1. reviews' = reviews /\ threads' = threads /\ cmd' = cmd /\ faults' = faults
    BY DEF vars, reviewVars
<1>2. ReviewsFit'  BY StutterFits DEF vars, SlashFits
<1>3. \A c \in Commands : CmdFits(c)'  BY <1>1 DEF SlashFits, CmdFits
<1>. QED  BY <1>1, <1>2, <1>3 DEF SlashFits, CommandsTypeOK, ThreadsOnReviews

LEMMA SlashRunsFit == Spec => []SlashFits
<1>1. SlashFits /\ [Next]_vars => SlashFits'  BY NextEffect, SlashStepFits, SlashStutter
<1>. QED  BY <1>1, InitSlashFits, PTL DEF Spec

\* While commands and runs overlap, the reviews, the threads, the run, the commands and
\* the count of faults keep the types they are meant to have.
THEOREM SlashTypeCorrect == Spec => []SlashTypeOK
<1>1. SlashFits => SlashTypeOK  BY DEF SlashFits, ReviewsFit, SlashTypeOK
<1>. QED  BY <1>1, SlashRunsFit, PTL

-----------------------------------------------------------------------------
(* A command that ends undisturbed *)

\* It ends by its approval, when nothing is left that blocks, or by dismissing the
\* review of its own thread, unless that has open threads.
QuietEnd(c) ==
    \/ /\ cmd[c].pc = "clear" /\ Blocking(reviews) = {} /\ reviews' = Append(reviews, Approval)
       /\ \A i \in cmd[c].cleared : OpenIn(threads, i) = {}
    \/ /\ cmd[c].pc = "dismiss"
       /\ LET i == threads[cmd[c].target].review
          IN reviews' = Dismissed({i}) \/ (UNCHANGED reviews /\ OpenIn(threads, i) # {})

LEMMA EndsQuietlyEffect ==
    ASSUME SlashFits, NextEffects, NEW c \in Commands, EndsQuietly(c)
    PROVE  /\ QuietEnd(c) /\ threads' = threads
           /\ cmd[c].target \in DOMAIN threads /\ threads[cmd[c].target].review \in DOMAIN reviews
<1>1. /\ cmd[c].pc \in {"check", "clear", "dismiss"} /\ cmd'[c].pc = "ended" /\ cmd[c].quiet
      /\ faults' = faults
    BY DEF EndsQuietly
<1>2. CmdFits(c) /\ ThreadsOnReviews /\ faults \in Nat /\ CommandsTypeOK
    BY DEF SlashFits
<1>3. cmd[c].threads = threads /\ cmd[c].target \in DOMAIN threads
    BY <1>1, <1>2 DEF CmdFits, Underway
<1>4. threads[cmd[c].target].review \in DOMAIN reviews
    BY <1>2, <1>3 DEF ThreadsOnReviews
<1>5. \A d \in Commands \ {c} : ~CommandEffects(d)
    <2>1. ASSUME NEW d \in Commands \ {c}, CommandEffects(d) PROVE FALSE
        <3>1. GoesOn(cmd[c], cmd'[c])  BY <2>1, CommandReviews DEF StepOf
        <3>. QED  BY <1>1, <3>1 DEF GoesOn
    <2>. QED  BY <2>1
<1>6. cmd' # Overtaken
    <2>1. GoesOn(cmd[c], Overtaken[c])  BY <1>2, OvertakenFits
    <2>. QED  BY <1>1, <2>1 DEF GoesOn
<1>7. CommandEffects(c)  BY <1>5, <1>6 DEF NextEffects
<1>8. CASE ApproveSets(c)
    BY <1>1, <1>2, <1>3, <1>4, <1>8 DEF ApproveSets, QuietEnd, CmdFits
<1>9. CASE DismissOwnSets(c)
    BY <1>1, <1>2, <1>3, <1>4, <1>9 DEF DismissOwnSets, QuietEnd
<1>10. ~(CheckSets(c) \/ ClearSets(c))  BY <1>1 DEF CheckSets, ClearSets
<1>11. ~(BeginSets(c) \/ AskWhichSets(c) \/ ListSets(c) \/ ResolveSets(c) \/ RecordSets(c))
    BY <1>1 DEF BeginSets, AskWhichSets, ListSets, ResolveSets, RecordSets
<1>. QED  BY <1>7, <1>8, <1>9, <1>10, <1>11 DEF CommandEffects

LEMMA ApprovalAppended ==
    ASSUME ReviewsTypeOK, reviews' = Append(reviews, Approval)
    PROVE  /\ DOMAIN reviews' = DOMAIN reviews \cup {Len(reviews) + 1}
           /\ \A i \in DOMAIN reviews : reviews'[i] = reviews[i]
           /\ reviews'[Len(reviews) + 1].state = "APPROVED"
           /\ reviews'[Len(reviews) + 1].body = Approval.body
<1>1. reviews \in Seq(ReviewType)  BY DEF ReviewsTypeOK
<1>2. /\ Len(reviews') = Len(reviews) + 1 /\ \A i \in DOMAIN reviews : reviews'[i] = reviews[i]
      /\ reviews'[Len(reviews) + 1] = Approval
    BY <1>1, ApprovalFits
<1>3. DOMAIN reviews' = 1..Len(reviews) + 1 /\ DOMAIN reviews = 1..Len(reviews) /\ Len(reviews) \in Nat
    BY <1>1, <1>2, ApprovalFits
<1>. QED  BY <1>2, <1>3, ApprovalFits

\* A command that resolves the last open thread of a review, with no call failing and
\* nobody interfering, leaves that review not blocking, however many commands and runs
\* there are: its copy of the threads has stayed true, and so has its list of the
\* reviews to clear.
THEOREM LastResolutionFrees == Spec => LastResolutionUnblocks
<1>. DEFINE Freed ==
         \A c \in Commands : EndsQuietly(c) =>
            LET r == threads[cmd[c].target].review
            IN OpenIn(threads', r) = {} => reviews'[r].state # "CHANGES_REQUESTED"
<1>1. ASSUME SlashFits, Next, NEW c \in Commands, EndsQuietly(c),
             OpenIn(threads', threads[cmd[c].target].review) = {}
      PROVE  reviews'[threads[cmd[c].target].review].state # "CHANGES_REQUESTED"
    <2>. DEFINE r == threads[cmd[c].target].review
    <2>1. QuietEnd(c) /\ threads' = threads /\ r \in DOMAIN reviews
        BY <1>1, NextEffect, EndsQuietlyEffect
    <2>2. ReviewsTypeOK  BY <1>1 DEF SlashFits, ReviewsFit
    <2>3. CASE Blocking(reviews) = {} /\ reviews' = Append(reviews, Approval)
        BY <2>1, <2>2, <2>3, ApprovalAppended DEF Blocking
    <2>4. CASE reviews' = Dismissed({r})
        <3>1. Blocking(reviews') = Blocking(reviews) \ {r}  BY <2>2, <2>4, BlockingDismissed
        <3>2. r \in DOMAIN reviews'
            BY <2>1, <2>2, <2>4, DismissedFits DEF ReviewsDismissed, ReviewsTypeOK
        <3>. QED  BY <3>1, <3>2 DEF Blocking
    <2>. QED  BY <1>1, <2>1, <2>3, <2>4 DEF QuietEnd
<1>2. SlashFits /\ Next => Freed  BY <1>1
<1>3. UNCHANGED vars => Freed  BY DEF vars, EndsQuietly
<1>4. SlashFits /\ [Next]_vars => [Freed]_vars  BY <1>2, <1>3
<1>5. [][Freed]_vars => LastResolutionUnblocks  BY DEF LastResolutionUnblocks
<1>. QED  BY <1>4, <1>5, SlashRunsFit, PTL DEF Spec

\* A command that approves, undisturbed, approves a pull request that no review blocks any
\* more, and has cleared away no review with an open thread.
THEOREM ApprovalsAreEarned == Spec => ApprovalIsEarned
<1>. DEFINE Earned ==
         \A c \in Commands :
            EndsQuietly(c) /\ Len(reviews') > Len(reviews) =>
                /\ Blocking(reviews') = {}
                /\ \A r \in cmd[c].cleared : OpenIn(threads, r) = {}
<1>1. ASSUME SlashFits, Next, NEW c \in Commands, EndsQuietly(c), Len(reviews') > Len(reviews)
      PROVE  /\ Blocking(reviews') = {}
             /\ \A r \in cmd[c].cleared : OpenIn(threads, r) = {}
    <2>1. QuietEnd(c)  BY <1>1, NextEffect, EndsQuietlyEffect
    <2>2. ReviewsTypeOK /\ Len(reviews) \in Nat
        BY <1>1 DEF SlashFits, ReviewsFit, ReviewsTypeOK
    <2>3. \A ids : reviews' # Dismissed(ids)
        BY <1>1, <2>2, DismissedFits DEF ReviewsDismissed, ReviewsTypeOK
    <2>4. /\ Blocking(reviews) = {} /\ reviews' = Append(reviews, Approval)
          /\ \A i \in cmd[c].cleared : OpenIn(threads, i) = {}
        BY <1>1, <2>1, <2>2, <2>3 DEF QuietEnd
    <2>5. Blocking(reviews') = {}  BY <2>2, <2>4, ApprovalAppended DEF Blocking
    <2>. QED  BY <2>4, <2>5
<1>2. SlashFits /\ Next => Earned  BY <1>1
<1>3. UNCHANGED vars => Earned  BY DEF vars, EndsQuietly
<1>4. SlashFits /\ [Next]_vars => [Earned]_vars  BY <1>2, <1>3
<1>5. [][Earned]_vars => ApprovalIsEarned  BY DEF ApprovalIsEarned
<1>. QED  BY <1>4, <1>5, SlashRunsFit, PTL DEF Spec

-----------------------------------------------------------------------------
(* Dismissals *)

\* What a run can have made of the bodies.
RunBodies ==
    \A j \in DOMAIN reviews' :
        \/ j \in DOMAIN reviews /\ reviews'[j].body = reviews[j].body
        \/ j \notin DOMAIN reviews /\ reviews'[j].body = EmptyBody
        \/ reviews'[j].body = RenderedBody /\ run'.pc # run.pc

LEMMA RunBodiesStep == ASSUME ReviewsTypeOK, RunsEffects PROVE RunBodies
<1>0. reviews \in Seq(ReviewType)  BY DEF ReviewsTypeOK
<1>1. ASSUME reviews' = reviews PROVE RunBodies  BY <1>0, <1>1 DEF RunBodies
<1>2. ASSUME NEW ids, reviews' = Dismissed(ids) PROVE RunBodies
    <2>1. ReviewsDismissed(reviews', ids)  BY <1>0, <1>2, DismissedFits
    <2>2. DOMAIN reviews' = DOMAIN reviews  BY <1>0, <2>1 DEF ReviewsDismissed
    <2>. QED  BY <2>1, <2>2 DEF ReviewsDismissed, RunBodies
<1>3. ASSUME reviews' = Append(reviews, EmptyReview) PROVE RunBodies
    <2>1. \A j \in DOMAIN reviews' :
              \/ j \in DOMAIN reviews /\ reviews'[j] = reviews[j]
              \/ j \notin DOMAIN reviews /\ reviews'[j] = EmptyReview
        BY <1>0, <1>3
    <2>2. EmptyReview.body = EmptyBody  BY DEF EmptyReview
    <2>. QED  BY <2>1, <2>2 DEF RunBodies
<1>4. ASSUME NEW n, NEW event, ReviewsPosted(n, event), run'.pc # run.pc PROVE RunBodies
    BY <1>4 DEF ReviewsPosted, RunBodies
<1>5. CASE PutSets
    <2>1. CASE reviews' = Rewritten(Canon, RenderedBody)
        <3>1. reviews' = WithBody(reviews, Canon, RenderedBody)
            BY <2>1 DEF Rewritten, WithBody
        <3>2. BodySet(reviews', reviews, Canon, RenderedBody)
            BY <1>0, <3>1, RewrittenFits, RenderedFits
        <3>3. DOMAIN reviews' = DOMAIN reviews  BY <1>0, <3>2 DEF BodySet
        <3>. QED  BY <1>5, <3>2, <3>3 DEF PutSets, BodySet, RunBodies
    <2>. QED  BY <1>1, <1>5, <2>1 DEF PutSets
<1>6. CASE CommentsFirstSets
    <2>1. run'.pc # run.pc  BY <1>6 DEF CommentsFirstSets, Posting, Ready
    <2>. QED  BY <1>1, <1>4, <1>6, <2>1 DEF CommentsFirstSets
<1>7. CASE PostReviewSets
    <2>1. run'.pc # run.pc
        BY <1>7 DEF PostReviewSets, ReviewIsPosted, Posting, Ready
    <2>. QED  BY <1>1, <1>4, <1>7, <2>1 DEF PostReviewSets, ReviewIsPosted
<1>8. CASE StartRunSets \/ PushSets \/ (ResolvedByOther /\ reviews' = reviews)
    BY <1>1, <1>8 DEF StartRunSets, PushSets
<1>9. CASE ReadReviewsSets \/ ReadThreadsSets \/ RecheckSets
    BY <1>1, <1>9 DEF ReadReviewsSets, ReadThreadsSets, RecheckSets
<1>10. ASSUME NEW f, NEW i, NEW reopened, ReopenSets(f, i, reopened) PROVE RunBodies
    BY <1>1, <1>3, <1>10 DEF ReopenSets
<1>11. CASE SupersedeSets \/ ResolveStaleSets \/ DismissStaleSets
    BY <1>1, <1>2, <1>11 DEF SupersedeSets, ResolveStaleSets, DismissStaleSets
<1>. QED  BY <1>5, <1>6, <1>7, <1>8, <1>9, <1>10, <1>11 DEF RunsEffects

\* The threads that a run adds are for findings it renders.
RunThreads == \A i \in DOMAIN threads' \ DOMAIN threads : threads'[i].finding \in Rendered

LEMMA RunThreadsStep == ASSUME ReviewsTypeOK, RunsEffects PROVE RunThreads
<1>0. threads \in Seq(ThreadType)  BY DEF ReviewsTypeOK
<1>1. ASSUME UNCHANGED threads \/ SameThreads PROVE RunThreads
    <2>1. DOMAIN threads' = DOMAIN threads  BY <1>0, <1>1 DEF SameThreads
    <2>. QED  BY <2>1 DEF RunThreads
<1>2. ASSUME NEW comments, comments \subseteq Rendered, ThreadsPosted(comments) PROVE RunThreads
    <2>1. \A i \in DOMAIN threads' \ DOMAIN threads : i \in Added
        BY <1>0, <1>2 DEF ThreadsPosted, Added
    <2>. QED  BY <1>2, <2>1 DEF ThreadsPosted, RunThreads
<1>3. Comments \subseteq Rendered /\ PostedComments \subseteq Rendered
    BY DEF Comments, PostedComments
<1>4. CASE CommentsFirstSets \/ PostReviewSets
    BY <1>1, <1>2, <1>3, <1>4 DEF CommentsFirstSets, PostReviewSets, ReviewIsPosted
<1>5. CASE StartRunSets \/ PushSets \/ (ResolvedByOther /\ reviews' = reviews)
    BY <1>1, <1>5 DEF StartRunSets, PushSets, ResolvedByOther
<1>6. CASE ReadReviewsSets \/ ReadThreadsSets \/ RecheckSets \/ PutSets
    BY <1>1, <1>6 DEF ReadReviewsSets, ReadThreadsSets, RecheckSets, PutSets
<1>7. ASSUME NEW f, NEW i, NEW reopened, ReopenSets(f, i, reopened) PROVE RunThreads
    BY <1>1, <1>7 DEF ReopenSets
<1>8. CASE SupersedeSets \/ ResolveStaleSets \/ DismissStaleSets
    BY <1>1, <1>8 DEF SupersedeSets, ResolveStaleSets, DismissStaleSets
<1>. QED  BY <1>4, <1>5, <1>6, <1>7, <1>8 DEF RunsEffects

\* Where a dismissal stands last, the union of the verdicts has it.
LEMMA MergedDismissal ==
    ASSUME NEW revs \in Seq(ReviewType), NEW f \in Findings, StandsDismissed(revs, f)
    PROVE  MergeVerdicts(revs)[f] = "dismissed"
<1>1. PICK i \in DOMAIN revs :
        /\ revs[i].body.verdict[f] = "dismissed"
        /\ \A j \in DOMAIN revs :
               j > i => revs[j].body.verdict[f] \in {"none", "dismissed"}
    BY DEF StandsDismissed
<1>2. PICK k \in DOMAIN revs :
        /\ MergeVerdicts(revs)[f] = revs[k].body.verdict[f]
        /\ revs[k].body.verdict[f] # "none"
        /\ \A j \in DOMAIN revs : j > k => revs[j].body.verdict[f] = "none"
    BY <1>1, MergeVerdictsFits
<1>3. i \in Nat /\ k \in Nat /\ ~(i > k)  BY <1>1, <1>2
<1>. QED  BY <1>1, <1>2, <1>3

LEMMA DismissalStands ==
    ASSUME ReviewsTypeOK, NEW f \in Findings, StandsDismissed(reviews, f), Grown,
           \A j \in DOMAIN reviews :
               reviews'[j].body.verdict[f] \in {reviews[j].body.verdict[f], "dismissed"},
           \A j \in DOMAIN reviews' \ DOMAIN reviews :
               reviews'[j].body.verdict[f] \in {"none", "dismissed"}
    PROVE  StandsDismissed(reviews', f)
<1>1. PICK i \in DOMAIN reviews :
        /\ reviews[i].body.verdict[f] = "dismissed"
        /\ \A j \in DOMAIN reviews :
               j > i => reviews[j].body.verdict[f] \in {"none", "dismissed"}
    BY DEF StandsDismissed
<1>2. DOMAIN reviews \subseteq DOMAIN reviews'  BY DEF Grown, ReviewsTypeOK
<1>3. \A j \in DOMAIN reviews' : j > i => reviews'[j].body.verdict[f] \in {"none", "dismissed"}
    BY <1>1
<1>. QED  BY <1>1, <1>2, <1>3 DEF StandsDismissed

\* A run that has read a dismissal writes it back and renders nothing for the finding.
LEMMA DismissalRead ==
    ASSUME ReviewsTypeOK, NEW f \in Findings, StandsDismissed(run.reviews, f)
    PROVE  RenderedBody.verdict[f] = "dismissed" /\ f \notin Rendered
           /\ f \notin RenderedBody.bullets
<1>1. Prior[f] = "dismissed"  BY MergedDismissal DEF Prior, ReviewsTypeOK, RunType
<1>2. f \notin Recurred  BY <1>1 DEF Recurred
<1>3. f \notin Rendered  BY <1>1, RenderedFits DEF Suppressed
<1>4. RenderedBody.verdict = UpdatedVerdicts /\ RenderedBody.bullets = Bullets
    BY DEF RenderedBody
<1>. QED  BY <1>1, <1>2, <1>3, <1>4 DEF UpdatedVerdicts, Bullets

\* Three ways in which a dismissal may be lost, all of them without having read it, or by
\* a command that claims a fix.
LostFor(f) ==
    \/ \E c \in Commands : cmd[c].pc = "record" /\ cmd[c].finding = f /\ cmd[c].mark = "fixed"
    \/ ~StandsDismissed(run.reviews, f) /\ run.pc # run'.pc
    \/ \E c \in Commands : /\ cmd[c].pc = "record" /\ cmd[c] # cmd'[c]
                           /\ ~StandsDismissed(cmd[c].reviews, f)

LEMMA SameBodiesStand ==
    ASSUME ReviewsTypeOK, NEW f \in Findings, StandsDismissed(reviews, f), Grown,
           \A j \in DOMAIN reviews' :
               \/ j \in DOMAIN reviews /\ reviews'[j].body.verdict = reviews[j].body.verdict
               \/ j \notin DOMAIN reviews /\ reviews'[j].body.verdict[f] = "none"
               \/ reviews'[j].body.verdict[f] = "dismissed"
    PROVE  StandsDismissed(reviews', f)
<1>1. DOMAIN reviews \subseteq DOMAIN reviews'  BY DEF Grown, ReviewsTypeOK
<1>2. /\ \A j \in DOMAIN reviews :
             reviews'[j].body.verdict[f] \in {reviews[j].body.verdict[f], "dismissed"}
      /\ \A j \in DOMAIN reviews' \ DOMAIN reviews :
             reviews'[j].body.verdict[f] \in {"none", "dismissed"}
    BY <1>1
<1>. QED  BY <1>2, DismissalStands

LEMMA RunsKeepDismissals ==
    ASSUME ReviewsTypeOK, RunsEffects, NEW f \in Findings, StandsDismissed(reviews, f),
           ~LostFor(f)
    PROVE  StandsDismissed(reviews', f)
<1>1. Grown /\ RunBodies  BY RunsGrow, RunBodiesStep
<1>2. EmptyBody.verdict[f] = "none"  BY DEF EmptyBody, NoVerdicts
<1>3. run'.pc # run.pc => RenderedBody.verdict[f] = "dismissed"
    BY DismissalRead DEF LostFor
<1>4. \A j \in DOMAIN reviews' :
          \/ j \in DOMAIN reviews /\ reviews'[j].body.verdict = reviews[j].body.verdict
          \/ j \notin DOMAIN reviews /\ reviews'[j].body.verdict[f] = "none"
          \/ reviews'[j].body.verdict[f] = "dismissed"
    BY <1>1, <1>2, <1>3 DEF RunBodies
<1>. QED  BY <1>1, <1>4, SameBodiesStand

LEMMA CommandsKeepDismissals ==
    ASSUME ReviewsTypeOK, CommandsTypeOK, NEW c \in Commands, CmdFits(c), CommandEffects(c),
           NEW f \in Findings, StandsDismissed(reviews, f), ~LostFor(f)
    PROVE  StandsDismissed(reviews', f)
<1>0. reviews \in Seq(ReviewType) /\ Grown  BY CommandGrows DEF ReviewsTypeOK
<1>1. CASE UNCHANGED reviews  BY <1>1
<1>2. CASE RecordSets(c) /\ Marked(c)
    <2>. DEFINE revs == cmd[c].reviews
                verdict == [MergeVerdicts(revs) EXCEPT ![cmd[c].finding] = cmd[c].mark]
    <2>1. cmd[c] \in CommandType  BY DEF CommandsTypeOK
    <2>2. revs \in Seq(ReviewType)  BY <2>1 DEF CommandType
    <2>3. StandsDismissed(revs, f) /\ ~(cmd[c].finding = f /\ cmd[c].mark = "fixed")
        <3>1. cmd[c].pc = "record" /\ cmd[c] # cmd'[c]  BY <1>2 DEF RecordSets
        <3>. QED  BY <3>1 DEF LostFor
    <2>4. MergeVerdicts(revs)[f] = "dismissed" /\ MergeVerdicts(revs) \in [Findings -> Marks]
        BY <2>2, <2>3, MergedDismissal, MergeVerdictsFits
    <2>5. Marked(c) => reviews' \in Seq(ReviewType) /\ Len(reviews') = Len(reviews)
        BY DEF Marked
    <2>6. \A j \in DOMAIN reviews' :
              \/ j \in DOMAIN reviews /\ reviews'[j].body.verdict = reviews[j].body.verdict
              \/ reviews'[j].body.verdict = verdict
        BY <1>0, <1>2, <2>5 DEF Marked
    <2>7. CASE cmd[c].finding = f /\ cmd[c].mark = "dismissed"
        <3>1. verdict[f] = "dismissed"  BY <2>4, <2>7
        <3>. QED  BY <1>0, <2>6, <3>1, SameBodiesStand
    <2>8. CASE cmd[c].finding # f
        <3>1. verdict[f] = "dismissed"  BY <2>4, <2>8
        <3>. QED  BY <1>0, <2>6, <3>1, SameBodiesStand
    <2>9. cmd[c].mark \in {"dismissed", "fixed"}  BY <1>2 DEF RecordSets, CmdFits, Underway
    <2>. QED  BY <2>3, <2>7, <2>8, <2>9
<1>3. CASE reviews' = Append(reviews, Approval)
    <2>1. Approval.body.verdict[f] = "none"  BY ApprovalFits DEF NoVerdicts
    <2>2. \A j \in DOMAIN reviews' :
              \/ j \in DOMAIN reviews /\ reviews'[j] = reviews[j]
              \/ j \notin DOMAIN reviews /\ reviews'[j].body = Approval.body
        BY <1>3, ApprovalAppended, <1>0
    <2>. QED  BY <1>0, <2>1, <2>2, SameBodiesStand
<1>4. ASSUME NEW ids, reviews' = Dismissed(ids) PROVE StandsDismissed(reviews', f)
    <2>1. ReviewsDismissed(reviews', ids)  BY <1>0, <1>4, DismissedFits
    <2>2. DOMAIN reviews' = DOMAIN reviews  BY <1>0, <2>1 DEF ReviewsDismissed
    <2>. QED  BY <1>0, <2>1, <2>2, SameBodiesStand DEF ReviewsDismissed
<1>. QED  BY <1>1, <1>2, <1>3, <1>4, CommandReviews DEF ReviewsByCommand

\* A dismissal is lost to nobody who has read it, in any interleaving of any number of
\* runs and commands: whatever is written was made from the union of the verdicts that
\* the writer had read, and what has no verdicts, an approval or the empty review of a
\* reply, does not hide those below it.
THEOREM DismissalsSurvive == Spec => ReadDismissalsSurvive
<1>. DEFINE Survive ==
         \A f \in Findings :
            StandsDismissed(reviews, f) /\ ~StandsDismissed(reviews', f) => LostFor(f)
<1>1. ASSUME SlashFits, Next, NEW f \in Findings, StandsDismissed(reviews, f), ~LostFor(f)
      PROVE  StandsDismissed(reviews', f)
    <2>1. /\ ReviewsTypeOK /\ CommandsTypeOK /\ \A c \in Commands : CmdFits(c)
          /\ NextEffects
        BY <1>1, NextEffect DEF SlashFits, ReviewsFit
    <2>2. CASE RunsEffects  BY <1>1, <2>1, <2>2, RunsKeepDismissals
    <2>3. ASSUME NEW c \in Commands, CommandEffects(c) PROVE StandsDismissed(reviews', f)
        BY <1>1, <2>1, <2>3, CommandsKeepDismissals
    <2>. QED  BY <2>1, <2>2, <2>3 DEF NextEffects
<1>2. SlashFits /\ Next => Survive  BY <1>1
<1>3. UNCHANGED vars => Survive
    <2>1. UNCHANGED vars => reviews' = reviews  BY DEF vars, reviewVars
    <2>. QED  BY <2>1
<1>4. SlashFits /\ [Next]_vars => [Survive]_vars  BY <1>2, <1>3
<1>5. [][Survive]_vars => ReadDismissalsSurvive  BY DEF ReadDismissalsSurvive, LostFor
<1>. QED  BY <1>4, <1>5, SlashRunsFit, PTL DEF Spec

LEMMA CommandsPostNothing ==
    ASSUME ReviewsTypeOK, NEW c \in Commands, CommandEffects(c)
    PROVE  /\ DOMAIN threads' = DOMAIN threads
           /\ \A r \in DOMAIN reviews' \ DOMAIN reviews : reviews'[r].body.bullets = {}
<1>1. reviews \in Seq(ReviewType) /\ threads \in Seq(ThreadType)  BY DEF ReviewsTypeOK
<1>2. DOMAIN threads' = DOMAIN threads  BY <1>1, CommandReviews DEF SameThreads
<1>3. CASE UNCHANGED reviews  BY <1>2, <1>3
<1>4. CASE Marked(c)
    <2>1. DOMAIN reviews' = DOMAIN reviews  BY <1>1, <1>4 DEF Marked
    <2>. QED  BY <1>2, <2>1
<1>5. CASE reviews' = Append(reviews, Approval)
    BY <1>2, <1>5, ApprovalAppended, ApprovalFits
<1>6. ASSUME NEW ids, reviews' = Dismissed(ids) PROVE DOMAIN reviews' = DOMAIN reviews
    BY <1>1, <1>6, DismissedFits DEF ReviewsDismissed
<1>. QED  BY <1>2, <1>3, <1>4, <1>5, <1>6, CommandReviews DEF ReviewsByCommand

\* A finding whose dismissal a run has read is never posted by that run, neither as a
\* thread nor in the body of a review, whatever commands do meanwhile.
THEOREM DismissedStaysAway == Spec => DismissedNotPosted
<1>. DEFINE Away ==
         \A f \in Findings : StandsDismissed(run.reviews, f) =>
            /\ \A i \in DOMAIN threads' \ DOMAIN threads : threads'[i].finding # f
            /\ \A r \in DOMAIN reviews' \ DOMAIN reviews : f \notin reviews'[r].body.bullets
<1>1. ASSUME SlashFits, Next, NEW f \in Findings, StandsDismissed(run.reviews, f)
      PROVE  /\ \A i \in DOMAIN threads' \ DOMAIN threads : threads'[i].finding # f
             /\ \A r \in DOMAIN reviews' \ DOMAIN reviews : f \notin reviews'[r].body.bullets
    <2>1. ReviewsTypeOK /\ NextEffects  BY <1>1, NextEffect DEF SlashFits, ReviewsFit
    <2>2. CASE RunsEffects
        <3>1. RunBodies /\ RunThreads  BY <2>1, <2>2, RunBodiesStep, RunThreadsStep
        <3>2. f \notin Rendered /\ f \notin RenderedBody.bullets  BY <1>1, <2>1, DismissalRead
        <3>3. EmptyBody.bullets = {}  BY DEF EmptyBody
        <3>. QED  BY <3>1, <3>2, <3>3 DEF RunBodies, RunThreads
    <2>3. CASE \E c \in Commands : CommandEffects(c)
        BY <2>1, <2>3, CommandsPostNothing
    <2>. QED  BY <2>1, <2>2, <2>3 DEF NextEffects
<1>2. SlashFits /\ Next => Away  BY <1>1
<1>3. UNCHANGED vars => Away
    <2>1. UNCHANGED vars => reviews' = reviews /\ threads' = threads  BY DEF vars, reviewVars
    <2>. QED  BY <2>1
<1>4. SlashFits /\ [Next]_vars => [Away]_vars  BY <1>2, <1>3
<1>5. [][Away]_vars => DismissedNotPosted  BY DEF DismissedNotPosted
<1>. QED  BY <1>4, <1>5, SlashRunsFit, PTL DEF Spec
=============================================================================
