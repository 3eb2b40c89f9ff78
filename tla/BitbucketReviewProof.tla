------------------------ MODULE BitbucketReviewProof ------------------------
(***************************************************************************)
(* Proofs about BitbucketReview and the id map of FindingIds it keeps in   *)
(* its summary comment: for every finite set of findings and any number of *)
(* commands, runs and faults, a number names one finding, a finding is     *)
(* hidden only if that was asked for, and no command is lost.              *)
(***************************************************************************)
EXTENDS BitbucketReview, FiniteSetTheorems, TLAPS

-----------------------------------------------------------------------------
(* The id map *)

\* What a map must have for its numbers to be names.
Sound(ids) ==
  /\ ids \in Numbers!Maps
  /\ \A f, g \in DOMAIN ids : ids[f] = ids[g] => f = g
  /\ DOMAIN ids # {} => \E n \in Numbers!NumbersOf(ids) : \A m \in Numbers!NumbersOf(ids) : m <= n

\* What a map must have with the pairs ever shown.
Agree(ids, shown) ==
  /\ shown \subseteq (Nat \X Findings)
  /\ \A p \in shown : /\ p[1] <= Numbers!Top(ids)
                     /\ \A f \in DOMAIN ids : ids[f] = p[1] => f = p[2]
  /\ \A p, q \in shown : p[1] = q[1] => p[2] = q[2]

\* What a later map owes an earlier one.
Continues(prior, next) ==
  /\ Numbers!Top(prior) <= Numbers!Top(next)
  /\ \A f \in DOMAIN next : \/ f \in DOMAIN prior /\ next[f] = prior[f]
                            \/ f \notin DOMAIN prior /\ next[f] > Numbers!Top(prior)

\* FindingIds counts as this module does.
LEMMA SameCardinality == ASSUME NEW S PROVE Numbers!Cardinality(S) = Cardinality(S)
  BY DEF Numbers!Cardinality, Cardinality

LEMMA InMaps ==
  ASSUME NEW ids \in Numbers!Maps
  PROVE  /\ DOMAIN ids \subseteq Findings
         /\ \A f \in DOMAIN ids : ids[f] \in Nat \ {0}
         /\ ids = [f \in DOMAIN ids |-> ids[f]]
  BY DEF Numbers!Maps

LEMMA AMap ==
  ASSUME NEW known \in SUBSET Findings, NEW ids \in [known -> Nat \ {0}]
  PROVE  ids \in Numbers!Maps
  BY DEF Numbers!Maps

\* The highest number is above all others, and 0 for the map without any.
LEMMA TopIsHighest ==
  ASSUME NEW ids, Sound(ids)
  PROVE  /\ Numbers!Top(ids) \in Nat
         /\ \A f \in DOMAIN ids : ids[f] \in Nat /\ ids[f] <= Numbers!Top(ids)
         /\ DOMAIN ids # {} => \E f \in DOMAIN ids : ids[f] = Numbers!Top(ids)
  <1>1. \A f \in DOMAIN ids : ids[f] \in Nat
    BY InMaps DEF Sound
  <1>2. CASE DOMAIN ids = {}
    BY <1>2 DEF Numbers!Top
  <1>3. CASE DOMAIN ids # {}
    <2>1. PICK n \in Numbers!NumbersOf(ids) : \A m \in Numbers!NumbersOf(ids) : m <= n
      BY <1>3 DEF Sound
    <2>2. Numbers!Top(ids) \in Numbers!NumbersOf(ids) /\ \A m \in Numbers!NumbersOf(ids) : m <= Numbers!Top(ids)
      BY <1>3, <2>1 DEF Numbers!Top
    <2>3. QED
      BY <1>1, <2>2 DEF Numbers!NumbersOf
  <1>4. QED
    BY <1>2, <1>3

\* What a run numbers: the findings known before keep their numbers, the new
\* ones get numbers that were never given.
LEMMA Numbering ==
  ASSUME NEW prior, Sound(prior),
         NEW current \in SUBSET Findings, NEW ids \in Numbers!Assembled(prior, current)
  PROVE  /\ DOMAIN ids = current
         /\ \A f \in current : ids[f] \in Nat \ {0}
         /\ \A f \in current \cap DOMAIN prior : ids[f] = prior[f]
         /\ \A f \in current \ DOMAIN prior : ids[f] > Numbers!Top(prior)
         /\ \A f, g \in current : ids[f] = ids[g] => f = g
         /\ current \ DOMAIN prior # {} =>
              \E g \in current \ DOMAIN prior :
                 \A f \in current : ids[f] <= ids[g]
  <1> DEFINE new   == current \ DOMAIN prior
             last  == Numbers!LastNumber(prior)
             fresh == (last + 1)..(last + Cardinality(new))
  <1>1. last \in Nat /\ last = Numbers!Top(prior) /\ \A f \in DOMAIN prior : prior[f] <= last
    BY TopIsHighest DEF Numbers!LastNumber
  <1>2. \A f \in DOMAIN prior : prior[f] \in Nat \ {0}
    BY InMaps DEF Sound
  <1>3. IsFiniteSet(new)
    BY FS_Subset, BoundsAssumption
  <1>4. Cardinality(new) \in Nat /\ (new # {} => Cardinality(new) # 0)
    BY <1>3, FS_CardinalityType, FS_EmptySet
  <1>5. /\ ids \in [current -> Numbers!NumbersOf(prior) \cup fresh]
        /\ \A f \in current \cap DOMAIN prior : ids[f] = prior[f]
        /\ {ids[f] : f \in new} = fresh
        /\ \A f, g \in new : ids[f] = ids[g] => f = g
    BY SameCardinality DEF Numbers!Assembled
  <1> HIDE DEF new, last, fresh
  <1>6. \A f \in new : ids[f] \in fresh
    BY <1>5
  <1>7. \A f \in new : ids[f] \in Nat \ {0} /\ ids[f] > last /\ ids[f] <= last + Cardinality(new)
    BY <1>1, <1>4, <1>6 DEF fresh
  <1>8. \A f \in current : f \in new \/ f \in current \cap DOMAIN prior
    BY DEF new
  <1>9. \A f \in current : ids[f] \in Nat \ {0}
    BY <1>2, <1>5, <1>7, <1>8
  <1>10. \A f, g \in current : ids[f] = ids[g] => f = g
    <2> SUFFICES ASSUME NEW f \in current, NEW g \in current, ids[f] = ids[g]
                 PROVE  f = g
      OBVIOUS
    <2>1. CASE f \in new /\ g \in new
      BY <2>1, <1>5
    <2>2. CASE f \in DOMAIN prior /\ g \in DOMAIN prior
      BY <2>2, <1>5 DEF Sound
    <2>3. CASE f \in new /\ g \in DOMAIN prior
      BY <2>3, <1>1, <1>2, <1>5, <1>7
    <2>4. CASE f \in DOMAIN prior /\ g \in new
      BY <2>4, <1>1, <1>2, <1>5, <1>7
    <2>5. QED
      BY <2>1, <2>2, <2>3, <2>4, <1>8
  <1>11. ASSUME new # {}
         PROVE  \E g \in new : \A f \in current : ids[f] <= ids[g]
    <2>1. last + Cardinality(new) \in fresh
      BY <1>1, <1>4, <1>11 DEF fresh
    <2>2. PICK g \in new : ids[g] = last + Cardinality(new)
      BY <2>1, <1>5
    <2>3. \A f \in current : ids[f] <= ids[g]
      BY <2>2, <1>1, <1>2, <1>4, <1>5, <1>7, <1>8
    <2>4. QED
      BY <2>3
  <1>12. QED
    BY <1>1, <1>5, <1>7, <1>9, <1>10, <1>11 DEF new

\* What a run writes is sound again, agrees with the map it read, and its
\* highest number is not below the earlier one.
LEMMA Writing ==
  ASSUME NEW prior, Sound(prior),
         NEW current \in SUBSET Findings, NEW ids \in Numbers!Assembled(prior, current),
         NEW kept \in Numbers!Keepable(prior, current)
  PROVE  LET next == Numbers!Persisted(prior, ids, kept)
         IN Sound(next) /\ Continues(prior, next) /\ Numbers!Pairs(ids) \subseteq Numbers!Pairs(next)
  <1> DEFINE next == Numbers!Persisted(prior, ids, kept)
  <1>1. /\ DOMAIN ids = current
        /\ \A f \in current : ids[f] \in Nat \ {0}
        /\ \A f \in current \cap DOMAIN prior : ids[f] = prior[f]
        /\ \A f \in current \ DOMAIN prior : ids[f] > Numbers!Top(prior)
        /\ \A f, g \in current : ids[f] = ids[g] => f = g
    BY Numbering
  <1>2. current \ DOMAIN prior # {} =>
          \E g \in current \ DOMAIN prior : \A f \in current : ids[f] <= ids[g]
    BY Numbering
  <1>3. /\ kept \subseteq DOMAIN prior \ current
        /\ \A f \in DOMAIN prior \ current : prior[f] = Numbers!Top(prior) => f \in kept
    BY DEF Numbers!Keepable
  <1>4. /\ DOMAIN prior \subseteq Findings
        /\ \A f \in DOMAIN prior : prior[f] \in Nat \ {0}
        /\ \A f, g \in DOMAIN prior : prior[f] = prior[g] => f = g
    BY InMaps DEF Sound
  <1>5. /\ Numbers!Top(prior) \in Nat
        /\ \A f \in DOMAIN prior : prior[f] <= Numbers!Top(prior)
        /\ DOMAIN prior # {} => \E f \in DOMAIN prior : prior[f] = Numbers!Top(prior)
    BY TopIsHighest
  <1>6. /\ DOMAIN next = kept \cup current
        /\ \A f \in current : next[f] = ids[f]
        /\ \A f \in kept : next[f] = prior[f]
        /\ next = [f \in kept \cup current |-> next[f]]
    BY <1>1, <1>3 DEF Numbers!Persisted
  <1> HIDE DEF next
  <1>7. \A f \in DOMAIN next :
          \/ f \in DOMAIN prior /\ next[f] = prior[f]
          \/ f \notin DOMAIN prior /\ f \in current /\ next[f] > Numbers!Top(prior)
    BY <1>1, <1>3, <1>6
  <1>8. \A f \in DOMAIN next : next[f] \in Nat \ {0}
    BY <1>1, <1>3, <1>4, <1>6
  <1>9. next \in Numbers!Maps
    <2>1. DOMAIN next \in SUBSET Findings
      BY <1>3, <1>4, <1>6
    <2>2. next \in [DOMAIN next -> Nat \ {0}]
      BY <1>6, <1>8
    <2>3. QED
      BY <2>1, <2>2, AMap
  <1>10. \A f, g \in DOMAIN next : next[f] = next[g] => f = g
    <2> SUFFICES ASSUME NEW f \in DOMAIN next, NEW g \in DOMAIN next, next[f] = next[g]
                 PROVE  f = g
      OBVIOUS
    <2>1. CASE f \in DOMAIN prior /\ g \in DOMAIN prior
      BY <2>1, <1>4, <1>7
    <2>2. CASE f \notin DOMAIN prior /\ g \notin DOMAIN prior
      BY <2>2, <1>1, <1>6, <1>7
    <2>3. CASE f \in DOMAIN prior /\ g \notin DOMAIN prior
      BY <2>3, <1>4, <1>5, <1>7
    <2>4. CASE f \notin DOMAIN prior /\ g \in DOMAIN prior
      BY <2>4, <1>4, <1>5, <1>7
    <2>5. QED
      BY <2>1, <2>2, <2>3, <2>4
  \* The highest of the new numbers, else the highest of the earlier ones.
  <1>11. ASSUME DOMAIN next # {} \/ DOMAIN prior # {}
         PROVE  \E g \in DOMAIN next : /\ \A f \in DOMAIN next : next[f] <= next[g]
                                       /\ Numbers!Top(prior) <= next[g]
    <2>1. CASE current \ DOMAIN prior # {}
      <3>1. PICK g \in current \ DOMAIN prior : \A f \in current : ids[f] <= ids[g]
        BY <2>1, <1>2
      <3>2. next[g] > Numbers!Top(prior) /\ next[g] \in Nat /\ g \in DOMAIN next
        BY <3>1, <1>1, <1>6
      <3>3. \A f \in kept : next[f] <= next[g]
        BY <3>2, <1>3, <1>4, <1>5, <1>6
      <3>4. \A f \in current : next[f] <= next[g]
        BY <3>1, <1>6
      <3>5. QED
        BY <3>2, <3>3, <3>4, <1>5, <1>6
    <2>2. CASE current \ DOMAIN prior = {}
      <3>1. DOMAIN prior # {}
        BY <2>2, <1>3, <1>6, <1>11
      <3>2. PICK g \in DOMAIN prior : prior[g] = Numbers!Top(prior)
        BY <3>1, <1>5
      <3>3. g \in DOMAIN next /\ next[g] = Numbers!Top(prior)
        BY <3>2, <1>1, <1>3, <1>6
      <3>4. \A f \in DOMAIN next : next[f] <= next[g]
        BY <2>2, <3>3, <1>5, <1>7
      <3>5. QED
        BY <3>3, <3>4, <1>5
    <2>3. QED
      BY <2>1, <2>2
  <1>12. Sound(next)
    BY <1>9, <1>10, <1>11 DEF Sound, Numbers!NumbersOf
  <1>13. Numbers!Top(prior) <= Numbers!Top(next)
    <2>1. CASE DOMAIN next = {} /\ DOMAIN prior = {}
      BY <2>1 DEF Numbers!Top
    <2>2. CASE DOMAIN next # {} \/ DOMAIN prior # {}
      BY <2>2, <1>5, <1>8, <1>11, <1>12, TopIsHighest
    <2>3. QED
      BY <2>1, <2>2
  <1>14. Numbers!Pairs(ids) \subseteq Numbers!Pairs(next)
    BY <1>1, <1>6 DEF Numbers!Pairs
  <1>15. QED
    BY <1>7, <1>12, <1>13, <1>14 DEF next, Continues

\* Carrying a map over is writing one with no finding of the run's own.
LEMMA NothingNew ==
  ASSUME NEW prior, Sound(prior)
  PROVE  Numbers!NoIds \in Numbers!Assembled(prior, {})
  <1>1. Cardinality({} \ DOMAIN prior) = 0
    BY FS_EmptySet, {} \ DOMAIN prior = {}
  <1>2. Numbers!Top(prior) \in Nat
    BY TopIsHighest
  <1>3. (Numbers!Top(prior) + 1)..(Numbers!Top(prior) + Cardinality({} \ DOMAIN prior)) = {}
    BY <1>1, <1>2
  <1>4. QED
    BY <1>3, SameCardinality DEF Numbers!NoIds, Numbers!Assembled, Numbers!LastNumber

\* One step that writes a map: what was shown still holds, and what is new agrees.
LEMMA StillNames ==
  ASSUME NEW prior, Sound(prior), NEW next, Sound(next), Continues(prior, next),
         NEW shown, Agree(prior, shown), NEW fresh \in SUBSET Numbers!Pairs(next)
  PROVE  Agree(next, shown \cup fresh)
  <1> USE DEF Agree, Continues
  <1>1. /\ Numbers!Top(prior) \in Nat /\ Numbers!Top(next) \in Nat
        /\ \A f \in DOMAIN next : next[f] \in Nat /\ next[f] <= Numbers!Top(next)
    BY TopIsHighest
  <1>2. \A p \in fresh : \E f \in DOMAIN next : p = <<next[f], f>>
    BY DEF Numbers!Pairs
  <1>3. DOMAIN next \subseteq Findings
    BY InMaps DEF Sound
  <1>4. fresh \subseteq Nat \X Findings
    BY <1>1, <1>2, <1>3
  <1>5. \A p \in shown \cup fresh : p[1] \in Nat
    BY <1>4
  <1>6. \A p \in fresh : /\ p[2] \in DOMAIN next /\ next[p[2]] = p[1]
                         /\ p[1] <= Numbers!Top(next)
                         /\ \A f \in DOMAIN next : next[f] = p[1] => f = p[2]
    BY <1>1, <1>2 DEF Sound
  <1>7. \A p \in shown : /\ p[1] <= Numbers!Top(next)
                         /\ \A f \in DOMAIN next : next[f] = p[1] => f = p[2]
    BY <1>1, <1>5
  <1>8. \A p, q \in shown \cup fresh : p[1] = q[1] => p[2] = q[2]
    BY <1>6, <1>7
  <1>9. QED
    BY <1>4, <1>6, <1>7, <1>8

-----------------------------------------------------------------------------
(* Answers.  The invariant follows the acknowledgements from the comment   *)
(* through the run that carries them and back.                             *)

\* The commands a body lists as dealt with are among the answers.
BodyAnswered(body, answers) == \A c \in body.acks : \E r \in answers : r[1] = c

\* So it is in a listing of comments.
ListAnswered(list, answers) ==
    \E Bodies : /\ list \in Seq(Bodies)
                /\ \A body \in Bodies : BodyAnswered(body, answers)

\* A run has these fields, whatever is in them.
IsRun(r) ==
    /\ r = [pc |-> r.pc, known |-> r.known, body |-> r.body, verdicts |-> r.verdicts,
            acked |-> r.acked, todo |-> r.todo, raised |-> r.raised]
    /\ r.raised \in BOOLEAN

\* What the run is to acknowledge is answered, or the answer is yet to be posted.
AnswersDue(r, answers) ==
    \A c \in r.acked : \/ \E a \in answers : a[1] = c
                       \/ \E a \in r.todo : a[1] = c

IInv ==
    /\ ListAnswered(comments, replies)
    /\ IsRun(run)
    /\ BodyAnswered(run.body, replies)
    /\ run.pc \in {"attach", "reply", "tidy"} => comments # <<>>
    /\ run.pc = "reply" /\ ~run.raised => AnswersDue(run, replies)

-----------------------------------------------------------------------------
(* Listings *)

LEMMA FirstAnswered ==
    ASSUME NEW list, NEW answers, ListAnswered(list, answers), list # <<>>
    PROVE  BodyAnswered(Head(list), answers)
<1>1. PICK Bodies : /\ list \in Seq(Bodies)
                    /\ \A body \in Bodies : BodyAnswered(body, answers)
    BY DEF ListAnswered
<1>2. Head(list) \in Bodies  BY <1>1
<1>. QED  BY <1>1, <1>2

\* What the writes make of a listing.
LEMMA RestAnswered ==
    ASSUME NEW list, NEW answers, ListAnswered(list, answers), list # <<>>
    PROVE  ListAnswered(Tail(list), answers)
<1>1. PICK Bodies : /\ list \in Seq(Bodies)
                    /\ \A body \in Bodies : BodyAnswered(body, answers)
    BY DEF ListAnswered
<1>2. Tail(list) \in Seq(Bodies)  BY <1>1
<1>. QED  BY <1>1, <1>2 DEF ListAnswered

LEMMA NewFirstAnswered ==
    ASSUME NEW list, NEW answers, NEW body,
           ListAnswered(list, answers), BodyAnswered(body, answers)
    PROVE  ListAnswered(<<body>> \o list, answers) /\ <<body>> \o list # <<>>
<1>1. PICK Bodies : /\ list \in Seq(Bodies)
                    /\ \A b \in Bodies : BodyAnswered(b, answers)
    BY DEF ListAnswered
<1>. DEFINE All == Bodies \cup {body}
<1>2. list \in Seq(All) /\ <<body>> \in Seq(All)  BY <1>1
<1>3. \A b \in All : BodyAnswered(b, answers)  BY <1>1
<1>. HIDE DEF All
<1>4. /\ <<body>> \o list \in Seq(All) /\ Len(<<body>> \o list) = 1 + Len(list)
      /\ Len(list) \in Nat
    BY <1>2
<1>5. <<body>> \o list # <<>>  BY <1>4
<1>. QED  BY <1>3, <1>4, <1>5 DEF ListAnswered

LEMMA OneAnswered ==
    ASSUME NEW answers, NEW body, BodyAnswered(body, answers)
    PROVE  ListAnswered(<<body>>, answers) /\ <<body>> # <<>>
<1>. DEFINE Bodies == {body}
<1>1. <<body>> \in Seq(Bodies) /\ <<body>> # <<>>  OBVIOUS
<1>2. \A b \in Bodies : BodyAnswered(b, answers)  OBVIOUS
<1>. HIDE DEF Bodies
<1>. QED  BY <1>1, <1>2 DEF ListAnswered

LEMMA NoneAnswered ==
    ASSUME NEW answers
    PROVE  ListAnswered(<<>>, answers)
<1>. DEFINE Bodies == {}
<1>1. <<>> \in Seq(Bodies)  OBVIOUS
<1>2. \A b \in Bodies : BodyAnswered(b, answers)  OBVIOUS
<1>. HIDE DEF Bodies
<1>. QED  BY <1>1, <1>2 DEF ListAnswered

LEMMA FirstReplaced ==
    ASSUME NEW list, NEW answers, NEW body, list # <<>>,
           ListAnswered(list, answers), BodyAnswered(body, answers)
    PROVE  /\ ListAnswered([list EXCEPT ![1] = body], answers)
           /\ [list EXCEPT ![1] = body] # <<>>
<1>1. PICK Bodies : /\ list \in Seq(Bodies)
                    /\ \A b \in Bodies : BodyAnswered(b, answers)
    BY DEF ListAnswered
<1>. DEFINE All == Bodies \cup {body}
<1>2. list \in Seq(All) /\ body \in All  BY <1>1
<1>3. \A b \in All : BodyAnswered(b, answers)  BY <1>1
<1>. HIDE DEF All
<1>4. [list EXCEPT ![1] = body] \in Seq(All)  BY <1>2
<1>5. Len([list EXCEPT ![1] = body]) = Len(list) /\ Len(list) # 0  BY <1>2
<1>6. [list EXCEPT ![1] = body] # <<>>  BY <1>4, <1>5
<1>. QED  BY <1>3, <1>4, <1>6 DEF ListAnswered

\* More answers answer no less.
LEMMA MoreAnswers ==
    ASSUME NEW list, NEW body, NEW answers, NEW more, answers \subseteq more
    PROVE  /\ ListAnswered(list, answers) => ListAnswered(list, more)
           /\ BodyAnswered(body, answers) => BodyAnswered(body, more)
BY DEF ListAnswered, BodyAnswered

\* A body without acknowledgements, and one that carries those of another.
LEMMA EmptyAnswered == EmptyBody.acks = {} /\ BodyAnswered(EmptyBody, replies)
BY DEF EmptyBody, BodyAnswered

LEMMA CarriedAnswered ==
    ASSUME NEW body, NEW kept, BodyAnswered(body, replies)
    PROVE  BodyAnswered(Carried(body, kept), replies)
BY DEF Carried, EmptyBody, BodyAnswered

LEMMA SummaryAnswered ==
    ASSUME NEW own, NEW room, ListAnswered(own, replies),
           NEW body \in SummaryBodies(own, room)
    PROVE  BodyAnswered(body, replies)
<1>1. CASE own = <<>> \/ room = "none"  BY <1>1, EmptyAnswered DEF SummaryBodies
<1>2. CASE ~(own = <<>> \/ room = "none")
    <2>1. BodyAnswered(Head(own), replies)  BY <1>2, FirstAnswered
    <2>2. \E kept : body = Carried(Head(own), kept)  BY <1>2 DEF SummaryBodies
    <2>. QED  BY <2>1, <2>2, CarriedAnswered
<1>. QED  BY <1>1, <1>2

-----------------------------------------------------------------------------
(* The steps *)

\* The run's records.
LEMMA IdleRun == IsRun(Idle) /\ Idle.pc = "idle" /\ BodyAnswered(Idle.body, replies)
<1>1. IsRun(Idle) /\ Idle.pc = "idle" /\ Idle.body = EmptyBody  BY DEF Idle, IsRun
<1>. QED  BY <1>1, EmptyAnswered

LEMMA RunFields ==
    ASSUME NEW pc, NEW known, NEW r,
           r = [pc |-> pc, known |-> known, body |-> EmptyBody, verdicts |-> NoVerdicts,
                acked |-> {}, todo |-> {}, raised |-> FALSE]
    PROVE  IsRun(r) /\ r.pc = pc /\ r.body = EmptyBody
BY DEF IsRun

FreshRun(pc, known) == [Idle EXCEPT !.pc = pc, !.known = known]

LEMMA FreshFields ==
    ASSUME NEW pc, NEW known, NEW r, r = FreshRun(pc, known)
    PROVE  r = [pc |-> pc, known |-> known, body |-> EmptyBody, verdicts |-> NoVerdicts,
                acked |-> {}, todo |-> {}, raised |-> FALSE]
BY DEF Idle, FreshRun

LEMMA FreshRunFits ==
    ASSUME NEW pc, NEW known
    PROVE  /\ IsRun(FreshRun(pc, known)) /\ FreshRun(pc, known).pc = pc
           /\ BodyAnswered(FreshRun(pc, known).body, replies)
BY FreshFields, RunFields, EmptyAnswered

\* The listing a summary is written from.
LEMMA OwnAnswered ==
    ASSUME ListAnswered(comments, replies), NEW known
    PROVE  ListAnswered(Own(known), replies)
BY NoneAnswered DEF Own

LEMMA StartStep == ASSUME IInv, Start PROVE IInv'
<1>1. PICK known \in BOOLEAN, pc \in {"summary", "attach"} :
          /\ pc = "attach" => Own(known) # <<>>
          /\ run' = [Idle EXCEPT !.pc = pc, !.known = known]
    BY DEF Start
<1>2. UNCHANGED <<comments, replies>>  BY DEF Start
<1>3. IsRun(run') /\ run'.pc = pc /\ BodyAnswered(run'.body, replies)
    BY <1>1, FreshRunFits DEF FreshRun
<1>4. pc = "attach" => comments # <<>>  BY <1>1 DEF Own
<1>. QED  BY <1>1, <1>2, <1>3, <1>4 DEF IInv

LEMMA SummaryStep == ASSUME IInv, PostSummary PROVE IInv'
<1>. DEFINE Listed(which, failed) == IF which \in failed THEN <<>> ELSE Own(run.known)
<1>1. PICK failed, room, body :
          /\ body \in SummaryBodies(Listed("first", failed), room)
          /\ \/ /\ Listed("second", failed) = <<>>
                /\ comments' = <<body>> \o comments
             \/ /\ Listed("second", failed) # <<>> /\ "delete" \in failed
                /\ comments' = <<body>> \o Tail(comments)
             \/ /\ Listed("second", failed) # <<>> /\ "delete" \notin failed
                /\ comments' = <<body>>
    BY DEF PostSummary
<1>2. run' = [run EXCEPT !.pc = "attach"] /\ UNCHANGED replies  BY DEF PostSummary
<1>3. ListAnswered(comments, replies) /\ IsRun(run) /\ BodyAnswered(run.body, replies)
    BY DEF IInv
<1>4. BodyAnswered(body, replies)
    <2>1. ListAnswered(Listed("first", failed), replies)
        BY <1>3, NoneAnswered, OwnAnswered
    <2>. HIDE DEF Listed
    <2>. QED  BY <1>1, <2>1, SummaryAnswered
<1>5. ListAnswered(comments', replies) /\ comments' # <<>>
    <2>. DEFINE nothing == Listed("second", failed) = <<>>
    <2>1. /\ nothing => comments' = <<body>> \o comments
          /\ ~nothing /\ "delete" \in failed => comments' = <<body>> \o Tail(comments)
          /\ ~nothing /\ "delete" \notin failed => comments' = <<body>>
        BY <1>1, Zenon
    <2>2. ~nothing => comments # <<>>  BY DEF Own
    <2>. HIDE DEF nothing
    <2>3. CASE nothing  BY <1>3, <1>4, <2>1, <2>3, NewFirstAnswered
    <2>4. CASE ~nothing /\ "delete" \in failed
        <3>1. ListAnswered(Tail(comments), replies)  BY <1>3, <2>2, <2>4, RestAnswered
        <3>. QED  BY <1>4, <2>1, <2>4, <3>1, NewFirstAnswered
    <2>5. CASE ~nothing /\ "delete" \notin failed  BY <1>4, <2>1, <2>5, OneAnswered
    <2>. QED  BY <2>3, <2>4, <2>5
<1>6. IsRun(run') /\ run'.pc = "attach" /\ run'.body = run.body  BY <1>2, <1>3 DEF IsRun
<1>. QED  BY <1>2, <1>3, <1>5, <1>6 DEF IInv

\* What Poll takes from the newest comment, its commands and the store.
LEMMA PollTakes ==
    ASSUME Poll
    PROVE  \E lookup \in {"answers", "down", "closed"}, full \in BOOLEAN :
               LET body == Head(comments)
                   outcome == [i \in Pending(body) |-> Outcome(body, i, lookup, full)]
               IN /\ store' = store \cup {i \in Pending(body) : outcome[i] = "applied and stored"}
                  /\ run' = [run EXCEPT
                         !.pc = "reply", !.body = body,
                         !.verdicts = Polled(body, outcome),
                         !.acked = {i \in Pending(body) : outcome[i] \notin Retryable},
                         !.todo = NewReplies(body, outcome)]
<1>1. \E lookup \in {"answers", "down", "closed"}, full \in BOOLEAN :
          LET body == Head(comments)
              outcome == [i \in Pending(body) |-> Outcome(body, i, lookup, full)]
              failed == lookup # "answers" \/ full
          IN /\ lookup # "answers" => CanFail("lookup") /\ ~full
             /\ full => CanFail("store")
             /\ faults' = IF failed THEN faults + 1 ELSE faults
             /\ store' = store \cup {i \in Pending(body) : outcome[i] = "applied and stored"}
             /\ run' = [run EXCEPT
                    !.pc = "reply", !.body = body,
                    !.verdicts = Polled(body, outcome),
                    !.acked = {i \in Pending(body) : outcome[i] \notin Retryable},
                    !.todo = NewReplies(body, outcome)]
    BY Zenon DEF Poll
<1>. QED  BY <1>1, Zenon

\* The replies due are those to every pending command.
LEMMA PollStep == ASSUME IInv, Poll PROVE IInv'
<1>. DEFINE body == Head(comments)
<1>1. PICK lookup \in {"answers", "down", "closed"}, full \in BOOLEAN :
          LET outcome == [i \in Pending(body) |-> Outcome(body, i, lookup, full)]
          IN run' = [run EXCEPT
                 !.pc = "reply", !.body = body,
                 !.verdicts = Polled(body, outcome),
                 !.acked = {i \in Pending(body) : outcome[i] \notin Retryable},
                 !.todo = NewReplies(body, outcome)]
    BY PollTakes, Zenon
<1>2. run.pc = "attach" /\ UNCHANGED <<comments, replies>>  BY DEF Poll
<1>3. ListAnswered(comments, replies) /\ comments # <<>> /\ IsRun(run)  BY <1>2 DEF IInv
<1>. DEFINE outcome == [i \in Pending(body) |-> Outcome(body, i, lookup, full)]
<1>4. /\ IsRun(run') /\ run'.pc = "reply" /\ run'.body = body
      /\ run'.acked = {i \in Pending(body) : outcome[i] \notin Retryable}
      /\ run'.todo = NewReplies(body, outcome)
    BY <1>1, <1>3 DEF IsRun
<1>5. BodyAnswered(body, replies)  BY <1>3, FirstAnswered
<1>6. ASSUME NEW c \in run'.acked
      PROVE  (\E a \in replies : a[1] = c) \/ (\E a \in run'.todo : a[1] = c)
    <2>1. c \in Pending(body)  BY <1>4
    <2>2. <<c, outcome[c]>> \in replies \/ <<c, outcome[c]>> \in run'.todo
        BY <1>4, <2>1 DEF NewReplies
    <2>3. <<c, outcome[c]>>[1] = c  OBVIOUS
    <2>. QED  BY <2>2, <2>3
<1>. QED  BY <1>2, <1>3, <1>4, <1>5, <1>6 DEF IInv, AnswersDue

\* An answer is posted, or its command is no longer to be acknowledged.
LEMMA ReplyStep == ASSUME IInv, Reply PROVE IInv'
<1>1. PICK next :
          \/ /\ replies' = replies \cup {next}
             /\ run' = [run EXCEPT !.todo = run.todo \ {next}]
          \/ /\ replies' = replies
             /\ run' = [run EXCEPT !.todo = run.todo \ {next},
                                   !.acked = run.acked \ {next[1]}]
    BY DEF Reply
<1>2. run.pc = "reply" /\ UNCHANGED comments  BY DEF Reply
<1>3. IsRun(run) /\ comments # <<>>  BY <1>2 DEF IInv
<1>4. /\ IsRun(run') /\ run'.pc = "reply" /\ run'.body = run.body
      /\ run'.raised = run.raised /\ run'.todo = run.todo \ {next}
      /\ \/ replies' = replies \cup {next} /\ run'.acked = run.acked
         \/ replies' = replies /\ run'.acked = run.acked \ {next[1]}
    BY <1>1, <1>2, <1>3 DEF IsRun
<1>5. ListAnswered(comments, replies') /\ BodyAnswered(run.body, replies')
    <2>1. replies \subseteq replies'  BY <1>4
    <2>. QED  BY <2>1, MoreAnswers DEF IInv
<1>6. ASSUME ~run.raised  PROVE AnswersDue(run', replies')
    <2>1. AnswersDue(run, replies)  BY <1>2, <1>6 DEF IInv
    <2>2. CASE replies' = replies \cup {next} /\ run'.acked = run.acked
        BY <1>4, <2>1, <2>2 DEF AnswersDue
    <2>3. CASE replies' = replies /\ run'.acked = run.acked \ {next[1]}
        BY <1>4, <2>1, <2>3 DEF AnswersDue
    <2>. QED  BY <1>4, <2>2, <2>3
<1>. QED  BY <1>2, <1>3, <1>4, <1>5, <1>6 DEF IInv

\* A run that caught an exception acknowledges nothing of its own.
LEMMA RaiseStep == ASSUME IInv, Raise PROVE IInv'
<1>1. /\ run' = [run EXCEPT !.pc = "reply", !.body = Head(comments), !.todo = {},
                            !.raised = TRUE]
      /\ UNCHANGED <<comments, replies>> /\ run.pc \in {"attach", "reply"}
    BY DEF Raise
<1>2. ListAnswered(comments, replies) /\ comments # <<>> /\ IsRun(run)  BY <1>1 DEF IInv
<1>3. IsRun(run') /\ run'.body = Head(comments) /\ run'.raised = TRUE
    BY <1>1, <1>2 DEF IsRun
<1>4. BodyAnswered(Head(comments), replies)  BY <1>2, FirstAnswered
<1>. QED  BY <1>1, <1>2, <1>3, <1>4 DEF IInv

\* Whatever there is room for, the acknowledgements written are answered.
LEMMA WrittenAnswered ==
    ASSUME IInv, run.pc = "reply", run.todo = {}, NEW found,
           NEW room \in {"all", "cut", "no ids", "no acks", "old", "none"},
           NEW c \in Written(found, room).acks
    PROVE  \E r \in replies : r[1] = c
<1>1. BodyAnswered(run.body, replies) /\ run.raised \in BOOLEAN  BY DEF IInv, IsRun
<1>2. ~run.raised => \A d \in run.acked : \E r \in replies : r[1] = d
    BY DEF IInv, AnswersDue
<1>3. CASE room \in {"all", "cut", "no ids"} /\ ~run.raised
    <2>1. c \in run.body.acks \cup run.acked  BY <1>3 DEF Written, AcksOf, Capped
    <2>. QED  BY <1>1, <1>2, <1>3, <2>1 DEF BodyAnswered
<1>4. CASE room \in {"all", "cut", "no ids"} /\ run.raised  BY <1>4 DEF Written
<1>5. CASE room = "no acks"  BY <1>5 DEF Written
<1>6. CASE room = "old"  BY <1>1, <1>6 DEF Written, FallbackAcks, BodyAnswered
<1>7. CASE room = "none"  BY <1>1, <1>7 DEF Written, FallbackAcks, BodyAnswered
<1>. QED  BY <1>1, <1>3, <1>4, <1>5, <1>6, <1>7

LEMMA PutStep == ASSUME IInv, PutFindings PROVE IInv'
<1>1. PICK room \in {"all", "cut", "no ids", "no acks", "old", "none"}, found \in SUBSET Findings :
          \E ids \in Numbers!Assembled(run.body.ids, found),
             kept \in Kept(run.body.ids, found, room # "cut") :
              /\ comments' = [comments EXCEPT ![1] =
                     [ids |-> WrittenIds(ids, kept, room),
                      shown |-> [f \in Shown(found) |-> ids[f]],
                      verdicts |-> Written(found, room).verdicts,
                      acks |-> Written(found, room).acks]]
              /\ named' = named \cup Numbers!Pairs(ids)
    BY Zenon DEF PutFindings
<1>2. PICK ids \in Numbers!Assembled(run.body.ids, found),
           kept \in Kept(run.body.ids, found, room # "cut") :
          comments' = [comments EXCEPT ![1] =
              [ids |-> WrittenIds(ids, kept, room),
               shown |-> [f \in Shown(found) |-> ids[f]],
               verdicts |-> Written(found, room).verdicts,
               acks |-> Written(found, room).acks]]
    BY <1>1, Zenon
<1>3. /\ run.pc = "reply" /\ run.todo = {} /\ UNCHANGED replies
      /\ run' = [Idle EXCEPT !.pc = "tidy", !.known = run.known]
    BY DEF PutFindings
<1>. DEFINE body == [ids |-> WrittenIds(ids, kept, room),
                     shown |-> [f \in Shown(found) |-> ids[f]],
                     verdicts |-> Written(found, room).verdicts,
                     acks |-> Written(found, room).acks]
<1>4. BodyAnswered(body, replies)
    <2>. SUFFICES ASSUME NEW c \in Written(found, room).acks
                  PROVE  \E r \in replies : r[1] = c
        BY DEF BodyAnswered
    <2>. QED  BY <1>1, <1>3, WrittenAnswered
<1>5. ListAnswered(comments, replies) /\ comments # <<>>  BY <1>3 DEF IInv
<1>6. comments' = [comments EXCEPT ![1] = body]  BY <1>2
<1>. HIDE DEF body
<1>7. ListAnswered(comments', replies) /\ comments' # <<>>
    BY <1>4, <1>5, <1>6, FirstReplaced
<1>8. IsRun(run') /\ run'.pc = "tidy" /\ BodyAnswered(run'.body, replies)
    <2>1. run' = FreshRun("tidy", run.known)  BY <1>3 DEF FreshRun
    <2>. QED  BY <2>1, FreshRunFits
<1>. QED  BY <1>3, <1>7, <1>8 DEF IInv

\* Ends of a run that leave the comments alone.
LEMMA Ending ==
    ASSUME IInv, run' = Idle, UNCHANGED <<comments, replies>>
    PROVE  IInv'
BY IdleRun DEF IInv

LEMMA TidyStep == ASSUME IInv, ResolveStale PROVE IInv'
<1>1. PICK done \in BOOLEAN :
          comments' = IF done /\ run.known THEN <<Head(comments)>> ELSE comments
    BY DEF ResolveStale
<1>2. run.pc = "tidy" /\ run' = Idle /\ UNCHANGED replies  BY DEF ResolveStale
<1>3. ListAnswered(comments, replies) /\ comments # <<>>  BY <1>2 DEF IInv
<1>4. ListAnswered(<<Head(comments)>>, replies)  BY <1>3, FirstAnswered, OneAnswered
<1>5. ListAnswered(comments', replies)  BY <1>1, <1>3, <1>4
<1>. QED  BY <1>2, <1>5, IdleRun DEF IInv

LEMMA InitHolds == Init => IInv
BY NoneAnswered, IdleRun DEF Init, IInv

LEMMA StepHolds == IInv /\ [Next]_vars => IInv'
<1>. SUFFICES ASSUME IInv, [Next]_vars  PROVE IInv'
    OBVIOUS
<1>1. CASE Command \/ FallBehind  BY <1>1 DEF Command, FallBehind, IInv
<1>2. CASE Start  BY <1>2, StartStep
<1>3. CASE PostSummary  BY <1>3, SummaryStep
<1>4. CASE PostSummaryFails  BY <1>4, Ending DEF PostSummaryFails
<1>5. CASE Poll  BY <1>5, PollStep
<1>6. CASE Reply  BY <1>6, ReplyStep
<1>7. CASE Raise  BY <1>7, RaiseStep
<1>8. CASE PutFindings  BY <1>8, PutStep
<1>9. CASE PutFindingsFails  BY <1>9, Ending DEF PutFindingsFails
<1>10. CASE ResolveStale  BY <1>10, TidyStep
<1>11. CASE Kill  BY <1>11, Ending DEF Kill
<1>12. CASE UNCHANGED vars  BY <1>12 DEF vars, IInv
<1>. QED
    BY <1>1, <1>2, <1>3, <1>4, <1>5, <1>6, <1>7, <1>8, <1>9, <1>10, <1>11, <1>12 DEF Next

-----------------------------------------------------------------------------

\* A command that a summary comment lists as dealt with has been answered on the pull
\* request, whatever calls failed and whenever runs were killed: its author has heard
\* of it, although no later run reads it again.
THEOREM AcksAreAnswers == Spec => []AckedWasAnswered
<1>1. IInv => AckedWasAnswered
    <2>. SUFFICES ASSUME IInv, NEW i \in DOMAIN comments, NEW c \in comments[i].acks
                  PROVE  \E r \in replies : r[1] = c
        BY DEF AckedWasAnswered
    <2>1. PICK Bodies : /\ comments \in Seq(Bodies)
                        /\ \A body \in Bodies : BodyAnswered(body, replies)
        BY DEF IInv, ListAnswered
    <2>2. comments[i] \in Bodies  BY <2>1
    <2>. QED  BY <2>1, <2>2 DEF BodyAnswered
<1>. QED  BY <1>1, InitHolds, StepHolds, PTL DEF Spec

-----------------------------------------------------------------------------
(* Numbers, verdicts and what the run knows: the invariants *)

Losses == {"read", "cut", "no ids", "none"}
Outcomes == Applied \cup Retryable \cup {"unknown number", "refused"}
Kinds == Verdicts \cup {"none", "recurred"}
BodyType == [ids : Numbers!Maps, verdicts : [Findings -> Kinds], acks : SUBSET Nat,
             shown : Numbers!Maps]
CommandType == [verdict : Verdicts, by : Authors, meant : Findings, n : Nat]
RunType == [pc : {"idle", "summary", "attach", "reply", "tidy"}, known : BOOLEAN,
            body : BodyType, verdicts : [Findings -> Kinds], acked : SUBSET Nat,
            todo : SUBSET (Nat \X Outcomes), raised : BOOLEAN]

TypeOK ==
    /\ comments \in Seq(BodyType)
    /\ commands \in Seq(CommandType)
    /\ replies \subseteq Nat \X Outcomes
    /\ store \subseteq Nat
    /\ run \in RunType
    /\ \A r \in replies \cup run.todo : r[1] \in DOMAIN commands
    /\ named \subseteq Nat \X Findings
    /\ lost \subseteq Losses
    /\ behind \in Nat

\* A body numbers one finding with one number, and what it shows was recorded.
BodyFits(body) ==
    /\ Sound(body.ids)
    /\ \A f \in DOMAIN body.shown : <<body.shown[f], f>> \in named

\* A run that has read the comment works on the one there is.
RunFollows ==
    /\ run.pc \in {"attach", "reply", "tidy"} => comments # <<>>
    /\ run.pc = "reply" => run.body = Latest

\* A command carries the number under which its author saw the finding.
CommandsFit == \A c \in DOMAIN commands : <<commands[c].n, commands[c].meant>> \in named

\* The comment agrees with every number ever shown, and, uncut, has them all.
MapFits ==
    /\ Remembers => Agree(Latest.ids, named)
    /\ Uncut => named \subseteq Numbers!Pairs(Latest.ids)

NumbersFit ==
    /\ \A i \in DOMAIN comments : BodyFits(comments[i])
    /\ RunFollows /\ CommandsFit /\ MapFits

\* An entitled author gave the finding this verdict.
Asked(f, verdict) ==
    \E c \in DOMAIN commands :
        commands[c].meant = f /\ commands[c].verdict = verdict /\ commands[c].by # "stranger"

VerdictsFit ==
    Remembers =>
        /\ \A f \in Findings : Latest.verdicts[f] = "dismissed" => Asked(f, "dismissed")
        /\ run.pc = "reply" /\ ~run.raised =>
               \A f \in Findings : \/ run.verdicts[f] = run.body.verdicts[f]
                                  \/ /\ run.verdicts[f] \in Verdicts
                                     /\ Asked(f, run.verdicts[f])

\* What an answer says of a command, and what the run is to acknowledge.
Entitled(c) == commands[c].by # "stranger"

Lasting(c, verdicts) ==
    /\ verdicts[commands[c].meant] # "none"
    /\ commands[c].verdict = "dismissed" => c \in store

AnswersFit ==
    /\ \A r \in replies \cup run.todo : r[2] \in Applied => Entitled(r[1])
    /\ run.pc = "reply" => \A r \in run.todo : r[1] \notin Latest.acks
    /\ Uncut /\ run.pc = "reply" /\ ~run.raised =>
           \A c \in run.acked : c \in DOMAIN commands
                               /\ (Entitled(c) => Lasting(c, run.verdicts))
    /\ AckedIsRecorded

-----------------------------------------------------------------------------
(* Listings and bodies *)

\* A write leaves one new body in front, and otherwise what there was.
Rewritten(new, body, old) ==
    /\ new \in Seq(BodyType) /\ new # <<>> /\ Head(new) = body
    /\ \A i \in DOMAIN new : new[i] = body \/ \E j \in DOMAIN old : new[i] = old[j]

LEMMA FirstAdded ==
    ASSUME NEW list \in Seq(BodyType), NEW body \in BodyType
    PROVE  Rewritten(<<body>> \o list, body, list)
<1>. DEFINE new == <<body>> \o list
<1>1. /\ new \in Seq(BodyType) /\ Len(new) = Len(list) + 1 /\ new[1] = body
      /\ \A i \in 2..Len(new) : new[i] = list[i - 1]
    OBVIOUS
<1>. HIDE DEF new
<1>2. new # <<>> /\ Head(new) = body  BY <1>1
<1>3. ASSUME NEW i \in DOMAIN new  PROVE new[i] = body \/ \E j \in DOMAIN list : new[i] = list[j]
    <2>1. i = 1 \/ (i \in 2..Len(new) /\ i - 1 \in DOMAIN list)  BY <1>1
    <2>. QED  BY <1>1, <2>1
<1>. QED  BY <1>1, <1>2, <1>3 DEF Rewritten, new

LEMMA FirstExchanged ==
    ASSUME NEW list \in Seq(BodyType), NEW body \in BodyType, list # <<>>
    PROVE  /\ Rewritten(<<body>> \o Tail(list), body, list)
           /\ Rewritten(<<body>>, body, list)
           /\ Rewritten([list EXCEPT ![1] = body], body, list)
<1>1. Rewritten(<<body>> \o Tail(list), body, list)
    <2>1. /\ Tail(list) \in Seq(BodyType)
          /\ \A j \in DOMAIN Tail(list) : j + 1 \in DOMAIN list /\ Tail(list)[j] = list[j + 1]
        OBVIOUS
    <2>2. Rewritten(<<body>> \o Tail(list), body, Tail(list))  BY <2>1, FirstAdded
    <2>. QED  BY <2>1, <2>2 DEF Rewritten
<1>2. Rewritten(<<body>>, body, list)  BY DEF Rewritten
<1>3. Rewritten([list EXCEPT ![1] = body], body, list)
    <2>. DEFINE new == [list EXCEPT ![1] = body]
    <2>1. /\ new \in Seq(BodyType) /\ Len(new) = Len(list) /\ Len(list) > 0
          /\ new[1] = body /\ \A i \in DOMAIN list : i # 1 => new[i] = list[i]
        OBVIOUS
    <2>. HIDE DEF new
    <2>2. new # <<>> /\ Head(new) = body /\ DOMAIN new = DOMAIN list  BY <2>1
    <2>. QED  BY <2>1, <2>2 DEF Rewritten, new
<1>. QED  BY <1>1, <1>2, <1>3

LEMMA EmptyFits ==
    EmptyBody \in BodyType /\ Sound(EmptyBody.ids) /\ EmptyBody.shown = Numbers!NoIds
<1>1. Sound(Numbers!NoIds)
    <2>1. Numbers!NoIds \in [{} -> Nat \ {0}]  BY DEF Numbers!NoIds
    <2>2. Numbers!NoIds \in Numbers!Maps  BY <2>1, AMap
    <2>. QED  BY <2>1, <2>2 DEF Sound
<1>2. EmptyBody = [ids |-> Numbers!NoIds, verdicts |-> NoVerdicts, acks |-> {},
                   shown |-> Numbers!NoIds]
    BY DEF EmptyBody
<1>3. Numbers!NoIds \in Numbers!Maps  BY <1>1 DEF Sound
<1>4. NoVerdicts \in [Findings -> Kinds]  BY DEF NoVerdicts, Kinds
<1>. QED  BY <1>1, <1>2, <1>3, <1>4 DEF BodyType

LEMMA LatestFits ==
    ASSUME comments \in Seq(BodyType)
    PROVE  /\ Latest \in BodyType
           /\ comments # <<>> => /\ Latest = Head(comments) /\ Latest = comments[1]
                                 /\ 1 \in DOMAIN comments
           /\ comments = <<>> => Latest = EmptyBody
BY EmptyFits DEF Latest

LEMMA LatestNextFits ==
    ASSUME comments' \in Seq(BodyType)
    PROVE  /\ Latest' \in BodyType
           /\ comments' # <<>> => Latest' = Head(comments')
           /\ comments' = <<>> => Latest' = EmptyBody
BY EmptyFits DEF Latest

LEMMA BodyFields ==
    ASSUME NEW ids, NEW verdicts, NEW acks, NEW body,
           body = [EmptyBody EXCEPT !.ids = ids, !.verdicts = verdicts, !.acks = acks]
    PROVE  body = [ids |-> ids, verdicts |-> verdicts, acks |-> acks, shown |-> Numbers!NoIds]
BY DEF EmptyBody

\* What is carried of a body.
LEMMA CarriedFits ==
    ASSUME NEW body \in BodyType, Sound(body.ids), NEW kept \in Numbers!Keepable(body.ids, {})
    PROVE  LET new == Carried(body, kept)
           IN  /\ new \in BodyType /\ Sound(new.ids) /\ Continues(body.ids, new.ids)
               /\ new.ids = Numbers!Persisted(body.ids, Numbers!NoIds, kept)
               /\ new.verdicts = body.verdicts /\ new.acks = body.acks
               /\ new.shown = Numbers!NoIds
               /\ kept = DOMAIN body.ids => new.ids = body.ids
<1>. DEFINE ids == Numbers!Persisted(body.ids, Numbers!NoIds, kept)
            new == Carried(body, kept)
<1>1. Sound(ids) /\ Continues(body.ids, ids)
    <2>1. Numbers!NoIds \in Numbers!Assembled(body.ids, {})  BY NothingNew
    <2>. QED  BY <2>1, Writing, {} \in SUBSET Findings
<1>2. kept = DOMAIN body.ids => ids = body.ids
    <2>1. body.ids \in Numbers!Maps  BY DEF Sound
    <2>2. body.ids = [f \in DOMAIN body.ids |-> body.ids[f]]  BY <2>1, InMaps
    <2>. QED  BY <2>2 DEF Numbers!Persisted, Numbers!NoIds
<1>3. new = [ids |-> ids, verdicts |-> body.verdicts, acks |-> body.acks,
             shown |-> Numbers!NoIds]
    BY BodyFields, Zenon DEF Carried
<1>. HIDE DEF ids, new
<1>4. ids \in Numbers!Maps  BY <1>1 DEF Sound
<1>5. body.verdicts \in [Findings -> Kinds] /\ body.acks \in SUBSET Nat  BY DEF BodyType
<1>6. new \in BodyType  BY <1>3, <1>4, <1>5, EmptyFits DEF BodyType, EmptyBody
<1>. QED  BY <1>1, <1>2, <1>3, <1>6 DEF ids, new

-----------------------------------------------------------------------------
(* What the two writes of the comment do *)

\* The summary carries the markers of the comment it replaces, or the run has lost some.
SummaryWrites(body) ==
    /\ Rewritten(comments', body, comments)
    /\ Sound(body.ids) /\ body.shown = Numbers!NoIds
    /\ lost \subseteq lost' /\ lost' \subseteq Losses
    /\ \/ comments = <<>> /\ body = EmptyBody
       \/ "read" \in lost' \/ "none" \in lost'
       \/ \E kept \in Numbers!Keepable(Latest.ids, {}) :
              /\ body = Carried(Latest, kept)
              /\ "cut" \in lost' \/ kept = DOMAIN Latest.ids

LEMMA SummaryEffect ==
    ASSUME TypeOK, NumbersFit, PostSummary
    PROVE  \E body \in BodyType : SummaryWrites(body)
<1>. DEFINE Listed(which, failed) == IF which \in failed THEN <<>> ELSE Own(run.known)
<1>1. PICK failed \in {{}, {"first"}, {"first", "second"}, {"delete"}},
           room \in {"all", "cut", "none"} :
          \E body :
          /\ body \in SummaryBodies(Listed("first", failed), room)
          /\ room # "all" => Listed("first", failed) # <<>>
          /\ \/ /\ Listed("second", failed) = <<>>
                /\ comments' = <<body>> \o comments
             \/ /\ Listed("second", failed) # <<>> /\ "delete" \in failed
                /\ comments' = <<body>> \o Tail(comments)
             \/ /\ Listed("second", failed) # <<>> /\ "delete" \notin failed
                /\ comments' = <<body>>
          /\ lost' = lost \cup
                 (IF comments = <<>> THEN {}
                  ELSE IF Listed("first", failed) = <<>> THEN {"read"} ELSE {room} \ {"all"})
    BY DEF PostSummary
<1>9. PICK body :
          /\ body \in SummaryBodies(Listed("first", failed), room)
          /\ room # "all" => Listed("first", failed) # <<>>
          /\ \/ /\ Listed("second", failed) = <<>>
                /\ comments' = <<body>> \o comments
             \/ /\ Listed("second", failed) # <<>> /\ "delete" \in failed
                /\ comments' = <<body>> \o Tail(comments)
             \/ /\ Listed("second", failed) # <<>> /\ "delete" \notin failed
                /\ comments' = <<body>>
          /\ lost' = lost \cup
                 (IF comments = <<>> THEN {}
                  ELSE IF Listed("first", failed) = <<>> THEN {"read"} ELSE {room} \ {"all"})
    BY <1>1
<1>. DEFINE own == Listed("first", failed)
            second == Listed("second", failed)
<1>2. own \in {<<>>, comments} /\ second \in {<<>>, comments}  BY DEF Own
<1>3. /\ body \in SummaryBodies(own, room)
      /\ room # "all" => own # <<>>
      /\ \/ second = <<>> /\ comments' = <<body>> \o comments
         \/ second # <<>> /\ comments' = <<body>> \o Tail(comments)
         \/ second # <<>> /\ comments' = <<body>>
      /\ lost' = lost \cup (IF comments = <<>> THEN {}
                            ELSE IF own = <<>> THEN {"read"} ELSE {room} \ {"all"})
    BY <1>9, Zenon
<1>. HIDE DEF own, second
<1>4. comments \in Seq(BodyType) /\ lost \subseteq Losses  BY DEF TypeOK
<1>5. lost \subseteq lost' /\ lost' \subseteq Losses  BY <1>3, <1>4 DEF Losses
<1>6. comments # <<>> => Latest = Head(comments) /\ Sound(Latest.ids) /\ Latest \in BodyType
    BY <1>4, LatestFits DEF NumbersFit, BodyFits
<1>7. CASE own = <<>> \/ room = "none"
    <2>1. body = EmptyBody  BY <1>3, <1>7 DEF SummaryBodies
    <2>2. comments = <<>> \/ "read" \in lost' \/ "none" \in lost'  BY <1>3, <1>7
    <2>3. body \in BodyType /\ Sound(body.ids) /\ body.shown = Numbers!NoIds  BY <2>1, EmptyFits
    <2>4. Rewritten(comments', body, comments)
        BY <1>2, <1>3, <1>4, <2>3, FirstAdded, FirstExchanged
    <2>. QED  BY <1>5, <2>1, <2>2, <2>3, <2>4 DEF SummaryWrites
<1>8. CASE own # <<>> /\ room # "none"
    <2>1. own = comments /\ comments # <<>>  BY <1>2, <1>8
    <2>2. PICK kept \in Numbers!Keepable(Latest.ids, {}) :
              body = Carried(Latest, kept) /\ (room = "all" => kept = DOMAIN Latest.ids)
        <3>1. PICK kept \in Kept(Latest.ids, {}, room = "all") : body = Carried(Latest, kept)
            BY <1>3, <1>6, <1>8, <2>1, Zenon DEF SummaryBodies
        <3>2. DOMAIN Latest.ids \ {} = DOMAIN Latest.ids  OBVIOUS
        <3>. QED  BY <3>1, <3>2 DEF Kept
    <2>3. body \in BodyType /\ Sound(body.ids) /\ body.shown = Numbers!NoIds
        BY <1>6, <2>1, <2>2, CarriedFits
    <2>4. Rewritten(comments', body, comments)
        BY <1>3, <1>4, <2>1, <2>3, FirstAdded, FirstExchanged
    <2>5. room # "all" => "cut" \in lost'  BY <1>9, <1>3, <1>8, <2>1
    <2>. QED  BY <1>5, <2>2, <2>3, <2>4, <2>5 DEF SummaryWrites
<1>. QED  BY <1>7, <1>8

Rooms == {"all", "cut", "no ids", "no acks", "old", "none"}

LEMMA MarkedFits ==
    ASSUME NEW verdicts \in [Findings -> Kinds], NEW dead
    PROVE  /\ Marked(verdicts, dead) \in [Findings -> Kinds]
           /\ \A f \in Findings : Marked(verdicts, dead)[f] =
                                     IF f \in dead THEN "recurred" ELSE verdicts[f]
BY DEF Marked, Kinds

\* What is written of the verdicts and the acknowledgements, case by case.
LEMMA WrittenCases ==
    ASSUME NEW found, NEW room \in Rooms, run.raised \in BOOLEAN
    PROVE  \/ /\ room \in {"all", "cut", "no ids"} /\ ~run.raised
              /\ Written(found, room) = [verdicts |-> Marked(run.verdicts, Tombstones(found)),
                                         acks |-> AcksOf(run.acked)]
           \/ /\ room \in {"all", "cut", "no ids"} /\ run.raised
              /\ Written(found, room) = [verdicts |-> run.body.verdicts, acks |-> {}]
           \/ /\ room = "no acks"
              /\ Written(found, room) = [verdicts |-> Marked(run.verdicts, Tombstones(found)),
                                         acks |-> {}]
           \/ /\ room = "old"
              /\ Written(found, room) =
                     [verdicts |-> Marked(run.body.verdicts,
                          {f \in Tombstones(found) : run.body.verdicts[f] # "none"}),
                      acks |-> FallbackAcks]
           \/ /\ room = "none"
              /\ Written(found, room) = [verdicts |-> NoVerdicts, acks |-> FallbackAcks]
<1>1. CASE room \in {"all", "cut", "no ids"} /\ ~run.raised  BY <1>1 DEF Written
<1>2. CASE room \in {"all", "cut", "no ids"} /\ run.raised  BY <1>2 DEF Written
<1>3. CASE room = "no acks"  BY <1>3 DEF Written
<1>4. CASE room = "old"  BY <1>4 DEF Written
<1>5. CASE room = "none"  BY <1>5 DEF Written
<1>. QED  BY <1>1, <1>2, <1>3, <1>4, <1>5 DEF Rooms

LEMMA WrittenFits ==
    ASSUME run \in RunType, NEW found, NEW room \in Rooms
    PROVE  /\ Written(found, room).verdicts \in [Findings -> Kinds]
           /\ Written(found, room).acks \in SUBSET Nat
<1>1. /\ run.raised \in BOOLEAN /\ run.verdicts \in [Findings -> Kinds]
      /\ run.body.verdicts \in [Findings -> Kinds] /\ run.body.acks \in SUBSET Nat
      /\ run.acked \in SUBSET Nat
    BY DEF RunType, BodyType
<1>2. /\ Marked(run.verdicts, Tombstones(found)) \in [Findings -> Kinds]
      /\ Marked(run.body.verdicts, {f \in Tombstones(found) : run.body.verdicts[f] # "none"})
             \in [Findings -> Kinds]
      /\ NoVerdicts \in [Findings -> Kinds]
    BY <1>1, MarkedFits DEF NoVerdicts, Kinds
<1>3. AcksOf(run.acked) \in SUBSET Nat /\ FallbackAcks \in SUBSET Nat
    BY <1>1 DEF AcksOf, Capped, FallbackAcks
<1>. DEFINE written == Written(found, room)
<1>4. \E verdicts \in [Findings -> Kinds], acks \in SUBSET Nat :
          written = [verdicts |-> verdicts, acks |-> acks]
    BY <1>1, <1>2, <1>3, WrittenCases, Zenon
<1>. HIDE DEF written
<1>5. written.verdicts \in [Findings -> Kinds] /\ written.acks \in SUBSET Nat  BY <1>4
<1>. QED  BY <1>5 DEF written

\* The findings' comment continues the map of the comment the run has read, unless it
\* has no map.
PutWrites(room, found, ids, kept, body) ==
    /\ body.shown = [f \in Shown(found) |-> ids[f]]
    /\ body.verdicts = Written(found, room).verdicts /\ body.acks = Written(found, room).acks
    /\ Rewritten(comments', body, comments)
    /\ ids \in Numbers!Assembled(Latest.ids, found)
    /\ kept \in Numbers!Keepable(Latest.ids, found)
    /\ room # "cut" => kept = DOMAIN Latest.ids \ found
    /\ room \in {"no acks", "old"} => ~run.raised
    /\ named' = named \cup Numbers!Pairs(ids)
    /\ lost' = lost \cup ({room} \cap {"cut", "no ids", "none"})
    /\ ids \in Numbers!Maps /\ found \subseteq DOMAIN ids
    /\ Sound(body.ids)
    /\ room # "no ids" => /\ body.ids = Numbers!Persisted(Latest.ids, ids, kept)
                          /\ Continues(Latest.ids, body.ids)
                          /\ Numbers!Pairs(ids) \subseteq Numbers!Pairs(body.ids)

LEMMA PutEffect ==
    ASSUME TypeOK, NumbersFit, PutFindings
    PROVE  \E room \in Rooms, found \in SUBSET Findings, body \in BodyType :
               \E ids, kept : PutWrites(room, found, ids, kept, body)
<1>1. PICK room \in Rooms, found \in SUBSET Findings :
          /\ \E ids \in Numbers!Assembled(run.body.ids, found),
                kept \in Kept(run.body.ids, found, room # "cut") :
                 /\ comments' = [comments EXCEPT ![1] =
                        [ids |-> WrittenIds(ids, kept, room),
                         shown |-> [f \in Shown(found) |-> ids[f]],
                         verdicts |-> Written(found, room).verdicts,
                         acks |-> Written(found, room).acks]]
                 /\ named' = named \cup Numbers!Pairs(ids)
          /\ lost' = lost \cup ({room} \cap {"cut", "no ids", "none"})
          /\ room \in {"no acks", "old"} => ~run.raised
    <2>1. PICK room \in {"all", "cut", "no ids", "no acks", "old", "none"},
               found \in SUBSET Findings :
              /\ room \in {"no acks", "old"} => ~run.raised
              /\ Fault("room", room # "all")
              /\ \E ids \in Numbers!Assembled(run.body.ids, found),
                    kept \in Kept(run.body.ids, found, room # "cut") :
                     /\ comments' = [comments EXCEPT ![1] =
                            [ids |-> WrittenIds(ids, kept, room),
                             shown |-> [f \in Shown(found) |-> ids[f]],
                             verdicts |-> Written(found, room).verdicts,
                             acks |-> Written(found, room).acks]]
                     /\ named' = named \cup Numbers!Pairs(ids)
              /\ lost' = lost \cup ({room} \cap {"cut", "no ids", "none"})
              /\ run' = [Idle EXCEPT !.pc = "tidy", !.known = run.known]
        BY Zenon DEF PutFindings
    <2>. QED  BY <2>1, Zenon DEF Rooms
<1>2. run.pc = "reply"  BY DEF PutFindings
<1>3. /\ run.body = Latest /\ comments # <<>> /\ Sound(Latest.ids) /\ Latest \in BodyType
      /\ comments \in Seq(BodyType) /\ run \in RunType
    BY <1>2, LatestFits DEF NumbersFit, RunFollows, BodyFits, TypeOK
<1>4. PICK ids \in Numbers!Assembled(Latest.ids, found),
           kept \in Kept(Latest.ids, found, room # "cut") :
          /\ comments' = [comments EXCEPT ![1] =
                 [ids |-> WrittenIds(ids, kept, room),
                  shown |-> [f \in Shown(found) |-> ids[f]],
                  verdicts |-> Written(found, room).verdicts,
                  acks |-> Written(found, room).acks]]
          /\ named' = named \cup Numbers!Pairs(ids)
    BY <1>1, <1>3, Zenon
<1>5. kept \in Numbers!Keepable(Latest.ids, found)
      /\ (room # "cut" => kept = DOMAIN Latest.ids \ found)
    BY DEF Kept
<1>. DEFINE persisted == Numbers!Persisted(Latest.ids, ids, kept)
            new == WrittenIds(ids, kept, room)
            shown == [f \in Shown(found) |-> ids[f]]
            body == [ids |-> new, shown |-> shown,
                     verdicts |-> Written(found, room).verdicts,
                     acks |-> Written(found, room).acks]
<1>6. /\ Sound(persisted) /\ Continues(Latest.ids, persisted)
      /\ Numbers!Pairs(ids) \subseteq Numbers!Pairs(persisted)
    BY <1>3, <1>5, Writing
<1>7. new = IF room = "no ids" THEN Numbers!NoIds ELSE persisted
    BY <1>3 DEF WrittenIds
<1>. HIDE DEF persisted, new
<1>8. Sound(new) /\ new \in Numbers!Maps
    <2>1. Sound(Numbers!NoIds)  BY EmptyFits DEF EmptyBody
    <2>. QED  BY <1>6, <1>7, <2>1 DEF Sound
<1>9. ids \in Numbers!Maps /\ DOMAIN ids = found
    <2>1. DOMAIN ids = found /\ \A f \in found : ids[f] \in Nat \ {0}  BY <1>3, Numbering
    <2>2. ids = [f \in DOMAIN ids |-> ids[f]]  BY DEF Numbers!Assembled
    <2>3. ids \in [found -> Nat \ {0}]  BY <2>1, <2>2
    <2>. QED  BY <2>1, <2>3, AMap
<1>10. shown \in Numbers!Maps
    <2>1. Shown(found) \subseteq found  BY DEF Shown
    <2>2. shown \in [Shown(found) -> Nat \ {0}] /\ Shown(found) \in SUBSET Findings
        BY <1>9, <2>1, InMaps
    <2>. HIDE DEF shown
    <2>. QED  BY <2>2, AMap
<1>. HIDE DEF shown
<1>11. body \in BodyType  BY <1>3, <1>8, <1>10, WrittenFits DEF BodyType
<1>12. comments' = [comments EXCEPT ![1] = body]  BY <1>4 DEF new, shown
<1>13. Rewritten(comments', body, comments)
    <2>. HIDE DEF body
    <2>. QED  BY <1>3, <1>11, <1>12, FirstExchanged
<1>14. /\ body.ids = new /\ body.shown = shown
       /\ body.verdicts = Written(found, room).verdicts
       /\ body.acks = Written(found, room).acks
    OBVIOUS
<1>. HIDE DEF body
<1>15. PutWrites(room, found, ids, kept, body)
    BY <1>1, <1>4, <1>5, <1>6, <1>7, <1>8, <1>9, <1>13, <1>14 DEF PutWrites, persisted, shown
<1>. QED  BY <1>11, <1>15

-----------------------------------------------------------------------------
(* Types *)

\* A set of numbers has a least one.
LEMMA LeastExists ==
    ASSUME NEW S \in SUBSET Nat, S # {}
    PROVE  \E m \in S : \A x \in S : m <= x
<1>. DEFINE Less == {ss \in Nat \X Nat : ss[1] < ss[2]}
<1>1. IsWellFoundedOn(Less, Nat)  BY NatLessThanWellFounded, Zenon DEF OpToRel
<1>2. \A x, y \in Nat : x < y => <<x, y>> \in Less  OBVIOUS
<1>. HIDE DEF Less
<1>3. PICK m \in S : \A x \in S : ~(<<x, m>> \in Less)  BY <1>1, WFMin, Zenon
<1>4. ASSUME NEW x \in S  PROVE m <= x
    <2>1. x \in Nat /\ m \in Nat /\ ~(x < m)  BY <1>2, <1>3, Zenon
    <2>. QED  BY <2>1
<1>. QED  BY <1>4

\* The replies are posted in some order: there is always a next one.
LEMMA NextReplyExists ==
    ASSUME NEW todo \in SUBSET (Nat \X Outcomes), todo # {}, NEW n \in Nat,
           \A r \in todo : r[1] <= n
    PROVE  \E next \in todo : \A q \in todo : q[1] <= next[1]
<1>. DEFINE Rest == {n - r[1] : r \in todo}
<1>1. \A r \in todo : r[1] \in Nat /\ n - r[1] \in Nat /\ n - r[1] \in Rest  OBVIOUS
<1>2. \A x \in Rest : \E r \in todo : x = n - r[1]  OBVIOUS
<1>3. Rest \in SUBSET Nat /\ Rest # {}  BY <1>1, <1>2
<1>. HIDE DEF Rest
<1>4. PICK m \in Rest : \A x \in Rest : m <= x  BY <1>3, LeastExists
<1>5. PICK next \in todo : m = n - next[1]  BY <1>2
<1>6. \A q \in todo : q[1] <= next[1]  BY <1>1, <1>4, <1>5
<1>. QED  BY <1>6

LEMMA OutcomeFits ==
    ASSUME NEW body, NEW i, NEW lookup, NEW full
    PROVE  LET outcome == Outcome(body, i, lookup, full)
           IN  /\ outcome \in Outcomes
               /\ outcome \in Applied => Meant(body, i) # {} /\ Authority(commands[i].by, lookup) = "allowed"
BY DEF Outcome, Outcomes, Applied, Retryable, Authority, LookedUp

\* What a run polls are commands.
LEMMA PendingIsCommands ==
    ASSUME TypeOK, NEW body
    PROVE  Pending(body) \subseteq DOMAIN commands /\ Pending(body) \subseteq Nat
BY DEF Pending, Scanned, TypeOK

\* The verdicts a run polls are those of the comment or of an applied command.
LEMMA PolledFits ==
    ASSUME TypeOK, NEW body \in BodyType, NEW outcome
    PROVE  LET polled == Polled(body, outcome)
           IN  /\ polled \in [Findings -> Kinds]
               /\ \A f \in Findings :
                     \/ polled[f] = body.verdicts[f] /\ Setting(body, f, outcome) = {}
                     \/ \E i \in Setting(body, f, outcome) : polled[f] = commands[i].verdict
<1>. DEFINE polled == Polled(body, outcome)
<1>1. /\ body.verdicts \in [Findings -> Kinds]
      /\ \A i \in DOMAIN commands : i \in Nat /\ commands[i].verdict \in Verdicts
    <2>1. \A i \in DOMAIN commands : i \in Nat /\ commands[i] \in CommandType  BY DEF TypeOK
    <2>. QED  BY <2>1 DEF BodyType, CommandType
<1>2. ASSUME NEW f \in Findings
      PROVE  /\ polled[f] \in Kinds
             /\ \/ polled[f] = body.verdicts[f] /\ Setting(body, f, outcome) = {}
                \/ \E i \in Setting(body, f, outcome) : polled[f] = commands[i].verdict
    <2>. DEFINE S == Setting(body, f, outcome)
    <2>1. polled[f] = IF S = {} THEN body.verdicts[f] ELSE commands[Min(S)].verdict
        BY DEF Polled
    <2>2. S \subseteq DOMAIN commands  BY PendingIsCommands DEF Setting
    <2>. HIDE DEF S, polled
    <2>3. CASE S = {}  BY <1>1, <2>1, <2>3 DEF S, Kinds
    <2>4. CASE S # {}
        <3>1. S \in SUBSET Nat  BY <1>1, <2>2
        <3>2. Min(S) \in S  BY <2>4, <3>1, LeastExists DEF Min
        <3>. QED  BY <1>1, <2>1, <2>2, <2>4, <3>2 DEF S, Kinds
    <2>. QED  BY <2>3, <2>4
<1>3. polled = [f \in Findings |-> polled[f]]  BY DEF Polled
<1>. QED  BY <1>2, <1>3

LEMMA IdleFits ==
    /\ Idle \in RunType /\ Idle.pc = "idle" /\ Idle.todo = {}
    /\ \A pc \in {"idle", "summary", "attach", "reply", "tidy"}, known \in BOOLEAN :
           /\ [Idle EXCEPT !.pc = pc, !.known = known] \in RunType
           /\ [Idle EXCEPT !.pc = pc, !.known = known].pc = pc
           /\ [Idle EXCEPT !.pc = pc, !.known = known].todo = {}
<1>1. NoVerdicts \in [Findings -> Kinds]  BY DEF NoVerdicts, Kinds
<1>2. Idle \in RunType /\ Idle.pc = "idle" /\ Idle.todo = {}  BY <1>1, EmptyFits DEF Idle, RunType
<1>. QED  BY <1>2 DEF RunType

LEMMA TypeHolds == ASSUME TypeOK, NumbersFit, [Next]_vars PROVE TypeOK'
<1>. USE DEF TypeOK
<1>1. CASE UNCHANGED vars  BY <1>1 DEF vars
<1>11. CASE FallBehind  BY <1>11 DEF FallBehind
<1>2. CASE Command
    <2>0. PICK i \in DOMAIN comments : \E f \in DOMAIN comments[i].shown :
              \E verdict \in Verdicts, by \in Authors :
                  commands' = Append(commands, [verdict |-> verdict, by |-> by, meant |-> f,
                                                n |-> comments[i].shown[f]])
        BY <1>2 DEF Command
    <2>1. PICK f \in DOMAIN comments[i].shown, verdict \in Verdicts, by \in Authors :
              commands' = Append(commands, [verdict |-> verdict, by |-> by, meant |-> f,
                                            n |-> comments[i].shown[f]])
        BY <2>0
    <2>2. comments[i] \in BodyType /\ BodyFits(comments[i])  BY DEF NumbersFit
    <2>3. f \in Findings /\ <<comments[i].shown[f], f>> \in named
        BY <2>2, InMaps DEF BodyType, BodyFits
    <2>4. [verdict |-> verdict, by |-> by, meant |-> f, n |-> comments[i].shown[f]] \in CommandType
        BY <2>3 DEF CommandType
    <2>5. commands' \in Seq(CommandType)  BY <2>1, <2>4
    <2>6. DOMAIN commands \subseteq DOMAIN commands'
        <3>1. Len(commands') = Len(commands) + 1 /\ Len(commands) \in Nat  BY <2>1
        <3>. QED  BY <2>5, <3>1
    <2>7. behind' \in Nat /\ UNCHANGED <<comments, replies, store, run, named, lost>>
        BY <1>2 DEF Command
    <2>. QED  BY <2>5, <2>6, <2>7
<1>3. CASE Start
    <2>1. PICK known \in BOOLEAN, pc \in {"summary", "attach"} :
              run' = [Idle EXCEPT !.pc = pc, !.known = known]
        BY <1>3 DEF Start
    <2>2. pc \in {"idle", "summary", "attach", "reply", "tidy"}  OBVIOUS
    <2>3. run' \in RunType /\ run'.todo = {}  BY <2>1, <2>2, IdleFits
    <2>. QED  BY <1>3, <2>3 DEF Start
<1>4. CASE PostSummary
    <2>1. comments' \in Seq(BodyType) /\ lost' \subseteq Losses
        BY <1>4, SummaryEffect DEF SummaryWrites, Rewritten
    <2>2. /\ run' = [run EXCEPT !.pc = "attach"]
          /\ UNCHANGED <<commands, behind, replies, store, named>>
        BY <1>4 DEF PostSummary
    <2>3. run' \in RunType /\ run'.todo = run.todo  BY <2>2 DEF RunType
    <2>. QED  BY <2>1, <2>2, <2>3
<1>5. CASE PostSummaryFails \/ PutFindingsFails \/ Kill
    <2>1. run' \in RunType /\ run'.todo = {}
        BY <1>5, IdleFits DEF PostSummaryFails, PutFindingsFails, Kill
    <2>. QED  BY <1>5, <2>1 DEF PostSummaryFails, PutFindingsFails, Kill
<1>6. CASE Poll
    <2>. DEFINE body == Head(comments)
    <2>1. PICK lookup \in {"answers", "down", "closed"}, full \in BOOLEAN :
              LET outcome == [i \in Pending(body) |-> Outcome(body, i, lookup, full)]
              IN /\ store' = store \cup {i \in Pending(body) : outcome[i] = "applied and stored"}
                 /\ run' = [run EXCEPT
                     !.pc = "reply", !.body = body,
                     !.verdicts = Polled(body, outcome),
                     !.acked = {i \in Pending(body) : outcome[i] \notin Retryable},
                     !.todo = NewReplies(body, outcome)]
        BY <1>6, PollTakes, Zenon
    <2>. DEFINE outcome == [i \in Pending(body) |-> Outcome(body, i, lookup, full)]
                acked == {i \in Pending(body) : outcome[i] \notin Retryable}
    <2>2. body \in BodyType  BY <1>6, LatestFits DEF Poll, NumbersFit, RunFollows
    <2>3. Pending(body) \subseteq Nat /\ Pending(body) \subseteq DOMAIN commands
        BY PendingIsCommands, Zenon
    <2>4. Polled(body, outcome) \in [Findings -> Kinds]  BY <2>2, PolledFits
    <2>5. /\ NewReplies(body, outcome) \subseteq Nat \X Outcomes
          /\ \A r \in NewReplies(body, outcome) : r[1] \in DOMAIN commands
        <3>1. \A r \in NewReplies(body, outcome) :
                  \E i \in Pending(body) : r = <<i, outcome[i]>>
            BY DEF NewReplies
        <3>2. \A i \in Pending(body) : outcome[i] \in Outcomes  BY OutcomeFits
        <3>3. \A i \in Pending(body) : i \in DOMAIN commands  BY <2>3
        <3>. HIDE DEF outcome
        <3>. QED  BY <2>3, <3>1, <3>2, <3>3
    <2>6. acked \in SUBSET Nat  BY <2>3
    <2>7. store' \subseteq Nat  BY <2>1, <2>3
    <2>8. run' = [run EXCEPT !.pc = "reply", !.body = body, !.verdicts = Polled(body, outcome),
                             !.acked = acked, !.todo = NewReplies(body, outcome)]
        BY <2>1
    <2>. HIDE DEF body, outcome, acked
    <2>9. run' \in RunType /\ run'.todo = NewReplies(body, outcome)
        BY <2>2, <2>4, <2>5, <2>6, <2>8 DEF RunType
    <2>10. UNCHANGED <<comments, commands, behind, replies, named, lost>>  BY <1>6 DEF Poll
    <2>. QED  BY <2>5, <2>7, <2>9, <2>10
<1>7. CASE Reply
    <2>1. PICK next \in run.todo :
              \/ /\ replies' = replies \cup {next}
                 /\ run' = [run EXCEPT !.todo = run.todo \ {next}]
              \/ /\ UNCHANGED replies
                 /\ run' = [run EXCEPT !.todo = run.todo \ {next},
                                       !.acked = run.acked \ {next[1]}]
        <3>1. \E next \in run.todo : \A q \in run.todo : q[1] <= next[1]
            <4>1. run.todo \in SUBSET (Nat \X Outcomes) /\ run.todo # {}  BY <1>7 DEF Reply, RunType
            <4>2. Len(commands) \in Nat /\ \A r \in run.todo : r[1] <= Len(commands)  OBVIOUS
            <4>. QED  BY <4>1, <4>2, NextReplyExists
        <3>. QED  BY <1>7, <3>1 DEF Reply
    <2>2. /\ run' \in RunType /\ run'.todo \subseteq run.todo
          /\ replies' \subseteq replies \cup run.todo
        BY <2>1 DEF RunType
    <2>4. /\ replies' \subseteq Nat \X Outcomes
          /\ replies' \cup run'.todo \subseteq replies \cup run.todo
        BY <2>2 DEF RunType
    <2>3. UNCHANGED <<comments, commands, behind, store, named, lost>>  BY <1>7 DEF Reply
    <2>. QED  BY <2>2, <2>3, <2>4
<1>8. CASE Raise
    <2>1. Head(comments) \in BodyType  BY <1>8, LatestFits DEF Raise, NumbersFit, RunFollows
    <2>2. run' \in RunType /\ run'.todo = {}  BY <1>8, <2>1 DEF Raise, RunType
    <2>. QED  BY <1>8, <2>2 DEF Raise
<1>9. CASE PutFindings
    <2>1. PICK room \in Rooms, found \in SUBSET Findings, body \in BodyType :
              \E ids, kept : PutWrites(room, found, ids, kept, body)
        BY <1>9, PutEffect
    <2>2. PICK ids, kept : PutWrites(room, found, ids, kept, body)  BY <2>1
    <2>3. comments' \in Seq(BodyType) /\ lost' \subseteq Losses
        BY <2>2 DEF PutWrites, Rewritten, Losses
    <2>4. named' \subseteq Nat \X Findings
        <3>1. ids \in Numbers!Maps /\ named' = named \cup Numbers!Pairs(ids)
            BY <2>2 DEF PutWrites
        <3>2. Numbers!Pairs(ids) \subseteq Nat \X Findings
            BY <3>1, InMaps DEF Numbers!Pairs
        <3>. QED  BY <3>1, <3>2
    <2>5. run' \in RunType /\ run'.todo = {}
        <3>1. run.known \in BOOLEAN /\ run' = [Idle EXCEPT !.pc = "tidy", !.known = run.known]
            BY <1>9 DEF PutFindings, RunType
        <3>. QED  BY <3>1, IdleFits
    <2>. QED  BY <1>9, <2>3, <2>4, <2>5 DEF PutFindings
<1>10. CASE ResolveStale
    <2>1. comments' \in Seq(BodyType)
        BY <1>10, LatestFits DEF ResolveStale, NumbersFit, RunFollows
    <2>2. run' \in RunType /\ run'.todo = {}  BY <1>10, IdleFits DEF ResolveStale
    <2>. QED  BY <1>10, <2>1, <2>2 DEF ResolveStale
<1>. QED
    BY <1>1, <1>2, <1>3, <1>4, <1>5, <1>6, <1>7, <1>8, <1>9, <1>10, <1>11 DEF Next

-----------------------------------------------------------------------------
(* What the other steps do *)

\* The steps that leave the run outside its reading and the pull request as it is,
\* but for duplicates of the comment.
Elsewhere ==
    /\ run'.pc \in {"idle", "summary", "attach"} /\ run'.todo = {}
    /\ run'.pc = "attach" => comments' # <<>>
    /\ Latest' = Latest
    /\ \A i \in DOMAIN comments' : \E j \in DOMAIN comments : comments'[i] = comments[j]
    /\ UNCHANGED <<commands, replies, store, named, lost>>

LEMMA QuietSteps ==
    ASSUME TypeOK, NumbersFit,
           Start \/ PostSummaryFails \/ PutFindingsFails \/ ResolveStale \/ Kill
    PROVE  Elsewhere
<1>1. CASE Start
    <2>1. PICK known \in BOOLEAN, pc \in {"summary", "attach"} :
              /\ pc = "attach" => Own(known) # <<>>
              /\ run' = [Idle EXCEPT !.pc = pc, !.known = known]
        BY <1>1 DEF Start
    <2>2. run'.pc = pc /\ run'.todo = {}  BY <2>1, IdleFits
    <2>. QED  BY <1>1, <2>1, <2>2 DEF Start, Own, Elsewhere, Latest
<1>2. CASE PostSummaryFails \/ PutFindingsFails \/ Kill
    <2>1. run' = Idle /\ UNCHANGED <<comments, commands, replies, store, named, lost>>
        BY <1>2 DEF PostSummaryFails, PutFindingsFails, Kill
    <2>. QED  BY <2>1, IdleFits DEF Elsewhere, Latest
<1>3. CASE ResolveStale
    <2>1. /\ run' = Idle /\ UNCHANGED <<commands, replies, store, named, lost>>
          /\ comments' = comments \/ comments' = <<Head(comments)>>
        BY <1>3 DEF ResolveStale
    <2>2. comments # <<>> /\ comments \in Seq(BodyType)
        BY <1>3 DEF ResolveStale, NumbersFit, RunFollows, TypeOK
    <2>3. CASE comments' = comments  BY <2>1, <2>3, IdleFits DEF Elsewhere, Latest
    <2>4. CASE comments' = <<Head(comments)>>
        <3>1. Latest' = Latest  BY <2>2, <2>4 DEF Latest
        <3>2. \A i \in DOMAIN comments' : comments'[i] = comments[1] /\ 1 \in DOMAIN comments
            BY <2>2, <2>4
        <3>. QED  BY <2>1, <3>1, <3>2, IdleFits DEF Elsewhere
    <2>. QED  BY <2>1, <2>3, <2>4
<1>. QED  BY <1>1, <1>2, <1>3

\* The summary's step leaves the rest alone.
LEMMA SummaryRest ==
    ASSUME TypeOK, PostSummary
    PROVE  /\ run'.pc = "attach" /\ run'.todo = run.todo
           /\ UNCHANGED <<commands, replies, store, named>>
BY DEF PostSummary, TypeOK, RunType

\* What a run takes from the comment and its commands.
PollSets(lookup, full, outcome) ==
    /\ outcome = [i \in Pending(Latest) |-> Outcome(Latest, i, lookup, full)]
    /\ run'.pc = "reply" /\ run'.body = Latest
    /\ run'.verdicts = Polled(Latest, outcome)
    /\ run'.acked = {i \in Pending(Latest) : outcome[i] \notin Retryable}
    /\ run'.todo = NewReplies(Latest, outcome)
    /\ store' = store \cup {i \in Pending(Latest) : outcome[i] = "applied and stored"}
    /\ UNCHANGED <<comments, commands, replies, named, lost>>

LEMMA PollEffect ==
    ASSUME TypeOK, NumbersFit, Poll
    PROVE  \E lookup, full, outcome : PollSets(lookup, full, outcome)
<1>. DEFINE body == Head(comments)
<1>1. PICK lookup \in {"answers", "down", "closed"}, full \in BOOLEAN :
          LET outcome == [i \in Pending(body) |-> Outcome(body, i, lookup, full)]
          IN /\ store' = store \cup {i \in Pending(body) : outcome[i] = "applied and stored"}
             /\ run' = [run EXCEPT
                 !.pc = "reply", !.body = body,
                 !.verdicts = Polled(body, outcome),
                 !.acked = {i \in Pending(body) : outcome[i] \notin Retryable},
                 !.todo = NewReplies(body, outcome)]
    BY PollTakes, Zenon
<1>. DEFINE outcome == [i \in Pending(body) |-> Outcome(body, i, lookup, full)]
            polled == Polled(body, outcome)
            acked == {i \in Pending(body) : outcome[i] \notin Retryable}
            todo == NewReplies(body, outcome)
<1>2. /\ run' = [run EXCEPT !.pc = "reply", !.body = body, !.verdicts = polled,
                            !.acked = acked, !.todo = todo]
      /\ store' = store \cup {i \in Pending(body) : outcome[i] = "applied and stored"}
    BY <1>1
<1>3. body = Latest /\ run \in RunType
    BY LatestFits DEF Poll, NumbersFit, RunFollows, TypeOK
<1>. HIDE DEF polled, acked, todo, body
<1>4. /\ run'.pc = "reply" /\ run'.body = body /\ run'.verdicts = polled
      /\ run'.acked = acked /\ run'.todo = todo
    <2>. HIDE DEF outcome
    <2>. QED  BY <1>2, <1>3 DEF RunType
<1>5. UNCHANGED <<comments, commands, replies, named, lost>>  BY DEF Poll
<1>6. PollSets(lookup, full, outcome)
    BY <1>2, <1>3, <1>4, <1>5 DEF PollSets, polled, acked, todo
<1>. QED  BY <1>6

\* One reply is posted, or its command is not to be acknowledged.
ReplySets(next) ==
    /\ next \in run.todo
    /\ run.pc = "reply" /\ run'.pc = "reply" /\ run'.body = run.body
    /\ run'.verdicts = run.verdicts /\ run'.raised = run.raised
    /\ run'.todo = run.todo \ {next}
    /\ \/ replies' = replies \cup {next} /\ run'.acked = run.acked
       \/ replies' = replies /\ run'.acked = run.acked \ {next[1]}
    /\ UNCHANGED <<comments, commands, store, named, lost>>

LEMMA ReplyEffect ==
    ASSUME TypeOK, Reply
    PROVE  \E next : ReplySets(next)
<1>1. \E next \in run.todo : \A q \in run.todo : q[1] <= next[1]
    <2>1. run.todo \in SUBSET (Nat \X Outcomes) /\ run.todo # {}  BY DEF Reply, RunType, TypeOK
    <2>2. Len(commands) \in Nat /\ \A r \in run.todo : r[1] <= Len(commands)  BY DEF TypeOK
    <2>. QED  BY <2>1, <2>2, NextReplyExists
<1>2. PICK next \in run.todo :
          \/ /\ replies' = replies \cup {next}
             /\ run' = [run EXCEPT !.todo = run.todo \ {next}]
          \/ /\ UNCHANGED replies
             /\ run' = [run EXCEPT !.todo = run.todo \ {next},
                                   !.acked = run.acked \ {next[1]}]
    BY <1>1 DEF Reply
<1>3. run.pc = "reply" /\ UNCHANGED <<comments, commands, store, named, lost>>  BY DEF Reply
<1>4. ReplySets(next)  BY <1>2, <1>3 DEF TypeOK, RunType, ReplySets
<1>. QED  BY <1>4

RaiseSets ==
    /\ run'.pc = "reply" /\ run'.body = Latest /\ run'.todo = {} /\ run'.raised = TRUE
    /\ UNCHANGED <<comments, commands, replies, store, named, lost>>

LEMMA RaiseEffect == ASSUME TypeOK, NumbersFit, Raise PROVE RaiseSets
<1>1. Latest = Head(comments)  BY LatestFits DEF TypeOK, NumbersFit, RunFollows, Raise
<1>. QED  BY <1>1 DEF Raise, RaiseSets, TypeOK, RunType

LEMMA PutRest ==
    ASSUME TypeOK, PutFindings
    PROVE  /\ run.pc = "reply" /\ run.todo = {} /\ run'.pc = "tidy" /\ run'.todo = {}
           /\ UNCHANGED <<commands, replies, store>>
<1>1. run.known \in BOOLEAN /\ run' = [Idle EXCEPT !.pc = "tidy", !.known = run.known]
    BY DEF PutFindings, TypeOK, RunType
<1>. QED  BY <1>1, IdleFits DEF PutFindings

\* A command is about what its author saw.
CommandAdded(command) ==
    /\ command \in CommandType /\ <<command.n, command.meant>> \in named
    /\ commands' = Append(commands, command)
    /\ UNCHANGED <<comments, replies, store, run, named, lost>>

LEMMA CommandEffect ==
    ASSUME TypeOK, NumbersFit, Command
    PROVE  \E command : CommandAdded(command)
<1>0. PICK i \in DOMAIN comments : \E f \in DOMAIN comments[i].shown :
          \E verdict \in Verdicts, by \in Authors :
              commands' = Append(commands, [verdict |-> verdict, by |-> by, meant |-> f,
                                            n |-> comments[i].shown[f]])
    BY DEF Command
<1>1. PICK f \in DOMAIN comments[i].shown, verdict \in Verdicts, by \in Authors :
          commands' = Append(commands, [verdict |-> verdict, by |-> by, meant |-> f,
                                        n |-> comments[i].shown[f]])
    BY <1>0
<1>2. comments[i] \in BodyType /\ BodyFits(comments[i])  BY DEF NumbersFit, TypeOK
<1>3. f \in Findings /\ <<comments[i].shown[f], f>> \in named
    BY <1>2, InMaps DEF BodyType, BodyFits
<1>4. comments[i].shown[f] \in Nat  BY <1>3 DEF TypeOK
<1>5. CommandAdded([verdict |-> verdict, by |-> by, meant |-> f, n |-> comments[i].shown[f]])
    BY <1>1, <1>3, <1>4 DEF CommandType, CommandAdded, Command
<1>. QED  BY <1>5

\* Commands that fall behind change nothing else.
AllButBehind == UNCHANGED <<comments, commands, replies, store, run, named, lost>>

LEMMA BehindEffect == FallBehind \/ UNCHANGED vars => AllButBehind
BY DEF FallBehind, vars, AllButBehind

-----------------------------------------------------------------------------
(* Numbers *)

\* The comments after a write.
LEMMA BodiesStillFit ==
    ASSUME NumbersFit, named \subseteq named', NEW body, Rewritten(comments', body, comments),
           Sound(body.ids),
           \A f \in DOMAIN body.shown : <<body.shown[f], f>> \in named'
    PROVE  (\A i \in DOMAIN comments : BodyFits(comments[i]))'
<1>. SUFFICES ASSUME NEW i \in DOMAIN comments'
              PROVE  /\ Sound(comments'[i].ids)
                     /\ \A f \in DOMAIN comments'[i].shown :
                            <<comments'[i].shown[f], f>> \in named'
    BY DEF BodyFits
<1>1. CASE comments'[i] = body  BY <1>1
<1>2. CASE \E j \in DOMAIN comments : comments'[i] = comments[j]
    <2>1. PICK j \in DOMAIN comments : comments'[i] = comments[j]  BY <1>2
    <2>2. BodyFits(comments[j])  BY DEF NumbersFit
    <2>. QED  BY <2>1, <2>2 DEF BodyFits
<1>. QED  BY <1>1, <1>2 DEF Rewritten

\* A map that continues the comment's and has lost nothing but what was cut.
LEMMA MapStillFits ==
    ASSUME TypeOK, MapFits, Sound(Latest.ids), NEW body, Latest' = body, Sound(body.ids),
           lost \subseteq lost',
           NEW fresh, named' = named \cup fresh,
           Remembers' => /\ Continues(Latest.ids, body.ids)
                         /\ fresh \subseteq Numbers!Pairs(body.ids),
           Uncut' => Numbers!Pairs(Latest.ids) \subseteq Numbers!Pairs(body.ids)
    PROVE  MapFits'
<1>1. ASSUME Remembers'  PROVE Agree(body.ids, named')
    <2>1. Remembers  BY <1>1 DEF Remembers
    <2>. QED  BY <1>1, <2>1, StillNames DEF MapFits
<1>2. ASSUME Uncut'  PROVE named' \subseteq Numbers!Pairs(body.ids)
    <2>1. Uncut /\ Remembers'  BY <1>2 DEF Uncut, Remembers
    <2>. QED  BY <1>2, <2>1 DEF MapFits
<1>. QED  BY <1>1, <1>2 DEF MapFits

LEMMA LatestSound == ASSUME TypeOK, NumbersFit PROVE Sound(Latest.ids)
BY LatestFits, EmptyFits DEF TypeOK, NumbersFit, BodyFits

LEMMA ContinuesItself == ASSUME NEW ids, Sound(ids) PROVE Continues(ids, ids)
BY TopIsHighest DEF Continues

LEMMA NumbersHold == ASSUME TypeOK, NumbersFit, [Next]_vars PROVE NumbersFit'
<1>0. TypeOK' /\ Sound(Latest.ids)  BY TypeHolds, LatestSound
<1>1. CASE UNCHANGED vars \/ FallBehind
    BY <1>1, BehindEffect DEF AllButBehind, NumbersFit, BodyFits, RunFollows, CommandsFit, MapFits, Remembers, Uncut, Latest
<1>2. CASE Command
    <2>1. PICK command : CommandAdded(command)  BY <1>2, CommandEffect
    <2>2. CommandsFit'
        <3>1. \A c \in DOMAIN commands' : \/ c \in DOMAIN commands /\ commands'[c] = commands[c]
                                          \/ commands'[c] = command
            BY <2>1 DEF CommandAdded, TypeOK
        <3>. QED  BY <2>1, <3>1 DEF CommandAdded, CommandsFit, NumbersFit
    <2>. QED
        BY <2>1, <2>2 DEF CommandAdded, NumbersFit, BodyFits, RunFollows, MapFits, Remembers,
                          Uncut, Latest
<1>3. CASE Start \/ PostSummaryFails \/ PutFindingsFails \/ ResolveStale \/ Kill
    <2>1. Elsewhere  BY <1>3, QuietSteps
    <2>2. (\A i \in DOMAIN comments : BodyFits(comments[i]))'
        BY <2>1 DEF Elsewhere, NumbersFit, BodyFits
    <2>3. RunFollows'  BY <2>1 DEF Elsewhere, RunFollows
    <2>4. CommandsFit' /\ MapFits'
        BY <2>1 DEF Elsewhere, NumbersFit, CommandsFit, MapFits, Remembers, Uncut
    <2>. QED  BY <2>2, <2>3, <2>4 DEF NumbersFit
<1>4. CASE PostSummary
    <2>1. PICK body \in BodyType : SummaryWrites(body)  BY <1>4, SummaryEffect
    <2>2. /\ run'.pc = "attach" /\ UNCHANGED <<commands, named>>
        BY <1>4, SummaryRest
    <2>3. comments' # <<>> /\ Latest' = body
        BY <1>0, <2>1, LatestNextFits DEF SummaryWrites, Rewritten, TypeOK
    <2>4. (\A i \in DOMAIN comments : BodyFits(comments[i]))'
        <3>1. DOMAIN body.shown = {}  BY <2>1 DEF SummaryWrites, Numbers!NoIds
        <3>. QED  BY <2>1, <2>2, <3>1, BodiesStillFit DEF SummaryWrites
    <2>5. RunFollows'  BY <2>2, <2>3 DEF RunFollows
    <2>6. CommandsFit'  BY <2>2 DEF NumbersFit, CommandsFit
    <2>7. ASSUME Remembers'
          PROVE  /\ Continues(Latest.ids, body.ids)
                 /\ Uncut' => body.ids = Latest.ids
        <3>1. CASE comments = <<>> /\ body = EmptyBody
            BY <1>0, <3>1, ContinuesItself, LatestFits DEF TypeOK
        <3>2. CASE \E kept \in Numbers!Keepable(Latest.ids, {}) :
                       /\ body = Carried(Latest, kept)
                       /\ "cut" \in lost' \/ kept = DOMAIN Latest.ids
            <4>1. PICK kept \in Numbers!Keepable(Latest.ids, {}) :
                       /\ body = Carried(Latest, kept)
                       /\ "cut" \in lost' \/ kept = DOMAIN Latest.ids
                BY <3>2
            <4>2. Latest \in BodyType  BY LatestFits DEF TypeOK
            <4>3. Continues(Latest.ids, body.ids) /\ (kept = DOMAIN Latest.ids => body.ids = Latest.ids)
                BY <1>0, <4>1, <4>2, CarriedFits
            <4>. QED  BY <4>1, <4>3 DEF Uncut
        <3>3. "read" \notin lost' /\ "none" \notin lost'  BY <2>7 DEF Remembers
        <3>. QED  BY <2>1, <3>1, <3>2, <3>3 DEF SummaryWrites
    <2>8. MapFits'
        <3>1. Uncut' => Numbers!Pairs(Latest.ids) \subseteq Numbers!Pairs(body.ids)
            BY <2>7 DEF Uncut, Remembers
        <3>2. MapFits /\ lost \subseteq lost' /\ Sound(body.ids)
            BY <2>1 DEF NumbersFit, SummaryWrites
        <3>3. {} \subseteq Numbers!Pairs(body.ids) /\ named' = named \cup {}  BY <2>2
        <3>. QED  BY <1>0, <2>3, <2>7, <3>1, <3>2, <3>3, MapStillFits
    <2>. QED  BY <2>4, <2>5, <2>6, <2>8 DEF NumbersFit
<1>5. CASE Poll
    <2>1. PICK lookup, full, outcome : PollSets(lookup, full, outcome)  BY <1>5, PollEffect
    <2>2. comments # <<>>  BY <1>5 DEF Poll, NumbersFit, RunFollows
    <2>. QED
        BY <2>1, <2>2 DEF PollSets, NumbersFit, BodyFits, RunFollows, CommandsFit, MapFits,
                          Remembers, Uncut, Latest
<1>6. CASE Reply
    <2>1. PICK next : ReplySets(next)  BY <1>6, ReplyEffect
    <2>. QED
        BY <2>1 DEF ReplySets, NumbersFit, BodyFits, RunFollows, CommandsFit, MapFits,
                    Remembers, Uncut, Latest
<1>7. CASE Raise
    <2>1. RaiseSets  BY <1>7, RaiseEffect
    <2>2. comments # <<>>  BY <1>7 DEF Raise, NumbersFit, RunFollows
    <2>. QED
        BY <2>1, <2>2 DEF RaiseSets, NumbersFit, BodyFits, RunFollows, CommandsFit, MapFits,
                          Remembers, Uncut, Latest
<1>8. CASE PutFindings
    <2>0. PICK room \in Rooms, found \in SUBSET Findings, body \in BodyType :
              \E ids, kept : PutWrites(room, found, ids, kept, body)
        BY <1>8, PutEffect
    <2>1. PICK ids, kept : PutWrites(room, found, ids, kept, body)  BY <2>0
    <2>2. run'.pc = "tidy" /\ UNCHANGED commands  BY <1>8, PutRest
    <2>3. comments' # <<>> /\ Latest' = body
        BY <1>0, <2>1, LatestNextFits DEF PutWrites, Rewritten, TypeOK
    <2>4. (\A i \in DOMAIN comments : BodyFits(comments[i]))'
        <3>1. DOMAIN body.shown \subseteq found
              /\ \A f \in DOMAIN body.shown : body.shown[f] = ids[f]
            <4>1. body.shown = [f \in Shown(found) |-> ids[f]]  BY <2>1 DEF PutWrites
            <4>. QED  BY <4>1 DEF Shown
        <3>2. \A f \in found : <<ids[f], f>> \in named'
            BY <2>1 DEF PutWrites, Numbers!Pairs
        <3>3. named \subseteq named' /\ Rewritten(comments', body, comments) /\ Sound(body.ids)
            BY <2>1 DEF PutWrites
        <3>. QED  BY <3>1, <3>2, <3>3, BodiesStillFit
    <2>5. RunFollows'  BY <2>2, <2>3 DEF RunFollows
    <2>6. CommandsFit'  BY <2>1, <2>2 DEF NumbersFit, CommandsFit, PutWrites
    <2>7. ASSUME Uncut'  PROVE Numbers!Pairs(Latest.ids) \subseteq Numbers!Pairs(body.ids)
        <3>1. room # "cut" /\ room # "no ids"  BY <2>1, <2>7 DEF PutWrites, Uncut
        <3>2. kept = DOMAIN Latest.ids \ found /\ ids \in Numbers!Assembled(Latest.ids, found)
            BY <2>1, <3>1 DEF PutWrites
        <3>3. DOMAIN ids = found /\ \A f \in found \cap DOMAIN Latest.ids : ids[f] = Latest.ids[f]
            BY <1>0, <3>2, Numbering
        <3>4. body.ids = Numbers!Persisted(Latest.ids, ids, kept)  BY <2>1, <3>1 DEF PutWrites
        <3>5. \A f \in DOMAIN Latest.ids : f \in DOMAIN body.ids /\ body.ids[f] = Latest.ids[f]
            BY <3>2, <3>3, <3>4 DEF Numbers!Persisted
        <3>. QED  BY <3>5 DEF Numbers!Pairs
    <2>8. MapFits'
        <3>1. /\ MapFits /\ lost \subseteq lost' /\ Sound(body.ids)
              /\ named' = named \cup Numbers!Pairs(ids)
            BY <2>1 DEF NumbersFit, PutWrites
        <3>2. ASSUME Remembers'
              PROVE  /\ Continues(Latest.ids, body.ids)
                     /\ Numbers!Pairs(ids) \subseteq Numbers!Pairs(body.ids)
            <4>1. room # "no ids"  BY <2>1, <3>2 DEF PutWrites, Remembers
            <4>. QED  BY <2>1, <4>1 DEF PutWrites
        <3>. QED  BY <1>0, <2>3, <2>7, <3>1, <3>2, MapStillFits
    <2>. QED  BY <2>4, <2>5, <2>6, <2>8 DEF NumbersFit
<1>. QED  BY <1>1, <1>2, <1>3, <1>4, <1>5, <1>6, <1>7, <1>8 DEF Next

-----------------------------------------------------------------------------
(* Verdicts *)

\* A verdict written is the comment's, the run's or a tombstone on a "fixed" one.
LEMMA WrittenVerdict ==
    ASSUME run \in RunType, NEW found, NEW room \in Rooms \ {"none"},
           room \in {"no acks", "old"} => ~run.raised, NEW f \in Findings
    PROVE  LET verdict == Written(found, room).verdicts[f]
           IN  \/ verdict = run.body.verdicts[f] /\ (room = "old" \/ run.raised)
               \/ verdict = run.verdicts[f] /\ ~run.raised /\ room # "old"
               \/ verdict = "recurred" /\ run.body.verdicts[f] = "fixed"
<1>1. /\ run.raised \in BOOLEAN /\ run.verdicts \in [Findings -> Kinds]
      /\ run.body.verdicts \in [Findings -> Kinds]
    BY DEF RunType, BodyType
<1>2. f \in Tombstones(found) => run.body.verdicts[f] = "fixed"
    BY DEF Tombstones, FreshlySet
<1>. DEFINE dead == {g \in Tombstones(found) : run.body.verdicts[g] # "none"}
<1>3. /\ Marked(run.verdicts, Tombstones(found))[f] =
            IF f \in Tombstones(found) THEN "recurred" ELSE run.verdicts[f]
      /\ Marked(run.body.verdicts, dead)[f] =
            IF f \in dead THEN "recurred" ELSE run.body.verdicts[f]
    BY DEF Marked
<1>. DEFINE verdict == Written(found, room).verdicts[f]
<1>4. \/ ~run.raised /\ room # "old" /\ verdict = Marked(run.verdicts, Tombstones(found))[f]
      \/ run.raised /\ verdict = run.body.verdicts[f]
      \/ room = "old" /\ verdict = Marked(run.body.verdicts, dead)[f]
    <2>1. CASE room \in {"all", "cut", "no ids"} /\ ~run.raised  BY <2>1 DEF Written
    <2>2. CASE room \in {"all", "cut", "no ids"} /\ run.raised  BY <2>2 DEF Written
    <2>3. CASE room = "no acks"  BY <2>3 DEF Written
    <2>4. CASE room = "old"  BY <2>4 DEF Written
    <2>. QED  BY <1>1, <2>1, <2>2, <2>3, <2>4 DEF Rooms
<1>. HIDE DEF verdict
<1>5. QED  BY <1>1, <1>2, <1>3, <1>4 DEF verdict

\* A command that is applied reaches the finding its author meant, and was entitled to.
LEMMA AppliedReaches ==
    ASSUME TypeOK, NumbersFit, Remembers, NEW lookup, NEW full, NEW outcome,
           PollSets(lookup, full, outcome), NEW f, NEW i \in Setting(Latest, f, outcome)
    PROVE  i \in DOMAIN commands /\ commands[i].meant = f /\ Entitled(i)
<1>1. i \in Pending(Latest) /\ outcome[i] \in Applied /\ f \in Meant(Latest, i)
    BY DEF Setting
<1>2. i \in DOMAIN commands  BY <1>1, PendingIsCommands
<1>3. f \in DOMAIN Latest.ids /\ Latest.ids[f] = commands[i].n
    BY <1>1 DEF Meant, Numbers!NamedBy
<1>4. <<commands[i].n, commands[i].meant>> \in named /\ Agree(Latest.ids, named)
    BY <1>2 DEF NumbersFit, CommandsFit, MapFits
<1>5. f = commands[i].meant
    <2>. DEFINE p == <<commands[i].n, commands[i].meant>>
    <2>1. p \in named /\ p[1] = commands[i].n /\ p[2] = commands[i].meant  BY <1>4
    <2>. HIDE DEF p
    <2>. QED  BY <1>3, <1>4, <2>1 DEF Agree
<1>6. Authority(commands[i].by, lookup) = "allowed"
    <2>1. outcome[i] = Outcome(Latest, i, lookup, full)  BY <1>1 DEF PollSets
    <2>. QED  BY <1>1, <2>1, OutcomeFits
<1>7. commands[i].by # "stranger"  BY <1>6 DEF Authority, LookedUp
<1>. QED  BY <1>2, <1>5, <1>7 DEF Entitled

\* The comment's verdicts survive the summary.
LEMMA SummaryKeeps ==
    ASSUME TypeOK, NumbersFit, PostSummary, Remembers'
    PROVE  /\ Remembers /\ Latest'.verdicts = Latest.verdicts /\ Latest'.acks = Latest.acks
           /\ Uncut' => Uncut
<1>1. PICK body \in BodyType : SummaryWrites(body)  BY SummaryEffect
<1>2. Latest' = body  BY <1>1, LatestNextFits DEF SummaryWrites, Rewritten
<1>3. Remembers /\ (Uncut' => Uncut)  BY <1>1 DEF SummaryWrites, Remembers, Uncut
<1>4. CASE comments = <<>> /\ body = EmptyBody  BY <1>2, <1>3, <1>4, LatestFits DEF TypeOK
<1>5. CASE \E kept \in Numbers!Keepable(Latest.ids, {}) : body = Carried(Latest, kept)
    <2>1. Latest \in BodyType /\ Sound(Latest.ids)  BY LatestFits, LatestSound DEF TypeOK
    <2>. QED  BY <1>2, <1>3, <1>5, <2>1, CarriedFits
<1>6. "read" \notin lost' /\ "none" \notin lost'  BY DEF Remembers
<1>. QED  BY <1>1, <1>4, <1>5, <1>6 DEF SummaryWrites

\* The facts that the later cases use of the write of the findings.
LEMMA PutVerdicts ==
    ASSUME TypeOK, NumbersFit, PutFindings, Remembers'
    PROVE  /\ Remembers /\ (Uncut' => Uncut) /\ run.pc = "reply" /\ run.body = Latest
           /\ \A f \in Findings :
                 \/ Latest'.verdicts[f] = Latest.verdicts[f]
                 \/ Latest'.verdicts[f] = run.verdicts[f] /\ ~run.raised
                 \/ Latest'.verdicts[f] = "recurred" /\ Latest.verdicts[f] = "fixed"
<1>0. PICK room \in Rooms, found \in SUBSET Findings, body \in BodyType :
          \E ids, kept : PutWrites(room, found, ids, kept, body)
    BY PutEffect
<1>1. PICK ids, kept : PutWrites(room, found, ids, kept, body)  BY <1>0
<1>2. TypeOK'  BY TypeHolds DEF Next
<1>3. Latest' = body  BY <1>1, <1>2, LatestNextFits DEF PutWrites, Rewritten, TypeOK
<1>4. run.pc = "reply" /\ run.body = Latest  BY PutRest DEF NumbersFit, RunFollows
<1>5. lost \subseteq lost' /\ room # "none" /\ (room \in {"no acks", "old"} => ~run.raised)
    BY <1>1 DEF PutWrites, Remembers
<1>6. body.verdicts = Written(found, room).verdicts  BY <1>1 DEF PutWrites
<1>7. run \in RunType /\ room \in Rooms \ {"none"}  BY <1>5 DEF TypeOK
<1>8. ASSUME NEW f \in Findings
      PROVE  \/ body.verdicts[f] = Latest.verdicts[f]
             \/ body.verdicts[f] = run.verdicts[f] /\ ~run.raised
             \/ body.verdicts[f] = "recurred" /\ Latest.verdicts[f] = "fixed"
    <2>. DEFINE verdict == Written(found, room).verdicts[f]
    <2>1. \/ verdict = run.body.verdicts[f]
          \/ verdict = run.verdicts[f] /\ ~run.raised
          \/ verdict = "recurred" /\ run.body.verdicts[f] = "fixed"
        BY <1>5, <1>7, WrittenVerdict, Zenon
    <2>2. body.verdicts[f] = verdict  BY <1>6
    <2>. HIDE DEF verdict
    <2>. QED  BY <1>4, <2>1, <2>2
<1>. QED  BY <1>3, <1>4, <1>5, <1>8 DEF Remembers, Uncut

\* Nothing that was asked for is forgotten.
LEMMA StillAsked ==
    ASSUME TypeOK, NEW f, NEW verdict, Asked(f, verdict),
           UNCHANGED commands \/ \E command : CommandAdded(command)
    PROVE  Asked(f, verdict)'
<1>1. \A c \in DOMAIN commands : c \in DOMAIN commands' /\ commands'[c] = commands[c]
    <2>1. CASE UNCHANGED commands  BY <2>1
    <2>2. CASE \E command : CommandAdded(command)
        <3>1. PICK command \in CommandType : commands' = Append(commands, command)
            BY <2>2 DEF CommandAdded
        <3>2. commands \in Seq(CommandType)  BY DEF TypeOK
        <3>. QED  BY <3>1, <3>2
    <2>. QED  BY <2>1, <2>2
<1>. QED  BY <1>1 DEF Asked

LEMMA VerdictsHold == ASSUME TypeOK, NumbersFit, VerdictsFit, [Next]_vars PROVE VerdictsFit'
<1>1. CASE UNCHANGED vars \/ FallBehind
    <2>1. AllButBehind  BY <1>1, BehindEffect
    <2>2. /\ Latest' = Latest /\ run' = run /\ Remembers' = Remembers
          /\ \A f, verdict : Asked(f, verdict)' <=> Asked(f, verdict)
        BY <2>1 DEF AllButBehind, Latest, Remembers, Asked
    <2>. QED  BY <2>2 DEF VerdictsFit
<1>2. CASE Command
    <2>1. PICK command : CommandAdded(command)  BY <1>2, CommandEffect
    <2>2. \A f, verdict : Asked(f, verdict) => Asked(f, verdict)'  BY <2>1, StillAsked
    <2>3. UNCHANGED <<run, lost>> /\ Latest' = Latest  BY <2>1 DEF CommandAdded, Latest
    <2>. QED  BY <2>2, <2>3 DEF VerdictsFit, Remembers
<1>3. CASE Start \/ PostSummaryFails \/ PutFindingsFails \/ ResolveStale \/ Kill
    <2>1. Elsewhere  BY <1>3, QuietSteps
    <2>. QED  BY <2>1 DEF Elsewhere, VerdictsFit, Asked, Remembers
<1>4. CASE PostSummary
    <2>1. run'.pc = "attach" /\ UNCHANGED commands  BY <1>4, SummaryRest
    <2>2. Remembers' => Remembers /\ Latest'.verdicts = Latest.verdicts
        BY <1>4, SummaryKeeps
    <2>. QED  BY <2>1, <2>2 DEF VerdictsFit, Asked
<1>5. CASE Poll
    <2>1. PICK lookup, full, outcome : PollSets(lookup, full, outcome)  BY <1>5, PollEffect
    <2>2. UNCHANGED <<commands, lost>> /\ Latest' = Latest  BY <2>1 DEF PollSets, Latest
    <2>3. ASSUME Remembers, NEW f \in Findings
          PROVE  \/ run'.verdicts[f] = run'.body.verdicts[f]
                 \/ run'.verdicts[f] \in Verdicts /\ Asked(f, run'.verdicts[f])
        <3>1. Latest \in BodyType  BY LatestFits DEF TypeOK
        <3>2. CASE Polled(Latest, outcome)[f] = Latest.verdicts[f]
            BY <2>1, <3>2 DEF PollSets
        <3>3. CASE \E i \in Setting(Latest, f, outcome) :
                       Polled(Latest, outcome)[f] = commands[i].verdict
            <4>1. PICK i \in Setting(Latest, f, outcome) :
                      Polled(Latest, outcome)[f] = commands[i].verdict
                BY <3>3
            <4>2. i \in DOMAIN commands /\ commands[i].meant = f /\ Entitled(i)
                BY <2>1, <2>3, AppliedReaches
            <4>3. commands[i] \in CommandType  BY <4>2 DEF TypeOK
            <4>4. run'.verdicts[f] = commands[i].verdict  BY <2>1, <4>1 DEF PollSets
            <4>. QED  BY <4>2, <4>3, <4>4 DEF CommandType, Asked, Entitled
        <3>. QED  BY <3>1, <3>2, <3>3, PolledFits
    <2>. QED  BY <2>2, <2>3 DEF VerdictsFit, Remembers, Asked
<1>6. CASE Reply
    <2>1. PICK next : ReplySets(next)  BY <1>6, ReplyEffect
    <2>. QED  BY <2>1 DEF ReplySets, VerdictsFit, Asked, Remembers, Latest
<1>7. CASE Raise
    <2>1. RaiseSets  BY <1>7, RaiseEffect
    <2>. QED  BY <2>1 DEF RaiseSets, VerdictsFit, Asked, Remembers, Latest
<1>8. CASE PutFindings
    <2>1. run'.pc = "tidy" /\ UNCHANGED commands  BY <1>8, PutRest
    <2>2. ASSUME Remembers', NEW f \in Findings, Latest'.verdicts[f] = "dismissed"
          PROVE  Asked(f, "dismissed")
        <3>1. /\ Remembers /\ run.pc = "reply" /\ run.body = Latest
              /\ \/ Latest'.verdicts[f] = Latest.verdicts[f]
                 \/ Latest'.verdicts[f] = run.verdicts[f] /\ ~run.raised
            BY <1>8, <2>2, PutVerdicts
        <3>. QED  BY <2>2, <3>1 DEF VerdictsFit
    <2>. QED  BY <2>1, <2>2 DEF VerdictsFit, Asked
<1>. QED  BY <1>1, <1>2, <1>3, <1>4, <1>5, <1>6, <1>7, <1>8 DEF Next

-----------------------------------------------------------------------------
(* Acknowledgements *)

\* A command that a run is to acknowledge: somebody who was entitled to it got it.
LEMMA PolledLasts ==
    ASSUME TypeOK, NumbersFit, Uncut, NEW lookup, NEW full, NEW outcome,
           PollSets(lookup, full, outcome), NEW c \in run'.acked, Entitled(c)
    PROVE  /\ c \in DOMAIN commands
           /\ run'.verdicts[commands[c].meant] # "none"
           /\ commands[c].verdict = "dismissed" => c \in store'
<1>1. c \in Pending(Latest) /\ outcome[c] \notin Retryable  BY DEF PollSets
<1>2. c \in DOMAIN commands  BY <1>1, PendingIsCommands
<1>3. commands[c] \in CommandType  BY <1>2 DEF TypeOK
<1>. DEFINE f == commands[c].meant
<1>4. f \in Findings /\ commands[c].verdict \in Verdicts
      /\ commands[c].by \in {"owner", "member"}
    BY <1>3, BoundsAssumption DEF CommandType, Entitled
<1>5. f \in Meant(Latest, c)
    <2>1. <<commands[c].n, f>> \in Numbers!Pairs(Latest.ids)
        BY <1>2 DEF NumbersFit, CommandsFit, MapFits
    <2>2. PICK g \in DOMAIN Latest.ids : <<commands[c].n, f>> = <<Latest.ids[g], g>>
        BY <2>1 DEF Numbers!Pairs
    <2>. QED  BY <2>2 DEF Meant, Numbers!NamedBy
<1>6. outcome[c] = Outcome(Latest, c, lookup, full)  BY <1>1 DEF PollSets
<1>. HIDE DEF f
<1>7. \/ outcome[c] = "applied" /\ commands[c].verdict = "fixed"
      \/ outcome[c] = "applied and stored"
    BY <1>1, <1>4, <1>5, <1>6 DEF Outcome, Authority, LookedUp, Retryable
<1>8. c \in Setting(Latest, f, outcome)  BY <1>1, <1>5, <1>7 DEF Setting, Applied
<1>9. run'.verdicts[f] # "none"
    <2>1. Latest \in BodyType  BY LatestFits DEF TypeOK
    <2>2. PICK i \in Setting(Latest, f, outcome) : Polled(Latest, outcome)[f] = commands[i].verdict
        BY <1>4, <1>8, <2>1, PolledFits
    <2>3. commands[i] \in CommandType  BY <2>2, PendingIsCommands DEF Setting, TypeOK
    <2>4. run'.verdicts[f] = commands[i].verdict  BY <2>2 DEF PollSets
    <2>. QED  BY <2>3, <2>4 DEF CommandType, Verdicts
<1>10. commands[c].verdict = "dismissed" => c \in store'
    BY <1>1, <1>7 DEF PollSets
<1>. QED  BY <1>2, <1>9, <1>10 DEF f

\* A reply says that a command was applied only if its author was entitled to it.
LEMMA RepliesEntitled ==
    ASSUME TypeOK, NEW lookup, NEW full, NEW outcome, PollSets(lookup, full, outcome),
           NEW r \in run'.todo
    PROVE  /\ r[1] \in DOMAIN commands /\ r[1] \notin Latest.acks
           /\ r[2] \in Applied => Entitled(r[1])
<1>1. PICK i \in Pending(Latest) : r = <<i, outcome[i]>>  BY DEF PollSets, NewReplies
<1>2. r[1] = i /\ r[2] = outcome[i]  BY <1>1
<1>3. outcome[i] = Outcome(Latest, i, lookup, full)  BY DEF PollSets
<1>4. outcome[i] \in Applied => Authority(commands[i].by, lookup) = "allowed"
    BY <1>3, OutcomeFits
<1>5. Authority(commands[i].by, lookup) = "allowed" => Entitled(i)
    BY DEF Authority, LookedUp, Entitled
<1>6. i \in DOMAIN commands /\ i \notin Latest.acks  BY PendingIsCommands DEF Pending
<1>. QED  BY <1>2, <1>4, <1>5, <1>6

\* The acknowledgements written go with the verdicts written.
LEMMA WrittenAcks ==
    ASSUME run \in RunType, NEW found, NEW room \in Rooms \ {"none"},
           room \in {"no acks", "old"} => ~run.raised, NEW c \in Written(found, room).acks
    PROVE  /\ ~run.raised
           /\ c \in run.body.acks \/ (c \in run.acked /\ room # "old")
<1>1. run.raised \in BOOLEAN  BY DEF RunType
<1>2. CASE room \in {"all", "cut", "no ids"} /\ ~run.raised  BY <1>2 DEF Written, AcksOf, Capped
<1>3. CASE room \in {"all", "cut", "no ids"} /\ run.raised  BY <1>3 DEF Written
<1>4. CASE room = "no acks"  BY <1>4 DEF Written
<1>5. CASE room = "old"  BY <1>5 DEF Written, FallbackAcks
<1>. QED  BY <1>1, <1>2, <1>3, <1>4, <1>5 DEF Rooms

\* What the write of the findings leaves acknowledged is on record.
LEMMA PutLasts ==
    ASSUME TypeOK, NumbersFit, VerdictsFit, AnswersFit, PutFindings, Uncut',
           NEW c \in Latest'.acks, NEW r \in replies, r[1] = c, r[2] \in Applied
    PROVE  Lasting(c, Latest'.verdicts)
<1>0. PICK room \in Rooms, found \in SUBSET Findings, body \in BodyType :
          \E ids, kept : PutWrites(room, found, ids, kept, body)
    BY PutEffect
<1>1. PICK ids, kept : PutWrites(room, found, ids, kept, body)  BY <1>0
<1>2. TypeOK'  BY TypeHolds DEF Next
<1>3. Latest' = body  BY <1>1, <1>2, LatestNextFits DEF PutWrites, Rewritten, TypeOK
<1>4. Uncut /\ Remembers /\ run.pc = "reply" /\ run.body = Latest
    BY PutVerdicts DEF Uncut, Remembers
<1>5. run \in RunType /\ room \in Rooms \ {"none"} /\ (room \in {"no acks", "old"} => ~run.raised)
    BY <1>1 DEF PutWrites, Uncut, TypeOK
<1>6. c \in Written(found, room).acks /\ Latest'.verdicts = Written(found, room).verdicts
    BY <1>1, <1>3 DEF PutWrites
<1>7. ~run.raised /\ (c \in Latest.acks \/ (c \in run.acked /\ room # "old"))
    BY <1>4, <1>5, <1>6, WrittenAcks
<1>. DEFINE f == commands[c].meant
            verdict == Written(found, room).verdicts[f]
<1>8. c \in DOMAIN commands /\ f \in Findings /\ Entitled(c)
    <2>1. c \in DOMAIN commands  BY DEF TypeOK
    <2>2. commands[c] \in CommandType  BY <2>1 DEF TypeOK
    <2>. QED  BY <2>1, <2>2 DEF CommandType, AnswersFit
<1>9. \/ verdict = Latest.verdicts[f] /\ (room = "old" \/ run.raised)
      \/ verdict = run.verdicts[f] /\ room # "old"
      \/ verdict = "recurred"
    <2>1. \/ verdict = run.body.verdicts[f] /\ (room = "old" \/ run.raised)
          \/ verdict = run.verdicts[f] /\ ~run.raised /\ room # "old"
          \/ verdict = "recurred" /\ run.body.verdicts[f] = "fixed"
        <3>1. f \in Findings  BY <1>8
        <3>. HIDE DEF f
        <3>. QED  BY <1>5, <3>1, WrittenVerdict, Zenon
    <2>. HIDE DEF verdict
    <2>. QED  BY <1>4, <2>1
<1>. HIDE DEF verdict
<1>10. CASE c \in Latest.acks
    <2>1. Latest.verdicts[f] # "none" /\ (commands[c].verdict = "dismissed" => c \in store)
        BY <1>4, <1>10 DEF AnswersFit, AckedIsRecorded
    <2>2. run.verdicts[f] # "none"
        <3>1. run.verdicts[f] = Latest.verdicts[f] \/ run.verdicts[f] \in Verdicts
            BY <1>4, <1>7, <1>8 DEF VerdictsFit
        <3>. QED  BY <2>1, <3>1 DEF Verdicts
    <2>3. verdict # "none"  BY <1>9, <2>1, <2>2
    <2>. QED  BY <1>6, <2>1, <2>3 DEF Lasting, verdict
<1>11. CASE c \in run.acked /\ room # "old"
    <2>1. Lasting(c, run.verdicts)  BY <1>4, <1>7, <1>8, <1>11 DEF AnswersFit
    <2>2. verdict # "none"  BY <1>7, <1>9, <1>11, <2>1 DEF Lasting
    <2>. QED  BY <1>6, <2>1, <2>2 DEF Lasting, verdict
<1>. QED  BY <1>7, <1>10, <1>11

LEMMA AnswersHold ==
    ASSUME TypeOK, NumbersFit, VerdictsFit, AnswersFit, [Next]_vars PROVE AnswersFit'
<1>1. CASE UNCHANGED vars \/ FallBehind
    BY <1>1, BehindEffect DEF AllButBehind, AnswersFit, AckedIsRecorded, Entitled, Lasting, Uncut, Latest
<1>2. CASE Command
    <2>1. PICK command : CommandAdded(command)  BY <1>2, CommandEffect
    <2>2. \A c \in DOMAIN commands : c \in DOMAIN commands' /\ commands'[c] = commands[c]
        <3>1. command \in CommandType /\ commands \in Seq(CommandType)
              /\ commands' = Append(commands, command)
            BY <2>1 DEF CommandAdded, TypeOK
        <3>. QED  BY <3>1
    <2>3. UNCHANGED <<replies, store, run, lost>> /\ Latest' = Latest
        BY <2>1 DEF CommandAdded, Latest
    <2>4. \A r \in replies \cup run.todo : r[1] \in DOMAIN commands  BY DEF TypeOK
    <2>5. \A c \in DOMAIN commands : /\ Entitled(c)' <=> Entitled(c)
                                     /\ Lasting(c, run.verdicts)' <=> Lasting(c, run.verdicts)
        BY <2>2, <2>3 DEF Entitled, Lasting
    <2>6. AckedIsRecorded'
        <3>. SUFFICES ASSUME Uncut, NEW c \in Latest.acks, NEW r \in replies, r[1] = c,
                             r[2] \in Applied
                      PROVE  /\ Latest.verdicts[commands'[c].meant] # "none"
                             /\ commands'[c].verdict = "dismissed" => c \in store
            BY <2>3 DEF AckedIsRecorded, Uncut
        <3>. QED  BY <2>2, <2>4 DEF AnswersFit, AckedIsRecorded
    <2>7. \A r \in replies \cup run.todo : r[2] \in Applied => Entitled(r[1])'
        BY <2>4, <2>5 DEF AnswersFit
    <2>8. Uncut /\ run.pc = "reply" /\ ~run.raised =>
              \A c \in run.acked : c \in DOMAIN commands'
                                  /\ (Entitled(c)' => Lasting(c, run.verdicts)')
        BY <2>2, <2>5 DEF AnswersFit
    <2>. QED  BY <2>3, <2>6, <2>7, <2>8 DEF AnswersFit, Uncut
<1>3. CASE Start \/ PostSummaryFails \/ PutFindingsFails \/ ResolveStale \/ Kill
    <2>1. Elsewhere  BY <1>3, QuietSteps
    <2>. QED  BY <2>1 DEF Elsewhere, AnswersFit, AckedIsRecorded, Entitled, Uncut
<1>4. CASE PostSummary
    <2>1. run'.pc = "attach" /\ run'.todo = run.todo /\ UNCHANGED <<commands, replies, store>>
        BY <1>4, SummaryRest
    <2>2. Uncut' => Uncut /\ Latest'.verdicts = Latest.verdicts /\ Latest'.acks = Latest.acks
        BY <1>4, SummaryKeeps DEF Uncut, Remembers
    <2>3. AckedIsRecorded'  BY <2>1, <2>2 DEF AnswersFit, AckedIsRecorded
    <2>. QED  BY <2>1, <2>3 DEF AnswersFit, Entitled
<1>5. CASE Poll
    <2>1. PICK lookup, full, outcome : PollSets(lookup, full, outcome)  BY <1>5, PollEffect
    <2>2. UNCHANGED <<commands, replies, lost>> /\ Latest' = Latest /\ store \subseteq store'
        BY <2>1 DEF PollSets, Latest
    <2>3. \A r \in run'.todo : r[1] \notin Latest.acks /\ (r[2] \in Applied => Entitled(r[1]))
        BY <2>1, RepliesEntitled
    <2>4. ASSUME Uncut, NEW c \in run'.acked
          PROVE  c \in DOMAIN commands /\ (Entitled(c) => Lasting(c, run.verdicts)')
        <3>1. c \in DOMAIN commands  BY <2>1, <2>4, PendingIsCommands DEF PollSets
        <3>2. Entitled(c) => /\ run'.verdicts[commands[c].meant] # "none"
                             /\ commands[c].verdict = "dismissed" => c \in store'
            BY <2>1, <2>4, PolledLasts
        <3>. QED  BY <2>2, <3>1, <3>2 DEF Lasting
    <2>5. AckedIsRecorded'  BY <2>2 DEF AnswersFit, AckedIsRecorded, Uncut
    <2>6. \A r \in replies' \cup run'.todo : r[2] \in Applied => Entitled(r[1])
        BY <2>2, <2>3 DEF AnswersFit
    <2>7. \A c : Entitled(c)' <=> Entitled(c)  BY <2>2 DEF Entitled
    <2>. QED  BY <2>2, <2>3, <2>4, <2>5, <2>6, <2>7 DEF AnswersFit, Uncut
<1>6. CASE Reply
    <2>1. PICK next : ReplySets(next)  BY <1>6, ReplyEffect
    <2>2. /\ UNCHANGED <<commands, store, lost>> /\ Latest' = Latest
          /\ run'.verdicts = run.verdicts /\ run'.raised = run.raised
          /\ run'.todo \subseteq run.todo /\ run'.acked \subseteq run.acked
          /\ replies' \subseteq replies \cup {next} /\ next \in run.todo
          /\ run.pc = "reply"
        BY <2>1 DEF ReplySets, Latest
    <2>3. AckedIsRecorded'
        <3>1. next[1] \notin Latest.acks  BY <2>2 DEF AnswersFit
        <3>. QED  BY <2>2, <3>1 DEF AnswersFit, AckedIsRecorded, Uncut
    <2>4. \A c : /\ Entitled(c)' <=> Entitled(c)
                 /\ Lasting(c, run.verdicts)' <=> Lasting(c, run.verdicts)
        BY <2>2 DEF Entitled, Lasting
    <2>5. \A r \in replies' \cup run'.todo : r[2] \in Applied => Entitled(r[1])
        BY <2>2 DEF AnswersFit
    <2>. QED  BY <2>2, <2>3, <2>4, <2>5 DEF AnswersFit, Uncut
<1>7. CASE Raise
    <2>1. RaiseSets  BY <1>7, RaiseEffect
    <2>2. UNCHANGED <<commands, replies, store, lost>> /\ Latest' = Latest
          /\ run'.todo = {} /\ run'.raised
        BY <2>1 DEF RaiseSets, Latest
    <2>. QED  BY <2>2 DEF AnswersFit, AckedIsRecorded, Entitled, Uncut
<1>8. CASE PutFindings
    <2>1. run'.pc = "tidy" /\ run'.todo = {} /\ UNCHANGED <<commands, replies, store>>
        BY <1>8, PutRest
    <2>2. AckedIsRecorded'
        <3>. SUFFICES ASSUME Uncut', NEW c \in Latest'.acks, NEW r \in replies, r[1] = c,
                             r[2] \in Applied
                      PROVE  Lasting(c, Latest'.verdicts)
            BY <2>1 DEF AckedIsRecorded, Lasting
        <3>. QED  BY <1>8, PutLasts
    <2>. QED  BY <2>1, <2>2 DEF AnswersFit, Entitled
<1>. QED  BY <1>1, <1>2, <1>3, <1>4, <1>5, <1>6, <1>7, <1>8 DEF Next

-----------------------------------------------------------------------------
(* The theorems *)

Inductive == TypeOK /\ NumbersFit /\ VerdictsFit /\ AnswersFit

LEMMA InductiveInit == Init => Inductive
<1>. SUFFICES ASSUME Init  PROVE Inductive
    OBVIOUS
<1>1. /\ comments = <<>> /\ commands = <<>> /\ behind = 0 /\ replies = {} /\ store = {} /\ named = {}
      /\ lost = {} /\ run = Idle
    BY DEF Init
<1>2. run \in RunType /\ run.pc = "idle" /\ run.todo = {}  BY <1>1, IdleFits
<1>3. TypeOK  BY <1>1, <1>2 DEF TypeOK
<1>4. /\ Latest = EmptyBody /\ EmptyBody.acks = {}
      /\ \A f \in Findings : EmptyBody.verdicts[f] = "none"
    BY <1>1 DEF Latest, EmptyBody, NoVerdicts
<1>5. NumbersFit
    <2>1. Agree(Latest.ids, named)  BY <1>1 DEF Agree
    <2>. QED
        BY <1>1, <1>2, <2>1 DEF NumbersFit, RunFollows, CommandsFit, MapFits, Numbers!Pairs
<1>6. VerdictsFit  BY <1>2, <1>4 DEF VerdictsFit
<1>7. AnswersFit  BY <1>1, <1>2, <1>4 DEF AnswersFit, AckedIsRecorded
<1>. QED  BY <1>3, <1>5, <1>6, <1>7 DEF Inductive

LEMMA InductiveStep == Inductive /\ [Next]_vars => Inductive'
BY TypeHolds, NumbersHold, VerdictsHold, AnswersHold DEF Inductive

\* Comments, commands, replies and the run are what the markers and the calls can carry;
\* every body numbers findings one-to-one, every command has a number a summary comment
\* showed, and a run that has read the comment works on the one there is.
THEOREM Invariant == Spec => []Inductive
BY InductiveInit, InductiveStep, PTL DEF Spec

\* While the markers are not lost, no number that readers saw names two findings: not in
\* one comment and not across the comments of different runs.
THEOREM NumbersStay == Spec => [](Remembers => Numbers!NumbersAreNames)
<1>1. Inductive => (Remembers => Numbers!NumbersAreNames)
    BY DEF Inductive, NumbersFit, MapFits, Agree, Numbers!NumbersAreNames
<1>. QED  BY <1>1, Invariant, PTL

\* A finding that a run reported is left out of the comment only if an owner or a member
\* dismissed that very finding, for any number of runs, commands and faults that leave
\* the markers there.
THEOREM HiddenOnRequest == Spec => []HiddenWasAsked
<1>1. Inductive => HiddenWasAsked
    <2>. SUFFICES ASSUME Inductive, Remembers, NEW f \in DOMAIN Latest.ids,
                         Latest.verdicts[f] = "dismissed"
                  PROVE  Asked(f, "dismissed")
        BY DEF HiddenWasAsked, Asked
    <2>1. Latest \in BodyType  BY LatestFits DEF Inductive, TypeOK
    <2>2. f \in Findings  BY <2>1, InMaps DEF BodyType
    <2>. QED  BY <2>2 DEF Inductive, VerdictsFit
<1>. QED  BY <1>1, Invariant, PTL

\* A command that was answered as applied, and that the comment lists as dealt with, has
\* taken effect: its finding has a verdict and a dismissal is in the feedback store.
THEOREM AcksAreRecorded == Spec => []AckedIsRecorded
<1>1. Inductive => AckedIsRecorded  BY DEF Inductive, AnswersFit
<1>. QED  BY <1>1, Invariant, PTL

\* A dismissal in the comment ends only with an entitled author's "fixed" on the finding.
THEOREM DismissalsLast == Spec => DismissalKept
<1>. DEFINE Kept1 == Remembers' =>
        \A f \in Findings :
            Latest.verdicts[f] = "dismissed" /\ Latest'.verdicts[f] # "dismissed" =>
                \E c \in DOMAIN commands :
                    /\ commands[c].meant = f
                    /\ commands[c].verdict = "fixed" /\ commands[c].by # "stranger"
<1>1. Inductive /\ [Next]_vars => Kept1
    <2>. SUFFICES ASSUME Inductive, [Next]_vars, Remembers', NEW f \in Findings,
                         Latest.verdicts[f] = "dismissed", Latest'.verdicts[f] # "dismissed"
                  PROVE  Asked(f, "fixed")
        BY DEF Asked
    <2>. USE DEF Inductive
    <2>1. ASSUME Latest' = Latest  PROVE FALSE  BY <2>1
    <2>2. CASE UNCHANGED vars \/ FallBehind  BY <2>1, <2>2, BehindEffect DEF AllButBehind, Latest
    <2>3. CASE Command \/ Poll \/ Reply \/ Raise
        BY <2>1, <2>3 DEF Command, Poll, Reply, Raise, Latest
    <2>4. CASE Start \/ PostSummaryFails \/ PutFindingsFails \/ ResolveStale \/ Kill
        BY <2>1, <2>4, QuietSteps DEF Elsewhere
    <2>5. CASE PostSummary  BY <2>5, SummaryKeeps
    <2>6. CASE PutFindings
        <3>1. /\ Remembers /\ run.pc = "reply" /\ run.body = Latest
              /\ Latest'.verdicts[f] = run.verdicts[f] /\ ~run.raised
            BY <2>6, PutVerdicts
        <3>2. run.verdicts[f] \in Verdicts /\ Asked(f, run.verdicts[f])
            BY <3>1 DEF VerdictsFit
        <3>3. run.verdicts[f] = "fixed"  BY <3>1, <3>2 DEF Verdicts
        <3>. QED  BY <3>2, <3>3
    <2>. QED  BY <2>2, <2>3, <2>4, <2>5, <2>6 DEF Next
<1>. QED  BY <1>1, Invariant, PTL DEF Spec, DismissalKept

\* The map in the comment is FindingIds' map.
LEMMA TheMap ==
    /\ Latest.ids = IF comments = <<>> THEN [f \in {} |-> 0] ELSE Head(comments).ids
    /\ Latest'.ids = IF comments' = <<>> THEN [f \in {} |-> 0] ELSE Head(comments').ids
BY DEF Latest, EmptyBody, Numbers!NoIds

\* A number in a comment names the same finding in every later comment, because every
\* step on the comments is a step of FindingIds, which gives new numbers only above all
\* that were given.
THEOREM NumbersFollow == Spec => NumbersAsPromised
<1>. DEFINE Step == Remembers' => \/ Numbers!Carry
                                  \/ \E current \in SUBSET Findings : Numbers!Write(current)
                                  \/ UNCHANGED <<Numbers!idVars>>
<1>1. Inductive /\ [Next]_vars => Step
    <2>. SUFFICES ASSUME Inductive, [Next]_vars, Remembers'
                  PROVE  \/ Numbers!Carry
                         \/ \E current \in SUBSET Findings : Numbers!Write(current)
                         \/ UNCHANGED <<Numbers!idVars>>
        OBVIOUS
    <2>. USE DEF Inductive
    <2>1. ASSUME Latest' = Latest, named' = named  PROVE UNCHANGED <<Numbers!idVars>>
        BY <2>1, TheMap DEF Numbers!idVars
    <2>2. CASE UNCHANGED vars \/ FallBehind  BY <2>1, <2>2, BehindEffect DEF AllButBehind, Latest
    <2>3. CASE Command \/ Poll \/ Reply \/ Raise
        BY <2>1, <2>3 DEF Command, Poll, Reply, Raise, Latest
    <2>4. CASE Start \/ PostSummaryFails \/ PutFindingsFails \/ ResolveStale \/ Kill
        BY <2>1, <2>4, QuietSteps DEF Elsewhere
    <2>5. CASE PostSummary
        <3>1. PICK body \in BodyType : SummaryWrites(body)  BY <2>5, SummaryEffect
        <3>2. Latest' = body /\ named' = named
            BY <2>5, <3>1, LatestNextFits, SummaryRest DEF SummaryWrites, Rewritten
        <3>3. CASE comments = <<>> /\ body = EmptyBody
            BY <2>1, <3>2, <3>3, LatestFits DEF TypeOK
        <3>4. CASE \E kept \in Numbers!Keepable(Latest.ids, {}) : body = Carried(Latest, kept)
            <4>1. PICK kept \in Numbers!Keepable(Latest.ids, {}) : body = Carried(Latest, kept)
                BY <3>4
            <4>2. Latest \in BodyType /\ Sound(Latest.ids)  BY LatestFits, LatestSound DEF TypeOK
            <4>3. Latest'.ids = Numbers!Persisted(Latest.ids, Numbers!NoIds, kept)
                BY <3>2, <4>1, <4>2, CarriedFits
            <4>. QED  BY <3>2, <4>1, <4>3, TheMap DEF Numbers!Carry
        <3>5. "read" \notin lost' /\ "none" \notin lost'  BY DEF Remembers
        <3>. QED  BY <3>1, <3>3, <3>4, <3>5 DEF SummaryWrites
    <2>6. CASE PutFindings
        <3>0. PICK room \in Rooms, found \in SUBSET Findings, body \in BodyType :
                  \E ids, kept : PutWrites(room, found, ids, kept, body)
            BY <2>6, PutEffect
        <3>1. PICK ids, kept : PutWrites(room, found, ids, kept, body)  BY <3>0
        <3>2. TypeOK'  BY TypeHolds
        <3>3. Latest' = body  BY <3>1, <3>2, LatestNextFits DEF PutWrites, Rewritten, TypeOK
        <3>5. room # "no ids"  BY <3>1 DEF PutWrites, Remembers
        <3>4. /\ Latest'.ids = Numbers!Persisted(Latest.ids, ids, kept)
              /\ ids \in Numbers!Assembled(Latest.ids, found)
              /\ kept \in Numbers!Keepable(Latest.ids, found)
              /\ named' = named \cup Numbers!Pairs(ids)
            BY <3>1, <3>3, <3>5 DEF PutWrites
        <3>. QED  BY <3>4, TheMap DEF Numbers!Write
    <2>. QED  BY <2>2, <2>3, <2>4, <2>5, <2>6 DEF Next
<1>. QED  BY <1>1, Invariant, PTL DEF Spec, NumbersAsPromised

\* FindingIds by itself: what its steps keep of the map.
LEMMA MapAgreesMeans ==
    /\ Numbers!MapAgrees <=> Sound(Latest.ids) /\ Agree(Latest.ids, named)
    /\ Numbers!MapAgrees' <=> Sound(Latest'.ids) /\ Agree(Latest'.ids, named')
BY TheMap DEF Numbers!MapAgrees, Sound, Agree, Numbers!NumbersAreNames

LEMMA MapStep == Numbers!MapAgrees /\ [Numbers!Next]_(Numbers!idVars) => Numbers!MapAgrees'
<1>. DEFINE ids == Latest.ids
            next == Latest'.ids
<1>. SUFFICES ASSUME Sound(ids), Agree(ids, named), [Numbers!Next]_(Numbers!idVars)
              PROVE  Sound(next) /\ Agree(next, named')
    BY MapAgreesMeans
<1>1. CASE Numbers!Carry
    <2>1. PICK kept \in Numbers!Keepable(ids, {}) :
              next = Numbers!Persisted(ids, Numbers!NoIds, kept) /\ named' = named
        BY <1>1, TheMap DEF Numbers!Carry
    <2>2. Sound(next) /\ Continues(ids, next)
        <3>1. Numbers!NoIds \in Numbers!Assembled(ids, {})  BY NothingNew
        <3>. QED  BY <2>1, <3>1, Writing, {} \in SUBSET Findings
    <2>. HIDE DEF ids, next
    <2>3. {} \in SUBSET Numbers!Pairs(next) /\ named' = named \cup {}  BY <2>1
    <2>. QED  BY <2>2, <2>3, StillNames
<1>2. CASE \E current \in SUBSET Findings : Numbers!Write(current)
    <2>1. PICK current \in SUBSET Findings : Numbers!Write(current)  BY <1>2
    <2>2. PICK new \in Numbers!Assembled(ids, current), kept \in Numbers!Keepable(ids, current) :
              next = Numbers!Persisted(ids, new, kept) /\ named' = named \cup Numbers!Pairs(new)
        BY <2>1, TheMap DEF Numbers!Write
    <2>3. Sound(next) /\ Continues(ids, next) /\ Numbers!Pairs(new) \subseteq Numbers!Pairs(next)
        BY <2>2, Writing
    <2>. HIDE DEF ids, next
    <2>. QED  BY <2>2, <2>3, StillNames
<1>3. CASE UNCHANGED Numbers!idVars
    <2>1. next = ids /\ named' = named  BY <1>3, TheMap DEF Numbers!idVars
    <2>. QED  BY <2>1
<1>. QED  BY <1>1, <1>2, <1>3 DEF Numbers!Next

\* The id map stays one-to-one, agrees with every number ever rendered and keeps the
\* highest of them, for every finite set of findings and however the budget cuts it.
THEOREM MapInvariant == Numbers!Spec => []Numbers!MapAgrees
<1>1. Numbers!Init => Numbers!MapAgrees
    <2>. SUFFICES ASSUME Numbers!Init  PROVE Sound(Latest.ids) /\ Agree(Latest.ids, named)
        BY MapAgreesMeans
    <2>1. Latest.ids = Numbers!NoIds /\ named = {}  BY TheMap DEF Numbers!Init
    <2>2. Sound(Numbers!NoIds)  BY EmptyFits DEF EmptyBody
    <2>. QED  BY <2>1, <2>2 DEF Agree
<1>. QED  BY <1>1, MapStep, PTL DEF Numbers!Spec

\* A number that a reader has seen names one finding, for good.
THEOREM NamesAreForGood == Numbers!Spec => []Numbers!NumbersAreNames
<1>1. Numbers!MapAgrees => Numbers!NumbersAreNames  BY DEF Numbers!MapAgrees
<1>. QED  BY <1>1, MapInvariant, PTL
=============================================================================
