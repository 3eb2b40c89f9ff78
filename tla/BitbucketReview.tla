--------------------------- MODULE BitbucketReview ---------------------------
(***************************************************************************)
(* Review runs against one Bitbucket pull request: BitbucketProvider's     *)
(* post_summary(), post_findings() with the verdict commands it polls from *)
(* the pull request's comments, and resolve_stale().                       *)
(*                                                                         *)
(* All the bot remembers from run to run is in its summary comment: the id *)
(* map, the verdicts and the ids of the command comments it has dealt      *)
(* with.  A body is reduced to these and to the findings it shows.  The    *)
(* watermark is the subject of ReviewRun.                                  *)
(*                                                                         *)
(* One run is active at a time.  It may be killed between any two calls.   *)
(***************************************************************************)
EXTENDS Integers, Sequences, SequencesExt, FiniteSetsExt

CONSTANTS
    Findings,     \* the fingerprints that runs may report
    Authors,      \* who writes commands: an "owner", listed in the owners file of the
                  \* destination branch, a "member" with the role it takes, a "stranger"
    MaxScanned,   \* _MAX_COMMENTS_SCANNED: how many of the newest comments a run reads
    MaxAcked,     \* _MAX_ACKED_IDS: how many acknowledgements a comment holds
    MaxCommands,  \* bound on the command comments
    MaxBehind,    \* bound on the commands that other comments push out of what is read
    MaxFaults,    \* bound on the calls that fail and the runs that are killed
    FaultKinds    \* the kinds of fault that happen

ASSUME BoundsAssumption ==
    /\ IsFiniteSet(Findings)
    /\ MaxScanned \in Nat \ {0} /\ MaxAcked \in Nat /\ MaxScanned <= MaxAcked
    /\ MaxCommands \in Nat /\ MaxBehind \in Nat /\ MaxFaults \in Nat
    /\ Authors \subseteq {"owner", "member", "stranger"}
    /\ FaultKinds \subseteq {"identity", "listing", "write", "reply", "lookup",
                             "store", "raise", "room", "kill"}

VARIABLES
    comments,  \* the bot's summary comments, the last updated one first
    commands,  \* the command comments, oldest first: the index is the id.  Besides what
               \* a comment says it has, as history, the finding its author meant
    behind,    \* the number of the oldest commands that no run reads any more, since
               \* MaxScanned newer comments have been written
    replies,   \* the pairs of a command and an outcome that the bot has posted
    store,     \* the commands that have an entry in the feedback store
    run,       \* the run in progress, or the last one
    faults,    \* the number of faults so far
    named,     \* history: the pairs of a number and a finding ever shown
    lost       \* history: how runs have lost what they knew: "read", "cut", "no ids",
               \* "none"

vars == <<comments, commands, behind, replies, store, run, faults, named, lost>>

\* Only the operators of FindingIds are used here, and its actions in a property.
Numbers == INSTANCE FindingIds
               WITH idMap <- IF comments = <<>> THEN [f \in {} |-> 0]
                             ELSE Head(comments).ids

NoVerdicts == [f \in Findings |-> "none"]

\* A body shows findings by number, whether or not the id map is in its marker.
EmptyBody == [ids |-> Numbers!NoIds, verdicts |-> NoVerdicts, acks |-> {},
              shown |-> Numbers!NoIds]

\* The run's local state.
Idle == [pc |-> "idle", known |-> TRUE, body |-> EmptyBody, verdicts |-> NoVerdicts,
         acked |-> {}, todo |-> {}, raised |-> FALSE]

\* What a command asks for.
Verdicts == {"dismissed", "fixed"}

-----------------------------------------------------------------------------
(* Faults *)

CanFail(kind) == faults < MaxFaults /\ kind \in FaultKinds

\* A step in which a call fails, or in which none does.
Fault(kind, failed) ==
    /\ failed => CanFail(kind)
    /\ faults' = IF failed THEN faults + 1 ELSE faults

NoFault == UNCHANGED faults

Loses(kind, happens) == lost' = IF happens THEN lost \cup {kind} ELSE lost

-----------------------------------------------------------------------------
(* The comment's hidden markers *)

\* What the body has room for of the earlier id map: all of it, or less.
Kept(ids, current, fits) ==
    {kept \in Numbers!Keepable(ids, current) : fits <=> kept = DOMAIN ids \ current}

\* Faults: one of the markers is not carried.
CarriedNoIds(body, kept) == [EmptyBody EXCEPT !.verdicts = body.verdicts, !.acks = body.acks]
CarriedNoVerdicts(body, kept) ==
    [EmptyBody EXCEPT !.ids = Numbers!Persisted(body.ids, Numbers!NoIds, kept), !.acks = body.acks]

\* The body that post_summary() writes carries the three markers of the comment it
\* replaces, all of them or, for want of room, none.
Carried(body, kept) ==
    [EmptyBody EXCEPT !.ids = Numbers!Persisted(body.ids, Numbers!NoIds, kept),
                      !.verdicts = body.verdicts, !.acks = body.acks]

-----------------------------------------------------------------------------
(* apply_pending_verdicts() *)

\* The commands among the newest comments, which are all that a run reads.
Scanned == (behind + 1)..Len(commands)

Pending(body) == Scanned \ body.acks

Meant(body, i) == Numbers!NamedBy(body.ids, commands[i].n)

\* check_authority(): what the permission lookup says of an author.  It may be down, or
\* closed to the bot, which needs to be an administrator for it.
LookedUp(by, lookup) ==
    IF lookup = "down" THEN "lookup failed"
    ELSE IF lookup = "closed" THEN "forbidden"
    ELSE IF by = "member" THEN "allowed" ELSE "refused"

\* _authorize(): an owner needs no lookup.
Authority(by, lookup) == IF by = "owner" THEN "allowed" ELSE LookedUp(by, lookup)

\* The outcome of a pending command, which is also the key of the reply.  full: the
\* feedback store does not take the entry.  A command without a number, or one that
\* cannot be parsed, ends like one with an unknown number and is left out.
Outcome(body, i, lookup, full) ==
    LET authority == Authority(commands[i].by, lookup)
    IN IF Meant(body, i) = {} THEN "unknown number"
       ELSE IF authority # "allowed" THEN authority
       ELSE IF commands[i].verdict = "fixed" THEN "applied"
       ELSE IF full THEN "applied, not stored" ELSE "applied and stored"

Applied == {"applied", "applied, not stored", "applied and stored"}

\* Outcomes that a later run may improve on: the command is not acknowledged.
Retryable == {"lookup failed", "forbidden", "applied, not stored"}

\* The commands that set the verdict of a finding.  They are read newest first, so
\* the oldest of them has the last word.
Setting(body, f, outcome) ==
    {i \in Pending(body) : outcome[i] \in Applied /\ f \in Meant(body, i)}

Polled(body, outcome) ==
    [f \in Findings |-> IF Setting(body, f, outcome) = {} THEN body.verdicts[f]
                        ELSE commands[Min(Setting(body, f, outcome))].verdict]

\* Fault: an answer is recognised by its wording, whichever command it was for.
NewWords(body, outcome) ==
    {<<i, outcome[i]>> : i \in {j \in Pending(body) : \A r \in replies : r[2] # outcome[j]}}

\* The replies that are not on the pull request yet.
NewReplies(body, outcome) == {<<i, outcome[i]>> : i \in Pending(body)} \ replies

-----------------------------------------------------------------------------
(* The pull request *)

Init ==
    /\ comments = <<>>
    /\ commands = <<>>
    /\ behind = 0
    /\ replies = {}
    /\ store = {}
    /\ run = Idle
    /\ faults = 0
    /\ named = {}
    /\ lost = {}

\* Somebody writes a command about a finding that a summary comment shows.  The
\* comment is the newest, and may push the oldest command out of what is read.
Command ==
    /\ Len(commands) < MaxCommands
    /\ \E i \in DOMAIN comments : \E f \in DOMAIN comments[i].shown :
           \E verdict \in Verdicts, by \in Authors :
               /\ by # "member" => verdict = "dismissed"
               /\ commands' = Append(commands, [verdict |-> verdict, by |-> by, meant |-> f,
                                                n |-> comments[i].shown[f]])
    /\ behind' = IF Len(commands) - behind < MaxScanned THEN behind ELSE behind + 1
    /\ UNCHANGED <<comments, replies, store, run, faults, named, lost>>

\* Newer comments of whatever kind fill what a run reads: the oldest command of it
\* is read no more, whether it has been dealt with or not.
FallBehind ==
    /\ behind < Len(commands) /\ behind < MaxBehind
    /\ behind' = behind + 1
    /\ UNCHANGED <<comments, commands, replies, store, run, faults, named, lost>>

-----------------------------------------------------------------------------
(* One run *)

\* _bot_account_id(): without an answer no comment is taken for the bot's own.
Own(known) == IF known THEN comments ELSE <<>>

\* A run starts.  It is incremental, and writes no summary, only if it finds a summary
\* comment with a usable watermark.
Start ==
    /\ run.pc = "idle"
    /\ \E known \in BOOLEAN, pc \in {"summary", "attach"} :
           /\ Fault("identity", ~known)
           /\ pc = "attach" => Own(known) # <<>>
           /\ run' = [Idle EXCEPT !.pc = pc, !.known = known]
    /\ UNCHANGED <<comments, commands, behind, replies, store, named, lost>>

\* What post_summary() carries over from the first comment listed: all, a part of the id
\* map with the rest, or nothing.
SummaryBodies(own, room) ==
    IF own = <<>> \/ room = "none" THEN {EmptyBody}
    ELSE {Carried(Head(own), kept) : kept \in Kept(Head(own).ids, {}, room = "all")}

\* post_summary().  It lists the comments for the markers to carry, and again for the
\* comment to update, unless the first listing was cached.  The first comment of the
\* listing is updated and its duplicates are deleted.
PostSummary ==
    /\ run.pc = "summary"
    /\ \E failed \in {{}, {"first"}, {"first", "second"}, {"delete"}},
          room \in {"all", "cut", "none"} :
           LET Listed(which) == IF which \in failed THEN <<>> ELSE Own(run.known)
           IN /\ failed # {} => CanFail("listing") /\ room = "all" /\ run.known
              /\ room # "all" => CanFail("room") /\ Listed("first") # <<>>
              /\ faults' = IF failed # {} \/ room # "all" THEN faults + 1 ELSE faults
              /\ \E body \in SummaryBodies(Listed("first"), room) :
                     \/ /\ Listed("second") = <<>>
                        /\ comments' = <<body>> \o comments
                     \/ /\ Listed("second") # <<>> /\ "delete" \in failed
                        /\ comments' = <<body>> \o Tail(comments)
                     \/ /\ Listed("second") # <<>> /\ "delete" \notin failed
                        /\ comments' = <<body>>
              /\ lost' = lost \cup
                     (IF comments = <<>> THEN {}
                      ELSE IF Listed("first") = <<>> THEN {"read"} ELSE {room} \ {"all"})
              /\ run' = [run EXCEPT !.pc = "attach"]
    /\ UNCHANGED <<commands, behind, replies, store, named>>

\* The write of the summary fails, and the run ends.
PostSummaryFails ==
    /\ run.pc = "summary"
    /\ Fault("write", TRUE)
    /\ run' = Idle
    /\ UNCHANGED <<comments, commands, behind, replies, store, named, lost>>

\* post_findings() reads the summary comment, which a listing shows first or which
\* this run has just created, and polls the commands.
Poll ==
    /\ run.pc = "attach"
    /\ \E lookup \in {"answers", "down", "closed"}, full \in BOOLEAN :
           LET body == Head(comments)
               outcome == [i \in Pending(body) |-> Outcome(body, i, lookup, full)]
               failed == lookup # "answers" \/ full
           IN /\ lookup # "answers" => CanFail("lookup") /\ ~full
              /\ full => CanFail("store")
              /\ faults' = IF failed THEN faults + 1 ELSE faults
              /\ store' = store \cup {i \in Pending(body) : outcome[i] = "applied and stored"}
              /\ run' = [run EXCEPT
                     !.pc = "reply", !.body = body,
                     !.verdicts = Polled(body, outcome),
                     !.acked = {i \in Pending(body) : outcome[i] \notin Retryable},
                     !.todo = NewReplies(body, outcome)]
    /\ UNCHANGED <<comments, commands, behind, replies, named, lost>>

\* The replies are posted one by one, to the newest command first.  A command whose
\* reply fails is not acknowledged.
Reply ==
    /\ run.pc = "reply" /\ run.todo # {}
    /\ LET next == CHOOSE r \in run.todo : \A q \in run.todo : q[1] <= r[1]
       IN \/ /\ NoFault
             /\ replies' = replies \cup {next}
             /\ run' = [run EXCEPT !.todo = run.todo \ {next}]
          \/ /\ Fault("reply", TRUE)
             /\ UNCHANGED replies
             /\ run' = [run EXCEPT !.todo = run.todo \ {next}, !.acked = run.acked \ {next[1]}]
    /\ UNCHANGED <<comments, commands, behind, store, named, lost>>

\* Retries are exhausted in the polling, a reply or the annotations: the exception is
\* caught, and the run goes on without verdicts and acknowledgements.
Raise ==
    /\ run.pc \in {"attach", "reply"}
    /\ Fault("raise", TRUE)
    /\ run' = [run EXCEPT !.pc = "reply", !.body = Head(comments), !.todo = {},
                          !.raised = TRUE]
    /\ UNCHANGED <<comments, commands, behind, replies, store, named, lost>>

-----------------------------------------------------------------------------
(* The body that post_findings() writes *)

\* Verdicts that commands of this very run have changed.
FreshlySet == {f \in Findings : run.verdicts[f] # run.body.verdicts[f]}

\* classify(): a finding reported in spite of a "fixed" verdict has recurred.
Tombstones(found) == {f \in found : run.verdicts[f] = "fixed"} \ FreshlySet

Marked(verdicts, dead) == [f \in Findings |-> IF f \in dead THEN "recurred" ELSE verdicts[f]]

\* Fault: the lowest ids are kept.
KeepOldest(ids) == {i \in ids : Cardinality({j \in ids : j < i}) < MaxAcked}

\* build_acks_marker(): the highest ids, as many as a comment holds.
Capped(ids) == {i \in ids : Cardinality({j \in ids : j > i}) < MaxAcked}

\* The acknowledgements of the comment, and this run's.
AcksOf(acked) == Capped(run.body.acks \cup acked)

\* Fault: this run's commands count as dealt with although their verdicts are left out.
FallbackAll == AcksOf(run.acked)

\* The acknowledgements that go with the earlier verdicts.
FallbackAcks == run.body.acks

\* The verdicts and acknowledgements written, according to what there is room for: all,
\* all but the id map, all but the acknowledgements, the earlier verdicts, or none.  A
\* run that caught an exception has the earlier ones to write, and no acknowledgements.
Written(found, room) ==
    LET marked == Marked(run.verdicts, Tombstones(found))
    IN IF room \in {"all", "cut", "no ids"}
       THEN IF run.raised THEN [verdicts |-> run.body.verdicts, acks |-> {}]
            ELSE [verdicts |-> marked, acks |-> AcksOf(run.acked)]
       ELSE IF room = "no acks" THEN [verdicts |-> marked, acks |-> {}]
       ELSE [verdicts |->
                 IF room = "old"
                 THEN Marked(run.body.verdicts,
                             {f \in Tombstones(found) : run.body.verdicts[f] # "none"})
                 ELSE NoVerdicts,
             acks |-> FallbackAcks]

\* classify(): a dismissed finding is not shown.
Shown(found) ==
    IF run.raised THEN found
    ELSE {f \in found : run.verdicts[f] # "dismissed"}

\* The id map written.  The marker is left out if it cannot be built, or does not fit
\* with the fewest entries of earlier runs; the text shows the numbers all the same.
WrittenIds(ids, kept, room) ==
    IF room = "no ids" THEN Numbers!NoIds ELSE Numbers!Persisted(run.body.ids, ids, kept)

\* The one write of the comment.  Which findings the agents have reported is up to them.
PutFindings ==
    /\ run.pc = "reply" /\ run.todo = {}
    /\ \E room \in {"all", "cut", "no ids", "no acks", "old", "none"}, found \in SUBSET Findings :
           /\ room \in {"no acks", "old"} => ~run.raised
           /\ Fault("room", room # "all")
           /\ \E ids \in Numbers!Assembled(run.body.ids, found),
                 kept \in Kept(run.body.ids, found, room # "cut") :
                  /\ comments' = [comments EXCEPT ![1] =
                         [ids |-> WrittenIds(ids, kept, room),
                          shown |-> [f \in Shown(found) |-> ids[f]],
                          verdicts |-> Written(found, room).verdicts,
                          acks |-> Written(found, room).acks]]
                  /\ named' = named \cup Numbers!Pairs(ids)
           /\ lost' = lost \cup ({room} \cap {"cut", "no ids", "none"})
           /\ run' = [Idle EXCEPT !.pc = "tidy", !.known = run.known]
    /\ UNCHANGED <<commands, behind, replies, store>>

\* The write fails: the replies and the store entries stay.
PutFindingsFails ==
    /\ run.pc = "reply" /\ run.todo = {}
    /\ Fault("write", TRUE)
    /\ run' = Idle
    /\ UNCHANGED <<comments, commands, behind, replies, store, named, lost>>

-----------------------------------------------------------------------------
(* After the write *)

\* resolve_stale(): all summary comments but the first are deleted.
ResolveStale ==
    /\ run.pc = "tidy"
    /\ \E done \in BOOLEAN :
           /\ Fault("listing", ~done)
           /\ comments' = IF done /\ run.known THEN <<Head(comments)>> ELSE comments
    /\ run' = Idle
    /\ UNCHANGED <<commands, behind, replies, store, named, lost>>

\* The run is killed between two calls, or post_findings() finds no comment.
Kill ==
    /\ run.pc # "idle"
    /\ Fault("kill", TRUE)
    /\ run' = Idle
    /\ UNCHANGED <<comments, commands, behind, replies, store, named, lost>>

Progress == \/ Start \/ PostSummary \/ Poll \/ Reply
            \/ PutFindings \/ ResolveStale

Next == \/ Command
        \/ FallBehind
        \/ Start
        \/ PostSummary \/ PostSummaryFails
        \/ Poll \/ Reply \/ Raise
        \/ PutFindings \/ PutFindingsFails
        \/ ResolveStale
        \/ Kill

\* Pushes keep starting runs, and a run goes on until it ends or is killed.
Spec == Init /\ [][Next]_vars /\ WF_vars(Progress)

-----------------------------------------------------------------------------
(* Properties *)

\* No run has lost the markers; nor has the id map been cut.
Remembers == lost \subseteq {"cut"}
Uncut     == lost = {}

Latest == IF comments = <<>> THEN EmptyBody ELSE Head(comments)

\* A command that the comment lists as dealt with has been answered on the pull
\* request, whatever failed on the way (bitbucket.py:803: the author of the command
\* would otherwise never hear of it).
AckedWasAnswered ==
    \A i \in DOMAIN comments : \A c \in comments[i].acks : \E r \in replies : r[1] = c

\* A command that was answered as applied and is not read again has taken effect, also
\* when the comment had no room for all: the finding has a verdict in the comment
\* (bitbucket.py:1190), and a dismissal is in the feedback store
\* (_bitbucket_verdicts.py:870).
AckedIsRecorded ==
    Uncut =>
        \A c \in Latest.acks :
            (\E r \in replies : r[1] = c /\ r[2] \in Applied) =>
                /\ Latest.verdicts[commands[c].meant] # "none"
                /\ commands[c].verdict = "dismissed" => c \in store

\* A finding that a run reported is left out of the comment only if somebody entitled asked for
\* that very finding to be dismissed: the number in the command did not reach another.
HiddenWasAsked ==
    Remembers =>
        \A f \in DOMAIN Latest.ids :
            Latest.verdicts[f] = "dismissed" =>
                \E c \in DOMAIN commands :
                    /\ commands[c].meant = f
                    /\ commands[c].verdict = "dismissed" /\ commands[c].by # "stranger"

\* A number in a comment names the same finding in every later comment: the map is
\* numbered, carried and cut as FindingIds says (bitbucket.py:1019).
NumbersAsPromised ==
    [][Remembers' => \/ Numbers!Carry
                     \/ \E current \in SUBSET Findings : Numbers!Write(current)
                     \/ UNCHANGED <<Numbers!idVars>>]_vars

\* A dismissal in the comment ends only with an entitled author's verdict on the finding
\* (bitbucket.py:1084: the markers are the suppression state).
DismissalKept ==
    [][Remembers' =>
        \A f \in Findings :
            Latest.verdicts[f] = "dismissed" /\ Latest'.verdicts[f] # "dismissed" =>
                \E c \in DOMAIN commands :
                    /\ commands[c].meant = f
                    /\ commands[c].verdict = "fixed" /\ commands[c].by # "stranger"]_vars

Answered(c) == \E r \in replies : r[1] = c

\* If faults are transient, the time comes when every command among the newest comments
\* has been answered and is among the comment's acknowledgements, for good: no later run
\* reads it again, although the comment holds but the newest acknowledgements.  A command
\* that newer comments push out of what is read before a run could deal with it is never
\* honoured (_bitbucket_verdicts.py:120).
CommandsSettle == <>[](\A c \in Scanned : Answered(c) /\ c \in Latest.acks)
=============================================================================
