--------------------------- MODULE BitbucketStore ---------------------------
(***************************************************************************)
(* The append of the feedback store over Bitbucket's /src endpoint         *)
(* (feedback/store.py: _StoreCore over _BitbucketSrcBackend), for the      *)
(* commands that review runs poll from the comments of a pull request.     *)
(*                                                                         *)
(* A run appends a command's entry until it is told that the entry is      *)
(* stored; a command of which no run was told, or whose acknowledgement    *)
(* was not saved, is polled again by a later run.  Nobody knows whether    *)
(* /src refuses a commit whose parent is not the head of the branch any    *)
(* more: it may, or it may replace what others have written.  The write is *)
(* therefore verified by reading the file back.                            *)
(*                                                                         *)
(* The entry of a command is the command, recognised by its comment        *)
(* whenever that was.  Retention and entries without a comment are the     *)
(* subject of FeedbackStore.                                               *)
(***************************************************************************)
EXTENDS Integers, FiniteSets, Sequences, SequencesExt

CONSTANTS
    Commands,    \* the commands, each with a comment and a finding of its own
    MaxAttempts, \* _MAX_RETRIES
    MaxFaults    \* bound on the requests that fail, lost answers and killed runs

VARIABLES
    refuses,  \* /src refuses a commit on top of an old head
    exists,   \* the feedback branch exists
    content,  \* the entries of the file, the oldest first
    job,      \* command -> the append of its entry
    lost      \* the number of faults so far

storeVars == <<refuses, exists, content, job, lost>>

\* current: nobody has committed since the head was read.  late is history: the appends
\* that were about to write without knowing this entry when its run was told.
Pending == [pc |-> "pending", kept |-> <<>>, current |-> FALSE, attempt |-> 1,
            booted |-> FALSE, late |-> {}]

InitStore ==
    /\ refuses \in BOOLEAN /\ exists \in BOOLEAN
    /\ content = <<>>
    /\ job = [c \in Commands |-> Pending]
    /\ lost = 0

UnderWay(c) == job[c].pc \notin {"pending", "told"}

Faulty(failed) ==
    /\ failed => lost < MaxFaults
    /\ lost' = IF failed THEN lost + 1 ELSE lost

Become(c, j) == job' = [job EXCEPT ![c] = j]

\* Fault: the command is acknowledged although its entry was not stored.
FailedForGood(c) == [Pending EXCEPT !.pc = "dropped"]

\* append() returns False: the command stays without acknowledgement.
Failed(c) == Pending

\* append() returns True.
Told(c) == [Pending EXCEPT
    !.pc = "told",
    !.late = {d \in Commands \ {c} : job[d].pc = "write" /\ ~Contains(job[d].kept, c)}]

\* Another iteration of append's loop, when there is one left.
Again(c) ==
    IF job[c].attempt < MaxAttempts
      THEN [job[c] EXCEPT !.pc = "read", !.attempt = @ + 1, !.kept = <<>>, !.current = FALSE]
      ELSE Failed(c)

-----------------------------------------------------------------------------
\* A run finds the command and appends its entry, perhaps while other runs append theirs.
Poll(c) ==
    /\ job[c].pc = "pending"
    /\ Become(c, [Pending EXCEPT !.pc = "read"])
    /\ UNCHANGED <<refuses, exists, content, lost>>

\* _find_comment_id_duplicate(): the entry is there, whoever has stored it and when.
Found(c) == Contains(content, c)

\* read(): the head, and the file of that commit.  Without a branch the write does not
\* come to a request.
Read(c) ==
    /\ job[c].pc = "read"
    /\ \/ /\ ~exists
          /\ Become(c, IF job[c].booted THEN Failed(c)
                       ELSE [job[c] EXCEPT !.pc = "boot", !.booted = TRUE])
       \/ exists /\ Found(c) /\ Become(c, Told(c))
       \/ /\ exists /\ ~Found(c)
          /\ Become(c, [job[c] EXCEPT !.pc = "write", !.current = TRUE,
                                      !.kept = Append(content, c)])
    /\ UNCHANGED <<refuses, exists, content, lost>>

\* The commit is made.  If its answer is lost, the request is sent again.
Write(c) ==
    /\ job[c].pc = "write"
    /\ refuses => job[c].current
    /\ content' = job[c].kept
    /\ \E answered \in BOOLEAN :
           /\ Faulty(~answered)
           /\ job' = [d \in Commands |->
                  [job[d] EXCEPT !.current = FALSE,
                                 !.pc = IF d = c /\ answered THEN "verify" ELSE @]]
    /\ UNCHANGED <<refuses, exists>>

\* /src refuses the commit, be it the append's own one that stands in the way.  The
\* error is not taken for a conflict.
WriteRefused(c) ==
    /\ job[c].pc = "write"
    /\ refuses /\ ~job[c].current
    /\ Become(c, Failed(c))
    /\ UNCHANGED <<refuses, exists, content, lost>>

\* Fault: a write that was accepted is believed.
Believed(c) == TRUE

\* What comes back is what was written.
Confirmed(c) == content = job[c].kept

\* The file is read back.  A read that fails counts as a conflict.
Verify(c) ==
    /\ job[c].pc = "verify"
    /\ \E readable \in BOOLEAN :
           /\ Faulty(~readable)
           /\ Become(c, IF readable /\ Confirmed(c) THEN Told(c) ELSE Again(c))
    /\ UNCHANGED <<refuses, exists, content>>

\* bootstrap_branch(): the branch is created, or there is one by now.
Bootstrap(c) ==
    /\ job[c].pc = "boot"
    /\ exists' = TRUE
    /\ Become(c, Again(c))
    /\ UNCHANGED <<refuses, content, lost>>

\* A request fails for good, the token may not write, or the run is killed.
Fail(c) ==
    /\ UnderWay(c)
    /\ Faulty(TRUE)
    /\ Become(c, Failed(c))
    /\ UNCHANGED <<refuses, exists, content>>

\* The run ends before it has saved the acknowledgement: the command is polled again.
Forget(c) ==
    /\ job[c].pc = "told"
    /\ Faulty(TRUE)
    /\ Become(c, Pending)
    /\ UNCHANGED <<refuses, exists, content>>

\* What a run does when nothing goes wrong any more.
Goes(c) == Poll(c) \/ Read(c) \/ Write(c) \/ WriteRefused(c) \/ Verify(c) \/ Bootstrap(c)

NextStore == \E c \in Commands :
    Poll(c) \/ Read(c) \/ Write(c) \/ WriteRefused(c) \/ Verify(c) \/ Bootstrap(c)
        \/ Fail(c) \/ Forget(c)

\* Runs keep coming while a command is pending, and a run makes its requests one after
\* the other.
StoreFairness == \A c \in Commands : WF_storeVars(Goes(c))

StoreSpec == InitStore /\ [][NextStore]_storeVars /\ StoreFairness

-----------------------------------------------------------------------------
(* Properties *)

\* The file holds no command twice, whatever answers were lost, reads failed or runs
\* were killed.  A command whose run was told that the entry is stored is in the file.
\* Only where /src replaces what it should refuse may an append that has read the file
\* before, and writes after the verification, take the entry out, as the comment of
\* _BitbucketSrcBackend says.
StoredOnce ==
    /\ IsInjective(content)
    /\ \A c \in Commands : job[c].pc = "told" =>
           \/ Contains(content, c)
           \/ ~refuses /\ job[c].late # {}

IsTold(c) == job[c].pc = "told"

\* In the end every command's run is told that its entry is stored, whatever races and
\* faults came before: a refused or unverified write is made up for by a later run.
AllTold == \A c \in Commands : <>[]IsTold(c)
=============================================================================
