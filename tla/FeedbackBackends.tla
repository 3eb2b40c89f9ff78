-------------------------- MODULE FeedbackBackends --------------------------
(***************************************************************************)
(* The feedback store of one repository: the provider decides which of the *)
(* two backends the appends go through (feedback/store.py:                 *)
(* make_store).                                                            *)
(***************************************************************************)
EXTENDS FeedbackStore

CONSTANTS Commands, MaxFaults  \* as in BitbucketStore

VARIABLES
    provider,                             \* "github" or "bitbucket"
    refuses, exists, content, job, lost   \* as in BitbucketStore

Bitbucket == INSTANCE BitbucketStore WITH MaxAttempts <- MaxRetries

bitbucketVars == <<refuses, exists, content, job, lost>>
allVars == <<provider, vars, bitbucketVars>>

\* The store of the other provider is not used.
BackendInit ==
    /\ Init /\ Bitbucket!InitStore
    /\ \/ provider = "github" /\ ~exists /\ ~refuses
       \/ provider = "bitbucket" /\ ~branch

OnGitHub == provider = "github" /\ Next /\ UNCHANGED <<provider, bitbucketVars>>

OnBitbucket(A) == provider = "bitbucket" /\ A /\ UNCHANGED <<provider, vars>>

BackendNext == OnGitHub \/ OnBitbucket(Bitbucket!NextStore)

\* The fairness of the two specifications, for the store that is used.
BackendSpec ==
    /\ BackendInit /\ [][BackendNext]_allVars
    /\ \A w \in Writers : WF_vars(Step(w))
    /\ \A c \in Commands : WF_allVars(OnBitbucket(Bitbucket!Goes(c)))

-----------------------------------------------------------------------------
\* Bitbucket: no command is in the file twice, and one whose run was told is in it, unless
\* /src replaces what it should refuse and an append read the file before it was verified.
StoredOnce == Bitbucket!StoredOnce

\* Bitbucket: in the end the run of every command is told that its entry is stored.
AllTold == \A c \in Commands : <>[](provider = "bitbucket" => Bitbucket!IsTold(c))
=============================================================================
