------------------------------ MODULE Authoring ------------------------------
(***************************************************************************)
(* create_automation and update_automation: validate, claim, commit to git *)
(* with no session open, then write the row.  An edit holds the row by     *)
(* build_state = building and recognises its own claim by the deadline it  *)
(* wrote.  Deadlines are read off a clock that never repeats a value.      *)
(***************************************************************************)
EXTENDS AutomationRow

CONSTANTS
    Editors,    \* concurrent PUT requests on the automation
    MaxCommits, \* bound on commits to the script path
    MaxClaims   \* bound on build-lock deadlines ever handed out

ASSUME AuthoringAssumption == MaxCommits \in Nat /\ MaxClaims \in Nat

VARIABLES
    creator,    \* the POST that creates the automation
    editor,     \* the PUTs in flight
    commits,    \* commits landed on the script path; the n-th has SHA n
    clock       \* the latest deadline handed out

authoringVars == <<creator, editor, commits, clock>>

\* _BuildClaim plus the request: `namespace` asked for, `sha` committed.
IdleEditor == [pc |-> "idle", deadline |-> NoDeadline, build |-> "idle",
               prevSha |-> NoSha, namespace |-> NoWallet, sha |-> NoSha]

EditorStates == [pc : {"idle", "committing", "releasing", "finishing"},
                 deadline : Nat, build : BuildStates, prevSha : Nat,
                 namespace : Wallets \cup {NoWallet}, sha : Nat]

CreatorStates == [pc : {"idle", "inserting", "created", "failed"},
                  namespace : Wallets \cup {NoWallet}, sha : Nat]

AuthoringInit ==
    /\ creator = [pc |-> "idle", namespace |-> NoWallet, sha |-> NoSha]
    /\ editor = [e \in Editors |-> IdleEditor]
    /\ commits = 0
    /\ clock = 0

----------------------------------------------------------------------------
\* Create: git first; a git failure leaves no state at all.
CreateCommit(w) ==
    /\ creator.pc = "idle"
    /\ commits < MaxCommits
    /\ commits' = commits + 1
    /\ creator' = [pc |-> "inserting", namespace |-> w, sha |-> commits + 1]
    /\ UNCHANGED <<row, revisions, editor, clock>>

\* The insert and its create revision, in one transaction.  The refresh after
\* the commit may still raise: the row exists and the POST has failed.
CreateInsert(answer) ==
    /\ creator.pc = "inserting"
    /\ clock < MaxClaims
    /\ clock' = clock + 1
    /\ row' = [NoRow EXCEPT !.matching = "inactive", !.build = "building",
                            !.sha = creator.sha, !.deadline = clock + 1,
                            !.namespace = creator.namespace]
    /\ revisions' = Append(revisions, Revision("create", creator.sha, NoImage))
    /\ creator' = [creator EXCEPT !.pc = answer]
    /\ UNCHANGED <<editor, commits>>

CreateInsertFails ==
    /\ creator.pc = "inserting"
    /\ creator' = [creator EXCEPT !.pc = "failed"]
    /\ UNCHANGED <<row, revisions, editor, commits, clock>>

----------------------------------------------------------------------------
CheckWalletUnchanged(w) == row.deployed = NoWallet \/ w = row.namespace

\* Transaction 1 of an edit.  A refused claim changes nothing.
ClaimBuild(e, w) ==
    /\ editor[e].pc = "idle"
    /\ clock < MaxClaims
    /\ Live
    /\ row.build # "building"
    /\ CheckWalletUnchanged(w)
    /\ clock' = clock + 1
    /\ editor' = [editor EXCEPT ![e] =
                    [pc |-> "committing", deadline |-> clock + 1,
                     build |-> row.build, prevSha |-> row.sha,
                     namespace |-> w, sha |-> NoSha]]
    /\ row' = [row EXCEPT !.build = "building", !.deadline = clock + 1,
                          !.sha = NoSha]
    /\ UNCHANGED <<revisions, creator, commits>>

CommitScript(e) ==
    /\ editor[e].pc = "committing"
    /\ commits < MaxCommits
    /\ commits' = commits + 1
    /\ editor' = [editor EXCEPT ![e].pc = "finishing", ![e].sha = commits + 1]
    /\ UNCHANGED <<row, revisions, creator, clock>>

\* The commit raised.  `landed`: GitLab took it but the answer was lost.
CommitScriptFails(e, landed) ==
    /\ editor[e].pc = "committing"
    /\ landed \in 0..1
    /\ commits + landed <= MaxCommits
    /\ commits' = commits + landed
    /\ editor' = [editor EXCEPT ![e].pc = "releasing"]
    /\ UNCHANGED <<row, revisions, creator, clock>>

\* A slip: any build in progress passes for this edit's own.
HoldsAnyClaim(e) == row.build = "building"

\* The row still carries exactly this edit's claim.
HoldsClaim(e) ==
    /\ row.build = "building"
    /\ row.deadline = editor[e].deadline

ReleaseBuildClaim(e) ==
    /\ editor[e].pc = "releasing"
    /\ row' = IF HoldsClaim(e)
              THEN [row EXCEPT !.build = editor[e].build,
                               !.sha = editor[e].prevSha,
                               !.deadline = NoDeadline]
              ELSE row
    /\ editor' = [editor EXCEPT ![e] = IdleEditor]
    /\ UNCHANGED <<revisions, creator, commits, clock>>

\* Transaction 2 of an edit: the definition, the SHA and the edit revision.
FinishEdit(e) ==
    /\ editor[e].pc = "finishing"
    /\ HoldsClaim(e)
    /\ row' = [row EXCEPT !.namespace = editor[e].namespace,
                          !.sha = editor[e].sha]
    /\ revisions' = Append(revisions, Revision("edit", editor[e].sha, NoImage))
    /\ editor' = [editor EXCEPT ![e] = IdleEditor]
    /\ UNCHANGED <<creator, commits, clock>>

EditSuperseded(e) ==
    /\ editor[e].pc = "finishing"
    /\ ~HoldsClaim(e)
    /\ editor' = [editor EXCEPT ![e] = IdleEditor]
    /\ UNCHANGED <<row, revisions, creator, commits, clock>>

\* The request dies (process crash), its release or transaction 2 fails in
\* the database: the claim stays on the row.
EditorDies(e) ==
    /\ editor[e].pc # "idle"
    /\ editor' = [editor EXCEPT ![e] = IdleEditor]
    /\ UNCHANGED <<row, revisions, creator, commits, clock>>

\* E21's stuck-build branch (external): releases a lock whose deadline has
\* passed; it may or may not clear building_sha.
ReleaseStuckBuild(sha) ==
    /\ row.matching # "absent"
    /\ row.build = "building"
    /\ sha \in {row.sha, NoSha}
    /\ row' = [row EXCEPT !.build = "build_failed", !.deadline = NoDeadline,
                          !.sha = sha]
    /\ UNCHANGED <<revisions, authoringVars>>

AuthoringTypeOK ==
    /\ creator \in CreatorStates
    /\ editor \in [Editors -> EditorStates]
    /\ commits \in Nat
    /\ clock \in Nat
==============================================================================
