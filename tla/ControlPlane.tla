---------------------------- MODULE ControlPlane ----------------------------
(***************************************************************************)
(* The control plane of one automation: the POST and PUTs, the CI webhook  *)
(* deliveries, the toggles, DELETE and the cascade runners, all meeting on *)
(* the row, on CAPP and on the registry.                                   *)
(***************************************************************************)
EXTENDS Authoring, CiWebhook, Lifecycle, DeleteCascade

CONSTANTS
    MaxRuns,    \* pipeline runs of one commit, each pushing its own digest
    Redelivery, \* whether two successes of one commit may be open at once
    Resumes,    \* the cascade attempts the reconciler keeps restarting
    Faults      \* the failures of the environment a behaviour may meet

FaultKinds == {"git", "editor", "stuck_build", "capp", "record", "webhook",
               "teardown", "insert"}

ASSUME ControlPlaneAssumption ==
    /\ MaxRuns \in Nat
    /\ Redelivery \in BOOLEAN
    /\ Resumes \subseteq Runners
    /\ Faults \subseteq FaultKinds

vars == <<row, revisions, capp, secrets, authoringVars, webhookVars,
          cascadeVars>>

Init ==
    /\ row = NoRow
    /\ revisions = << >>
    /\ CappInit
    /\ AuthoringInit
    /\ WebhookInit
    /\ CascadeInit

\* Whether CI may send a success for this commit now.
CiMaySend(sha) == Redelivery \/ \A d \in Deliveries : delivery[d].image.sha # sha

AuthoringStep ==
    /\ \/ \E w \in Wallets : CreateCommit(w)
       \/ CreateInsert("created")
       \/ "insert" \in Faults /\ CreateInsert("failed")
       \/ "insert" \in Faults /\ CreateInsertFails
       \/ "stuck_build" \in Faults
          /\ \E sha \in {row.sha, NoSha} : ReleaseStuckBuild(sha)
       \/ \E e \in Editors :
             \/ \E w \in Wallets : ClaimBuild(e, w)
             \/ CommitScript(e)
             \/ "git" \in Faults /\ \E n \in 0..1 : CommitScriptFails(e, n)
             \/ ReleaseBuildClaim(e)
             \/ FinishEdit(e)
             \/ EditSuperseded(e)
             \/ "editor" \in Faults /\ EditorDies(e)
    /\ UNCHANGED <<capp, secrets, webhookVars, cascadeVars>>

\* CI reports on any commit that landed, requested or not.
WebhookStep ==
    /\ \E d \in Deliveries :
          \/ \E sha \in 1..commits, n \in 1..MaxRuns, own \in BOOLEAN :
                /\ CiMaySend(sha)
                /\ AdmitSuccess(d, sha, [sha |-> sha, run |-> n], own)
          \/ \E sha \in 1..commits : AdmitFailure(d, sha)
          \/ Deploy(d)
          \/ "capp" \in Faults /\ DeployFails(d)
          \/ CutOver(d)
          \/ LoseToNewerState(d)
          \/ LoseToDeletion(d)
          \/ "record" \in Faults /\ RecordFails(d)
          \/ TearDownCapp(d)
          \/ TearDownSecret(d)
          \/ "teardown" \in Faults /\ TearDownFails(d)
          \/ RecordFailure(d)
          \/ "webhook" \in Faults /\ DeliveryDies(d)
    /\ UNCHANGED <<authoringVars, cascadeVars>>

LifecycleStep ==
    /\ \/ EnableAutomation
       \/ DisableAutomation
       \/ BeginDelete
    /\ UNCHANGED <<capp, secrets, authoringVars, webhookVars, cascadeVars>>

CascadeStep ==
    /\ \/ \E r \in Runners :
             \/ StartCascade(r)
             \/ ReadSnapshot(r)
             \/ RemoveCapp(r)
             \/ RemoveSecret(r)
             \/ ListImages(r)
             \/ RemoveImage(r)
             \/ RelistImages(r)
             \/ ArchiveScript(r)
             \/ SaveCheckpoint(r)
             \/ StopCascade(r)
       \/ \E sha \in 1..commits, n \in 1..MaxRuns : CiPushes([sha |-> sha, run |-> n])
    /\ UNCHANGED <<authoringVars, webhookVars>>

Next == AuthoringStep \/ WebhookStep \/ LifecycleStep \/ CascadeStep

Spec == Init /\ [][Next]_vars

TypeOK ==
    /\ RowTypeOK
    /\ CappTypeOK
    /\ AuthoringTypeOK
    /\ WebhookTypeOK
    /\ CascadeTypeOK

----------------------------------------------------------------------------
\* No webhook request is in flight.
Quiescent == \A d \in Deliveries : delivery[d].pc = "idle"

\* The stored deployment lives in the wallet the row names.  The wallet check
\* of _claim_build is made once, before the git commit, while a create for the
\* previous wallet may still be inside CAPP; only the claim's fencing and the
\* re-check of the webhook keep the two from both being written.
DeploymentInRowWallet ==
    row.deployed # NoWallet => row.deployed = row.namespace

\* Once deletion is admitted no edit, no build outcome and no claim release
\* writes the row again: only the cascade's checkpoint moves.  Edits, webhooks
\* and releases admitted before the DELETE may all be in flight.
FrozenOnceDeleting ==
    [][row.matching \in DeletionStates =>
          /\ row'.matching \in DeletionStates
          /\ row'.build = row.build /\ row'.sha = row.sha
          /\ row'.deadline = row.deadline /\ row'.digest = row.digest
          /\ row'.deployed = row.deployed /\ row'.namespace = row.namespace
          /\ row'.gen = row.gen]_vars

\* Every cutover installs the image of the newest requested commit: a delayed,
\* duplicated or overridden delivery never rolls active_digest back.
CutoverIsNewestRequest ==
    [][row'.digest # row.digest => LatestRequestIs(row'.digest.sha)]_vars

\* The commit the build lock waits for is the newest requested one, and the
\* row carries a deadline exactly while it is building.
BuildLockSound ==
    /\ row.build = "building" /\ row.sha # NoSha => LatestRequestIs(row.sha)
    /\ row.build = "building" <=> row.deadline # NoDeadline

\* The audit log explains the row: active_digest is what the last
\* build_succeeded says, the matching axis what the last create, toggle or
\* delete says, and nothing follows a delete.
LastOf(actions) ==
    LET S == {i \in DOMAIN revisions : revisions[i].action \in actions}
    IN  IF S = {} THEN Revision("build_failed", NoSha, NoImage)
        ELSE revisions[CHOOSE i \in S : \A j \in S : j <= i]

AuditExplainsRow ==
    /\ row.digest = LastOf({"build_succeeded"}).digest
    /\ LET last == LastOf({"create", "enable", "disable", "delete"}).action IN
       row.matching \in
          CASE last = "enable" -> {"active"}
            [] last \in {"create", "disable"} -> {"inactive"}
            [] last = "delete" -> DeletionStates
            [] OTHER -> {"absent"}
    /\ \A i \in DOMAIN revisions :
          revisions[i].action = "delete" => i = Len(revisions)

\* The commits requested so far, and the newest of them.
RequestedShas ==
    {revisions[i].sha : i \in {j \in DOMAIN revisions :
                                revisions[j].action \in RequestingActions}}

NewestRequest ==
    IF row.matching = "absent" THEN NoSha
    ELSE CHOOSE s \in RequestedShas : LatestRequestIs(s)

StageOf(matching) ==
    CASE matching = "absent" -> "none"
      [] matching = "inactive" -> "off"
      [] matching = "active" -> "on"
      [] OTHER -> matching

Promised == INSTANCE AutomationLifecycle WITH
    stage <- StageOf(row.matching), asked <- RequestedShas,
    newest <- NewestRequest, serving <- row.digest,
    wallet <- row.namespace, home <- row.deployed

\* The row and its log, seen through the mapping above, behave as the owner of
\* the automation is promised: every step of the claims, the webhook's three
\* phases, the toggles and the cascade is one of its steps or changes nothing.
KeepsPromise == Promised!LifecycleSpec

\* The warnings that tell an operator CAPP may be ahead of the row.
DriftWarnings == {"capp_failed", "ahead_of_row", "teardown_failed"}

\* When no delivery is in flight and the automation is live, CAPP serving
\* anything but the recorded digest has left a warning in the log.
DriftIsLogged ==
    Quiescent /\ Live /\ CappLive /\ capp.image # row.digest
        => warnings \cap DriftWarnings # {}

\* A deployment that outlives the cascade has left a warning in the log, so
\* the sweep that the CAPP contract asks for can be told about it.  It is the end
\* of what LeftoverIsAnswered says of the whole deletion.
OrphanIsLogged ==
    Quiescent /\ row.matching = "deleted" /\ CappLive
        => warnings \cap DriftWarnings # {}

\* A delivery that has deployed in this wallet and has still to record it or to
\* tear it down.
Responsible(w) ==
    \E d \in Deliveries :
        delivery[d].pc \in {"recording", "tearing_capp"} /\ delivery[d].wallet = w

\* A deployment that the cascade has passed by, or that has lost its Secret to it
\* or to another delivery's teardown, is a late create's: the automation is being
\* deleted and that delivery has still to tear it down, or a warning is out.
LeftoverIsAnswered ==
    CappLive /\ (row.step >= 2 \/ capp.wallet \notin secrets)
        => \/ warnings \cap DriftWarnings # {}
           \/ row.matching \in DeletionStates /\ Responsible(capp.wallet)

\* A runner never exhausts its iteration budget: every iteration it finishes
\* finds the checkpoint further on than the one before, however many runners
\* race on the row.
CascadeMakesProgress ==
    \A r \in Runners : runner[r].outcome # "no_progress" /\ runner[r].iter <= 5

\* The checkpoint moves one step at a time and never back.
CheckpointNeverSkips ==
    [][row'.step \in {row.step, row.step + 1}]_vars

\* A delivery is still busy with what it deployed in this wallet.
BusyIn(w) ==
    \E d \in Deliveries :
        /\ delivery[d].pc \in {"recording", "tearing_capp", "tearing_secret"}
        /\ delivery[d].wallet = w

\* What checkpoint 2 vouches for, with any number of deliveries in flight: the
\* wallet holds neither the Capp nor the run-auth Secret, unless a late create's
\* delivery has still to record it or to tear it down, or a warning is out.
CappReclaimed ==
    row.step >= 2 =>
        \/ capp.wallet # row.namespace /\ row.namespace \notin secrets
        \/ BusyIn(row.namespace)
        \/ warnings \cap DriftWarnings # {}

\* What checkpoints 3 and 4 vouch for: every image pushed before an empty second
\* listing is gone, however pushes, stops and resumes interleave, and the script
\* is archived.
ArtifactsReclaimed ==
    /\ row.step >= 3 => registry \subseteq strays
    /\ row.step >= 4 => archives = 1

\* Every admitted deletion completes, however often its attempts stop.
DeletionCompletes == row.matching = "deleting" ~> row.matching = "deleted"

\* The reconciler resumes a stopped cascade on every tick, and no call that its
\* attempts make fails for ever.  The DELETE's own attempt may stop for good.
CascadeFairness ==
    LET Does(A) == A /\ UNCHANGED <<authoringVars, webhookVars>> IN
    \A r \in Resumes :
        /\ WF_vars(Does(StartCascade(r)))
        /\ SF_vars(Does(ReadSnapshot(r)))
        /\ SF_vars(Does(RemoveCapp(r)))
        /\ SF_vars(Does(RemoveSecret(r)))
        /\ SF_vars(Does(ListImages(r)))
        /\ SF_vars(Does(RemoveImage(r)))
        /\ SF_vars(Does(RelistImages(r)))
        /\ SF_vars(Does(ArchiveScript(r)))
        /\ SF_vars(Does(SaveCheckpoint(r)))

FairSpec == Spec /\ CascadeFairness

----------------------------------------------------------------------------
(* The inductive invariant behind the safety properties above.             *)

\* Until the insert there is nothing to edit, build, toggle or delete.
NothingBeforeCreate ==
    /\ creator.pc \in {"idle", "inserting"} => row.matching = "absent"
    /\ row.matching = "absent" =>
          /\ row = NoRow
          /\ revisions = << >>
          /\ \A e \in Editors : editor[e].pc = "idle"
          /\ \A d \in Deliveries : delivery[d].pc = "idle"

\* A deadline names one claim: no two edits share one, and none that was
\* handed out comes back.
ClaimsFenced ==
    /\ row.deadline <= clock
    /\ \A e \in Editors : editor[e].pc # "idle" =>
          editor[e].deadline \in 1..clock /\ editor[e].build # "building"
    /\ \A e, f \in Editors :
          editor[e].pc # "idle" /\ editor[f].pc # "idle" /\ e # f
             => editor[e].deadline # editor[f].deadline

\* The edit that holds the row may still write the namespace it asked for.
ClaimKeepsWallet ==
    \A e \in Editors :
        editor[e].pc # "idle" /\ HoldsClaim(e)
            => CheckWalletUnchanged(editor[e].namespace)

\* A commit that an edit has still to record is in no revision.
CommitsFresh ==
    /\ \A i \in DOMAIN revisions : revisions[i].sha <= commits
    /\ creator.pc = "inserting" => creator.sha \in 1..commits
    /\ \A e \in Editors : editor[e].pc = "finishing" =>
          /\ editor[e].sha \in 1..commits
          /\ \A i \in DOMAIN revisions : revisions[i].sha # editor[e].sha
    /\ \A e, f \in Editors :
          editor[e].pc = "finishing" /\ editor[f].pc = "finishing" /\ e # f
             => editor[e].sha # editor[f].sha

\* A delivery in flight is about a recorded commit; while that commit is still
\* the newest request, the delivery's wallet is the row's.
DeliveriesRequested ==
    \A d \in Deliveries : delivery[d].pc # "idle" =>
        /\ delivery[d].sha # NoSha
        /\ \E i \in DOMAIN revisions : revisions[i].sha = delivery[d].sha
        /\ delivery[d].pc \in {"deploying", "recording"} =>
              /\ delivery[d].image.sha = delivery[d].sha
              /\ LatestRequestIs(delivery[d].sha)
                    => delivery[d].wallet = row.namespace

DeletingNeverBuilding == row.matching \in DeletionStates => row.build # "building"

\* Where the checkpoint stands in each matching state.
CheckpointMatchesState ==
    /\ row.matching \in {"absent", "inactive", "active"} => row.step = 0
    /\ row.matching = "deleting" => row.step \in 1..4
    /\ row.matching = "deleted" => row.step = 5

\* An iteration that has ended has left the checkpoint beyond its snapshot.
RunnersKeepPace ==
    \A r \in Runners :
        /\ runner[r].outcome # "no_progress"
        /\ runner[r].pc = "idle" => runner[r].iter = 0
        /\ runner[r].pc # "idle" => row.matching \in DeletionStates
        /\ runner[r].pc = "reading" => runner[r].iter <= row.step
        /\ runner[r].pc \notin {"idle", "reading"} =>
              /\ runner[r].iter <= runner[r].step + 1
              /\ runner[r].step <= row.step
              /\ runner[r].step <= 4

BuildInv ==
    /\ NothingBeforeCreate
    /\ ClaimsFenced
    /\ ClaimKeepsWallet
    /\ CommitsFresh
    /\ DeliveriesRequested
    /\ DeletingNeverBuilding
    /\ BuildLockSound
    /\ DeploymentInRowWallet

CascadeInv == CheckpointMatchesState /\ RunnersKeepPace

IInv == TypeOK /\ BuildInv /\ CascadeInv

----------------------------------------------------------------------------
(* What the repository's own documentation says; the runs refute these.    *)

\* "two racing deliveries of one webhook cut over once": one build_succeeded
\* revision per image.
CutsOverOnce ==
    \A i, j \in DOMAIN revisions :
        /\ revisions[i].action = "build_succeeded"
        /\ revisions[j].action = "build_succeeded"
        /\ revisions[i].digest = revisions[j].digest
        => i = j

\* "A create that loses to a deletion is torn down by the webhook itself": the
\* deployments left behind are those whose teardown failed and those stranded
\* in a wallet the row no longer names.
OrphanOnlyAsDocumented ==
    Quiescent /\ row.matching = "deleted" /\ CappLive
        => "teardown_failed" \in warnings \/ capp.wallet # row.namespace

\* "Advance only on an empty inventory: a digest pushed while we deleted (a late
\* build, C2/C3) must not be left behind under a "done" checkpoint".  Refuted by a push
\* between the second listing and the checkpoint.
NothingLeftBehind == row.step >= 3 => registry = {}

\* "never leave a live service without its key mount": once no delivery is in
\* flight, a live deployment has the run-auth Secret that it mounts.  Refuted by
\* a create that lands between the two deletions and is not torn down.
LiveServiceHasSecret == Quiescent /\ CappLive => capp.wallet \in secrets
==============================================================================
