----------------------- MODULE ControlPlaneCapp_proofs -----------------------
(***************************************************************************)
(* Proofs about what CAPP runs, against what the row and the warnings say: *)
(* a deployment that outlives the cascade, or that differs from the digest *)
(* on record, has left a warning; a checkpoint of the cascade vouches for  *)
(* what it removed, late creates and late pushes apart.                    *)
(***************************************************************************)
EXTENDS ControlPlaneRow_proofs

----------------------------------------------------------------------------
(* The strengthenings.                                                     *)

Warned == warnings \cap DriftWarnings # {}

\* Where in the step table a runner may be, and the wallet it acts in.
RunnersPlaced ==
    \A r \in Runners :
        /\ runner[r].pc \in {"capp", "secret"} => runner[r].step = 1
        /\ runner[r].pc \in {"listing", "images", "relisting"} => runner[r].step = 2
        /\ runner[r].pc = "archiving" => runner[r].step = 3
        /\ runner[r].pc \notin {"idle", "reading"} => runner[r].wallet = row.namespace

\* What is served runs somewhere, and a delivery that carries the image already
\* on record acts in the wallet on record.
DuplicatesAtHome ==
    /\ row.digest # NoImage => row.deployed # NoWallet
    /\ \A d \in Deliveries :
          InRollout(d) /\ delivery[d].image = row.digest
             => delivery[d].wallet = row.deployed

\* A runner of step 2 that has deleted the Capp.
PastCapp(r) == runner[r].pc \in {"secret", "saving"} /\ runner[r].step = 1

\* A live deployment is warned about, some delivery answers for it, or it is the
\* one on record and the cascade has still to come to it.
OrphanInv ==
    \/ Warned
    \/ ~CappLive
    \/ Responsible(capp.wallet)
    \/ /\ row.deployed = capp.wallet
       /\ row.step < 2
       /\ \A r \in Runners : ~PastCapp(r)

\* A live deployment whose Secret is gone or about to go is a late create's: only
\* a deletion tears a Secret down while a delivery may still deploy.
Endangered ==
    /\ CappLive
    /\ \/ capp.wallet \notin secrets
       \/ \E d \in Deliveries :
             delivery[d].pc = "tearing_secret" /\ delivery[d].wallet = capp.wallet

MountInv ==
    \/ Warned
    \/ /\ \A d \in Deliveries : delivery[d].pc \in {"tearing_capp", "tearing_secret"}
                                => row.matching \in DeletionStates
       /\ Endangered => row.matching \in DeletionStates /\ Responsible(capp.wallet)

\* With no two successes of one commit open at once: each commit has at most
\* one delivery, and none that was served has another.
OneOpen ==
    \A c, d \in Deliveries :
        InRollout(c) /\ InRollout(d) /\ c # d => delivery[c].sha # delivery[d].sha

ServedOnce ==
    /\ row.digest.sha # NoSha =>
          \E i \in DOMAIN revisions : revisions[i].sha = row.digest.sha
    /\ row.build = "building" /\ row.sha # NoSha => row.digest.sha # row.sha
    /\ \A d \in Deliveries : InRollout(d) => delivery[d].sha # row.digest.sha

\* What CAPP serves is on record, or the delivery that put it there has still
\* to record it; and no delivery that an image has overtaken can still win.
Covered ==
    \E d \in Deliveries :
        delivery[d].pc = "recording" /\ delivery[d].image = capp.image

DriftInv ==
    \/ Warned
    \/ ~CappLive
    \/ Covered
    \/ /\ capp.image = row.digest
       /\ \A d \in Deliveries :
             delivery[d].pc = "recording" => ~LatestRequestIs(delivery[d].sha)

\* A runner of step n + 1 that has done it all and has still to save it.
Saves(n) == \E r \in Runners : runner[r].pc = "saving" /\ runner[r].step = n

\* What the checkpoint vouches for is so as soon as a runner may save it.
ReclaimSound ==
    /\ row.step >= 3 \/ Saves(2) => registry \subseteq strays
    /\ row.step >= 4 \/ Saves(3) => archives = 1

\* A Secret that the cascade has passed by is a late create's: its delivery is
\* still busy with it, or a warning is out.
SecretInv ==
    \/ Warned
    \/ (row.step >= 2 \/ Saves(1)) /\ row.namespace \in secrets => BusyIn(row.namespace)

----------------------------------------------------------------------------
(* Facts about single steps.                                               *)

\* The types that the steps below use.
LEMMA CappTypes ==
    ASSUME IInv
    PROVE  /\ capp \in [wallet : Wallets \cup {NoWallet}, image : Images]
           /\ delivery \in [Deliveries -> DeliveryStates]
           /\ warnings \subseteq WarningKinds
           /\ runner \in [Runners -> RunnerStates]
           /\ row \in Rows /\ row.step \in 0..5 /\ RowTypeOK
           /\ NoWallet \notin Wallets /\ BuildInv
           /\ NothingBeforeCreate /\ DeliveriesRequested /\ CommitsFresh
           /\ DeploymentInRowWallet /\ DeletingNeverBuilding /\ ClaimsFenced
           /\ CheckpointMatchesState /\ RunnersKeepPace
  BY BuildTypes DEF IInv, TypeOK, CappTypeOK, WebhookTypeOK, CascadeTypeOK, CascadeInv,
                    BuildInv, Rows

\* A logged warning stays logged.
LEMMA WarnedStays == [Next]_vars /\ Warned => Warned'
  <1> SUFFICES ASSUME [Next]_vars PROVE warnings \subseteq warnings'
    BY DEF Warned
  <1>1. CASE WebhookStep
    BY <1>1 DEF WebhookStep, AdmitSuccess, AdmitFailure, Deploy, DeployFails, CutOver,
                LoseToNewerState, LoseToDeletion, WarnIfAhead, RecordFails,
                TearDownCapp, TearDownSecret, TearDownFails, RecordFailure,
                DeliveryDies
  <1>2. CASE ~WebhookStep
    BY <1>2 DEF Next, AuthoringStep, LifecycleStep, CascadeStep, webhookVars, vars
  <1> QED
    BY <1>1, <1>2

\* What each warning is worth.
LEMMA WarningCounts ==
    ASSUME NEW k \in DriftWarnings, k \in warnings'
    PROVE  Warned'
  BY DEF Warned

\* One delivery's record changes at a time.
LEMMA OtherDeliveries ==
    ASSUME IInv, NEW d \in Deliveries, NEW x, NEW p,
           \/ Answered(d)
           \/ delivery' = [delivery EXCEPT ![d] = x]
           \/ delivery' = [delivery EXCEPT ![d].pc = p],
           NEW c \in Deliveries, c # d
    PROVE  delivery'[c] = delivery[c]
  BY CappTypes DEF Answered

\* A delivery that moves on keeps its snapshot.
LEMMA PcMovesOn ==
    ASSUME IInv, NEW d \in Deliveries, NEW p,
           delivery' = [delivery EXCEPT ![d].pc = p]
    PROVE  delivery'[d].pc = p /\ SameSnapshot(d)
  BY CappTypes DEF SameSnapshot, DeliveryStates

\* A deletion that has been admitted keeps the row's wallet and the deployment on
\* record.
LEMMA DeletingRowKeepsHome ==
    ASSUME IInv, RowMoves, row.matching \in DeletionStates
    PROVE  row'.namespace = row.namespace /\ row'.deployed = row.deployed
  <1>1. row.build # "building"
    BY CappTypes DEF DeletingNeverBuilding
  <1>2. \A e \in Editors : ~RowEdited(e)
    BY <1>1 DEF RowEdited, HoldsClaim
  <1>3. ~RowInserted
    BY DEF RowInserted, DeletionStates
  <1>4. \A d \in Deliveries : ~RowCutOver(d)
    BY CutoverAdmitted DEF RowCutOver
  <1> QED
    BY <1>2, <1>3, <1>4
       DEF RowMoves, RowKept, RowBuildFailed, RowSwitched, RowReclaimed

\* Runners exist only then.
LEMMA RunnersSeeFrozenRow ==
    ASSUME IInv, RowMoves, NEW r \in Runners, runner[r].pc # "idle"
    PROVE  /\ row.matching \in DeletionStates
           /\ row'.namespace = row.namespace /\ row'.deployed = row.deployed
  BY CappTypes, DeletingRowKeepsHome DEF RunnersKeepPace

\* While the row is not being deleted there is no checkpoint and no runner.
LEMMA NoRunnerBeforeDelete ==
    ASSUME IInv, row.matching \notin DeletionStates
    PROVE  row.step = 0 /\ \A r \in Runners : runner[r].pc = "idle"
  BY CappTypes DEF CheckpointMatchesState, RunnersKeepPace, DeletionStates, Rows,
                   MatchingStates

\* Where one step of a runner takes it.  A runner comes to save step 2 only
\* through the Capp and the Secret, step 3 through the second listing and step 4
\* through the archive.
RunnerMoves(r) ==
    \/ runner'[r].pc \in {"idle", "reading"}
    \/ /\ runner[r].pc = "reading" /\ row.matching = "deleting"
       /\ runner'[r].pc = FirstPc(row.step + 1) /\ runner'[r].step = row.step
       /\ runner'[r].wallet = row.namespace
    \/ /\ runner'[r].step = runner[r].step /\ runner'[r].wallet = runner[r].wallet
       /\ \/ runner'[r].pc = runner[r].pc
          \/ runner[r].pc = "capp" /\ runner'[r].pc = "secret" /\ RemoveCapp(r)
          \/ runner[r].pc = "secret" /\ runner'[r].pc = "saving" /\ RemoveSecret(r)
          \/ runner[r].pc = "listing" /\ runner'[r].pc = "images"
          \/ runner[r].pc = "images" /\ runner'[r].pc = "relisting"
          \/ /\ runner[r].pc = "relisting" /\ runner'[r].pc = "saving"
             /\ registry = {} /\ registry' = {}
          \/ runner[r].pc = "archiving" /\ runner'[r].pc = "saving" /\ archives' = 1

LEMMA RunnerStep ==
    ASSUME IInv, [Next]_vars, NEW r \in Runners
    PROVE  RunnerMoves(r)
  <1>0. /\ runner \in [Runners -> RunnerStates] /\ archives \in 0..1
        /\ row.matching \in DeletionStates => row.matching \in {"deleting", "deleted"}
    BY CappTypes DEF IInv, TypeOK, CascadeTypeOK, DeletionStates
  <1>1. CASE runner' = runner
    BY <1>1 DEF RunnerMoves
  <1>2. ASSUME NEW q \in Runners,
               \/ StartCascade(q) \/ ReadSnapshot(q) \/ RemoveCapp(q) \/ RemoveSecret(q)
               \/ ListImages(q) \/ RemoveImage(q) \/ RelistImages(q)
               \/ ArchiveScript(q) \/ SaveCheckpoint(q) \/ StopCascade(q)
        PROVE  RunnerMoves(r)
    <2>1. CASE q # r
      <3>1. runner'[r] = runner[r]
        BY <1>0, <1>2, <2>1
           DEF StartCascade, ReadSnapshot, Ends, GoesTo, RemoveCapp, RemoveSecret,
               ListImages, RemoveImage, RelistImages, ArchiveScript, SaveCheckpoint,
               StopCascade
      <3> QED
        BY <3>1 DEF RunnerMoves
    <2>2. CASE q = r
      <3>1. CASE StartCascade(r) \/ SaveCheckpoint(r) \/ StopCascade(r)
        BY <1>0, <3>1 DEF StartCascade, SaveCheckpoint, StopCascade, Ends, GoesTo,
                          IdleRunner, RunnerMoves, RunnerStates
      <3>2. CASE ReadSnapshot(r)
        <4>1. CASE \E o : Ends(r, o)
          BY <1>0, <4>1 DEF Ends, IdleRunner, RunnerMoves
        <4>2. CASE /\ row.matching = "deleting"
                   /\ runner' = [runner EXCEPT ![r] =
                        [pc |-> FirstPc(row.step + 1), step |-> row.step,
                         wallet |-> row.namespace, iter |-> runner[r].iter + 1,
                         entries |-> {}, outcome |-> "none"]]
          BY <1>0, <3>2, <4>2 DEF ReadSnapshot, RunnerMoves
        <4> QED
          BY <1>0, <3>2, <4>1, <4>2 DEF ReadSnapshot, DeletionStates
      <3>3. CASE RemoveCapp(r) \/ RemoveSecret(r)
        BY <1>0, <3>3 DEF RemoveCapp, RemoveSecret, GoesTo, RunnerMoves, RunnerStates
      <3>4. CASE ListImages(r) \/ RemoveImage(r) \/ RelistImages(r)
        BY <1>0, <3>4 DEF ListImages, RemoveImage, RelistImages, GoesTo, Ends,
                          IdleRunner, RunnerMoves, RunnerStates
      <3>5. CASE ArchiveScript(r)
        BY <1>0, <3>5 DEF ArchiveScript, GoesTo, RunnerMoves, RunnerStates
      <3> QED
        BY <1>2, <2>2, <3>1, <3>2, <3>3, <3>4, <3>5
    <2> QED
      BY <2>1, <2>2
  <1>3. CASE CascadeStep
    BY <1>1, <1>2, <1>3 DEF CascadeStep, CiPushes
  <1>4. CASE ~CascadeStep
    BY <1>1, <1>4 DEF Next, AuthoringStep, LifecycleStep, WebhookStep, cascadeVars, vars
  <1> QED
    BY <1>3, <1>4

\* Runners stay where the step table puts them, in the row's wallet.
LEMMA PlacedStep == IInv /\ RunnersPlaced /\ [Next]_vars => RunnersPlaced'
  <1> SUFFICES ASSUME IInv, RunnersPlaced, [Next]_vars, NEW r \in Runners
               PROVE  /\ runner'[r].pc \in {"capp", "secret"} => runner'[r].step = 1
                      /\ runner'[r].pc \in {"listing", "images", "relisting"}
                            => runner'[r].step = 2
                      /\ runner'[r].pc = "archiving" => runner'[r].step = 3
                      /\ runner'[r].pc \notin {"idle", "reading"}
                            => runner'[r].wallet = row'.namespace
    BY DEF RunnersPlaced
  <1>1. runner[r].pc # "idle" => row'.namespace = row.namespace
    BY StepMovesRow, RunnersSeeFrozenRow
  <1>2. row.step \in 0..5
    BY CappTypes
  <1>3. RunnerMoves(r)
    BY RunnerStep
  <1>4. CASE runner'[r].pc \in {"idle", "reading"}
    BY <1>4
  <1>5. CASE /\ runner[r].pc = "reading"
             /\ runner'[r].pc = FirstPc(row.step + 1) /\ runner'[r].step = row.step
             /\ runner'[r].wallet = row.namespace
    BY <1>1, <1>2, <1>5 DEF FirstPc
  <1>6. CASE /\ runner'[r].pc \notin {"idle", "reading"}
             /\ runner'[r].step = runner[r].step /\ runner'[r].wallet = runner[r].wallet
             /\ \/ runner'[r].pc = runner[r].pc
                \/ runner[r].pc = "capp" /\ runner'[r].pc = "secret"
                \/ runner[r].pc = "secret" /\ runner'[r].pc = "saving"
                \/ runner[r].pc = "listing" /\ runner'[r].pc = "images"
                \/ runner[r].pc = "images" /\ runner'[r].pc = "relisting"
                \/ runner[r].pc = "relisting" /\ runner'[r].pc = "saving"
                \/ runner[r].pc = "archiving" /\ runner'[r].pc = "saving"
    BY <1>1, <1>6 DEF RunnersPlaced
  <1> QED
    BY <1>3, <1>4, <1>5, <1>6 DEF RunnerMoves

\* A cutover records the row's own wallet.
LEMMA CutoverAtHome ==
    ASSUME IInv, PromiseInv, NEW d \in Deliveries, RowCutOver(d)
    PROVE  /\ row'.deployed = row.namespace /\ row.namespace # NoWallet
           /\ LatestRequestIs(delivery[d].sha) /\ delivery[d].wallet = row.namespace
           /\ delivery[d].image.sha = delivery[d].sha
           /\ row.matching \notin DeletionStates /\ row.matching # "absent"
  <1>1. /\ LatestRequestIs(delivery[d].sha) /\ delivery[d].wallet = row.namespace
        /\ delivery[d].image.sha = delivery[d].sha
        /\ row.matching \notin DeletionStates
    BY CutoverAdmitted DEF RowCutOver
  <1>2. row.matching # "absent"
    BY CappTypes DEF RowCutOver, NothingBeforeCreate
  <1>3. row.namespace # NoWallet
    BY <1>2, CappTypes DEF PromiseInv, WalletsNamed
  <1>4. row'.deployed = row.namespace
    BY <1>1, CappTypes DEF RowCutOver, PromiseInv, RolloutsHaveHome,
                           DeploymentInRowWallet
  <1> QED
    BY <1>1, <1>2, <1>3, <1>4

\* Only a cutover changes what is on record as served.
LEMMA ServedKept ==
    ASSUME IInv, RowMoves, \A d \in Deliveries : ~RowCutOver(d)
    PROVE  row'.digest = row.digest /\ row'.deployed = row.deployed
  BY DEF RowMoves, RowKept, RowInserted, RowEdited, RowBuildFailed, RowSwitched,
         RowReclaimed

\* A checkpoint touches neither the build nor what is served.
LEMMA CheckpointKeepsBuild ==
    ASSUME IInv, CascadeStep
    PROVE  /\ row'.build = row.build /\ row'.sha = row.sha
           /\ row'.deadline = row.deadline
           /\ row'.digest = row.digest /\ row'.deployed = row.deployed
  <1>1. ASSUME NEW r \in Runners, SaveCheckpoint(r)
        PROVE  /\ row'.build = row.build /\ row'.sha = row.sha
               /\ row'.deadline = row.deadline
               /\ row'.digest = row.digest /\ row'.deployed = row.deployed
    BY <1>1, CappTypes DEF SaveCheckpoint, Rows
  <1> QED
    BY <1>1, CascadeMovesCheckpoint

\* Nor does any step but a delivery's change it.
LEMMA OthersKeepServed ==
    ASSUME IInv, AuthoringStep \/ LifecycleStep \/ CascadeStep
    PROVE  row'.digest = row.digest /\ row'.deployed = row.deployed
  <1>0. row \in Rows /\ NothingBeforeCreate
    BY CappTypes
  <1>1. ASSUME NEW a, CreateInsert(a)
        PROVE  row'.digest = row.digest /\ row'.deployed = row.deployed
    BY <1>0, <1>1 DEF CreateInsert, NoRow, NothingBeforeCreate
  <1>2. CASE AuthoringStep
    BY <1>0, <1>1, <1>2
       DEF AuthoringStep, CreateCommit, CreateInsertFails, ReleaseStuckBuild,
           ClaimBuild, CommitScript, CommitScriptFails, ReleaseBuildClaim, FinishEdit,
           EditSuperseded, EditorDies, Rows
  <1>3. CASE LifecycleStep
    BY <1>0, <1>3 DEF LifecycleStep, EnableAutomation, DisableAutomation, Toggle,
                      BeginDelete, Rows
  <1>4. CASE CascadeStep
    BY <1>4, CheckpointKeepsBuild
  <1> QED
    BY <1>2, <1>3, <1>4

\* Deliveries of what is already served act where it is served.
LEMMA DuplicatesStep ==
    IInv /\ PromiseInv /\ DuplicatesAtHome /\ [Next]_vars => DuplicatesAtHome'
  <1> SUFFICES ASSUME IInv, PromiseInv, DuplicatesAtHome, [Next]_vars
               PROVE  DuplicatesAtHome'
    OBVIOUS
  <1>0. RowMoves /\ DeliveriesRequested /\ DeploymentInRowWallet
    BY StepMovesRow, CappTypes
  <1>1. row'.digest # NoImage => row'.deployed # NoWallet
    BY <1>0, CutoverAtHome, ServedKept DEF DuplicatesAtHome
  <1>2. ASSUME NEW d \in Deliveries, InRollout(d)', delivery'[d].image = row'.digest
        PROVE  delivery'[d].wallet = row'.deployed
    <2>1. CASE InRollout(d) /\ SameSnapshot(d)
      <3>1. ASSUME NEW c \in Deliveries, RowCutOver(c)
            PROVE  delivery'[d].wallet = row'.deployed
        <4>1. delivery[d].image.sha = delivery[d].sha
              /\ (LatestRequestIs(delivery[d].sha) => delivery[d].wallet = row.namespace)
          BY <1>0, <2>1 DEF InRollout, DeliveriesRequested
        <4>2. delivery[d].image = delivery[c].image
          BY <1>2, <2>1, <3>1 DEF RowCutOver, SameSnapshot
        <4> QED
          BY <2>1, <3>1, <4>1, <4>2, CutoverAtHome DEF SameSnapshot
      <3>2. CASE \A c \in Deliveries : ~RowCutOver(c)
        BY <1>0, <1>2, <2>1, <3>2, ServedKept DEF DuplicatesAtHome, SameSnapshot
      <3> QED
        BY <3>1, <3>2
    <2>2. CASE Admitted(d)
      <3>1. /\ row' = row /\ delivery'[d].wallet = row.namespace
            /\ delivery'[d].image.sha \in 1..commits
        BY <2>2 DEF Admitted
      <3>2. row.digest # NoImage
        BY <1>2, <3>1, BuildTypes DEF NoImage
      <3> QED
        BY <1>0, <3>1, <3>2 DEF DuplicatesAtHome, DeploymentInRowWallet
    <2> QED
      BY <1>2, <2>1, <2>2, RolloutOrigin
  <1> QED
    BY <1>1, <1>2 DEF DuplicatesAtHome

----------------------------------------------------------------------------
(* A deployment that outlives the cascade has left a warning.              *)

\* Each phase of a delivery, when the process does not die in the middle of one.
LEMMA OrphanWebhook ==
    ASSUME "webhook" \notin Faults, IInv, PromiseInv, DuplicatesAtHome, OrphanInv,
           WebhookStep, ~Warned'
    PROVE  OrphanInv'
  <1> DEFINE OnRecord == /\ row.deployed = capp.wallet /\ row.step < 2
                         /\ \A r \in Runners : ~PastCapp(r)
  <1>0. /\ capp \in [wallet : Wallets \cup {NoWallet}, image : Images]
        /\ delivery \in [Deliveries -> DeliveryStates]
        /\ DeploymentInRowWallet /\ ~Warned
        /\ runner' = runner /\ row'.step = row.step /\ RowMoves
    BY CappTypes, WarnedStays, WebhookKeepsCheckpoint, StepMovesRow DEF Next
  <1>1. \A r \in Runners : PastCapp(r)' <=> PastCapp(r)
    BY <1>0 DEF PastCapp
  <1>2. CappLive => Responsible(capp.wallet) \/ OnRecord
    BY <1>0 DEF OrphanInv
  <1>3. ASSUME capp'.wallet = capp.wallet, row'.deployed = row.deployed,
               NEW d \in Deliveries,
               \A c \in Deliveries : c # d => delivery'[c] = delivery[c],
               \/ delivery[d].pc \notin {"recording", "tearing_capp"}
               \/ delivery[d].wallet # capp.wallet
        PROVE  OrphanInv'
    <2>1. Responsible(capp.wallet) => Responsible(capp.wallet)'
      BY <1>3 DEF Responsible
    <2> QED
      BY <1>0, <1>1, <1>2, <1>3, <2>1 DEF OrphanInv, CappLive
  <1>4. ASSUME NEW d \in Deliveries,
               \/ \E s \in 1..commits, n \in 1..MaxRuns, own \in BOOLEAN :
                     AdmitSuccess(d, s, [sha |-> s, run |-> n], own)
               \/ \E s \in 1..commits : AdmitFailure(d, s)
        PROVE  OrphanInv'
    <2>1. /\ capp' = capp /\ row' = row /\ delivery[d].pc = "idle"
          /\ \E x : delivery' = [delivery EXCEPT ![d] = x]
      BY <1>4 DEF AdmitSuccess, AdmitFailure
    <2>2. \A c \in Deliveries : c # d => delivery'[c] = delivery[c]
      BY <1>0, <2>1
    <2> QED
      BY <1>3, <2>1, <2>2
  <1>5. ASSUME NEW d \in Deliveries, Deploy(d) PROVE OrphanInv'
    <2>0. /\ delivery[d].pc = "deploying" /\ row' = row
          /\ delivery' = [delivery EXCEPT ![d].pc = "recording"]
          /\ \A c \in Deliveries : c # d => delivery'[c] = delivery[c]
          /\ delivery'[d].pc = "recording" /\ delivery'[d].wallet = delivery[d].wallet
      BY <1>0, <1>5, PcMovesOn DEF Deploy, SameSnapshot
    <2>1. CASE delivery[d].operation = "create"
      <3>1. capp'.wallet = delivery[d].wallet
        BY <1>5, <2>1 DEF Deploy, CreateDeployment
      <3>2. Responsible(capp.wallet)'
        BY <2>0, <3>1 DEF Responsible
      <3> QED
        BY <3>2 DEF OrphanInv
    <2>2. CASE delivery[d].operation # "create"
      <3>1. capp'.wallet = capp.wallet
        BY <1>0, <1>5, <2>2 DEF Deploy, Rollout
      <3> QED
        BY <1>3, <2>0, <3>1
    <2> QED
      BY <2>1, <2>2
  <1>6. ASSUME NEW d \in Deliveries, CutOver(d) PROVE OrphanInv'
    <2>1. RowCutOver(d)
      BY <1>6, CutOverMovesRow
    <2>2. /\ row'.deployed = row.namespace /\ row.namespace # NoWallet
          /\ delivery[d].wallet = row.namespace /\ row.matching \notin DeletionStates
      BY <2>1, CutoverAtHome
    <2>3. row.step = 0 /\ \A r \in Runners : ~PastCapp(r)
      BY <2>2, NoRunnerBeforeDelete DEF PastCapp
    <2>4. capp' = capp /\ \A c \in Deliveries : c # d => delivery'[c] = delivery[c]
      BY <1>0, <1>6 DEF CutOver, Answered
    <2>5. CASE CappLive /\ capp.wallet = row.namespace
      BY <1>0, <1>1, <2>2, <2>3, <2>4, <2>5 DEF OrphanInv
    <2>6. CASE CappLive /\ capp.wallet # row.namespace
      <3>1. Responsible(capp.wallet)
        BY <1>0, <1>2, <2>6 DEF DeploymentInRowWallet, CappLive
      <3>2. Responsible(capp.wallet)'
        BY <2>2, <2>4, <2>6, <3>1 DEF Responsible
      <3> QED
        BY <3>2 DEF OrphanInv
    <2> QED
      BY <2>4, <2>5, <2>6 DEF OrphanInv, CappLive
  <1>7. ASSUME NEW d \in Deliveries, LoseToNewerState(d) PROVE OrphanInv'
    <2>0. /\ delivery[d].pc = "recording" /\ capp' = capp /\ row' = row
          /\ \A c \in Deliveries : c # d => delivery'[c] = delivery[c]
      BY <1>0, <1>7 DEF LoseToNewerState, Answered
    <2>1. row.digest = delivery[d].image
      BY <1>7, WarningCounts DEF LoseToNewerState, WarnIfAhead, DriftWarnings
    <2>2. delivery[d].wallet = row.deployed
      BY <2>0, <2>1 DEF DuplicatesAtHome, InRollout
    <2>3. row.matching \notin DeletionStates
      BY <1>7 DEF LoseToNewerState, Admission
    <2>4. row.step = 0 /\ \A r \in Runners : ~PastCapp(r)
      BY <2>3, NoRunnerBeforeDelete DEF PastCapp
    <2>5. CASE capp.wallet = row.deployed
      BY <1>1, <2>0, <2>4, <2>5 DEF OrphanInv
    <2>6. CASE capp.wallet # row.deployed
      BY <1>3, <2>0, <2>2, <2>6
    <2> QED
      BY <2>5, <2>6
  <1>8. ASSUME NEW d \in Deliveries, LoseToDeletion(d) PROVE OrphanInv'
    <2>1. /\ capp' = capp /\ row' = row /\ delivery[d].pc = "recording"
          /\ \A c \in Deliveries : c # d => delivery'[c] = delivery[c]
          /\ delivery'[d].pc = "tearing_capp"
          /\ delivery'[d].wallet = delivery[d].wallet
      BY <1>0, <1>8, PcMovesOn DEF LoseToDeletion, SameSnapshot
    <2>2. Responsible(capp.wallet) => Responsible(capp.wallet)'
      BY <2>1 DEF Responsible
    <2> QED
      BY <1>1, <1>2, <2>1, <2>2 DEF OrphanInv, CappLive
  <1>9. ASSUME NEW d \in Deliveries, TearDownCapp(d) PROVE OrphanInv'
    <2>1. /\ row' = row /\ \A c \in Deliveries : c # d => delivery'[c] = delivery[c]
          /\ capp' = IF capp.wallet = delivery[d].wallet THEN NoCapp ELSE capp
      BY <1>0, <1>9 DEF TearDownCapp, DeleteCapp
    <2>2. CASE capp.wallet = delivery[d].wallet
      BY <2>1, <2>2 DEF OrphanInv, CappLive, NoCapp
    <2>3. CASE capp.wallet # delivery[d].wallet
      BY <1>3, <2>1, <2>3
    <2> QED
      BY <2>2, <2>3
  <1>10. ASSUME NEW d \in Deliveries, TearDownSecret(d) \/ RecordFailure(d)
         PROVE  OrphanInv'
    <2>1. /\ capp' = capp /\ delivery[d].pc \in {"tearing_secret", "failing"}
          /\ \A c \in Deliveries : c # d => delivery'[c] = delivery[c]
      BY <1>0, <1>10 DEF TearDownSecret, RecordFailure, DeleteSecret, Answered
    <2>2. row'.deployed = row.deployed
      BY <1>10, CappTypes DEF TearDownSecret, RecordFailure, Unlocked, Rows
    <2> QED
      BY <1>3, <2>1, <2>2
  <1>11. ASSUME NEW d \in Deliveries,
                DeployFails(d) \/ RecordFails(d) \/ TearDownFails(d)
         PROVE  FALSE
    BY <1>11, WarningCounts DEF DeployFails, RecordFails, TearDownFails, DriftWarnings
  <1> QED
    BY <1>4, <1>5, <1>6, <1>7, <1>8, <1>9, <1>10, <1>11 DEF WebhookStep

\* The cascade answers for the deployment on record until it has removed it.
LEMMA OrphanCascade ==
    ASSUME IInv, PromiseInv, RunnersPlaced, OrphanInv, CascadeStep, ~Warned'
    PROVE  OrphanInv'
  <1>0. /\ capp \in [wallet : Wallets \cup {NoWallet}, image : Images]
        /\ DeploymentInRowWallet /\ ~Warned /\ row \in Rows /\ row.step \in 0..5
        /\ runner \in [Runners -> RunnerStates]
        /\ delivery' = delivery /\ [Next]_vars
    BY CappTypes, WarnedStays DEF Next, CascadeStep, webhookVars
  <1>1. Responsible(capp.wallet) /\ capp' = capp => OrphanInv'
    BY <1>0 DEF OrphanInv, Responsible
  <1>2. ASSUME NEW r \in Runners, RemoveCapp(r) PROVE OrphanInv'
    <2>1. /\ capp' = (IF capp.wallet = row.namespace THEN NoCapp ELSE capp)
          /\ row' = row
      BY <1>2 DEF RemoveCapp, DeleteCapp, RunnersPlaced
    <2>2. CASE capp.wallet = row.namespace
      BY <2>1, <2>2 DEF OrphanInv, CappLive, NoCapp
    <2>3. CASE capp.wallet # row.namespace
      BY <1>0, <1>1, <2>1, <2>3 DEF OrphanInv, CappLive, DeploymentInRowWallet
    <2> QED
      BY <2>2, <2>3
  <1>3. CASE capp' = capp /\ \A r \in Runners : ~RemoveCapp(r)
    <2>1. CASE ~CappLive
      BY <1>3, <2>1 DEF OrphanInv, CappLive
    <2>2. CASE /\ row.deployed = capp.wallet /\ row.step < 2 /\ CappLive
               /\ \A r \in Runners : ~PastCapp(r)
      <3>1. \A r \in Runners : ~PastCapp(r)'
        <4> SUFFICES ASSUME NEW r \in Runners, PastCapp(r)' PROVE FALSE
          OBVIOUS
        <4>1. RunnerMoves(r)
          BY <1>0, RunnerStep
        <4> QED
          BY <1>0, <1>3, <2>2, <4>1
             DEF RunnerMoves, PastCapp, RunnersPlaced, FirstPc
      <3>2. row'.deployed = row.deployed
        BY OthersKeepServed
      <3>3. row'.step < 2
        <4>1. ASSUME NEW r \in Runners, SaveCheckpoint(r), row.matching = "deleting",
                     row'.step = row.step + 1
              PROVE  row'.step < 2
          <5>1. row.step = runner[r].step /\ runner[r].pc = "saving" /\ row.step \in 1..4
            BY <1>0, <4>1, CappTypes DEF SaveCheckpoint, CheckpointMatches,
                                         CheckpointMatchesState
          <5> QED
            BY <2>2, <5>1 DEF PastCapp
        <4> QED
          BY <2>2, <4>1, CascadeMovesCheckpoint
      <3> QED
        BY <1>3, <2>2, <3>1, <3>2, <3>3 DEF OrphanInv
    <2> QED
      BY <1>0, <1>1, <1>3, <2>1, <2>2 DEF OrphanInv
  <1>4. (\A r \in Runners : ~RemoveCapp(r)) => capp' = capp
    BY DEF CascadeStep, StartCascade, ReadSnapshot, RemoveSecret, DeleteSecret,
           ListImages, RemoveImage, RelistImages, ArchiveScript, SaveCheckpoint,
           StopCascade, CiPushes
  <1> QED
    BY <1>2, <1>3, <1>4

\* Every step, a process's death in mid-delivery apart, keeps the invariant.
LEMMA OrphanStep ==
    ASSUME "webhook" \notin Faults
    PROVE  IInv /\ PromiseInv /\ RunnersPlaced /\ DuplicatesAtHome /\ OrphanInv
           /\ [Next]_vars => OrphanInv'
  <1> SUFFICES ASSUME IInv, PromiseInv, RunnersPlaced, DuplicatesAtHome, OrphanInv,
                      [Next]_vars, ~Warned'
               PROVE  OrphanInv'
    BY DEF OrphanInv
  <1>0. ~Warned /\ RowMoves /\ CheckpointMatchesState
    BY WarnedStays, StepMovesRow, CappTypes
  <1>1. CASE AuthoringStep \/ LifecycleStep
    <2>1. /\ capp' = capp /\ delivery' = delivery
      BY <1>1 DEF AuthoringStep, LifecycleStep, webhookVars
    <2>2. runner' = runner /\ (row.step < 2 => row'.step < 2)
      BY <1>1, <1>0, AuthoringKeepsCheckpoint, LifecycleKeepsCheckpoint
    <2>3. row'.deployed = row.deployed
      BY <1>1, OthersKeepServed
    <2> QED
      BY <1>0, <2>1, <2>2, <2>3 DEF OrphanInv, CappLive, Responsible, PastCapp
  <1>2. CASE UNCHANGED vars
    BY <1>0, <1>2 DEF vars, webhookVars, cascadeVars, OrphanInv, CappLive,
                      Responsible, PastCapp
  <1> QED
    BY <1>1, <1>2, OrphanWebhook, OrphanCascade DEF Next

\* So it holds for ever.
LEMMA OrphanInductive ==
    ASSUME "webhook" \notin Faults
    PROVE  Spec => [](IInv /\ PromiseInv /\ RunnersPlaced /\ OrphanInv)
  <1>1. Init => PromiseInv /\ RunnersPlaced /\ DuplicatesAtHome /\ OrphanInv
    BY PromiseInit DEF Init, CappInit, CascadeInit, WebhookInit, IdleRunner, NoCapp,
           IdleDelivery, NoRow, RunnersPlaced, DuplicatesAtHome, InRollout, OrphanInv,
           CappLive
  <1> QED
    BY <1>1, Inductive, PromiseStep, PlacedStep, DuplicatesStep, OrphanStep, PTL
       DEF Spec

\* A deployment that outlives its automation has left a warning in the log, as
\* long as no process dies in the middle of a delivery.
THEOREM OrphansAreLogged ==
    ASSUME "webhook" \notin Faults PROVE Spec => []OrphanIsLogged
  <1>2. IInv /\ OrphanInv => OrphanIsLogged
    <2> SUFFICES ASSUME IInv, OrphanInv, Quiescent, row.matching = "deleted", CappLive
                 PROVE  Warned
      BY DEF OrphanIsLogged, Warned
    <2> QED
      BY CappTypes DEF OrphanInv, Quiescent, Responsible, CheckpointMatchesState
  <1> QED
    BY <1>2, OrphanInductive, PTL

----------------------------------------------------------------------------
(* What the cascade leaves behind, or without its Secret, is a late        *)
(* create's: for any number of racing deliveries, edits and runners.       *)

\* A deletion that has been admitted stays.
LEMMA DeletionStays ==
    ASSUME IInv, [Next]_vars, row.matching \in DeletionStates
    PROVE  row'.matching \in DeletionStates
  <1>1. RowMoves
    BY StepMovesRow
  <1>2. ASSUME row'.matching # row.matching
        PROVE  RowReclaimed \/ \E s \in Switches : RowSwitched(s[1], s[2])
    BY <1>1, <1>2
       DEF RowMoves, RowKept, RowInserted, RowEdited, RowCutOver, RowBuildFailed,
           DeletionStates
  <1>3. \A s \in Switches : ~RowSwitched(s[1], s[2])
    BY DEF RowSwitched, Live, DeletionStates
  <1> QED
    BY <1>2, <1>3 DEF RowReclaimed, DeletionStates

\* Each phase of a delivery.
LEMMA MountWebhook ==
    ASSUME "webhook" \notin Faults, IInv, PromiseInv, OrphanInv, MountInv, WebhookStep,
           ~Warned'
    PROVE  MountInv'
  <1>0. /\ capp \in [wallet : Wallets \cup {NoWallet}, image : Images]
        /\ delivery \in [Deliveries -> DeliveryStates] /\ ~Warned
        /\ row.matching \in DeletionStates => row'.matching \in DeletionStates
    BY CappTypes, WarnedStays, DeletionStays DEF Next
  <1>1. /\ \A d \in Deliveries : delivery[d].pc \in {"tearing_capp", "tearing_secret"}
              => row.matching \in DeletionStates
        /\ Endangered => row.matching \in DeletionStates /\ Responsible(capp.wallet)
    BY <1>0 DEF MountInv
  <1>2. ASSUME NEW d \in Deliveries,
               \A c \in Deliveries : c # d => delivery'[c] = delivery[c],
               \/ delivery'[d].pc \notin {"tearing_capp", "tearing_secret"}
               \/ row.matching \in DeletionStates
        PROVE  \A c \in Deliveries : delivery'[c].pc \in {"tearing_capp", "tearing_secret"}
                  => row'.matching \in DeletionStates
    BY <1>0, <1>1, <1>2
  \* The deployment stays where it is and this delivery answers for another one.
  <1>3. ASSUME NEW d \in Deliveries, capp'.wallet = capp.wallet, secrets' = secrets,
               \A c \in Deliveries : c # d => delivery'[c] = delivery[c],
               \/ delivery'[d].pc \notin {"tearing_capp", "tearing_secret"}
               \/ /\ row.matching \in DeletionStates
                  /\ delivery'[d].pc = "tearing_secret" => delivery'[d].wallet # capp.wallet,
               \/ delivery[d].pc \notin {"recording", "tearing_capp"}
               \/ delivery[d].wallet # capp.wallet
               \/ /\ delivery'[d].pc \in {"recording", "tearing_capp"}
                  /\ delivery'[d].wallet = delivery[d].wallet
               \/ row.matching \notin DeletionStates
        PROVE  MountInv'
    <2>1. Endangered' => Endangered
      BY <1>3 DEF Endangered, CappLive
    <2>2. Responsible(capp.wallet) /\ row.matching \in DeletionStates
            => Responsible(capp.wallet)'
      BY <1>3 DEF Responsible
    <2>3. \A c \in Deliveries : delivery'[c].pc \in {"tearing_capp", "tearing_secret"}
            => row'.matching \in DeletionStates
      BY <1>2, <1>3
    <2> QED
      BY <1>0, <1>1, <2>1, <2>2, <2>3 DEF MountInv
  <1>4. ASSUME NEW d \in Deliveries,
               \/ \E s \in 1..commits, n \in 1..MaxRuns, own \in BOOLEAN :
                     AdmitSuccess(d, s, [sha |-> s, run |-> n], own)
               \/ \E s \in 1..commits : AdmitFailure(d, s)
        PROVE  MountInv'
    <2>1. capp' = capp /\ secrets' = secrets /\ delivery[d].pc = "idle"
      BY <1>4 DEF AdmitSuccess, AdmitFailure
    <2>2. /\ \A c \in Deliveries : c # d => delivery'[c] = delivery[c]
          /\ delivery'[d].pc \in {"deploying", "failing"}
      BY <1>0, <1>4 DEF AdmitSuccess, AdmitFailure
    <2> QED
      BY <1>3, <2>1, <2>2
  <1>5. ASSUME NEW d \in Deliveries, Deploy(d) PROVE MountInv'
    <2>0. /\ delivery[d].pc = "deploying" /\ row' = row
          /\ \A c \in Deliveries : c # d => delivery'[c] = delivery[c]
          /\ delivery'[d].pc = "recording" /\ delivery'[d].wallet = delivery[d].wallet
      BY <1>0, <1>5, PcMovesOn DEF Deploy, SameSnapshot
    <2>1. CASE delivery[d].operation = "create"
      <3>1. capp'.wallet = delivery[d].wallet /\ capp'.wallet \in secrets'
        BY <1>5, <2>1 DEF Deploy, CreateDeployment
      <3>2. Responsible(capp.wallet)'
        BY <2>0, <3>1 DEF Responsible
      <3>3. Endangered' => row'.matching \in DeletionStates
        BY <1>1, <2>0, <3>1 DEF Endangered
      <3>4. \A c \in Deliveries : delivery'[c].pc \in {"tearing_capp", "tearing_secret"}
              => row'.matching \in DeletionStates
        BY <1>2, <2>0
      <3> QED
        BY <3>2, <3>3, <3>4 DEF MountInv
    <2>2. CASE delivery[d].operation # "create"
      <3>1. capp'.wallet = capp.wallet /\ secrets' = secrets
        BY <1>0, <1>5, <2>2 DEF Deploy, Rollout
      <3> QED
        BY <1>3, <2>0, <3>1
    <2> QED
      BY <2>1, <2>2
  <1>6. ASSUME NEW d \in Deliveries, CutOver(d) \/ LoseToNewerState(d) PROVE MountInv'
    <2>1. row.matching \notin DeletionStates
      BY <1>6, CutOverMovesRow, CutoverAtHome DEF LoseToNewerState, Admission
    <2>2. /\ capp' = capp /\ secrets' = secrets
          /\ \A c \in Deliveries : c # d => delivery'[c] = delivery[c]
          /\ delivery'[d].pc = "idle"
      BY <1>0, <1>6 DEF CutOver, LoseToNewerState, Answered, IdleDelivery
    <2> QED
      BY <1>3, <2>1, <2>2
  <1>7. ASSUME NEW d \in Deliveries, LoseToDeletion(d) PROVE MountInv'
    <2>1. row.matching \in DeletionStates
      BY <1>7 DEF LoseToDeletion, Admission
    <2>2. /\ capp' = capp /\ secrets' = secrets
          /\ \A c \in Deliveries : c # d => delivery'[c] = delivery[c]
          /\ delivery'[d].pc = "tearing_capp" /\ delivery'[d].wallet = delivery[d].wallet
      BY <1>0, <1>7, PcMovesOn DEF LoseToDeletion, SameSnapshot
    <2> QED
      BY <1>3, <2>1, <2>2
  <1>8. ASSUME NEW d \in Deliveries, TearDownCapp(d) PROVE MountInv'
    <2>0. /\ delivery[d].pc = "tearing_capp" /\ row.matching \in DeletionStates
          /\ delivery'[d].pc = "tearing_secret" /\ delivery'[d].wallet = delivery[d].wallet
          /\ \A c \in Deliveries : c # d => delivery'[c] = delivery[c]
          /\ capp' = IF capp.wallet = delivery[d].wallet THEN NoCapp ELSE capp
          /\ secrets' = secrets
      BY <1>0, <1>1, <1>8, PcMovesOn DEF TearDownCapp, DeleteCapp, SameSnapshot
    <2>1. CASE capp.wallet = delivery[d].wallet
      <3>1. ~Endangered'
        BY <2>0, <2>1 DEF Endangered, CappLive, NoCapp
      <3> QED
        BY <1>2, <2>0, <3>1 DEF MountInv
    <2>2. CASE capp.wallet # delivery[d].wallet
      BY <1>3, <2>0, <2>2
    <2> QED
      BY <2>1, <2>2
  <1>9. ASSUME NEW d \in Deliveries, TearDownSecret(d) PROVE MountInv'
    <2>0. /\ delivery[d].pc = "tearing_secret" /\ row.matching \in DeletionStates
          /\ capp' = capp /\ secrets' = secrets \ {delivery[d].wallet}
          /\ delivery'[d].pc = "idle"
          /\ \A c \in Deliveries : c # d => delivery'[c] = delivery[c]
      BY <1>0, <1>1, <1>9 DEF TearDownSecret, DeleteSecret, Answered, IdleDelivery
    <2>1. Endangered' => Endangered
      BY <2>0 DEF Endangered, CappLive
    <2>2. Responsible(capp.wallet) => Responsible(capp.wallet)'
      BY <2>0 DEF Responsible
    <2>3. \A c \in Deliveries : delivery'[c].pc \in {"tearing_capp", "tearing_secret"}
            => row'.matching \in DeletionStates
      BY <1>2, <2>0
    <2> QED
      BY <1>0, <1>1, <2>1, <2>2, <2>3 DEF MountInv
  <1>10. ASSUME NEW d \in Deliveries, RecordFailure(d) PROVE MountInv'
    <2>1. /\ capp' = capp /\ secrets' = secrets /\ delivery[d].pc = "failing"
          /\ delivery'[d].pc = "idle"
          /\ \A c \in Deliveries : c # d => delivery'[c] = delivery[c]
      BY <1>0, <1>10 DEF RecordFailure, Answered, IdleDelivery
    <2> QED
      BY <1>3, <2>1
  <1>11. ASSUME NEW d \in Deliveries,
                DeployFails(d) \/ RecordFails(d) \/ TearDownFails(d)
         PROVE  FALSE
    BY <1>11, WarningCounts DEF DeployFails, RecordFails, TearDownFails, DriftWarnings
  <1> QED
    BY <1>4, <1>5, <1>6, <1>7, <1>8, <1>9, <1>10, <1>11 DEF WebhookStep

\* The cascade removes a Secret only after the Capp: what is live in that wallet
\* then was deployed meanwhile.
LEMMA MountCascade ==
    ASSUME IInv, RunnersPlaced, OrphanInv, MountInv, CascadeStep, ~Warned'
    PROVE  MountInv'
  <1>0. /\ capp \in [wallet : Wallets \cup {NoWallet}, image : Images]
        /\ delivery' = delivery /\ ~Warned
        /\ row.matching \in DeletionStates => row'.matching \in DeletionStates
    BY CappTypes, WarnedStays, DeletionStays DEF Next, CascadeStep, webhookVars
  <1>1. /\ \A d \in Deliveries : delivery'[d].pc \in {"tearing_capp", "tearing_secret"}
              => row'.matching \in DeletionStates
        /\ Endangered => row.matching \in DeletionStates /\ Responsible(capp.wallet)
    BY <1>0 DEF MountInv
  <1>2. ASSUME capp' = capp, Endangered' => Endangered
        PROVE  MountInv'
    BY <1>0, <1>1, <1>2 DEF MountInv, Responsible
  <1>3. ASSUME NEW r \in Runners, RemoveCapp(r) PROVE MountInv'
    <2>1. capp' \in {NoCapp, capp} /\ secrets' = secrets
      BY <1>3 DEF RemoveCapp, DeleteCapp
    <2>2. CASE capp' = NoCapp
      BY <1>1, <2>2 DEF MountInv, Endangered, CappLive, NoCapp
    <2>3. CASE capp' = capp
      BY <1>0, <1>2, <2>1, <2>3 DEF Endangered, CappLive
    <2> QED
      BY <2>1, <2>2, <2>3
  <1>4. ASSUME NEW r \in Runners, RemoveSecret(r) PROVE MountInv'
    <2>1. /\ PastCapp(r) /\ runner[r].wallet = row.namespace
          /\ row.matching \in DeletionStates
      BY <1>4, CappTypes DEF RemoveSecret, PastCapp, RunnersPlaced, RunnersKeepPace
    <2>2. capp' = capp /\ secrets' = secrets \ {row.namespace}
      BY <1>4, <2>1 DEF RemoveSecret, DeleteSecret
    <2>3. CappLive => Responsible(capp.wallet)
      BY <1>0, <2>1 DEF OrphanInv
    <2> QED
      BY <1>0, <1>1, <2>1, <2>2, <2>3 DEF MountInv, Responsible, Endangered, CappLive
  <1>5. CASE capp' = capp /\ secrets' = secrets
    BY <1>0, <1>2, <1>5 DEF Endangered, CappLive
  <1> QED
    BY <1>3, <1>4, <1>5
       DEF CascadeStep, StartCascade, ReadSnapshot, ListImages, RemoveImage,
           RelistImages, ArchiveScript, SaveCheckpoint, StopCascade, CiPushes

LEMMA MountStep ==
    ASSUME "webhook" \notin Faults
    PROVE  IInv /\ PromiseInv /\ RunnersPlaced /\ OrphanInv /\ MountInv /\ [Next]_vars
              => MountInv'
  <1> SUFFICES ASSUME IInv, PromiseInv, RunnersPlaced, OrphanInv, MountInv, [Next]_vars,
                      ~Warned'
               PROVE  MountInv'
    BY DEF MountInv
  <1>1. CASE AuthoringStep \/ LifecycleStep \/ UNCHANGED vars
    <2>1. UNCHANGED <<capp, secrets, delivery>>
      BY <1>1 DEF AuthoringStep, LifecycleStep, webhookVars, vars
    <2>2. ~Warned /\ (row.matching \in DeletionStates => row'.matching \in DeletionStates)
      BY WarnedStays, DeletionStays
    <2> QED
      BY <2>1, <2>2 DEF MountInv, Endangered, CappLive, Responsible
  <1> QED
    BY <1>1, MountWebhook, MountCascade DEF Next

\* A deployment that is live behind the checkpoint of step 2, or without its
\* Secret, belongs to a delivery that has still to tear it down, or a warning is
\* out: builds.py's teardown and cascade.py's steps together, for any number of
\* deliveries of any commits in any order, as long as no process dies in the
\* middle of a delivery.
THEOREM LeftoversAnswered ==
    ASSUME "webhook" \notin Faults PROVE Spec => []LeftoverIsAnswered
  <1>1. Init => MountInv
    BY DEF Init, CappInit, WebhookInit, IdleDelivery, NoCapp, MountInv, Endangered, CappLive
  <1>2. IInv /\ OrphanInv /\ MountInv => LeftoverIsAnswered
    <2> SUFFICES ASSUME IInv, OrphanInv, MountInv, ~Warned, CappLive,
                        row.step >= 2 \/ capp.wallet \notin secrets
                 PROVE  row.matching \in DeletionStates /\ Responsible(capp.wallet)
      BY DEF LeftoverIsAnswered, Warned
    <2>1. CASE capp.wallet \notin secrets
      BY <2>1 DEF MountInv, Endangered
    <2>2. CASE row.step >= 2
      <3>1. row.step \in 0..5 /\ CheckpointMatchesState /\ row \in Rows
        BY CappTypes
      <3>2. row.matching \in DeletionStates
        BY <2>2, <3>1 DEF CheckpointMatchesState, Rows, MatchingStates, DeletionStates
      <3> QED
        BY <2>2, <3>1, <3>2 DEF OrphanInv
    <2> QED
      BY <2>1, <2>2
  <1> QED
    BY <1>1, <1>2, OrphanInductive, MountStep, PTL DEF Spec

----------------------------------------------------------------------------
(* A deployment that differs from the digest on record has left a warning. *)

\* Some revision is about this commit.
LogNames(s) == \E i \in DOMAIN revisions : revisions[i].sha = s

\* The log never shrinks.
LEMMA LoggedKeepsNames ==
    ASSUME RowTypeOK, NEW a \in RevisionActions, NEW s \in Nat, NEW g \in Images,
           NEW q, Logged(q, a, s, g), NEW t, LogNames(t) \/ t = s
    PROVE  LogNames(t)'
  <1>0. PICK n \in Nat : n = Len(revisions)
    BY LogAfter
  <1>1. /\ DOMAIN revisions = 1..n /\ DOMAIN revisions' = 1..(n + 1)
        /\ revisions'[n + 1] = Revision(a, s, g)
        /\ \A i \in 1..n : revisions'[i].sha = revisions[i].sha
    BY <1>0, LogAfter
  <1>2. CASE t = s
    <2>1. n + 1 \in 1..(n + 1) /\ revisions'[n + 1].sha = s
      BY <1>0, <1>1 DEF Revision
    <2> QED
      BY <1>1, <1>2, <2>1 DEF LogNames
  <1>3. CASE LogNames(t)
    <2>1. PICK i \in 1..n : revisions[i].sha = t
      BY <1>1, <1>3 DEF LogNames
    <2>2. i \in 1..(n + 1) /\ revisions'[i].sha = t
      BY <1>0, <1>1, <2>1
    <2> QED
      BY <1>1, <2>2 DEF LogNames
  <1> QED
    BY <1>2, <1>3

LEMMA NamesStay ==
    ASSUME IInv, RowMoves, NEW t, LogNames(t)
    PROVE  LogNames(t)'
  <1>0. /\ RowTypeOK /\ row \in Rows /\ NoImage \in Images /\ NoSha \in Nat
        /\ delivery \in [Deliveries -> DeliveryStates]
        /\ editor \in [Editors -> EditorStates] /\ creator \in CreatorStates
        /\ {"create", "edit", "build_succeeded", "build_failed", "enable", "disable",
            "delete"} \subseteq RevisionActions
    BY BuildTypes, NullsTyped DEF NoSha, RevisionActions
  <1>1. CASE RowKept \/ RowReclaimed
    BY <1>1 DEF RowKept, RowReclaimed, LogNames
  <1>2. CASE RowInserted
    <2>1. creator.sha \in Nat
      BY <1>0 DEF CreatorStates
    <2> QED
      BY <1>0, <1>2, <2>1, LoggedKeepsNames DEF RowInserted
  <1>3. ASSUME NEW e \in Editors, RowEdited(e) PROVE LogNames(t)'
    <2>1. editor[e].sha \in Nat
      BY <1>0 DEF EditorStates
    <2> QED
      BY <1>0, <1>3, <2>1, LoggedKeepsNames DEF RowEdited
  <1>4. ASSUME NEW d \in Deliveries, RowCutOver(d) \/ RowBuildFailed(d)
        PROVE  LogNames(t)'
    <2>1. delivery[d].sha \in Nat /\ delivery[d].image \in Images
      BY <1>0 DEF DeliveryStates
    <2> QED
      BY <1>0, <1>4, <2>1, LoggedKeepsNames DEF RowCutOver, RowBuildFailed
  <1>5. ASSUME NEW s \in Switches, RowSwitched(s[1], s[2]) PROVE LogNames(t)'
    <2>1. s[1] \in RevisionActions /\ row.digest \in Images
      BY <1>0 DEF Switches, Rows
    <2> QED
      BY <1>0, <1>5, <2>1, LoggedKeepsNames DEF RowSwitched
  <1> QED
    BY <1>1, <1>2, <1>3, <1>4, <1>5 DEF RowMoves

\* A commit already in the log never becomes the newest request again.
LEMMA OldRequestsAge ==
    ASSUME IInv, PromiseInv, [Next]_vars, NEW t, LogNames(t), LatestRequestIs(t)'
    PROVE  LatestRequestIs(t)
  <1>0. RowMoves /\ RequestOnRecord /\ NothingBeforeCreate /\ CommitsFresh
    BY StepMovesRow, CappTypes DEF PromiseInv
  <1>1. DOMAIN revisions' \subseteq Nat
    <2>1. revisions' \in Seq(Revisions)
      BY InvStep DEF IInv, TypeOK, RowTypeOK
    <2> QED
      BY <2>1, LenProperties
  <1>2. ASSUME NEW s, LatestRequestIs(s)' PROVE s = t
    BY <1>1, <1>2 DEF LatestRequestIs
  <1>3. ~RowInserted
    BY <1>0, BuildTypes DEF RowInserted, NothingBeforeCreate, LogNames
  <1>4. ASSUME NEW e \in Editors, RowEdited(e) PROVE FALSE
    <2>0. PICK s : s = editor[e].sha
      OBVIOUS
    <2>1. LatestRequestIs(s)'
      BY <1>4, <2>0, FreshlyRequested
    <2> QED
      BY <1>0, <1>2, <1>4, <2>0, <2>1 DEF RowEdited, CommitsFresh, LogNames
  <1> QED
    BY <1>0, <1>3, <1>4, NothingRequested

\* Where the commit that the lock waits for comes from: it was waited for before,
\* the row is new, or an edit has just requested it.
LEMMA BuildOrigin ==
    ASSUME IInv, [Next]_vars, row'.build = "building", row'.sha # NoSha
    PROVE  /\ row'.digest = row.digest
           /\ \/ row.build = "building" /\ row.sha = row'.sha
              \/ row.digest = NoImage
              \/ /\ row'.sha \in 1..commits
                 /\ \A i \in DOMAIN revisions : revisions[i].sha # row'.sha
  <1> DEFINE Goal == /\ row'.digest = row.digest
                     /\ \/ row.build = "building" /\ row.sha = row'.sha
                        \/ row.digest = NoImage
                        \/ /\ row'.sha \in 1..commits
                           /\ \A i \in DOMAIN revisions : revisions[i].sha # row'.sha
  <1>0. /\ row \in Rows /\ NothingBeforeCreate /\ CommitsFresh /\ ClaimsFenced
        /\ editor \in [Editors -> EditorStates] /\ NoSha = 0
    BY CappTypes, BuildTypes
  <1>1. CASE row' = row
    BY <1>1
  <1>2. ASSUME NEW a, CreateInsert(a) PROVE Goal
    BY <1>0, <1>2 DEF CreateInsert, NoRow, NothingBeforeCreate
  <1>3. ASSUME NEW e \in Editors, NEW w \in Wallets, ClaimBuild(e, w) PROVE Goal
    BY <1>0, <1>3 DEF ClaimBuild, Rows
  <1>4. ASSUME NEW e \in Editors, ReleaseBuildClaim(e) PROVE Goal
    <2>1. editor[e].build # "building"
      BY <1>0, <1>4 DEF ReleaseBuildClaim, ClaimsFenced
    <2>2. ~HoldsClaim(e)
      BY <1>0, <1>4, <2>1 DEF ReleaseBuildClaim, Rows
    <2> QED
      BY <1>1, <1>4, <2>2 DEF ReleaseBuildClaim
  <1>5. ASSUME NEW e \in Editors, FinishEdit(e) PROVE Goal
    <2>1. row'.digest = row.digest /\ row'.sha = editor[e].sha
      BY <1>0, <1>5 DEF FinishEdit, Rows
    <2> QED
      BY <1>0, <1>5, <2>1 DEF FinishEdit, CommitsFresh
  <1>6. ASSUME NEW s, ReleaseStuckBuild(s) PROVE Goal
    BY <1>0, <1>6 DEF ReleaseStuckBuild, Rows
  <1>7. CASE AuthoringStep
    BY <1>1, <1>2, <1>3, <1>4, <1>5, <1>6, <1>7
       DEF AuthoringStep, CreateCommit, CreateInsertFails, CommitScript,
           CommitScriptFails, EditSuperseded, EditorDies
  <1>8. ASSUME NEW d \in Deliveries, CutOver(d) \/ RecordFailure(d) PROVE Goal
    BY <1>0, <1>1, <1>8 DEF CutOver, RecordFailure, Unlocked, Rows
  <1>9. CASE WebhookStep
    BY <1>1, <1>8, <1>9
       DEF WebhookStep, AdmitSuccess, AdmitFailure, Deploy, DeployFails,
           LoseToNewerState, LoseToDeletion, RecordFails, TearDownCapp,
           TearDownSecret, TearDownFails, DeliveryDies
  <1>10. CASE LifecycleStep
    BY <1>0, <1>10 DEF LifecycleStep, EnableAutomation, DisableAutomation, Toggle,
                       BeginDelete, Rows
  <1>11. CASE CascadeStep
    BY <1>0, <1>11, CheckpointKeepsBuild DEF Rows
  <1> QED
    BY <1>1, <1>7, <1>9, <1>10, <1>11 DEF Next, vars

\* What is on record as served changes by a cutover.
LEMMA DigestMoves ==
    ASSUME IInv, [Next]_vars, row'.digest # row.digest
    PROVE  \E d \in Deliveries : CutOver(d)
  <1>1. ASSUME NEW d \in Deliveries, RecordFailure(d) PROVE row'.digest = row.digest
    BY <1>1, CappTypes DEF RecordFailure, Unlocked, Rows
  <1>2. CASE WebhookStep
    BY <1>1, <1>2
       DEF WebhookStep, AdmitSuccess, AdmitFailure, Deploy, DeployFails,
           LoseToNewerState, LoseToDeletion, RecordFails, TearDownCapp,
           TearDownSecret, TearDownFails, DeliveryDies
  <1>3. CASE UNCHANGED vars
    BY <1>3 DEF vars
  <1> QED
    BY <1>2, <1>3, OthersKeepServed DEF Next

\* CI opens one success per commit.
LEMMA OneOpenStep ==
    ASSUME Redelivery = FALSE
    PROVE  IInv /\ OneOpen /\ [Next]_vars => OneOpen'
  <1> SUFFICES ASSUME IInv, OneOpen, [Next]_vars, NEW c \in Deliveries,
                      NEW d \in Deliveries, InRollout(c)', InRollout(d)', c # d
               PROVE  delivery'[c].sha # delivery'[d].sha
    BY DEF OneOpen
  <1>0. DeliveriesRequested
    BY CappTypes
  <1>1. ASSUME NEW a \in Deliveries, NEW b \in Deliveries, Admitted(a), a # b,
               InRollout(b), SameSnapshot(b)
        PROVE  delivery'[b].sha # delivery'[a].sha
    <2>1. delivery[b].image.sha = delivery[b].sha
      BY <1>0, <1>1 DEF DeliveriesRequested, InRollout
    <2>2. delivery[b].image.sha # delivery'[a].sha
      BY <1>1 DEF Admitted, CiMaySend
    <2> QED
      BY <1>1, <2>1, <2>2 DEF SameSnapshot
  <1>2. ~(Admitted(c) /\ Admitted(d))
    BY DEF Admitted
  <1>3. CASE InRollout(c) /\ InRollout(d) /\ SameSnapshot(c) /\ SameSnapshot(d)
    BY <1>3 DEF OneOpen, SameSnapshot
  <1> QED
    BY <1>1, <1>2, <1>3, RolloutOrigin

\* A commit that is served has no delivery left that could serve it again.
LEMMA ServedOnceStep ==
    IInv /\ OneOpen /\ ServedOnce /\ [Next]_vars => ServedOnce'
  <1> SUFFICES ASSUME IInv, OneOpen, ServedOnce, [Next]_vars PROVE ServedOnce'
    OBVIOUS
  <1>0. RowMoves /\ DeliveriesRequested /\ NoSha = 0 /\ NoImage.sha = NoSha
    BY StepMovesRow, CappTypes, BuildTypes DEF NoImage
  <1>1. ASSUME row'.digest.sha # NoSha
        PROVE  \E i \in DOMAIN revisions' : revisions'[i].sha = row'.digest.sha
    <2>0. PICK t : t = row'.digest.sha
      OBVIOUS
    <2>1. LogNames(t)
      <3>1. ASSUME NEW d \in Deliveries, RowCutOver(d) PROVE LogNames(t)
        <4>1. row'.digest.sha = delivery[d].sha
          BY <3>1, CutoverAdmitted DEF RowCutOver
        <4> QED
          BY <1>0, <2>0, <3>1, <4>1 DEF RowCutOver, DeliveriesRequested, LogNames
      <3>2. CASE \A d \in Deliveries : ~RowCutOver(d)
        <4>1. row'.digest = row.digest
          BY <1>0, <3>2, ServedKept
        <4> QED
          BY <1>1, <2>0, <4>1 DEF ServedOnce, LogNames
      <3> QED
        BY <3>1, <3>2
    <2>2. LogNames(t)'
      BY <1>0, <2>1, NamesStay
    <2> QED
      BY <2>0, <2>2 DEF LogNames
  <1>2. row'.build = "building" /\ row'.sha # NoSha => row'.digest.sha # row'.sha
    BY <1>0, BuildOrigin DEF ServedOnce
  <1>3. ASSUME NEW d \in Deliveries, InRollout(d)'
        PROVE  delivery'[d].sha # row'.digest.sha
    <2>1. CASE Admitted(d)
      <3>1. /\ row' = row /\ delivery'[d].sha \in 1..commits
            /\ row.build = "building" /\ row.sha = delivery'[d].sha
        BY <2>1, AdmissionApplies DEF Admitted
      <3> QED
        BY <1>0, <3>1, BuildTypes DEF ServedOnce
    <2>2. CASE InRollout(d) /\ SameSnapshot(d)
      <3>1. ASSUME NEW c \in Deliveries, CutOver(c)
            PROVE  delivery'[d].sha # row'.digest.sha
        <4>1. row'.digest.sha = delivery[c].sha /\ delivery[c].pc = "recording"
          BY <3>1, CutOverMovesRow, CutoverAdmitted DEF RowCutOver
        <4>2. delivery'[c].pc = "idle"
          BY <3>1, CappTypes DEF CutOver, Answered, IdleDelivery
        <4> QED
          BY <1>3, <2>2, <4>1, <4>2 DEF OneOpen, InRollout, SameSnapshot
      <3>2. CASE row'.digest = row.digest
        BY <2>2, <3>2 DEF ServedOnce, SameSnapshot
      <3> QED
        BY <3>1, <3>2, DigestMoves
    <2> QED
      BY <1>3, <2>1, <2>2, RolloutOrigin
  <1> QED
    BY <1>1, <1>2, <1>3 DEF ServedOnce

\* Each phase of a delivery, when the process does not die in the middle of one.
\* A loser of phase 3 always warns: its image is not the one on record.
LEMMA DriftWebhook ==
    ASSUME "webhook" \notin Faults, IInv, PromiseInv, OneOpen, ServedOnce, DriftInv,
           WebhookStep, ~Warned'
    PROVE  DriftInv'
  <1> DEFINE Overtaken == \A d \in Deliveries :
                 delivery[d].pc = "recording" => ~LatestRequestIs(delivery[d].sha)
  <1>0. /\ capp \in [wallet : Wallets \cup {NoWallet}, image : Images]
        /\ delivery \in [Deliveries -> DeliveryStates]
        /\ ~Warned /\ [Next]_vars /\ DeliveriesRequested /\ RowTypeOK
    BY CappTypes, WarnedStays DEF Next
  <1>1. CappLive => Covered \/ (capp.image = row.digest /\ Overtaken)
    BY <1>0 DEF DriftInv
  <1>2. \A d \in Deliveries : delivery[d].pc # "idle" => LogNames(delivery[d].sha)
    BY <1>0 DEF DeliveriesRequested, LogNames
  <1>3. ASSUME NEW d \in Deliveries, delivery[d].pc = "recording",
               delivery'[d] = delivery[d], LatestRequestIs(delivery[d].sha)'
        PROVE  LatestRequestIs(delivery[d].sha)
    <2>1. PICK t : t = delivery[d].sha
      OBVIOUS
    <2>2. LogNames(t) /\ LatestRequestIs(t)'
      BY <1>2, <1>3, <2>1
    <2> QED
      BY <1>0, <2>1, <2>2, OldRequestsAge
  <1>4. ASSUME capp' = capp \/ ~CappLive', row'.digest = row.digest,
               NEW d \in Deliveries,
               \A c \in Deliveries : c # d => delivery'[c] = delivery[c],
               delivery[d].pc # "recording", delivery'[d].pc # "recording"
        PROVE  DriftInv'
    <2>1. capp' = capp /\ Covered => Covered'
      BY <1>4 DEF Covered
    <2>2. ASSUME Overtaken, NEW c \in Deliveries, delivery'[c].pc = "recording"
          PROVE  ~LatestRequestIs(delivery[c].sha)'
      BY <1>3, <1>4, <2>2
    <2> QED
      BY <1>1, <1>4, <2>1, <2>2 DEF DriftInv, CappLive
  <1>5. ASSUME NEW d \in Deliveries,
               \/ \E s \in 1..commits, n \in 1..MaxRuns, own \in BOOLEAN :
                     AdmitSuccess(d, s, [sha |-> s, run |-> n], own)
               \/ \E s \in 1..commits : AdmitFailure(d, s)
        PROVE  DriftInv'
    <2>1. /\ capp' = capp /\ row' = row /\ delivery[d].pc = "idle"
          /\ \E x : delivery' = [delivery EXCEPT ![d] = x]
      BY <1>5 DEF AdmitSuccess, AdmitFailure
    <2>2. \A c \in Deliveries : c # d => delivery'[c] = delivery[c]
      BY <1>0, <2>1
    <2>3. delivery'[d].pc # "recording"
      <3>1. ASSUME NEW s, NEW i, NEW own, AdmitSuccess(d, s, i, own)
            PROVE  delivery'[d].pc = "deploying"
        BY <1>0, <3>1 DEF AdmitSuccess
      <3>2. ASSUME NEW s, AdmitFailure(d, s) PROVE delivery'[d].pc = "failing"
        BY <1>0, <3>2 DEF AdmitFailure
      <3> QED
        BY <1>5, <3>1, <3>2
    <2> QED
      BY <1>4, <2>1, <2>2, <2>3
  <1>6. ASSUME NEW d \in Deliveries, Deploy(d) PROVE DriftInv'
    <2>1. delivery'[d].pc = "recording" /\ delivery'[d].image = delivery[d].image
      BY <1>0, <1>6, PcMovesOn DEF Deploy, SameSnapshot
    <2>2. capp'.image = delivery[d].image
      BY <1>0, <1>6 DEF Deploy, CreateDeployment, Rollout
    <2> QED
      BY <2>1, <2>2 DEF DriftInv, Covered
  <1>7. ASSUME NEW d \in Deliveries, CutOver(d) PROVE DriftInv'
    <2>1. /\ delivery[d].pc = "recording" /\ capp' = capp
          /\ row'.digest = delivery[d].image /\ LatestRequestIs(delivery[d].sha)
      BY <1>7, CutOverMovesRow, CutoverAdmitted DEF CutOver, RowCutOver
    <2>2. /\ delivery'[d].pc = "idle"
          /\ \A c \in Deliveries : c # d => delivery'[c] = delivery[c]
      BY <1>0, <1>7 DEF CutOver, Answered, IdleDelivery
    <2>3. CASE \E c \in Deliveries : /\ c # d /\ delivery[c].pc = "recording"
                                     /\ delivery[c].image = capp.image
      BY <2>1, <2>2, <2>3 DEF DriftInv, Covered
    <2>4. CASE capp.image = delivery[d].image
      <3>1. ASSUME NEW c \in Deliveries, delivery'[c].pc = "recording"
            PROVE  ~LatestRequestIs(delivery[c].sha)'
        <4>1. c # d /\ delivery[c].pc = "recording" /\ delivery'[c] = delivery[c]
          BY <2>2, <3>1
        <4>2. delivery[c].sha # delivery[d].sha
          BY <2>1, <4>1 DEF OneOpen, InRollout
        <4>3. ~LatestRequestIs(delivery[c].sha)
          BY <1>0, <2>1, <4>2, OneNewest
        <4> QED
          BY <1>3, <4>1, <4>3
      <3> QED
        BY <2>1, <2>4, <3>1 DEF DriftInv
    <2>5. CASE ~CappLive
      BY <2>1, <2>5 DEF DriftInv, CappLive
    <2> QED
      BY <1>1, <2>1, <2>3, <2>4, <2>5 DEF Covered
  <1>8. ASSUME NEW d \in Deliveries, LoseToNewerState(d) \/ LoseToDeletion(d)
        PROVE  FALSE
    <2>1. delivery[d].pc = "recording" /\ WarnIfAhead(d)
      BY <1>8 DEF LoseToNewerState, LoseToDeletion
    <2>2. delivery[d].image.sha = delivery[d].sha /\ delivery[d].sha # row.digest.sha
      BY <1>0, <2>1 DEF DeliveriesRequested, ServedOnce, InRollout
    <2> QED
      BY <2>1, <2>2, WarningCounts DEF WarnIfAhead, DriftWarnings
  <1>9. ASSUME NEW d \in Deliveries, TearDownCapp(d) PROVE DriftInv'
    <2>1. /\ delivery[d].pc = "tearing_capp" /\ row' = row
          /\ capp' = capp \/ capp' = NoCapp
      BY <1>9 DEF TearDownCapp, DeleteCapp
    <2>2. /\ delivery'[d].pc # "recording"
          /\ \A c \in Deliveries : c # d => delivery'[c] = delivery[c]
      BY <1>0, <1>9, PcMovesOn DEF TearDownCapp
    <2> QED
      BY <1>4, <2>1, <2>2 DEF CappLive, NoCapp
  <1>10. ASSUME NEW d \in Deliveries, TearDownSecret(d) \/ RecordFailure(d)
         PROVE  DriftInv'
    <2>1. /\ capp' = capp /\ delivery[d].pc \in {"tearing_secret", "failing"}
          /\ delivery'[d].pc # "recording"
          /\ \A c \in Deliveries : c # d => delivery'[c] = delivery[c]
      BY <1>0, <1>10 DEF TearDownSecret, RecordFailure, DeleteSecret, Answered,
                         IdleDelivery
    <2>2. row'.digest = row.digest
      BY <1>10, CappTypes DEF TearDownSecret, RecordFailure, Unlocked, Rows
    <2> QED
      BY <1>4, <2>1, <2>2
  <1>11. ASSUME NEW d \in Deliveries,
                DeployFails(d) \/ RecordFails(d) \/ TearDownFails(d)
         PROVE  FALSE
    BY <1>11, WarningCounts DEF DeployFails, RecordFails, TearDownFails, DriftWarnings
  <1> QED
    BY <1>5, <1>6, <1>7, <1>8, <1>9, <1>10, <1>11 DEF WebhookStep

\* Nothing else changes what is deployed, but to delete it, or what is on record.
LEMMA DriftStep ==
    ASSUME "webhook" \notin Faults
    PROVE  IInv /\ PromiseInv /\ OneOpen /\ ServedOnce /\ DriftInv /\ [Next]_vars
           => DriftInv'
  <1> SUFFICES ASSUME IInv, PromiseInv, OneOpen, ServedOnce, DriftInv, [Next]_vars,
                      ~Warned', ~WebhookStep
               PROVE  DriftInv'
    BY DriftWebhook DEF DriftInv
  <1>0. ~Warned /\ delivery' = delivery /\ DeliveriesRequested
    BY WarnedStays, CappTypes
       DEF Next, AuthoringStep, LifecycleStep, CascadeStep, webhookVars, vars
  <1>1. row'.digest = row.digest
    BY OthersKeepServed DEF Next, vars
  <1>2. capp' = capp \/ capp' = NoCapp
    BY DEF Next, AuthoringStep, LifecycleStep, CascadeStep, vars, StartCascade,
           ReadSnapshot, RemoveCapp, DeleteCapp, RemoveSecret, DeleteSecret,
           ListImages, RemoveImage, RelistImages, ArchiveScript, SaveCheckpoint,
           StopCascade, CiPushes
  <1>3. ASSUME NEW d \in Deliveries, delivery[d].pc = "recording",
               LatestRequestIs(delivery[d].sha)'
        PROVE  LatestRequestIs(delivery[d].sha)
    <2>1. PICK t : t = delivery[d].sha
      OBVIOUS
    <2>2. LogNames(t) /\ LatestRequestIs(t)'
      BY <1>0, <1>3, <2>1 DEF DeliveriesRequested, LogNames
    <2> QED
      BY <2>1, <2>2, OldRequestsAge
  <1>4. CASE capp' = NoCapp
    BY <1>4 DEF DriftInv, CappLive, NoCapp
  <1>5. CASE capp' = capp
    <2>1. CASE ~CappLive
      BY <1>5, <2>1 DEF DriftInv, CappLive
    <2>2. CASE Covered
      BY <1>0, <1>5, <2>2 DEF DriftInv, Covered
    <2>3. CASE /\ capp.image = row.digest
               /\ \A d \in Deliveries :
                     delivery[d].pc = "recording" => ~LatestRequestIs(delivery[d].sha)
      BY <1>0, <1>1, <1>3, <1>5, <2>3 DEF DriftInv
    <2> QED
      BY <1>0, <2>1, <2>2, <2>3 DEF DriftInv
  <1> QED
    BY <1>2, <1>4, <1>5

\* CAPP serving anything but the recorded digest has left a warning in the log,
\* as long as no process dies in the middle of a delivery and CI has one success
\* of a commit open at a time.
THEOREM DriftsAreLogged ==
    ASSUME "webhook" \notin Faults, Redelivery = FALSE
    PROVE  Spec => []DriftIsLogged
  <1>1. Init => PromiseInv /\ OneOpen /\ ServedOnce /\ DriftInv
    BY PromiseInit DEF Init, CappInit, WebhookInit, NoCapp, IdleDelivery, NoRow,
           NoImage, NoSha, OneOpen, ServedOnce, InRollout, DriftInv, CappLive
  <1>2. DriftInv => DriftIsLogged
    BY DEF DriftInv, DriftIsLogged, Warned, Covered, Quiescent
  <1> QED
    BY <1>1, <1>2, Inductive, PromiseStep, OneOpenStep, ServedOnceStep, DriftStep, PTL
       DEF Spec

----------------------------------------------------------------------------
(* What a checkpoint vouches for.                                          *)

\* The checkpoint comes to n + 1 by a runner that has done step n + 1.
LEMMA StepOrigin ==
    ASSUME IInv, [Next]_vars, NEW n \in 1..3, row'.step >= n + 1
    PROVE  row.step >= n + 1 \/ Saves(n)
  <1>0. row.step \in 0..5 /\ CheckpointMatchesState
    BY CappTypes
  <1>1. CASE CascadeStep
    <2>1. ASSUME NEW r \in Runners, SaveCheckpoint(r), row.matching = "deleting",
                 row'.step = row.step + 1
          PROVE  row.step >= n + 1 \/ Saves(n)
      <3>1. row.step = runner[r].step /\ runner[r].pc = "saving"
        BY <1>0, <2>1 DEF SaveCheckpoint, CheckpointMatches
      <3> QED
        BY <1>0, <2>1, <3>1 DEF Saves
    <2> QED
      BY <1>1, <2>1, CascadeMovesCheckpoint
  <1>2. CASE AuthoringStep
    BY <1>0, <1>2, AuthoringKeepsCheckpoint
  <1>3. CASE WebhookStep
    BY <1>0, <1>3, WebhookKeepsCheckpoint
  <1>4. CASE LifecycleStep
    BY <1>0, <1>4, LifecycleKeepsCheckpoint
  <1>5. CASE UNCHANGED vars
    BY <1>5 DEF vars
  <1> QED
    BY <1>1, <1>2, <1>3, <1>4, <1>5 DEF Next

\* A runner comes to save steps 2, 3 and 4 by having done them.
LEMMA SavesOrigin ==
    ASSUME IInv, RunnersPlaced, [Next]_vars, NEW n \in 1..3, Saves(n)'
    PROVE  \/ Saves(n)
           \/ n = 1 /\ \E r \in Runners : RemoveSecret(r)
           \/ n = 2 /\ registry = {} /\ registry' = {}
           \/ n = 3 /\ archives' = 1
  <1>1. PICK r \in Runners : runner'[r].pc = "saving" /\ runner'[r].step = n
    BY DEF Saves
  <1>2. RunnerMoves(r)
    BY RunnerStep
  <1>3. row.step \in 0..5
    BY CappTypes
  <1> QED
    BY <1>1, <1>2, <1>3 DEF RunnerMoves, RunnersPlaced, Saves, FirstPc

\* What CI pushes behind an empty second listing is a stray.
LEMMA StraysCover ==
    ASSUME [Next]_vars, row.step >= 3 \/ Saves(2), registry \subseteq strays
    PROVE  registry' \subseteq strays'
  <1>1. Relisted
    BY DEF Saves, Relisted
  <1>2. CASE CascadeStep
    BY <1>1, <1>2
       DEF CascadeStep, StartCascade, ReadSnapshot, RemoveCapp, RemoveSecret,
           ListImages, RemoveImage, RelistImages, ArchiveScript, SaveCheckpoint,
           StopCascade, CiPushes
  <1>3. CASE ~CascadeStep
    BY <1>3 DEF Next, AuthoringStep, LifecycleStep, WebhookStep, cascadeVars, vars
  <1> QED
    BY <1>2, <1>3

\* The archive is never undone.
LEMMA ArchiveStays ==
    ASSUME IInv, [Next]_vars, archives = 1
    PROVE  archives' = 1
  <1>1. CASE CascadeStep
    BY <1>1
       DEF CascadeStep, StartCascade, ReadSnapshot, RemoveCapp, RemoveSecret,
           ListImages, RemoveImage, RelistImages, ArchiveScript, SaveCheckpoint,
           StopCascade, CiPushes
  <1>2. CASE ~CascadeStep
    BY <1>2 DEF Next, AuthoringStep, LifecycleStep, WebhookStep, cascadeVars, vars
  <1> QED
    BY <1>1, <1>2

\* Every step keeps what the checkpoint vouches for.
LEMMA ReclaimSoundStep ==
    IInv /\ RunnersPlaced /\ ReclaimSound /\ [Next]_vars => ReclaimSound'
  <1> SUFFICES ASSUME IInv, RunnersPlaced, ReclaimSound, [Next]_vars
               PROVE  ReclaimSound'
    OBVIOUS
  <1>1. ASSUME row'.step >= 3 \/ Saves(2)' PROVE registry' \subseteq strays'
    <2>1. row.step >= 3 \/ Saves(2) \/ registry' = {}
      BY <1>1, StepOrigin, SavesOrigin
    <2> QED
      BY <2>1, StraysCover DEF ReclaimSound
  <1>2. ASSUME row'.step >= 4 \/ Saves(3)' PROVE archives' = 1
    <2>1. row.step >= 4 \/ Saves(3) \/ archives' = 1
      BY <1>2, StepOrigin, SavesOrigin
    <2> QED
      BY <2>1, ArchiveStays DEF ReclaimSound
  <1> QED
    BY <1>1, <1>2 DEF ReclaimSound

\* The step by which a delivery may stop being busy in the row's wallet: it has
\* removed the Secret there, or warned.
LEMMA BusyEnds ==
    ASSUME "webhook" \notin Faults, IInv, WebhookStep, row.matching \in DeletionStates,
           NEW w, w = row.namespace, BusyIn(w), ~Warned'
    PROVE  BusyIn(w)' \/ w \notin secrets'
  <1>0. delivery \in [Deliveries -> DeliveryStates]
    BY CappTypes
  <1>1. PICK c \in Deliveries :
           /\ delivery[c].pc \in {"recording", "tearing_capp", "tearing_secret"}
           /\ delivery[c].wallet = w
    BY DEF BusyIn
  <1>2. ASSUME delivery'[c].pc \in {"recording", "tearing_capp", "tearing_secret"},
               delivery'[c].wallet = delivery[c].wallet
        PROVE  BusyIn(w)'
    BY <1>1, <1>2 DEF BusyIn
  <1>3. CASE delivery'[c] = delivery[c]
    BY <1>1, <1>2, <1>3
  <1>4. CASE LoseToDeletion(c) \/ TearDownCapp(c)
    <2>1. \E p \in {"tearing_capp", "tearing_secret"} :
             delivery' = [delivery EXCEPT ![c].pc = p]
      BY <1>4 DEF LoseToDeletion, TearDownCapp
    <2> QED
      BY <1>0, <1>2, <2>1 DEF DeliveryStates
  <1>5. CASE TearDownSecret(c)
    BY <1>1, <1>5 DEF TearDownSecret, DeleteSecret
  <1>6. ASSUME RecordFails(c) \/ TearDownFails(c) \/ DeployFails(c) PROVE FALSE
    BY <1>6 DEF RecordFails, TearDownFails, DeployFails, Warned, DriftWarnings
  <1>7. ASSUME CutOver(c) \/ LoseToNewerState(c) PROVE FALSE
    BY <1>7 DEF CutOver, LoseToNewerState, MayCutOver, Admission
  <1>8. ASSUME \/ Deploy(c) \/ RecordFailure(c)
               \/ \E s, i, own : AdmitSuccess(c, s, i, own)
               \/ \E s : AdmitFailure(c, s)
        PROVE  FALSE
    BY <1>1, <1>8 DEF Deploy, RecordFailure, AdmitSuccess, AdmitFailure
  <1>9. ASSUME NEW d \in Deliveries, d # c,
               \/ \E x : delivery' = [delivery EXCEPT ![d] = x]
               \/ \E x : delivery' = [delivery EXCEPT ![d].pc = x]
        PROVE  delivery'[c] = delivery[c]
    BY <1>0, <1>9
  <1> QED
    BY <1>3, <1>4, <1>5, <1>6, <1>7, <1>8, <1>9, ZenonT(60)
       DEF WebhookStep, AdmitSuccess, AdmitFailure, Deploy, DeployFails, CutOver,
           LoseToNewerState, LoseToDeletion, RecordFails, TearDownCapp,
           TearDownSecret, TearDownFails, RecordFailure, Answered

\* A Secret appears by a create, which keeps its delivery busy, or with a warning.
LEMMA SecretAppears ==
    ASSUME IInv, [Next]_vars, ~Warned', NEW w, w \in secrets', w \notin secrets
    PROVE  BusyIn(w)'
  <1>0. delivery \in [Deliveries -> DeliveryStates]
    BY CappTypes
  <1>1. ASSUME NEW d \in Deliveries, Deploy(d) PROVE BusyIn(w)'
    <2>1. delivery[d].wallet = w /\ delivery' = [delivery EXCEPT ![d].pc = "recording"]
      BY <1>1 DEF Deploy, CreateDeployment, Rollout
    <2>2. delivery'[d].pc = "recording" /\ delivery'[d].wallet = w
      BY <1>0, <2>1 DEF DeliveryStates
    <2> QED
      BY <2>2 DEF BusyIn
  <1>2. ASSUME NEW d \in Deliveries, DeployFails(d) PROVE FALSE
    BY <1>2 DEF DeployFails, Warned, DriftWarnings
  <1>3. CASE WebhookStep
    BY <1>1, <1>2, <1>3
       DEF WebhookStep, AdmitSuccess, AdmitFailure, CutOver, LoseToNewerState,
           LoseToDeletion, RecordFails, TearDownCapp, DeleteCapp, TearDownSecret,
           DeleteSecret, TearDownFails, RecordFailure, DeliveryDies
  <1>4. CASE ~WebhookStep
    BY <1>4
       DEF Next, AuthoringStep, LifecycleStep, CascadeStep, vars, StartCascade,
           ReadSnapshot, RemoveCapp, DeleteCapp, RemoveSecret, DeleteSecret,
           ListImages, RemoveImage, RelistImages, ArchiveScript, SaveCheckpoint,
           StopCascade, CiPushes
  <1> QED
    BY <1>3, <1>4

LEMMA SecretStep ==
    ASSUME "webhook" \notin Faults
    PROVE  IInv /\ RunnersPlaced /\ SecretInv /\ [Next]_vars => SecretInv'
  <1> SUFFICES ASSUME IInv, RunnersPlaced, SecretInv, [Next]_vars, ~Warned',
                      row'.step >= 2 \/ Saves(1)', row'.namespace \in secrets'
               PROVE  BusyIn(row.namespace)'
    BY DEF SecretInv
  <1>0. /\ row.step \in 0..5 /\ row \in Rows /\ CheckpointMatchesState
        /\ RunnersKeepPace /\ ~Warned /\ RowMoves
    BY CappTypes, WarnedStays, StepMovesRow
  <1>1. row.step >= 2 \/ Saves(1) \/ \E r \in Runners : RemoveSecret(r)
    BY StepOrigin, SavesOrigin
  <1>2. row.matching \in DeletionStates
    BY <1>0, <1>1 DEF CheckpointMatchesState, RunnersKeepPace, Rows, MatchingStates,
                      DeletionStates, Saves, RemoveSecret
  <1>3. PICK w : w = row.namespace /\ w = row'.namespace
    BY <1>0, <1>2, DeletingRowKeepsHome
  <1>s. SUFFICES BusyIn(w)'
    BY <1>3 DEF BusyIn
  <1>4. ASSUME NEW r \in Runners, RemoveSecret(r) PROVE FALSE
    BY <1>3, <1>4 DEF RemoveSecret, DeleteSecret, RunnersPlaced
  <1>5. CASE w \notin secrets
    BY <1>3, <1>5, SecretAppears
  <1>6. CASE w \in secrets
    <2>1. BusyIn(w)
      BY <1>0, <1>1, <1>3, <1>4, <1>6 DEF SecretInv
    <2>2. CASE WebhookStep
      BY <1>2, <1>3, <2>1, <2>2, BusyEnds
    <2>3. CASE ~WebhookStep
      <3>1. delivery' = delivery
        BY <2>3 DEF Next, AuthoringStep, LifecycleStep, CascadeStep, webhookVars, vars
      <3> QED
        BY <1>3, <2>1, <3>1 DEF BusyIn
    <2> QED
      BY <2>2, <2>3
  <1> QED
    BY <1>5, <1>6

\* All the strengthenings hold at the start.
LEMMA SoundInit == Init => RunnersPlaced /\ ReclaimSound /\ SecretInv
  BY DEF Init, CascadeInit, IdleRunner, NoRow, RunnersPlaced, ReclaimSound, SecretInv,
         Saves

\* From checkpoint 3 on the images left are those pushed behind an empty second
\* listing, and from 4 on the script is archived: whatever deliveries, edits and
\* releases race with the steps, for pushes at any time, and wherever an attempt
\* stops or is resumed (cascade.py, steps 3 and 4).
THEOREM ArtifactsStayReclaimed == Spec => []ArtifactsReclaimed
  <1>1. ReclaimSound => ArtifactsReclaimed
    BY DEF ReclaimSound, ArtifactsReclaimed
  <1> QED
    BY <1>1, SoundInit, Inductive, PlacedStep, ReclaimSoundStep, PTL DEF Spec

\* Checkpoint 2 of cascade.py vouches for the Capp and for the run-auth Secret, for
\* any number of racing runners, deliveries, edits and stuck-build releases: what is
\* in the wallet after it is a late create's, whose delivery is still busy with it
\* or has warned.  No delivery dies between its CAPP call and its log line.
THEOREM CappStaysReclaimed ==
    ASSUME "webhook" \notin Faults
    PROVE  Spec => []CappReclaimed
  <1>1. IInv /\ PromiseInv /\ LeftoverIsAnswered /\ SecretInv => CappReclaimed
    <2> SUFFICES ASSUME IInv, PromiseInv, LeftoverIsAnswered, SecretInv, row.step >= 2,
                        ~Warned, ~BusyIn(row.namespace)
                 PROVE  capp.wallet # row.namespace /\ row.namespace \notin secrets
      BY DEF CappReclaimed, Warned
    <2>1. row.namespace \notin secrets
      BY DEF SecretInv
    <2>2. ~Responsible(row.namespace)
      BY DEF Responsible, BusyIn
    <2>3. row.namespace # NoWallet
      <3>1. row.matching # "absent" /\ NoWallet \notin Wallets
        BY CappTypes DEF CheckpointMatchesState
      <3> QED
        BY <3>1 DEF PromiseInv, WalletsNamed
    <2> QED
      BY <2>1, <2>2, <2>3 DEF LeftoverIsAnswered, CappLive, Warned
  <1> QED
    BY <1>1, SoundInit, PromiseInit, Inductive, PromiseStep, PlacedStep,
       LeftoversAnswered, SecretStep, PTL
       DEF Spec
==============================================================================
