------------------------------ MODULE CiWebhook ------------------------------
(***************************************************************************)
(* apply_build_result: one delivery of a CI webhook, in the three phases   *)
(* of the code.  Phase 1 reads the row without a lock, phase 2 calls CAPP  *)
(* with no connection held, phase 3 re-checks admission under the row lock *)
(* and cuts over.  Deliveries overlap freely.                              *)
(***************************************************************************)
EXTENDS Capp

CONSTANT Deliveries     \* webhook requests that may be in flight together

VARIABLES
    delivery,   \* per request: where it stands and its phase-1 snapshot
    warnings    \* the kinds of warning the deliveries have logged so far

webhookVars == <<delivery, warnings>>

\* `operation`: what phase 2 does, by whether the snapshot had a deployment id.
IdleDelivery == [pc |-> "idle", sha |-> NoSha, image |-> NoImage,
                 wallet |-> NoWallet, operation |-> "none"]

DeliveryStates ==
    [pc : {"idle", "failing", "deploying", "recording", "tearing_capp",
           "tearing_secret"},
     sha : Nat, image : Images,
     wallet : Wallets \cup {NoWallet},
     operation : {"none", "create", "rollout"}]

WarningKinds == {"capp_failed", "failure_overridden", "ahead_of_row",
                 "teardown_failed"}

WebhookInit ==
    /\ delivery = [d \in Deliveries |-> IdleDelivery]
    /\ warnings = {}

----------------------------------------------------------------------------
\* A slip of the check order: the build axis before the deletion states.
AdmissionBuildFirst(sha) ==
    CASE row.build # "building" -> "not_building"
      [] row.build = "building" /\ row.matching \in DeletionStates
            -> "deleting"
      [] row.build = "building" /\ row.matching \notin DeletionStates
            /\ row.sha # sha -> "sha_mismatch"
      [] OTHER -> "applies"

Admission(sha) ==
    CASE row.matching \in DeletionStates -> "deleting"
      [] row.matching \notin DeletionStates /\ row.build # "building"
            -> "not_building"
      [] row.matching \notin DeletionStates /\ row.build = "building"
            /\ row.sha # sha -> "sha_mismatch"
      [] OTHER -> "applies"

\* A slip: any build_failed row counts, whatever commit failed.
FailureRacedAnyCommit(sha) == row.build = "build_failed"

\* A failure recorded for this very commit while its success was in CAPP.
FailureRaced(sha) ==
    /\ row.build = "build_failed"
    /\ LatestRequestIs(sha)

\* A slip: the deadline survives the release.
UnlockedKeepingDeadline(r, build) ==
    [r EXCEPT !.build = build, !.sha = NoSha]

\* The row with its build lock released and the build's outcome recorded.
Unlocked(r, build) ==
    [r EXCEPT !.build = build, !.sha = NoSha, !.deadline = NoDeadline]

Answered(d) == delivery' = [delivery EXCEPT ![d] = IdleDelivery]

\* Phase 1 of a success.  One that is not admitted, or whose image is not in
\* this automation's repository (`own`), is answered and changes nothing.
AdmitSuccess(d, sha, image, own) ==
    /\ delivery[d].pc = "idle"
    /\ row.matching # "absent"
    /\ Admission(sha) = "applies"
    /\ own
    /\ delivery' = [delivery EXCEPT ![d] =
                      [pc |-> "deploying", sha |-> sha, image |-> image,
                       wallet |-> row.namespace,
                       operation |-> IF row.deployed = NoWallet
                                     THEN "create" ELSE "rollout"]]
    /\ UNCHANGED <<row, revisions, capp, secrets, warnings>>

AdmitFailure(d, sha) ==
    /\ delivery[d].pc = "idle"
    /\ row.matching # "absent"
    /\ Admission(sha) = "applies"
    /\ delivery' = [delivery EXCEPT ![d] =
                      [pc |-> "failing", sha |-> sha, image |-> NoImage,
                       wallet |-> NoWallet, operation |-> "none"]]
    /\ UNCHANGED <<row, revisions, capp, secrets, warnings>>

----------------------------------------------------------------------------
\* Phase 2: CAPP accepts the image.
Deploy(d) ==
    /\ delivery[d].pc = "deploying"
    /\ IF delivery[d].operation = "create"
       THEN CreateDeployment(delivery[d].wallet, delivery[d].image)
       ELSE Rollout(delivery[d].image)
    /\ delivery' = [delivery EXCEPT ![d].pc = "recording"]
    /\ UNCHANGED <<row, revisions, warnings>>

\* CAPP refuses or times out: 503, the row untouched.  A failed rollout leaves
\* the old image serving; a failed create may have taken effect in part.
DeployFails(d) ==
    /\ delivery[d].pc = "deploying"
    /\ \/ UNCHANGED <<capp, secrets>>
       \/ /\ delivery[d].operation = "create"
          /\ secrets' = secrets \cup {delivery[d].wallet}
          /\ UNCHANGED capp
       \/ /\ delivery[d].operation = "create"
          /\ CreateDeployment(delivery[d].wallet, delivery[d].image)
    /\ warnings' = warnings \cup {"capp_failed"}
    /\ Answered(d)
    /\ UNCHANGED <<row, revisions>>

----------------------------------------------------------------------------
\* What the locked phase-3 re-check decides.
MayCutOver(sha) ==
    \/ Admission(sha) = "applies"
    \/ Admission(sha) = "not_building" /\ FailureRaced(sha)

\* The revisions that requested this commit learn the digest it produced.
StampDigest(sha, image) ==
    [i \in DOMAIN revisions |->
        IF revisions[i].sha = sha /\ revisions[i].action \in RequestingActions
        THEN [revisions[i] EXCEPT !.digest = image]
        ELSE revisions[i]]

CutOver(d) ==
    LET r == delivery[d] IN
    /\ r.pc = "recording"
    /\ MayCutOver(r.sha)
    /\ row' = [Unlocked(row, "idle") EXCEPT
                 !.deployed = IF r.operation = "create" THEN r.wallet
                              ELSE row.deployed,
                 !.digest = r.image]
    /\ revisions' = Append(StampDigest(r.sha, r.image),
                           Revision("build_succeeded", r.sha, r.image))
    /\ warnings' = IF Admission(r.sha) = "not_building"
                   THEN warnings \cup {"failure_overridden"}
                   ELSE warnings
    /\ Answered(d)
    /\ UNCHANGED <<capp, secrets>>

\* A slip: the drift is not reported.
WarnNever(d) == UNCHANGED warnings

\* Anything but a duplicate of the recorded image is reported as drift.
WarnIfAhead(d) ==
    warnings' = IF row.digest # delivery[d].image
                THEN warnings \cup {"ahead_of_row"}
                ELSE warnings

LoseToNewerState(d) ==
    /\ delivery[d].pc = "recording"
    /\ ~MayCutOver(delivery[d].sha)
    /\ Admission(delivery[d].sha) # "deleting"
    /\ WarnIfAhead(d)
    /\ Answered(d)
    /\ UNCHANGED <<row, revisions, capp, secrets>>

\* A slip: the loser to a deletion is answered without a teardown.
LoseToDeletionNoTeardown(d) ==
    /\ delivery[d].pc = "recording"
    /\ Admission(delivery[d].sha) = "deleting"
    /\ WarnIfAhead(d)
    /\ Answered(d)
    /\ UNCHANGED <<row, revisions, capp, secrets>>

LoseToDeletion(d) ==
    /\ delivery[d].pc = "recording"
    /\ Admission(delivery[d].sha) = "deleting"
    /\ WarnIfAhead(d)
    /\ delivery' = [delivery EXCEPT ![d].pc = "tearing_capp"]
    /\ UNCHANGED <<row, revisions, capp, secrets>>

\* AutomationBusyError or a database error: 503, nothing recorded.
RecordFails(d) ==
    /\ delivery[d].pc = "recording"
    /\ warnings' = warnings \cup {"ahead_of_row"}
    /\ Answered(d)
    /\ UNCHANGED <<row, revisions, capp, secrets>>

\* A slip: the teardown forgets the Secret.
TearDownCappOnly(d) ==
    /\ delivery[d].pc = "tearing_capp"
    /\ DeleteCapp(delivery[d].wallet)
    /\ Answered(d)
    /\ UNCHANGED <<row, revisions, warnings>>

\* The teardown acts in the wallet of the phase-1 snapshot, Capp before Secret.
TearDownCapp(d) ==
    /\ delivery[d].pc = "tearing_capp"
    /\ DeleteCapp(delivery[d].wallet)
    /\ delivery' = [delivery EXCEPT ![d].pc = "tearing_secret"]
    /\ UNCHANGED <<row, revisions, warnings>>

TearDownSecret(d) ==
    /\ delivery[d].pc = "tearing_secret"
    /\ DeleteSecret(delivery[d].wallet)
    /\ Answered(d)
    /\ UNCHANGED <<row, revisions, warnings>>

TearDownFails(d) ==
    /\ delivery[d].pc \in {"tearing_capp", "tearing_secret"}
    /\ warnings' = warnings \cup {"teardown_failed"}
    /\ Answered(d)
    /\ UNCHANGED <<row, revisions, capp, secrets>>

----------------------------------------------------------------------------
\* A failed build: re-checked under the lock, then recorded.
RecordFailure(d) ==
    /\ delivery[d].pc = "failing"
    /\ IF Admission(delivery[d].sha) = "applies"
       THEN /\ row' = Unlocked(row, "build_failed")
            /\ revisions' = Append(revisions,
                 Revision("build_failed", delivery[d].sha, NoImage))
       ELSE UNCHANGED <<row, revisions>>
    /\ Answered(d)
    /\ UNCHANGED <<capp, secrets, warnings>>

\* The process dies mid-delivery: no warning, no answer.
DeliveryDies(d) ==
    /\ delivery[d].pc # "idle"
    /\ Answered(d)
    /\ UNCHANGED <<row, revisions, capp, secrets, warnings>>

WebhookTypeOK ==
    /\ delivery \in [Deliveries -> DeliveryStates]
    /\ warnings \subseteq WarningKinds
==============================================================================
