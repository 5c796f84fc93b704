------------------------- MODULE ControlPlane_proofs -------------------------
(***************************************************************************)
(* Proofs, for any number of editors, deliveries, runners and wallets and  *)
(* for every bound, of the safety properties of ControlPlane.              *)
(***************************************************************************)
EXTENDS ControlPlane, SequenceTheorems, TLAPS

----------------------------------------------------------------------------
(* The audit log.                                                          *)

\* What appending one revision does to the log, index by index.
LEMMA AppendRevision ==
    ASSUME NEW q \in Seq(Revisions), NEW x \in Revisions
    PROVE  /\ Append(q, x) \in Seq(Revisions)
           /\ Len(q) \in Nat
           /\ DOMAIN q = 1..Len(q)
           /\ DOMAIN Append(q, x) = 1..(Len(q) + 1)
           /\ \A i \in 1..Len(q) : Append(q, x)[i] = q[i]
           /\ Append(q, x)[Len(q) + 1] = x
  OBVIOUS

\* Stamping a digest touches neither the order, the actions nor the SHAs.
LEMMA StampKeepsRequests ==
    ASSUME RowTypeOK, NEW s \in Nat, NEW g \in Images
    PROVE  /\ StampDigest(s, g) \in Seq(Revisions)
           /\ Len(StampDigest(s, g)) = Len(revisions)
           /\ \A i \in 1..Len(revisions) :
                 /\ StampDigest(s, g)[i].action = revisions[i].action
                 /\ StampDigest(s, g)[i].sha = revisions[i].sha
  <1>1. /\ Len(revisions) \in Nat
        /\ DOMAIN revisions = 1..Len(revisions)
        /\ \A i \in 1..Len(revisions) : revisions[i] \in Revisions
    BY LenProperties, ElementOfSeq DEF RowTypeOK
  <1>2. \A i \in 1..Len(revisions) :
           /\ StampDigest(s, g)[i] \in Revisions
           /\ StampDigest(s, g)[i].action = revisions[i].action
           /\ StampDigest(s, g)[i].sha = revisions[i].sha
    BY <1>1 DEF StampDigest, Revisions
  <1>3. StampDigest(s, g) \in [1..Len(revisions) -> Revisions]
    BY <1>1, <1>2 DEF StampDigest
  <1>4. StampDigest(s, g) \in Seq(Revisions)
    BY <1>1, <1>3, SeqDef
  <1>5. DOMAIN StampDigest(s, g) = 1..Len(revisions)
    BY <1>3
  <1>6. Len(StampDigest(s, g)) = Len(revisions)
    BY <1>1, <1>4, <1>5, LenProperties
  <1> QED
    BY <1>2, <1>4, <1>6

\* After a create or edit revision, its commit is the newest request.
LEMMA NewestAfterRequest ==
    ASSUME RowTypeOK, NEW x \in Revisions, x.action \in RequestingActions,
           revisions' = Append(revisions, x), NEW t
    PROVE  LatestRequestIs(t)' <=> t = x.sha
  <1>1. /\ Len(revisions) \in Nat
        /\ DOMAIN revisions' = 1..(Len(revisions) + 1)
        /\ revisions'[Len(revisions) + 1] = x
    BY AppendRevision DEF RowTypeOK
  <1> QED
    BY <1>1 DEF LatestRequestIs

\* Any other revision leaves the newest request as it was.
LEMMA NewestAfterOther ==
    ASSUME RowTypeOK, NEW x \in Revisions, x.action \notin RequestingActions,
           NEW q \in Seq(Revisions), Len(q) = Len(revisions),
           \A i \in 1..Len(revisions) :
              q[i].action = revisions[i].action /\ q[i].sha = revisions[i].sha,
           revisions' = Append(q, x), NEW t
    PROVE  LatestRequestIs(t)' <=> LatestRequestIs(t)
  <1>1. /\ Len(revisions) \in Nat
        /\ DOMAIN revisions = 1..Len(revisions)
        /\ DOMAIN revisions' = 1..(Len(revisions) + 1)
        /\ revisions'[Len(revisions) + 1] = x
        /\ \A i \in 1..Len(revisions) : revisions'[i].action = revisions[i].action
                                        /\ revisions'[i].sha = revisions[i].sha
    BY AppendRevision, LenProperties DEF RowTypeOK
  <1>2. ASSUME LatestRequestIs(t) PROVE LatestRequestIs(t)'
    BY <1>1, <1>2 DEF LatestRequestIs
  <1>3. ASSUME LatestRequestIs(t)' PROVE LatestRequestIs(t)
    BY <1>1, <1>3 DEF LatestRequestIs
  <1> QED
    BY <1>2, <1>3

----------------------------------------------------------------------------
(* Type correctness.                                                       *)

\* The NULLs and the idle records are well formed.
LEMMA NullsTyped ==
    /\ NoImage \in Images
    /\ NoRow \in Rows
    /\ NoCapp \in [wallet : Wallets \cup {NoWallet}, image : Images]
    /\ IdleEditor \in EditorStates
    /\ IdleDelivery \in DeliveryStates
    /\ IdleRunner \in RunnerStates
    /\ MaxIterations = 20
  BY DEF NoImage, Images, NoRow, Rows, MatchingStates, BuildStates, NoSha,
         NoDeadline, NoCapp, IdleEditor, EditorStates, IdleDelivery,
         DeliveryStates, IdleRunner, RunnerStates, RunnerPcs, Outcomes,
         MaxIterations, StepDeleted

\* A revision record built from well-formed parts is one.
LEMMA RevisionTyped ==
    ASSUME NEW a \in RevisionActions, NEW s \in Nat, NEW g \in Images
    PROVE  Revision(a, s, g) \in Revisions
  BY DEF Revision, Revisions

\* Appending a well-formed revision keeps the log well-formed.
LEMMA LogTyped ==
    ASSUME RowTypeOK, NEW a \in RevisionActions, NEW s \in Nat, NEW g \in Images,
           revisions' = Append(revisions, Revision(a, s, g))
    PROVE  revisions' \in Seq(Revisions)
  BY RevisionTyped, AppendRevision DEF RowTypeOK

\* Before the POST every variable is well formed.
LEMMA TypeInit == Init => TypeOK
  BY NullsTyped, EmptySeq
     DEF Init, CappInit, AuthoringInit, WebhookInit, CascadeInit, TypeOK,
         RowTypeOK, CappTypeOK, AuthoringTypeOK, WebhookTypeOK, CascadeTypeOK,
         CreatorStates, NoSha

\* Creates, edits and released claims keep every variable well formed.
LEMMA TypeAuthoring == TypeOK /\ AuthoringStep => TypeOK'
  <1> SUFFICES ASSUME TypeOK, AuthoringStep PROVE TypeOK'
    OBVIOUS
  <1>0. /\ row \in Rows /\ revisions \in Seq(Revisions) /\ RowTypeOK
        /\ creator \in CreatorStates /\ editor \in [Editors -> EditorStates]
        /\ commits \in Nat /\ clock \in Nat
        /\ NoSha \in Nat /\ NoDeadline \in Nat
    BY DEF TypeOK, RowTypeOK, AuthoringTypeOK, NoSha, NoDeadline
  \* Only the row, the log and the requests of authoring change.
  <1>f. SUFFICES /\ row' \in Rows /\ revisions' \in Seq(Revisions)
                 /\ creator' \in CreatorStates
                 /\ editor' \in [Editors -> EditorStates]
                 /\ commits' \in Nat /\ clock' \in Nat
    BY DEF TypeOK, RowTypeOK, CappTypeOK, AuthoringTypeOK, WebhookTypeOK,
           CascadeTypeOK, AuthoringStep, webhookVars, cascadeVars
  <1> DEFINE Goal == /\ row' \in Rows /\ revisions' \in Seq(Revisions)
                     /\ creator' \in CreatorStates
                     /\ editor' \in [Editors -> EditorStates]
                     /\ commits' \in Nat /\ clock' \in Nat
  <1>1. ASSUME NEW w \in Wallets, CreateCommit(w) PROVE Goal
    BY <1>0, <1>1 DEF CreateCommit, CreatorStates
  <1>2. ASSUME NEW a \in {"created", "failed"}, CreateInsert(a) PROVE Goal
    <2>1. revisions' \in Seq(Revisions)
      BY <1>0, <1>2, LogTyped, NullsTyped
         DEF CreateInsert, CreatorStates, RevisionActions
    <2>2. row' = [matching |-> "inactive", build |-> "building",
                  sha |-> creator.sha, deadline |-> clock + 1,
                  digest |-> NoImage, deployed |-> NoWallet,
                  namespace |-> creator.namespace, step |-> 0, gen |-> 0]
      BY <1>2 DEF CreateInsert, NoRow
    <2>3. row' \in Rows
      BY <1>0, <2>2, NullsTyped DEF CreatorStates, Rows, MatchingStates, BuildStates
    <2>4. creator' \in CreatorStates
      BY <1>0, <1>2 DEF CreateInsert, CreatorStates
    <2> QED
      BY <1>0, <1>2, <2>1, <2>3, <2>4 DEF CreateInsert
  <1>3. CASE CreateInsertFails
    BY <1>0, <1>3 DEF CreateInsertFails, CreatorStates
  <1>4. ASSUME NEW s, ReleaseStuckBuild(s) PROVE Goal
    <2>1. s \in Nat
      BY <1>0, <1>4 DEF ReleaseStuckBuild, Rows
    <2>2. row' \in Rows
      BY <1>0, <1>4, <2>1 DEF ReleaseStuckBuild, Rows, BuildStates
    <2> QED
      BY <1>0, <1>4, <2>2 DEF ReleaseStuckBuild, authoringVars
  <1>5. ASSUME NEW e \in Editors, NEW w \in Wallets, ClaimBuild(e, w) PROVE Goal
    <2>1. editor' \in [Editors -> EditorStates]
      BY <1>0, <1>5 DEF ClaimBuild, EditorStates, Rows
    <2>2. row' \in Rows
      <3>1. clock + 1 \in Nat
        BY <1>0
      <3> QED
        BY <1>0, <1>5, <3>1 DEF ClaimBuild, Rows, BuildStates
    <2> QED
      BY <1>0, <1>5, <2>1, <2>2 DEF ClaimBuild
  <1>6. ASSUME NEW e \in Editors, CommitScript(e) PROVE Goal
    <2>1. editor' \in [Editors -> EditorStates]
      <3>1. commits + 1 \in Nat
        BY <1>0
      <3> DEFINE f == [editor[e] EXCEPT !.pc = "finishing", !.sha = commits + 1]
      <3>2. f \in EditorStates
        BY <1>0, <3>1 DEF EditorStates
      <3>3. editor' = [editor EXCEPT ![e] = f]
        BY <1>6 DEF CommitScript
      <3> QED
        BY <1>0, <3>2, <3>3
    <2> QED
      BY <1>0, <1>6, <2>1 DEF CommitScript
  <1>7. ASSUME NEW e \in Editors, NEW n \in 0..1, CommitScriptFails(e, n)
        PROVE Goal
    <2>1. editor' \in [Editors -> EditorStates]
      <3>1. editor[e] \in EditorStates
        BY <1>0
      <3>2. [editor[e] EXCEPT !.pc = "releasing"] \in EditorStates
        BY <3>1 DEF EditorStates
      <3>3. editor' = [editor EXCEPT ![e] = [editor[e] EXCEPT !.pc = "releasing"]]
        BY <1>7 DEF CommitScriptFails
      <3> QED
        BY <1>0, <3>2, <3>3
    <2> QED
      BY <1>0, <1>7, <2>1 DEF CommitScriptFails
  <1>8. ASSUME NEW e \in Editors, ReleaseBuildClaim(e) PROVE Goal
    <2>1. row' \in Rows
      BY <1>0, <1>8 DEF ReleaseBuildClaim, EditorStates, Rows
    <2> QED
      BY <1>0, <1>8, <2>1, NullsTyped DEF ReleaseBuildClaim
  <1>9. ASSUME NEW e \in Editors, FinishEdit(e) PROVE Goal
    <2>1. revisions' \in Seq(Revisions)
      BY <1>0, <1>9, LogTyped, NullsTyped
         DEF FinishEdit, EditorStates, RevisionActions
    <2>2. row' \in Rows
      BY <1>0, <1>9 DEF FinishEdit, EditorStates, Rows
    <2> QED
      BY <1>0, <1>9, <2>1, <2>2, NullsTyped DEF FinishEdit
  <1>10. ASSUME NEW e \in Editors, EditSuperseded(e) \/ EditorDies(e) PROVE Goal
    BY <1>0, <1>10, NullsTyped DEF EditSuperseded, EditorDies
  <1> QED
    BY <1>1, <1>2, <1>3, <1>4, <1>5, <1>6, <1>7, <1>8, <1>9, <1>10
       DEF AuthoringStep

\* Every phase of a delivery keeps every variable well formed.
LEMMA TypeWebhook == TypeOK /\ WebhookStep => TypeOK'
  <1> SUFFICES ASSUME TypeOK, WebhookStep PROVE TypeOK'
    OBVIOUS
  <1> DEFINE Cs == [wallet : Wallets \cup {NoWallet}, image : Images]
             Ws == Wallets \cup {NoWallet}
             Goal == /\ row' \in Rows /\ revisions' \in Seq(Revisions)
                     /\ capp' \in Cs /\ secrets' \subseteq Ws
                     /\ delivery' \in [Deliveries -> DeliveryStates]
                     /\ warnings' \subseteq WarningKinds
  <1>0. /\ row \in Rows /\ revisions \in Seq(Revisions) /\ RowTypeOK
        /\ capp \in Cs /\ secrets \subseteq Ws
        /\ delivery \in [Deliveries -> DeliveryStates]
        /\ warnings \subseteq WarningKinds
        /\ commits \in Nat /\ NoSha \in Nat /\ NoDeadline \in Nat
    BY DEF TypeOK, RowTypeOK, CappTypeOK, WebhookTypeOK, AuthoringTypeOK, NoSha,
           NoDeadline
  <1>f. SUFFICES Goal
    BY DEF TypeOK, RowTypeOK, CappTypeOK, AuthoringTypeOK, WebhookTypeOK,
           CascadeTypeOK, WebhookStep, authoringVars, cascadeVars
  <1>a. ASSUME NEW d \in Deliveries, Answered(d)
        PROVE  delivery' \in [Deliveries -> DeliveryStates]
    BY <1>0, <1>a, NullsTyped DEF Answered
  <1>p. ASSUME NEW d \in Deliveries,
               NEW p \in {"recording", "tearing_capp", "tearing_secret"},
               delivery' = [delivery EXCEPT ![d].pc = p]
        PROVE  delivery' \in [Deliveries -> DeliveryStates]
    <2>0. delivery[d] \in DeliveryStates
      BY <1>0
    <2>1. [delivery[d] EXCEPT !.pc = p] \in DeliveryStates
      BY <2>0 DEF DeliveryStates
    <2>2. delivery' = [delivery EXCEPT ![d] = [delivery[d] EXCEPT !.pc = p]]
      BY <1>p
    <2> QED
      BY <1>0, <2>1, <2>2
  <1>u. ASSUME NEW b \in BuildStates PROVE Unlocked(row, b) \in Rows
    BY <1>0 DEF Unlocked, Rows
  <1>1. ASSUME NEW d \in Deliveries, NEW s \in 1..commits, NEW n \in 1..MaxRuns,
               NEW own, AdmitSuccess(d, s, [sha |-> s, run |-> n], own)
        PROVE  Goal
    <2>1. [sha |-> s, run |-> n] \in Images /\ s \in Nat
      BY <1>0, ControlPlaneAssumption DEF Images
    <2>2. delivery' \in [Deliveries -> DeliveryStates]
      BY <1>0, <1>1, <2>1 DEF AdmitSuccess, DeliveryStates, Rows
    <2> QED
      BY <1>0, <1>1, <2>2 DEF AdmitSuccess
  <1>2. ASSUME NEW d \in Deliveries, NEW s \in 1..commits, AdmitFailure(d, s)
        PROVE  Goal
    BY <1>0, <1>2, NullsTyped DEF AdmitFailure, DeliveryStates
  <1>c. ASSUME NEW d \in Deliveries,
               CreateDeployment(delivery[d].wallet, delivery[d].image)
        PROVE  capp' \in Cs /\ secrets' \subseteq Ws
    BY <1>0, <1>c DEF CreateDeployment, DeliveryStates
  <1>3. ASSUME NEW d \in Deliveries, Deploy(d) PROVE Goal
    <2>1. delivery' \in [Deliveries -> DeliveryStates]
      BY <1>3, <1>p DEF Deploy
    <2>2. ASSUME Rollout(delivery[d].image)
          PROVE  capp' \in Cs /\ secrets' \subseteq Ws
      BY <1>0, <2>2 DEF Rollout, DeliveryStates
    <2> QED
      BY <1>0, <1>3, <1>c, <2>1, <2>2 DEF Deploy
  <1>4. ASSUME NEW d \in Deliveries, DeployFails(d) PROVE Goal
    <2>1. delivery[d].wallet \in Ws
      BY <1>0 DEF DeliveryStates
    <2>2. capp' \in Cs /\ secrets' \subseteq Ws
      BY <1>0, <1>4, <1>c, <2>1 DEF DeployFails
    <2> QED
      BY <1>0, <1>4, <1>a, <2>2 DEF DeployFails, WarningKinds
  <1>5. ASSUME NEW d \in Deliveries, CutOver(d) PROVE Goal
    <2>1. delivery[d].sha \in Nat /\ delivery[d].image \in Images
          /\ delivery[d].wallet \in Ws
      BY <1>0 DEF DeliveryStates
    <2>2. revisions' \in Seq(Revisions)
      <3>1. Revision("build_succeeded", delivery[d].sha, delivery[d].image)
               \in Revisions
        BY <2>1, RevisionTyped DEF RevisionActions
      <3>2. StampDigest(delivery[d].sha, delivery[d].image) \in Seq(Revisions)
        BY <1>0, <2>1, StampKeepsRequests
      <3> QED
        BY <1>5, <3>1, <3>2, AppendRevision DEF CutOver
    <2>3. row' \in Rows
      <3>1. Unlocked(row, "idle") \in Rows
        BY <1>u DEF BuildStates
      <3>2. row.deployed \in Ws
        BY <1>0 DEF Rows
      <3> QED
        BY <1>5, <2>1, <3>1, <3>2 DEF CutOver, Rows
    <2>4. warnings' \subseteq WarningKinds
      BY <1>0, <1>5 DEF CutOver, WarningKinds
    <2> QED
      BY <1>0, <1>5, <1>a, <2>2, <2>3, <2>4 DEF CutOver
  <1>6. ASSUME NEW d \in Deliveries,
               LoseToNewerState(d) \/ LoseToDeletion(d) \/ RecordFails(d)
        PROVE  Goal
    <2>1. delivery' \in [Deliveries -> DeliveryStates]
      BY <1>6, <1>a, <1>p DEF LoseToNewerState, LoseToDeletion, RecordFails
    <2>2. warnings' \subseteq WarningKinds
      BY <1>0, <1>6 DEF LoseToNewerState, LoseToDeletion, RecordFails, WarnIfAhead,
                        WarningKinds
    <2> QED
      BY <1>0, <1>6, <2>1, <2>2 DEF LoseToNewerState, LoseToDeletion, RecordFails
  <1>7. ASSUME NEW d \in Deliveries,
               TearDownCapp(d) \/ TearDownSecret(d) \/ TearDownFails(d)
        PROVE  Goal
    <2>1. delivery' \in [Deliveries -> DeliveryStates]
      BY <1>7, <1>a, <1>p DEF TearDownCapp, TearDownSecret, TearDownFails
    <2>2. /\ capp' \in Cs /\ secrets' \subseteq Ws
          /\ warnings' \subseteq WarningKinds
      BY <1>0, <1>7, NullsTyped
         DEF TearDownCapp, TearDownSecret, TearDownFails, DeleteCapp, DeleteSecret,
             WarningKinds
    <2> QED
      BY <1>0, <1>7, <2>1, <2>2 DEF TearDownCapp, TearDownSecret, TearDownFails
  <1>8. ASSUME NEW d \in Deliveries, RecordFailure(d) PROVE Goal
    <2>1. delivery[d].sha \in Nat
      BY <1>0 DEF DeliveryStates
    <2>2. Append(revisions, Revision("build_failed", delivery[d].sha, NoImage))
             \in Seq(Revisions)
      BY <1>0, <2>1, RevisionTyped, NullsTyped, AppendRevision DEF RevisionActions
    <2>3. Unlocked(row, "build_failed") \in Rows
      BY <1>u DEF BuildStates
    <2> QED
      BY <1>0, <1>8, <1>a, <2>2, <2>3 DEF RecordFailure
  <1>9. ASSUME NEW d \in Deliveries, DeliveryDies(d) PROVE Goal
    BY <1>0, <1>9, <1>a DEF DeliveryDies
  <1> QED
    BY <1>1, <1>2, <1>3, <1>4, <1>5, <1>6, <1>7, <1>8, <1>9 DEF WebhookStep

\* Toggles and DELETE admission keep every variable well formed.
LEMMA TypeLifecycle == TypeOK /\ LifecycleStep => TypeOK'
  <1> SUFFICES ASSUME TypeOK, LifecycleStep PROVE TypeOK'
    OBVIOUS
  <1>0. /\ row \in Rows /\ revisions \in Seq(Revisions) /\ RowTypeOK
        /\ row.gen \in Nat /\ row.digest \in Images /\ NoSha \in Nat
    BY DEF TypeOK, RowTypeOK, NoSha, Rows
  <1>f. SUFFICES row' \in Rows /\ revisions' \in Seq(Revisions)
    BY DEF TypeOK, RowTypeOK, CappTypeOK, AuthoringTypeOK, WebhookTypeOK,
           CascadeTypeOK, LifecycleStep, authoringVars, webhookVars, cascadeVars
  <1>1. ASSUME NEW t \in {"active", "inactive"}, NEW a \in RevisionActions,
               Toggle(t, a)
        PROVE  row' \in Rows /\ revisions' \in Seq(Revisions)
    <2>1. row.gen + 1 \in Nat
      BY <1>0
    <2> QED
      BY <1>0, <1>1, <2>1, LogTyped DEF Toggle, Rows, MatchingStates
  <1>2. CASE BeginDelete
    <2>1. row.gen + 1 \in Nat /\ 1 \in 0..5
      BY <1>0
    <2>2. row' \in Rows
      BY <1>0, <1>2, <2>1 DEF BeginDelete, Rows, MatchingStates
    <2> QED
      BY <1>0, <1>2, <2>2, LogTyped DEF BeginDelete, RevisionActions
  <1> QED
    BY <1>1, <1>2
       DEF LifecycleStep, EnableAutomation, DisableAutomation, RevisionActions

\* The cascade keeps every variable well formed; that its iteration count and
\* its checkpoint stay in range rests on the cascade part of the invariant.
LEMMA TypeCascade == TypeOK /\ RunnersKeepPace /\ CheckpointMatchesState
                     /\ CascadeStep => TypeOK'
  <1> SUFFICES ASSUME TypeOK, RunnersKeepPace, CheckpointMatchesState, CascadeStep
               PROVE  TypeOK'
    OBVIOUS
  <1> DEFINE Cs == [wallet : Wallets \cup {NoWallet}, image : Images]
             Ws == Wallets \cup {NoWallet}
             Rs == [Runners -> RunnerStates]
             Goal == /\ row' \in Rows /\ revisions' \in Seq(Revisions)
                     /\ capp' \in Cs /\ secrets' \subseteq Ws
                     /\ runner' \in Rs
                     /\ registry' \subseteq Images /\ pushes' \in Nat
                     /\ strays' \subseteq Images /\ archives' \in 0..1
  <1>0. /\ row \in Rows /\ revisions \in Seq(Revisions)
        /\ capp \in Cs /\ secrets \subseteq Ws /\ runner \in Rs
        /\ registry \subseteq Images /\ pushes \in Nat /\ archives \in 0..1
        /\ strays \subseteq Images /\ commits \in Nat
    BY DEF TypeOK, RowTypeOK, CappTypeOK, CascadeTypeOK, AuthoringTypeOK
  <1>f. SUFFICES Goal
    BY DEF TypeOK, RowTypeOK, CappTypeOK, AuthoringTypeOK, WebhookTypeOK,
           CascadeTypeOK, CascadeStep, authoringVars, webhookVars
  <1>e. ASSUME NEW r \in Runners, NEW o \in Outcomes, Ends(r, o)
        PROVE  runner' \in Rs
    <2>1. [IdleRunner EXCEPT !.outcome = o] \in RunnerStates
      BY NullsTyped DEF IdleRunner, RunnerStates
    <2> QED
      BY <1>0, <1>e, <2>1 DEF Ends
  <1>g. ASSUME NEW r \in Runners, NEW p \in RunnerPcs, GoesTo(r, p)
        PROVE  runner' \in Rs
    <2>1. [runner[r] EXCEPT !.pc = p] \in RunnerStates
      BY <1>0 DEF RunnerStates
    <2>2. runner' = [runner EXCEPT ![r] = [runner[r] EXCEPT !.pc = p]]
      BY <1>g DEF GoesTo
    <2> QED
      BY <1>0, <2>1, <2>2
  <1>1. ASSUME NEW r \in Runners, StartCascade(r) PROVE Goal
    <2>1. [IdleRunner EXCEPT !.pc = "reading"] \in RunnerStates
      BY NullsTyped DEF IdleRunner, RunnerStates, RunnerPcs
    <2> QED
      BY <1>0, <1>1, <2>1 DEF StartCascade
  <1>2. ASSUME NEW r \in Runners, ReadSnapshot(r) PROVE Goal
    <2>1. CASE runner[r].iter = MaxIterations \/ row.matching = "deleted"
      BY <1>0, <1>2, <1>e, <2>1 DEF ReadSnapshot, Outcomes
    <2>2. CASE runner[r].iter # MaxIterations /\ row.matching # "deleted"
      <3>1. runner[r].iter + 1 \in 0..MaxIterations
        <4>1. runner[r].iter \in 0..MaxIterations
          BY <1>0 DEF RunnerStates
        <4> QED
          BY <2>2, <4>1 DEF MaxIterations, StepDeleted
      <3>2. /\ FirstPc(row.step + 1) \in RunnerPcs
            /\ row.step \in 0..5 /\ row.namespace \in Ws /\ {} \in SUBSET Images
        BY <1>0 DEF FirstPc, RunnerPcs, Rows
      <3>3. [pc |-> FirstPc(row.step + 1), step |-> row.step,
             wallet |-> row.namespace, iter |-> runner[r].iter + 1,
             entries |-> {}, outcome |-> "none"] \in RunnerStates
        BY <3>1, <3>2 DEF RunnerStates, Outcomes
      <3> QED
        BY <1>0, <1>2, <2>2, <3>3 DEF ReadSnapshot
    <2> QED
      BY <2>1, <2>2
  <1>3. ASSUME NEW r \in Runners, RemoveCapp(r) \/ RemoveSecret(r) PROVE Goal
    <2>1. runner' \in Rs
      BY <1>3, <1>g DEF RemoveCapp, RemoveSecret, RunnerPcs
    <2>2. capp' \in Cs /\ secrets' \subseteq Ws
      BY <1>0, <1>3, NullsTyped DEF RemoveCapp, RemoveSecret, DeleteCapp, DeleteSecret
    <2> QED
      BY <1>0, <1>3, <2>1, <2>2 DEF RemoveCapp, RemoveSecret
  <1>4. ASSUME NEW r \in Runners, ListImages(r) PROVE Goal
    <2>1. registry \in SUBSET Images /\ "images" \in RunnerPcs
      BY <1>0 DEF RunnerPcs
    <2>2. [[runner[r] EXCEPT !.pc = "images"] EXCEPT !.entries = registry]
             \in RunnerStates
      BY <1>0, <2>1 DEF RunnerStates
    <2>3. runner' = [runner EXCEPT ![r] =
             [[runner[r] EXCEPT !.pc = "images"] EXCEPT !.entries = registry]]
      BY <1>0, <1>4 DEF ListImages
    <2>4. runner' \in Rs
      BY <1>0, <2>2, <2>3
    <2> QED
      BY <1>0, <1>4, <2>4 DEF ListImages
  <1>5. ASSUME NEW r \in Runners, RemoveImage(r) PROVE Goal
    <2>1. CASE runner[r].entries = {}
      BY <1>0, <1>5, <1>g, <2>1 DEF RemoveImage, RunnerPcs
    <2>2. CASE runner[r].entries # {}
      <3>1. PICK i \in runner[r].entries :
               /\ registry' = registry \ {i}
               /\ runner' = [runner EXCEPT ![r].entries = @ \ {i}]
        BY <1>5, <2>2 DEF RemoveImage
      <3>2. runner[r].entries \ {i} \in SUBSET Images
        BY <1>0 DEF RunnerStates
      <3>3. runner' \in Rs
        <4>1. [runner[r] EXCEPT !.entries = @ \ {i}] \in RunnerStates
          BY <1>0, <3>2 DEF RunnerStates
        <4>2. runner' = [runner EXCEPT ![r] = [runner[r] EXCEPT !.entries = @ \ {i}]]
          BY <3>1
        <4> QED
          BY <1>0, <4>1, <4>2
      <3> QED
        BY <1>0, <1>5, <3>1, <3>3 DEF RemoveImage
    <2> QED
      BY <2>1, <2>2
  <1>6. ASSUME NEW r \in Runners, RelistImages(r) PROVE Goal
    BY <1>0, <1>6, <1>e, <1>g DEF RelistImages, Outcomes, RunnerPcs
  <1>7. ASSUME NEW r \in Runners, ArchiveScript(r) PROVE Goal
    BY <1>0, <1>7, <1>g DEF ArchiveScript, RunnerPcs
  <1>8. ASSUME NEW r \in Runners, SaveCheckpoint(r) PROVE Goal
    <2>1. runner' \in Rs
      BY <1>8, <1>g DEF SaveCheckpoint, RunnerPcs
    <2>2. runner[r].step \in 0..5 /\ runner[r].step <= 4
      BY <1>0, <1>8 DEF SaveCheckpoint, RunnersKeepPace, RunnerStates
    <2>3. NextStep(r) \in 0..5
      BY <2>2 DEF NextStep
    <2>4. row' \in Rows
      BY <1>0, <1>8, <2>3 DEF SaveCheckpoint, Rows, MatchingStates
    <2> QED
      BY <1>0, <1>8, <2>1, <2>4 DEF SaveCheckpoint
  <1>9. ASSUME NEW r \in Runners, StopCascade(r) PROVE Goal
    BY <1>0, <1>9, <1>e DEF StopCascade, Outcomes
  <1>10. ASSUME NEW s \in 1..commits, NEW n \in 1..MaxRuns,
                CiPushes([sha |-> s, run |-> n])
         PROVE  Goal
    <2>1. [sha |-> s, run |-> n] \in Images
      BY <1>0, ControlPlaneAssumption DEF Images
    <2> QED
      BY <1>0, <1>10, <2>1 DEF CiPushes
  <1> QED
    BY <1>1, <1>2, <1>3, <1>4, <1>5, <1>6, <1>7, <1>8, <1>9, <1>10
       DEF CascadeStep

----------------------------------------------------------------------------
(* The cascade: checkpoint and runners.                                    *)

\* What each part of the system may do to the matching axis and the checkpoint.
LEMMA AuthoringKeepsCheckpoint ==
    ASSUME IInv, AuthoringStep
    PROVE  /\ runner' = runner
           /\ \/ row'.matching = row.matching /\ row'.step = row.step
              \/ row.matching = "absent" /\ row'.matching = "inactive"
                 /\ row'.step = 0
  <1>1. row \in Rows /\ NothingBeforeCreate
    BY DEF IInv, TypeOK, RowTypeOK, BuildInv
  <1>2. ASSUME NEW a, CreateInsert(a)
        PROVE  row.matching = "absent" /\ row'.matching = "inactive"
               /\ row'.step = 0
    BY <1>1, <1>2 DEF CreateInsert, NothingBeforeCreate, NoRow
  <1>3. ASSUME NEW e \in Editors, NEW w \in Wallets, ClaimBuild(e, w)
        PROVE  row'.matching = row.matching /\ row'.step = row.step
    BY <1>1, <1>3 DEF ClaimBuild, Rows
  <1>4. ASSUME NEW e \in Editors, ReleaseBuildClaim(e)
        PROVE  row'.matching = row.matching /\ row'.step = row.step
    BY <1>1, <1>4 DEF ReleaseBuildClaim, Rows
  <1>5. ASSUME NEW e \in Editors, FinishEdit(e)
        PROVE  row'.matching = row.matching /\ row'.step = row.step
    BY <1>1, <1>5 DEF FinishEdit, Rows
  <1>6. ASSUME NEW s, ReleaseStuckBuild(s)
        PROVE  row'.matching = row.matching /\ row'.step = row.step
    BY <1>1, <1>6 DEF ReleaseStuckBuild, Rows
  <1>7. runner' = runner
    BY DEF AuthoringStep, cascadeVars
  <1> QED
    BY <1>2, <1>3, <1>4, <1>5, <1>6, <1>7
       DEF AuthoringStep, CreateCommit, CreateInsertFails, CommitScript,
           CommitScriptFails, EditSuperseded, EditorDies

\* A webhook delivery moves neither the matching axis nor the checkpoint.
LEMMA WebhookKeepsCheckpoint ==
    ASSUME IInv, WebhookStep
    PROVE  /\ runner' = runner
           /\ row'.matching = row.matching /\ row'.step = row.step
  <1>1. row \in Rows
    BY DEF IInv, TypeOK, RowTypeOK
  <1>2. ASSUME NEW d \in Deliveries, CutOver(d)
        PROVE  row'.matching = row.matching /\ row'.step = row.step
    BY <1>1, <1>2 DEF CutOver, Unlocked, Rows
  <1>3. ASSUME NEW d \in Deliveries, RecordFailure(d)
        PROVE  row'.matching = row.matching /\ row'.step = row.step
    BY <1>1, <1>3 DEF RecordFailure, Unlocked, Rows
  <1>4. runner' = runner
    BY DEF WebhookStep, cascadeVars
  <1> QED
    BY <1>2, <1>3, <1>4
       DEF WebhookStep, AdmitSuccess, AdmitFailure, Deploy, DeployFails,
           LoseToNewerState, LoseToDeletion, RecordFails, TearDownCapp,
           TearDownSecret, TearDownFails, DeliveryDies

\* Toggles keep a live row live; only begin_delete writes the first checkpoint.
LEMMA LifecycleKeepsCheckpoint ==
    ASSUME IInv, LifecycleStep
    PROVE  /\ runner' = runner
           /\ Live
           /\ \/ row'.matching \in {"inactive", "active"} /\ row'.step = row.step
              \/ row'.matching = "deleting" /\ row'.step = 1
  <1>1. row \in Rows
    BY DEF IInv, TypeOK, RowTypeOK
  <1>2. runner' = runner
    BY DEF LifecycleStep, cascadeVars
  <1> QED
    BY <1>1, <1>2 DEF LifecycleStep, EnableAutomation, DisableAutomation, Toggle,
                      BeginDelete, Rows

\* Only the compare-and-set moves the checkpoint, and only by one.
LEMMA CascadeMovesCheckpoint ==
    ASSUME IInv, CascadeStep
    PROVE  \/ row' = row
           \/ \E r \in Runners :
                /\ SaveCheckpoint(r)
                /\ row.matching = "deleting" /\ row'.step = row.step + 1
                /\ row'.matching = IF row.step = 4 THEN "deleted" ELSE "deleting"
  <1>1. row \in Rows /\ CheckpointMatchesState
    BY DEF IInv, TypeOK, RowTypeOK, CascadeInv
  <1>2. ASSUME NEW r \in Runners, SaveCheckpoint(r), row' # row
        PROVE  /\ row.matching = "deleting" /\ row'.step = row.step + 1
               /\ row'.matching = IF row.step = 4 THEN "deleted" ELSE "deleting"
    <2>1. row.matching = "deleting" /\ row.step = runner[r].step /\ row.step \in 1..4
      BY <1>1, <1>2 DEF SaveCheckpoint, CheckpointMatches, CheckpointMatchesState
    <2> QED
      BY <1>1, <1>2, <2>1
         DEF SaveCheckpoint, CheckpointMatches, NextStep, StepDeleted, Rows
  <1> QED
    BY <1>2 DEF CascadeStep, StartCascade, ReadSnapshot, RemoveCapp, RemoveSecret,
                ListImages, RemoveImage, RelistImages, ArchiveScript, StopCascade,
                CiPushes

\* Every step keeps the checkpoint where the matching state says it is.
LEMMA CheckpointStep == IInv /\ Next => CheckpointMatchesState'
  <1> SUFFICES ASSUME IInv, Next PROVE CheckpointMatchesState'
    OBVIOUS
  <1>1. row \in Rows /\ CheckpointMatchesState
    BY DEF IInv, TypeOK, RowTypeOK, CascadeInv
  <1>2. CASE AuthoringStep
    BY <1>1, <1>2, AuthoringKeepsCheckpoint DEF CheckpointMatchesState
  <1>3. CASE WebhookStep
    BY <1>1, <1>3, WebhookKeepsCheckpoint DEF CheckpointMatchesState
  <1>4. CASE LifecycleStep
    BY <1>1, <1>4, LifecycleKeepsCheckpoint DEF CheckpointMatchesState, Live
  <1>5. CASE CascadeStep
    BY <1>1, <1>5, CascadeMovesCheckpoint DEF CheckpointMatchesState
  <1> QED
    BY <1>2, <1>3, <1>4, <1>5 DEF Next

\* Every step leaves each runner at or behind the checkpoint, with no more
\* iterations than steps.
LEMMA RunnersStep == IInv /\ Next => RunnersKeepPace'
  <1> SUFFICES ASSUME IInv, Next, NEW q \in Runners
               PROVE  /\ runner[q]'.outcome # "no_progress"
                      /\ runner[q]'.pc = "idle" => runner[q]'.iter = 0
                      /\ runner[q]'.pc # "idle" => row'.matching \in DeletionStates
                      /\ runner[q]'.pc = "reading" => runner[q]'.iter <= row'.step
                      /\ runner[q]'.pc \notin {"idle", "reading"} =>
                            /\ runner[q]'.iter <= runner[q]'.step + 1
                            /\ runner[q]'.step <= row'.step
                            /\ runner[q]'.step <= 4
    BY DEF RunnersKeepPace
  <1> DEFINE Pace(x, rw) ==
        /\ x.outcome # "no_progress"
        /\ x.pc = "idle" => x.iter = 0
        /\ x.pc # "idle" => rw.matching \in DeletionStates
        /\ x.pc = "reading" => x.iter <= rw.step
        /\ x.pc \notin {"idle", "reading"} =>
              x.iter <= x.step + 1 /\ x.step <= rw.step /\ x.step <= 4
  <1>f. SUFFICES Pace(runner'[q], row')
    OBVIOUS
  <1>1. /\ row \in Rows /\ runner \in [Runners -> RunnerStates]
        /\ CheckpointMatchesState /\ RunnersKeepPace
        /\ row.step \in 0..5 /\ row.step \in Nat
    BY DEF IInv, TypeOK, RowTypeOK, CascadeTypeOK, CascadeInv, Rows
  <1>2. \A r \in Runners : Pace(runner[r], row)
    BY <1>1 DEF RunnersKeepPace
  <1>3. \A r \in Runners :
           runner[r].iter \in Nat /\ runner[r].step \in Nat /\ runner[r] \in RunnerStates
    BY <1>1, NullsTyped DEF RunnerStates
  <1>4. CASE AuthoringStep
    BY <1>2, <1>4, AuthoringKeepsCheckpoint DEF DeletionStates
  <1>5. CASE WebhookStep
    BY <1>2, <1>5, WebhookKeepsCheckpoint
  <1>6. CASE LifecycleStep
    BY <1>2, <1>6, LifecycleKeepsCheckpoint DEF DeletionStates, Live
  \* A row whose checkpoint has not moved back keeps every other runner's pace.
  <1>7. ASSUME NEW rw, rw.step \in Nat, row.step <= rw.step,
               row.matching \in DeletionStates => rw.matching \in DeletionStates
        PROVE  Pace(runner[q], rw)
    BY <1>1, <1>2, <1>3, <1>7
  <1>8. CASE CascadeStep
    <2>e. ASSUME NEW r \in Runners, NEW o \in Outcomes \ {"no_progress"},
                 Ends(r, o), row' = row
          PROVE  Pace(runner'[q], row')
      <3>1. [IdleRunner EXCEPT !.outcome = o].pc = "idle"
            /\ [IdleRunner EXCEPT !.outcome = o].iter = 0
            /\ [IdleRunner EXCEPT !.outcome = o].outcome = o
        BY DEF IdleRunner
      <3> QED
        BY <1>1, <1>2, <2>e, <3>1 DEF Ends
    <2>g. ASSUME NEW r \in Runners, NEW p \in RunnerPcs \ {"idle", "reading"},
                 runner[r].pc \notin {"idle", "reading"}, GoesTo(r, p), row' = row
          PROVE  Pace(runner'[q], row')
      BY <1>1, <1>2, <1>3, <2>g DEF GoesTo, RunnerStates
    <2>1. ASSUME NEW r \in Runners, StartCascade(r) PROVE Pace(runner'[q], row')
      <3>1. [IdleRunner EXCEPT !.pc = "reading"].pc = "reading"
            /\ [IdleRunner EXCEPT !.pc = "reading"].iter = 0
            /\ [IdleRunner EXCEPT !.pc = "reading"].outcome = "none"
        BY DEF IdleRunner
      <3> QED
        BY <1>1, <1>2, <2>1, <3>1 DEF StartCascade, DeletionStates
    <2>2. ASSUME NEW r \in Runners, ReadSnapshot(r) PROVE Pace(runner'[q], row')
      <3>1. runner[r].iter <= row.step /\ runner[r].iter # MaxIterations
        BY <1>1, <1>2, <1>3, <2>2, NullsTyped DEF ReadSnapshot
      <3>2. CASE row.matching = "deleted"
        BY <2>2, <2>e, <3>1, <3>2 DEF ReadSnapshot, Outcomes
      <3>3. CASE row.matching # "deleted"
        <4>1. row.matching = "deleting" /\ row.step <= 4
          BY <1>1, <2>2, <3>3 DEF ReadSnapshot, DeletionStates, CheckpointMatchesState
        <4>2. FirstPc(row.step + 1) \notin {"idle", "reading"}
          BY <1>1 DEF FirstPc
        <4>3. runner' = [runner EXCEPT ![r] =
                 [pc |-> FirstPc(row.step + 1), step |-> row.step,
                  wallet |-> row.namespace, iter |-> runner[r].iter + 1,
                  entries |-> {}, outcome |-> "none"]] /\ row' = row
          BY <2>2, <3>1, <3>3 DEF ReadSnapshot
        <4>4. CASE q = r
          BY <1>1, <1>3, <3>1, <4>1, <4>2, <4>3, <4>4 DEF DeletionStates
        <4>5. CASE q # r
          BY <1>1, <1>2, <4>3, <4>5
        <4> QED
          BY <4>4, <4>5
      <3> QED
        BY <3>2, <3>3
    <2>3. ASSUME NEW r \in Runners, RemoveCapp(r) \/ RemoveSecret(r) \/ ArchiveScript(r)
          PROVE  Pace(runner'[q], row')
      BY <2>3, <2>g DEF RemoveCapp, RemoveSecret, ArchiveScript, RunnerPcs
    <2>4. ASSUME NEW r \in Runners, ListImages(r) PROVE Pace(runner'[q], row')
      BY <1>1, <1>2, <1>3, <2>4 DEF ListImages, RunnerStates
    <2>5. ASSUME NEW r \in Runners, RemoveImage(r) PROVE Pace(runner'[q], row')
      <3>1. CASE runner[r].entries = {}
        BY <2>5, <2>g, <3>1 DEF RemoveImage, RunnerPcs
      <3>2. CASE runner[r].entries # {}
        BY <1>1, <1>2, <1>3, <2>5, <3>2 DEF RemoveImage, RunnerStates
      <3> QED
        BY <3>1, <3>2
    <2>6. ASSUME NEW r \in Runners, RelistImages(r) PROVE Pace(runner'[q], row')
      BY <2>6, <2>e, <2>g DEF RelistImages, RunnerPcs, Outcomes
    <2>7. ASSUME NEW r \in Runners, StopCascade(r) PROVE Pace(runner'[q], row')
      BY <2>7, <2>e DEF StopCascade, Outcomes
    <2>8. ASSUME NEW r \in Runners, SaveCheckpoint(r) PROVE Pace(runner'[q], row')
      <3>1. /\ runner[r].iter <= runner[r].step + 1 /\ runner[r].step <= row.step
            /\ runner[r].step <= 4 /\ row.matching \in DeletionStates
            /\ runner[r].outcome # "no_progress"
        BY <1>2, <2>8 DEF SaveCheckpoint
      <3>2. /\ row'.matching \in DeletionStates /\ row'.step \in Nat
            /\ row.step <= row'.step /\ runner[r].step + 1 <= row'.step
        <4>1. CASE CheckpointMatches(r)
          BY <1>1, <1>3, <2>8, <3>1, <4>1
             DEF SaveCheckpoint, CheckpointMatches, NextStep, Rows, DeletionStates
        <4>2. CASE ~CheckpointMatches(r)
          <5>1. row' = row
            BY <2>8, <4>2 DEF SaveCheckpoint
          <5>2. runner[r].step < row.step
            BY <1>1, <1>3, <3>1, <4>2
               DEF CheckpointMatches, DeletionStates, CheckpointMatchesState
          <5> QED
            BY <1>1, <1>3, <3>1, <5>1, <5>2
        <4> QED
          BY <4>1, <4>2
      <3>3. CASE q = r
        <4>1. /\ runner'[r].pc = "reading" /\ runner'[r].iter = runner[r].iter
              /\ runner'[r].outcome = runner[r].outcome
          BY <1>1, <2>8 DEF SaveCheckpoint, GoesTo, RunnerStates
        <4> QED
          BY <1>1, <1>3, <3>1, <3>2, <3>3, <4>1
      <3>4. CASE q # r
        <4>1. runner'[q] = runner[q]
          BY <1>1, <2>8, <3>4 DEF SaveCheckpoint, GoesTo
        <4> QED
          BY <1>7, <3>2, <4>1
      <3> QED
        BY <3>3, <3>4
    <2>9. ASSUME NEW i, CiPushes(i) PROVE Pace(runner'[q], row')
      BY <1>2, <2>9 DEF CiPushes
    <2> QED
      BY <1>8, <2>1, <2>2, <2>3, <2>4, <2>5, <2>6, <2>7, <2>8, <2>9
         DEF CascadeStep
  <1> QED
    BY <1>4, <1>5, <1>6, <1>8 DEF Next

----------------------------------------------------------------------------
(* Authoring, builds and toggles.                                          *)

\* The facts about types that the steps below use.
LEMMA BuildTypes ==
    ASSUME IInv
    PROVE  /\ RowTypeOK /\ row \in Rows /\ revisions \in Seq(Revisions)
           /\ Len(revisions) \in Nat /\ DOMAIN revisions = 1..Len(revisions)
           /\ row.deadline \in Nat /\ row.sha \in Nat
           /\ \A i \in DOMAIN revisions : revisions[i].sha \in Nat
           /\ creator \in CreatorStates /\ editor \in [Editors -> EditorStates]
           /\ commits \in Nat /\ clock \in Nat
           /\ delivery \in [Deliveries -> DeliveryStates]
           /\ NoSha = 0 /\ NoDeadline = 0 /\ NoWallet \notin Wallets
           /\ BuildInv
  <1>1. /\ RowTypeOK /\ row \in Rows /\ revisions \in Seq(Revisions)
        /\ creator \in CreatorStates /\ editor \in [Editors -> EditorStates]
        /\ commits \in Nat /\ clock \in Nat
        /\ delivery \in [Deliveries -> DeliveryStates]
        /\ NoSha = 0 /\ NoDeadline = 0 /\ NoWallet \notin Wallets
        /\ BuildInv
    BY WalletAssumption
       DEF IInv, TypeOK, RowTypeOK, AuthoringTypeOK, WebhookTypeOK, NoSha, NoDeadline
  <1>2. Len(revisions) \in Nat /\ DOMAIN revisions = 1..Len(revisions)
    BY <1>1, LenProperties
  <1>3. row.deadline \in Nat /\ row.sha \in Nat
    BY <1>1 DEF Rows
  <1>4. \A i \in DOMAIN revisions : revisions[i] \in Revisions
    BY <1>1, <1>2, ElementOfSeq
  <1>5. \A i \in DOMAIN revisions : revisions[i].sha \in Nat
    BY <1>4 DEF Revisions
  <1> QED
    BY <1>1, <1>2, <1>3, <1>5

\* The cascade leaves everything the build invariant reads as it is.
LEMMA BuildInvCascade == IInv /\ CascadeStep => BuildInv'
  <1> SUFFICES ASSUME IInv, CascadeStep PROVE BuildInv'
    OBVIOUS
  <1>1. /\ creator' = creator /\ editor' = editor /\ commits' = commits
        /\ clock' = clock /\ delivery' = delivery
    BY DEF CascadeStep, authoringVars, webhookVars
  <1>2. revisions' = revisions
    BY DEF CascadeStep, StartCascade, ReadSnapshot, RemoveCapp, RemoveSecret,
           ListImages, RemoveImage, RelistImages, ArchiveScript, SaveCheckpoint,
           StopCascade, CiPushes
  <1>3. CASE row' = row
    BY <1>1, <1>2, <1>3
       DEF IInv, BuildInv, NothingBeforeCreate, ClaimsFenced, ClaimKeepsWallet,
           CommitsFresh, DeliveriesRequested, DeletingNeverBuilding, BuildLockSound,
           DeploymentInRowWallet, HoldsClaim, CheckWalletUnchanged, LatestRequestIs
  <1>4. CASE row' # row
    <2>1. PICK r \in Runners : SaveCheckpoint(r) /\ row.matching = "deleting"
                /\ row'.matching \in DeletionStates
      BY <1>4, CascadeMovesCheckpoint DEF DeletionStates
    <2>2. /\ row'.build = row.build /\ row'.sha = row.sha
          /\ row'.deadline = row.deadline /\ row'.deployed = row.deployed
          /\ row'.namespace = row.namespace
      BY <2>1, BuildTypes DEF SaveCheckpoint, Rows
    <2>3. \A s : LatestRequestIs(s)' <=> LatestRequestIs(s)
      BY <1>2 DEF LatestRequestIs
    <2>4. BuildInv /\ row.matching \in DeletionStates
      BY <2>1 DEF IInv, DeletionStates
    <2>5. NothingBeforeCreate'
      BY <1>1, <1>2, <2>1, <2>4 DEF BuildInv, NothingBeforeCreate, DeletionStates
    <2>6. ClaimsFenced' /\ ClaimKeepsWallet' /\ CommitsFresh'
      BY <1>1, <1>2, <2>2, <2>4
         DEF BuildInv, ClaimsFenced, ClaimKeepsWallet, CommitsFresh, HoldsClaim,
             CheckWalletUnchanged
    <2>7. DeliveriesRequested'
      BY <1>1, <1>2, <2>2, <2>3, <2>4 DEF BuildInv, DeliveriesRequested
    <2>8. DeletingNeverBuilding' /\ BuildLockSound' /\ DeploymentInRowWallet'
      BY <2>2, <2>3, <2>4
         DEF BuildInv, DeletingNeverBuilding, BuildLockSound, DeploymentInRowWallet
    <2> QED
      BY <2>5, <2>6, <2>7, <2>8 DEF BuildInv
  <1> QED
    BY <1>3, <1>4

\* A revision that requests nothing, with a SHA already recorded or NULL, keeps
\* every fact about the log.
LEMMA OtherRevisionKeepsLog ==
    ASSUME IInv, NEW a \in RevisionActions \ RequestingActions, NEW s \in Nat,
           NEW g \in Images, NEW q \in Seq(Revisions), Len(q) = Len(revisions),
           \A i \in 1..Len(revisions) :
              q[i].action = revisions[i].action /\ q[i].sha = revisions[i].sha,
           s = NoSha \/ \E i \in DOMAIN revisions : revisions[i].sha = s,
           revisions' = Append(q, Revision(a, s, g)),
           commits' = commits, creator' = creator,
           \A e \in Editors : editor'[e] = editor[e]
    PROVE  /\ CommitsFresh'
           /\ \A t : LatestRequestIs(t)' <=> LatestRequestIs(t)
           /\ \A t : (\E i \in DOMAIN revisions : revisions[i].sha = t)
                        => \E i \in DOMAIN revisions' : revisions'[i].sha = t
  <1> DEFINE n == Len(revisions)
  <1>1. Revision(a, s, g) \in Revisions /\ Revision(a, s, g).action = a
        /\ Revision(a, s, g).sha = s
    BY RevisionTyped DEF Revision
  <1>2. /\ n \in Nat /\ DOMAIN revisions = 1..n /\ DOMAIN revisions' = 1..(n + 1)
        /\ revisions'[n + 1].sha = s
        /\ \A i \in 1..n : revisions'[i].sha = revisions[i].sha
    BY <1>1, AppendRevision, BuildTypes
  <1>3. \A t : LatestRequestIs(t)' <=> LatestRequestIs(t)
    BY <1>1, BuildTypes, NewestAfterOther
  <1>4. CommitsFresh /\ s <= commits
    BY BuildTypes DEF BuildInv, CommitsFresh
  <1>5. CommitsFresh'
    <2>1. \A i \in DOMAIN revisions' : revisions'[i].sha <= commits'
      BY <1>2, <1>4, BuildTypes DEF CommitsFresh
    <2>2. ASSUME NEW e \in Editors, editor[e].pc = "finishing",
                 NEW i \in DOMAIN revisions'
          PROVE  revisions'[i].sha # editor[e].sha
      BY <1>2, <1>4, <2>2, BuildTypes DEF CommitsFresh
    <2> QED
      BY <1>4, <2>1, <2>2 DEF CommitsFresh
  <1> QED
    BY <1>2, <1>3, <1>5

\* Toggles and DELETE admission: only a live row, and never a building one when
\* it starts deleting.
LEMMA BuildInvLifecycle == IInv /\ LifecycleStep => BuildInv'
  <1> SUFFICES ASSUME IInv, LifecycleStep PROVE BuildInv'
    OBVIOUS
  <1>1. /\ creator' = creator /\ editor' = editor /\ commits' = commits
        /\ clock' = clock /\ delivery' = delivery
    BY DEF LifecycleStep, authoringVars, webhookVars
  <1>2. /\ Live
        /\ row'.build = row.build /\ row'.sha = row.sha
        /\ row'.deadline = row.deadline /\ row'.deployed = row.deployed
        /\ row'.namespace = row.namespace /\ row'.matching # "absent"
        /\ row'.matching \in DeletionStates => row.build # "building"
    BY BuildTypes DEF LifecycleStep, EnableAutomation, DisableAutomation, Toggle,
                      BeginDelete, Rows, DeletionStates
  <1>3. /\ CommitsFresh'
        /\ \A t : LatestRequestIs(t)' <=> LatestRequestIs(t)
        /\ \A t : (\E i \in DOMAIN revisions : revisions[i].sha = t)
                     => \E i \in DOMAIN revisions' : revisions'[i].sha = t
    <2>1. PICK a \in {"enable", "disable", "delete"} :
             revisions' = Append(revisions, Revision(a, NoSha, row.digest))
      BY DEF LifecycleStep, EnableAutomation, DisableAutomation, Toggle, BeginDelete
    <2>2. a \in RevisionActions \ RequestingActions
      BY DEF RevisionActions, RequestingActions
    <2>3. row.digest \in Images
      BY BuildTypes DEF Rows
    <2> QED
      BY <1>1, <2>1, <2>2, <2>3, BuildTypes, OtherRevisionKeepsLog
  <1>4. BuildInv
    BY BuildTypes
  <1>5. NothingBeforeCreate'
    BY <1>1, <1>2, <1>4 DEF BuildInv, NothingBeforeCreate, Live
  <1>6. ClaimsFenced' /\ ClaimKeepsWallet'
    BY <1>1, <1>2, <1>4
       DEF BuildInv, ClaimsFenced, ClaimKeepsWallet, HoldsClaim, CheckWalletUnchanged
  <1>7. DeliveriesRequested'
    BY <1>1, <1>2, <1>3, <1>4 DEF BuildInv, DeliveriesRequested
  <1>8. DeletingNeverBuilding' /\ BuildLockSound' /\ DeploymentInRowWallet'
    BY <1>2, <1>3, <1>4
       DEF BuildInv, DeletingNeverBuilding, BuildLockSound, DeploymentInRowWallet
  <1> QED
    BY <1>3, <1>5, <1>6, <1>7, <1>8 DEF BuildInv

\* A delivery that is answered, or moves on past its CAPP call, with the row and
\* the log unchanged.
LEMMA DeliveryMovesOn ==
    ASSUME IInv, UNCHANGED <<row, revisions, authoringVars>>,
           NEW d \in Deliveries,
           \/ Answered(d)
           \/ /\ delivery[d].pc # "idle"
              /\ \E p \in {"tearing_capp", "tearing_secret"} :
                    delivery' = [delivery EXCEPT ![d].pc = p]
           \/ /\ delivery[d].pc \in {"deploying", "recording"}
              /\ delivery' = [delivery EXCEPT ![d].pc = "recording"]
    PROVE  BuildInv'
  <1>1. /\ row' = row /\ revisions' = revisions /\ creator' = creator
        /\ editor' = editor /\ commits' = commits /\ clock' = clock
    BY DEF authoringVars
  <1>2. BuildInv /\ delivery \in [Deliveries -> DeliveryStates]
    BY BuildTypes
  <1>3. \A s : LatestRequestIs(s)' <=> LatestRequestIs(s)
    BY <1>1 DEF LatestRequestIs
  <1>4. ASSUME NEW c \in Deliveries
        PROVE  \/ delivery'[c].pc = "idle"
               \/ /\ delivery[c].pc # "idle"
                  /\ delivery'[c].sha = delivery[c].sha
                  /\ delivery'[c].image = delivery[c].image
                  /\ delivery'[c].wallet = delivery[c].wallet
                  /\ delivery'[c].pc \in {"deploying", "recording"} =>
                        delivery[c].pc \in {"deploying", "recording"}
    <2>1. CASE Answered(d)
      BY <1>2, <2>1 DEF Answered, IdleDelivery
    <2>2. CASE /\ delivery[d].pc # "idle"
               /\ \E p \in {"tearing_capp", "tearing_secret"} :
                     delivery' = [delivery EXCEPT ![d].pc = p]
      BY <1>2, <2>2 DEF DeliveryStates
    <2>3. CASE /\ delivery[d].pc \in {"deploying", "recording"}
               /\ delivery' = [delivery EXCEPT ![d].pc = "recording"]
      BY <1>2, <2>3 DEF DeliveryStates
    <2> QED
      BY <2>1, <2>2, <2>3
  <1>5. NothingBeforeCreate'
    BY <1>1, <1>2, <1>4 DEF BuildInv, NothingBeforeCreate
  <1>6. ClaimsFenced' /\ ClaimKeepsWallet' /\ CommitsFresh'
    BY <1>1, <1>2
       DEF BuildInv, ClaimsFenced, ClaimKeepsWallet, CommitsFresh, HoldsClaim,
           CheckWalletUnchanged
  <1>7. DeliveriesRequested'
    BY <1>1, <1>2, <1>3, <1>4 DEF BuildInv, DeliveriesRequested
  <1>8. DeletingNeverBuilding' /\ BuildLockSound' /\ DeploymentInRowWallet'
    BY <1>1, <1>2, <1>3
       DEF BuildInv, DeletingNeverBuilding, BuildLockSound, DeploymentInRowWallet
  <1> QED
    BY <1>5, <1>6, <1>7, <1>8 DEF BuildInv

\* Admission means that the row waits for this very commit.
LEMMA AdmissionApplies ==
    ASSUME NEW s, Admission(s) = "applies"
    PROVE  row.matching \notin DeletionStates /\ row.build = "building" /\ row.sha = s
  BY DEF Admission

\* A cutover is for the newest requested commit, on a row that is not deleting.
LEMMA CutoverAdmitted ==
    ASSUME IInv, NEW d \in Deliveries, delivery[d].pc = "recording",
           MayCutOver(delivery[d].sha)
    PROVE  /\ row.matching \notin DeletionStates
           /\ LatestRequestIs(delivery[d].sha)
           /\ delivery[d].wallet = row.namespace
           /\ delivery[d].image.sha = delivery[d].sha
  <1>1. /\ delivery[d].sha # NoSha
        /\ delivery[d].image.sha = delivery[d].sha
        /\ LatestRequestIs(delivery[d].sha) => delivery[d].wallet = row.namespace
    BY BuildTypes DEF BuildInv, DeliveriesRequested
  <1>2. CASE Admission(delivery[d].sha) = "applies"
    BY <1>1, <1>2, AdmissionApplies, BuildTypes DEF BuildInv, BuildLockSound
  <1>3. CASE Admission(delivery[d].sha) = "not_building"
             /\ FailureRaced(delivery[d].sha)
    BY <1>1, <1>3 DEF Admission, FailureRaced
  <1> QED
    BY <1>2, <1>3 DEF MayCutOver

\* A delivery writes the outcome of the build: the lock is released, the log
\* grows by one revision that requests nothing.
LEMMA OutcomeRecorded ==
    ASSUME IInv, NEW d \in Deliveries, delivery[d].pc # "idle", Answered(d),
           UNCHANGED authoringVars,
           row.matching \notin DeletionStates,
           row'.matching = row.matching, row'.namespace = row.namespace,
           row'.build \in {"idle", "build_failed"},
           row'.sha = NoSha, row'.deadline = NoDeadline,
           row'.deployed \in {row.deployed, row.namespace},
           NEW a \in {"build_succeeded", "build_failed"}, NEW g \in Images,
           NEW q \in Seq(Revisions), Len(q) = Len(revisions),
           \A i \in 1..Len(revisions) :
              q[i].action = revisions[i].action /\ q[i].sha = revisions[i].sha,
           revisions' = Append(q, Revision(a, delivery[d].sha, g))
    PROVE  BuildInv'
  <1>1. /\ creator' = creator /\ editor' = editor /\ commits' = commits
        /\ clock' = clock
    BY DEF authoringVars
  <1>2. /\ BuildInv /\ delivery \in [Deliveries -> DeliveryStates]
        /\ clock \in Nat /\ NoDeadline = 0 /\ NoSha = 0
    BY BuildTypes
  <1>3. /\ delivery[d].sha \in Nat
        /\ \E i \in DOMAIN revisions : revisions[i].sha = delivery[d].sha
        /\ row.matching # "absent"
    BY <1>2 DEF BuildInv, DeliveriesRequested, DeliveryStates, NothingBeforeCreate
  <1>4. a \in RevisionActions \ RequestingActions
    BY DEF RevisionActions, RequestingActions
  <1>5. /\ CommitsFresh'
        /\ \A t : LatestRequestIs(t)' <=> LatestRequestIs(t)
        /\ \A t : (\E i \in DOMAIN revisions : revisions[i].sha = t)
                     => \E i \in DOMAIN revisions' : revisions'[i].sha = t
    BY <1>1, <1>3, <1>4, OtherRevisionKeepsLog
  <1>6. \A c \in Deliveries :
           delivery'[c].pc = "idle" \/ delivery'[c] = delivery[c]
    BY <1>2 DEF Answered, IdleDelivery
  <1>7. NothingBeforeCreate'
    BY <1>1, <1>2, <1>3 DEF BuildInv, NothingBeforeCreate
  <1>8. ClaimsFenced' /\ ClaimKeepsWallet'
    BY <1>1, <1>2 DEF BuildInv, ClaimsFenced, ClaimKeepsWallet, HoldsClaim
  <1>9. DeliveriesRequested'
    BY <1>2, <1>5, <1>6 DEF BuildInv, DeliveriesRequested
  <1>10. DeletingNeverBuilding' /\ BuildLockSound'
    BY <1>2 DEF DeletingNeverBuilding, BuildLockSound
  <1>11. DeploymentInRowWallet'
    BY <1>2 DEF BuildInv, DeploymentInRowWallet
  <1> QED
    BY <1>5, <1>7, <1>8, <1>9, <1>10, <1>11 DEF BuildInv

\* A delivery that phase 1 admits is for the newest request, in the row's wallet.
LEMMA DeliveryAdmitted ==
    ASSUME IInv, UNCHANGED <<row, revisions, authoringVars>>,
           NEW d \in Deliveries, NEW s \in 1..commits, NEW g, NEW w, NEW o, NEW p,
           Admission(s) = "applies", row.matching # "absent",
           p \in {"deploying", "recording"} => g.sha = s /\ w = row.namespace,
           delivery' = [delivery EXCEPT ![d] =
                          [pc |-> p, sha |-> s, image |-> g, wallet |-> w,
                           operation |-> o]]
    PROVE  BuildInv'
  <1>1. /\ row' = row /\ revisions' = revisions /\ creator' = creator
        /\ editor' = editor /\ commits' = commits /\ clock' = clock
    BY DEF authoringVars
  <1>2. BuildInv /\ delivery \in [Deliveries -> DeliveryStates] /\ commits \in Nat
        /\ NoSha = 0
    BY BuildTypes
  <1>3. \A t : LatestRequestIs(t)' <=> LatestRequestIs(t)
    BY <1>1 DEF LatestRequestIs
  <1>4. LatestRequestIs(s) /\ s # NoSha
    BY <1>2, AdmissionApplies DEF BuildInv, BuildLockSound
  <1>5. \E i \in DOMAIN revisions : revisions[i].sha = s
    BY <1>4 DEF LatestRequestIs
  <1>6. ASSUME NEW c \in Deliveries
        PROVE  \/ delivery'[c] = delivery[c]
               \/ /\ delivery'[c].sha = s
                  /\ delivery'[c].pc = p /\ delivery'[c].image = g
                  /\ delivery'[c].wallet = w
    BY <1>2
  <1>7. NothingBeforeCreate'
    BY <1>1, <1>2 DEF BuildInv, NothingBeforeCreate
  <1>8. ClaimsFenced' /\ ClaimKeepsWallet' /\ CommitsFresh'
    BY <1>1, <1>2
       DEF BuildInv, ClaimsFenced, ClaimKeepsWallet, CommitsFresh, HoldsClaim,
           CheckWalletUnchanged
  <1>9. DeliveriesRequested'
    <2> SUFFICES ASSUME NEW c \in Deliveries, delivery'[c].pc # "idle"
                 PROVE  /\ delivery'[c].sha # NoSha
                        /\ \E i \in DOMAIN revisions : revisions[i].sha = delivery'[c].sha
                        /\ delivery'[c].pc \in {"deploying", "recording"} =>
                              /\ delivery'[c].image.sha = delivery'[c].sha
                              /\ LatestRequestIs(delivery'[c].sha)
                                    => delivery'[c].wallet = row.namespace
      BY <1>1, <1>3 DEF DeliveriesRequested
    <2>1. CASE delivery'[c] = delivery[c]
      BY <1>2, <2>1 DEF BuildInv, DeliveriesRequested
    <2>2. CASE /\ delivery'[c].sha = s
               /\ delivery'[c].pc = p /\ delivery'[c].image = g
               /\ delivery'[c].wallet = w
      BY <1>4, <1>5, <2>2
    <2> QED
      BY <1>6, <2>1, <2>2
  <1>10. DeletingNeverBuilding' /\ BuildLockSound' /\ DeploymentInRowWallet'
    BY <1>1, <1>2, <1>3
       DEF BuildInv, DeletingNeverBuilding, BuildLockSound, DeploymentInRowWallet
  <1> QED
    BY <1>7, <1>8, <1>9, <1>10 DEF BuildInv

\* Every phase of a delivery keeps the build invariant.
LEMMA BuildInvWebhook == IInv /\ WebhookStep => BuildInv'
  <1> SUFFICES ASSUME IInv, WebhookStep PROVE BuildInv'
    OBVIOUS
  <1>0. UNCHANGED authoringVars
    BY DEF WebhookStep
  <1>1. ASSUME NEW d \in Deliveries, NEW s \in 1..commits, NEW n \in 1..MaxRuns,
               NEW own, AdmitSuccess(d, s, [sha |-> s, run |-> n], own)
        PROVE  BuildInv'
    <2>1. PICK o : delivery' = [delivery EXCEPT ![d] =
                      [pc |-> "deploying", sha |-> s,
                       image |-> [sha |-> s, run |-> n],
                       wallet |-> row.namespace, operation |-> o]]
      BY <1>1 DEF AdmitSuccess
    <2>2. /\ UNCHANGED <<row, revisions, authoringVars>>
          /\ Admission(s) = "applies" /\ row.matching # "absent"
      BY <1>0, <1>1 DEF AdmitSuccess
    <2>3. [sha |-> s, run |-> n].sha = s
      OBVIOUS
    <2> QED
      BY <2>1, <2>2, <2>3, DeliveryAdmitted
  <1>2. ASSUME NEW d \in Deliveries, NEW s \in 1..commits, AdmitFailure(d, s)
        PROVE  BuildInv'
    <2>1. /\ UNCHANGED <<row, revisions, authoringVars>>
          /\ Admission(s) = "applies" /\ row.matching # "absent"
          /\ delivery' = [delivery EXCEPT ![d] =
                            [pc |-> "failing", sha |-> s, image |-> NoImage,
                             wallet |-> NoWallet, operation |-> "none"]]
      BY <1>0, <1>2 DEF AdmitFailure
    <2>2. "failing" \notin {"deploying", "recording"}
      OBVIOUS
    <2> QED
      BY <2>1, <2>2, DeliveryAdmitted
  <1>3. ASSUME NEW d \in Deliveries,
               \/ Deploy(d) \/ DeployFails(d) \/ LoseToNewerState(d)
               \/ LoseToDeletion(d) \/ RecordFails(d) \/ TearDownCapp(d)
               \/ TearDownSecret(d) \/ TearDownFails(d) \/ DeliveryDies(d)
        PROVE  BuildInv'
    <2>1. UNCHANGED <<row, revisions, authoringVars>>
      BY <1>0, <1>3
         DEF Deploy, DeployFails, LoseToNewerState, LoseToDeletion, RecordFails,
             TearDownCapp, TearDownSecret, TearDownFails, DeliveryDies
    <2>2. \/ Answered(d)
          \/ /\ delivery[d].pc # "idle"
             /\ \E p \in {"tearing_capp", "tearing_secret"} :
                   delivery' = [delivery EXCEPT ![d].pc = p]
          \/ /\ delivery[d].pc \in {"deploying", "recording"}
             /\ delivery' = [delivery EXCEPT ![d].pc = "recording"]
      BY <1>3
         DEF Deploy, DeployFails, LoseToNewerState, LoseToDeletion, RecordFails,
             TearDownCapp, TearDownSecret, TearDownFails, DeliveryDies
    <2> QED
      BY <2>1, <2>2, DeliveryMovesOn
  <1>4. ASSUME NEW d \in Deliveries, CutOver(d) PROVE BuildInv'
    <2>1. /\ delivery[d].sha \in Nat /\ delivery[d].image \in Images
          /\ row \in Rows /\ RowTypeOK
      BY BuildTypes DEF DeliveryStates
    <2>2. /\ row.matching \notin DeletionStates
          /\ delivery[d].wallet = row.namespace
      BY <1>4, CutoverAdmitted DEF CutOver
    <2>3. /\ row'.matching = row.matching /\ row'.namespace = row.namespace
          /\ row'.build = "idle" /\ row'.sha = NoSha /\ row'.deadline = NoDeadline
          /\ row'.deployed \in {row.deployed, row.namespace}
      BY <1>4, <2>1, <2>2 DEF CutOver, Unlocked, Rows
    <2>4. delivery[d].pc # "idle" /\ Answered(d)
          /\ revisions' = Append(StampDigest(delivery[d].sha, delivery[d].image),
                 Revision("build_succeeded", delivery[d].sha, delivery[d].image))
      BY <1>4 DEF CutOver
    <2> QED
      BY <1>0, <2>1, <2>2, <2>3, <2>4, StampKeepsRequests, OutcomeRecorded
  <1>5. ASSUME NEW d \in Deliveries, RecordFailure(d) PROVE BuildInv'
    <2>1. CASE Admission(delivery[d].sha) = "applies"
      <3>1. row \in Rows /\ revisions \in Seq(Revisions)
        BY BuildTypes
      <3>2. row.matching \notin DeletionStates
        BY <2>1, AdmissionApplies
      <3>3. /\ row'.matching = row.matching /\ row'.namespace = row.namespace
            /\ row'.build = "build_failed" /\ row'.sha = NoSha
            /\ row'.deadline = NoDeadline /\ row'.deployed = row.deployed
        BY <1>5, <2>1, <3>1 DEF RecordFailure, Unlocked, Rows
      <3>4. delivery[d].pc # "idle" /\ Answered(d)
            /\ revisions' = Append(revisions,
                              Revision("build_failed", delivery[d].sha, NoImage))
        BY <1>5, <2>1 DEF RecordFailure
      <3> QED
        BY <1>0, <3>1, <3>2, <3>3, <3>4, NullsTyped, OutcomeRecorded
    <2>2. CASE Admission(delivery[d].sha) # "applies"
      BY <1>0, <1>5, <2>2, DeliveryMovesOn DEF RecordFailure
    <2> QED
      BY <2>1, <2>2
  <1> QED
    BY <1>1, <1>2, <1>3, <1>4, <1>5 DEF WebhookStep

\* An edit that ends, or whose commit failed, leaves the build facts about the
\* row, the log and the other requests alone.
LEMMA EditorMovesOn ==
    ASSUME IInv, UNCHANGED <<row, revisions, creator, clock, delivery>>,
           commits' \in Nat, commits <= commits',
           NEW e \in Editors,
           \/ editor' = [editor EXCEPT ![e] = IdleEditor]
           \/ /\ editor[e].pc = "committing"
              /\ editor' = [editor EXCEPT ![e].pc = "releasing"]
    PROVE  BuildInv'
  <1>1. /\ row' = row /\ revisions' = revisions /\ creator' = creator
        /\ clock' = clock /\ delivery' = delivery
    OBVIOUS
  <1>2. /\ BuildInv /\ editor \in [Editors -> EditorStates] /\ commits \in Nat
        /\ \A i \in DOMAIN revisions : revisions[i].sha \in Nat
        /\ creator \in CreatorStates
    BY BuildTypes
  <1>3. \A t : LatestRequestIs(t)' <=> LatestRequestIs(t)
    BY <1>1 DEF LatestRequestIs
  <1>4. ASSUME NEW f \in Editors
        PROVE  \/ editor'[f].pc = "idle"
               \/ editor'[f] = editor[f]
               \/ /\ editor[f].pc # "idle" /\ editor'[f].pc = "releasing"
                  /\ editor'[f].deadline = editor[f].deadline
                  /\ editor'[f].build = editor[f].build
                  /\ editor'[f].namespace = editor[f].namespace
    <2>1. CASE editor' = [editor EXCEPT ![e] = IdleEditor]
      BY <1>2, <2>1 DEF IdleEditor
    <2>2. CASE /\ editor[e].pc = "committing"
               /\ editor' = [editor EXCEPT ![e].pc = "releasing"]
      BY <1>2, <2>2 DEF EditorStates
    <2> QED
      BY <2>1, <2>2
  <1>5. NothingBeforeCreate'
    BY <1>1, <1>2, <1>4 DEF BuildInv, NothingBeforeCreate
  <1>6. ClaimsFenced'
    BY <1>1, <1>2, <1>4 DEF BuildInv, ClaimsFenced
  <1>7. ClaimKeepsWallet'
    BY <1>1, <1>2, <1>4
       DEF BuildInv, ClaimKeepsWallet, HoldsClaim, CheckWalletUnchanged
  <1>8. CommitsFresh'
    <2>1. /\ \A i \in DOMAIN revisions : revisions[i].sha <= commits'
          /\ creator.pc = "inserting" => creator.sha \in 1..commits'
      BY <1>2 DEF BuildInv, CommitsFresh, CreatorStates
    <2>2. ASSUME NEW f \in Editors, editor'[f].pc = "finishing"
          PROVE  editor'[f] = editor[f] /\ editor[f].sha \in 1..commits'
      BY <1>2, <1>4, <2>2 DEF BuildInv, CommitsFresh, EditorStates
    <2> QED
      BY <1>1, <1>2, <2>1, <2>2 DEF BuildInv, CommitsFresh
  <1>9. DeliveriesRequested'
    BY <1>1, <1>2, <1>3 DEF BuildInv, DeliveriesRequested
  <1>10. DeletingNeverBuilding' /\ BuildLockSound' /\ DeploymentInRowWallet'
    BY <1>1, <1>2, <1>3
       DEF BuildInv, DeletingNeverBuilding, BuildLockSound, DeploymentInRowWallet
  <1> QED
    BY <1>5, <1>6, <1>7, <1>8, <1>9, <1>10 DEF BuildInv

\* A lock that is released with no outcome: by the edit that holds it or by the
\* stuck-build branch.
LEMMA LockReleased ==
    ASSUME IInv, UNCHANGED <<revisions, creator, commits, clock, delivery>>,
           row.matching # "absent", row.build = "building",
           row'.matching = row.matching, row'.deployed = row.deployed,
           row'.namespace = row.namespace, row'.deadline = NoDeadline,
           row'.build \in {"idle", "build_failed"},
           \A f \in Editors : editor'[f].pc = "idle" \/ editor'[f] = editor[f]
    PROVE  BuildInv'
  <1>1. /\ revisions' = revisions /\ creator' = creator /\ commits' = commits
        /\ clock' = clock /\ delivery' = delivery
    OBVIOUS
  <1>2. /\ BuildInv /\ clock \in Nat /\ NoDeadline = 0
        /\ editor \in [Editors -> EditorStates]
    BY BuildTypes
  <1>3. \A t : LatestRequestIs(t)' <=> LatestRequestIs(t)
    BY <1>1 DEF LatestRequestIs
  <1>4. NothingBeforeCreate'
    BY <1>1, <1>2 DEF BuildInv, NothingBeforeCreate
  <1>5. ClaimsFenced' /\ ClaimKeepsWallet'
    BY <1>1, <1>2 DEF BuildInv, ClaimsFenced, ClaimKeepsWallet, HoldsClaim
  <1>6. CommitsFresh'
    BY <1>1, <1>2 DEF BuildInv, CommitsFresh
  <1>7. DeliveriesRequested'
    BY <1>1, <1>2, <1>3 DEF BuildInv, DeliveriesRequested
  <1>8. DeletingNeverBuilding' /\ BuildLockSound'
    BY <1>1, <1>2 DEF BuildInv, DeletingNeverBuilding, BuildLockSound
  <1>9. DeploymentInRowWallet'
    BY <1>2 DEF BuildInv, DeploymentInRowWallet
  <1> QED
    BY <1>4, <1>5, <1>6, <1>7, <1>8, <1>9 DEF BuildInv

\* The POST up to its insert, and an insert that fails, leave no row.
LEMMA BuildInvCreateCommit ==
    ASSUME IInv, UNCHANGED delivery,
           CreateInsertFails \/ \E w \in Wallets : CreateCommit(w)
    PROVE  BuildInv'
  <1>1. /\ row' = row /\ revisions' = revisions /\ editor' = editor
        /\ clock' = clock /\ delivery' = delivery
    BY DEF CreateInsertFails, CreateCommit
  <1>2. /\ BuildInv /\ commits \in Nat /\ creator \in CreatorStates
        /\ editor \in [Editors -> EditorStates]
        /\ \A i \in DOMAIN revisions : revisions[i].sha \in Nat
    BY BuildTypes
  <1>3. /\ commits' \in Nat /\ commits <= commits'
        /\ creator'.pc \in {"idle", "inserting"} => creator.pc = "idle"
        /\ creator'.pc = "inserting" => creator'.sha \in 1..commits'
    <2>1. CASE CreateInsertFails
      BY <1>2, <2>1 DEF CreateInsertFails, CreatorStates
    <2>2. ASSUME NEW w \in Wallets, CreateCommit(w)
          PROVE  /\ commits' \in Nat /\ commits <= commits'
                 /\ creator.pc = "idle" /\ creator'.sha \in 1..commits'
      BY <1>2, <2>2 DEF CreateCommit
    <2> QED
      BY <2>1, <2>2
  <1>4. \A t : LatestRequestIs(t)' <=> LatestRequestIs(t)
    BY <1>1 DEF LatestRequestIs
  <1>5. NothingBeforeCreate'
    BY <1>1, <1>2, <1>3 DEF BuildInv, NothingBeforeCreate
  <1>6. ClaimsFenced' /\ ClaimKeepsWallet'
    BY <1>1, <1>2
       DEF BuildInv, ClaimsFenced, ClaimKeepsWallet, HoldsClaim, CheckWalletUnchanged
  <1>7. CommitsFresh'
    <2>1. \A i \in DOMAIN revisions : revisions[i].sha <= commits'
      BY <1>2, <1>3 DEF BuildInv, CommitsFresh
    <2>2. ASSUME NEW f \in Editors, editor[f].pc = "finishing"
          PROVE  editor[f].sha \in 1..commits'
      BY <1>2, <1>3, <2>2 DEF BuildInv, CommitsFresh, EditorStates
    <2> QED
      BY <1>1, <1>2, <1>3, <2>1, <2>2 DEF BuildInv, CommitsFresh
  <1>8. DeliveriesRequested'
    BY <1>1, <1>2, <1>4 DEF BuildInv, DeliveriesRequested
  <1>9. DeletingNeverBuilding' /\ BuildLockSound' /\ DeploymentInRowWallet'
    BY <1>1, <1>2, <1>4
       DEF BuildInv, DeletingNeverBuilding, BuildLockSound, DeploymentInRowWallet
  <1> QED
    BY <1>5, <1>6, <1>7, <1>8, <1>9 DEF BuildInv

\* The insert starts the automation building its first commit.
LEMMA BuildInvCreateInsert ==
    ASSUME IInv, UNCHANGED delivery, NEW a \in {"created", "failed"},
           CreateInsert(a)
    PROVE  BuildInv'
  <1>1. /\ editor' = editor /\ commits' = commits /\ delivery' = delivery
        /\ creator.pc = "inserting" /\ clock' = clock + 1
        /\ revisions' = Append(revisions, Revision("create", creator.sha, NoImage))
    BY DEF CreateInsert
  <1>2. /\ BuildInv /\ commits \in Nat /\ creator \in CreatorStates /\ clock \in Nat
        /\ RowTypeOK /\ creator.sha \in Nat /\ NoSha = 0 /\ NoDeadline = 0
        /\ revisions \in Seq(Revisions)
    BY BuildTypes DEF CreatorStates
  <1>3. /\ \A e \in Editors : editor[e].pc = "idle"
        /\ \A d \in Deliveries : delivery[d].pc = "idle"
        /\ revisions = << >>
    BY <1>1, <1>2 DEF BuildInv, NothingBeforeCreate
  <1>4. /\ row'.matching = "inactive" /\ row'.build = "building"
        /\ row'.sha = creator.sha /\ row'.deadline = clock + 1
        /\ row'.deployed = NoWallet
    BY DEF CreateInsert, NoRow
  <1>5. creator'.pc = a
    BY <1>2 DEF CreateInsert, CreatorStates
  <1>6. /\ Revision("create", creator.sha, NoImage) \in Revisions
        /\ Revision("create", creator.sha, NoImage).sha = creator.sha
        /\ Revision("create", creator.sha, NoImage).action \in RequestingActions
    BY <1>2, RevisionTyped, NullsTyped DEF Revision, RevisionActions, RequestingActions
  <1>7. \A t : LatestRequestIs(t)' <=> t = creator.sha
    BY <1>1, <1>2, <1>6, NewestAfterRequest
  <1>8. \A i \in DOMAIN revisions' : revisions'[i].sha = creator.sha
    <2>1. Len(revisions) = 0
      BY <1>3
    <2> QED
      BY <1>1, <1>2, <1>6, <2>1, AppendRevision
  <1>9. NothingBeforeCreate'
    BY <1>4, <1>5 DEF NothingBeforeCreate
  <1>10. ClaimsFenced' /\ ClaimKeepsWallet'
    BY <1>1, <1>2, <1>3, <1>4 DEF ClaimsFenced, ClaimKeepsWallet
  <1>11. CommitsFresh'
    <2>1. creator.sha <= commits
      BY <1>1, <1>2 DEF BuildInv, CommitsFresh
    <2> QED
      BY <1>1, <1>3, <1>5, <1>8, <2>1 DEF CommitsFresh
  <1>12. DeliveriesRequested'
    BY <1>1, <1>3 DEF DeliveriesRequested
  <1>13. DeletingNeverBuilding' /\ DeploymentInRowWallet'
    BY <1>4 DEF DeletingNeverBuilding, DeploymentInRowWallet, DeletionStates
  <1>14. BuildLockSound'
    <2>1. clock + 1 # NoDeadline
      BY <1>2
    <2> QED
      BY <1>4, <1>7, <2>1 DEF BuildLockSound
  <1> QED
    BY <1>9, <1>10, <1>11, <1>12, <1>13, <1>14 DEF BuildInv

\* A claim is fenced by a deadline that nobody else has.
LEMMA BuildInvClaim ==
    ASSUME IInv, UNCHANGED delivery, NEW e \in Editors, NEW w \in Wallets,
           ClaimBuild(e, w)
    PROVE  BuildInv'
  <1>1. /\ revisions' = revisions /\ creator' = creator /\ commits' = commits
        /\ delivery' = delivery /\ clock' = clock + 1
        /\ Live /\ row.build # "building" /\ CheckWalletUnchanged(w)
    BY DEF ClaimBuild
  <1>2. /\ BuildInv /\ clock \in Nat /\ NoSha = 0 /\ NoDeadline = 0
        /\ editor \in [Editors -> EditorStates] /\ row \in Rows
    BY BuildTypes
  <1>3. /\ row'.build = "building" /\ row'.deadline = clock + 1 /\ row'.sha = NoSha
        /\ row'.matching = row.matching /\ row'.deployed = row.deployed
        /\ row'.namespace = row.namespace
    BY <1>2 DEF ClaimBuild, Rows
  <1>4. /\ editor'[e].pc = "committing" /\ editor'[e].deadline = clock + 1
        /\ editor'[e].build = row.build /\ editor'[e].namespace = w
        /\ \A f \in Editors : f # e => editor'[f] = editor[f]
    BY <1>2 DEF ClaimBuild
  <1>5. \A t : LatestRequestIs(t)' <=> LatestRequestIs(t)
    BY <1>1 DEF LatestRequestIs
  <1>6. row.matching # "absent" /\ row.matching \notin DeletionStates
    BY <1>1 DEF Live, DeletionStates
  <1>7. NothingBeforeCreate'
    BY <1>1, <1>2, <1>3, <1>6 DEF BuildInv, NothingBeforeCreate
  <1>8. ClaimsFenced'
    <2>1. \A f \in Editors : editor[f].pc # "idle" =>
             /\ editor[f].deadline \in 1..clock /\ editor[f].build # "building"
             /\ editor[f].deadline # clock + 1 /\ editor[f].deadline \in 1..(clock + 1)
      BY <1>2 DEF BuildInv, ClaimsFenced
    <2>2. clock + 1 \in 1..(clock + 1) /\ clock + 1 <= clock + 1
      BY <1>2
    <2> QED
      BY <1>1, <1>2, <1>3, <1>4, <2>1, <2>2 DEF BuildInv, ClaimsFenced
  <1>9. ClaimKeepsWallet'
    <2> SUFFICES ASSUME NEW f \in Editors, editor'[f].pc # "idle",
                        row'.deadline = editor'[f].deadline
                 PROVE  row.deployed = NoWallet \/ editor'[f].namespace = row.namespace
      BY <1>3 DEF ClaimKeepsWallet, HoldsClaim, CheckWalletUnchanged
    <2>1. f = e
      <3>1. editor[f].pc # "idle" => editor[f].deadline # clock + 1
        BY <1>2 DEF BuildInv, ClaimsFenced
      <3> QED
        BY <1>3, <1>4, <3>1
    <2> QED
      BY <1>1, <1>4, <2>1 DEF CheckWalletUnchanged
  <1>10. CommitsFresh'
    BY <1>1, <1>2, <1>4 DEF BuildInv, CommitsFresh
  <1>11. DeliveriesRequested'
    BY <1>1, <1>2, <1>3, <1>5 DEF BuildInv, DeliveriesRequested
  <1>12. DeletingNeverBuilding' /\ DeploymentInRowWallet'
    BY <1>2, <1>3, <1>6 DEF BuildInv, DeletingNeverBuilding, DeploymentInRowWallet
  <1>13. BuildLockSound'
    BY <1>2, <1>3 DEF BuildLockSound
  <1> QED
    BY <1>7, <1>8, <1>9, <1>10, <1>11, <1>12, <1>13 DEF BuildInv

\* A commit gets a SHA that no revision and no other edit has.
LEMMA BuildInvCommit ==
    ASSUME IInv, UNCHANGED delivery, NEW e \in Editors, CommitScript(e)
    PROVE  BuildInv'
  <1>1. /\ row' = row /\ revisions' = revisions /\ creator' = creator
        /\ clock' = clock /\ delivery' = delivery /\ commits' = commits + 1
        /\ editor[e].pc = "committing"
    BY DEF CommitScript
  <1>2. /\ BuildInv /\ commits \in Nat /\ creator \in CreatorStates
        /\ editor \in [Editors -> EditorStates]
        /\ \A i \in DOMAIN revisions : revisions[i].sha \in Nat
    BY BuildTypes
  <1>3. /\ editor'[e].pc = "finishing" /\ editor'[e].sha = commits + 1
        /\ editor'[e].deadline = editor[e].deadline
        /\ editor'[e].build = editor[e].build
        /\ editor'[e].namespace = editor[e].namespace
        /\ \A f \in Editors : f # e => editor'[f] = editor[f]
    BY <1>2 DEF CommitScript, EditorStates
  <1>4. \A t : LatestRequestIs(t)' <=> LatestRequestIs(t)
    BY <1>1 DEF LatestRequestIs
  <1>5. NothingBeforeCreate'
    BY <1>1, <1>2, <1>3 DEF BuildInv, NothingBeforeCreate
  <1>6. ClaimsFenced' /\ ClaimKeepsWallet'
    BY <1>1, <1>2, <1>3
       DEF BuildInv, ClaimsFenced, ClaimKeepsWallet, HoldsClaim, CheckWalletUnchanged
  <1>7. CommitsFresh'
    <2>1. /\ commits + 1 \in 1..(commits + 1)
          /\ \A i \in DOMAIN revisions : revisions[i].sha <= commits + 1
                                         /\ revisions[i].sha # commits + 1
          /\ creator.pc = "inserting" => creator.sha \in 1..(commits + 1)
      BY <1>2 DEF BuildInv, CommitsFresh, CreatorStates
    <2>2. \A f \in Editors : editor[f].pc = "finishing" =>
             editor[f].sha \in 1..(commits + 1) /\ editor[f].sha # commits + 1
      BY <1>2 DEF BuildInv, CommitsFresh, EditorStates
    <2> QED
      BY <1>1, <1>2, <1>3, <2>1, <2>2 DEF BuildInv, CommitsFresh
  <1>8. DeliveriesRequested'
    BY <1>1, <1>2, <1>4 DEF BuildInv, DeliveriesRequested
  <1>9. DeletingNeverBuilding' /\ BuildLockSound' /\ DeploymentInRowWallet'
    BY <1>1, <1>2, <1>4
       DEF BuildInv, DeletingNeverBuilding, BuildLockSound, DeploymentInRowWallet
  <1> QED
    BY <1>5, <1>6, <1>7, <1>8, <1>9 DEF BuildInv

\* The second transaction of an edit: its commit becomes the newest request, so
\* no delivery in flight is for the newest request any more, and the wallet it
\* writes is the one its claim was checked for.
LEMMA BuildInvFinish ==
    ASSUME IInv, UNCHANGED delivery, NEW e \in Editors, FinishEdit(e)
    PROVE  BuildInv'
  <1> DEFINE x == Revision("edit", editor[e].sha, NoImage)
             n == Len(revisions)
  <1>1. /\ creator' = creator /\ commits' = commits /\ clock' = clock
        /\ delivery' = delivery /\ editor[e].pc = "finishing" /\ HoldsClaim(e)
        /\ revisions' = Append(revisions, x)
    BY DEF FinishEdit
  <1>2. /\ BuildInv /\ commits \in Nat /\ row \in Rows /\ RowTypeOK
        /\ revisions \in Seq(Revisions)
        /\ editor \in [Editors -> EditorStates] /\ editor[e].sha \in Nat
        /\ n \in Nat /\ DOMAIN revisions = 1..n
    BY BuildTypes DEF EditorStates
  <1>3. /\ row'.namespace = editor[e].namespace /\ row'.sha = editor[e].sha
        /\ row'.matching = row.matching /\ row'.build = row.build
        /\ row'.deadline = row.deadline /\ row'.deployed = row.deployed
    BY <1>2 DEF FinishEdit, Rows
  <1>4. \A f \in Editors : \/ f = e /\ editor'[f].pc = "idle"
                           \/ f # e /\ editor'[f] = editor[f]
    BY <1>2 DEF FinishEdit, IdleEditor
  <1>5. x \in Revisions /\ x.sha = editor[e].sha /\ x.action \in RequestingActions
    BY <1>2, RevisionTyped, NullsTyped DEF Revision, RevisionActions, RequestingActions
  <1>6. \A t : LatestRequestIs(t)' <=> t = editor[e].sha
    BY <1>1, <1>2, <1>5, NewestAfterRequest
  <1>7. /\ DOMAIN revisions' = 1..(n + 1) /\ revisions'[n + 1] = x
        /\ \A i \in 1..n : revisions'[i] = revisions[i]
    BY <1>1, <1>2, <1>5, AppendRevision
  <1>8. row.matching # "absent"
    BY <1>1, <1>2 DEF BuildInv, NothingBeforeCreate
  <1>9. row.deployed = NoWallet \/ editor[e].namespace = row.namespace
    BY <1>1, <1>2 DEF BuildInv, ClaimKeepsWallet, CheckWalletUnchanged
  <1>10. NothingBeforeCreate'
    BY <1>1, <1>2, <1>3, <1>8 DEF BuildInv, NothingBeforeCreate
  <1>11. ClaimsFenced'
    BY <1>1, <1>2, <1>3, <1>4 DEF BuildInv, ClaimsFenced
  <1>12. ClaimKeepsWallet'
    <2> SUFFICES ASSUME NEW f \in Editors, editor'[f].pc # "idle",
                        row.deadline = editor'[f].deadline
                 PROVE  FALSE
      BY <1>3 DEF ClaimKeepsWallet, HoldsClaim
    <2>1. f # e /\ editor[f].pc # "idle" /\ editor[f].deadline = editor[e].deadline
      BY <1>1, <1>4 DEF HoldsClaim
    <2> QED
      BY <1>1, <1>2, <2>1 DEF BuildInv, ClaimsFenced
  <1>13. CommitsFresh'
    <2>1. editor[e].sha <= commits
      BY <1>1, <1>2 DEF BuildInv, CommitsFresh
    <2>2. \A i \in DOMAIN revisions' : revisions'[i].sha <= commits
      BY <1>2, <1>5, <1>7, <2>1 DEF BuildInv, CommitsFresh
    <2>3. ASSUME NEW f \in Editors, f # e, editor[f].pc = "finishing",
                 NEW i \in DOMAIN revisions'
          PROVE  revisions'[i].sha # editor[f].sha
      <3>1. CASE i \in 1..n
        BY <1>2, <1>7, <2>3, <3>1 DEF BuildInv, CommitsFresh
      <3>2. CASE i = n + 1
        BY <1>1, <1>2, <1>5, <1>7, <2>3, <3>2 DEF BuildInv, CommitsFresh
      <3> QED
        BY <1>2, <1>7, <2>3, <3>1, <3>2
    <2> QED
      BY <1>1, <1>2, <1>4, <2>2, <2>3 DEF BuildInv, CommitsFresh
  <1>14. DeliveriesRequested'
    <2> SUFFICES ASSUME NEW d \in Deliveries, delivery[d].pc # "idle"
                 PROVE  /\ delivery[d].sha # NoSha
                        /\ \E i \in DOMAIN revisions' : revisions'[i].sha = delivery[d].sha
                        /\ delivery[d].sha # editor[e].sha
                        /\ delivery[d].pc \in {"deploying", "recording"} =>
                              delivery[d].image.sha = delivery[d].sha
      BY <1>1, <1>6 DEF DeliveriesRequested
    <2>1. PICK i \in 1..n : revisions[i].sha = delivery[d].sha
      BY <1>2 DEF BuildInv, DeliveriesRequested
    <2>2. delivery[d].sha # editor[e].sha
      BY <1>1, <1>2, <2>1 DEF BuildInv, CommitsFresh
    <2>3. i \in DOMAIN revisions' /\ revisions'[i].sha = delivery[d].sha
      BY <1>2, <1>7, <2>1
    <2> QED
      BY <1>2, <2>2, <2>3 DEF BuildInv, DeliveriesRequested
  <1>15. DeletingNeverBuilding' /\ BuildLockSound'
    BY <1>2, <1>3, <1>6 DEF BuildInv, DeletingNeverBuilding, BuildLockSound
  <1>16. DeploymentInRowWallet'
    BY <1>2, <1>3, <1>9 DEF BuildInv, DeploymentInRowWallet
  <1> QED
    BY <1>10, <1>11, <1>12, <1>13, <1>14, <1>15, <1>16 DEF BuildInv

\* Every step of a create or an edit keeps the build invariant.
LEMMA BuildInvAuthoring == IInv /\ AuthoringStep => BuildInv'
  <1> SUFFICES ASSUME IInv, AuthoringStep PROVE BuildInv'
    OBVIOUS
  <1>0. delivery' = delivery
    BY DEF AuthoringStep, webhookVars
  <1>t. /\ row \in Rows /\ editor \in [Editors -> EditorStates] /\ commits \in Nat
        /\ BuildInv
    BY BuildTypes
  <1>1. ASSUME CreateInsertFails \/ \E w \in Wallets : CreateCommit(w)
        PROVE  BuildInv'
    BY <1>0, <1>1, BuildInvCreateCommit
  <1>2. ASSUME NEW a \in {"created", "failed"}, CreateInsert(a) PROVE BuildInv'
    BY <1>0, <1>2, BuildInvCreateInsert
  <1>3. ASSUME NEW s, ReleaseStuckBuild(s) PROVE BuildInv'
    <2>1. /\ UNCHANGED <<revisions, creator, commits, clock, delivery>>
          /\ editor' = editor
          /\ row.matching # "absent" /\ row.build = "building"
      BY <1>0, <1>3 DEF ReleaseStuckBuild, authoringVars
    <2>2. /\ row'.matching = row.matching /\ row'.deployed = row.deployed
          /\ row'.namespace = row.namespace /\ row'.deadline = NoDeadline
          /\ row'.build \in {"idle", "build_failed"}
      BY <1>t, <1>3 DEF ReleaseStuckBuild, Rows
    <2> QED
      BY <2>1, <2>2, LockReleased
  <1>4. ASSUME NEW e \in Editors, NEW w \in Wallets, ClaimBuild(e, w)
        PROVE  BuildInv'
    BY <1>0, <1>4, BuildInvClaim
  <1>5. ASSUME NEW e \in Editors, CommitScript(e) PROVE BuildInv'
    BY <1>0, <1>5, BuildInvCommit
  <1>6. ASSUME NEW e \in Editors, NEW k \in 0..1, CommitScriptFails(e, k)
        PROVE  BuildInv'
    <2>1. /\ UNCHANGED <<row, revisions, creator, clock, delivery>>
          /\ editor[e].pc = "committing" /\ commits' = commits + k
          /\ editor' = [editor EXCEPT ![e].pc = "releasing"]
      BY <1>0, <1>6 DEF CommitScriptFails
    <2>2. commits' \in Nat /\ commits <= commits'
      BY <1>t, <2>1
    <2> QED
      BY <2>1, <2>2, EditorMovesOn
  <1>7. ASSUME NEW e \in Editors,
               EditSuperseded(e) \/ EditorDies(e)
               \/ (ReleaseBuildClaim(e) /\ ~HoldsClaim(e))
        PROVE  BuildInv'
    <2>1. /\ UNCHANGED <<row, revisions, creator, clock, delivery>>
          /\ commits' = commits
          /\ editor' = [editor EXCEPT ![e] = IdleEditor]
      BY <1>0, <1>7 DEF EditSuperseded, EditorDies, ReleaseBuildClaim
    <2>2. commits' \in Nat /\ commits <= commits'
      BY <1>t, <2>1
    <2> QED
      BY <2>1, <2>2, EditorMovesOn
  <1>8. ASSUME NEW e \in Editors, ReleaseBuildClaim(e), HoldsClaim(e)
        PROVE  BuildInv'
    <2>1. /\ UNCHANGED <<revisions, creator, commits, clock, delivery>>
          /\ row.build = "building"
          /\ \A f \in Editors : editor'[f].pc = "idle" \/ editor'[f] = editor[f]
      BY <1>0, <1>t, <1>8 DEF ReleaseBuildClaim, HoldsClaim, IdleEditor
    <2>2. editor[e].build \in {"idle", "build_failed"} /\ row.matching # "absent"
      BY <1>t, <1>8
         DEF ReleaseBuildClaim, BuildInv, ClaimsFenced, NothingBeforeCreate,
             EditorStates, BuildStates
    <2>3. /\ row'.matching = row.matching /\ row'.deployed = row.deployed
          /\ row'.namespace = row.namespace /\ row'.deadline = NoDeadline
          /\ row'.build = editor[e].build
      BY <1>t, <1>8 DEF ReleaseBuildClaim, Rows
    <2> QED
      BY <2>1, <2>2, <2>3, LockReleased
  <1>9. ASSUME NEW e \in Editors, FinishEdit(e) PROVE BuildInv'
    BY <1>0, <1>9, BuildInvFinish
  <1> QED
    BY <1>1, <1>2, <1>3, <1>4, <1>5, <1>6, <1>7, <1>8, <1>9 DEF AuthoringStep

----------------------------------------------------------------------------
(* The theorems.                                                           *)

\* Before the POST every part of the invariant holds vacuously.
LEMMA InvInit == Init => IInv
  <1> SUFFICES ASSUME Init PROVE IInv
    OBVIOUS
  <1>1. TypeOK
    BY TypeInit
  <1>2. /\ row = NoRow /\ revisions = << >> /\ DOMAIN revisions = {}
        /\ creator.pc = "idle" /\ clock = 0
        /\ \A e \in Editors : editor[e].pc = "idle"
        /\ \A d \in Deliveries : delivery[d].pc = "idle"
        /\ \A r \in Runners : runner[r] = IdleRunner
    BY DEF Init, AuthoringInit, WebhookInit, CascadeInit, IdleEditor, IdleDelivery
  <1>3. BuildInv
    BY <1>2 DEF BuildInv, NothingBeforeCreate, ClaimsFenced, ClaimKeepsWallet,
                CommitsFresh, DeliveriesRequested, DeletingNeverBuilding,
                BuildLockSound, DeploymentInRowWallet, NoRow, NoDeadline,
                DeletionStates
  <1>4. CascadeInv
    BY <1>2 DEF CascadeInv, CheckpointMatchesState, RunnersKeepPace, NoRow, IdleRunner
  <1> QED
    BY <1>1, <1>3, <1>4 DEF IInv

\* Every step, and every stuttering step, keeps the invariant.
LEMMA InvStep == IInv /\ [Next]_vars => IInv'
  <1> SUFFICES ASSUME IInv, [Next]_vars PROVE IInv'
    OBVIOUS
  <1>1. CASE Next
    <2>1. TypeOK'
      BY <1>1, TypeAuthoring, TypeWebhook, TypeLifecycle, TypeCascade
         DEF Next, IInv, CascadeInv
    <2>2. BuildInv'
      BY <1>1, BuildInvAuthoring, BuildInvWebhook, BuildInvLifecycle,
         BuildInvCascade DEF Next
    <2>3. CascadeInv'
      BY <1>1, CheckpointStep, RunnersStep DEF CascadeInv
    <2> QED
      BY <2>1, <2>2, <2>3 DEF IInv
  <1>2. CASE UNCHANGED vars
    <2>1. TypeOK'
      BY <1>2 DEF vars, authoringVars, webhookVars, cascadeVars, IInv, TypeOK,
                  RowTypeOK, CappTypeOK, AuthoringTypeOK, WebhookTypeOK,
                  CascadeTypeOK
    <2>2. BuildInv'
      BY <1>2 DEF vars, authoringVars, webhookVars, IInv, BuildInv,
                  NothingBeforeCreate, ClaimsFenced, ClaimKeepsWallet,
                  CommitsFresh, DeliveriesRequested, DeletingNeverBuilding,
                  BuildLockSound, DeploymentInRowWallet, HoldsClaim,
                  CheckWalletUnchanged, LatestRequestIs
    <2>3. CascadeInv'
      BY <1>2 DEF vars, cascadeVars, IInv, CascadeInv, CheckpointMatchesState,
                  RunnersKeepPace
    <2> QED
      BY <2>1, <2>2, <2>3 DEF IInv
  <1> QED
    BY <1>1, <1>2

\* The invariant is inductive: it holds in every reachable state, for any
\* number of concurrent edits, deliveries and cascade runners.
THEOREM Inductive == Spec => []IInv
  BY InvInit, InvStep, PTL DEF Spec

\* Every request, delivery and runner keeps the row, the audit log, CAPP and the
\* registry well formed; in particular the checkpoint never leaves 0..5.
THEOREM TypeCorrect == Spec => []TypeOK
  <1>1. IInv => TypeOK
    BY DEF IInv
  <1> QED
    BY <1>1, Inductive, PTL

\* The stored deployment always lives in the wallet that the row names, however
\* edits that move the wallet overlap with deployments for the old one.
THEOREM DeploymentWallet == Spec => []DeploymentInRowWallet
  <1>1. IInv => DeploymentInRowWallet
    BY DEF IInv, BuildInv
  <1> QED
    BY <1>1, Inductive, PTL

\* The commit the build lock waits for is always the newest requested one, and
\* the row carries a deadline exactly while it is building.
THEOREM BuildLock == Spec => []BuildLockSound
  <1>1. IInv => BuildLockSound
    BY DEF IInv, BuildInv
  <1> QED
    BY <1>1, Inductive, PTL

\* No runner exhausts run_cascade's iteration budget, however many race.
THEOREM CascadeProgress == Spec => []CascadeMakesProgress
  <1>1. IInv => CascadeMakesProgress
    <2> SUFFICES ASSUME IInv, NEW r \in Runners
                 PROVE  runner[r].outcome # "no_progress" /\ runner[r].iter <= 5
      BY DEF CascadeMakesProgress
    <2>1. row.step \in 0..5 /\ runner[r].iter \in Nat /\ runner[r].step \in 0..5
      BY DEF IInv, TypeOK, RowTypeOK, CascadeTypeOK, Rows, RunnerStates
    <2> QED
      BY <2>1 DEF IInv, CascadeInv, RunnersKeepPace
  <1> QED
    BY <1>1, Inductive, PTL

\* Once DELETE is admitted, only the cascade's checkpoint moves.
THEOREM DeletionFreezesRow == Spec => FrozenOnceDeleting
  <1> DEFINE Frozen ==
        row.matching \in DeletionStates =>
          /\ row'.matching \in DeletionStates
          /\ row'.build = row.build /\ row'.sha = row.sha
          /\ row'.deadline = row.deadline /\ row'.digest = row.digest
          /\ row'.deployed = row.deployed /\ row'.namespace = row.namespace
          /\ row'.gen = row.gen
  <1>1. IInv /\ [Next]_vars => [Frozen]_vars
    <2> SUFFICES ASSUME IInv, Next, row.matching \in DeletionStates,
                        row' # row
                 PROVE  Frozen
      BY DEF vars
    <2>0. BuildInv /\ row \in Rows /\ row.build # "building"
      BY BuildTypes DEF BuildInv, DeletingNeverBuilding
    <2>1. ~AuthoringStep
      BY <2>0 DEF AuthoringStep, BuildInv, NothingBeforeCreate, CreateCommit,
                  CreateInsert, CreateInsertFails, ReleaseStuckBuild, ClaimBuild,
                  Live, CommitScript, CommitScriptFails, ReleaseBuildClaim,
                  HoldsClaim, FinishEdit, EditSuperseded, EditorDies,
                  DeletionStates
    <2>2. ~WebhookStep
      <3>1. ASSUME NEW d \in Deliveries, CutOver(d) PROVE FALSE
        BY <3>1, CutoverAdmitted DEF CutOver
      <3>2. ASSUME NEW d \in Deliveries, RecordFailure(d) PROVE FALSE
        BY <2>0, <3>2, AdmissionApplies DEF RecordFailure
      <3> QED
        BY <3>1, <3>2
           DEF WebhookStep, AdmitSuccess, AdmitFailure, Deploy, DeployFails,
               LoseToNewerState, LoseToDeletion, RecordFails, TearDownCapp,
               TearDownSecret, TearDownFails, DeliveryDies
    <2>3. ~LifecycleStep
      BY LifecycleKeepsCheckpoint DEF Live, DeletionStates
    <2>4. CASE CascadeStep
      <3>1. PICK r \in Runners :
               SaveCheckpoint(r) /\ row'.matching \in DeletionStates
        BY <2>4, CascadeMovesCheckpoint DEF DeletionStates
      <3> QED
        BY <2>0, <3>1 DEF SaveCheckpoint, Rows
    <2> QED
      BY <2>1, <2>2, <2>3, <2>4 DEF Next
  <1> QED
    BY <1>1, Inductive, PTL DEF Spec, FrozenOnceDeleting

\* Every cutover installs the image of the newest requested commit.
THEOREM CutoverNewest == Spec => CutoverIsNewestRequest
  <1> DEFINE Newest == row'.digest # row.digest => LatestRequestIs(row'.digest.sha)
  <1>1. IInv /\ [Next]_vars => [Newest]_vars
    <2> SUFFICES ASSUME IInv, Next, row'.digest # row.digest
                 PROVE  LatestRequestIs(row'.digest.sha)
      BY DEF vars
    <2>0. BuildInv /\ row \in Rows
      BY BuildTypes
    <2>1. ~AuthoringStep
      <3>1. ASSUME NEW a, CreateInsert(a) PROVE row'.digest = row.digest
        BY <2>0, <3>1 DEF CreateInsert, NoRow, BuildInv, NothingBeforeCreate
      <3>2. ASSUME NEW e \in Editors, ReleaseBuildClaim(e)
            PROVE  row'.digest = row.digest
        BY <2>0, <3>2 DEF ReleaseBuildClaim, Rows
      <3>3. ASSUME NEW e \in Editors, NEW w \in Wallets, ClaimBuild(e, w)
            PROVE  row'.digest = row.digest
        BY <2>0, <3>3 DEF ClaimBuild, Rows
      <3>4. ASSUME NEW s, ReleaseStuckBuild(s) PROVE row'.digest = row.digest
        BY <2>0, <3>4 DEF ReleaseStuckBuild, Rows
      <3>5. ASSUME NEW e \in Editors, FinishEdit(e) PROVE row'.digest = row.digest
        BY <2>0, <3>5 DEF FinishEdit, Rows
      <3> QED
        BY <3>1, <3>2, <3>3, <3>4, <3>5
           DEF AuthoringStep, CreateCommit, CreateInsertFails, CommitScript,
               CommitScriptFails, EditSuperseded, EditorDies
    <2>2. CASE WebhookStep
      <3>1. ASSUME NEW d \in Deliveries, CutOver(d)
            PROVE  LatestRequestIs(row'.digest.sha)
        <4>1. row'.digest = delivery[d].image
          BY <2>0, <3>1 DEF CutOver, Unlocked, Rows
        <4> QED
          BY <3>1, <4>1, CutoverAdmitted DEF CutOver
      <3>2. ASSUME NEW d \in Deliveries, RecordFailure(d)
            PROVE  row'.digest = row.digest
        BY <2>0, <3>2 DEF RecordFailure, Unlocked, Rows
      <3> QED
        BY <2>2, <3>1, <3>2
           DEF WebhookStep, AdmitSuccess, AdmitFailure, Deploy, DeployFails,
               LoseToNewerState, LoseToDeletion, RecordFails, TearDownCapp,
               TearDownSecret, TearDownFails, DeliveryDies
    <2>3. ~LifecycleStep
      BY <2>0 DEF LifecycleStep, EnableAutomation, DisableAutomation, Toggle,
                  BeginDelete, Rows
    <2>4. ~CascadeStep
      <3>1. ASSUME NEW r \in Runners, SaveCheckpoint(r)
            PROVE  row'.digest = row.digest
        BY <2>0, <3>1 DEF SaveCheckpoint, Rows
      <3> QED
        BY <3>1, CascadeMovesCheckpoint
    <2> QED
      BY <2>1, <2>2, <2>3, <2>4 DEF Next
  <1> QED
    BY <1>1, Inductive, PTL DEF Spec, CutoverIsNewestRequest

\* The cascade's checkpoint moves one step at a time and never back.
THEOREM CheckpointOrder == Spec => CheckpointNeverSkips
  <1>1. IInv /\ [Next]_vars => [row'.step \in {row.step, row.step + 1}]_vars
    <2> SUFFICES ASSUME IInv, Next PROVE row'.step \in {row.step, row.step + 1}
      BY DEF vars
    <2>0. CheckpointMatchesState
      BY DEF IInv, CascadeInv
    <2>1. CASE AuthoringStep
      BY <2>0, <2>1, AuthoringKeepsCheckpoint DEF CheckpointMatchesState
    <2>2. CASE WebhookStep
      BY <2>2, WebhookKeepsCheckpoint
    <2>3. CASE LifecycleStep
      BY <2>0, <2>3, LifecycleKeepsCheckpoint DEF CheckpointMatchesState, Live
    <2>4. CASE CascadeStep
      BY <2>4, CascadeMovesCheckpoint
    <2> QED
      BY <2>1, <2>2, <2>3, <2>4 DEF Next
  <1> QED
    BY <1>1, Inductive, PTL DEF Spec, CheckpointNeverSkips
==============================================================================
