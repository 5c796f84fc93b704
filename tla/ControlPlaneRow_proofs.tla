----------------------- MODULE ControlPlaneRow_proofs -----------------------
(***************************************************************************)
(* Proofs about the row and its audit log taken together: the log explains *)
(* the row (AuditExplainsRow), and the two behave as AutomationLifecycle   *)
(* promises (KeepsPromise).  Both rest on one list of what a step of the   *)
(* control plane may do to the pair.                                       *)
(***************************************************************************)
EXTENDS ControlPlane_proofs

----------------------------------------------------------------------------
(* What a step does to the row and the log.                                *)

\* The log and what the owner sees of the row stay; claims, releases and
\* checkpoints move the rest.
RowKept ==
    /\ revisions' = revisions
    /\ row'.matching = row.matching /\ row'.digest = row.digest
    /\ row'.deployed = row.deployed /\ row'.namespace = row.namespace

\* A revision with these parts is appended to a log q that differs from the
\* present one at most in the digests of requests.
Logged(q, action, sha, digest) ==
    /\ q \in Seq(Revisions) /\ Len(q) = Len(revisions)
    /\ \A i \in 1..Len(revisions) :
          /\ q[i].action = revisions[i].action /\ q[i].sha = revisions[i].sha
          /\ q[i].action \notin RequestingActions => q[i] = revisions[i]
    /\ revisions' = Append(q, Revision(action, sha, digest))

\* The insert of create_automation.
RowInserted ==
    /\ creator.pc = "inserting" /\ row.matching = "absent"
    /\ Logged(revisions, "create", creator.sha, NoImage)
    /\ row'.matching = "inactive" /\ row'.namespace = creator.namespace
    /\ row'.digest = row.digest /\ row'.deployed = row.deployed

\* Transaction 2 of an edit.
RowEdited(e) ==
    /\ editor[e].pc = "finishing" /\ HoldsClaim(e)
    /\ Logged(revisions, "edit", editor[e].sha, NoImage)
    /\ row'.matching = row.matching /\ row'.namespace = editor[e].namespace
    /\ row'.digest = row.digest /\ row'.deployed = row.deployed

\* Phase 3 of a delivery.
RowCutOver(d) ==
    /\ delivery[d].pc = "recording" /\ MayCutOver(delivery[d].sha)
    /\ Logged(StampDigest(delivery[d].sha, delivery[d].image), "build_succeeded",
              delivery[d].sha, delivery[d].image)
    /\ row'.matching = row.matching /\ row'.namespace = row.namespace
    /\ row'.digest = delivery[d].image
    /\ row'.deployed = IF delivery[d].operation = "create"
                       THEN delivery[d].wallet ELSE row.deployed

\* A failed build.
RowBuildFailed(d) ==
    /\ delivery[d].pc = "failing"
    /\ Logged(revisions, "build_failed", delivery[d].sha, NoImage)
    /\ row.matching \notin DeletionStates
    /\ row'.matching = row.matching /\ row'.namespace = row.namespace
    /\ row'.digest = row.digest /\ row'.deployed = row.deployed

\* A toggle or the admission of DELETE.
RowSwitched(action, target) ==
    /\ Live
    /\ action = "enable" => row.digest # NoImage
    /\ Logged(revisions, action, NoSha, row.digest)
    /\ row'.matching = target /\ row'.namespace = row.namespace
    /\ row'.digest = row.digest /\ row'.deployed = row.deployed

\* The last checkpoint of the cascade.
RowReclaimed ==
    /\ row.matching = "deleting" /\ row'.matching = "deleted"
    /\ revisions' = revisions
    /\ row'.digest = row.digest /\ row'.deployed = row.deployed
    /\ row'.namespace = row.namespace

Switches == {<<"enable", "active">>, <<"disable", "inactive">>,
             <<"delete", "deleting">>}

RowMoves ==
    \/ RowKept
    \/ RowInserted
    \/ \E e \in Editors : RowEdited(e)
    \/ \E d \in Deliveries : RowCutOver(d) \/ RowBuildFailed(d)
    \/ \E s \in Switches : RowSwitched(s[1], s[2])
    \/ RowReclaimed

\* An append to the log as it stands.
LEMMA LogsOntoLog ==
    ASSUME RowTypeOK, NEW a, NEW s, NEW g,
           revisions' = Append(revisions, Revision(a, s, g))
    PROVE  Logged(revisions, a, s, g)
  BY DEF RowTypeOK, Logged

\* Create, claims, releases and edits.
LEMMA AuthoringMovesRow == IInv /\ AuthoringStep => RowMoves
  <1> SUFFICES ASSUME IInv, AuthoringStep PROVE RowMoves
    OBVIOUS
  <1>0. row \in Rows /\ RowTypeOK /\ NothingBeforeCreate
    BY BuildTypes DEF BuildInv
  <1>1. ASSUME NEW a, CreateInsert(a) PROVE RowInserted
    <2>1. Logged(revisions, "create", creator.sha, NoImage)
      BY <1>0, <1>1, LogsOntoLog DEF CreateInsert
    <2>2. creator.pc = "inserting" /\ row.matching = "absent" /\ row = NoRow
      BY <1>0, <1>1 DEF CreateInsert, NothingBeforeCreate
    <2> QED
      BY <1>1, <2>1, <2>2 DEF CreateInsert, NoRow, RowInserted
  <1>2. ASSUME NEW e \in Editors, NEW w \in Wallets, ClaimBuild(e, w)
        PROVE  RowKept
    BY <1>0, <1>2 DEF ClaimBuild, Rows, RowKept
  <1>3. ASSUME NEW e \in Editors, ReleaseBuildClaim(e) PROVE RowKept
    BY <1>0, <1>3 DEF ReleaseBuildClaim, Rows, RowKept
  <1>4. ASSUME NEW e \in Editors, FinishEdit(e) PROVE RowEdited(e)
    <2>1. Logged(revisions, "edit", editor[e].sha, NoImage)
      BY <1>0, <1>4, LogsOntoLog DEF FinishEdit
    <2>2. /\ row'.matching = row.matching /\ row'.namespace = editor[e].namespace
          /\ row'.digest = row.digest /\ row'.deployed = row.deployed
      BY <1>0, <1>4 DEF FinishEdit, Rows
    <2> QED
      BY <1>4, <2>1, <2>2 DEF FinishEdit, RowEdited
  <1>5. ASSUME NEW s, ReleaseStuckBuild(s) PROVE RowKept
    BY <1>0, <1>5 DEF ReleaseStuckBuild, Rows, RowKept
  <1>6. \/ RowKept \/ RowInserted \/ \E e \in Editors : RowEdited(e)
    BY <1>1, <1>2, <1>3, <1>4, <1>5
       DEF AuthoringStep, CreateCommit, CreateInsertFails, CommitScript,
           CommitScriptFails, EditSuperseded, EditorDies, RowKept
  <1> QED
    BY <1>6 DEF RowMoves

\* A cutover.
LEMMA CutOverMovesRow ==
    ASSUME IInv, NEW d \in Deliveries, CutOver(d)
    PROVE  RowCutOver(d)
  <1>0. row \in Rows /\ RowTypeOK /\ delivery \in [Deliveries -> DeliveryStates]
    BY BuildTypes
  <1> DEFINE q == StampDigest(delivery[d].sha, delivery[d].image)
  <1>1. delivery[d].sha \in Nat /\ delivery[d].image \in Images
    BY <1>0 DEF DeliveryStates
  <1>2. /\ q \in Seq(Revisions) /\ Len(q) = Len(revisions)
        /\ \A i \in 1..Len(revisions) :
              q[i].action = revisions[i].action /\ q[i].sha = revisions[i].sha
    BY <1>0, <1>1, StampKeepsRequests
  <1>3. ASSUME NEW i \in 1..Len(revisions), q[i].action \notin RequestingActions
        PROVE  q[i] = revisions[i]
    <2>1. i \in DOMAIN revisions /\ revisions[i].action \notin RequestingActions
      BY <1>2, <1>3, BuildTypes
    <2> QED
      BY <2>1 DEF StampDigest
  <1>4. Logged(q, "build_succeeded", delivery[d].sha, delivery[d].image)
    BY <1>2, <1>3 DEF CutOver, Logged
  <1>5. /\ row'.matching = row.matching /\ row'.namespace = row.namespace
        /\ row'.digest = delivery[d].image
        /\ row'.deployed = IF delivery[d].operation = "create"
                           THEN delivery[d].wallet ELSE row.deployed
    BY <1>0, <1>1 DEF CutOver, Unlocked, Rows
  <1> QED
    BY <1>4, <1>5 DEF CutOver, RowCutOver

\* The phases of a delivery.
LEMMA WebhookMovesRow == IInv /\ WebhookStep => RowMoves
  <1> SUFFICES ASSUME IInv, WebhookStep PROVE RowMoves
    OBVIOUS
  <1>0. row \in Rows /\ RowTypeOK /\ delivery \in [Deliveries -> DeliveryStates]
    BY BuildTypes
  <1>1. \A d \in Deliveries : CutOver(d) => RowCutOver(d)
    BY CutOverMovesRow
  <1>2. ASSUME NEW d \in Deliveries, RecordFailure(d)
        PROVE  RowKept \/ RowBuildFailed(d)
    <2>1. CASE Admission(delivery[d].sha) = "applies"
      <3>1. Logged(revisions, "build_failed", delivery[d].sha, NoImage)
        BY <1>0, <1>2, <2>1, LogsOntoLog DEF RecordFailure
      <3>2. row.matching \notin DeletionStates
        BY <2>1, AdmissionApplies
      <3>3. /\ row'.matching = row.matching /\ row'.namespace = row.namespace
            /\ row'.digest = row.digest /\ row'.deployed = row.deployed
        BY <1>0, <1>2, <2>1 DEF RecordFailure, Unlocked, Rows
      <3> QED
        BY <1>2, <3>1, <3>2, <3>3 DEF RecordFailure, RowBuildFailed
    <2>2. CASE Admission(delivery[d].sha) # "applies"
      BY <1>2, <2>2 DEF RecordFailure, RowKept
    <2> QED
      BY <2>1, <2>2
  <1>3. \/ RowKept \/ \E d \in Deliveries : RowCutOver(d) \/ RowBuildFailed(d)
    BY <1>1, <1>2
       DEF WebhookStep, AdmitSuccess, AdmitFailure, Deploy, DeployFails,
           LoseToNewerState, LoseToDeletion, RecordFails, TearDownCapp,
           TearDownSecret, TearDownFails, DeliveryDies, RowKept
  <1> QED
    BY <1>3 DEF RowMoves

\* Toggles, DELETE and the cascade.
LEMMA OthersMoveRow == IInv /\ (LifecycleStep \/ CascadeStep) => RowMoves
  <1> SUFFICES ASSUME IInv, LifecycleStep \/ CascadeStep PROVE RowMoves
    OBVIOUS
  <1>0. row \in Rows /\ RowTypeOK
    BY BuildTypes
  <1>1. CASE LifecycleStep
    <2>1. ASSUME EnableAutomation PROVE RowSwitched("enable", "active")
      BY <1>0, <2>1, LogsOntoLog DEF EnableAutomation, Toggle, RowSwitched, Rows
    <2>2. ASSUME DisableAutomation PROVE RowSwitched("disable", "inactive")
      BY <1>0, <2>2, LogsOntoLog DEF DisableAutomation, Toggle, RowSwitched, Rows
    <2>3. ASSUME BeginDelete PROVE RowSwitched("delete", "deleting")
      BY <1>0, <2>3, LogsOntoLog DEF BeginDelete, RowSwitched, Rows
    <2>4. /\ <<"enable", "active">> \in Switches /\ <<"disable", "inactive">> \in Switches
          /\ <<"delete", "deleting">> \in Switches
      BY DEF Switches
    <2>5. \E s \in Switches : RowSwitched(s[1], s[2])
      BY <1>1, <2>1, <2>2, <2>3, <2>4 DEF LifecycleStep
    <2> QED
      BY <2>5 DEF RowMoves
  <1>2. CASE CascadeStep
    <2>1. revisions' = revisions
      BY <1>2 DEF CascadeStep, StartCascade, ReadSnapshot, RemoveCapp, RemoveSecret,
                  ListImages, RemoveImage, RelistImages, ArchiveScript,
                  SaveCheckpoint, StopCascade, CiPushes
    <2>2. CASE row' = row
      BY <2>1, <2>2 DEF RowMoves, RowKept
    <2>3. ASSUME NEW r \in Runners, SaveCheckpoint(r), row.matching = "deleting",
                 row'.matching \in {"deleting", "deleted"}
          PROVE  RowMoves
      <3>1. /\ row'.digest = row.digest /\ row'.deployed = row.deployed
            /\ row'.namespace = row.namespace
        BY <1>0, <2>3 DEF SaveCheckpoint, Rows
      <3> QED
        BY <2>1, <2>3, <3>1 DEF RowMoves, RowKept, RowReclaimed
    <2> QED
      BY <1>2, <2>2, <2>3, CascadeMovesCheckpoint
  <1> QED
    BY <1>1, <1>2

\* Every step of the control plane does one of these.
LEMMA StepMovesRow == IInv /\ [Next]_vars => RowMoves
  <1>1. UNCHANGED vars => RowMoves
    BY DEF vars, RowMoves, RowKept
  <1> QED
    BY <1>1, AuthoringMovesRow, WebhookMovesRow, OthersMoveRow DEF Next

\* The log after an append, index by index.
LEMMA LogAfter ==
    ASSUME RowTypeOK, NEW a \in RevisionActions, NEW s \in Nat, NEW g \in Images,
           NEW q, Logged(q, a, s, g)
    PROVE  /\ Len(revisions) \in Nat
           /\ DOMAIN revisions = 1..Len(revisions)
           /\ DOMAIN revisions' = 1..(Len(revisions) + 1)
           /\ Len(revisions') = Len(revisions) + 1
           /\ revisions'[Len(revisions) + 1] = Revision(a, s, g)
           /\ \A i \in 1..Len(revisions) :
                 /\ revisions'[i].action = revisions[i].action
                 /\ revisions'[i].sha = revisions[i].sha
                 /\ revisions[i].action \notin RequestingActions
                       => revisions'[i] = revisions[i]
  <1>1. Revision(a, s, g) \in Revisions
    BY RevisionTyped
  <1>2. Len(revisions) \in Nat /\ DOMAIN revisions = 1..Len(revisions)
    BY LenProperties DEF RowTypeOK
  <1>3. /\ q \in Seq(Revisions) /\ Len(q) = Len(revisions)
        /\ revisions' = Append(q, Revision(a, s, g))
    BY DEF Logged
  <1>4. /\ DOMAIN revisions' = 1..(Len(revisions) + 1)
        /\ \A i \in 1..Len(revisions) : revisions'[i] = q[i]
        /\ revisions'[Len(revisions) + 1] = Revision(a, s, g)
    BY <1>1, <1>3, AppendRevision
  <1>5. Len(revisions') = Len(revisions) + 1
    BY <1>1, <1>2, <1>3
  <1> QED
    BY <1>2, <1>4, <1>5 DEF Logged

----------------------------------------------------------------------------
(* The log explains the row.                                               *)

Successes == {"build_succeeded"}
AxisActions == {"create", "enable", "disable", "delete"}

\* Revision i is the last one with one of these actions.
IsLast(actions, i) ==
    /\ i \in DOMAIN revisions
    /\ revisions[i].action \in actions
    /\ \A j \in DOMAIN revisions : revisions[j].action \in actions => j <= i

\* The matching states the last create, toggle or delete allows.
Explains(action, matching) ==
    \/ action = "enable" /\ matching = "active"
    \/ action \in {"create", "disable"} /\ matching = "inactive"
    \/ action = "delete" /\ matching \in DeletionStates

\* AuditExplainsRow with the witnesses its CHOOSE needs: the last success, and
\* the last revision of the matching axis, exist whenever the row says so.
DigestExplained ==
    \/ /\ row.digest = NoImage
       /\ \A i \in DOMAIN revisions : revisions[i].action # "build_succeeded"
    \/ \E i \in DOMAIN revisions :
          IsLast(Successes, i) /\ row.digest = revisions[i].digest

MatchingExplained ==
    \/ row.matching = "absent" /\ DOMAIN revisions = {}
    \/ \E i \in DOMAIN revisions :
          IsLast(AxisActions, i) /\ Explains(revisions[i].action, row.matching)

NothingAfterDelete ==
    \A i \in DOMAIN revisions : revisions[i].action = "delete" => i = Len(revisions)

AuditInv == DigestExplained /\ MatchingExplained /\ NothingAfterDelete

\* What LastOf computes when a last such revision exists, and when none does.
LEMMA LastOfIsLast ==
    ASSUME RowTypeOK, NEW A, NEW i, IsLast(A, i)
    PROVE  LastOf(A) = revisions[i]
  <1> DEFINE S == {j \in DOMAIN revisions : revisions[j].action \in A}
  <1>1. DOMAIN revisions = 1..Len(revisions) /\ Len(revisions) \in Nat
    BY LenProperties DEF RowTypeOK
  <1>2. i \in S /\ \A j \in S : j <= i
    BY DEF IsLast
  <1>3. \A k \in S : (\A j \in S : j <= k) => k = i
    BY <1>1, <1>2
  <1>4. (CHOOSE k \in S : \A j \in S : j <= k) = i
    BY <1>2, <1>3
  <1> HIDE DEF S
  <1>5. S # {}
    BY <1>2
  <1> QED
    BY <1>4, <1>5 DEF LastOf, S

LEMMA LastOfNone ==
    ASSUME NEW A, \A i \in DOMAIN revisions : revisions[i].action \notin A
    PROVE  LastOf(A) = Revision("build_failed", NoSha, NoImage)
  BY DEF LastOf

\* The invariant says what AuditExplainsRow says.
LEMMA AuditInvImplies == RowTypeOK /\ AuditInv => AuditExplainsRow
  <1> SUFFICES ASSUME RowTypeOK, AuditInv PROVE AuditExplainsRow
    OBVIOUS
  <1>1. row.digest = LastOf({"build_succeeded"}).digest
    <2>1. CASE /\ row.digest = NoImage
               /\ \A i \in DOMAIN revisions : revisions[i].action # "build_succeeded"
      <3>1. LastOf({"build_succeeded"}) = Revision("build_failed", NoSha, NoImage)
        BY <2>1, LastOfNone
      <3> QED
        BY <2>1, <3>1 DEF Revision
    <2>2. CASE \E i \in DOMAIN revisions :
                  IsLast(Successes, i) /\ row.digest = revisions[i].digest
      BY <2>2, LastOfIsLast DEF Successes
    <2> QED
      BY <2>1, <2>2 DEF AuditInv, DigestExplained
  <1> DEFINE last == LastOf({"create", "enable", "disable", "delete"}).action
  <1>2. row.matching \in
          CASE last = "enable" -> {"active"}
            [] last \in {"create", "disable"} -> {"inactive"}
            [] last = "delete" -> DeletionStates
            [] OTHER -> {"absent"}
    <2>1. CASE row.matching = "absent" /\ DOMAIN revisions = {}
      <3>1. last = "build_failed"
        BY <2>1, LastOfNone DEF Revision
      <3> QED
        BY <2>1, <3>1
    <2>2. ASSUME NEW i \in DOMAIN revisions, IsLast(AxisActions, i),
                 Explains(revisions[i].action, row.matching)
          PROVE  <1>2
      <3>1. last = revisions[i].action
        BY <2>2, LastOfIsLast DEF AxisActions
      <3> HIDE DEF last
      <3> QED
        BY <2>2, <3>1 DEF Explains
    <2> QED
      BY <2>1, <2>2 DEF AuditInv, MatchingExplained
  <1> QED
    BY <1>1, <1>2 DEF AuditInv, NothingAfterDelete, AuditExplainsRow

\* A revision with another action leaves the last of the others where it was.
LEMMA LastKept ==
    ASSUME RowTypeOK, NEW a \in RevisionActions, NEW s \in Nat, NEW g \in Images,
           NEW q, Logged(q, a, s, g), NEW A, a \notin A, NEW i, IsLast(A, i)
    PROVE  /\ IsLast(A, i)' /\ revisions'[i].action = revisions[i].action
           /\ A \cap RequestingActions = {} => revisions'[i] = revisions[i]
  <1>0. PICK n \in Nat : n = Len(revisions)
    BY LogAfter
  <1>1. /\ DOMAIN revisions = 1..n /\ DOMAIN revisions' = 1..(n + 1)
        /\ revisions'[n + 1] = Revision(a, s, g)
        /\ \A j \in 1..n : /\ revisions'[j].action = revisions[j].action
                           /\ revisions[j].action \notin RequestingActions
                                 => revisions'[j] = revisions[j]
    BY <1>0, LogAfter
  <1>2. i \in 1..n /\ revisions[i].action \in A
        /\ \A j \in 1..n : revisions[j].action \in A => j <= i
    BY <1>1 DEF IsLast
  <1>3. revisions'[n + 1].action \notin A
    BY <1>1 DEF Revision
  <1>4. ASSUME NEW j \in 1..(n + 1), revisions'[j].action \in A PROVE j <= i
    <2>1. j \in 1..n
      BY <1>0, <1>3, <1>4
    <2> QED
      BY <1>1, <1>2, <1>4, <2>1
  <1>5. i \in 1..(n + 1) /\ revisions'[i].action \in A
    BY <1>0, <1>1, <1>2
  <1> QED
    BY <1>1, <1>2, <1>4, <1>5 DEF IsLast

\* A revision with one of the actions is the last of them.
LEMMA LastAdded ==
    ASSUME RowTypeOK, NEW a \in RevisionActions, NEW s \in Nat, NEW g \in Images,
           NEW q, Logged(q, a, s, g), NEW A, a \in A, NEW m, m = Len(revisions) + 1
    PROVE  IsLast(A, m)' /\ revisions'[m] = Revision(a, s, g)
  <1>1. /\ m \in Nat /\ DOMAIN revisions' = 1..m
        /\ revisions'[m] = Revision(a, s, g) /\ m >= 1
    BY LogAfter
  <1> QED
    BY <1>1 DEF IsLast, Revision

\* Each kind of step, on the three parts of the invariant.  A revision moves the
\* part it is about and none is written once deletion is admitted.
LEMMA AuditLogged ==
    ASSUME RowTypeOK, AuditInv, row.matching \notin DeletionStates,
           NEW a \in RevisionActions, NEW s \in Nat, NEW g \in Images,
           NEW q, Logged(q, a, s, g),
           row'.digest = IF a = "build_succeeded" THEN g ELSE row.digest,
           IF a \in AxisActions THEN Explains(a, row'.matching)
           ELSE row'.matching = row.matching /\ row.matching # "absent"
    PROVE  AuditInv'
  <1>0. PICK m : m = Len(revisions) + 1
    OBVIOUS
  <1>1. /\ Len(revisions) \in Nat /\ DOMAIN revisions = 1..Len(revisions)
        /\ DOMAIN revisions' = 1..m /\ m \in DOMAIN revisions'
        /\ Len(revisions') = m
        /\ revisions'[m] = Revision(a, s, g) /\ revisions'[m].action = a
        /\ revisions'[m].digest = g
        /\ \A i \in DOMAIN revisions :
              i \in DOMAIN revisions' /\ revisions'[i].action = revisions[i].action
    BY <1>0, LogAfter DEF Revision
  <1>2. \A i \in DOMAIN revisions : revisions[i].action # "delete"
    <2> SUFFICES ASSUME NEW i \in DOMAIN revisions, revisions[i].action = "delete"
                 PROVE  FALSE
      OBVIOUS
    <2>1. i = Len(revisions)
      BY DEF AuditInv, NothingAfterDelete
    <2>2. PICK k \in DOMAIN revisions :
             IsLast(AxisActions, k) /\ Explains(revisions[k].action, row.matching)
      BY DEF AuditInv, MatchingExplained
    <2>3. k = i
      BY <1>1, <2>1, <2>2 DEF IsLast, AxisActions
    <2> QED
      BY <2>2, <2>3 DEF Explains
  <1>3. NothingAfterDelete'
    BY <1>0, <1>1, <1>2 DEF NothingAfterDelete
  <1>4. DigestExplained'
    <2>1. CASE a = "build_succeeded"
      <3>1. IsLast(Successes, m)'
        BY <1>0, <2>1, LastAdded DEF Successes
      <3> QED
        BY <1>1, <2>1, <3>1 DEF DigestExplained
    <2>2. CASE a # "build_succeeded" /\ row.digest = NoImage
               /\ \A i \in DOMAIN revisions : revisions[i].action # "build_succeeded"
      <3>1. \A i \in DOMAIN revisions' : revisions'[i].action # "build_succeeded"
        BY <1>0, <1>1, <2>2
      <3> QED
        BY <2>2, <3>1 DEF DigestExplained
    <2>3. ASSUME a # "build_succeeded", NEW i \in DOMAIN revisions,
                 IsLast(Successes, i), row.digest = revisions[i].digest
          PROVE  DigestExplained'
      <3>1. Successes \cap RequestingActions = {} /\ a \notin Successes
        BY <2>3 DEF Successes, RequestingActions
      <3>2. IsLast(Successes, i)' /\ revisions'[i] = revisions[i]
        BY <2>3, <3>1, LastKept
      <3> QED
        BY <1>1, <2>3, <3>2 DEF DigestExplained
    <2> QED
      BY <2>1, <2>2, <2>3 DEF AuditInv, DigestExplained
  <1>5. MatchingExplained'
    <2>1. CASE a \in AxisActions
      <3>1. IsLast(AxisActions, m)'
        BY <1>0, <2>1, LastAdded
      <3> QED
        BY <1>1, <2>1, <3>1 DEF MatchingExplained
    <2>2. CASE a \notin AxisActions
      <3>1. PICK k \in DOMAIN revisions :
               IsLast(AxisActions, k) /\ Explains(revisions[k].action, row.matching)
        BY <2>2 DEF AuditInv, MatchingExplained
      <3>2. IsLast(AxisActions, k)' /\ revisions'[k].action = revisions[k].action
        BY <2>2, <3>1, LastKept
      <3> QED
        BY <1>1, <2>2, <3>1, <3>2 DEF MatchingExplained
    <2> QED
      BY <2>1, <2>2
  <1> QED
    BY <1>3, <1>4, <1>5 DEF AuditInv

\* A step that writes no revision.
LEMMA AuditUnlogged ==
    ASSUME AuditInv, revisions' = revisions, row'.digest = row.digest,
           \/ row'.matching = row.matching
           \/ row.matching \in DeletionStates /\ row'.matching \in DeletionStates
    PROVE  AuditInv'
  <1>1. DigestExplained' /\ NothingAfterDelete'
    BY DEF AuditInv, DigestExplained, NothingAfterDelete, IsLast
  <1>2. MatchingExplained'
    BY DEF AuditInv, MatchingExplained, IsLast, Explains, DeletionStates
  <1> QED
    BY <1>1, <1>2 DEF AuditInv

\* Every step keeps the log and the row in agreement.
LEMMA AuditStep == IInv /\ AuditInv /\ [Next]_vars => AuditInv'
  <1> SUFFICES ASSUME IInv, AuditInv, [Next]_vars PROVE AuditInv'
    OBVIOUS
  <1>0. /\ RowTypeOK /\ row \in Rows /\ BuildInv /\ NoImage \in Images
        /\ editor \in [Editors -> EditorStates] /\ creator \in CreatorStates
        /\ delivery \in [Deliveries -> DeliveryStates]
    BY BuildTypes, NullsTyped
  <1>1. CASE RowKept
    BY <1>1, AuditUnlogged DEF RowKept
  <1>2. CASE RowReclaimed
    BY <1>2, AuditUnlogged DEF RowReclaimed, DeletionStates
  <1>3. CASE RowInserted
    <2>1. creator.sha \in Nat
      BY <1>0 DEF CreatorStates
    <2>2. Explains("create", row'.matching) /\ row.matching \notin DeletionStates
      BY <1>3 DEF RowInserted, Explains, DeletionStates
    <2>3. "create" \in RevisionActions /\ "create" \in AxisActions
      BY DEF RevisionActions, AxisActions
    <2> QED
      BY <1>0, <1>3, <2>1, <2>2, <2>3, AuditLogged DEF RowInserted
  <1>4. ASSUME NEW e \in Editors, RowEdited(e) PROVE AuditInv'
    <2>1. editor[e].sha \in Nat
      BY <1>0 DEF EditorStates
    <2>2. row.matching \notin DeletionStates /\ row.matching # "absent"
      BY <1>0, <1>4 DEF RowEdited, HoldsClaim, BuildInv, DeletingNeverBuilding,
                        NothingBeforeCreate, NoRow
    <2>3. "edit" \in RevisionActions /\ "edit" \notin AxisActions
      BY DEF RevisionActions, AxisActions
    <2> QED
      BY <1>0, <1>4, <2>1, <2>2, <2>3, AuditLogged DEF RowEdited
  <1>5. ASSUME NEW d \in Deliveries, RowCutOver(d) PROVE AuditInv'
    <2>1. delivery[d].sha \in Nat /\ delivery[d].image \in Images
      BY <1>0 DEF DeliveryStates
    <2>2. row.matching \notin DeletionStates /\ row.matching # "absent"
      BY <1>0, <1>5, CutoverAdmitted DEF RowCutOver, BuildInv, NothingBeforeCreate
    <2>3. "build_succeeded" \in RevisionActions /\ "build_succeeded" \notin AxisActions
      BY DEF RevisionActions, AxisActions
    <2> QED
      BY <1>0, <1>5, <2>1, <2>2, <2>3, AuditLogged DEF RowCutOver
  <1>6. ASSUME NEW d \in Deliveries, RowBuildFailed(d) PROVE AuditInv'
    <2>1. delivery[d].sha \in Nat
      BY <1>0 DEF DeliveryStates
    <2>2. row.matching # "absent"
      BY <1>0, <1>6 DEF RowBuildFailed, BuildInv, NothingBeforeCreate
    <2>3. "build_failed" \in RevisionActions /\ "build_failed" \notin AxisActions
      BY DEF RevisionActions, AxisActions
    <2> QED
      BY <1>0, <1>6, <2>1, <2>2, <2>3, AuditLogged DEF RowBuildFailed
  <1>7. ASSUME NEW s \in Switches, RowSwitched(s[1], s[2]) PROVE AuditInv'
    <2>1. /\ s[1] \in RevisionActions /\ s[1] \in AxisActions
          /\ s[1] # "build_succeeded" /\ Explains(s[1], s[2])
      BY <1>7 DEF Switches, RevisionActions, AxisActions, Explains, DeletionStates
    <2>2. /\ row.matching \notin DeletionStates /\ row.digest \in Images
          /\ NoSha \in Nat
      BY <1>0, <1>7 DEF RowSwitched, Live, DeletionStates, Rows, NoSha
    <2> QED
      BY <1>0, <1>7, <2>1, <2>2, AuditLogged DEF RowSwitched
  <1> QED
    BY <1>1, <1>2, <1>3, <1>4, <1>5, <1>6, <1>7, StepMovesRow DEF RowMoves

\* The audit log explains the row, through any interleaving of the requests,
\* deliveries and runners.
THEOREM AuditTrail == Spec => []AuditExplainsRow
  <1>1. Init => AuditInv
    BY DEF Init, AuditInv, DigestExplained, MatchingExplained, NothingAfterDelete,
           NoRow
  <1>2. IInv /\ AuditInv => AuditExplainsRow
    BY BuildTypes, AuditInvImplies
  <1> QED
    BY <1>1, <1>2, AuditStep, Inductive, PTL DEF Spec

----------------------------------------------------------------------------
(* The row and the log keep the promise of AutomationLifecycle.            *)

\* The wallets that requests carry, and the row's, are wallets.
WalletsNamed ==
    /\ creator.pc = "inserting" => creator.namespace \in Wallets
    /\ \A e \in Editors : editor[e].pc # "idle" => editor[e].namespace \in Wallets
    /\ row.matching # "absent" => row.namespace \in Wallets

\* A row that exists was requested.
RequestOnRecord == row.matching # "absent" => \E s \in RequestedShas : LatestRequestIs(s)

\* A delivery that only rolls out does so because a deployment is recorded, and
\* none that is recorded is forgotten: its cutover may leave `deployed` alone.
RolloutsHaveHome ==
    \A d \in Deliveries :
        /\ delivery[d].pc \in {"deploying", "recording"}
        /\ delivery[d].operation # "create"
        => row.deployed # NoWallet

PromiseInv == WalletsNamed /\ RequestOnRecord /\ RolloutsHaveHome

\* Where a delivery that is deploying or recording comes from: it was so before,
\* with the same snapshot, or phase 1 has just taken the snapshot.
InRollout(d) == delivery[d].pc \in {"deploying", "recording"}

SameSnapshot(d) ==
    /\ delivery'[d].sha = delivery[d].sha /\ delivery'[d].image = delivery[d].image
    /\ delivery'[d].wallet = delivery[d].wallet
    /\ delivery'[d].operation = delivery[d].operation

Admitted(d) ==
    /\ delivery[d].pc = "idle" /\ delivery'[d].pc = "deploying"
    /\ row' = row /\ revisions' = revisions /\ row.matching # "absent"
    /\ Admission(delivery'[d].sha) = "applies"
    /\ delivery'[d].sha \in 1..commits /\ delivery'[d].image.sha = delivery'[d].sha
    /\ delivery'[d].wallet = row.namespace
    /\ delivery'[d].operation # "create" => row.deployed # NoWallet
    /\ CiMaySend(delivery'[d].sha)
    /\ \A c \in Deliveries : c # d => delivery'[c] = delivery[c]

LEMMA RolloutOrigin ==
    ASSUME IInv, [Next]_vars, NEW d \in Deliveries, InRollout(d)'
    PROVE  \/ InRollout(d) /\ SameSnapshot(d)
           \/ Admitted(d)
  <1>0. delivery \in [Deliveries -> DeliveryStates]
    BY BuildTypes
  <1> DEFINE Goal == (InRollout(d) /\ SameSnapshot(d)) \/ Admitted(d)
  <1>1. CASE delivery' = delivery
    BY <1>1 DEF InRollout, SameSnapshot
  <1>2. ASSUME NEW c \in Deliveries, NEW s \in 1..commits, NEW n \in 1..MaxRuns,
               NEW own, AdmitSuccess(c, s, [sha |-> s, run |-> n], own), CiMaySend(s)
        PROVE  Goal
    <2>1. PICK o : /\ o # "create" => row.deployed # NoWallet
                   /\ delivery' = [delivery EXCEPT ![c] =
                        [pc |-> "deploying", sha |-> s,
                         image |-> [sha |-> s, run |-> n],
                         wallet |-> row.namespace, operation |-> o]]
      BY <1>2 DEF AdmitSuccess
    <2>2. CASE c = d
      <3>1. /\ delivery'[d] = [pc |-> "deploying", sha |-> s,
                               image |-> [sha |-> s, run |-> n],
                               wallet |-> row.namespace, operation |-> o]
            /\ \A b \in Deliveries : b # d => delivery'[b] = delivery[b]
        BY <1>0, <2>1, <2>2
      <3>2. /\ delivery[d].pc = "idle" /\ row' = row /\ revisions' = revisions
            /\ row.matching # "absent" /\ Admission(s) = "applies"
        BY <1>2, <2>2 DEF AdmitSuccess
      <3> QED
        BY <1>2, <2>1, <3>1, <3>2 DEF Admitted
    <2>3. CASE c # d
      <3>1. delivery'[d] = delivery[d]
        BY <1>0, <2>1, <2>3
      <3> QED
        BY <3>1 DEF InRollout, SameSnapshot
    <2> QED
      BY <2>2, <2>3
  <1>3. ASSUME NEW c \in Deliveries, NEW s \in 1..commits, AdmitFailure(c, s)
        PROVE  Goal
    <2>1. c # d /\ delivery'[d] = delivery[d]
      BY <1>0, <1>3 DEF AdmitFailure, InRollout
    <2> QED
      BY <2>1 DEF InRollout, SameSnapshot
  <1>4. ASSUME NEW c \in Deliveries,
               \/ Answered(c)
               \/ \E p \in {"tearing_capp", "tearing_secret"} :
                     delivery' = [delivery EXCEPT ![c].pc = p]
               \/ /\ delivery[c].pc = "deploying"
                  /\ delivery' = [delivery EXCEPT ![c].pc = "recording"]
        PROVE  Goal
    <2>1. CASE Answered(c)
      <3>1. delivery'[d] = delivery[d]
        BY <1>0, <2>1 DEF Answered, IdleDelivery, InRollout
      <3> QED
        BY <3>1 DEF InRollout, SameSnapshot
    <2>2. ASSUME NEW p \in {"tearing_capp", "tearing_secret"},
                 delivery' = [delivery EXCEPT ![c].pc = p]
          PROVE  Goal
      <3>1. delivery'[d] = delivery[d]
        BY <1>0, <2>2 DEF InRollout, DeliveryStates
      <3> QED
        BY <3>1 DEF InRollout, SameSnapshot
    <2>3. CASE /\ delivery[c].pc = "deploying"
               /\ delivery' = [delivery EXCEPT ![c].pc = "recording"]
      BY <1>0, <2>3 DEF InRollout, SameSnapshot, DeliveryStates
    <2> QED
      BY <1>4, <2>1, <2>2, <2>3
  <1>5. CASE WebhookStep
    <2>1. ASSUME NEW c \in Deliveries,
                 \/ Deploy(c) \/ DeployFails(c) \/ CutOver(c) \/ LoseToNewerState(c)
                 \/ LoseToDeletion(c) \/ RecordFails(c) \/ TearDownCapp(c)
                 \/ TearDownSecret(c) \/ TearDownFails(c) \/ RecordFailure(c)
                 \/ DeliveryDies(c)
          PROVE  Goal
      BY <1>4, <2>1
         DEF Deploy, DeployFails, CutOver, LoseToNewerState, LoseToDeletion,
             RecordFails, TearDownCapp, TearDownSecret, TearDownFails,
             RecordFailure, DeliveryDies
    <2>2. ASSUME NEW c \in Deliveries, NEW s \in 1..commits, NEW n \in 1..MaxRuns,
                 NEW own \in BOOLEAN, CiMaySend(s),
                 AdmitSuccess(c, s, [sha |-> s, run |-> n], own)
          PROVE  Goal
      BY <1>2, <2>2
    <2>3. PICK c \in Deliveries :
             \/ \E s \in 1..commits, n \in 1..MaxRuns, own \in BOOLEAN :
                   /\ CiMaySend(s)
                   /\ AdmitSuccess(c, s, [sha |-> s, run |-> n], own)
             \/ \E s \in 1..commits : AdmitFailure(c, s)
             \/ Deploy(c) \/ DeployFails(c) \/ CutOver(c) \/ LoseToNewerState(c)
             \/ LoseToDeletion(c) \/ RecordFails(c) \/ TearDownCapp(c)
             \/ TearDownSecret(c) \/ TearDownFails(c) \/ RecordFailure(c)
             \/ DeliveryDies(c)
      BY <1>5 DEF WebhookStep
    <2> QED
      BY <1>3, <2>1, <2>2, <2>3
  <1>6. ~WebhookStep => delivery' = delivery
    BY DEF Next, AuthoringStep, LifecycleStep, CascadeStep, webhookVars, vars
  <1> QED
    BY <1>1, <1>5, <1>6

\* A step keeps every recorded deployment, and a cutover records one.
LEMMA HomeKept ==
    ASSUME IInv, WalletsNamed, RowMoves, row.deployed # NoWallet
    PROVE  row'.deployed # NoWallet
  <1>1. ASSUME NEW d \in Deliveries, RowCutOver(d) PROVE row'.deployed # NoWallet
    <2>1. delivery[d].wallet = row.namespace
      BY <1>1, CutoverAdmitted DEF RowCutOver
    <2>2. row.matching # "absent"
      BY <1>1, BuildTypes DEF RowCutOver, BuildInv, NothingBeforeCreate
    <2>3. row.namespace # NoWallet
      BY <2>2, BuildTypes DEF WalletsNamed
    <2> QED
      BY <1>1, <2>1, <2>3 DEF RowCutOver
  <1> QED
    BY <1>1 DEF RowMoves, RowKept, RowInserted, RowEdited, RowBuildFailed,
                RowSwitched, RowReclaimed

\* Requests carry wallets, and only they write the row's.
LEMMA WalletsStep == IInv /\ WalletsNamed /\ [Next]_vars => WalletsNamed'
  <1> SUFFICES ASSUME IInv, WalletsNamed, [Next]_vars PROVE WalletsNamed'
    OBVIOUS
  <1>0. editor \in [Editors -> EditorStates] /\ creator \in CreatorStates
        /\ BuildInv
    BY BuildTypes
  <1>1. row'.matching # "absent" => row'.namespace \in Wallets
    <2>1. ASSUME NEW e \in Editors, RowEdited(e) PROVE row'.namespace \in Wallets
      BY <2>1 DEF RowEdited, WalletsNamed
    <2>2. ASSUME RowInserted PROVE row'.namespace \in Wallets
      BY <2>2 DEF RowInserted, WalletsNamed
    <2>3. ASSUME row'.namespace = row.namespace, row.matching # "absent"
          PROVE  row'.namespace \in Wallets
      BY <2>3 DEF WalletsNamed
    <2>4. ASSUME row'.namespace = row.namespace, row'.matching = row.matching
          PROVE  <1>1
      BY <2>3, <2>4
    <2> QED
      BY <2>1, <2>2, <2>3, <2>4, StepMovesRow
         DEF RowMoves, RowKept, RowCutOver, RowBuildFailed, RowSwitched, Live,
             RowReclaimed
  <1>2. creator'.pc = "inserting" => creator'.namespace \in Wallets
    <2>1. ASSUME NEW a, CreateInsert(a), a # "inserting"
          PROVE  creator'.pc # "inserting"
      BY <1>0, <2>1 DEF CreateInsert, CreatorStates
    <2>2. ASSUME CreateInsertFails PROVE creator'.pc # "inserting"
      BY <1>0, <2>2 DEF CreateInsertFails, CreatorStates
    <2>3. ASSUME NEW w \in Wallets, CreateCommit(w) PROVE creator'.namespace \in Wallets
      BY <2>3 DEF CreateCommit
    <2>4. ASSUME creator' = creator
          PROVE creator'.pc = "inserting" => creator'.namespace \in Wallets
      BY <2>4 DEF WalletsNamed
    <2> QED
      BY <2>1, <2>2, <2>3, <2>4
         DEF Next, AuthoringStep, ReleaseStuckBuild, ClaimBuild, CommitScript,
             CommitScriptFails, ReleaseBuildClaim, FinishEdit, EditSuperseded,
             EditorDies, WebhookStep, LifecycleStep, CascadeStep, authoringVars, vars
  <1>3. ASSUME NEW f \in Editors, editor'[f].pc # "idle"
        PROVE  editor'[f].namespace \in Wallets
    <2>1. ASSUME NEW e \in Editors, NEW w \in Wallets, ClaimBuild(e, w)
          PROVE  editor'[f].namespace \in Wallets
      BY <1>0, <1>3, <2>1 DEF ClaimBuild, WalletsNamed
    <2>2. ASSUME NEW e \in Editors,
                 \/ CommitScript(e) \/ \E n \in 0..1 : CommitScriptFails(e, n)
          PROVE  editor'[f].namespace \in Wallets
      BY <1>0, <1>3, <2>2 DEF CommitScript, CommitScriptFails, WalletsNamed, EditorStates
    <2>3. ASSUME NEW e \in Editors, editor' = [editor EXCEPT ![e] = IdleEditor]
          PROVE  editor'[f].namespace \in Wallets
      BY <1>0, <1>3, <2>3 DEF IdleEditor, WalletsNamed
    <2>4. ASSUME editor' = editor PROVE editor'[f].namespace \in Wallets
      BY <1>3, <2>4 DEF WalletsNamed
    <2> QED
      BY <2>1, <2>2, <2>3, <2>4
         DEF Next, AuthoringStep, CreateCommit, CreateInsert, CreateInsertFails,
             ReleaseStuckBuild, ReleaseBuildClaim, FinishEdit, EditSuperseded,
             EditorDies, WebhookStep, LifecycleStep, CascadeStep, authoringVars, vars
  <1> QED
    BY <1>1, <1>2, <1>3 DEF WalletsNamed

\* What RequestedShas holds, before and after a step.
LEMMA AskedMembers ==
    ASSUME NEW t
    PROVE  /\ t \in RequestedShas <=>
                \E i \in DOMAIN revisions : /\ revisions[i].action \in RequestingActions
                                            /\ revisions[i].sha = t
           /\ t \in RequestedShas' <=>
                \E i \in DOMAIN revisions' : /\ revisions'[i].action \in RequestingActions
                                             /\ revisions'[i].sha = t
  BY DEF RequestedShas

\* At most one commit is the newest request.
LEMMA OneNewest ==
    ASSUME RowTypeOK, NEW s, NEW t, LatestRequestIs(s), LatestRequestIs(t)
    PROVE  s = t
  <1>1. DOMAIN revisions = 1..Len(revisions) /\ Len(revisions) \in Nat
    BY LenProperties DEF RowTypeOK
  <1> QED
    BY <1>1 DEF LatestRequestIs

\* The newest request is the one NewestRequest chooses.
LEMMA NewestChosen ==
    ASSUME RowTypeOK, row.matching # "absent", NEW s, LatestRequestIs(s)
    PROVE  NewestRequest = s /\ s \in RequestedShas
  <1>1. s \in RequestedShas
    BY AskedMembers DEF LatestRequestIs
  <1>2. \A t \in RequestedShas : LatestRequestIs(t) => t = s
    BY OneNewest
  <1> QED
    BY <1>1, <1>2 DEF NewestRequest

LEMMA NewestChosenNext ==
    ASSUME row'.matching # "absent", NEW s, LatestRequestIs(s)',
           \A t : LatestRequestIs(t)' => t = s
    PROVE  NewestRequest' = s /\ s \in RequestedShas'
  <1>1. s \in RequestedShas'
    BY AskedMembers DEF LatestRequestIs
  <1> QED
    BY <1>1 DEF NewestRequest

\* A create or edit revision adds its commit, and that is the newest request.
LEMMA RequestLogged ==
    ASSUME RowTypeOK, NEW a \in RequestingActions, NEW s \in Nat,
           Logged(revisions, a, s, NoImage), row'.matching # "absent"
    PROVE  /\ NewestRequest' = s
           /\ RequestedShas' = RequestedShas \cup {s}
           /\ s \in RequestedShas' /\ LatestRequestIs(s)'
  <1>0. a \in RevisionActions /\ NoImage \in Images
    BY NullsTyped DEF RequestingActions, RevisionActions
  <1>1. \A t : LatestRequestIs(t)' <=> t = s
    <2>1. Revision(a, s, NoImage) \in Revisions
      BY <1>0, RevisionTyped
    <2>2. Revision(a, s, NoImage).action = a /\ Revision(a, s, NoImage).sha = s
      BY DEF Revision
    <2> QED
      BY <2>1, <2>2, NewestAfterRequest DEF Logged
  <1>2. ASSUME NEW t
        PROVE  t \in RequestedShas' <=> t \in RequestedShas \/ t = s
    <2>1. PICK n \in Nat : n = Len(revisions)
      BY <1>0, LogAfter
    <2>2. /\ DOMAIN revisions = 1..n /\ DOMAIN revisions' = 1..(n + 1)
          /\ revisions'[n + 1] = Revision(a, s, NoImage)
          /\ \A i \in 1..n : /\ revisions'[i].action = revisions[i].action
                             /\ revisions'[i].sha = revisions[i].sha
      BY <1>0, <2>1, LogAfter
    <2>3. revisions'[n + 1].action \in RequestingActions /\ revisions'[n + 1].sha = s
      BY <2>2 DEF Revision
    <2>4. ASSUME t \in RequestedShas' PROVE t \in RequestedShas \/ t = s
      <3>1. PICK i \in 1..(n + 1) : revisions'[i].action \in RequestingActions
                                    /\ revisions'[i].sha = t
        BY <2>2, <2>4, AskedMembers
      <3>2. CASE i = n + 1
        BY <2>3, <3>1, <3>2
      <3>3. CASE i \in 1..n
        BY <2>2, <3>1, <3>3, AskedMembers
      <3> QED
        BY <2>1, <3>2, <3>3
    <2>5. ASSUME t \in RequestedShas PROVE t \in RequestedShas'
      <3>1. PICK i \in 1..n : revisions[i].action \in RequestingActions
                              /\ revisions[i].sha = t
        BY <2>2, <2>5, AskedMembers
      <3>2. i \in DOMAIN revisions' /\ revisions'[i].action \in RequestingActions
            /\ revisions'[i].sha = t
        BY <2>1, <2>2, <3>1
      <3> QED
        BY <3>2, AskedMembers
    <2>6. s \in RequestedShas'
      <3>1. n + 1 \in DOMAIN revisions'
        BY <2>1, <2>2
      <3> QED
        BY <2>3, <3>1, AskedMembers
    <2> QED
      BY <2>4, <2>5, <2>6
  <1>3. NewestRequest' = s
    BY <1>1, NewestChosenNext
  <1> QED
    BY <1>1, <1>2, <1>3

\* A revision that requests nothing leaves the requests as they were.
LEMMA OtherLogged ==
    ASSUME RowTypeOK, NEW a \in RevisionActions \ RequestingActions, NEW s \in Nat,
           NEW g \in Images, NEW q, Logged(q, a, s, g)
    PROVE  /\ RequestedShas' = RequestedShas
           /\ \A t : LatestRequestIs(t)' <=> LatestRequestIs(t)
  <1>1. \A t : LatestRequestIs(t)' <=> LatestRequestIs(t)
    <2>1. Revision(a, s, g) \in Revisions /\ Revision(a, s, g).action = a
      BY RevisionTyped DEF Revision
    <2> QED
      BY <2>1, NewestAfterOther DEF Logged
  <1>2. ASSUME NEW t PROVE t \in RequestedShas' <=> t \in RequestedShas
    <2>1. PICK n \in Nat : n = Len(revisions)
      BY LogAfter
    <2>2. /\ DOMAIN revisions = 1..n /\ DOMAIN revisions' = 1..(n + 1)
          /\ revisions'[n + 1] = Revision(a, s, g)
          /\ \A i \in 1..n : /\ revisions'[i].action = revisions[i].action
                             /\ revisions'[i].sha = revisions[i].sha
      BY <2>1, LogAfter
    <2>3. revisions'[n + 1].action \notin RequestingActions
      BY <2>2 DEF Revision
    <2>4. \A i \in DOMAIN revisions' : i \in DOMAIN revisions \/ i = n + 1
      BY <2>1, <2>2
    <2>5. \A i \in DOMAIN revisions : i \in DOMAIN revisions'
      BY <2>1, <2>2
    <2> QED
      BY <2>2, <2>3, <2>4, <2>5, AskedMembers
  <1> QED
    BY <1>1, <1>2

\* The choice stays where the requests do.
LEMMA NewestKept ==
    ASSUME RowTypeOK, RequestOnRecord,
           row'.matching = "absent" <=> row.matching = "absent",
           \A t : LatestRequestIs(t)' <=> LatestRequestIs(t)
    PROVE  NewestRequest' = NewestRequest
  <1>1. CASE row.matching = "absent"
    BY <1>1 DEF NewestRequest
  <1>2. CASE row.matching # "absent"
    <2>1. PICK s : LatestRequestIs(s)
      BY <1>2 DEF RequestOnRecord
    <2>2. NewestRequest = s
      BY <1>2, <2>1, NewestChosen
    <2>3. \A t : LatestRequestIs(t)' => t = s
      BY <2>1, OneNewest
    <2>4. NewestRequest' = s
      BY <1>2, <2>1, <2>3, NewestChosenNext
    <2> QED
      BY <2>2, <2>4
  <1> QED
    BY <1>1, <1>2

\* A step that writes no revision keeps the requests.
LEMMA RequestsKept ==
    ASSUME revisions' = revisions
    PROVE  /\ RequestedShas' = RequestedShas
           /\ \A t : LatestRequestIs(t)' <=> LatestRequestIs(t)
  <1>1. \A t : t \in RequestedShas' <=> t \in RequestedShas
    BY AskedMembers
  <1> QED
    BY <1>1 DEF LatestRequestIs

\* The steps that request nothing keep the requests, and the row there.
LEMMA NothingRequested ==
    ASSUME IInv, RequestOnRecord, RowMoves, ~RowInserted,
           \A e \in Editors : ~RowEdited(e)
    PROVE  /\ RequestedShas' = RequestedShas
           /\ \A t : LatestRequestIs(t)' <=> LatestRequestIs(t)
           /\ row'.matching = "absent" <=> row.matching = "absent"
           /\ NewestRequest' = NewestRequest
  <1>0. /\ RowTypeOK /\ row \in Rows /\ NoImage \in Images /\ NoSha \in Nat
        /\ delivery \in [Deliveries -> DeliveryStates]
    BY BuildTypes, NullsTyped DEF NoSha
  <1> DEFINE Kept == /\ RequestedShas' = RequestedShas
                     /\ \A t : LatestRequestIs(t)' <=> LatestRequestIs(t)
                     /\ row'.matching = "absent" <=> row.matching = "absent"
  <1>1. ASSUME RowKept \/ RowReclaimed PROVE Kept
    BY <1>1, RequestsKept DEF RowKept, RowReclaimed
  <1>2. ASSUME NEW d \in Deliveries, RowCutOver(d) PROVE Kept
    <2>1. delivery[d].sha \in Nat /\ delivery[d].image \in Images
      BY <1>0 DEF DeliveryStates
    <2>2. "build_succeeded" \in RevisionActions \ RequestingActions
      BY DEF RevisionActions, RequestingActions
    <2> QED
      BY <1>0, <1>2, <2>1, <2>2, OtherLogged DEF RowCutOver
  <1>3. ASSUME NEW d \in Deliveries, RowBuildFailed(d) PROVE Kept
    <2>1. delivery[d].sha \in Nat
      BY <1>0 DEF DeliveryStates
    <2>2. "build_failed" \in RevisionActions \ RequestingActions
      BY DEF RevisionActions, RequestingActions
    <2> QED
      BY <1>0, <1>3, <2>1, <2>2, OtherLogged DEF RowBuildFailed
  <1>4. ASSUME NEW s \in Switches, RowSwitched(s[1], s[2]) PROVE Kept
    <2>1. s[1] \in RevisionActions \ RequestingActions /\ s[2] # "absent"
      BY DEF Switches, RevisionActions, RequestingActions
    <2>2. row.digest \in Images /\ row.matching # "absent"
      BY <1>0, <1>4 DEF RowSwitched, Live, Rows
    <2> QED
      BY <1>0, <1>4, <2>1, <2>2, OtherLogged DEF RowSwitched
  <1>5. Kept
    BY <1>1, <1>2, <1>3, <1>4 DEF RowMoves
  <1> QED
    BY <1>0, <1>5, NewestKept

\* What the insert and an edit request: a commit no revision names.
LEMMA FreshlyRequested ==
    ASSUME IInv,
           NEW s, \/ RowInserted /\ s = creator.sha
                  \/ \E e \in Editors : RowEdited(e) /\ s = editor[e].sha
    PROVE  /\ s \in Nat /\ s \notin RequestedShas
           /\ NewestRequest' = s /\ RequestedShas' = RequestedShas \cup {s}
           /\ LatestRequestIs(s)'
  <1>0. RowTypeOK /\ BuildInv /\ commits \in Nat
    BY BuildTypes
  <1>1. CASE RowInserted /\ s = creator.sha
    <2>1. s \in Nat /\ row'.matching # "absent"
      BY <1>0, <1>1 DEF RowInserted, BuildInv, CommitsFresh
    <2>2. s \notin RequestedShas
      BY <1>0, <1>1, AskedMembers DEF RowInserted, BuildInv, NothingBeforeCreate
    <2>3. "create" \in RequestingActions
      BY DEF RequestingActions
    <2> QED
      BY <1>0, <1>1, <2>1, <2>2, <2>3, RequestLogged DEF RowInserted
  <1>2. ASSUME NEW e \in Editors, RowEdited(e), s = editor[e].sha
        PROVE  /\ s \in Nat /\ s \notin RequestedShas
               /\ NewestRequest' = s /\ RequestedShas' = RequestedShas \cup {s}
               /\ LatestRequestIs(s)'
    <2>1. s \in Nat /\ \A i \in DOMAIN revisions : revisions[i].sha # s
      BY <1>0, <1>2 DEF RowEdited, BuildInv, CommitsFresh
    <2>2. row'.matching # "absent"
      BY <1>0, <1>2 DEF RowEdited, HoldsClaim, BuildInv, NothingBeforeCreate, NoRow
    <2>3. "edit" \in RequestingActions
      BY DEF RequestingActions
    <2> QED
      BY <1>0, <1>2, <2>1, <2>2, <2>3, AskedMembers, RequestLogged DEF RowEdited
  <1> QED
    BY <1>1, <1>2

\* Before the POST nothing is requested.
LEMMA PromiseInit == Init => PromiseInv
  BY DEF Init, AuthoringInit, WebhookInit, IdleEditor, IdleDelivery, NoRow,
         PromiseInv, WalletsNamed, RequestOnRecord, RolloutsHaveHome

\* Every step keeps the extra invariant.
LEMMA PromiseStep == IInv /\ PromiseInv /\ [Next]_vars => PromiseInv'
  <1> SUFFICES ASSUME IInv, PromiseInv, [Next]_vars PROVE PromiseInv'
    OBVIOUS
  <1>0. WalletsNamed /\ RequestOnRecord /\ RolloutsHaveHome /\ RowMoves
    BY StepMovesRow DEF PromiseInv
  <1>1. WalletsNamed'
    BY <1>0, WalletsStep
  <1>2. RequestOnRecord'
    <2>1. ASSUME NEW s, LatestRequestIs(s)' PROVE s \in RequestedShas'
      BY <2>1, AskedMembers DEF LatestRequestIs
    <2>2. CASE RowInserted \/ \E e \in Editors : RowEdited(e)
      <3>1. PICK s : LatestRequestIs(s)'
        BY <2>2, FreshlyRequested
      <3> QED
        BY <2>1, <3>1 DEF RequestOnRecord
    <2>3. CASE ~RowInserted /\ \A e \in Editors : ~RowEdited(e)
      BY <1>0, <2>3, NothingRequested DEF RequestOnRecord
    <2> QED
      BY <2>2, <2>3
  <1>3. RolloutsHaveHome'
    <2> SUFFICES ASSUME NEW d \in Deliveries, InRollout(d)',
                        delivery'[d].operation # "create"
                 PROVE  row'.deployed # NoWallet
      BY DEF RolloutsHaveHome, InRollout
    <2>1. CASE InRollout(d) /\ SameSnapshot(d)
      <3>1. row.deployed # NoWallet
        BY <1>0, <2>1 DEF RolloutsHaveHome, InRollout, SameSnapshot
      <3> QED
        BY <1>0, <3>1, HomeKept
    <2>2. CASE Admitted(d)
      BY <2>2 DEF Admitted
    <2> QED
      BY <2>1, <2>2, RolloutOrigin
  <1> QED
    BY <1>1, <1>2, <1>3 DEF PromiseInv

\* Every step of the control plane, seen through the mapping, is a step of the
\* lifecycle or changes nothing of it.
LEMMA StepKeepsPromise ==
    IInv /\ PromiseInv /\ [Next]_vars
        => [Promised!LifecycleNext]_(Promised!lifecycleVars)
  <1> SUFFICES ASSUME IInv, PromiseInv, [Next]_vars
               PROVE  Promised!LifecycleNext \/ UNCHANGED Promised!lifecycleVars
    OBVIOUS
  <1>0. /\ WalletsNamed /\ RequestOnRecord /\ RolloutsHaveHome /\ RowMoves
        /\ RowTypeOK /\ BuildInv /\ row \in Rows
    BY StepMovesRow, BuildTypes DEF PromiseInv
  <1>1. CASE RowInserted
    <2>1. /\ creator.sha \in Nat \ RequestedShas /\ NewestRequest' = creator.sha
          /\ RequestedShas' = RequestedShas \cup {creator.sha}
      BY <1>1, FreshlyRequested
    <2>2. Promised!Submits(creator.namespace)
      BY <1>1, <2>1 DEF RowInserted, Promised!Submits
    <2>3. Promised!Create(creator.namespace)
      BY <1>1, <2>2 DEF RowInserted, Promised!Create, StageOf
    <2>4. creator.namespace \in Wallets
      BY <1>0, <1>1 DEF RowInserted, WalletsNamed
    <2> QED
      BY <2>3, <2>4 DEF Promised!LifecycleNext
  <1>2. ASSUME NEW e \in Editors, RowEdited(e) PROVE Promised!LifecycleNext
    <2>1. /\ editor[e].sha \in Nat \ RequestedShas /\ NewestRequest' = editor[e].sha
          /\ RequestedShas' = RequestedShas \cup {editor[e].sha}
      BY <1>2, FreshlyRequested
    <2>2. Promised!Submits(editor[e].namespace)
      BY <1>2, <2>1 DEF RowEdited, Promised!Submits
    <2>3. /\ row.matching \in {"inactive", "active"}
          /\ CheckWalletUnchanged(editor[e].namespace)
      BY <1>0, <1>2 DEF RowEdited, HoldsClaim, BuildInv, DeletingNeverBuilding,
                        NothingBeforeCreate, NoRow, ClaimKeepsWallet, Rows,
                        MatchingStates, DeletionStates
    <2>4. Promised!Resubmit(editor[e].namespace)
      BY <1>2, <2>2, <2>3 DEF RowEdited, Promised!Resubmit, Promised!Usable, StageOf,
                              CheckWalletUnchanged
    <2>5. editor[e].namespace \in Wallets
      BY <1>0, <1>2 DEF RowEdited, WalletsNamed
    <2> QED
      BY <2>4, <2>5 DEF Promised!LifecycleNext
  <1>3. CASE ~RowInserted /\ \A e \in Editors : ~RowEdited(e)
    <2>1. RequestedShas' = RequestedShas /\ NewestRequest' = NewestRequest
      BY <1>0, <1>3, NothingRequested
    <2>2. ASSUME NEW d \in Deliveries, RowCutOver(d) PROVE Promised!Serve
      <3>1. /\ row.matching \notin DeletionStates /\ LatestRequestIs(delivery[d].sha)
            /\ delivery[d].wallet = row.namespace
            /\ delivery[d].image.sha = delivery[d].sha
        BY <2>2, CutoverAdmitted DEF RowCutOver
      <3>2. row.matching # "absent"
        BY <1>0, <2>2 DEF RowCutOver, BuildInv, NothingBeforeCreate
      <3>3. NewestRequest = delivery[d].sha
        BY <1>0, <3>1, <3>2, NewestChosen
      <3>4. row'.deployed = row.namespace
        BY <1>0, <2>2, <3>1 DEF RowCutOver, RolloutsHaveHome, BuildInv,
                                DeploymentInRowWallet
      <3>5. StageOf(row.matching) \in {"off", "on"}
        BY <1>0, <3>1, <3>2 DEF StageOf, Rows, MatchingStates, DeletionStates
      <3> QED
        BY <2>1, <2>2, <3>1, <3>3, <3>4, <3>5
           DEF RowCutOver, Promised!Serve, Promised!Usable
    <2>3. ASSUME NEW s \in Switches, RowSwitched(s[1], s[2])
          PROVE  Promised!SwitchOn \/ Promised!SwitchOff \/ Promised!Delete
      <3>1. StageOf(row.matching) \in {"off", "on"}
        BY <2>3 DEF RowSwitched, Live, StageOf
      <3>2. \/ /\ s[1] = "enable" /\ row.digest # NoImage
               /\ StageOf(row'.matching) = "on"
            \/ StageOf(row'.matching) = "off"
            \/ StageOf(row'.matching) = "deleting"
        BY <2>3 DEF RowSwitched, Switches, StageOf
      <3>3. UNCHANGED <<row.digest, row.namespace, row.deployed>>
        BY <2>3 DEF RowSwitched
      <3> QED
        BY <2>1, <3>1, <3>2, <3>3
           DEF Promised!SwitchOn, Promised!SwitchOff, Promised!Delete,
               Promised!Usable, Promised!Nothing, NoImage
    <2>4. ASSUME RowReclaimed PROVE Promised!Reclaim
      BY <2>1, <2>4 DEF RowReclaimed, Promised!Reclaim, StageOf
    <2>5. ASSUME RowKept \/ \E d \in Deliveries : RowBuildFailed(d)
          PROVE  UNCHANGED Promised!lifecycleVars
      BY <2>1, <2>5 DEF RowKept, RowBuildFailed, Promised!lifecycleVars
    <2> QED
      BY <1>0, <1>3, <2>2, <2>3, <2>4, <2>5 DEF RowMoves, Promised!LifecycleNext
  <1> QED
    BY <1>1, <1>2, <1>3

\* The control plane implements the lifecycle its owner is promised: for any
\* number of concurrent edits, deliveries and runners, what is served was built
\* from the newest submission in its wallet, and deletion is one-way.
THEOREM PromiseKept == Spec => KeepsPromise
  <1>1. Init => Promised!LifecycleInit
    <2> SUFFICES ASSUME Init PROVE Promised!LifecycleInit
      OBVIOUS
    <2>1. \A t : t \notin RequestedShas
      BY AskedMembers DEF Init
    <2> QED
      BY <2>1 DEF Init, NoRow, NoImage, NoSha, StageOf, NewestRequest,
                  Promised!LifecycleInit, Promised!Nothing
  <1> QED
    BY <1>1, PromiseInit, PromiseStep, StepKeepsPromise, Inductive, PTL
       DEF Spec, KeepsPromise, Promised!LifecycleSpec
==============================================================================
