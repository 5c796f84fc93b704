--------------------------- MODULE Deboard_proofs ---------------------------
(***************************************************************************)
(* Proofs about deboard_wallet, for any number of automations and of calls *)
(* that overlap: what a pass reports is true and stays true, every child   *)
(* it listed is reported once, and no caller takes a deletion over.        *)
(***************************************************************************)
EXTENDS Deboard, FiniteSetTheorems, TLAPS

\* Every listed child is at one place: waiting, in hand, or in one bucket.
Accounted(s) ==
    /\ s.listed = s.todo \cup s.current \cup s.deleted \cup s.in_progress
                  \cup s.skipped_building \cup s.failed
    /\ s.todo \cap (s.current \cup s.deleted \cup s.in_progress
                    \cup s.skipped_building \cup s.failed) = {}
    /\ s.current \cap (s.deleted \cup s.in_progress \cup s.skipped_building
                       \cup s.failed) = {}
    /\ s.deleted \cap (s.in_progress \cup s.skipped_building \cup s.failed) = {}
    /\ s.in_progress \cap (s.skipped_building \cup s.failed) = {}
    /\ s.skipped_building \cap s.failed = {}

\* The loop has one child in hand, and ends with none left.
PassSound(s) ==
    /\ Accounted(s)
    /\ \A a, b \in s.current : a = b
    /\ s.pc = "done" => s.todo = {} /\ s.current = {}

PassesSound == \A p \in Passes : PassSound(pass[p])

\* Whoever is recorded as the deleter, the deletion was admitted.
DeletersDeleted ==
    \A a \in Children : child[a].deleter # "none" => child[a].matching \in DeletionStates

----------------------------------------------------------------------------
(* Types.                                                                  *)

LEMMA TypeInit == Init => TypeOK
  BY DEF Init, TypeOK, ChildStates, PassStates, NoPass, Live

\* What begin_delete leaves is a row that is being deleted.
LEMMA BeginDeleteRow ==
    ASSUME NEW r \in ChildStates, NEW actor \in {"author"} \cup Passes
    PROVE  /\ BeginDelete(r, actor) \in ChildStates
           /\ BeginDelete(r, actor).matching \in DeletionStates
           /\ r.matching \in DeletionStates => BeginDelete(r, actor) = r
  BY DEF BeginDelete, ChildStates, DeletionStates

\* A step on one child, and a step on one pass.
ChildStep(a) ==
    \/ \E w \in {Wallet, Elsewhere} : CreateChild(a, w) \/ EditChild(a, w)
    \/ \E m \in Live : ToggleChild(a, m)
    \/ BuildSettles(a, "idle")
    \/ BuildSettles(a, "build_failed")
    \/ SuccessOverrides(a)
    \/ AuthorDeletes(a)
    \/ CascadeCompletes(a)

PassStep(p) ==
    \/ ListChildren(p)
    \/ \E a \in Children :
          \/ AdmitChild(p, a) \/ SkipBuilding(p, a)
          \/ AdmitRaises(p, a) \/ AdmitRaisesLate(p, a)
          \/ ReportDeleted(p, a) \/ ReportInProgress(p, a)
    \/ Summarise(p)

LEMMA NextCases ==
    Next <=> (\E a \in Children : ChildStep(a)) \/ (\E p \in Passes : PassStep(p))
  BY DEF Next, ChildStep, PassStep

\* What any step does to one row: it stays typed, a deletion never ends, a
\* deleted row stays deleted and the deleter stays.
RowGoesOn(a) ==
    /\ child'[a] \in ChildStates
    /\ child[a].matching \in DeletionStates =>
          child'[a].matching \in DeletionStates /\ child'[a].deleter = child[a].deleter
    /\ child[a].matching = "deleted" => child'[a].matching = "deleted"
    /\ child'[a].deleter # "none" =>
          child[a].deleter # "none" \/ child'[a].matching \in DeletionStates

LEMMA RowsGoOn ==
    ASSUME TypeOK, [Next]_vars
    PROVE  /\ child' \in [Children -> ChildStates]
           /\ \A a \in Children : RowGoesOn(a)
  <1>0. child \in [Children -> ChildStates]
    BY DEF TypeOK
  <1>1. ASSUME child' = child
        PROVE  /\ child' \in [Children -> ChildStates]
               /\ \A a \in Children : RowGoesOn(a)
    BY <1>0, <1>1 DEF RowGoesOn
  <1>2. ASSUME NEW b \in Children, NEW x \in ChildStates,
               child' = [child EXCEPT ![b] = x],
               child[b].matching \in DeletionStates =>
                  x.matching \in DeletionStates /\ x.deleter = child[b].deleter,
               child[b].matching = "deleted" => x.matching = "deleted",
               x.deleter # "none" =>
                  child[b].deleter # "none" \/ x.matching \in DeletionStates
        PROVE  /\ child' \in [Children -> ChildStates]
               /\ \A a \in Children : RowGoesOn(a)
    BY <1>0, <1>2 DEF RowGoesOn
  <1>3. ASSUME NEW b \in Children, NEW actor \in {"author"} \cup Passes,
               child' = [child EXCEPT ![b] = BeginDelete(@, actor)]
        PROVE  /\ child' \in [Children -> ChildStates]
               /\ \A a \in Children : RowGoesOn(a)
    <2>1. child[b] \in ChildStates
      BY <1>0
    <2>2. child' = [child EXCEPT ![b] = BeginDelete(child[b], actor)]
      BY <1>3
    <2>3. /\ BeginDelete(child[b], actor) \in ChildStates
          /\ BeginDelete(child[b], actor).matching \in DeletionStates
          /\ child[b].matching \in DeletionStates
                => BeginDelete(child[b], actor) = child[b]
      BY <2>1, BeginDeleteRow
    <2>4. "deleted" \in DeletionStates
      BY DEF DeletionStates
    <2> QED
      BY <1>2, <2>2, <2>3, <2>4
  <1>4. ASSUME NEW b \in Children, ChildStep(b)
        PROVE  /\ child' \in [Children -> ChildStates]
               /\ \A a \in Children : RowGoesOn(a)
    <2>0. child[b] \in ChildStates
      BY <1>0
    <2>1. ASSUME NEW w \in {Wallet, Elsewhere}, NEW m \in Live,
                 child[b].matching \notin DeletionStates,
                 child' = [child EXCEPT ![b].matching = m, ![b].build = "building",
                                        ![b].wallet = w]
          PROVE  /\ child' \in [Children -> ChildStates]
                 /\ \A a \in Children : RowGoesOn(a)
      <3> DEFINE x == [child[b] EXCEPT !.matching = m, !.build = "building",
                                       !.wallet = w]
      <3>1. x \in ChildStates /\ x.deleter = child[b].deleter
        BY <2>0 DEF ChildStates
      <3>2. child' = [child EXCEPT ![b] = x]
        BY <1>0, <2>1
      <3> HIDE DEF x
      <3> QED
        BY <1>2, <2>1, <3>1, <3>2 DEF DeletionStates
    <2>6. ASSUME NEW w \in {Wallet, Elsewhere}, CreateChild(b, w)
          PROVE  /\ child' \in [Children -> ChildStates]
                 /\ \A a \in Children : RowGoesOn(a)
      BY <2>1, <2>6 DEF CreateChild, Live, DeletionStates
    <2>7. ASSUME NEW w \in {Wallet, Elsewhere}, EditChild(b, w)
          PROVE  /\ child' \in [Children -> ChildStates]
                 /\ \A a \in Children : RowGoesOn(a)
      <3>1. child[b].matching \in Live /\ child[b].matching \notin DeletionStates
        BY <2>7 DEF EditChild, Live, DeletionStates
      <3>2. child' = [child EXCEPT ![b].matching = child[b].matching,
                                   ![b].build = "building", ![b].wallet = w]
        BY <1>0, <2>0, <2>7 DEF EditChild, ChildStates
      <3> QED
        BY <2>1, <3>1, <3>2
    <2>2. ASSUME NEW m \in Live, ToggleChild(b, m)
          PROVE  /\ child' \in [Children -> ChildStates]
                 /\ \A a \in Children : RowGoesOn(a)
      <3> DEFINE x == [child[b] EXCEPT !.matching = m]
      <3>1. x \in ChildStates /\ x.deleter = child[b].deleter
        BY <2>0 DEF ChildStates
      <3>2. child' = [child EXCEPT ![b] = x]
        BY <2>0, <2>2 DEF ToggleChild
      <3>3. child[b].matching \notin DeletionStates
        BY <2>2 DEF ToggleChild, Live, DeletionStates
      <3> HIDE DEF x
      <3> QED
        BY <1>2, <3>1, <3>2, <3>3 DEF DeletionStates
    <2>3. ASSUME NEW o \in {"idle", "build_failed"}, BuildSettles(b, o)
          PROVE  /\ child' \in [Children -> ChildStates]
                 /\ \A a \in Children : RowGoesOn(a)
      <3> DEFINE x == [child[b] EXCEPT
                         !.build = o,
                         !.deployed = IF o = "idle" THEN "yes" ELSE child[b].deployed]
      <3>1. /\ x \in ChildStates /\ x.deleter = child[b].deleter
            /\ x.matching = child[b].matching
        BY <2>0 DEF ChildStates
      <3>2. child' = [child EXCEPT ![b] = x]
        BY <2>0, <2>3 DEF BuildSettles
      <3> HIDE DEF x
      <3> QED
        BY <1>2, <3>1, <3>2
    <2>8. ASSUME SuccessOverrides(b)
          PROVE  /\ child' \in [Children -> ChildStates]
                 /\ \A a \in Children : RowGoesOn(a)
      <3> DEFINE x == [child[b] EXCEPT !.build = "idle", !.deployed = "yes"]
      <3>1. /\ x \in ChildStates /\ x.deleter = child[b].deleter
            /\ x.matching = child[b].matching
        BY <2>0 DEF ChildStates
      <3>2. child' = [child EXCEPT ![b] = x]
        BY <2>0, <2>8 DEF SuccessOverrides
      <3> HIDE DEF x
      <3> QED
        BY <1>2, <3>1, <3>2
    <2>4. ASSUME CascadeCompletes(b)
          PROVE  /\ child' \in [Children -> ChildStates]
                 /\ \A a \in Children : RowGoesOn(a)
      <3> DEFINE x == [child[b] EXCEPT !.matching = "deleted"]
      <3>1. /\ x \in ChildStates /\ x.deleter = child[b].deleter
            /\ x.matching = "deleted" /\ "deleted" \in DeletionStates
        BY <2>0 DEF ChildStates, DeletionStates
      <3>2. child' = [child EXCEPT ![b] = x]
        BY <2>4 DEF CascadeCompletes
      <3> HIDE DEF x
      <3> QED
        BY <1>2, <3>1, <3>2
    <2>5. ASSUME AuthorDeletes(b)
          PROVE  /\ child' \in [Children -> ChildStates]
                 /\ \A a \in Children : RowGoesOn(a)
      BY <1>3, <2>5 DEF AuthorDeletes
    <2> QED
      BY <1>4, <2>2, <2>3, <2>4, <2>5, <2>6, <2>7, <2>8 DEF ChildStep
  <1>5. ASSUME NEW p \in Passes, PassStep(p)
        PROVE  /\ child' \in [Children -> ChildStates]
               /\ \A a \in Children : RowGoesOn(a)
    BY <1>1, <1>3, <1>5
       DEF PassStep, ListChildren, AdmitChild, SkipBuilding, AdmitRaises,
           AdmitRaisesLate, ReportDeleted, ReportInProgress, Summarise
  <1> QED
    BY <1>1, <1>4, <1>5, NextCases DEF vars

----------------------------------------------------------------------------
(* The passes.                                                             *)

\* What one pass says of the rows.
ReportTrue(s) ==
    /\ \A a \in s.deleted : child[a].matching = "deleted"
    /\ \A a \in s.in_progress \cup s.current : child[a].matching \in DeletionStates

PassInv == PassesSound /\ ReportsAreTrue /\ DeletersDeleted

\* A pass that no step touches stays true: rows only go on.
LEMMA OtherPasses ==
    ASSUME TypeOK, [Next]_vars, NEW s \in PassStates, ReportTrue(s)
    PROVE  /\ \A a \in s.deleted : child'[a].matching = "deleted"
           /\ \A a \in s.in_progress \cup s.current :
                 child'[a].matching \in DeletionStates
  <1>1. \A a \in Children : RowGoesOn(a)
    BY RowsGoOn
  <1>2. s.deleted \subseteq Children /\ s.in_progress \cup s.current \subseteq Children
    BY DEF PassStates
  <1> QED
    BY <1>1, <1>2 DEF ReportTrue, RowGoesOn

\* What a step may do to the pass it moves.
PassGoesOn(p) ==
    LET s == pass'[p] IN
    /\ s \in PassStates /\ PassSound(s)
    /\ \A a \in s.deleted : child'[a].matching = "deleted"
    /\ \A a \in s.in_progress \cup s.current : child'[a].matching \in DeletionStates

\* The listing starts a pass over.
LEMMA PassLists ==
    ASSUME TypeOK, PassInv, NEW p \in Passes, ListChildren(p)
    PROVE  PassGoesOn(p)
  <1>0. pass \in [Passes -> PassStates]
    BY DEF TypeOK
  <1>1. PICK found \in SUBSET Children :
           pass' = [pass EXCEPT ![p] = [NoPass EXCEPT !.pc = "running",
                                                      !.listed = found, !.todo = found]]
    BY DEF ListChildren
  <1>2. pass'[p] = [NoPass EXCEPT !.pc = "running", !.listed = found, !.todo = found]
    BY <1>0, <1>1
  <1>3. pass'[p] = [pc |-> "running", listed |-> found, todo |-> found, current |-> {},
                    deleted |-> {}, in_progress |-> {}, skipped_building |-> {},
                    failed |-> {}]
    BY <1>2 DEF NoPass
  <1>4. pass'[p] \in PassStates
    BY <1>3 DEF PassStates
  <1>5. PassSound(pass'[p])
    BY <1>3 DEF PassSound, Accounted
  <1> QED
    BY <1>3, <1>4, <1>5 DEF PassGoesOn

\* A child leaves the list for one place: in hand, or a bucket.
LEMMA PassTakes ==
    ASSUME TypeOK, PassInv, [Next]_vars, NEW p \in Passes, NEW a \in Children,
           Reaches(p, a),
           \/ /\ pass' = [pass EXCEPT ![p].todo = @ \ {a}, ![p].current = {a}]
              /\ child'[a].matching \in DeletionStates
           \/ pass' = [pass EXCEPT ![p].todo = @ \ {a},
                                   ![p].skipped_building = @ \cup {a}]
           \/ pass' = [pass EXCEPT ![p].todo = @ \ {a}, ![p].failed = @ \cup {a}]
    PROVE  PassGoesOn(p)
  <1>0. pass \in [Passes -> PassStates] /\ pass[p] \in PassStates
    BY DEF TypeOK
  <1>1. /\ pass[p].pc = "running" /\ pass[p].current = {} /\ a \in pass[p].todo
        /\ PassSound(pass[p]) /\ ReportTrue(pass[p])
    BY DEF Reaches, PassInv, PassesSound, ReportsAreTrue, ReportTrue
  <1>2. /\ \A b \in pass[p].deleted : child'[b].matching = "deleted"
        /\ \A b \in pass[p].in_progress : child'[b].matching \in DeletionStates
    BY <1>0, <1>1, OtherPasses
  <1>3. CASE /\ pass' = [pass EXCEPT ![p].todo = @ \ {a}, ![p].current = {a}]
             /\ child'[a].matching \in DeletionStates
    <2>1. pass'[p] = [pass[p] EXCEPT !.todo = @ \ {a}, !.current = {a}]
      BY <1>0, <1>3
    <2>2. pass'[p] \in PassStates
      BY <1>0, <2>1 DEF PassStates
    <2>3. PassSound(pass'[p])
      BY <1>0, <1>1, <2>1 DEF PassStates, PassSound, Accounted
    <2> QED
      BY <1>0, <1>2, <1>3, <2>1, <2>2, <2>3 DEF PassStates, PassGoesOn
  <1>4. CASE pass' = [pass EXCEPT ![p].todo = @ \ {a},
                                  ![p].skipped_building = @ \cup {a}]
    <2>1. pass'[p] = [pass[p] EXCEPT !.todo = @ \ {a}, !.skipped_building = @ \cup {a}]
      BY <1>0, <1>4
    <2>2. pass'[p] \in PassStates
      BY <1>0, <2>1 DEF PassStates
    <2>3. PassSound(pass'[p])
      BY <1>0, <1>1, <2>1 DEF PassStates, PassSound, Accounted
    <2> QED
      BY <1>0, <1>1, <1>2, <2>1, <2>2, <2>3 DEF PassStates, PassGoesOn
  <1>5. CASE pass' = [pass EXCEPT ![p].todo = @ \ {a}, ![p].failed = @ \cup {a}]
    <2>1. pass'[p] = [pass[p] EXCEPT !.todo = @ \ {a}, !.failed = @ \cup {a}]
      BY <1>0, <1>5
    <2>2. pass'[p] \in PassStates
      BY <1>0, <2>1 DEF PassStates
    <2>3. PassSound(pass'[p])
      BY <1>0, <1>1, <2>1 DEF PassStates, PassSound, Accounted
    <2> QED
      BY <1>0, <1>1, <1>2, <2>1, <2>2, <2>3 DEF PassStates, PassGoesOn
  <1> QED
    BY <1>3, <1>4, <1>5

\* The child in hand goes to the bucket that says how its attempt ended.
LEMMA PassReports ==
    ASSUME TypeOK, PassInv, [Next]_vars, NEW p \in Passes, NEW a \in Children,
           ReportDeleted(p, a) \/ ReportInProgress(p, a)
    PROVE  PassGoesOn(p)
  <1>0. pass \in [Passes -> PassStates] /\ pass[p] \in PassStates
    BY DEF TypeOK
  <1>1. /\ a \in pass[p].current /\ PassSound(pass[p]) /\ ReportTrue(pass[p])
        /\ pass[p].current = {a} /\ child' = child
    BY DEF ReportDeleted, ReportInProgress, PassInv, PassesSound, PassSound,
           ReportsAreTrue, ReportTrue
  <1>2. CASE ReportDeleted(p, a)
    <2>0. pass[p].deleted \cup {a} \in SUBSET Children /\ {} \in SUBSET Children
      BY <1>0 DEF PassStates
    <2>1. pass'[p] = [pass[p] EXCEPT !.current = {}, !.deleted = pass[p].deleted \cup {a}]
      BY <1>0, <1>2 DEF ReportDeleted
    <2>2. pass'[p] \in PassStates
      BY <1>0, <2>0, <2>1 DEF PassStates
    <2>3. PassSound(pass'[p])
      BY <1>0, <1>1, <2>1 DEF PassStates, PassSound, Accounted
    <2> QED
      BY <1>0, <1>1, <1>2, <2>1, <2>2, <2>3
         DEF PassStates, PassGoesOn, ReportTrue, ReportDeleted
  <1>3. CASE ReportInProgress(p, a)
    <2>0. pass[p].in_progress \cup {a} \in SUBSET Children /\ {} \in SUBSET Children
      BY <1>0 DEF PassStates
    <2>1. pass'[p] = [pass[p] EXCEPT !.current = {}, !.in_progress = pass[p].in_progress \cup {a}]
      BY <1>0, <1>3 DEF ReportInProgress
    <2>2. pass'[p] \in PassStates
      BY <1>0, <2>0, <2>1 DEF PassStates
    <2>3. PassSound(pass'[p])
      BY <1>0, <1>1, <2>1 DEF PassStates, PassSound, Accounted
    <2> QED
      BY <1>0, <1>1, <2>1, <2>2, <2>3 DEF PassStates, PassGoesOn, ReportTrue
  <1> QED
    BY <1>2, <1>3

\* The summary is made when nothing is left.
LEMMA PassEnds ==
    ASSUME TypeOK, PassInv, NEW p \in Passes, Summarise(p)
    PROVE  PassGoesOn(p)
  <1>0. pass \in [Passes -> PassStates] /\ pass[p] \in PassStates
    BY DEF TypeOK
  <1>1. /\ PassSound(pass[p]) /\ ReportTrue(pass[p]) /\ child' = child
        /\ pass[p].todo = {} /\ pass[p].current = {}
    BY DEF Summarise, PassInv, PassesSound, ReportsAreTrue, ReportTrue
  <1>2. pass'[p] = [pass[p] EXCEPT !.pc = "done"]
    BY <1>0 DEF Summarise
  <1> QED
    BY <1>0, <1>1, <1>2 DEF PassStates, PassGoesOn, PassSound, Accounted, ReportTrue

\* Every pass goes on.
LEMMA PassesGoOn ==
    ASSUME TypeOK, PassInv, [Next]_vars
    PROVE  pass' \in [Passes -> PassStates] /\ \A p \in Passes : PassGoesOn(p)
  <1>0. /\ pass \in [Passes -> PassStates] /\ child \in [Children -> ChildStates]
        /\ \A p \in Passes : PassSound(pass[p]) /\ ReportTrue(pass[p])
    BY DEF TypeOK, PassInv, PassesSound, ReportsAreTrue, ReportTrue
  <1>1. ASSUME NEW p \in Passes, pass'[p] = pass[p] PROVE PassGoesOn(p)
    BY <1>0, <1>1, OtherPasses DEF PassGoesOn
  <1>2. CASE pass' = pass
    BY <1>0, <1>1, <1>2
  <1>3. ASSUME NEW p \in Passes, PassStep(p)
        PROVE  pass' \in [Passes -> PassStates] /\ \A q \in Passes : PassGoesOn(q)
    <2>1. PassGoesOn(p)
      <3>1. ASSUME NEW a \in Children, AdmitChild(p, a) PROVE PassGoesOn(p)
        <4>1. child'[a] = BeginDelete(child[a], p)
          BY <1>0, <3>1 DEF AdmitChild
        <4>2. child'[a].matching \in DeletionStates
          BY <1>0, <4>1, BeginDeleteRow
        <4> QED
          BY <3>1, <4>2, PassTakes DEF AdmitChild
      <3>2. ASSUME NEW a \in Children,
                   SkipBuilding(p, a) \/ AdmitRaises(p, a) \/ AdmitRaisesLate(p, a)
            PROVE  PassGoesOn(p)
        BY <3>2, PassTakes DEF SkipBuilding, AdmitRaises, AdmitRaisesLate
      <3> QED
        BY <1>3, <3>1, <3>2, PassLists, PassReports, PassEnds DEF PassStep
    <2>2. \E x : pass' = [pass EXCEPT ![p] = x]
      <3> DEFINE Goal == \E x : pass' = [pass EXCEPT ![p] = x]
      <3>1. ASSUME ListChildren(p) \/ Summarise(p) PROVE Goal
        BY <1>0, <3>1 DEF ListChildren, Summarise
      <3>2. ASSUME NEW a \in Children, AdmitChild(p, a) \/ SkipBuilding(p, a) PROVE Goal
        BY <1>0, <3>2 DEF AdmitChild, SkipBuilding
      <3>3. ASSUME NEW a \in Children, AdmitRaises(p, a) \/ AdmitRaisesLate(p, a)
            PROVE  Goal
        BY <1>0, <3>3 DEF AdmitRaises, AdmitRaisesLate
      <3>4. ASSUME NEW a \in Children, ReportDeleted(p, a) \/ ReportInProgress(p, a)
            PROVE  Goal
        BY <1>0, <3>4 DEF ReportDeleted, ReportInProgress
      <3> QED
        BY <1>3, <3>1, <3>2, <3>3, <3>4 DEF PassStep
    <2>3. \A q \in Passes : q # p => pass'[q] = pass[q]
      BY <1>0, <2>2
    <2>4. pass' \in [Passes -> PassStates]
      BY <1>0, <2>1, <2>2 DEF PassGoesOn
    <2> QED
      BY <1>1, <2>1, <2>3, <2>4
  <1>4. (\A p \in Passes : ~PassStep(p)) => pass' = pass
    BY NextCases DEF ChildStep, CreateChild, EditChild, ToggleChild, BuildSettles,
                     SuccessOverrides, AuthorDeletes, CascadeCompletes, vars
  <1> QED
    BY <1>2, <1>3, <1>4

\* A call comes to be a row's deleter by admitting it.
LEMMA DeleterOrigin ==
    ASSUME TypeOK, [Next]_vars, NEW a \in Children, NEW p \in Passes,
           child'[a].deleter = p
    PROVE  child[a].deleter = p \/ AdmitChild(p, a) \/ AdmitRaisesLate(p, a)
  <1>0. child \in [Children -> ChildStates] /\ p \notin {"none", "author"}
    BY PassesNamed DEF TypeOK
  <1>1. ASSUME NEW b \in Children, NEW actor, actor # p,
               child' = [child EXCEPT ![b] = BeginDelete(@, actor)]
        PROVE  child[a].deleter = p
    BY <1>0, <1>1 DEF BeginDelete, ChildStates
  <1>2. ASSUME NEW b \in Children, b # a,
               child' = [child EXCEPT ![b] = BeginDelete(@, p)]
        PROVE  child[a].deleter = p
    BY <1>0, <1>2
  <1>3. ASSUME NEW q \in Passes, NEW b \in Children,
               AdmitChild(q, b) \/ AdmitRaisesLate(q, b)
        PROVE  child[a].deleter = p \/ AdmitChild(p, a) \/ AdmitRaisesLate(p, a)
    BY <1>1, <1>2, <1>3 DEF AdmitChild, AdmitRaisesLate
  <1>4. ASSUME NEW b \in Children, ChildStep(b) PROVE child[a].deleter = p
    <2>1. CASE AuthorDeletes(b)
      BY <1>0, <1>1, <2>1 DEF AuthorDeletes
    <2> QED
      BY <1>0, <1>4, <2>1
         DEF ChildStep, CreateChild, EditChild, ToggleChild, BuildSettles,
             SuccessOverrides, CascadeCompletes, ChildStates
  <1>5. CASE child' = child
    BY <1>5
  <1>6. ASSUME NEW q \in Passes, PassStep(q)
        PROVE  child[a].deleter = p \/ AdmitChild(p, a) \/ AdmitRaisesLate(p, a)
    BY <1>3, <1>5, <1>6
       DEF PassStep, ListChildren, SkipBuilding, AdmitRaises, ReportDeleted,
           ReportInProgress, Summarise
  <1> QED
    BY <1>4, <1>5, <1>6, NextCases DEF vars

\* A child comes to be skipped by the build guard.
LEMMA SkipOrigin ==
    ASSUME TypeOK, [Next]_vars, NEW p \in Passes, NEW a \in Children,
           a \in pass'[p].skipped_building
    PROVE  a \in pass[p].skipped_building \/ SkipBuilding(p, a)
  <1> DEFINE Goal == a \in pass[p].skipped_building \/ SkipBuilding(p, a)
  <1>0. pass \in [Passes -> PassStates]
    BY DEF TypeOK
  <1>1. ASSUME NEW q \in Passes, ListChildren(q) \/ Summarise(q) PROVE Goal
    <2>1. CASE Summarise(q)
      BY <1>0, <2>1 DEF Summarise, PassStates
    <2>2. ASSUME ListChildren(q) PROVE q # p
      <3>1. PICK found : pass' = [pass EXCEPT ![q] = [NoPass EXCEPT
                !.pc = "running", !.listed = found, !.todo = found]]
        BY <2>2 DEF ListChildren
      <3>2. q = p => pass'[p].skipped_building = {}
        BY <1>0, <3>1 DEF NoPass
      <3> QED
        BY <3>2
    <2>3. CASE ListChildren(q)
      BY <1>0, <2>2, <2>3 DEF ListChildren
    <2> QED
      BY <1>1, <2>1, <2>3
  <1>2. ASSUME NEW q \in Passes, NEW b \in Children, SkipBuilding(q, b) PROVE Goal
    BY <1>0, <1>2 DEF SkipBuilding, PassStates
  <1>3. ASSUME NEW q \in Passes, NEW b \in Children,
               \/ AdmitChild(q, b) \/ AdmitRaises(q, b) \/ AdmitRaisesLate(q, b)
               \/ ReportDeleted(q, b) \/ ReportInProgress(q, b)
        PROVE  Goal
    BY <1>0, <1>3 DEF AdmitChild, AdmitRaises, AdmitRaisesLate, ReportDeleted,
                      ReportInProgress, PassStates
  <1>4. ASSUME NEW b \in Children, ChildStep(b) PROVE pass' = pass
    BY <1>4 DEF ChildStep, CreateChild, EditChild, ToggleChild, BuildSettles,
                SuccessOverrides, AuthorDeletes, CascadeCompletes
  <1> QED
    BY <1>1, <1>2, <1>3, <1>4, NextCases DEF PassStep, vars

\* What a call has skipped it does not touch again.
LEMMA SkippedStay ==
    ASSUME TypeOK, PassInv, [Next]_vars, NEW p \in Passes, NEW a \in Children,
           a \in pass'[p].skipped_building, child'[a].deleter = p
    PROVE  FALSE
  <1>0. /\ pass \in [Passes -> PassStates] /\ child \in [Children -> ChildStates]
        /\ Accounted(pass[p]) /\ p # "none"
    BY PassesNamed DEF TypeOK, PassInv, PassesSound, PassSound
  <1>1. a \in pass[p].skipped_building \/ SkipBuilding(p, a)
    BY SkipOrigin
  <1>2. CASE AdmitChild(p, a) \/ AdmitRaisesLate(p, a)
    <2>1. a \in pass[p].todo /\ a \in pass[p].skipped_building
      BY <1>1, <1>2 DEF AdmitChild, AdmitRaisesLate, SkipBuilding, Reaches
    <2> QED
      BY <1>0, <2>1 DEF Accounted
  <1>3. CASE child[a].deleter = p
    <2>1. child[a].matching \in DeletionStates
      BY <1>0, <1>3 DEF PassInv, DeletersDeleted
    <2> QED
      BY <1>1, <1>3, <2>1 DEF PassInv, ReportsAreTrue, SkipBuilding, MayDelete
  <1> QED
    BY <1>2, <1>3, DeleterOrigin

LEMMA PassInvInit == Init => PassInv
  BY DEF Init, PassInv, PassesSound, PassSound, Accounted, NoPass, ReportsAreTrue,
         DeletersDeleted

LEMMA PassInvStep == TypeOK /\ PassInv /\ [Next]_vars => TypeOK' /\ PassInv'
  <1> SUFFICES ASSUME TypeOK, PassInv, [Next]_vars PROVE TypeOK' /\ PassInv'
    OBVIOUS
  <1>1. TypeOK'
    BY RowsGoOn, PassesGoOn DEF TypeOK
  <1>2. PassesSound'
    BY PassesGoOn DEF PassGoesOn, PassesSound, PassSound, Accounted
  <1>3. ReportsAreTrue'
    BY PassesGoOn, SkippedStay DEF PassGoesOn, ReportsAreTrue, PassStates
  <1>4. DeletersDeleted'
    BY RowsGoOn DEF RowGoesOn, PassInv, DeletersDeleted
  <1> QED
    BY <1>1, <1>2, <1>3, <1>4 DEF PassInv

\* The rows and the calls stay in the states the model gives them.
THEOREM TypeCorrect == Spec => []TypeOK
  BY TypeInit, PassInvInit, PassInvStep, PTL DEF Spec

\* What a pass reports as deleted, in progress or skipped is true when it reports
\* it and stays true, however authors, CI and other calls move the rows.
THEOREM ReportsTrue == Spec => []ReportsAreTrue
  BY TypeInit, PassInvInit, PassInvStep, PTL DEF Spec, PassInv

----------------------------------------------------------------------------
(* The count of a finished pass.                                           *)

\* Disjoint sets count as much as their union: two of them, then four.
LEMMA TwoDisjoint ==
    ASSUME NEW A, NEW B, IsFiniteSet(A), IsFiniteSet(B), A \cap B = {}
    PROVE  /\ IsFiniteSet(A \cup B) /\ Cardinality(A) \in Nat /\ Cardinality(B) \in Nat
           /\ Cardinality(A \cup B) = Cardinality(A) + Cardinality(B)
  <1>1. /\ IsFiniteSet(A \cup B)
        /\ Cardinality(A \cup B) = Cardinality(A) + Cardinality(B) - Cardinality(A \cap B)
    BY FS_Union
  <1>2. Cardinality(A) \in Nat /\ Cardinality(B) \in Nat
    BY FS_CardinalityType
  <1>3. Cardinality(A \cap B) = 0
    BY FS_EmptySet, Zenon
  <1>4. ASSUME NEW x, NEW a \in Nat, NEW b \in Nat, NEW z, z = 0, x = a + b - z
        PROVE  x = a + b
    BY <1>4
  <1> QED
    BY <1>1, <1>2, <1>3, <1>4

LEMMA DisjointCount ==
    ASSUME NEW A, NEW B, NEW C, NEW D, NEW S, IsFiniteSet(S),
           S = A \cup B \cup C \cup D,
           A \cap (B \cup C \cup D) = {}, B \cap (C \cup D) = {}, C \cap D = {}
    PROVE  Cardinality(S) = Cardinality(A) + Cardinality(B) + Cardinality(C)
                            + Cardinality(D)
  <1>1. A \in SUBSET S /\ B \in SUBSET S /\ C \in SUBSET S /\ D \in SUBSET S
    OBVIOUS
  <1>2. /\ IsFiniteSet(A) /\ IsFiniteSet(B) /\ IsFiniteSet(C) /\ IsFiniteSet(D)
    BY <1>1, FS_Subset
  <1> DEFINE CD == C \cup D
             BCD == B \cup CD
  <1>3. /\ A \cap BCD = {} /\ B \cap CD = {} /\ S = A \cup BCD
    OBVIOUS
  <1>4. /\ IsFiniteSet(CD) /\ Cardinality(C) \in Nat /\ Cardinality(D) \in Nat
        /\ Cardinality(CD) = Cardinality(C) + Cardinality(D)
    BY <1>2, TwoDisjoint
  <1> HIDE DEF CD
  <1>5. /\ IsFiniteSet(BCD) /\ Cardinality(B) \in Nat
        /\ Cardinality(BCD) = Cardinality(B) + Cardinality(CD)
    BY <1>2, <1>3, <1>4, TwoDisjoint
  <1> HIDE DEF BCD
  <1>6. /\ Cardinality(A) \in Nat
        /\ Cardinality(S) = Cardinality(A) + Cardinality(BCD)
    BY <1>2, <1>3, <1>5, TwoDisjoint
  <1>7. ASSUME NEW a \in Nat, NEW b \in Nat, NEW c \in Nat, NEW d \in Nat,
               NEW x, NEW y, NEW z, z = c + d, y = b + z, x = a + y
        PROVE  x = a + b + c + d
    BY <1>7
  <1> QED
    BY <1>4, <1>5, <1>6, <1>7

\* A finished pass has reported every automation it listed, each in one bucket.
THEOREM ReportsComplete == Spec => []EveryChildReported
  <1>1. TypeOK /\ PassInv => EveryChildReported
    <2> SUFFICES ASSUME TypeOK, PassInv, NEW p \in Passes, pass[p].pc = "done"
                 PROVE  LET s == pass[p] IN
                        /\ s.listed = s.deleted \cup s.in_progress
                                      \cup s.skipped_building \cup s.failed
                        /\ Cardinality(s.listed) =
                              Cardinality(s.deleted) + Cardinality(s.in_progress)
                              + Cardinality(s.skipped_building) + Cardinality(s.failed)
      BY DEF EveryChildReported
    <2> DEFINE s == pass[p]
    <2>1. s \in PassStates /\ PassSound(s)
      BY DEF TypeOK, PassInv, PassesSound
    <2>2. /\ s.listed = s.deleted \cup s.in_progress \cup s.skipped_building \cup s.failed
          /\ s.deleted \cap (s.in_progress \cup s.skipped_building \cup s.failed) = {}
          /\ s.in_progress \cap (s.skipped_building \cup s.failed) = {}
          /\ s.skipped_building \cap s.failed = {}
      BY <2>1 DEF PassSound, Accounted
    <2>3. IsFiniteSet(s.listed)
      BY <2>1, FS_Subset, ChildrenFinite DEF PassStates
    <2> HIDE DEF s
    <2>4. Cardinality(s.listed) =
             Cardinality(s.deleted) + Cardinality(s.in_progress)
             + Cardinality(s.skipped_building) + Cardinality(s.failed)
      BY <2>2, <2>3, DisjointCount
    <2> QED
      BY <2>2, <2>4 DEF s
  <1> QED
    BY <1>1, TypeInit, PassInvInit, PassInvStep, PTL DEF Spec

\* No caller takes a deletion over: the first deleter stays on the row.
THEOREM DeleterStays == Spec => OriginalDeleterStays
  <1>1. TypeOK /\ PassInv /\ [Next]_vars =>
           [\A a \in Children : child[a].deleter # "none" =>
               child'[a].deleter = child[a].deleter]_vars
    BY RowsGoOn DEF RowGoesOn, PassInv, DeletersDeleted
  <1> QED
    BY <1>1, TypeInit, PassInvInit, PassInvStep, PTL DEF Spec, OriginalDeleterStays
==============================================================================
