------------------------------- MODULE Deboard -------------------------------
(***************************************************************************)
(* deboard_wallet: one operator pass that lists the automations on a       *)
(* tenant's wallet and, child by child, admits the delete and runs one     *)
(* cascade attempt.  Between its transactions the authors edit, CI reports *)
(* and other runners carry on.  A child's cascade (module DeleteCascade)   *)
(* is reduced to the step that completes it.                               *)
(***************************************************************************)
EXTENDS Naturals, FiniteSets

CONSTANTS
    Children,   \* the tenant's automations
    Passes,     \* deboard_wallet calls that may overlap
    Wallet,     \* the wallet being deboarded
    Elsewhere   \* any other wallet

ASSUME WalletsDiffer == Wallet # Elsewhere
ASSUME ChildrenFinite == IsFiniteSet(Children)
ASSUME PassesNamed == Passes \cap {"none", "author"} = {}

VARIABLES
    child,      \* the rows, reduced to what deboard reads and writes
    pass        \* the calls

vars == <<child, pass>>

Live == {"inactive", "active"}
DeletionStates == {"deleting", "deleted"}

\* `deleter`: who is recorded in the row's delete revision.
ChildStates == [matching : Live \cup DeletionStates \cup {"absent"},
                build : {"idle", "building", "build_failed"},
                wallet : {Wallet, Elsewhere},
                deployed : {"no", "yes"},
                deleter : {"none", "author"} \cup Passes]

\* `todo`: listed and not yet reached; `current`: admitted, its cascade running.
PassStates == [pc : {"idle", "running", "done"},
               listed : SUBSET Children, todo : SUBSET Children,
               current : SUBSET Children,
               deleted : SUBSET Children, in_progress : SUBSET Children,
               skipped_building : SUBSET Children, failed : SUBSET Children]

NoPass == [pc |-> "idle", listed |-> {}, todo |-> {}, current |-> {},
           deleted |-> {}, in_progress |-> {}, skipped_building |-> {},
           failed |-> {}]

Init ==
    /\ child = [a \in Children |->
                  [matching |-> "absent", build |-> "idle", wallet |-> Wallet,
                   deployed |-> "no", deleter |-> "none"]]
    /\ pass = [p \in Passes |-> NoPass]

----------------------------------------------------------------------------
(* The rest of the system, as Authoring, CiWebhook and DeleteCascade do it. *)

CreateChild(a, w) ==
    /\ child[a].matching = "absent"
    /\ child' = [child EXCEPT ![a].matching = "inactive", ![a].build = "building",
                              ![a].wallet = w]
    /\ UNCHANGED pass

\* A PUT; the wallet is free until the first deployment.
EditChild(a, w) ==
    /\ child[a].matching \in Live
    /\ child[a].build # "building"
    /\ child[a].deployed = "no" \/ w = child[a].wallet
    /\ child' = [child EXCEPT ![a].build = "building", ![a].wallet = w]
    /\ UNCHANGED pass

\* A slip: the webhook's status is stored as the build state.
BuildSettlesAsReported(a, result) ==
    /\ child[a].build = "building"
    /\ child' = [child EXCEPT ![a].build = IF result = "idle" THEN "success" ELSE "failed",
                   ![a].deployed = IF result = "idle" THEN "yes" ELSE @]
    /\ UNCHANGED pass

BuildSettles(a, result) ==
    /\ child[a].build = "building"
    /\ child' = [child EXCEPT ![a].build = result,
                   ![a].deployed = IF result = "idle" THEN "yes" ELSE @]
    /\ UNCHANGED pass

\* A success that was inside CAPP when the failure of its commit was recorded.
SuccessOverrides(a) ==
    /\ child[a].matching \in Live
    /\ child[a].build = "build_failed"
    /\ child' = [child EXCEPT ![a].build = "idle", ![a].deployed = "yes"]
    /\ UNCHANGED pass

ToggleChild(a, to) ==
    /\ child[a].matching \in Live \ {to}
    /\ to = "active" => child[a].deployed = "yes"
    /\ child' = [child EXCEPT ![a].matching = to]
    /\ UNCHANGED pass

\* A slip: the last caller, not the first, is recorded as the deleter.
BeginDeleteRestamps(row, actor) ==
    IF row.matching \in DeletionStates THEN [row EXCEPT !.deleter = actor]
    ELSE [row EXCEPT !.matching = "deleting", !.deleter = actor]

\* begin_delete on a row that is not building: what it leaves.
BeginDelete(row, actor) ==
    IF row.matching \in DeletionStates THEN row
    ELSE [row EXCEPT !.matching = "deleting", !.deleter = actor]

MayDelete(row) == row.matching \in DeletionStates \/ row.build # "building"

AuthorDeletes(a) ==
    /\ child[a].matching # "absent"
    /\ MayDelete(child[a])
    /\ child' = [child EXCEPT ![a] = BeginDelete(@, "author")]
    /\ UNCHANGED pass

\* Some runner, a pass's own attempt included, completes the cascade.
CascadeCompletes(a) ==
    /\ child[a].matching = "deleting"
    /\ child' = [child EXCEPT ![a].matching = "deleted"]
    /\ UNCHANGED pass

----------------------------------------------------------------------------
\* A slip: only automations that match are looked for.
ListActiveChildren(p) ==
    LET found == {a \in Children : child[a].wallet = Wallet /\ child[a].matching = "active"}
    IN
    /\ pass[p].pc # "running"
    /\ pass' = [pass EXCEPT ![p] = [NoPass EXCEPT !.pc = "running",
                                                  !.listed = found, !.todo = found]]
    /\ UNCHANGED child

\* Everything on the wallet that is not deleted, unbounded, in one read.
ListChildren(p) ==
    LET found == {a \in Children : /\ child[a].wallet = Wallet
                                   /\ child[a].matching \notin {"absent", "deleted"}}
    IN
    /\ pass[p].pc # "running"
    /\ pass' = [pass EXCEPT ![p] = [NoPass EXCEPT !.pc = "running",
                                                  !.listed = found, !.todo = found]]
    /\ UNCHANGED child

\* The loop is at child a.
Reaches(p, a) ==
    /\ pass[p].pc = "running"
    /\ pass[p].current = {}
    /\ a \in pass[p].todo

AdmitChild(p, a) ==
    /\ Reaches(p, a)
    /\ MayDelete(child[a])
    /\ child' = [child EXCEPT ![a] = BeginDelete(@, p)]
    /\ pass' = [pass EXCEPT ![p].todo = @ \ {a}, ![p].current = {a}]

SkipBuilding(p, a) ==
    /\ Reaches(p, a)
    /\ ~MayDelete(child[a])
    /\ pass' = [pass EXCEPT ![p].todo = @ \ {a}, ![p].skipped_building = @ \cup {a}]
    /\ UNCHANGED child

\* A slip: the first failure ends the pass.
AdmitRaisesAndStops(p, a) ==
    /\ Reaches(p, a)
    /\ pass' = [pass EXCEPT ![p].todo = {}, ![p].failed = @ \cup {a}]
    /\ UNCHANGED child

\* begin_delete raises: the row lock is busy or the database fails, before the
\* commit.
AdmitRaises(p, a) ==
    /\ Reaches(p, a)
    /\ pass' = [pass EXCEPT ![p].todo = @ \ {a}, ![p].failed = @ \cup {a}]
    /\ UNCHANGED child

\* begin_delete raises after its commit, on the refresh.
AdmitRaisesLate(p, a) ==
    /\ Reaches(p, a)
    /\ child[a].matching \in Live /\ MayDelete(child[a])
    /\ child' = [child EXCEPT ![a] = BeginDelete(@, p)]
    /\ pass' = [pass EXCEPT ![p].todo = @ \ {a}, ![p].failed = @ \cup {a}]

\* A slip: an attempt that stopped passes for a completed one.
ReportsAnyEnd(p, a) ==
    /\ a \in pass[p].current
    /\ pass' = [pass EXCEPT ![p].current = {}, ![p].deleted = @ \cup {a}]
    /\ UNCHANGED child

\* run_cascade returns having read the row as `deleted`.
ReportDeleted(p, a) ==
    /\ a \in pass[p].current
    /\ child[a].matching = "deleted"
    /\ pass' = [pass EXCEPT ![p].current = {}, ![p].deleted = @ \cup {a}]
    /\ UNCHANGED child

\* run_cascade stops, with the snapshot of its last iteration, or raises.
ReportInProgress(p, a) ==
    /\ a \in pass[p].current
    /\ pass' = [pass EXCEPT ![p].current = {}, ![p].in_progress = @ \cup {a}]
    /\ UNCHANGED child

Summarise(p) ==
    /\ pass[p].pc = "running"
    /\ pass[p].todo = {} /\ pass[p].current = {}
    /\ pass' = [pass EXCEPT ![p].pc = "done"]
    /\ UNCHANGED child

Next ==
    \/ \E a \in Children :
          \/ \E w \in {Wallet, Elsewhere} : CreateChild(a, w) \/ EditChild(a, w)
          \/ \E m \in Live : ToggleChild(a, m)
          \/ BuildSettles(a, "idle")
          \/ BuildSettles(a, "build_failed")
          \/ SuccessOverrides(a)
          \/ AuthorDeletes(a)
          \/ CascadeCompletes(a)
    \/ \E p \in Passes :
          \/ ListChildren(p)
          \/ \E a \in Children :
                \/ AdmitChild(p, a)
                \/ SkipBuilding(p, a)
                \/ AdmitRaises(p, a)
                \/ AdmitRaisesLate(p, a)
                \/ ReportDeleted(p, a)
                \/ ReportInProgress(p, a)
          \/ Summarise(p)

Spec == Init /\ [][Next]_vars

\* The operator calls again until the wallet is empty, the calls get on with
\* their work, builds settle, and no child's admission fails for ever.  Nothing
\* makes the authors create, edit or delete.
FairSpec ==
    /\ Spec
    /\ \A p \in Passes :
          /\ WF_vars(ListChildren(p))
          /\ WF_vars(Summarise(p))
          /\ \A a \in Children :
                /\ SF_vars(AdmitChild(p, a))
                /\ WF_vars(SkipBuilding(p, a))
                /\ WF_vars(ReportDeleted(p, a))
    /\ \A a \in Children :
          /\ WF_vars(BuildSettles(a, "build_failed"))
          /\ SF_vars(CascadeCompletes(a))

----------------------------------------------------------------------------
TypeOK ==
    /\ child \in [Children -> ChildStates]
    /\ pass \in [Passes -> PassStates]

\* A child reported deleted is deleted, whichever runner finished it, and stays
\* so; one reported in progress has its deletion admitted; one reported as skipped
\* for its build was left alone by the call, whoever deletes it later.
ReportsAreTrue ==
    \A p \in Passes :
        /\ \A a \in pass[p].deleted : child[a].matching = "deleted"
        /\ \A a \in pass[p].in_progress \cup pass[p].current :
              child[a].matching \in DeletionStates
        /\ \A a \in pass[p].skipped_building : child[a].deleter # p

\* "One child's failure never stops the rest": a finished pass has reported
\* every automation it listed, each in one bucket.
EveryChildReported ==
    \A p \in Passes : pass[p].pc = "done" =>
        LET s == pass[p] IN
        /\ s.listed = s.deleted \cup s.in_progress \cup s.skipped_building \cup s.failed
        /\ Cardinality(s.listed) = Cardinality(s.deleted) + Cardinality(s.in_progress)
             + Cardinality(s.skipped_building) + Cardinality(s.failed)

\* "the original deleter stays on the row through every retry": neither an
\* author's repeated DELETE nor a deboard pass takes a deletion over.
OriginalDeleterStays ==
    [][\A a \in Children : child[a].deleter # "none" =>
          child'[a].deleter = child[a].deleter]_vars

\* "A later call deletes it once its build settles": repeated passes delete every
\* automation of the wallet whose builds settle for good.  An author who keeps
\* editing can hold a child `building` at every pass.
WalletEmpties ==
    \A a \in Children :
        <>[](child[a].build # "building")
            => (child[a].matching \in Live /\ child[a].wallet = Wallet
                  ~> child[a].matching = "deleted" \/ child[a].wallet = Elsewhere)

----------------------------------------------------------------------------
(* What the docstrings say; TLC refutes both.                               *)

\* "Run the single-automation delete for every automation on a tenant's
\* wallet": a pass deletes nothing that is on another wallet by then.
DeletesOnlyOnWallet ==
    \A a \in Children : child[a].deleter \in Passes => child[a].wallet = Wallet

\* "`failed`: deletion could not even be admitted (unexpected error); the child is
\* still active/inactive": the call that reports it has not begun its deletion.
\* Refuted when the refresh after begin_delete's commit raises.
FailedNotAdmitted ==
    \A p \in Passes : \A a \in pass[p].failed : child[a].deleter # p
==============================================================================
