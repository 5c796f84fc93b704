---------------------------- MODULE DeleteCascade ----------------------------
(***************************************************************************)
(* run_cascade / resume_delete: runners that may overlap on one row.  Each *)
(* iteration reads a snapshot, runs the external calls of the next step    *)
(* with no session open, then moves the checkpoint by compare-and-set.     *)
(***************************************************************************)
EXTENDS Capp

CONSTANTS
    Runners,        \* attempts that may overlap: the DELETE's, resumes, deboard
    MaxPushes       \* bound on images CI pushes late

ASSUME CascadeAssumption == MaxPushes \in Nat

VARIABLES
    runner,         \* per attempt: where it stands and its snapshot
    registry,       \* images under the automation's own path
    pushes,         \* pushes by CI so far
    strays,         \* history: the images pushed behind an empty second listing
    archives        \* archive commits made to the script repository

cascadeVars == <<runner, registry, pushes, strays, archives>>

\* A slip: one step too many.
StepDeletedLate == 6

StepDeleted == 5
MaxIterations == 4 * StepDeleted

\* `step`, `wallet`: the snapshot of the current iteration; `iter`: iterations
\* begun; `entries`: images still to delete; `outcome`: how it last ended.
IdleRunner == [pc |-> "idle", step |-> 0, wallet |-> NoWallet, iter |-> 0,
               entries |-> {}, outcome |-> "none"]

RunnerPcs == {"idle", "reading", "capp", "secret", "listing", "images",
              "relisting", "archiving", "saving"}

Outcomes == {"none", "completed", "stopped", "no_progress"}

RunnerStates == [pc : RunnerPcs, step : 0..5,
                 wallet : Wallets \cup {NoWallet}, iter : 0..MaxIterations,
                 entries : SUBSET Images, outcome : Outcomes]

CascadeInit ==
    /\ runner = [r \in Runners |-> IdleRunner]
    /\ registry = {}
    /\ pushes = 0
    /\ strays = {}
    /\ archives = 0

----------------------------------------------------------------------------
\* How an attempt ends: `idle` again, with the outcome it reports.
Ends(r, outcome) ==
    runner' = [runner EXCEPT ![r] = [IdleRunner EXCEPT !.outcome = outcome]]

GoesTo(r, pc) == runner' = [runner EXCEPT ![r].pc = pc]

\* A slip in the step table: steps 3 and 4 exchanged.
FirstPcExchanged(step) ==
    CASE step = 2 -> "capp"
      [] step = 3 -> "archiving"
      [] step = 4 -> "listing"
      [] OTHER -> "saving"

\* The first pc of each step: 1 and 5 only write the checkpoint.
FirstPc(step) ==
    CASE step = 2 -> "capp"
      [] step = 3 -> "listing"
      [] step = 4 -> "archiving"
      [] OTHER -> "saving"

\* The admitting DELETE's background attempt, a resume or a deboard pass.  On
\* a row that is not deleting an attempt has nothing to do.
StartCascade(r) ==
    /\ runner[r].pc = "idle"
    /\ row.matching = "deleting"
    /\ runner' = [runner EXCEPT ![r] = [IdleRunner EXCEPT !.pc = "reading"]]
    /\ UNCHANGED <<row, revisions, capp, secrets, registry, pushes, strays, archives>>

\* _snapshot and the head of the loop.  The conflict raised for a live row
\* cannot arise here: deletion is one-way and the attempt began on it.
ReadSnapshot(r) ==
    /\ runner[r].pc = "reading"
    /\ row.matching \in DeletionStates
    /\ IF runner[r].iter = MaxIterations
       THEN Ends(r, "no_progress")
       ELSE IF row.matching = "deleted"
            THEN Ends(r, "completed")
            ELSE runner' = [runner EXCEPT ![r] =
                   [pc |-> FirstPc(row.step + 1), step |-> row.step,
                    wallet |-> row.namespace, iter |-> runner[r].iter + 1,
                    entries |-> {}, outcome |-> "none"]]
    /\ UNCHANGED <<row, revisions, capp, secrets, registry, pushes, strays, archives>>

\* 2a, then 2b: always both, in the snapshot's wallet.
RemoveCapp(r) ==
    /\ runner[r].pc = "capp"
    /\ DeleteCapp(runner[r].wallet)
    /\ GoesTo(r, "secret")
    /\ UNCHANGED <<row, revisions, registry, pushes, strays, archives>>

RemoveSecret(r) ==
    /\ runner[r].pc = "secret"
    /\ DeleteSecret(runner[r].wallet)
    /\ GoesTo(r, "saving")
    /\ UNCHANGED <<row, revisions, registry, pushes, strays, archives>>

\* 3: list, delete each entry, list again and stop unless nothing is left.
ListImages(r) ==
    /\ runner[r].pc = "listing"
    /\ runner' = [runner EXCEPT ![r].pc = "images", ![r].entries = registry]
    /\ UNCHANGED <<row, revisions, capp, secrets, registry, pushes, strays, archives>>

RemoveImage(r) ==
    /\ runner[r].pc = "images"
    /\ IF runner[r].entries = {}
       THEN GoesTo(r, "relisting") /\ UNCHANGED registry
       ELSE \E i \in runner[r].entries :
              /\ registry' = registry \ {i}
              /\ runner' = [runner EXCEPT ![r].entries = @ \ {i}]
    /\ UNCHANGED <<row, revisions, capp, secrets, pushes, strays, archives>>

RelistImages(r) ==
    /\ runner[r].pc = "relisting"
    /\ IF registry = {} THEN GoesTo(r, "saving") ELSE Ends(r, "stopped")
    /\ UNCHANGED <<row, revisions, capp, secrets, registry, pushes, strays, archives>>

\* 4: an archive marker that already exists makes no second commit.
ArchiveScript(r) ==
    /\ runner[r].pc = "archiving"
    /\ archives' = IF archives = 0 THEN 1 ELSE archives
    /\ GoesTo(r, "saving")
    /\ UNCHANGED <<row, revisions, capp, secrets, registry, pushes, strays>>

NextStep(r) == runner[r].step + 1

\* Slips: the checkpoint expects the step it is about to write, or none.
ExpectsNextStep(r) == row.matching = "deleting" /\ row.step = NextStep(r)
ExpectsAnyStep(r) == row.matching = "deleting"

\* The predicate of the compare-and-set.
CheckpointMatches(r) == row.matching = "deleting" /\ row.step = runner[r].step

\* _checkpoint: from the snapshot's step to the next one.  A lost
\* compare-and-set changes nothing; either way the row is read again.
SaveCheckpoint(r) ==
    /\ runner[r].pc = "saving"
    /\ row' = IF CheckpointMatches(r)
              THEN [row EXCEPT
                      !.step = NextStep(r),
                      !.matching = IF NextStep(r) = StepDeleted
                                   THEN "deleted" ELSE row.matching]
              ELSE row
    /\ GoesTo(r, "reading")
    /\ UNCHANGED <<revisions, capp, secrets, registry, pushes, strays, archives>>

\* An external call or the checkpoint raises, a snapshot cannot be read, or
\* the process dies: the attempt ends at the last saved step.
StopCascade(r) ==
    /\ runner[r].pc # "idle"
    /\ Ends(r, "stopped")
    /\ UNCHANGED <<row, revisions, capp, secrets, registry, pushes, strays, archives>>

\* A runner has found nothing left in its second listing and has still to save
\* step 3, or step 3 is saved.
Relisted ==
    \/ row.step >= 3
    \/ \E r \in Runners : runner[r].pc = "saving" /\ runner[r].step = 2

\* A CI pipeline pushes an image to the registry, at any time (external).
CiPushes(image) ==
    /\ pushes < MaxPushes
    /\ image \notin registry
    /\ registry' = registry \cup {image}
    /\ pushes' = pushes + 1
    /\ strays' = IF Relisted THEN strays \cup {image} ELSE strays
    /\ UNCHANGED <<row, revisions, capp, secrets, runner, archives>>

CascadeTypeOK ==
    /\ runner \in [Runners -> RunnerStates]
    /\ registry \subseteq Images
    /\ pushes \in Nat
    /\ strays \subseteq Images
    /\ archives \in 0..1
==============================================================================
