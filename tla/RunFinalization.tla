--------------------------- MODULE RunFinalization ---------------------------
(***************************************************************************)
(* One run of the automation and the requests that finalize it: workers    *)
(* that submit it and record its outcome, and finalizers that attribute it *)
(* to a deletion.  Each read and each UPDATE is a transaction of its own.  *)
(***************************************************************************)
EXTENDS Naturals

CONSTANTS
    Workers,    \* deliveries of the submit message (external)
    Finalizers  \* calls of finalize_terminated_by_deletion in flight

VARIABLES
    matching,   \* the automation's matching_state
    run,        \* the automation_runs row
    worker,     \* where each worker stands
    finalizer   \* where each finalizer stands

vars == <<matching, run, worker, finalizer>>

MatchingStates == {"inactive", "active", "deleting", "deleted"}
DeletionStates == {"deleting", "deleted"}
RunStates == {"pending", "submitted", "succeeded", "failed", "stalled",
              "suppressed"}
OpenRunStates == {"pending", "submitted"}

\* The failure classes that are not a deletion's are one: "ordinary".
Runs == [state : RunStates,
         failure_class : {"none", "ordinary", "terminated_by_deletion"},
         suppression_reason : {"none", "inactive"}]

Outcome(state, class, reason) ==
    [state |-> state, failure_class |-> class, suppression_reason |-> reason]

Pending == Outcome("pending", "none", "none")

WorkerPcs == {"idle", "checked", "skipping", "calling", "refused", "recorded"}

\* `expected`: the state the next write requires; `answer`: the run returned,
\* Pending while there is none.
FinalizerStates ==
    [pc : {"idle", "checking", "writing", "reloading", "answering", "returned",
           "conflict"},
     expected : RunStates, tries : 0..2, answer : Runs]

IdleFinalizer == [pc |-> "idle", expected |-> "pending", tries |-> 0,
                  answer |-> Pending]

Init ==
    /\ matching = "active"
    /\ run = Pending
    /\ worker = [w \in Workers |-> "idle"]
    /\ finalizer = [f \in Finalizers |-> IdleFinalizer]

----------------------------------------------------------------------------
\* The matching axis, as the toggles and the cascade move it.
MatchingMoves(to) ==
    /\ \/ matching \in {"inactive", "active"} /\ to \in {"inactive", "active", "deleting"}
       \/ matching = "deleting" /\ to = "deleted"
    /\ matching' = to
    /\ UNCHANGED <<run, worker, finalizer>>

DeletionStarted == matching \in DeletionStates

\* A slip: terminal rows are overwritten too.
CompleteAnyRun(expected, outcome) ==
    IF run.state \in expected \/ run.state \notin OpenRunStates THEN outcome ELSE run

\* A slip: the expected state is not part of the WHERE clause.
CompleteAnyOpenRun(expected, outcome) ==
    IF run.state \in OpenRunStates THEN outcome ELSE run

\* The row after one compare-and-set; `expected`: the open states it accepts.
CompleteRunIfOpen(expected, outcome) ==
    IF run.state \in OpenRunStates /\ run.state \in expected THEN outcome ELSE run

----------------------------------------------------------------------------
(* The submit loop (external): check, claim, call, record.                 *)

\* The re-check: only an active automation is invoked; the answer may be stale
\* when used.
WorkerChecks(w) ==
    /\ worker[w] = "idle"
    /\ worker' = [worker EXCEPT ![w] =
                    IF matching = "active" THEN "checked" ELSE "skipping"]
    /\ UNCHANGED <<matching, run, finalizer>>

\* The skip is audited with the reason a deletion writes for a run never invoked,
\* whether the automation is being deleted or merely inactive.
WorkerSkips(w) ==
    /\ worker[w] = "skipping"
    /\ run' = CompleteRunIfOpen({"pending"}, Outcome("suppressed", "none", "inactive"))
    /\ worker' = [worker EXCEPT ![w] = "refused"]
    /\ UNCHANGED <<matching, finalizer>>

\* Only the worker that moves the row out of `pending` sends /run.
WorkerSubmits(w) ==
    /\ worker[w] = "checked"
    /\ IF run.state = "pending"
       THEN /\ run' = [run EXCEPT !.state = "submitted"]
            /\ worker' = [worker EXCEPT ![w] = "calling"]
       ELSE /\ worker' = [worker EXCEPT ![w] = "refused"]
            /\ UNCHANGED run
    /\ UNCHANGED <<matching, finalizer>>

\* The call answered, or was given up on: any open state is accepted.
WorkerRecords(w, state, class) ==
    /\ worker[w] = "calling"
    /\ run' = CompleteRunIfOpen(OpenRunStates, Outcome(state, class, "none"))
    /\ worker' = [worker EXCEPT ![w] = "recorded"]
    /\ UNCHANGED <<matching, finalizer>>

----------------------------------------------------------------------------
(* finalize_terminated_by_deletion.                                        *)

\* The call returns the row as it is now.
Returns(f) == finalizer' = [finalizer EXCEPT ![f].pc = "returned",
                                             ![f].answer = run]

LoadRun(f) ==
    /\ finalizer[f].pc = "idle"
    /\ IF run.state \in OpenRunStates
       THEN finalizer' = [finalizer EXCEPT ![f].pc = "checking",
                                           ![f].expected = run.state]
       ELSE Returns(f)
    /\ UNCHANGED <<matching, run, worker>>

\* A slip: an inactive automation passes for one that is being deleted.
CheckNotActive(f) ==
    /\ finalizer[f].pc = "checking"
    /\ finalizer' = [finalizer EXCEPT ![f].pc =
                       IF matching # "active" THEN "writing" ELSE "conflict"]
    /\ UNCHANGED <<matching, run, worker>>

CheckDeleting(f) ==
    /\ finalizer[f].pc = "checking"
    /\ finalizer' = [finalizer EXCEPT ![f].pc =
                       IF DeletionStarted THEN "writing" ELSE "conflict"]
    /\ UNCHANGED <<matching, run, worker>>

\* What an open run becomes, by the state the finalizer believes it has.
DeletionOutcome(state) ==
    IF state = "submitted" THEN Outcome("failed", "terminated_by_deletion", "none")
    ELSE Outcome("suppressed", "none", "inactive")

WriteOutcome(f) ==
    LET expected == finalizer[f].expected IN
    /\ finalizer[f].pc = "writing"
    /\ run' = CompleteRunIfOpen({expected}, DeletionOutcome(expected))
    /\ finalizer' = [finalizer EXCEPT
                       ![f].pc = IF run' # run THEN "answering" ELSE "reloading",
                       ![f].tries = finalizer[f].tries + 1]
    /\ UNCHANGED <<matching, worker>>

\* A slip: one attempt.
OneAttempt == 1

Attempts == 2

\* The write lost: classify the freshly read state and try again.
ReloadRun(f) ==
    /\ finalizer[f].pc = "reloading"
    /\ IF run.state \in OpenRunStates
       THEN finalizer' = [finalizer EXCEPT
               ![f].pc = IF finalizer[f].tries < Attempts THEN "writing"
                         ELSE "answering",
               ![f].expected = run.state]
       ELSE Returns(f)
    /\ UNCHANGED <<matching, run, worker>>

AnswerRun(f) ==
    /\ finalizer[f].pc = "answering"
    /\ Returns(f)
    /\ UNCHANGED <<matching, run, worker>>

\* The caller has the answer or the conflict, or the process died anywhere in
\* between; the reconciler may call again.
FinalizerEnds(f) ==
    /\ finalizer[f].pc # "idle"
    /\ finalizer' = [finalizer EXCEPT ![f] = IdleFinalizer]
    /\ UNCHANGED <<matching, run, worker>>

Next ==
    \/ \E to \in MatchingStates : MatchingMoves(to)
    \/ \E w \in Workers :
          \/ WorkerChecks(w)
          \/ WorkerSkips(w)
          \/ WorkerSubmits(w)
          \/ WorkerRecords(w, "succeeded", "none")
          \/ WorkerRecords(w, "failed", "ordinary")
          \/ WorkerRecords(w, "stalled", "none")
    \/ \E f \in Finalizers :
          \/ LoadRun(f)
          \/ CheckDeleting(f)
          \/ WriteOutcome(f)
          \/ ReloadRun(f)
          \/ AnswerRun(f)
          \/ FinalizerEnds(f)

Spec == Init /\ [][Next]_vars

----------------------------------------------------------------------------
TypeOK ==
    /\ matching \in MatchingStates
    /\ run \in Runs
    /\ worker \in [Workers -> WorkerPcs]
    /\ finalizer \in [Finalizers -> FinalizerStates]

\* "whichever commits first stands": a terminal outcome is never overwritten,
\* by a late success, a late failure or a deletion.
TerminalStands == [][run.state \notin OpenRunStates => run' = run]_vars

\* Some worker has sent /run.
Started == \E w \in Workers : worker[w] \in {"calling", "recorded"}

\* "never suppress a call that another worker has already started": a run that
\* was sent to CAPP is never recorded as never invoked.
StartedNeverSuppressed == Started => run.state \notin {"pending", "suppressed"}

\* "At most two attempts are needed": a finalization that returns a run returns
\* a terminal one, and it is the one the row keeps.
AnswersTerminal ==
    \A f \in Finalizers : finalizer[f].pc = "returned" =>
        run.state \notin OpenRunStates /\ finalizer[f].answer = run

\* "an ordinary failure must keep its ordinary attribution": a run is blamed on a
\* deletion only when the automation is on the one-way deletion path and the run
\* had been sent.  A run never sent may be suppressed as `inactive` without one.
BlamesOnlyDeletion ==
    run.failure_class = "terminated_by_deletion" => DeletionStarted /\ Started

\* A run is past `pending`, and not suppressed, only when a worker has sent it.
InvokedWasStarted == run.state \notin {"pending", "suppressed"} => Started

\* A finalizer that writes has seen the deletion; one on its second attempt has
\* seen the run leave `pending`.
FinalizersInformed ==
    /\ \A f \in Finalizers :
          LET z == finalizer[f] IN
          /\ z.pc \in {"writing", "reloading", "answering"} => DeletionStarted
          /\ z.pc = "checking" => z.tries = 0
          /\ z.pc = "idle" => z.tries = 0
          /\ z.pc \in {"checking", "writing", "reloading"} =>
                z.expected \in OpenRunStates
          /\ z.pc \in {"checking", "writing"} /\ z.expected = "submitted" =>
                run.state # "pending"
          /\ z.pc = "writing" =>
                z.tries = 0 \/ (z.tries = 1 /\ z.expected = "submitted")
          /\ z.pc = "reloading" =>
                /\ run.state # "pending"
                /\ z.tries = 1 \/ (z.tries = 2 /\ run.state \notin OpenRunStates)
                /\ z.expected = "submitted" => run.state \notin OpenRunStates
          /\ z.pc = "answering" => run.state \notin OpenRunStates

RunInv ==
    /\ TypeOK
    /\ StartedNeverSuppressed
    /\ AnswersTerminal
    /\ BlamesOnlyDeletion
    /\ InvokedWasStarted
    /\ FinalizersInformed
==============================================================================
