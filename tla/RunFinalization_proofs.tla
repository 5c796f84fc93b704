----------------------- MODULE RunFinalization_proofs -----------------------
(***************************************************************************)
(* Proofs, for any number of workers and finalizers, that a run leaves the *)
(* open states once and that a deletion is blamed for exactly what it did. *)
(***************************************************************************)
EXTENDS RunFinalization, TLAPS

\* What a compare-and-set on the run may do to it.
LEMMA CompareAndSet ==
    ASSUME NEW expected, NEW outcome
    PROVE  \/ CompleteRunIfOpen(expected, outcome) = run
           \/ /\ run.state \in OpenRunStates /\ run.state \in expected
              /\ CompleteRunIfOpen(expected, outcome) = outcome
  BY DEF CompleteRunIfOpen

\* The typed parts of the state, one by one.
LEMMA RunTypes ==
    ASSUME RunInv
    PROVE  /\ matching \in MatchingStates /\ run \in Runs
           /\ worker \in [Workers -> WorkerPcs]
           /\ finalizer \in [Finalizers -> FinalizerStates]
           /\ Pending \in Runs /\ IdleFinalizer \in FinalizerStates
  BY DEF RunInv, TypeOK, Pending, Outcome, Runs, RunStates, IdleFinalizer,
         FinalizerStates

\* The initial state satisfies the invariant.
LEMMA RunInvInit == Init => RunInv
  <1> SUFFICES ASSUME Init PROVE RunInv
    OBVIOUS
  <1>1. TypeOK
    BY DEF Init, TypeOK, Pending, Outcome, Runs, RunStates, IdleFinalizer,
           FinalizerStates, MatchingStates, WorkerPcs
  <1>2. /\ run.state = "pending" /\ run.failure_class = "none"
        /\ run.suppression_reason = "none"
        /\ \A w \in Workers : worker[w] = "idle"
        /\ \A f \in Finalizers : finalizer[f].pc = "idle" /\ finalizer[f].tries = 0
    BY DEF Init, Pending, Outcome, IdleFinalizer
  <1> QED
    BY <1>1, <1>2 DEF RunInv, StartedNeverSuppressed, Started, AnswersTerminal,
                      BlamesOnlyDeletion, InvokedWasStarted, FinalizersInformed

\* The matching axis only moves towards deletion once it is on that path.
LEMMA RunInvMatching ==
    ASSUME RunInv, NEW to \in MatchingStates, MatchingMoves(to)
    PROVE  RunInv'
  <1>1. /\ run' = run /\ worker' = worker /\ finalizer' = finalizer
        /\ matching' \in MatchingStates
        /\ DeletionStarted => DeletionStarted'
    BY DEF MatchingMoves, DeletionStarted, DeletionStates
  <1>2. TypeOK'
    BY <1>1 DEF RunInv, TypeOK
  <1> QED
    BY <1>1, <1>2 DEF RunInv, StartedNeverSuppressed, Started, AnswersTerminal,
                      BlamesOnlyDeletion, InvokedWasStarted, FinalizersInformed

\* A worker leaves the run as it is, submits a pending one or closes an open one.
LEMMA RunInvWorker ==
    ASSUME RunInv, NEW w \in Workers,
           \/ WorkerChecks(w) \/ WorkerSkips(w) \/ WorkerSubmits(w)
           \/ \E s \in {"succeeded", "failed", "stalled"}, c \in {"none", "ordinary"} :
                 WorkerRecords(w, s, c)
    PROVE  RunInv'
  <1>0. /\ run \in Runs
        /\ worker \in [Workers -> WorkerPcs]
    BY RunTypes
  <1>1. finalizer' = finalizer /\ matching' = matching
    BY DEF WorkerChecks, WorkerSkips, WorkerSubmits, WorkerRecords
  <1>2. \/ run' = run
        \/ /\ run.state = "pending" /\ run'.state = "submitted"
           /\ run'.failure_class = run.failure_class
        \/ /\ run.state \in OpenRunStates
           /\ run'.state \in {"succeeded", "failed", "stalled"}
           /\ run'.failure_class \in {"none", "ordinary"}
        \/ WorkerSkips(w) /\ run.state = "pending"
           /\ run'.state = "suppressed" /\ run'.failure_class = "none"
    <2>1. CASE WorkerChecks(w)
      BY <2>1 DEF WorkerChecks
    <2>4. CASE WorkerSkips(w)
      BY <2>4, CompareAndSet DEF WorkerSkips, Outcome
    <2>2. CASE WorkerSubmits(w)
      BY <1>0, <2>2 DEF WorkerSubmits, Runs
    <2>3. ASSUME NEW s \in {"succeeded", "failed", "stalled"},
                 NEW c \in {"none", "ordinary"}, WorkerRecords(w, s, c)
          PROVE  \/ run' = run
                 \/ /\ run.state \in OpenRunStates /\ run'.state = s
                    /\ run'.failure_class = c
      BY <2>3, CompareAndSet DEF WorkerRecords, Outcome
    <2> QED
      BY <2>1, <2>2, <2>3, <2>4
  <1>3. run' \in Runs
    <2>1. CASE WorkerChecks(w)
      BY <1>0, <2>1 DEF WorkerChecks
    <2>4. CASE WorkerSkips(w)
      BY <1>0, <2>4, CompareAndSet DEF WorkerSkips, Outcome, Runs, RunStates
    <2>2. CASE WorkerSubmits(w)
      BY <1>0, <2>2 DEF WorkerSubmits, Runs, RunStates
    <2>3. ASSUME NEW s \in {"succeeded", "failed", "stalled"},
                 NEW c \in {"none", "ordinary"}, WorkerRecords(w, s, c)
          PROVE  run' \in Runs
      BY <1>0, <2>3, CompareAndSet DEF WorkerRecords, Outcome, Runs, RunStates
    <2> QED
      BY <2>1, <2>2, <2>3, <2>4
  <1>4. worker' \in [Workers -> WorkerPcs]
    BY <1>0 DEF WorkerPcs, WorkerChecks, WorkerSkips, WorkerSubmits, WorkerRecords
  <1>5. TypeOK'
    BY <1>1, <1>3, <1>4 DEF RunInv, TypeOK
  <1>s. /\ Started => Started'
        /\ Started' => Started \/ run'.state = "submitted"
        /\ WorkerSubmits(w) /\ run' # run => Started'
    <2>1. CASE WorkerChecks(w) \/ WorkerSkips(w)
      <3>1. /\ worker[w] \in {"idle", "skipping"}
            /\ worker'[w] \in {"checked", "skipping", "refused"}
            /\ \A v \in Workers : v # w => worker'[v] = worker[v]
        BY <1>0, <2>1 DEF WorkerChecks, WorkerSkips
      <3>2. ~WorkerSubmits(w)
        BY <3>1 DEF WorkerSubmits
      <3> QED
        BY <3>1, <3>2 DEF Started
    <2>2. CASE WorkerSubmits(w)
      BY <1>0, <2>2 DEF WorkerSubmits, Started, Runs
    <2>3. ASSUME NEW s, NEW c, WorkerRecords(w, s, c)
          PROVE  Started /\ Started' /\ ~WorkerSubmits(w)
      BY <1>0, <2>3 DEF WorkerRecords, Started, WorkerSubmits
    <2> QED
      BY <2>1, <2>2, <2>3
  <1>6. StartedNeverSuppressed'
    <2>1. ASSUME WorkerSkips(w) PROVE Started' => Started
      <3>1. /\ worker'[w] = "refused"
            /\ \A v \in Workers : v # w => worker'[v] = worker[v]
        BY <1>0, <2>1 DEF WorkerSkips
      <3> QED
        BY <3>1 DEF Started
    <2> QED
      BY <1>2, <1>s, <2>1 DEF RunInv, StartedNeverSuppressed, OpenRunStates
  <1>i. InvokedWasStarted'
    <2>1. ASSUME NEW s, NEW c, WorkerRecords(w, s, c) PROVE Started
      BY <2>1 DEF WorkerRecords, Started
    <2>2. CASE WorkerSubmits(w)
      BY <1>s, <2>2 DEF RunInv, InvokedWasStarted
    <2>3. CASE WorkerChecks(w) \/ WorkerSkips(w)
      <3>1. run' = run \/ run'.state = "suppressed"
        BY <2>3, CompareAndSet DEF WorkerChecks, WorkerSkips, Outcome
      <3> QED
        BY <1>s, <3>1 DEF RunInv, InvokedWasStarted
    <2> QED
      BY <1>s, <2>1, <2>2, <2>3 DEF InvokedWasStarted
  <1>7. AnswersTerminal'
    BY <1>1, <1>2 DEF RunInv, AnswersTerminal, OpenRunStates
  <1>8. BlamesOnlyDeletion'
    BY <1>1, <1>2, <1>s DEF RunInv, BlamesOnlyDeletion, DeletionStarted
  <1>9. FinalizersInformed'
    BY <1>1, <1>2 DEF RunInv, FinalizersInformed, DeletionStarted, OpenRunStates
  <1> QED
    BY <1>5, <1>6, <1>7, <1>8, <1>9, <1>i DEF RunInv

\* A finalizer's step: only its own record changes, the run only by its write.
LEMMA RunInvFinalizer ==
    ASSUME RunInv, NEW f \in Finalizers,
           \/ LoadRun(f) \/ CheckDeleting(f) \/ WriteOutcome(f) \/ ReloadRun(f)
           \/ AnswerRun(f) \/ FinalizerEnds(f)
    PROVE  RunInv'
  <1> DEFINE z == finalizer[f]
             y == finalizer'[f]
             Informed(x, s) ==
               /\ x.pc \in {"writing", "reloading", "answering"} => DeletionStarted
               /\ x.pc \in {"idle", "checking"} => x.tries = 0
               /\ x.pc \in {"checking", "writing", "reloading"} =>
                     x.expected \in OpenRunStates
               /\ x.pc \in {"checking", "writing"} /\ x.expected = "submitted" =>
                     s # "pending"
               /\ x.pc = "writing" =>
                     x.tries = 0 \/ (x.tries = 1 /\ x.expected = "submitted")
               /\ x.pc = "reloading" =>
                     /\ s # "pending"
                     /\ x.tries = 1 \/ (x.tries = 2 /\ s \notin OpenRunStates)
                     /\ x.expected = "submitted" => s \notin OpenRunStates
               /\ x.pc = "answering" => s \notin OpenRunStates
  <1>0. /\ run \in Runs /\ finalizer \in [Finalizers -> FinalizerStates]
        /\ z \in FinalizerStates /\ Informed(z, run.state)
        /\ IdleFinalizer \in FinalizerStates
        /\ \A g \in Finalizers : Informed(finalizer[g], run.state)
    BY RunTypes DEF RunInv, FinalizersInformed
  <1>1. matching' = matching /\ worker' = worker
        /\ \A g \in Finalizers : g # f => finalizer'[g] = finalizer[g]
    BY <1>0 DEF LoadRun, CheckDeleting, WriteOutcome, ReloadRun, AnswerRun,
                FinalizerEnds, Returns
  <1>w. ASSUME WriteOutcome(f)
        PROVE  /\ \/ /\ run' = run /\ y.pc = "reloading"
                     /\ run.state # z.expected
                  \/ /\ run' # run /\ y.pc = "answering" /\ run.state = z.expected
                     /\ run.state \in OpenRunStates
                     /\ run' = DeletionOutcome(z.expected)
               /\ y.tries = z.tries + 1 /\ y.expected = z.expected
               /\ y.answer = z.answer
    <2>1. \/ run' = run
          \/ /\ run.state = z.expected /\ run.state \in OpenRunStates
             /\ run' = DeletionOutcome(z.expected)
      BY <1>w, CompareAndSet DEF WriteOutcome
    <2>2. run.state = z.expected => run' # run
      <3>1. z.expected \in OpenRunStates
        BY <1>0, <1>w DEF WriteOutcome
      <3>2. DeletionOutcome(z.expected).state \notin OpenRunStates
        BY DEF DeletionOutcome, Outcome, OpenRunStates
      <3> QED
        BY <1>w, <3>1, <3>2 DEF WriteOutcome, CompleteRunIfOpen
    <2>3. y.pc = IF run' # run THEN "answering" ELSE "reloading"
      BY <1>0, <1>w DEF WriteOutcome, FinalizerStates
    <2>4. y.tries = z.tries + 1 /\ y.expected = z.expected /\ y.answer = z.answer
      BY <1>0, <1>w DEF WriteOutcome, FinalizerStates
    <2> QED
      BY <2>1, <2>2, <2>3, <2>4
  <1>2. \/ run' = run
        \/ /\ WriteOutcome(f) /\ run.state = z.expected
           /\ run.state \in OpenRunStates /\ run' = DeletionOutcome(z.expected)
    BY <1>w DEF LoadRun, CheckDeleting, ReloadRun, AnswerRun, FinalizerEnds
  <1>d. /\ \A s : DeletionOutcome(s).state \in {"failed", "suppressed"}
        /\ \A s : DeletionOutcome(s).state = "suppressed" => s # "submitted"
        /\ \A s : DeletionOutcome(s) \in Runs
    BY DEF DeletionOutcome, Outcome, Runs, RunStates
  <1>3. run' \in Runs
    BY <1>0, <1>2, <1>d
  <1>4. y \in FinalizerStates /\ Informed(y, run'.state)
        /\ (y.pc = "returned" =>
              /\ run'.state \notin OpenRunStates
              /\ y.answer = run')
    <2>1. CASE LoadRun(f)
      BY <1>0, <2>1 DEF LoadRun, Returns, FinalizerStates, Runs
    <2>2. CASE CheckDeleting(f)
      BY <1>0, <2>2 DEF CheckDeleting, FinalizerStates
    <2>3. CASE WriteOutcome(f)
      <3>1. z.tries \in 0..1
        BY <1>0, <2>3 DEF WriteOutcome
      <3>2. z.tries + 1 \in 1..2
        BY <3>1
      <3>3. y \in FinalizerStates
        BY <1>0, <2>3, <3>2 DEF WriteOutcome, FinalizerStates
      <3> QED
        BY <1>0, <1>w, <1>d, <2>3, <3>1, <3>3 DEF WriteOutcome, OpenRunStates, Runs, RunStates
    <2>4. CASE ReloadRun(f)
      BY <1>0, <2>4 DEF ReloadRun, Returns, FinalizerStates, Runs, Attempts,
                        OpenRunStates
    <2>5. CASE AnswerRun(f)
      BY <1>0, <2>5 DEF AnswerRun, Returns, FinalizerStates
    <2>6. CASE FinalizerEnds(f)
      BY <1>0, <2>6 DEF FinalizerEnds, IdleFinalizer
    <2> QED
      BY <2>1, <2>2, <2>3, <2>4, <2>5, <2>6
  <1>5. TypeOK'
    <2>1. finalizer' \in [Finalizers -> FinalizerStates]
      <3>1. \E v : finalizer' = [finalizer EXCEPT ![f] = v]
        BY <1>0 DEF LoadRun, CheckDeleting, WriteOutcome, ReloadRun, AnswerRun,
                    FinalizerEnds, Returns
      <3> QED
        BY <1>0, <1>4, <3>1
    <2> QED
      BY <1>1, <1>3, <2>1 DEF RunInv, TypeOK
  <1>6. StartedNeverSuppressed'
    BY <1>1, <1>2, <1>d DEF RunInv, StartedNeverSuppressed, Started, OpenRunStates
  <1>7. AnswersTerminal'
    BY <1>1, <1>2, <1>4 DEF RunInv, AnswersTerminal
  <1>s. Started' <=> Started
    BY <1>1 DEF Started
  <1>8. BlamesOnlyDeletion'
    <2>1. WriteOutcome(f) => DeletionStarted
      BY <1>0 DEF WriteOutcome
    <2>2. \A s : DeletionOutcome(s).failure_class = "terminated_by_deletion"
                    => s = "submitted"
      BY DEF DeletionOutcome, Outcome
    <2>3. run.state = "submitted" => Started
      BY DEF RunInv, InvokedWasStarted
    <2> QED
      BY <1>1, <1>2, <1>s, <2>1, <2>2, <2>3
         DEF RunInv, BlamesOnlyDeletion, DeletionStarted
  <1>i. InvokedWasStarted'
    <2>1. ASSUME run' # run, run'.state # "suppressed" PROVE run.state = "submitted"
      BY <1>2, <2>1 DEF DeletionOutcome, Outcome, OpenRunStates
    <2> QED
      BY <1>s, <2>1 DEF RunInv, InvokedWasStarted
  <1>9. FinalizersInformed'
    <2>1. ASSUME NEW g \in Finalizers PROVE Informed(finalizer'[g], run'.state)
      <3>1. CASE g = f
        BY <1>4, <3>1
      <3>2. CASE g # f
        BY <1>0, <1>1, <1>2, <1>d, <3>2 DEF OpenRunStates
      <3> QED
        BY <3>1, <3>2
    <2>2. DeletionStarted' <=> DeletionStarted
      BY <1>1 DEF DeletionStarted
    <2> QED
      BY <2>1, <2>2 DEF FinalizersInformed
  <1> QED
    BY <1>5, <1>6, <1>7, <1>8, <1>9, <1>i DEF RunInv

\* The invariant is inductive.
THEOREM RunInductive == Spec => []RunInv
  <1>1. RunInv /\ [Next]_vars => RunInv'
    <2> SUFFICES ASSUME RunInv, [Next]_vars PROVE RunInv'
      OBVIOUS
    <2>1. CASE Next
      BY <2>1, RunInvMatching, RunInvWorker, RunInvFinalizer DEF Next
    <2>2. CASE UNCHANGED vars
      BY <2>2 DEF vars, RunInv, TypeOK, StartedNeverSuppressed, Started,
                  AnswersTerminal, BlamesOnlyDeletion, InvokedWasStarted, FinalizersInformed,
                  DeletionStarted
    <2> QED
      BY <2>1, <2>2
  <1> QED
    BY <1>1, RunInvInit, PTL DEF Spec

\* A run that was sent to CAPP is never recorded as never invoked, however a
\* finalizer's read races the worker that submits.
THEOREM NeverSuppressesStarted == Spec => []StartedNeverSuppressed
  <1>1. RunInv => StartedNeverSuppressed
    BY DEF RunInv
  <1> QED
    BY <1>1, RunInductive, PTL

\* Two attempts are enough: the run a finalization returns is terminal and is
\* what the row keeps.
THEOREM TwoAttemptsSuffice == Spec => []AnswersTerminal
  <1>1. RunInv => AnswersTerminal
    BY DEF RunInv
  <1> QED
    BY <1>1, RunInductive, PTL

\* Only a started call of an automation that is being deleted is blamed on the
\* deletion, whatever inactive automations' runs are suppressed meanwhile.
THEOREM BlameIsTrue == Spec => []BlamesOnlyDeletion
  <1>1. RunInv => BlamesOnlyDeletion
    BY DEF RunInv
  <1> QED
    BY <1>1, RunInductive, PTL

\* A terminal outcome is written once: the first to commit stands.
THEOREM TerminalOnce == Spec => TerminalStands
  <1>1. [Next]_vars => [run.state \notin OpenRunStates => run' = run]_vars
    <2> SUFFICES ASSUME Next, run.state \notin OpenRunStates PROVE run' = run
      BY DEF vars
    <2>1. ASSUME NEW w \in Workers, NEW s, NEW c, WorkerRecords(w, s, c)
          PROVE  run' = run
      BY <2>1, CompareAndSet DEF WorkerRecords
    <2>2. ASSUME NEW f \in Finalizers, WriteOutcome(f) PROVE run' = run
      BY <2>2, CompareAndSet DEF WriteOutcome
    <2>3. ASSUME NEW w \in Workers, WorkerSubmits(w) \/ WorkerSkips(w) PROVE run' = run
      BY <2>3, CompareAndSet DEF WorkerSubmits, WorkerSkips, OpenRunStates
    <2> QED
      BY <2>1, <2>2, <2>3
         DEF Next, MatchingMoves, WorkerChecks, LoadRun, CheckDeleting, ReloadRun,
             AnswerRun, FinalizerEnds
  <1> QED
    BY <1>1, PTL DEF Spec, TerminalStands
==============================================================================
