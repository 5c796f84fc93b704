# A TLA+ model of keep-automation-api

keep-automation-api is the control plane of one product feature: a team writes an
automation (a script with triggers), the service commits it to git, CI builds an
image, the service deploys it on CAPP and lets it be enabled, disabled, edited and
deleted. This directory models the part of the service that is hard to test: one
database row per automation that five kinds of request move forward, with git, CAPP,
registry and CI calls made *between* its short transactions; the clients that make
those calls; the rules a definition has to pass first; and the signals that tell the
matcher about the result.

Run a model with `tlc -config MCEdits.cfg MCControlPlane`, check the proofs with
`tlapm` on the eight `*_proofs.tla` modules.

## 1. Inventory

| Component | State | Operations | Hard behaviour |
|---|---|---|---|
| Row and audit log (`models/db`) | `matching_state`, `build_state`, `building_sha`, `build_lock_deadline`, `active_digest`, `capp_deployment_id`, `namespace`, `delete_cascade_step`, `index_generation`; revisions | locked transactions, compare-and-set updates | shared by everything below |
| Authoring (`bl/automations_bl.py`) | a claim per PUT in flight | create; edit = claim, git commit, finish or release | a lost claim, a crash between two transactions, an answer lost after the commit |
| CI webhook (`bl/builds.py`) | a phase-1 snapshot per delivery | admit, deploy or roll out, cut over, record a failure, tear down | duplicated, delayed and contradictory deliveries; CAPP ahead of the row |
| Toggles and DELETE (`bl/lifecycle.py`, `begin_delete`) | none of their own | enable, disable, admit a deletion | refused at the right moments only |
| Delete cascade (`bl/cascade.py`) | a snapshot and an iteration count per runner | five checkpointed steps | runners overlapping on one row; late creates and late pushes |
| Deboard (`deboard_wallet`) | a worklist and a summary per pass | list, admit, run, report | authors at work while the pass runs |
| Run finalization (`bl/run_finalization.py`) | the run row; one finalizer per call | check, compare-and-set, reload | submit workers racing a deletion |
| CAPP clients (`bl/capp_client.py`, `bl/cascade_adapters.py`) | deployments, Secrets (external) | create, rollout, delete | partial effects, lost answers |
| Script repository (`bl/git_client.py`) | a worker thread per bounded request; the branch (external) | commit = update, then create if the file is absent; read | a request that is given up on and lands later |
| Image registry (`bl/registry_client.py`, cascade step 3) | the entries still to delete; the folder (external) | list, delete each, list again | an answer that is not a listing; a name that leads out of the folder |
| Validation (`bl/validation.py`, `ast_check.py`, `ssrf.py`, `namespaces.py`, `contracts/`) | a DNS lookup and its worker thread | the rules, every error in one answer | boundaries, amplification, a lookup that hangs |
| Publishers (`core/reload.py`, `core/automation_events.py`) | one lazily built client per process and publisher | publish after the commit, swallow failures | lost and late signals, concurrent first use, a hung Redis |
| Authentication, shell, settings, stub routes | none that the above read back | | stateless |

The components meet on the row, on CAPP, on the script branch, on the registry and on
the reload channel. What makes them right:

- the row and CAPP agree on which wallet and which image an automation has, or the
  disagreement is logged;
- the image recorded is the one of the newest requested commit, whatever order the
  deliveries come in;
- a claim on the row is released, finished or superseded, and never by someone else;
- nothing writes a row once its deletion is admitted, except the cascade's checkpoint;
- a checkpoint is true, moves by single steps, and a deletion ends;
- the audit log explains the row;
- the terminal outcome of a run is written once, and only a run that was sent is blamed on
  a deletion, and only if there is one;
- a definition is committed exactly if it keeps every rule, and a refusal names every fault;
- a commit lands at most once and returns its own SHA; a read that may see the branch is
  never behind a commit that had returned;
- the registry folder that step 3 vouches for is empty, and nothing was removed that its
  listing had not named;
- once the signals sent have been acted on, the matcher matches what the database says;
- no request waits for ever on GitLab or Redis, and none on another request's publish
  (of DNS the code promises the same, and section 3 refutes it).

`PROJECT.json` lists every component, the hazards with the line at which each one
bites, and for each definition the lines it models.

## 2. Modules

| Module | Models | Correspondence |
|---|---|---|
| `AutomationRow` | the `automations` row and its revisions | `row` has a field per column; `NoRow` stands for "no such id"; NULL is 0, `NoImage` or `NoWallet`. `revisions` is in commit order. |
| `Capp` | CAPP, from the contract in `capp_client.py` and the delete-if-exists adapters | `capp` is the automation's deployment, `secrets` the wallets that hold its run-auth Secret. |
| `Authoring` | `create_automation`, `update_automation` | `creator`, `editor[e].pc` are the point between two transactions the request is at; `clock` hands out deadlines, `commits` SHAs. |
| `CiWebhook` | `apply_build_result` | `delivery[d].pc`: `deploying` is phase 2, `recording` phase 3, `failing` the failure path, `tearing_*` the teardown; `warnings` are the log lines a property is about. |
| `Lifecycle` | `_toggle`, `begin_delete` | one action each. |
| `DeleteCascade` | `run_cascade` and its steps | `runner[r].pc` is the next external call or the checkpoint write. |
| `ControlPlane` | the composition, with the properties and the inductive invariant | `Faults` chooses which failures of the environment a behaviour may meet. |
| `ControlPlane_proofs`, `ControlPlaneRow_proofs`, `ControlPlaneCapp_proofs` | theorems | each extends the one before: the row's invariant; what each step does to the row and its log; CAPP, the Secrets and the cascade. |
| `AutomationLifecycle` | what an automation's owner is promised (abstract) | `ControlPlane` implements it: `KeepsPromise` maps the row and its log onto it. |
| `Deboard`, `Deboard_proofs` | `deboard_wallet` over several automations | a child's build and cascade are reduced to the steps a pass can see. |
| `RunFinalization`, `RunFinalization_proofs` | `finalize_terminated_by_deletion` against submit workers | each read and each UPDATE is one action. |
| `Validation` | `validate_automation` and its rules | an operator per rule, named as in the code; an error is its field, index and code; `ValidationRaises` is where a rule raises instead; `ValidDefinition` and `Faults` (the places that break a rule) are the reference. |
| `Resolver` | `_resolve_bounded` | `lookups[q].pc`: `waiting` is `future.result`, `joining` the exit of the `with` block. |
| `GitClient` | `GitlabGitClient.commit_script`, `read_script` | `call[c].pc` is the caller, `wire[c][a]` the request of its worker, `branch` what GitLab has; `reader.visible` says whether the read's 404 was about the file or about a project or branch the token is not shown. |
| `ScriptRepo` | what a caller of `commit_script` may rely on (abstract) | `GitClient` implements it: `ImplementsScriptRepo`. |
| `Validation_proofs`, `ScriptPipeline_proofs` | theorems | the first is about the rules alone; the second has both clients, the pipeline around them, and the rules where a request meets them. |
| `RegistryClient` | `ArtifactoryRegistryClient` under the loop of `_step_delete_images` | an HTTP answer is a record; a name is its set of characters, by the classes that `_valid_segment` and a URL path tell apart; Artifactory resolves dot segments and encoded separators (`Removes`). |
| `ScriptPipeline` | a POST and PUTs through validation, commit, build and reclaim | composes `Resolver`, `GitClient` and `RegistryClient`; the answers are those of `main.py`'s handlers. |
| `Signals`, `Signals_proofs` | what each request commits and then publishes, both publishers, the matcher's index | `thread[t].todo` is the rest of a request; a request is its last transaction and what follows. `resolving` is the lookup of Redis's host, `sending` what the socket timeouts bound. |
| `MC...` | instances for TLC | model values, samples and symmetry only. |

Conventions. A transaction under the row lock, or a compare-and-set UPDATE, is one
action; everything between two of them interleaves. A request that is refused (404,
409, 400, `ignored` in phase 1) changes nothing and is a guard. A definition whose
comment begins "A slip" is a plausible bug next to the definition it replaces;
`PROJECT.json` names, for each property, the slip that breaks it.

External behaviour is taken from how the code uses it: E21's release of a stuck build
(it may or may not clear `building_sha`, both are modelled), CI's pushes (at any time), D17's
submit loop (it re-checks that the automation is active and audits the skip as
`suppressed`/`inactive`: `automation_run.py:42-45`, `run_finalization.py:100-102`), GitLab, Artifactory, `getaddrinfo`, Redis and keep-event-handler's
subscriber (the docstring of `reload.py`: it reloads everything on a signal, on
reconnecting and periodically). CAPP follows the contract written in `capp_client.py` (a rollout of a
vanished deployment fails), not the laxer in-memory double.

## 3. What the runs check

Passing runs (all safety runs set `CHECK_DEADLOCK FALSE` on `ControlPlane`: bounds on
commits and claims end every behaviour, and a deleted automation stays deleted):

| Run | Instance | Shows |
|---|---|---|
| `MCEdits` | 2 wallets, 2 edits, 2 deliveries, 3 commits, 3 claims, every authoring, CAPP and database fault | the inductive invariant; the deployment is in the row's wallet; the lock waits for the newest request; a cutover is always of the newest request; drift between CAPP and the row is logged |
| `MCDelete` | 1 edit, 2 deliveries, a toggle, DELETE, 1 runner, recording and teardown faults, stuck builds, redeliveries | a deleting row is frozen; the audit log explains the row; a deployment that the cascade has passed by, or that lost its Secret, and a Secret behind checkpoint 2, is a delivery's to tear down or was logged; the row implements `AutomationLifecycle` |
| `MCCascade` | 2 runners, 1 of them resumed, 1 delivery that may die, 1 push at any time | what was pushed before an empty second listing is gone; checkpoints move by one, budgets suffice; an admitted deletion completes |
| `MCRunFinalization` | 2 workers that submit or skip, 2 finalizers, toggles and DELETE | first outcome stands; a started run is never suppressed, and only a started one is blamed on a deletion; two attempts suffice |
| `MCDeboard` | 2 children, a pass that is called again and again | every child reported once and truthfully; the first deleter stays; children whose builds settle are deleted |
| `MCScriptPipeline` | a POST with every sample body (below) and 2 PUTs, 1 registry entry, listings with five names that nobody pushed, any answer of DNS, GitLab and Artifactory | the rules agree with the reference; a 400 names exactly the places that break a rule, and its length is bounded; `commit_script` implements `ScriptRepo` and always ends; an accepted request is on the branch; reads that may see the branch are never behind; step 3 removes one listed entry at a time, nothing outside its folder, and vouches truthfully |
| `MCSignals` | 2 workers, 3 requests, crashes, a lookup that may hang, a Redis and a subscriber that come and go | the index is right once the signals sent were acted on; events are truthful; one client per publisher; no worker is held up by another's publish, and none past its own lookup |

Three properties are restricted to what the code can keep, and the rest is refuted
below. `DriftIsLogged` holds in `MCEdits`, which excludes two open successes of one
commit (`Redelivery = FALSE`); `MCSilentDrift` lets them in. `ArtifactsReclaimed` speaks
of the images pushed before an empty second listing (`strays` remembers the others);
`NothingLeftBehind` asks for all. `ReadsWhatWasCommitted` speaks of reads that GitLab lets
see the branch; `NoneMeansAbsent` of all.

Runs that TLC refutes, each quoting what the repository says (`PROJECT.json`, findings):

| Run | The text | What happens |
|---|---|---|
| `MCSilentDrift` | "the digest we record is always the one being served" | a duplicate create lands after the next rollout and is taken for a harmless duplicate |
| `MCCutsOverOnce` | "two racing deliveries of one webhook cut over once" | an edit's released claim looks like this commit's failure |
| `MCOrphan` | the list of deployments the cascade cannot reach | also a create that lands after the CAPP step and cannot be recorded |
| `MCDeboardMoved` | "every automation on a tenant's wallet" | a child moved after the listing is deleted |
| `MCResolveBound` | "additionally bounded by a single-use executor + `future.result(3s)`" | the wait expires, and leaving the `with` block waits for `getaddrinfo` without a bound; `git_client.py` avoids the same form for this reason |

Six more texts are stated in the modules and refuted by TLC on the instance of a passing
run; they are in no `.cfg`, and adding one to the `.cfg` named here shows its behaviour:

| Property, `.cfg` | The text | What happens |
|---|---|---|
| `NothingLeftBehind`, `MCCascade` | `cascade.py:302-303`, "must not be left behind under a "done" checkpoint" | an image pushed between the second listing (line 305) and the checkpoint of step 3 |
| `LiveServiceHasSecret`, `MCDelete` | `cascade.py:15-16`, "never leave a live service without its key mount" | a first build's create is inside CAPP when the stuck build is released and DELETE admitted; it lands between the Capp and the Secret deletion and cannot be recorded, so its delivery does not tear it down |
| `FailedNotAdmitted`, `MCDeboard` | `cascade.py:418-419`, "the child is still active/inactive" | the refresh after `begin_delete`'s commit (line 178) raises: a deleting child is reported `failed` |
| `NoneMeansAbsent`, `MCScriptPipeline` | `git_client.py:47-48`, "Committed bytes at path, or None if absent." | line 204 turns every 404 into None, also that for a project or branch the token is not shown |
| `FaultsAreAnswered`, `MCScriptPipeline` | `validation.py:3-5`, "Every rule appends a FieldError and keeps going" | `urlparse` (`ssrf.py:36`), `str.encode` (`validation.py:74`), `ast.parse` or an `OSError` of the lookup raises: a 500, and the faults found are lost |
| `PublishersReturn`, `MCSignals` | `config.py:129-131`, "Bounds connect + publish" | the lookup of Redis's host is bounded by neither socket timeout |

Smaller disagreements met while modelling that no run is spent on:

- `automations_bl.py:22-23`, "no row points at it": `session.refresh` (line 182) may
  fail after the insert was committed; the POST has failed and the row exists
  (`CreateInsert("failed")`).
- `builds.py:468`, "No reload: nothing the matcher reads changed": true of the failure
  itself, but the edit before it wrote new triggers and published nothing, so an active
  automation whose build failed is matched by its new triggers or its old ones
  depending on who else signalled (`Signals!Edit`; `PromptIndex` asks for the
  definition only while no build is pending or failed).
- `limits.py:36-37`, grace "must be >= the timeout default so the grace window never
  expires while the script is still legitimately running": only the defaults are
  compared; `validate_automation` accepts a grace of 60 s with a timeout of 900 s.
- `core/db.py:7`, "Lazy singleton engine": `get_engine` takes no lock, unlike the
  publishers, so two first requests may each build one.
- `ast_check.py`: of two top-level `handle` functions the first is checked; Python
  would run the last.
- `capp_client.py:32`, "The wallet is fixed at create": a late create for an old wallet
  moves the deployment back there, until its delivery loses the re-check and logs the
  drift (`Deploy` with a stale snapshot).

**Bounds.** Two of each actor is the least at which each race happens: two deliveries
for duplicates, two edits for a lost claim, two runners for a lost checkpoint, two
wallets for a move. One deboard pass is enough: what another pass could do to a child
in the meantime, an author's DELETE and a runner already do. Three commits and claims let a create, an edit and a second edit
follow each other, with a release in between; `MaxToggles` bounds `index_generation`,
which no guard reads. One push is enough in `MCCascade`: a second one only repeats what
the first does to a listing. `MCScriptPipeline` has three matchable fields instead of nine
(`TRIGGERS_MAX` is their number, as the code asserts) and every list of up to four
conditions out of six kinds, so that every length around the limits and every place of
a duplicate occurs, one long list, the boundary values of every other part, and every
combination of parts that are right, wrong or raise (`MCFaultyTogether`).
It has two PUTs, so that an abandoned commit of one can
land before, between and after the other's requests; a PUT brings a body that passes, since the rules do not know whose body it is.
In `MCSignals` three requests let an edit, its build and a DELETE follow each other on
either of two workers; it starts from a new row and from one that was enabled. Two requests
are enough to meet at a publisher's lock. Nothing in the proofs depends on the bounds.

**Fairness.** `MCCascade`: E21's CronJob calls `resume_delete` on every tick
(weak fairness of starting an attempt), and no call of such an attempt fails for ever
(strong fairness of its steps). The DELETE's own attempt may stop at any point and
has no fairness. Today `GitlabGitClient.archive` always raises (D14) and the CAPP
client is unconfigured (D16), so the run speaks of the service once those land.
`MCDeboard`: an operator calls again, passes get on, builds settle or time out
(E21), admission does not fail for ever; nothing is assumed of authors, so the claim
is limited to children whose builds settle for good. An author who keeps editing can
keep a child `building` at every pass. `MCScriptPipeline` and `MCResolveBound`: the
service's own threads run, and timeouts of `future.result` fire (weak fairness); GitLab,
Artifactory and `getaddrinfo` owe nothing. `MCSignals`: the workers
run and the socket timeouts fire; the lookup of Redis's host (weak fairness leaves out a
worker that is `resolving`), Redis and the subscriber owe nothing.

## 4. What is proved

TLAPS checks the following for every value of the constants: any number of edits,
deliveries, runners and wallets, and any bounds. Assumptions: `NoWallet` is no wallet,
bounds are naturals, `Resumes \subseteq Runners`, `Faults \subseteq FaultKinds`, and the
sets whose members are counted (`Children` of a pass, the matchable `Fields`) are finite,
a pass is not called "none" or "author" (`PassesNamed`), and what CI pushes to the registry
has the characters of a tag (`RegistryAssumption`; nothing is assumed of other names).
TLC evaluates these on the runs.

`ControlPlane_proofs`: `Inductive` proves `IInv`, from which follow `TypeCorrect`,
`DeploymentWallet`, `BuildLock`, `CascadeProgress`, and the action properties
`DeletionFreezesRow`, `CutoverNewest` and `CheckpointOrder`.

The argument. "The deployment is in the row's wallet" is not inductive: an edit writes
`namespace` after git, a delivery writes `deployed` after CAPP, and each checked the
other's field earlier. `IInv` adds what makes it so:

- `ClaimsFenced`: a deadline names one claim and none comes back, so `HoldsClaim`
  means *this* edit's claim;
- `ClaimKeepsWallet`: while an edit holds the row its wallet is still acceptable, since
  with `building_sha` NULL no delivery can cut over and `_failure_raced` needs `build_failed`;
- `CommitsFresh`: the commit an edit has yet to record is in no revision;
- `DeliveriesRequested`: a delivery in flight is about a recorded commit, and while
  that commit is the newest request its snapshot's wallet is the row's. A cutover
  happens only for the newest request, so it writes the row's wallet;
- `DeletingNeverBuilding`, `NothingBeforeCreate`: what DELETE and create rely on.

For the cascade: `CheckpointMatchesState` ties `delete_cascade_step` to
`matching_state`, and `RunnersKeepPace` says an iteration that has ended has left the
checkpoint beyond its snapshot (its own compare-and-set won, or another runner's did).
So a runner begins at most five iterations, and the budget of twenty is never reached.

`RunFinalization_proofs`: `RunInductive` proves `RunInv`, and with it
`NeverSuppressesStarted`, `TwoAttemptsSuffice`, `BlameIsTrue` and `TerminalOnce`. The
strengthening `FinalizersInformed` says what a finalizer knows at each point: it
writes only after it saw the deletion, and on a second attempt the run has left
`pending`, which it never re-enters; `InvokedWasStarted` that only a worker takes it out.
A run skipped for a merely inactive automation carries the same `suppressed`/`inactive`
as one that a deletion found pending, so nothing is claimed of that pair but that the run
was never sent.

`ControlPlaneRow_proofs`: `RowMoves` lists the seven things a step of the whole system
can do to the log and to what the owner sees of the row (keep both, insert, edit, cut over, record a failure,
switch the matching state, finish the reclaim), and `StepMovesRow` proves that there
are no others. From it:

- `AuditTrail` (`AuditExplainsRow`). `AuditInv` names the last revision of each kind
  by its index instead of by a `CHOOSE`, and is preserved because each move that
  changes the digest or the matching state appends the revision that says so.
- `PromiseKept` (`KeepsPromise`): each move is one step of `AutomationLifecycle` or
  leaves its variables alone. The abstract cutover needs a submission on record in
  the wallet deployed to, which is `PromiseInv`: a row that exists has a newest request,
  and a delivery in its rollout goes to the wallet of that request.

`ControlPlaneCapp_proofs` is about CAPP against the row. Five theorems, each under the
hypotheses that the code needs too:

- `OrphansAreLogged` (no delivery dies between its CAPP call and its log line:
  `"webhook" \notin Faults`). `OrphanInv`: a live deployment is in the wallet that the
  cascade is still to visit, or a delivery is answerable for it, or a warning is out. A
  process that dies at that point has logged nothing, and nothing else could.
- `LeftoversAnswered` (the same hypothesis, any number of deliveries of any commits).
  A deployment that is live behind the CAPP step, or without its Secret,
  belongs to a delivery that has still to tear it down, or a warning is out. `MountInv`:
  only a delivery that met a deleting row tears down, and a deployment whose Secret is
  gone or about to go has such a delivery to answer for it; `OrphanInv` covers the rest.
- `DriftsAreLogged` (also `Redelivery = FALSE`). `DriftInv` covers a difference between
  image and digest by a delivery in its rollout or by a warning; `OneOpen` and
  `ServedOnce` say that a commit has one delivery in its rollout, and none once it is
  served. `MCSilentDrift` is what happens with two successes of one commit.
- `ArtifactsStayReclaimed` (no hypothesis; CI may push at any time). `ReclaimSound`
  follows the listing, the deletions and the archive of each runner to its checkpoint:
  from an empty second listing on, whatever is in the folder was pushed behind it.
- `CappStaysReclaimed` (no delivery dies, as above; any number of overlapping
  deliveries and runners). `SecretInv`: once a runner has deleted the Secret, only a
  create in flight brings it back, and its delivery is busy until it has torn it down or
  warned; with `LeftoversAnswered` for the Capp, checkpoint 2 vouches for both.

`Deboard_proofs`, for any finite set of automations and any number of calls:
`TypeCorrect`, `ReportsTrue`, `ReportsComplete`, `DeleterStays`. `PassInv`: every listed
child is waiting, in hand or in exactly one bucket (`Accounted`), so the cardinalities
of the buckets add up at the end; a recorded deleter means an admitted deletion, a
row only moves forward (`RowGoesOn`), so a report stays true, and a child that was skipped
is not in the pass's hands again (`SkippedStay`). Of `failed` nothing is proved: see
`FailedNotAdmitted`.

`Signals_proofs`, for any number of workers and requests: `TypeCorrect`, `IndexPrompt`,
`EventsTrue`, `ClientOnce`, from `SignalsInv`. What a worker has still to do is one of
nine sequences (`Rests`); at most one worker stands before its commit (`OneWriter`). A
write that no signal follows leaves the matching state and does not end a build
(`QuietWrites`), which is why the index stays right without one; a success that overrides
a recorded failure is a cutover like any other and signals; after any other commit
the worker owes a signal, and the signal is then in the inbox, lost, or replaced by the
reload on reconnecting (`IndexFollows`). An event under way is the one its webhook
decided on (`EventsPending`). Who has a publisher's lock is its holder, so a client seen
missing is still missing when the new one is stored (`LockHeld`).

`Validation_proofs` is about `validate_automation` alone, for any fields and any body.
`ScanFinds`: the loop over the conditions reports, for a list of any length, what each
condition is wrong for given the ones before it, and nothing else. This is an induction
over the list: the library's induction theorems take a predicate, which the provers
cannot instantiate, so `SetInduction` states induction over a set, from the
well-foundedness of `<`; `ScanExists` and `ScanUnfolds` give the recursion its meaning
and `ScanInvariant` says what the loop has seen and found after `n` conditions. From it
`RulesAgree` (where no rule raises, the rules find nothing exactly when `ValidDefinition`
holds; the later of two conditions on one field is the one reported), `RulesMark` (the
places of their errors are exactly `Faults`) and `AnswerBound` (the count cap ends the rule, so the scan that reports is of
at most `TRIGGERS_MAX` conditions with two errors each).

`ScriptPipeline_proofs` begins with the clients alone. The git client: `GitInductive`
proves `GitInv` for any number of concurrent calls, and with it `ReadsCommitted` and the
refinement `ClientKeepsContract`: every step of the client and of GitLab is a step of
`ScriptRepo` or leaves it unchanged. The contract needs to know that a call has at most
one request that can still be applied, also after its caller has gone:
`CreateFollowsRefusal` (a create is sent only after GitLab refused the update of the same
call) and `AppliedOnce` (what landed is no longer under way) say so, `AppliedIsOwn` that
an answer carries its own commit's SHA, and `ReturnedIsThere` that the branch only grows.
`ReadsCommitted` is about reads that GitLab lets see the branch. The registry client: for
any names over any characters and any of the answers, `SegmentIsChild` shows that a name
that passes `_valid_segment` leads to a child of the folder and nowhere else, and
`ListingIsComplete` that an accepted listing holds the whole folder; `DeletesListed` and
`EmptiedIsEmpty` follow. The assumption is that a 404 is true: the client takes it for "no such folder",
and cannot tell a registry that lies about it. Then the composition, for any requests,
bodies, fields and lookups:

- `PipelineRunsClients`: every behaviour of the pipeline is one of each client, so
  `PipelineKeepsContract`, `PipelineReads` and `PipelineEmptied` hold where authoring, CI and the cascade call them;
- `PipelineTypes` and `AcceptedLanded` from `PipelineInv`: a request is accepted only
  when its call returned, and what was returned is on a branch that only grows;
- `AcceptsValid` (`AcceptsExactlyValid`): a verdict is acted on as it was reached, with
  the answer of the request's own lookup (`LookupsFollow`), and the rules agree with
  their reference (`RulesAgree`);
- `EveryFaultReported` (`ReportsEveryFault`) from the same verdict and `RulesMark`: the
  places a 400 names are exactly those that break a rule;
- `AnswersBounded`, from `AllAnswered`: the errors of a request are those of the byte cap
  or those that `validate_automation` found for its body, and they stay with the request.

The hypotheses of the last three items are that bodies have the types of the request model
(`DraftTyped`) and that lookups answer with addresses; `MCSamples` meets them, which the
run evaluates (`SamplesFit`).

**Only model-checked**: liveness, which is outside the prover's reach
(`DeletionCompletes`, `WalletEmpties`, `CommitEnds`, `HeldUpOnlyByResolver`), and whether
the eleven refuted texts fail, which is a matter of one behaviour each. Every invariant
and every action property of a passing run is also a theorem, `DriftIsLogged`,
`LeftoverIsAnswered` and `CappReclaimed` under the hypotheses above.

## 5. Assumptions and what is left out

- Deadlines are unique (a wall clock that does not step back); commit SHAs are fresh;
  a digest names the commit it was built from, one per pipeline run.
- `created_at` order and commit order agree for create and edit revisions, because the
  build claim keeps their transactions apart; toggles and DELETE may differ.
- A commit whose acknowledgement is lost is not modelled, except for create and
  `begin_delete`, where the refresh after the commit has the same effect.
- `Signals` merges the lock of a publisher singleton with the lock of its client, which
  are taken one inside the request after the other and guard one thing each. With
  `REDIS_URL` unset nothing is sent, which the model has as every send failing.
- D17's submit loop, E21 and the subscriber are not in this repository: what is assumed
  of them is listed in section 2 and marked external in `PROJECT.json`.
- A reload signal that is lost is made up for by the subscriber's periodic reload;
  `PromptIndex` says nothing of the time in between (`Settled`).
- A field name with a lone surrogate makes the encoding of the 400 itself fail, after the
  rules; the model has surrogates in trigger values only.
- `ScriptPipeline` leaves the row to `ControlPlane`: the 400 for a change of wallet is
  the guard of `ClaimBuild` there; whether a build is still under way
  when a PUT arrives is a free choice there, and a DELETE that follows the release of a
  stuck claim while its commit is still under way is only in `ControlPlane`.

**Not modelled.** Authentication and the webhook guard (`deps.py`,
`ci_webhook_guard.py`: stateless gates, and the throttle of one log line); start-up,
settings and probes (`main.py`, `config.py`, `healthcheck.py`: no state); the
connection pool (`core/db.py`: sizes and timeouts that SQLAlchemy enforces; its failures
are the database faults of the model); the submit, reconciler and SSE routes (stubs at
this commit); `lock_for_build_mutation`, which has no caller; `InMemoryGitClient` and
`InMemoryCappClient` beyond the contract they document (test doubles); the settings
checks of `ArtifactoryRegistryClient.__init__` and `build_gitlab_client`, which run
before anything else and change nothing.

## 6. Plan

Done: the row, authoring, webhook, toggles, cascade, their composition and its abstract
lifecycle, deboard, run finalization, the script repository and its contract, the image
registry, validation, the publishers; the proofs of section 4.

Next, in this order:

1. Lost commit acknowledgements in phase 3 and in transaction 2.
2. Event order: two webhooks' events may be published in either order.
