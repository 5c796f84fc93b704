---------------------------- MODULE ScriptPipeline ----------------------------
(***************************************************************************)
(* From a request body to an image in the registry and back: validation    *)
(* with its DNS lookup, the commit to the script repository, the pipelines *)
(* that build whatever lands there, and the reclaiming of the images when  *)
(* the automation is deleted.  The row in the middle is ControlPlane's.    *)
(***************************************************************************)
EXTENDS Resolver, GitClient, RegistryClient

CONSTANTS
    Post,       \* the request that creates the automation; the others edit it
    Drafts      \* per request: the bodies it may carry

ASSUME PipelineAssumption ==
    /\ Post \in Requests
    /\ Calls = Requests
    /\ Entries \subseteq Nat \ {0}

VARIABLE request    \* per request: where it stands, its body and the errors found

pipelineVars == <<request, lookups, gitVars, registryVars>>

RequestPcs == {"idle", "validating", "refused", "conflict", "committing",
               "accepted", "unavailable", "error"}      \* the last two: 503, 500

Bodies == {NULL} \cup UNION {Drafts[q] : q \in Requests}

At(pc) == [pc |-> pc, draft |-> NULL, errors |-> {}]

PipelineInit ==
    /\ request = [q \in Requests |-> At("idle")]
    /\ ResolverInit
    /\ GitInit
    /\ RegistryInit

Answers(q, pc) == request' = [request EXCEPT ![q] = At(pc)]

\* The request model refuses a script over the byte cap before any rule runs.
RefuseBody(q, draft) ==
    /\ request[q].pc = "idle"
    /\ draft.script.large
    /\ request' = [request EXCEPT ![q] =
                      [pc |-> "refused", draft |-> draft,
                       errors |-> {Error("script", 0, "invalid_value")}]]
    /\ UNCHANGED <<lookups, gitVars, registryVars>>

\* A PUT finds the automation once its POST has been accepted.
Submit(q, draft) ==
    /\ request[q].pc = "idle"
    /\ ~draft.script.large
    /\ q # Post => request[Post].pc = "accepted"
    /\ request' = [request EXCEPT ![q] =
                      [pc |-> "validating", draft |-> draft, errors |-> {}]]
    /\ IF NeedsLookup(draft.logstash_url) /\ ~TriggersRaise(draft.triggers)
       THEN StartLookup(q)
       ELSE UNCHANGED lookups
    /\ UNCHANGED <<gitVars, registryVars>>

\* The lookup, if any, is over; its answer is gone once the rules have run.
Judged(q) ==
    /\ request[q].pc = "validating"
    /\ ~Resolving(q)
    /\ lookups' = [lookups EXCEPT ![q] = NoLookup]

Errors(q) == validate_automation(request[q].draft, lookups[q].answer)
Raises(q) == ValidationRaises(request[q].draft, lookups[q].answer)

\* A rule raised, and nothing between it and the server catches that.
RaiseError(q) ==
    /\ Judged(q)
    /\ Raises(q)
    /\ Answers(q, "error")
    /\ UNCHANGED <<gitVars, registryVars>>

\* _validated, once the lookup is over: all the errors, in one answer.
Refuse(q) ==
    /\ Judged(q)
    /\ ~Raises(q)
    /\ Errors(q) # {}
    /\ request' = [request EXCEPT ![q].pc = "refused", ![q].errors = Errors(q)]
    /\ UNCHANGED <<gitVars, registryVars>>

\* _claim_build refuses a PUT while the automation is building or being deleted,
\* and may find its row locked or the database failing.  When a build ends, or
\* is given up, is ControlPlane's: any of the answers may come.
ClaimRefused(q) ==
    /\ Judged(q)
    /\ ~Raises(q)
    /\ Errors(q) = {}
    /\ q # Post
    /\ \E pc \in {"conflict", "unavailable", "error"} : Answers(q, pc)
    /\ UNCHANGED <<gitVars, registryVars>>

Commit(q) ==
    /\ Judged(q)
    /\ ~Raises(q)
    /\ Errors(q) = {}
    /\ reclaim.pc = "idle"
    /\ commit_script(q)
    /\ Answers(q, "committing")
    /\ UNCHANGED registryVars

\* A slip: the client's own outcome goes out untranslated.
FinishUntranslated(q) ==
    /\ request[q].pc = "committing"
    /\ ~Waiting(q)
    /\ Answers(q, call[q].pc)
    /\ UNCHANGED <<lookups, gitVars, registryVars>>

\* A slip: what the commit came to is not looked at.
EndingsUnchecked(q) == {"accepted", "error"}

\* The commit returned or raised.  After a commit the database may fail (500); a
\* PUT may also find its row locked (503) or its claim given up meanwhile (409).
Endings(q) ==
    CASE call[q].pc # "returned" -> {"unavailable"}
      [] call[q].pc = "returned" /\ q = Post -> {"accepted", "error"}
      [] call[q].pc = "returned" /\ q # Post ->
            {"accepted", "error", "unavailable", "conflict"}

Finish(q) ==
    /\ request[q].pc = "committing"
    /\ ~Waiting(q)
    /\ \E pc \in Endings(q) : Answers(q, pc)
    /\ UNCHANGED <<lookups, gitVars, registryVars>>

ResolverStep ==
    /\ \E q \in Requests :
          \/ \E l \in Lookups : GetaddrinfoReturns(q, l)
          \/ LookupInTime(q)
          \/ LookupExpires(q)
          \/ LookupJoined(q)
    /\ UNCHANGED <<request, gitVars, registryVars>>

CallerStep(q) ==
    /\ \/ CommitReturns(q)
       \/ FallBackToCreate(q)
       \/ CommitRaises(q)
       \/ BoundExpires(q)
    /\ UNCHANGED <<request, lookups, registryVars>>

GitStep ==
    /\ \/ \E q \in Requests :
             \/ \E a \in CommitActions : GitlabApplies(q, a) \/ GitlabFails(q, a)
             \/ GitlabFindsNoFile(q)
       \/ request[Post].pc = "accepted" /\ read_script      \* get_automation
       \/ \E visible \in BOOLEAN : ReadAnswers(visible)
       \/ ReadFails
    /\ UNCHANGED <<request, lookups, registryVars>>

\* DELETE finds the automation and is refused while a build is claimed.
MayDelete ==
    /\ request[Post].pc = "accepted"
    /\ \A q \in Requests : request[q].pc # "committing"

\* The image built from the n-th commit is entry n; a pipeline may run again.
RegistryStep ==
    /\ \/ MayDelete /\ StartReclaim
       \/ \E answer \in TrueAnswers \cup OtherAnswers :
             ListEntries(answer) \/ RelistEntries(answer)
       \/ \E entry \in Names, status \in {204, 404, 500} : delete_image(entry, status)
       \/ AllDeleted
       \/ \E n \in Entries \cap 1..Len(branch) : Push(n)
    /\ UNCHANGED <<request, lookups, gitVars>>

PipelineNext ==
    \/ \E q \in Requests :
          \/ /\ request[q].pc = "idle"        \* so that TLC tries no body on the others
             /\ \E draft \in Drafts[q] : RefuseBody(q, draft) \/ Submit(q, draft)
          \/ RaiseError(q)
          \/ Refuse(q)
          \/ ClaimRefused(q)
          \/ Commit(q)
          \/ Finish(q)
          \/ CallerStep(q)
    \/ ResolverStep
    \/ GitStep
    \/ RegistryStep

\* The threads of this service run; DNS, GitLab and the registry may hang.
PipelineFairness ==
    \A q \in Requests :
        /\ WF_pipelineVars(\/ RaiseError(q) \/ Refuse(q) \/ ClaimRefused(q)
                           \/ Commit(q) \/ Finish(q))
        /\ WF_pipelineVars(CallerStep(q))
        /\ WF_pipelineVars(/\ LookupInTime(q) \/ LookupExpires(q) \/ LookupJoined(q)
                           /\ UNCHANGED <<request, gitVars, registryVars>>)

PipelineSpec == PipelineInit /\ [][PipelineNext]_pipelineVars /\ PipelineFairness

TypeOK ==
    /\ \A q \in Requests : /\ request[q].pc \in RequestPcs
                           /\ request[q].draft \in Bodies
    /\ ResolverTypeOK
    /\ GitTypeOK
    /\ RegistryTypeOK

\* No definition that breaks a rule is committed and none that keeps them all
\* is refused, in whatever order its conditions come and however its lookup
\* ends: the scan of the validators agrees with the rules said at once.
AcceptsExactlyValid ==
    [][\A q \in Requests :
          LET valid == ValidDefinition(request[q].draft, lookups[q].answer) IN
          request[q].pc = "validating" =>
             /\ request'[q].pc \in {"committing", "conflict", "unavailable"} => valid
             /\ request'[q].pc = "refused" => ~valid]_pipelineVars

\* Once the body is within the byte cap, a 400 names every place of the request
\* that breaks a rule and no other: the lists as a whole and each condition,
\* both cooldown parts, timeout, grace, the URL, the script and the namespace,
\* however many of them are wrong at once.  (What raises has no 400: see below.)
ReportsEveryFault ==
    [][\A q \in Requests :
          request[q].pc = "validating" /\ request'[q].pc = "refused" =>
             {<<e.field, e.at>> : e \in request'[q].errors}
                = Faults(request[q].draft, lookups[q].answer)]_pipelineVars

\* "Every rule appends a FieldError and keeps going - the caller returns ALL
\* failures in one machine-readable 400": a body with a fault is answered with
\* a 400 and with nothing else.  Refuted by a rule that raises.
FaultsAreAnswered ==
    [][\A q \in Requests :
          request[q].pc = "validating" /\ request'[q].pc # "validating" =>
             \/ request'[q].pc = "refused"
             \/ ValidDefinition(request[q].draft, lookups[q].answer)]_pipelineVars

\* A request that is answered with success has its script on the branch, for
\* good: no timeout, late landing or failure of another request changes that.
AcceptedIsLanded == \A q \in Requests : request[q].pc = "accepted" => Landed(q)

\* However long the lists of a request are, its answer is bounded: two errors
\* per matchable field, one per cooldown field and a fixed number besides.
AnswerBounded ==
    \A q \in Requests :
        Cardinality(request[q].errors)
            <= 2 * TRIGGERS_MAX + COOLDOWN_FIELDS_MAX + 8
==============================================================================
