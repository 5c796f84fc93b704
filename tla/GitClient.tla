------------------------------- MODULE GitClient -------------------------------
(***************************************************************************)
(* GitlabGitClient: commit_script and read_script over the GitLab API.     *)
(* Every request runs in a worker thread of its own (_bounded); when the   *)
(* bound expires the caller leaves at once, and the worker, whose request  *)
(* GitLab may still apply, is left to itself.  commit_script tries an      *)
(* update and turns to a create only where GitLab says the file is absent. *)
(***************************************************************************)
EXTENDS Naturals, Sequences

CONSTANT Calls      \* the commit_script calls on the automation's path

VARIABLES
    branch,     \* the calls whose commits landed, in order; the n-th has SHA n
    call,       \* per call: where its caller stands
    wire,       \* per call and commit action: its request
    reader      \* one read_script after another

gitVars == <<branch, call, wire, reader>>

CommitActions == {"update", "create"}

\* A request's state as its worker sees it: not made, under way, applied as
\* SHA n, refused because the file is absent, or failed in any other way.
WireStates == [state : {"none", "sent", "applied", "missing", "failed"},
               sha : Nat]

CallStates == [pc : {"idle", "update", "create", "returned", "raised"},
               sha : Nat]

\* `known`: the SHAs returned to anybody when the read began; `visible`: whether
\* the service's token was shown the project and the branch.
ReaderStates == [pc : {"idle", "reading", "content", "absent", "raised"},
                 known : SUBSET Nat, sha : Nat, visible : BOOLEAN]

GitInit ==
    /\ branch = << >>
    /\ call = [c \in Calls |-> [pc |-> "idle", sha |-> 0]]
    /\ wire = [c \in Calls |->
                 [a \in CommitActions |-> [state |-> "none", sha |-> 0]]]
    /\ reader = [pc |-> "idle", known |-> {}, sha |-> 0, visible |-> TRUE]

FileExists == branch # << >>
Waiting(c) == call[c].pc \in CommitActions
Request(c) == wire[c][call[c].pc]

----------------------------------------------------------------------------
(* GitLab (external): a request that is under way is applied, refused or    *)
(* lost, whether or not anybody still waits for it.                         *)

GitlabApplies(c, a) ==
    /\ wire[c][a].state = "sent"
    /\ FileExists <=> a = "update"
    /\ branch' = Append(branch, c)
    /\ wire' = [wire EXCEPT ![c][a] =
                  [state |-> "applied", sha |-> Len(branch) + 1]]
    /\ UNCHANGED <<call, reader>>

GitlabFindsNoFile(c) ==
    /\ wire[c]["update"].state = "sent"
    /\ ~FileExists
    /\ wire' = [wire EXCEPT ![c]["update"].state = "missing"]
    /\ UNCHANGED <<branch, call, reader>>

\* Any other refusal, or a connection that breaks before or after the commit.
GitlabFails(c, a) ==
    /\ wire[c][a].state \in {"sent", "applied"}
    /\ wire' = [wire EXCEPT ![c][a].state = "failed"]
    /\ UNCHANGED <<branch, call, reader>>

----------------------------------------------------------------------------
\* Makes the bounded call: the request is under way in a fresh worker.
Sends(c, a) ==
    /\ call' = [call EXCEPT ![c].pc = a]
    /\ wire' = [wire EXCEPT ![c][a].state = "sent"]

commit_script(c) ==
    /\ call[c].pc = "idle"
    /\ Sends(c, "update")
    /\ UNCHANGED <<branch, reader>>

is_missing_file(request) == request.state = "missing"

CommitReturns(c) ==
    /\ Waiting(c)
    /\ Request(c).state = "applied"
    /\ call' = [call EXCEPT ![c] = [pc |-> "returned", sha |-> Request(c).sha]]
    /\ UNCHANGED <<branch, wire, reader>>

FallBackToCreate(c) ==
    /\ call[c].pc = "update"
    /\ is_missing_file(Request(c))
    /\ Sends(c, "create")
    /\ UNCHANGED <<branch, reader>>

CommitRaises(c) ==
    /\ Waiting(c)
    /\ Request(c).state = "failed"
    /\ ~(call[c].pc = "update" /\ is_missing_file(Request(c)))
    /\ call' = [call EXCEPT ![c].pc = "raised"]
    /\ UNCHANGED <<branch, wire, reader>>

\* A slip: the executor is left through `with`, which waits for its worker.
LeavesWorkerJoined(c) == Request(c).state # "sent"

\* shutdown(wait=False): nothing of the worker is waited for.
LeavesWorker(c) == Waiting(c)

\* A slip: an update that expires is followed by a create.
BoundExpiresRetries(c) ==
    /\ Waiting(c)
    /\ LeavesWorker(c)
    /\ IF call[c].pc = "update" THEN Sends(c, "create")
       ELSE call' = [call EXCEPT ![c].pc = "raised"] /\ UNCHANGED wire
    /\ UNCHANGED <<branch, reader>>

BoundExpires(c) ==
    /\ Waiting(c)
    /\ LeavesWorker(c)
    /\ call' = [call EXCEPT ![c].pc = "raised"]
    /\ UNCHANGED <<branch, wire, reader>>

----------------------------------------------------------------------------
\* read_script.
read_script ==
    /\ reader.pc # "reading"
    /\ reader' = [pc |-> "reading", known |-> {call[c].sha : c \in Calls}, sha |-> 0,
                  visible |-> TRUE]
    /\ UNCHANGED <<branch, call, wire>>

\* The file, or a 404: GitLab answers so for a file that is not there and also
\* for a project or a branch the token is not shown.  Every 404 is None.
ReadAnswers(visible) ==
    /\ reader.pc = "reading"
    /\ reader' = [reader EXCEPT
                     !.pc = IF FileExists /\ visible THEN "content" ELSE "absent",
                     !.sha = IF visible THEN Len(branch) ELSE 0,
                     !.visible = visible]
    /\ UNCHANGED <<branch, call, wire>>

\* A slip: any failure of the read is taken for a missing file.
ReadFailsAsAbsent ==
    /\ reader.pc = "reading"
    /\ reader' = [reader EXCEPT !.pc = "absent"]
    /\ UNCHANGED <<branch, call, wire>>

\* Anything but a 404, and the bound.
ReadFails ==
    /\ reader.pc = "reading"
    /\ reader' = [pc |-> "raised", known |-> {}, sha |-> 0, visible |-> TRUE]
    /\ UNCHANGED <<branch, call, wire>>

GitTypeOK ==
    /\ branch \in Seq(Calls)
    /\ call \in [Calls -> CallStates]
    /\ wire \in [Calls -> [CommitActions -> WireStates]]
    /\ reader \in ReaderStates

----------------------------------------------------------------------------
\* The client alone; ScriptPipeline says when its callers call.
GitNext ==
    \/ \E c \in Calls :
          \/ commit_script(c) \/ FallBackToCreate(c)
          \/ CommitReturns(c) \/ CommitRaises(c) \/ BoundExpires(c)
          \/ GitlabFindsNoFile(c)
          \/ \E a \in CommitActions : GitlabApplies(c, a) \/ GitlabFails(c, a)
    \/ read_script \/ ReadFails
    \/ \E visible \in BOOLEAN : ReadAnswers(visible)

GitSpec == GitInit /\ [][GitNext]_gitVars

\* How the caller of commit_script sees the place of its call.
Seen(pc) ==
    CASE pc = "idle" -> "none"
      [] pc \in CommitActions -> "open"
      [] OTHER -> pc

Repo == INSTANCE ScriptRepo WITH
    landed <- branch,
    answers <- [c \in Calls |-> [pc |-> Seen(call[c].pc), sha |-> call[c].sha]]

\* commit_script keeps the contract of the script repository: the update, its
\* fallback and the abandoned workers together never land one call twice, and
\* the SHA returned is that of the call's own commit.
ImplementsScriptRepo == Repo!RepoSpec

\* A read that GitLab let see the branch never answers with less than what a
\* commit had returned before the read began: a timeout or an error is never
\* turned into "no script", and no older content is returned.
ReadsWhatWasCommitted ==
    reader.pc \in {"content", "absent"} /\ reader.visible =>
        \A n \in reader.known : n <= reader.sha

\* "Committed bytes at path, or None if absent": None is answered only when no
\* commit of the script had returned before the read began.  Refuted by a 404 for
\* a project or branch that the token is not shown.
NoneMeansAbsent == reader.pc = "absent" => reader.known \subseteq {0}

\* Every commit_script returns or raises, even if GitLab never answers.
CommitEnds == \A c \in Calls : Waiting(c) ~> ~Waiting(c)

----------------------------------------------------------------------------
(* The inductive invariant behind the contract and the reads.               *)

Landed(c) == \E n \in DOMAIN branch : branch[n] = c

\* A create is only ever sent after GitLab refused the update of the same call.
CreateFollowsRefusal ==
    \A c \in Calls :
        /\ call[c].pc = "idle" => wire[c]["update"].state = "none"
        /\ call[c].pc = "update" => wire[c]["create"].state = "none"
        /\ wire[c]["create"].state # "none" => wire[c]["update"].state = "missing"

\* While a request of a call is still to be applied, none of that call was.
AppliedOnce ==
    \A c \in Calls : Landed(c) =>
        \/ wire[c]["update"].state \in {"applied", "failed"}
        \/ wire[c]["create"].state \in {"applied", "failed"}

AppliedIsOwn ==
    \A c \in Calls, a \in CommitActions : wire[c][a].state = "applied" =>
        wire[c][a].sha \in DOMAIN branch /\ branch[wire[c][a].sha] = c

\* What was returned, to callers and to readers, is on the branch.
ReturnedIsThere ==
    /\ \A c \in Calls : call[c].sha <= Len(branch)
    /\ \A n \in reader.known : n <= Len(branch)

GitInv ==
    /\ GitTypeOK
    /\ CreateFollowsRefusal
    /\ AppliedOnce
    /\ AppliedIsOwn
    /\ ReturnedIsThere
    /\ ReadsWhatWasCommitted

==============================================================================
