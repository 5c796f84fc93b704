------------------------- MODULE ScriptPipeline_proofs -------------------------
(***************************************************************************)
(* Proofs about the way from a request to the registry: the git client,    *)
(* which implements the contract of the script repository for any number   *)
(* of calls that overlap in any way; the registry client, whatever answers *)
(* come back and for any set of entry names; then the whole pipeline, in   *)
(* which both run side by side, for any requests, bodies and lookups.      *)
(***************************************************************************)
EXTENDS ScriptPipeline, Validation_proofs

----------------------------------------------------------------------------
(* The git client.                                                         *)

LEMMA AppendBranch ==
    ASSUME NEW S, NEW s \in Seq(S), NEW x \in S
    PROVE  /\ Append(s, x) \in Seq(S)
           /\ DOMAIN Append(s, x) = DOMAIN s \cup {Len(s) + 1}
           /\ Append(s, x)[Len(s) + 1] = x
           /\ \A n \in DOMAIN s : Append(s, x)[n] = s[n]
           /\ Len(s) + 1 \in Nat /\ Len(s) + 1 \notin DOMAIN s
           /\ Len(s) \in Nat /\ Len(Append(s, x)) = Len(s) + 1
           /\ DOMAIN s = 1..Len(s)
OBVIOUS

Pcs == {"idle", "update", "create", "returned", "raised"}
Progress == {"none", "sent", "applied", "missing", "failed"}

\* One call moves on.
LEMMA PcMoves ==
    ASSUME call \in [Calls -> CallStates], NEW c \in Calls, NEW p \in Pcs,
           call' = [call EXCEPT ![c].pc = p]
    PROVE  /\ call' \in [Calls -> CallStates]
           /\ call'[c].pc = p /\ call'[c].sha = call[c].sha
           /\ \A d \in Calls : d # c => call'[d] = call[d]
BY DEF CallStates, Pcs

\* One request moves on, and what that means for the others.
RequestMoves(c, a, p) == wire' = [wire EXCEPT ![c][a].state = p]

OnlyRequestMoved(c, a, p) ==
    /\ wire' \in [Calls -> [CommitActions -> WireStates]]
    /\ wire'[c][a].state = p
    /\ \A d \in Calls, b \in CommitActions :
          d # c \/ b # a => wire'[d][b] = wire[d][b]

LEMMA StateMoves ==
    ASSUME GitTypeOK, NEW c \in Calls, NEW a \in CommitActions,
           NEW p \in Progress, RequestMoves(c, a, p)
    PROVE  OnlyRequestMoved(c, a, p)
<1>0. /\ wire \in [Calls -> [CommitActions -> WireStates]]
      /\ wire' = [wire EXCEPT ![c][a].state = p]
    BY DEF GitTypeOK, RequestMoves
<1> DEFINE w == [wire[c][a] EXCEPT !.state = p]
           h == [wire[c] EXCEPT ![a] = w]
<1>1. w \in WireStates /\ w.state = p
    BY <1>0 DEF WireStates, Progress
<1>2. h \in [CommitActions -> WireStates] /\ h[a] = w
      /\ \A b \in CommitActions : b # a => h[b] = wire[c][b]
    BY <1>0, <1>1
<1>3. wire' = [wire EXCEPT ![c] = h]
    BY <1>0
<1> HIDE DEF w, h
<1>4. wire' \in [Calls -> [CommitActions -> WireStates]] /\ wire'[c] = h
      /\ \A d \in Calls : d # c => wire'[d] = wire[d]
    BY <1>0, <1>2, <1>3
<1> QED BY <1>1, <1>2, <1>4 DEF OnlyRequestMoved

LEMMA GitInvInit == GitInit => GitInv
<1> SUFFICES ASSUME GitInit PROVE GitInv
    OBVIOUS
<1>1. GitTypeOK
    BY DEF GitInit, GitTypeOK, CallStates, WireStates, ReaderStates
<1>2. CreateFollowsRefusal
    BY DEF GitInit, CreateFollowsRefusal, CommitActions
<1>3. AppliedOnce
    BY DEF GitInit, AppliedOnce, Landed
<1>4. AppliedIsOwn
    BY DEF GitInit, AppliedIsOwn, CommitActions
<1>5. ReturnedIsThere /\ ReadsWhatWasCommitted
    BY DEF GitInit, ReturnedIsThere, ReadsWhatWasCommitted
<1> QED BY <1>1, <1>2, <1>3, <1>4, <1>5 DEF GitInv

\* GitLab applies a request: the commit is the call's first and its own.
LEMMA InvApplies ==
    ASSUME GitInv, NEW c \in Calls, NEW a \in CommitActions, GitlabApplies(c, a)
    PROVE  GitInv'
<1> USE DEF GitInv, GitlabApplies, CommitActions
<1>1. GitTypeOK'
    BY AppendBranch DEF GitTypeOK, WireStates
<1>2. /\ \A d \in Calls, b \in CommitActions : d # c \/ b # a => wire'[d][b] = wire[d][b]
      /\ wire'[c][a].state = "applied" /\ wire'[c][a].sha = Len(branch) + 1
    BY DEF GitTypeOK
<1>3. branch \in Seq(Calls)
    BY DEF GitTypeOK
<1>4. CreateFollowsRefusal'
    BY <1>2 DEF CreateFollowsRefusal
<1>5. AppliedOnce'
  <2> SUFFICES ASSUME NEW d \in Calls, Landed(d)', d # c
               PROVE  \/ wire'[d]["update"].state \in {"applied", "failed"}
                      \/ wire'[d]["create"].state \in {"applied", "failed"}
      BY <1>2 DEF AppliedOnce
  <2>1. Landed(d)
      BY <1>3, AppendBranch DEF Landed
  <2> QED BY <2>1, <1>2 DEF AppliedOnce
<1>6. AppliedIsOwn'
    BY <1>2, <1>3, AppendBranch DEF AppliedIsOwn
<1>7. ReturnedIsThere' /\ ReadsWhatWasCommitted'
    BY <1>3, AppendBranch
    DEF GitTypeOK, CallStates, ReaderStates, ReturnedIsThere, ReadsWhatWasCommitted
<1> QED BY <1>1, <1>4, <1>5, <1>6, <1>7

LEMMA GitInvNext == GitInv /\ [GitNext]_gitVars => GitInv'
<1> SUFFICES ASSUME GitInv, [GitNext]_gitVars PROVE GitInv'
    OBVIOUS
<1>1. ASSUME NEW c \in Calls, NEW a \in CommitActions, GitlabApplies(c, a)
      PROVE  GitInv'
    BY <1>1, InvApplies
<1>2. ASSUME NEW c \in Calls, NEW a \in CommitActions, GitlabFails(c, a)
      PROVE  GitInv'
  <2>1. OnlyRequestMoved(c, a, "failed")
    <3>1. RequestMoves(c, a, "failed") /\ "failed" \in Progress
        BY <1>2 DEF GitlabFails, RequestMoves, Progress
    <3> QED BY <3>1, StateMoves DEF GitInv
  <2> QED BY <1>2, <2>1
          DEF OnlyRequestMoved, GitInv, GitlabFails, GitTypeOK, CommitActions, CreateFollowsRefusal,
              AppliedOnce, AppliedIsOwn, Landed, ReturnedIsThere, ReadsWhatWasCommitted
<1>3. ASSUME NEW c \in Calls, GitlabFindsNoFile(c) PROVE GitInv'
  <2>1. OnlyRequestMoved(c, "update", "missing")
    <3>1. /\ RequestMoves(c, "update", "missing")
          /\ "missing" \in Progress /\ "update" \in CommitActions
        BY <1>3 DEF GitlabFindsNoFile, RequestMoves, Progress, CommitActions
    <3> QED BY <3>1, StateMoves DEF GitInv
  <2> QED BY <1>3, <2>1
          DEF OnlyRequestMoved, GitInv, GitlabFindsNoFile, FileExists, GitTypeOK, CommitActions,
              CreateFollowsRefusal, AppliedOnce, AppliedIsOwn, Landed,
              ReturnedIsThere, ReadsWhatWasCommitted
<1>4. ASSUME NEW c \in Calls, NEW a \in CommitActions, Sends(c, a),
             UNCHANGED <<branch, reader>>,
             \/ a = "update" /\ call[c].pc = "idle"
             \/ a = "create" /\ call[c].pc = "update" /\ is_missing_file(Request(c))
      PROVE  GitInv'
  <2>0. OnlyRequestMoved(c, a, "sent")
    <3>1. RequestMoves(c, a, "sent") /\ "sent" \in Progress
        BY <1>4 DEF Sends, RequestMoves, Progress
    <3> QED BY <3>1, StateMoves DEF GitInv
  <2>1. /\ wire' \in [Calls -> [CommitActions -> WireStates]]
        /\ wire'[c][a].state = "sent"
        /\ \A d \in Calls, b \in CommitActions : d # c \/ b # a => wire'[d][b] = wire[d][b]
      BY <2>0 DEF OnlyRequestMoved
  <2>2. /\ call' \in [Calls -> CallStates]
        /\ call'[c].pc = a /\ call'[c].sha = call[c].sha
        /\ \A d \in Calls : d # c => call'[d] = call[d]
    <3>1. call' = [call EXCEPT ![c].pc = a] /\ a \in Pcs
        BY <1>4 DEF Sends, Pcs, CommitActions
    <3>2. call \in [Calls -> CallStates]
        BY DEF GitInv, GitTypeOK
    <3> QED BY <3>1, <3>2, PcMoves
  <2>3. GitTypeOK' /\ AppliedIsOwn'
      BY <1>4, <2>1, <2>2 DEF GitInv, GitTypeOK, CommitActions, AppliedIsOwn
  <2>6. CreateFollowsRefusal'
    <3>1. ASSUME NEW d \in Calls, d # c
          PROVE  /\ call'[d] = call[d]
                 /\ wire'[d]["update"] = wire[d]["update"]
                 /\ wire'[d]["create"] = wire[d]["create"]
        BY <3>1, <2>1, <2>2 DEF CommitActions
    <3>2. CASE a = "update"
      <4>1. wire[c]["create"].state = "none"
          BY <1>4, <3>2 DEF GitInv, CreateFollowsRefusal
      <4>2. wire'[c]["create"].state = "none" /\ call'[c].pc = "update"
          BY <4>1, <3>2, <2>1, <2>2 DEF CommitActions
      <4> QED BY <3>1, <4>2 DEF GitInv, CreateFollowsRefusal
    <3>3. CASE a = "create"
      <4>1. wire'[c]["update"].state = "missing" /\ call'[c].pc = "create"
          BY <1>4, <3>3, <2>1, <2>2 DEF CommitActions, is_missing_file, Request
      <4> QED BY <3>1, <4>1 DEF GitInv, CreateFollowsRefusal
    <3> QED BY <1>4, <3>2, <3>3
  <2>4. AppliedOnce'
      BY <1>4, <2>1
      DEF GitInv, CommitActions, CreateFollowsRefusal, AppliedOnce, Landed,
          is_missing_file, Request
  <2>5. ReturnedIsThere' /\ ReadsWhatWasCommitted'
      BY <1>4, <2>2 DEF GitInv, ReturnedIsThere, ReadsWhatWasCommitted
  <2> QED BY <2>3, <2>4, <2>5, <2>6 DEF GitInv
<1>5. ASSUME NEW c \in Calls, commit_script(c) \/ FallBackToCreate(c) PROVE GitInv'
    BY <1>4, <1>5 DEF commit_script, FallBackToCreate, CommitActions
<1>6. ASSUME NEW c \in Calls,
             CommitReturns(c) \/ CommitRaises(c) \/ BoundExpires(c)
      PROVE  GitInv'
  <2>1. /\ call' \in [Calls -> CallStates]
        /\ call'[c].pc \in {"returned", "raised"}
        /\ call'[c].sha <= Len(branch)
        /\ \A d \in Calls : d # c => call'[d] = call[d]
    <3>1. CASE CommitReturns(c)
      <4>1. Request(c) \in WireStates /\ Request(c).sha \in DOMAIN branch
          BY <3>1 DEF CommitReturns, Waiting, Request, GitInv, GitTypeOK, AppliedIsOwn
      <4>2. [pc |-> "returned", sha |-> Request(c).sha] \in CallStates
          BY <4>1 DEF WireStates, CallStates
      <4> QED BY <3>1, <4>1, <4>2 DEF CommitReturns, GitInv, GitTypeOK
    <3>2. CASE CommitRaises(c) \/ BoundExpires(c)
      <4>1. call' = [call EXCEPT ![c].pc = "raised"] /\ "raised" \in Pcs
          BY <3>2 DEF CommitRaises, BoundExpires, Pcs
      <4>2. call \in [Calls -> CallStates] /\ call[c].sha <= Len(branch)
          BY DEF GitInv, GitTypeOK, ReturnedIsThere
      <4>3. /\ call' \in [Calls -> CallStates]
            /\ call'[c].pc = "raised" /\ call'[c].sha = call[c].sha
            /\ \A d \in Calls : d # c => call'[d] = call[d]
          BY <4>1, <4>2, PcMoves
      <4> QED BY <4>2, <4>3
    <3> QED BY <1>6, <3>1, <3>2
  <2>2. UNCHANGED <<branch, wire, reader>>
      BY <1>6 DEF CommitReturns, CommitRaises, BoundExpires
  <2>3. GitTypeOK'
      BY <2>1, <2>2 DEF GitInv, GitTypeOK
  <2>4. CreateFollowsRefusal'
      BY <2>1, <2>2 DEF GitInv, CreateFollowsRefusal
  <2>5. (AppliedOnce /\ AppliedIsOwn)'
      BY <2>2 DEF GitInv, AppliedOnce, AppliedIsOwn, Landed
  <2>6. (ReturnedIsThere /\ ReadsWhatWasCommitted)'
      BY <2>1, <2>2 DEF GitInv, ReturnedIsThere, ReadsWhatWasCommitted
  <2> QED BY <2>3, <2>4, <2>5, <2>6 DEF GitInv
<1>7. CASE \/ read_script \/ \E visible \in BOOLEAN : ReadAnswers(visible)
           \/ ReadFails \/ UNCHANGED gitVars
  <2>1. UNCHANGED <<branch, call, wire>>
      BY <1>7 DEF read_script, ReadAnswers, ReadFails, gitVars
  <2>2. {call[c].sha : c \in Calls} \in SUBSET Nat /\ Len(branch) \in Nat
      BY DEF GitInv, GitTypeOK, CallStates
  <2>3. \A n \in {call[c].sha : c \in Calls} : n <= Len(branch)
      BY DEF GitInv, ReturnedIsThere
  <2>4. reader' \in ReaderStates /\ ReturnedIsThere' /\ ReadsWhatWasCommitted'
    <3> USE <2>1, <2>2, <2>3
        DEF GitInv, GitTypeOK, ReaderStates, ReturnedIsThere, ReadsWhatWasCommitted
    <3>1. CASE read_script
        BY <3>1 DEF read_script
    <3>2. ASSUME NEW visible \in BOOLEAN, ReadAnswers(visible)
          PROVE  reader' \in ReaderStates /\ ReturnedIsThere' /\ ReadsWhatWasCommitted'
      <4>1. /\ reader'.pc \in {"content", "absent"}
            /\ reader'.visible = visible /\ reader'.known = reader.known
            /\ visible => reader'.sha = Len(branch)
            /\ reader' \in ReaderStates
          BY <3>2 DEF ReadAnswers
      <4> QED BY <4>1
    <3>3. CASE ReadFails
        BY <3>3 DEF ReadFails
    <3>4. CASE UNCHANGED gitVars
        BY <3>4 DEF gitVars
    <3> QED BY <1>7, <3>1, <3>2, <3>3, <3>4
  <2> QED BY <2>1, <2>4 DEF GitInv, GitTypeOK, CreateFollowsRefusal,
                            AppliedOnce, AppliedIsOwn, Landed
<1> QED BY <1>1, <1>2, <1>3, <1>5, <1>6, <1>7 DEF GitNext

----------------------------------------------------------------------------
\* The invariant of the client: a create only follows a refused update, a call
\* with a request still under way has landed nothing, an applied request knows
\* its own commit.
THEOREM GitInductive == GitSpec => []GitInv
BY GitInvInit, GitInvNext, PTL DEF GitSpec

\* read_script, where GitLab shows the branch to the token, answers with
\* everything that had been returned when it began.
THEOREM ReadsCommitted == GitSpec => []ReadsWhatWasCommitted
<1>1. GitInv => ReadsWhatWasCommitted
    BY DEF GitInv
<1> QED BY <1>1, GitInductive, PTL

\* Every step of the client is one step of the contract or changes nothing a
\* caller sees.
LEMMA StepIsContractStep ==
    GitInv /\ [GitNext]_gitVars => [Repo!RepoNext]_(Repo!repoVars)
<1> SUFFICES ASSUME GitInv, [GitNext]_gitVars
             PROVE  Repo!RepoNext \/ UNCHANGED Repo!repoVars
    OBVIOUS
<1> DEFINE Shown(f) == [d \in Calls |-> [pc |-> Seen(f[d].pc), sha |-> f[d].sha]]
<1> USE DEF Seen, CommitActions
<1>0. call \in [Calls -> CallStates] /\ branch \in Seq(Calls)
    BY DEF GitInv, GitTypeOK
<1>1. ASSUME NEW c \in Calls, NEW a \in CommitActions, GitlabApplies(c, a)
      PROVE  Repo!Land(c)
  <2>1. call[c].pc # "idle" /\ ~Landed(c)
      BY <1>1 DEF GitInv, GitlabApplies, CreateFollowsRefusal, AppliedOnce
  <2> QED BY <1>0, <1>1, <2>1 DEF GitlabApplies, Landed, Repo!Land, CallStates
<1>2. ASSUME NEW c \in Calls, commit_script(c) PROVE Repo!Open(c)
    BY <1>0, <1>2 DEF commit_script, Sends, Repo!Open, CallStates
<1>3. ASSUME NEW c \in Calls, CommitReturns(c) PROVE Repo!Return(c)
  <2>1. /\ Request(c).sha \in DOMAIN branch /\ branch[Request(c).sha] = c
        /\ call[c].pc \in CommitActions /\ UNCHANGED branch
        /\ call' = [call EXCEPT ![c] = [pc |-> "returned", sha |-> Request(c).sha]]
      BY <1>3 DEF CommitReturns, Waiting, Request, GitInv, AppliedIsOwn
  <2>2. Shown(call') = [Shown(call) EXCEPT
                          ![c] = [pc |-> "returned", sha |-> Request(c).sha]]
      BY <1>0, <2>1
  <2> QED BY <2>1, <2>2 DEF Repo!Return
<1>4. ASSUME NEW c \in Calls, CommitRaises(c) \/ BoundExpires(c)
      PROVE  Repo!Raise(c)
  <2>1. /\ call[c].pc \in CommitActions /\ UNCHANGED branch
        /\ call' = [call EXCEPT ![c].pc = "raised"]
      BY <1>4 DEF CommitRaises, BoundExpires, Waiting
  <2>2. /\ call'[c].pc = "raised" /\ call'[c].sha = call[c].sha
        /\ \A d \in Calls : d # c => call'[d] = call[d]
      BY <1>0, <2>1, PcMoves DEF Pcs
  <2>3. Shown(call') = [Shown(call) EXCEPT ![c].pc = "raised"]
      BY <2>2
  <2> QED BY <2>1, <2>3 DEF Repo!Raise
<1>5. ASSUME NEW c \in Calls, FallBackToCreate(c) PROVE UNCHANGED Repo!repoVars
    BY <1>0, <1>5 DEF FallBackToCreate, Sends, Repo!repoVars, CallStates
<1>6. CASE \/ \E c \in Calls : \/ GitlabFindsNoFile(c)
                               \/ \E a \in CommitActions : GitlabFails(c, a)
           \/ read_script \/ (\E visible \in BOOLEAN : ReadAnswers(visible))
           \/ ReadFails \/ UNCHANGED gitVars
  <2>1. UNCHANGED <<branch, call>>
      BY <1>6 DEF GitlabFindsNoFile, GitlabFails, read_script, ReadAnswers,
                  ReadFails, gitVars
  <2> QED BY <2>1 DEF Repo!repoVars
<1> QED BY <1>1, <1>2, <1>3, <1>4, <1>5, <1>6 DEF GitNext, Repo!RepoNext

\* commit_script over GitLab implements the contract of the script repository:
\* at most one commit per call, and the SHA returned is the call's own.
THEOREM ClientKeepsContract == GitSpec => ImplementsScriptRepo
<1>1. GitInit => Repo!RepoInit
    BY DEF GitInit, Repo!RepoInit, Seen, CommitActions
<1> QED BY <1>1, StepIsContractStep, GitInductive, PTL
        DEF GitSpec, ImplementsScriptRepo, Repo!RepoSpec

----------------------------------------------------------------------------
(* The registry client.                                                    *)

\* The path of a DELETE for a name that passes the check ends at a child.
LEMMA SegmentIsChild ==
    ASSUME NEW name \in Names, valid_segment(name), Removes(name)
    PROVE  folder' = folder \ {name} /\ shared' = shared
<1>1. CharsOf[name] # {} /\ CharsOf[name] \cap {"/", "%"} = {}
    BY DEF valid_segment, SegmentChars
<1>2. name # Dot /\ name # DotDot
    BY DEF valid_segment
<1> QED BY <1>1, <1>2, Zenon DEF Removes

LEMMA EntriesAreSegments ==
    \A e \in Entries : e \in Names /\ valid_segment(e)
BY RegistryAssumption DEF valid_segment

\* A listing that is accepted leaves out none of the folder's entries.
LEMMA ListingIsComplete ==
    ASSUME folder \subseteq Entries,
           NEW answer \in TrueAnswers \cup OtherAnswers,
           ~list_image_entries(answer).raised
    PROVE  /\ folder \subseteq list_image_entries(answer).entries
           /\ list_image_entries(answer).entries \subseteq Names
<1> USE EntriesAreSegments DEF list_image_entries, Answer, Listed, Raised
<1>1. CASE answer \in TrueAnswers
    BY <1>1 DEF TrueAnswers, Absent
<1>2. CASE answer \in OtherAnswers
    BY <1>2 DEF OtherAnswers
<1> QED BY <1>1, <1>2

LEMMA RegistryStepTypes == RegistryTypeOK /\ [RegistryNext]_registryVars => RegistryTypeOK'
<1> SUFFICES ASSUME RegistryTypeOK, [RegistryNext]_registryVars PROVE RegistryTypeOK'
    OBVIOUS
<1> USE DEF RegistryTypeOK
<1>1. CASE StartReclaim
    BY <1>1 DEF StartReclaim, ReclaimStates
<1>2. ASSUME NEW answer \in TrueAnswers \cup OtherAnswers,
             ListEntries(answer) \/ RelistEntries(answer)
      PROVE  RegistryTypeOK'
  <2> DEFINE listing == list_image_entries(answer)
  <2>1. ~listing.raised => listing.entries \subseteq Names
      BY ListingIsComplete
  <2> HIDE DEF listing
  <2>2. /\ UNCHANGED <<folder, shared>>
        /\ \/ reclaim' = Stopped
           \/ reclaim' = [pc |-> "deleting", entries |-> listing.entries]
              /\ ~listing.raised
           \/ reclaim' = [pc |-> "emptied", entries |-> {}]
      BY <1>2 DEF ListEntries, RelistEntries, listing
  <2> QED BY <2>1, <2>2 DEF Stopped, ReclaimStates
<1>3. ASSUME NEW entry \in Names, NEW status \in {204, 404, 500},
             delete_image(entry, status)
      PROVE  RegistryTypeOK'
  <2>1. folder' \subseteq folder /\ shared' = shared
    <3>1. CASE Removes(entry)
        BY <1>3, <3>1, SegmentIsChild DEF delete_image
    <3>2. CASE UNCHANGED <<folder, shared>>
        BY <3>2
    <3>3. Removes(entry) \/ UNCHANGED <<folder, shared>>
        BY <1>3, ZenonT(30) DEF delete_image
    <3> QED BY <3>1, <3>2, <3>3
  <2>2. reclaim' = Stopped \/ reclaim' = [reclaim EXCEPT !.entries = @ \ {entry}]
      BY <1>3 DEF delete_image
  <2>3. reclaim' \in ReclaimStates
      BY <2>2 DEF Stopped, ReclaimStates
  <2> QED BY <2>1, <2>3
<1>4. CASE AllDeleted
    BY <1>4 DEF AllDeleted, ReclaimStates
<1>5. ASSUME NEW entry \in Entries, Push(entry) PROVE RegistryTypeOK'
    BY <1>5 DEF Push
<1>6. CASE UNCHANGED registryVars
    BY <1>6 DEF registryVars
<1> QED BY <1>1, <1>2, <1>3, <1>4, <1>5, <1>6 DEF RegistryNext

\* The step-3 loop keeps its types, whatever answers come back.
LEMMA RegistryTypes == RegistrySpec => []RegistryTypeOK
<1>1. RegistryInit => RegistryTypeOK
    BY DEF RegistryInit, RegistryTypeOK, ReclaimStates
<1> QED BY <1>1, RegistryStepTypes, PTL DEF RegistrySpec

\* A step of the reclaim takes away at most one image, one its listing named, and
\* nothing outside the folder: for any set of names in the answers, the check of
\* _valid_segment leaves only those whose DELETE path ends at a child.
THEOREM DeletesListed == RegistrySpec => DeletesOnlyListed
<1> DEFINE Step == /\ shared' = shared
                   /\ \E e \in Names : folder \ folder' \subseteq {e} \cap reclaim.entries
<1>1. RegistryNext => Step
  <2> SUFFICES ASSUME RegistryNext PROVE Step
      OBVIOUS
  <2>1. ASSUME NEW entry \in Names, NEW status \in {204, 404, 500},
               delete_image(entry, status)
        PROVE  Step
    <3>1. entry \in reclaim.entries /\ valid_segment(entry)
        BY <2>1, Zenon DEF delete_image
    <3>2. Removes(entry) \/ UNCHANGED <<folder, shared>>
        BY <2>1, ZenonT(30) DEF delete_image
    <3> QED BY <3>1, <3>2, SegmentIsChild
  <2>2. ASSUME \/ StartReclaim \/ AllDeleted
               \/ \E answer \in TrueAnswers \cup OtherAnswers :
                     ListEntries(answer) \/ RelistEntries(answer)
               \/ \E entry \in Entries : Push(entry)
        PROVE  Step
    <3>1. shared' = shared /\ folder \ folder' = {}
        BY <2>2 DEF StartReclaim, AllDeleted, ListEntries, RelistEntries, Push
    <3>2. Dot \in Names
        BY RegistryAssumption
    <3> QED BY <3>1, <3>2
  <2> QED BY <2>1, <2>2 DEF RegistryNext
<1>2. [RegistryNext]_registryVars => [Step]_registryVars
    BY <1>1
<1> QED BY <1>2, PTL DEF RegistrySpec, DeletesOnlyListed

\* The second listing of step 3 vouches for an empty folder only when the
\* folder is empty, whatever answers the registry gives.
THEOREM EmptiedIsEmpty == RegistrySpec => EmptiedMeansEmpty
<1>1. RegistryTypeOK /\ [RegistryNext]_registryVars =>
        [reclaim.pc = "relisting" /\ reclaim'.pc = "emptied" => folder = {}]_registryVars
  <2> SUFFICES ASSUME RegistryTypeOK, RegistryNext, reclaim.pc = "relisting",
                      reclaim'.pc = "emptied"
               PROVE  folder = {}
      BY DEF registryVars
  <2>1. PICK answer \in TrueAnswers \cup OtherAnswers : RelistEntries(answer)
      BY DEF RegistryNext, StartReclaim, ListEntries, delete_image, AllDeleted, Push
  <2>2. ~list_image_entries(answer).raised /\ list_image_entries(answer).entries = {}
      BY <2>1 DEF RelistEntries, Stopped
  <2> QED BY <2>2, ListingIsComplete DEF RegistryTypeOK
<1> QED BY <1>1, RegistryTypes, PTL DEF RegistrySpec, EmptiedMeansEmpty

----------------------------------------------------------------------------
(* The pipeline runs its clients as they are.                              *)

LEMMA PipelineStepsGit ==
    ASSUME [PipelineNext]_pipelineVars
    PROVE  [GitNext]_gitVars
<1>1. ASSUME NEW q \in Requests, Commit(q) \/ CallerStep(q)
      PROVE  GitNext
    BY <1>1, PipelineAssumption DEF Commit, CallerStep, GitNext
<1>2. CASE GitStep
    BY <1>2, PipelineAssumption DEF GitStep, GitNext
<1>3. ASSUME NEW q \in Requests, NEW draft, RefuseBody(q, draft) \/ Submit(q, draft)
      PROVE  UNCHANGED gitVars
    BY <1>3 DEF RefuseBody, Submit
<1>4. ASSUME NEW q \in Requests, RaiseError(q) \/ Refuse(q) \/ ClaimRefused(q) \/ Finish(q)
      PROVE  UNCHANGED gitVars
    BY <1>4 DEF RaiseError, Refuse, ClaimRefused, Finish
<1>5. CASE ResolverStep \/ RegistryStep \/ UNCHANGED pipelineVars
    BY <1>5 DEF ResolverStep, RegistryStep, pipelineVars
<1> QED BY <1>1, <1>2, <1>3, <1>4, <1>5 DEF PipelineNext

LEMMA PipelineStepsRegistry ==
    ASSUME [PipelineNext]_pipelineVars
    PROVE  [RegistryNext]_registryVars
<1>1. CASE RegistryStep
    BY <1>1 DEF RegistryStep, RegistryNext
<1>2. ASSUME NEW q \in Requests, NEW draft, RefuseBody(q, draft) \/ Submit(q, draft)
      PROVE  UNCHANGED registryVars
    BY <1>2 DEF RefuseBody, Submit
<1>3. ASSUME NEW q \in Requests,
             \/ RaiseError(q) \/ Refuse(q) \/ ClaimRefused(q) \/ Commit(q)
             \/ Finish(q) \/ CallerStep(q)
      PROVE  UNCHANGED registryVars
    BY <1>3 DEF RaiseError, Refuse, ClaimRefused, Commit, Finish, CallerStep
<1>4. CASE ResolverStep \/ GitStep \/ UNCHANGED pipelineVars
    BY <1>4 DEF ResolverStep, GitStep, pipelineVars
<1> QED BY <1>1, <1>2, <1>3, <1>4 DEF PipelineNext

\* Every behaviour of the pipeline is one of the git client and one of the
\* registry client: what is proved of them alone holds when authoring calls them.
THEOREM PipelineRunsClients == PipelineSpec => GitSpec /\ RegistrySpec
<1>1. PipelineInit => GitInit /\ RegistryInit
    BY DEF PipelineInit
<1> QED BY <1>1, PipelineStepsGit, PipelineStepsRegistry, PTL
        DEF PipelineSpec, GitSpec, RegistrySpec

\* In the pipeline too, a read that sees the branch is never behind a commit
\* that had returned before it began (read_script under get_automation).
THEOREM PipelineReads == PipelineSpec => []ReadsWhatWasCommitted
BY PipelineRunsClients, ReadsCommitted, PTL

\* In the pipeline too, no call lands twice and a returned SHA is the call's own.
THEOREM PipelineKeepsContract == PipelineSpec => ImplementsScriptRepo
BY PipelineRunsClients, ClientKeepsContract, PTL

\* Step 3 vouches truthfully, whatever the pipelines push while it reclaims.
THEOREM PipelineEmptied == PipelineSpec => EmptiedMeansEmpty
BY PipelineRunsClients, EmptiedIsEmpty, PTL

----------------------------------------------------------------------------
(* The requests.                                                           *)

\* A request is where it stands, a body and whatever errors were found.
RequestTyped(r) == r \in [pc : RequestPcs, draft : Bodies, errors : {r.errors}]

RequestsTyped ==
    /\ request = [q \in Requests |-> request[q]]
    /\ \A q \in Requests : RequestTyped(request[q])

\* What was returned to a caller is on the branch, also when the connection of
\* its worker breaks afterwards.
ReturnedLanded == \A c \in Calls : call[c].pc = "returned" => Landed(c)

AcceptedReturned ==
    \A q \in Requests : request[q].pc = "accepted" => call[q].pc = "returned"

PipelineInv ==
    /\ GitInv /\ RegistryTypeOK /\ ResolverTypeOK /\ RequestsTyped
    /\ ReturnedLanded /\ AcceptedReturned

\* The other requests stay where they are.
LEMMA OneRequestMoves ==
    ASSUME RequestsTyped, NEW q \in Requests, NEW r, RequestTyped(r),
           request' = [request EXCEPT ![q] = r]
    PROVE  /\ RequestsTyped'
           /\ request'[q] = r
           /\ \A p \in Requests : p # q => request'[p] = request[p]
<1>1. /\ request' = [p \in Requests |-> IF p = q THEN r ELSE request[p]]
    BY DEF RequestsTyped
<1>2. /\ request'[q] = r
      /\ \A p \in Requests : p # q => request'[p] = request[p]
    BY <1>1
<1>3. request' = [p \in Requests |-> request'[p]]
    BY <1>1
<1>4. \A p \in Requests : RequestTyped(request'[p])
    BY <1>2 DEF RequestsTyped
<1>5. (\A p \in Requests : RequestTyped(request[p]))'
    BY <1>4 DEF RequestTyped
<1> QED BY <1>2, <1>3, <1>5 DEF RequestsTyped

\* How a commit may end, and that success is one of the ends only after a return.
LEMMA EndingsAre ==
    ASSUME NEW q, NEW pc \in Endings(q)
    PROVE  /\ pc \in {"accepted", "conflict", "unavailable", "error"}
           /\ pc = "accepted" => call[q].pc = "returned"
<1>1. CASE call[q].pc # "returned"
    BY <1>1 DEF Endings
<1>2. CASE call[q].pc = "returned" /\ q = Post
    BY <1>2 DEF Endings
<1>3. CASE call[q].pc = "returned" /\ q # Post
    BY <1>3 DEF Endings
<1> QED BY <1>1, <1>2, <1>3

\* A request is answered "accepted" only when its commit has returned.
LEMMA RequestAnswered ==
    ASSUME PipelineInv, [PipelineNext]_pipelineVars
    PROVE  /\ RequestsTyped'
           /\ \A q \in Requests : request'[q].pc = "accepted" =>
                  request[q].pc = "accepted" \/ call[q].pc = "returned"
<1>0. RequestsTyped
    BY DEF PipelineInv
<1> DEFINE Moves(q, r) ==
        /\ RequestTyped(r)
        /\ r.pc = "accepted" => call[q].pc = "returned"
        /\ request' = [request EXCEPT ![q] = r]
<1>a. ASSUME NEW q \in Requests, NEW r, Moves(q, r)
      PROVE  /\ RequestsTyped'
             /\ \A p \in Requests : request'[p].pc = "accepted" =>
                    request[p].pc = "accepted" \/ call[p].pc = "returned"
    BY <1>0, <1>a, OneRequestMoves
<1> HIDE DEF Moves
<1>b. \A q \in Requests : \A draft \in Drafts[q] : draft \in Bodies
    BY DEF Bodies
<1>1. ASSUME NEW q \in Requests, NEW draft \in Drafts[q], RefuseBody(q, draft)
      PROVE  \E r : Moves(q, r)
  <2> DEFINE r == [pc |-> "refused", draft |-> draft,
                   errors |-> {Error("script", 0, "invalid_value")}]
  <2>1. request' = [request EXCEPT ![q] = r]
      BY <1>1 DEF RefuseBody
  <2>2. RequestTyped(r) /\ r.pc = "refused"
      BY <1>b DEF RequestTyped, RequestPcs
  <2> QED BY <2>1, <2>2 DEF Moves
<1>2. ASSUME NEW q \in Requests, NEW draft \in Drafts[q], Submit(q, draft)
      PROVE  \E r : Moves(q, r)
  <2> DEFINE r == [pc |-> "validating", draft |-> draft, errors |-> {}]
  <2>1. request' = [request EXCEPT ![q] = r]
      BY <1>2 DEF Submit
  <2>2. RequestTyped(r) /\ r.pc = "validating"
      BY <1>b DEF RequestTyped, RequestPcs
  <2> QED BY <2>1, <2>2 DEF Moves
<1>3. ASSUME NEW q \in Requests, Refuse(q)
      PROVE  \E r : Moves(q, r)
  <2>1. PICK found : found = Errors(q)
      OBVIOUS
  <2> DEFINE r == [request[q] EXCEPT !.pc = "refused", !.errors = found]
  <2>2. request' = [request EXCEPT ![q].pc = "refused", ![q].errors = found]
      BY <1>3, <2>1 DEF Refuse
  <2>3. RequestTyped(request[q])
      BY <1>0 DEF RequestsTyped
  <2>4. request' = [request EXCEPT ![q] = r]
      BY <1>0, <2>2, <2>3 DEF RequestsTyped, RequestTyped
  <2>5. RequestTyped(r) /\ r.pc = "refused"
      BY <2>3 DEF RequestTyped, RequestPcs
  <2> QED BY <2>4, <2>5 DEF Moves
<1>4. ASSUME NEW q \in Requests, NEW pc \in RequestPcs, Answers(q, pc),
             pc = "accepted" => call[q].pc = "returned"
      PROVE  \E r : Moves(q, r)
  <2>0. NULL \in Bodies
      BY DEF Bodies
  <2>1. RequestTyped(At(pc)) /\ At(pc).pc = pc
      BY <2>0 DEF RequestTyped, At
  <2> QED BY <1>4, <2>1 DEF Moves, Answers
<1>5. ASSUME NEW q \in Requests,
             RaiseError(q) \/ ClaimRefused(q) \/ Commit(q) \/ Finish(q)
      PROVE  \E r : Moves(q, r)
  <2>1. CASE RaiseError(q) \/ ClaimRefused(q) \/ Commit(q)
      BY <1>4, <2>1 DEF RaiseError, ClaimRefused, Commit, RequestPcs
  <2>2. CASE Finish(q)
    <3>1. PICK pc \in Endings(q) : Answers(q, pc)
        BY <2>2 DEF Finish
    <3>2. pc \in RequestPcs /\ (pc = "accepted" => call[q].pc = "returned")
        BY EndingsAre DEF RequestPcs
    <3> QED BY <1>4, <3>1, <3>2
  <2> QED BY <1>5, <2>1, <2>2
<1>6. ASSUME UNCHANGED request
      PROVE  /\ RequestsTyped'
             /\ \A p \in Requests : request'[p].pc = "accepted" =>
                    request[p].pc = "accepted" \/ call[p].pc = "returned"
    BY <1>0, <1>6 DEF RequestsTyped, RequestTyped
<1>7. ASSUME \/ \E q \in Requests : CallerStep(q)
             \/ ResolverStep \/ GitStep \/ RegistryStep \/ UNCHANGED pipelineVars
      PROVE  UNCHANGED request
    BY <1>7 DEF CallerStep, ResolverStep, GitStep, RegistryStep, pipelineVars
<1> QED BY <1>a, <1>1, <1>2, <1>3, <1>5, <1>6, <1>7 DEF PipelineNext

\* No commit that was returned is taken back: the branch only grows, and a call
\* that has returned takes no further step.
LEMMA ReturnedStays ==
    ASSUME GitInv, ReturnedLanded, [GitNext]_gitVars
    PROVE  /\ ReturnedLanded'
           /\ \A c \in Calls : call[c].pc = "returned" => call'[c].pc = "returned"
<1>0. call \in [Calls -> CallStates] /\ branch \in Seq(Calls)
    BY DEF GitInv, GitTypeOK
<1>1. \A c \in Calls : Landed(c) => Landed(c)'
  <2>1. CASE UNCHANGED branch
      BY <2>1 DEF Landed
  <2>2. ASSUME NEW d \in Calls, branch' = Append(branch, d)
        PROVE  \A c \in Calls : Landed(c) => Landed(c)'
      BY <1>0, <2>2, AppendBranch DEF Landed
  <2>3. UNCHANGED branch \/ \E d \in Calls : branch' = Append(branch, d)
      BY DEF GitNext, commit_script, FallBackToCreate, CommitReturns, CommitRaises,
             BoundExpires, GitlabFindsNoFile, GitlabApplies, GitlabFails, read_script,
             ReadAnswers, ReadFails, gitVars
  <2> QED BY <2>1, <2>2, <2>3
<1>2. ASSUME NEW c \in Calls, CommitReturns(c)
      PROVE  /\ Landed(c) /\ call[c].pc # "returned"
             /\ \A d \in Calls : d # c => call'[d] = call[d]
             /\ call'[c].pc = "returned"
  <2>1. Landed(c)
      BY <1>2 DEF CommitReturns, Waiting, Request, GitInv, AppliedIsOwn, Landed
  <2> QED BY <1>0, <1>2, <2>1 DEF CommitReturns, Waiting, CommitActions, CallStates
<1>3. ASSUME NEW c \in Calls, NEW p \in Pcs \ {"returned"}, call[c].pc # "returned",
             call' = [call EXCEPT ![c].pc = p]
      PROVE  \A d \in Calls : call'[d].pc = "returned" <=> call[d].pc = "returned"
    BY <1>0, <1>3, PcMoves DEF Pcs
<1>4. ASSUME NEW c \in Calls,
             \/ commit_script(c) \/ FallBackToCreate(c) \/ CommitRaises(c)
             \/ BoundExpires(c)
      PROVE  \A d \in Calls : call'[d].pc = "returned" <=> call[d].pc = "returned"
    BY <1>3, <1>4 DEF commit_script, FallBackToCreate, CommitRaises, BoundExpires, Sends,
                      Waiting, CommitActions, Pcs
<1>5. ASSUME UNCHANGED call
      PROVE  \A d \in Calls : call'[d].pc = "returned" <=> call[d].pc = "returned"
    BY <1>5
<1>6. ASSUME \/ \E c \in Calls : \/ GitlabFindsNoFile(c)
                                 \/ \E a \in CommitActions :
                                       GitlabApplies(c, a) \/ GitlabFails(c, a)
             \/ read_script \/ (\E visible \in BOOLEAN : ReadAnswers(visible))
             \/ ReadFails \/ UNCHANGED gitVars
      PROVE  UNCHANGED call
    BY <1>6 DEF GitlabFindsNoFile, GitlabApplies, GitlabFails, read_script, ReadAnswers,
                ReadFails, gitVars
<1>7. \A d \in Calls :
         /\ call[d].pc = "returned" => call'[d].pc = "returned"
         /\ call'[d].pc = "returned" => call[d].pc = "returned" \/ Landed(d)
  <2>1. CASE \E c \in Calls : CommitReturns(c)
      BY <1>2, <2>1
  <2>2. CASE ~\E c \in Calls : CommitReturns(c)
      BY <1>4, <1>5, <1>6, <2>2 DEF GitNext
  <2> QED BY <2>1, <2>2
<1>8. ReturnedLanded'
    BY <1>1, <1>7 DEF ReturnedLanded
<1> QED BY <1>7, <1>8

\* The lookup and its worker.
LEMMA LookupsKept ==
    ASSUME ResolverTypeOK, [PipelineNext]_pipelineVars
    PROVE  ResolverTypeOK'
<1>0. lookups \in [Requests -> LookupStates]
    BY DEF ResolverTypeOK
<1>1. ASSUME NEW q \in Requests, StartLookup(q) \/ LookupExpires(q)
      PROVE  ResolverTypeOK'
    BY <1>0, <1>1 DEF StartLookup, LookupExpires, LookupStates, ResolverTypeOK
<1>2. ASSUME NEW q \in Requests, NEW l \in Lookups, GetaddrinfoReturns(q, l)
      PROVE  ResolverTypeOK'
    BY <1>0, <1>2 DEF GetaddrinfoReturns, LookupStates, ResolverTypeOK
<1>3. ASSUME NEW q \in Requests, NEW l \in LookupStates,
             lookups' = [lookups EXCEPT ![q] = l]
      PROVE  ResolverTypeOK'
    BY <1>0, <1>3 DEF ResolverTypeOK
<1>4. ASSUME NEW q \in Requests, LookupInTime(q) \/ LookupJoined(q)
      PROVE  ResolverTypeOK'
  <2>1. PICK l \in {lookups[q].worker, TimedOut} :
            lookups' = [lookups EXCEPT ![q] = [pc |-> "done", worker |-> NULL,
                                               answer |-> l]]
      BY <1>4 DEF LookupInTime, LookupJoined
  <2>2. [pc |-> "done", worker |-> NULL, answer |-> l] \in LookupStates
      BY <1>0 DEF LookupStates
  <2> QED BY <1>3, <2>1, <2>2
<1>5. ASSUME NEW q \in Requests, Judged(q)
      PROVE  ResolverTypeOK'
  <2>1. NoLookup \in LookupStates
      BY DEF NoLookup, LookupStates
  <2> QED BY <1>3, <1>5, <2>1 DEF Judged
<1>6. ASSUME UNCHANGED lookups
      PROVE  ResolverTypeOK'
    BY <1>6 DEF ResolverTypeOK
<1>7. ASSUME NEW q \in Requests, NEW draft, RefuseBody(q, draft) \/ Submit(q, draft)
      PROVE  ResolverTypeOK'
    BY <1>1, <1>6, <1>7 DEF RefuseBody, Submit
<1>8. ASSUME NEW q \in Requests,
             \/ RaiseError(q) \/ Refuse(q) \/ ClaimRefused(q) \/ Commit(q)
             \/ Finish(q) \/ CallerStep(q)
      PROVE  ResolverTypeOK'
    BY <1>5, <1>6, <1>8 DEF RaiseError, Refuse, ClaimRefused, Commit, Finish, CallerStep
<1>9. CASE ResolverStep
    BY <1>1, <1>2, <1>4, <1>9 DEF ResolverStep
<1>10. CASE GitStep \/ RegistryStep \/ UNCHANGED pipelineVars
    BY <1>6, <1>10 DEF GitStep, RegistryStep, pipelineVars
<1> QED BY <1>7, <1>8, <1>9, <1>10 DEF PipelineNext

\* The invariant of the pipeline: the clients' own, the types, and what an
\* accepted request stands for.
THEOREM PipelineInductive == PipelineSpec => []PipelineInv
<1>1. PipelineInit => PipelineInv
  <2> SUFFICES ASSUME PipelineInit PROVE PipelineInv
      OBVIOUS
  <2>1. GitInv
      BY GitInvInit DEF PipelineInit
  <2>2. RegistryTypeOK
      BY DEF PipelineInit, RegistryInit, RegistryTypeOK, ReclaimStates
  <2>3. ResolverTypeOK
      BY DEF PipelineInit, ResolverInit, ResolverTypeOK, NoLookup, LookupStates
  <2>4. RequestTyped(At("idle")) /\ At("idle").pc = "idle"
    <3>1. NULL \in Bodies
        BY DEF Bodies
    <3> QED BY <3>1 DEF At, RequestTyped, RequestPcs
  <2>5. request = [q \in Requests |-> At("idle")]
      BY DEF PipelineInit
  <2>6. RequestsTyped /\ AcceptedReturned
      BY <2>4, <2>5 DEF RequestsTyped, AcceptedReturned
  <2>7. ReturnedLanded
      BY DEF PipelineInit, GitInit, ReturnedLanded
  <2> QED BY <2>1, <2>2, <2>3, <2>6, <2>7 DEF PipelineInv
<1>2. PipelineInv /\ [PipelineNext]_pipelineVars => PipelineInv'
  <2> SUFFICES ASSUME PipelineInv, [PipelineNext]_pipelineVars PROVE PipelineInv'
      OBVIOUS
  <2>1. GitInv' /\ RegistryTypeOK'
      BY PipelineStepsGit, PipelineStepsRegistry, GitInvNext, RegistryStepTypes
         DEF PipelineInv
  <2>2. ResolverTypeOK' /\ RequestsTyped'
      BY LookupsKept, RequestAnswered DEF PipelineInv
  <2>3. ReturnedLanded'
      BY PipelineStepsGit, ReturnedStays DEF PipelineInv
  <2>4. AcceptedReturned'
      BY PipelineStepsGit, ReturnedStays, RequestAnswered, PipelineAssumption
         DEF PipelineInv, AcceptedReturned
  <2> QED BY <2>1, <2>2, <2>3, <2>4 DEF PipelineInv
<1> QED BY <1>1, <1>2, PTL DEF PipelineSpec

\* Every request, lookup, call and entry keeps its type, for any requests and
\* any bodies they carry.
THEOREM PipelineTypes == PipelineSpec => []TypeOK
<1>1. PipelineInv => TypeOK
  <2> SUFFICES ASSUME PipelineInv PROVE TypeOK
      OBVIOUS
  <2>1. \A q \in Requests : request[q].pc \in RequestPcs /\ request[q].draft \in Bodies
      BY DEF PipelineInv, RequestsTyped, RequestTyped
  <2> QED BY <2>1 DEF PipelineInv, TypeOK, GitInv
<1> QED BY <1>1, PipelineInductive, PTL

\* A POST or PUT that was answered with success has its script on the branch,
\* whatever update, create or abandoned request of any call lands or fails.
THEOREM AcceptedLanded == PipelineSpec => []AcceptedIsLanded
<1>1. PipelineInv => AcceptedIsLanded
    BY PipelineAssumption
       DEF PipelineInv, AcceptedReturned, ReturnedLanded, AcceptedIsLanded
<1> QED BY <1>1, PipelineInductive, PTL

----------------------------------------------------------------------------
(* What a request is answered.                                             *)

\* A request that is being validated has the body it came with, and a lookup
\* under way or answered when its rules come to need one.
Looked(l) == l.pc # "idle" /\ (l.pc = "done" => l.answer \in Lookups \cup {TimedOut})

LookupReady(q) ==
    request[q].pc = "validating" =>
        /\ request[q].draft \in Drafts[q]
        /\ (/\ NeedsLookup(request[q].draft.logstash_url)
            /\ ~TriggersRaise(request[q].draft.triggers)) => Looked(lookups[q])

LookupsFollow == \A q \in Requests : LookupReady(q)

LEMMA LookupsFollowStep ==
    ASSUME ResolverTypeOK, RequestsTyped, LookupsFollow, [PipelineNext]_pipelineVars
    PROVE  LookupsFollow'
<1>0. /\ lookups \in [Requests -> LookupStates]
      /\ request = [q \in Requests |-> request[q]]
      /\ \A q \in Requests : LookupReady(q)
    BY DEF ResolverTypeOK, RequestsTyped, LookupsFollow
<1>a. ASSUME NEW q \in Requests, LookupReady(q)',
             \A p \in Requests : p # q => request'[p] = request[p] /\ lookups'[p] = lookups[p]
      PROVE  LookupsFollow'
  <2>1. ASSUME NEW p \in Requests, p # q
        PROVE  LookupReady(p)'
      BY <1>0, <1>a, <2>1 DEF LookupReady
  <2> QED BY <1>a, <2>1 DEF LookupsFollow
<1>1. ASSUME NEW q \in Requests, NEW draft \in Drafts[q], RefuseBody(q, draft)
      PROVE  LookupsFollow'
  <2>1. PICK r : r.pc = "refused" /\ request' = [request EXCEPT ![q] = r]
      BY <1>1 DEF RefuseBody
  <2>2. /\ request'[q].pc = "refused" /\ UNCHANGED lookups
        /\ \A p \in Requests : p # q => request'[p] = request[p]
      BY <1>0, <1>1, <2>1 DEF RefuseBody
  <2> QED BY <1>a, <2>2 DEF LookupReady
<1>2. ASSUME NEW q \in Requests, NEW draft \in Drafts[q], Submit(q, draft)
      PROVE  LookupsFollow'
  <2>1. /\ request'[q] = [pc |-> "validating", draft |-> draft, errors |-> {}]
        /\ \A p \in Requests : p # q => request'[p] = request[p]
      BY <1>0, <1>2 DEF Submit
  <2>2. /\ (NeedsLookup(draft.logstash_url) /\ ~TriggersRaise(draft.triggers))
              => lookups'[q].pc = "waiting"
        /\ \A p \in Requests : p # q => lookups'[p] = lookups[p]
      BY <1>0, <1>2 DEF Submit, StartLookup, LookupStates
  <2>3. LookupReady(q)'
      BY <2>1, <2>2 DEF LookupReady, Looked
  <2> QED BY <1>a, <2>1, <2>2, <2>3
<1>3. ASSUME NEW q \in Requests,
             RaiseError(q) \/ Refuse(q) \/ ClaimRefused(q) \/ Commit(q) \/ Finish(q)
      PROVE  LookupsFollow'
  <2>1. \A p \in Requests : p # q => lookups'[p] = lookups[p]
      BY <1>0, <1>3 DEF RaiseError, Refuse, ClaimRefused, Commit, Finish, Judged
  <2>2. /\ request'[q].pc # "validating"
        /\ \A p \in Requests : p # q => request'[p] = request[p]
    <3>1. CASE Refuse(q)
      <4>1. PICK found : request' = [request EXCEPT ![q].pc = "refused", ![q].errors = found]
          BY <3>1 DEF Refuse
      <4>2. RequestTyped(request[q])
          BY DEF RequestsTyped
      <4> QED BY <1>0, <4>1, <4>2 DEF RequestTyped
    <3>2. ASSUME NEW pc \in RequestPcs \ {"validating"}, Answers(q, pc)
          PROVE  /\ request'[q].pc # "validating"
                 /\ \A p \in Requests : p # q => request'[p] = request[p]
      <4>1. request'[q] = At(pc) /\ \A p \in Requests : p # q => request'[p] = request[p]
          BY <1>0, <3>2 DEF Answers
      <4> QED BY <4>1 DEF At
    <3>3. CASE RaiseError(q) \/ ClaimRefused(q) \/ Commit(q)
        BY <3>2, <3>3 DEF RaiseError, ClaimRefused, Commit, RequestPcs
    <3>4. CASE Finish(q)
      <4>1. PICK pc \in Endings(q) : Answers(q, pc)
          BY <3>4 DEF Finish
      <4>2. pc \in {"accepted", "conflict", "unavailable", "error"}
          BY EndingsAre
      <4> QED BY <3>2, <4>1, <4>2 DEF RequestPcs
    <3> QED BY <1>3, <3>1, <3>3, <3>4
  <2>3. LookupReady(q)'
      BY <2>2 DEF LookupReady
  <2> QED BY <1>a, <2>1, <2>2, <2>3
<1>4. ASSUME NEW q \in Requests, UNCHANGED request,
             \A p \in Requests : p # q => lookups'[p] = lookups[p],
             Looked(lookups[q]) => Looked(lookups[q])'
      PROVE  LookupsFollow'
    BY <1>0, <1>4, <1>a DEF LookupReady
<1>5. CASE ResolverStep
  <2>1. PICK q \in Requests :
            \/ \E l \in Lookups : GetaddrinfoReturns(q, l)
            \/ LookupInTime(q) \/ LookupExpires(q) \/ LookupJoined(q)
      BY <1>5 DEF ResolverStep
  <2>2. ASSUME NEW l \in Lookups, GetaddrinfoReturns(q, l)
        PROVE  /\ \A p \in Requests : p # q => lookups'[p] = lookups[p]
               /\ Looked(lookups[q])'
      BY <1>0, <2>2 DEF GetaddrinfoReturns, Resolving, Looked, LookupStates
  <2>3. CASE LookupExpires(q)
    <3>1. /\ \A p \in Requests : p # q => lookups'[p] = lookups[p]
          /\ Looked(lookups[q])'
        BY <1>0, <2>3 DEF LookupExpires, Looked, LookupStates
    <3> QED BY <1>4, <1>5, <3>1 DEF ResolverStep
  <2>4. CASE LookupInTime(q) \/ LookupJoined(q)
    <3>1. PICK l \in Lookups \cup {TimedOut} :
              lookups' = [lookups EXCEPT ![q] = [pc |-> "done", worker |-> NULL,
                                                 answer |-> l]]
        BY <1>0, <2>4 DEF LookupInTime, LookupJoined, LookupStates
    <3>2. lookups'[q] = [pc |-> "done", worker |-> NULL, answer |-> l]
          /\ \A p \in Requests : p # q => lookups'[p] = lookups[p]
        BY <1>0, <3>1
    <3>3. Looked(lookups[q])'
        BY <3>2 DEF Looked
    <3> QED BY <1>4, <1>5, <3>2, <3>3 DEF ResolverStep
  <2> QED BY <1>4, <1>5, <2>1, <2>2, <2>3, <2>4 DEF ResolverStep
<1>6. ASSUME \/ \E q \in Requests : CallerStep(q)
             \/ GitStep \/ RegistryStep \/ UNCHANGED pipelineVars
      PROVE  UNCHANGED <<request, lookups>>
    BY <1>6 DEF CallerStep, GitStep, RegistryStep, pipelineVars
<1>7. ASSUME UNCHANGED <<request, lookups>>
      PROVE  LookupsFollow'
    BY <1>0, <1>7 DEF LookupsFollow, LookupReady, Looked
<1> QED BY <1>1, <1>2, <1>3, <1>5, <1>6, <1>7 DEF PipelineNext

\* An answer with errors is the byte cap's alone or all that the rules found in
\* the request's own body; no other request has errors.
Answered(q) ==
    IF request[q].pc # "refused" THEN request[q].errors = {}
    ELSE /\ request[q].draft \in Drafts[q]
         /\ \/ /\ request[q].draft.script.large
               /\ request[q].errors = {Error("script", 0, "invalid_value")}
            \/ \E lookup : request[q].errors = validate_automation(request[q].draft, lookup)

AllAnswered == \A q \in Requests : Answered(q)

LEMMA AllAnsweredStep ==
    ASSUME RequestsTyped, LookupsFollow, AllAnswered, [PipelineNext]_pipelineVars
    PROVE  AllAnswered'
<1>0. /\ request = [q \in Requests |-> request[q]]
      /\ \A q \in Requests : RequestTyped(request[q]) /\ Answered(q)
    BY DEF RequestsTyped, AllAnswered
<1>a. ASSUME NEW q \in Requests, Answered(q)',
             \A p \in Requests : p # q => request'[p] = request[p]
      PROVE  AllAnswered'
  <2>1. ASSUME NEW p \in Requests, p # q
        PROVE  Answered(p)'
      BY <1>0, <1>a, <2>1 DEF Answered
  <2> QED BY <1>a, <2>1 DEF AllAnswered
<1>1. ASSUME NEW q \in Requests, NEW draft \in Drafts[q], RefuseBody(q, draft)
      PROVE  AllAnswered'
  <2>1. /\ draft.script.large
        /\ request'[q] = [pc |-> "refused", draft |-> draft,
                          errors |-> {Error("script", 0, "invalid_value")}]
        /\ \A p \in Requests : p # q => request'[p] = request[p]
      BY <1>0, <1>1 DEF RefuseBody
  <2>2. request'[q].pc = "refused" /\ request'[q].draft = draft
        /\ request'[q].errors = {Error("script", 0, "invalid_value")}
      BY <2>1
  <2> QED BY <1>a, <2>1, <2>2 DEF Answered
<1>2. ASSUME NEW q \in Requests, NEW draft \in Drafts[q], Submit(q, draft)
      PROVE  AllAnswered'
  <2>1. /\ request'[q] = [pc |-> "validating", draft |-> draft, errors |-> {}]
        /\ \A p \in Requests : p # q => request'[p] = request[p]
      BY <1>0, <1>2 DEF Submit
  <2>2. request'[q].pc = "validating" /\ request'[q].errors = {}
      BY <2>1
  <2> QED BY <1>a, <2>1, <2>2 DEF Answered
<1>3. ASSUME NEW q \in Requests, Refuse(q)
      PROVE  AllAnswered'
  <2>1. PICK lookup : lookup = lookups[q].answer
      OBVIOUS
  <2>2. PICK draft : draft = request[q].draft
      OBVIOUS
  <2>3. PICK found : found = validate_automation(draft, lookup)
      OBVIOUS
  <2>4. request' = [request EXCEPT ![q].pc = "refused", ![q].errors = found]
      BY <1>3, <2>1, <2>2, <2>3 DEF Refuse, Errors
  <2>5. draft \in Drafts[q]
      BY <1>3, <2>2 DEF Refuse, Judged, LookupsFollow, LookupReady
  <2>6. /\ request'[q].pc = "refused" /\ request'[q].errors = found
        /\ request'[q].draft = draft
        /\ \A p \in Requests : p # q => request'[p] = request[p]
      BY <1>0, <2>2, <2>4 DEF RequestTyped
  <2>7. Answered(q)'
      BY <2>3, <2>5, <2>6 DEF Answered
  <2> QED BY <1>a, <2>6, <2>7
<1>4. ASSUME NEW q \in Requests, NEW pc \in RequestPcs \ {"refused"}, Answers(q, pc)
      PROVE  AllAnswered'
  <2>1. request'[q] = At(pc) /\ \A p \in Requests : p # q => request'[p] = request[p]
      BY <1>0, <1>4 DEF Answers
  <2>2. request'[q].pc = pc /\ request'[q].errors = {}
      BY <2>1 DEF At
  <2> QED BY <1>a, <2>1, <2>2 DEF Answered
<1>5. ASSUME NEW q \in Requests, RaiseError(q) \/ ClaimRefused(q) \/ Commit(q)
      PROVE  AllAnswered'
    BY <1>4, <1>5 DEF RaiseError, ClaimRefused, Commit, RequestPcs
<1>6. ASSUME NEW q \in Requests, Finish(q)
      PROVE  AllAnswered'
  <2>1. PICK pc \in Endings(q) : Answers(q, pc)
      BY <1>6 DEF Finish
  <2>2. pc \in {"accepted", "conflict", "unavailable", "error"}
      BY EndingsAre
  <2> QED BY <1>4, <2>1, <2>2 DEF RequestPcs
<1>7. ASSUME \/ \E q \in Requests : CallerStep(q)
             \/ ResolverStep \/ GitStep \/ RegistryStep \/ UNCHANGED pipelineVars
      PROVE  AllAnswered'
  <2>1. UNCHANGED request
      BY <1>7 DEF CallerStep, ResolverStep, GitStep, RegistryStep, pipelineVars
  <2> QED BY <1>0, <2>1 DEF AllAnswered, Answered
<1> QED BY <1>1, <1>2, <1>3, <1>5, <1>6, <1>7 DEF PipelineNext

\* A request that is being validated has its own body, and an answer is the
\* verdict on it.
LEMMA AnsweredInductive == PipelineSpec => [](LookupsFollow /\ AllAnswered)
<1>1. PipelineInit => LookupsFollow /\ AllAnswered
  <2> SUFFICES ASSUME PipelineInit, NEW q \in Requests PROVE LookupReady(q) /\ Answered(q)
      BY DEF LookupsFollow, AllAnswered
  <2>1. request[q] = At("idle")
      BY DEF PipelineInit
  <2> QED BY <2>1 DEF LookupReady, Answered, At
<1>2. PipelineInv /\ LookupsFollow /\ AllAnswered /\ [PipelineNext]_pipelineVars
         => (LookupsFollow /\ AllAnswered)'
    BY LookupsFollowStep, AllAnsweredStep DEF PipelineInv
<1> QED BY <1>1, <1>2, PipelineInductive, PTL DEF PipelineSpec

\* What the rules are given when they run to their end.
LEMMA JudgedInputs ==
    ASSUME \A q \in Requests : \A d \in Drafts[q] : DraftTyped(d),
           \A l \in Lookups : l.addresses \subseteq Addresses,
           ResolverTypeOK, LookupsFollow,
           NEW q \in Requests, Judged(q), ~Raises(q)
    PROVE  /\ DraftTyped(request[q].draft)
           /\ ~ValidationRaises(request[q].draft, lookups[q].answer)
           /\ request[q].draft.logstash_url = "https" =>
                  lookups[q].answer.addresses \subseteq Addresses
<1>0. ~ValidationRaises(request[q].draft, lookups[q].answer)
    BY DEF Raises
<1>1. /\ request[q].pc = "validating" /\ request[q].draft \in Drafts[q]
      /\ request[q].draft.logstash_url = "https" => Looked(lookups[q])
    BY <1>0 DEF Judged, LookupsFollow, LookupReady, NeedsLookup, ValidationRaises
<1>2. lookups[q].pc \in {"idle", "done"}
    BY DEF Judged, Resolving, ResolverTypeOK, LookupStates
<1>3. request[q].draft.logstash_url = "https" =>
          lookups[q].answer \in Lookups \cup {TimedOut}
    BY <1>1, <1>2 DEF Looked
<1>4. TimedOut.addresses \subseteq Addresses
    BY DEF TimedOut
<1>5. request[q].draft.logstash_url = "https" =>
          lookups[q].answer.addresses \subseteq Addresses
    BY <1>3, <1>4
<1> QED BY <1>0, <1>1, <1>5

\* How a request leaves its validation.
LEMMA Verdict ==
    ASSUME RequestsTyped, PipelineNext, NEW q \in Requests,
           request[q].pc = "validating", request'[q].pc # "validating"
    PROVE  \/ /\ Judged(q) /\ ~Raises(q) /\ Errors(q) # {}
              /\ request'[q].pc = "refused" /\ request'[q].errors = Errors(q)
           \/ Judged(q) /\ ~Raises(q) /\ Errors(q) = {} /\ request'[q].pc # "refused"
           \/ Raises(q) /\ request'[q].pc = "error"
<1>0. request = [p \in Requests |-> request[p]]
    BY DEF RequestsTyped
<1>1. ASSUME NEW p \in Requests, NEW draft,
             RefuseBody(p, draft) \/ Submit(p, draft)
      PROVE  FALSE
  <2>1. p # q
      BY <1>1 DEF RefuseBody, Submit
  <2>2. request'[q] = request[q]
      BY <1>0, <1>1, <2>1 DEF RefuseBody, Submit
  <2> QED BY <2>2
<1>2. ASSUME NEW p \in Requests, Finish(p)
      PROVE  FALSE
  <2>1. p # q /\ \E pc : Answers(p, pc)
      BY <1>2 DEF Finish
  <2>2. request'[q] = request[q]
      BY <1>0, <2>1 DEF Answers
  <2> QED BY <2>2
<1>3. ASSUME NEW p \in Requests,
             RaiseError(p) \/ Refuse(p) \/ ClaimRefused(p) \/ Commit(p)
      PROVE  p = q
  <2>1. SUFFICES ASSUME p # q PROVE request'[q] = request[q]
      OBVIOUS
  <2>2. CASE Refuse(p)
      BY <1>0, <2>1, <2>2 DEF Refuse
  <2>3. CASE RaiseError(p) \/ ClaimRefused(p) \/ Commit(p)
    <3>1. PICK pc : Answers(p, pc)
        BY <2>3 DEF RaiseError, ClaimRefused, Commit
    <3> QED BY <1>0, <2>1, <3>1 DEF Answers
  <2> QED BY <1>3, <2>2, <2>3
<1>4. ASSUME Refuse(q)
      PROVE  /\ Judged(q) /\ ~Raises(q) /\ Errors(q) # {}
             /\ request'[q].pc = "refused" /\ request'[q].errors = Errors(q)
  <2>1. PICK found : found = Errors(q)
      OBVIOUS
  <2>2. request' = [request EXCEPT ![q].pc = "refused", ![q].errors = found]
      BY <1>4, <2>1 DEF Refuse
  <2>3. RequestTyped(request[q])
      BY DEF RequestsTyped
  <2>4. request'[q].pc = "refused" /\ request'[q].errors = found
      BY <1>0, <2>2, <2>3 DEF RequestTyped
  <2> QED BY <1>4, <2>1, <2>4 DEF Refuse
<1>5. ASSUME NEW pc, Answers(q, pc)
      PROVE  request'[q].pc = pc
  <2>1. request'[q] = At(pc)
      BY <1>0, <1>5 DEF Answers
  <2> QED BY <2>1 DEF At
<1>6. ASSUME ClaimRefused(q) \/ Commit(q)
      PROVE  Judged(q) /\ ~Raises(q) /\ Errors(q) = {} /\ request'[q].pc # "refused"
    BY <1>5, <1>6 DEF ClaimRefused, Commit
<1>7. ASSUME RaiseError(q)
      PROVE  Raises(q) /\ request'[q].pc = "error"
    BY <1>5, <1>7 DEF RaiseError
<1>8. ASSUME \/ \E p \in Requests : CallerStep(p)
             \/ ResolverStep \/ GitStep \/ RegistryStep
      PROVE  FALSE
  <2>1. UNCHANGED request
      BY <1>8 DEF CallerStep, ResolverStep, GitStep, RegistryStep
  <2> QED BY <2>1
<1> QED BY <1>1, <1>2, <1>3, <1>4, <1>6, <1>7, <1>8 DEF PipelineNext

\* No body that breaks a rule is committed and none that keeps them all is
\* refused, for any set of fields, any bodies and any end of the lookup.
THEOREM AcceptsValid ==
    ASSUME \A q \in Requests : \A d \in Drafts[q] : DraftTyped(d),
           \A l \in Lookups : l.addresses \subseteq Addresses
    PROVE  PipelineSpec => AcceptsExactlyValid
<1> DEFINE Valid(q) == ValidDefinition(request[q].draft, lookups[q].answer)
           Judgement(q) ==
              request[q].pc = "validating" =>
                  /\ request'[q].pc \in {"committing", "conflict", "unavailable"} => Valid(q)
                  /\ request'[q].pc = "refused" => ~Valid(q)
<1>1. ASSUME RequestsTyped, ResolverTypeOK, LookupsFollow, PipelineNext
      PROVE  \A q \in Requests : Judgement(q)
  <2>1. ASSUME NEW q \in Requests, Judged(q), ~Raises(q)
        PROVE  Errors(q) = {} <=> Valid(q)
    <3>1. /\ DraftTyped(request[q].draft)
          /\ ~ValidationRaises(request[q].draft, lookups[q].answer)
          /\ request[q].draft.logstash_url = "https" =>
                 lookups[q].answer.addresses \subseteq Addresses
        BY <1>1, <2>1, JudgedInputs
    <3> QED BY <3>1, RulesAgree DEF Errors
  <2> HIDE DEF Valid
  <2> QED BY <1>1, <2>1, Verdict
<1>2. PipelineInv /\ LookupsFollow /\ [PipelineNext]_pipelineVars =>
         [\A q \in Requests : Judgement(q)]_pipelineVars
    BY <1>1 DEF PipelineInv
<1> QED BY <1>2, AnsweredInductive, PipelineInductive, PTL
        DEF PipelineSpec, AcceptsExactlyValid

\* A 400 of the rules names every place of the body that breaks one and no other
\* place, for any bodies, however many parts are wrong and however the lookup
\* ends.  Requests on which a rule raises have no such answer.
THEOREM EveryFaultReported ==
    ASSUME \A q \in Requests : \A d \in Drafts[q] : DraftTyped(d),
           \A l \in Lookups : l.addresses \subseteq Addresses
    PROVE  PipelineSpec => ReportsEveryFault
<1> DEFINE Report(q) ==
        request[q].pc = "validating" /\ request'[q].pc = "refused" =>
           {<<e.field, e.at>> : e \in request'[q].errors}
              = Faults(request[q].draft, lookups[q].answer)
<1>1. ASSUME RequestsTyped, ResolverTypeOK, LookupsFollow, PipelineNext
      PROVE  \A q \in Requests : Report(q)
  <2> SUFFICES ASSUME NEW q \in Requests, request[q].pc = "validating",
                      request'[q].pc = "refused"
               PROVE  {<<e.field, e.at>> : e \in request'[q].errors}
                         = Faults(request[q].draft, lookups[q].answer)
      OBVIOUS
  <2>1. Judged(q) /\ ~Raises(q) /\ request'[q].errors = Errors(q)
      BY <1>1, Verdict
  <2>2. /\ DraftTyped(request[q].draft)
        /\ request[q].draft.logstash_url = "https" =>
               lookups[q].answer.addresses \subseteq Addresses
      BY <1>1, <2>1, JudgedInputs
  <2>3. Places(Errors(q)) = Faults(request[q].draft, lookups[q].answer)
      BY <2>2, RulesMark DEF Errors
  <2> QED BY <2>1, <2>3 DEF Places
<1>2. PipelineInv /\ LookupsFollow /\ [PipelineNext]_pipelineVars =>
         [\A q \in Requests : Report(q)]_pipelineVars
    BY <1>1 DEF PipelineInv
<1> QED BY <1>2, AnsweredInductive, PipelineInductive, PTL
        DEF PipelineSpec, ReportsEveryFault

\* However long the lists of a request are, its answer is bounded: the count
\* cap of validate_triggers ends the rule, it does not join the other errors.
THEOREM AnswersBounded ==
    ASSUME \A q \in Requests : \A d \in Drafts[q] : DraftTyped(d)
    PROVE  PipelineSpec => []AnswerBounded
<1> DEFINE bound == 2 * TRIGGERS_MAX + COOLDOWN_FIELDS_MAX + 8
<1>0. bound \in Nat /\ 1 <= bound
    BY FS_CardinalityType, FieldsFinite DEF TRIGGERS_MAX, COOLDOWN_FIELDS_MAX
<1>1. AllAnswered => AnswerBounded
  <2> SUFFICES ASSUME AllAnswered, NEW q \in Requests
               PROVE  Cardinality(request[q].errors) <= bound
      BY DEF AnswerBounded
  <2>1. AtMost({}, 1) /\ AtMost({Error("script", 0, "invalid_value")}, 1)
      BY AtMostOne
  <2>2. CASE request[q].errors \in {{}, {Error("script", 0, "invalid_value")}}
    <3>1. AtMost(request[q].errors, 1)
        BY <2>1, <2>2
    <3> HIDE DEF bound
    <3>2. AtMost(request[q].errors, bound)
        BY <1>0, <3>1, AtMostSubset
    <3> QED BY <3>2 DEF AtMost
  <2>3. CASE request[q].errors \notin {{}, {Error("script", 0, "invalid_value")}}
    <3>1. /\ DraftTyped(request[q].draft)
          /\ \E lookup : request[q].errors = validate_automation(request[q].draft, lookup)
        BY <2>3 DEF AllAnswered, Answered
    <3> QED BY <3>1, AnswerBound DEF AtMost
  <2> QED BY <2>2, <2>3
<1> QED BY <1>1, AnsweredInductive, PTL
==============================================================================
