--------------------------- MODULE Signals_proofs ---------------------------
(***************************************************************************)
(* Proofs about the reload signal, the build events and the clients that   *)
(* publish them, for any number of workers and requests.                   *)
(***************************************************************************)
EXTENDS Signals, SequenceTheorems, TLAPS

----------------------------------------------------------------------------
(* The inductive invariant.                                                *)

\* What may be left of a request: its commit and what follows it, or what is
\* still to be published once it has committed.  A worker with a rest of the
\* second kind owes the matcher a signal.
Uncommitted == {<<"commit">>, <<"commit", "events">>, <<"commit", "refresh", "reload">>,
                <<"commit", "reload", "events">>}
Owing == {<<"refresh", "reload">>, <<"reload">>, <<"reload", "events">>}
Rests == {<< >>, <<"events">>} \cup Uncommitted \cup Owing

RestsKnown == \A t \in Threads : thread[t].todo \in Rests

\* The row lock: one worker at a time stands before its commit.
OneWriter ==
    \A t, u \in Threads :
        thread[t].todo \in Uncommitted /\ thread[u].todo \in Uncommitted => t = u

\* A row that can be committed: a build under way is of a newer commit than the
\* digest, and no commit is newer than the last request.
RowSound(r) ==
    /\ r.definition # 0
    /\ r.digest <= r.sha /\ r.sha <= changes
    /\ r.build = "building" => r.digest # r.sha

RowsSound == RowSound(db) /\ \A t \in Threads : RowSound(thread[t].row)

\* A write that no signal follows changes nothing the matcher must know at once.
Quiet == {<<"commit">>, <<"commit", "events">>}

QuietWrites ==
    \A t \in Threads :
        thread[t].todo \in Quiet =>
            thread[t].row.matching = db.matching /\ thread[t].row.build # "idle"

\* The event a worker has still to send is the one its webhook committed.
Truthful(e) ==
    \/ e.build = "idle" /\ e.digest = e.sha
    \/ e.build = "build_failed" /\ e.digest # e.sha

Announcing == {<<"events">>, <<"reload", "events">>, <<"commit", "events">>,
               <<"commit", "reload", "events">>}

EventsPending ==
    \A t \in Threads : thread[t].todo \in Announcing => Truthful(thread[t].event)

\* The client lock: who has passed it holds it, and what it saw is still so.
LockHeld ==
    \A t \in Threads, p \in Publishers :
        At(t, p) /\ thread[t].pc = "locked" =>
            /\ client[p].holder = t
            /\ thread[t].fresh => client[p].built = 0

\* What the index should hold for the row as it is.
Matches(v) ==
    /\ (v # 0) <=> (db.matching = "active")
    /\ (db.matching = "active" /\ db.build = "idle") => v = db.definition

\* The matcher will reload, or has been told that it missed a signal.
ReloadDue ==
    \/ lost \/ ~connected \/ inbox > 0
    \/ \E t \in Threads : thread[t].todo \in Owing

\* Unless a reload is due the index matches, or the reload under way makes it.
IndexFollows ==
    \/ ReloadDue
    \/ index.pc = "reading" /\ Matches(index.read)
    \/ index.pc = "idle" /\ Matches(index.view)

RequestsInv == RestsKnown /\ OneWriter /\ RowsSound /\ QuietWrites /\ EventsPending

SignalsInv ==
    /\ TypeOK /\ RequestsInv /\ EventsTruthful
    /\ LockHeld /\ ClientBuiltOnce
    /\ IndexFollows

----------------------------------------------------------------------------
(* The rests of a request as sequences.                                    *)

\* A rest with its first step done.
Rest(s) == IF Len(s) = 1 THEN << >> ELSE Tail(s)

LEMMA RestsTyped == Rests \subseteq Seq(Steps)
  BY DEF Rests, Uncommitted, Owing, Steps, Publishers

LEMMA RestSteps ==
    ASSUME NEW s \in Rests, s # << >>
    PROVE  /\ Rest(s) \in Rests /\ Rest(s) \notin Uncommitted
           /\ Head(s) \in Steps
           /\ Head(s) = "commit" <=> s \in Uncommitted
           /\ Head(s) = "refresh" => s = <<"refresh", "reload">> /\ Rest(s) = <<"reload">>
           /\ Head(s) = "reload" => s \in {<<"reload">>, <<"reload", "events">>}
           /\ Head(s) = "events" => s = <<"events">>
  <1>1. CASE s \in {<<"commit">>, <<"reload">>, <<"events">>}
    BY <1>1 DEF Rest, Rests, Uncommitted, Owing, Steps, Publishers
  <1>2. CASE s = <<"commit", "events">>
    BY <1>2 DEF Rest, Rests, Uncommitted, Owing, Steps, Publishers
  <1>3. CASE s = <<"commit", "refresh", "reload">>
    BY <1>3 DEF Rest, Rests, Uncommitted, Owing, Steps, Publishers
  <1>4. CASE s = <<"commit", "reload", "events">>
    BY <1>4 DEF Rest, Rests, Uncommitted, Owing, Steps, Publishers
  <1>5. CASE s = <<"refresh", "reload">>
    BY <1>5 DEF Rest, Rests, Uncommitted, Owing, Steps, Publishers
  <1>6. CASE s = <<"reload", "events">>
    BY <1>6 DEF Rest, Rests, Uncommitted, Owing, Steps, Publishers
  <1> QED
    BY <1>1, <1>2, <1>3, <1>4, <1>5, <1>6 DEF Rests, Uncommitted, Owing

\* What is left after the commit, and what is left to publish.
LEMMA RestAfterCommit ==
    /\ Rest(<<"commit">>) = << >>
    /\ Rest(<<"commit", "events">>) = <<"events">>
    /\ Rest(<<"commit", "refresh", "reload">>) = <<"refresh", "reload">>
    /\ Rest(<<"commit", "reload", "events">>) = <<"reload", "events">>
    /\ Rest(<<"reload", "events">>) = <<"events">>
    /\ Rest(<<"reload">>) = << >> /\ Rest(<<"events">>) = << >>
  BY DEF Rest

\* What each request has left when it begins.
LEMMA RestAtBegin ==
    /\ CommitThenPublish(<< >>) = <<"commit">>
    /\ CommitThenPublish(<<"events">>) = <<"commit", "events">>
    /\ CommitThenPublish(<<"refresh", "reload">>) = <<"commit", "refresh", "reload">>
    /\ CommitThenPublish(<<"reload", "events">>) = <<"commit", "reload", "events">>
  <1>0. /\ <<"commit">> \in Seq(Steps) /\ << >> \in Seq(Steps)
        /\ <<"events">> \in Seq(Steps) /\ <<"refresh", "reload">> \in Seq(Steps)
        /\ <<"reload", "events">> \in Seq(Steps)
        /\ <<"commit", "events">> \in Seq(Steps)
        /\ <<"commit", "refresh", "reload">> \in Seq(Steps)
        /\ <<"commit", "reload", "events">> \in Seq(Steps)
    BY DEF Steps, Publishers
  <1>1. <<"commit">> \o << >> = <<"commit">>
    BY <1>0, ConcatEmptySeq
  <1>2. <<"commit">> \o <<"events">> = <<"commit", "events">>
    <2> DEFINE c == <<"commit">> \o <<"events">>
    <2>1. c \in Seq(Steps) /\ Len(c) = 2 /\ c[1] = "commit" /\ c[2] = "events"
      BY <1>0, ConcatProperties
    <2> HIDE DEF c
    <2> DEFINE s == <<"commit", "events">>
    <2>2. s \in Seq(Steps) /\ Len(c) = Len(s) /\ \A i \in 1..Len(c) : c[i] = s[i]
      BY <1>0, <2>1
    <2> HIDE DEF s
    <2>3. c = s
      BY <2>1, <2>2, SeqEqual
    <2> QED
      BY <2>3 DEF c, s
  <1>3. <<"commit">> \o <<"refresh", "reload">> = <<"commit", "refresh", "reload">>
    <2> DEFINE c == <<"commit">> \o <<"refresh", "reload">>
    <2>1. /\ c \in Seq(Steps) /\ Len(c) = 3
          /\ c[1] = "commit" /\ c[2] = "refresh" /\ c[3] = "reload"
      BY <1>0, ConcatProperties
    <2> HIDE DEF c
    <2> DEFINE s == <<"commit", "refresh", "reload">>
    <2>2. s \in Seq(Steps) /\ Len(c) = Len(s) /\ \A i \in 1..Len(c) : c[i] = s[i]
      BY <1>0, <2>1
    <2> HIDE DEF s
    <2>3. c = s
      BY <2>1, <2>2, SeqEqual
    <2> QED
      BY <2>3 DEF c, s
  <1>4. <<"commit">> \o <<"reload", "events">> = <<"commit", "reload", "events">>
    <2> DEFINE c == <<"commit">> \o <<"reload", "events">>
    <2>1. /\ c \in Seq(Steps) /\ Len(c) = 3
          /\ c[1] = "commit" /\ c[2] = "reload" /\ c[3] = "events"
      BY <1>0, ConcatProperties
    <2> HIDE DEF c
    <2> DEFINE s == <<"commit", "reload", "events">>
    <2>2. s \in Seq(Steps) /\ Len(c) = Len(s) /\ \A i \in 1..Len(c) : c[i] = s[i]
      BY <1>0, <2>1
    <2> HIDE DEF s
    <2>3. c = s
      BY <2>1, <2>2, SeqEqual
    <2> QED
      BY <2>3 DEF c, s
  <1> QED
    BY <1>1, <1>2, <1>3, <1>4 DEF CommitThenPublish

\* Pending, on the rests there are.
LEMMA PendingRests ==
    ASSUME NEW t \in Threads, thread[t].todo \in Rests
    PROVE  /\ Pending(t, "commit") <=> thread[t].todo \in Uncommitted
           /\ thread[t].todo \in Owing <=> Pending(t, "reload") /\ ~Pending(t, "commit")
  <1> DEFINE s == thread[t].todo
  <1>1. CASE s = << >>
    BY <1>1 DEF Pending, Uncommitted, Owing
  <1>2. CASE s \in {<<"commit">>, <<"reload">>, <<"events">>}
    BY <1>2 DEF Pending, Uncommitted, Owing
  <1>3. CASE s = <<"commit", "events">>
    BY <1>3 DEF Pending, Uncommitted, Owing
  <1>4. CASE s = <<"refresh", "reload">>
    BY <1>4 DEF Pending, Uncommitted, Owing
  <1>5. CASE s = <<"reload", "events">>
    BY <1>5 DEF Pending, Uncommitted, Owing
  <1>6. CASE s = <<"commit", "refresh", "reload">>
    BY <1>6 DEF Pending, Uncommitted, Owing
  <1>7. CASE s = <<"commit", "reload", "events">>
    BY <1>7 DEF Pending, Uncommitted, Owing
  <1> QED
    BY <1>1, <1>2, <1>3, <1>4, <1>5, <1>6, <1>7 DEF Rests, Uncommitted, Owing

\* An event left after a step was left before it.
LEMMA RestAnnounces ==
    ASSUME NEW s \in Rests, s # << >>, Rest(s) \in Announcing
    PROVE  s \in Announcing
  BY RestAfterCommit, RestSteps DEF Rests, Uncommitted, Owing, Announcing

----------------------------------------------------------------------------
(* What a step does to a worker.                                           *)

LEMMA SignalTypes ==
    ASSUME TypeOK, RequestsInv
    PROVE  /\ db \in Row /\ changes \in Nat /\ changes >= 1
           /\ thread \in [Threads -> ThreadStates]
           /\ client \in [Publishers -> [built : Nat, holder : Threads \cup {NoThread}]]
           /\ index \in [pc : {"idle", "reading"}, view : Nat, read : Nat]
           /\ \A t \in Threads : thread[t] \in ThreadStates /\ thread[t].todo \in Rests
           /\ NoThread \notin Threads
  <1>1. changes \in Nat /\ changes >= 1
    BY SignalsAssumption DEF TypeOK
  <1> QED
    BY <1>1, SignalsAssumption DEF TypeOK, RequestsInv, RestsKnown

LEMMA IdleTyped ==
    /\ IdleThread \in ThreadStates /\ IdleThread.todo = << >> /\ IdleThread.row = FirstRow
    /\ FirstRow \in Row /\ IdleThread.pc = "start"
  BY DEF IdleThread, ThreadStates, FirstRow, Row, Event, BuildStates

\* A worker that goes on: its request stays, loses its first step, or is over.
WorkerMoves(t) ==
    /\ thread' \in [Threads -> ThreadStates]
    /\ \A u \in Threads : u # t => thread'[u] = thread[u]
    /\ \/ /\ thread'[t].todo = thread[t].todo /\ thread'[t].row = thread[t].row
          /\ thread'[t].event = thread[t].event
       \/ /\ thread[t].todo # << >> /\ thread'[t].todo = Rest(thread[t].todo)
          /\ thread'[t].row = thread[t].row /\ thread'[t].event = thread[t].event
          /\ thread'[t].pc = "start"
       \/ thread'[t] = IdleThread

LEMMA ProceedsMoves ==
    ASSUME TypeOK, RequestsInv, NEW t \in Threads, thread[t].todo # << >>, Proceeds(t)
    PROVE  /\ WorkerMoves(t) /\ thread'[t].todo = Rest(thread[t].todo)
           /\ thread'[t].pc = "start"
  <1>0. /\ thread \in [Threads -> ThreadStates] /\ thread[t] \in ThreadStates
        /\ thread[t].todo \in Rests
    BY SignalTypes
  <1>1. CASE Len(thread[t].todo) = 1
    <2>1. thread' = [thread EXCEPT ![t] = IdleThread]
      BY <1>1 DEF Proceeds
    <2>2. /\ thread'[t] = IdleThread /\ thread' \in [Threads -> ThreadStates]
          /\ \A u \in Threads : u # t => thread'[u] = thread[u]
      BY <1>0, <2>1, IdleTyped
    <2> QED
      BY <1>1, <2>2, IdleTyped DEF WorkerMoves, Rest
  <1>2. CASE Len(thread[t].todo) # 1
    <2> DEFINE x == [thread[t] EXCEPT !.todo = Tail(thread[t].todo), !.pc = "start",
                                      !.fresh = FALSE]
    <2>0. thread' = [thread EXCEPT ![t] = IF Len(thread[t].todo) = 1 THEN IdleThread
                                          ELSE x]
      BY DEF Proceeds
    <2>1. thread' = [thread EXCEPT ![t] = x]
      BY <1>2, <2>0
    <2>2. Tail(thread[t].todo) = Rest(thread[t].todo)
      BY <1>2 DEF Rest
    <2>3. Tail(thread[t].todo) \in Seq(Steps)
      BY <1>0, <2>2, RestSteps, RestsTyped
    <2>4. /\ x \in ThreadStates /\ x.todo = Tail(thread[t].todo) /\ x.pc = "start"
          /\ x.row = thread[t].row /\ x.event = thread[t].event
      BY <1>0, <2>3 DEF ThreadStates
    <2> HIDE DEF x
    <2>5. /\ thread'[t] = x /\ thread' \in [Threads -> ThreadStates]
          /\ \A u \in Threads : u # t => thread'[u] = thread[u]
      BY <1>0, <2>1, <2>4
    <2> QED
      BY <2>2, <2>4, <2>5 DEF WorkerMoves
  <1> QED
    BY <1>1, <1>2

LEMMA AbandonsMoves ==
    ASSUME TypeOK, RequestsInv, NEW t \in Threads, Abandons(t)
    PROVE  WorkerMoves(t) /\ thread'[t] = IdleThread
  BY SignalTypes, IdleTyped DEF Abandons, WorkerMoves

LEMMA AtRest ==
    ASSUME TypeOK, RequestsInv, NEW t \in Threads, NEW p, At(t, p)
    PROVE  /\ thread[t].todo # << >> /\ thread[t].todo \in Rests
           /\ p = "commit" <=> thread[t].todo \in Uncommitted
           /\ p = "refresh" => thread[t].todo = <<"refresh", "reload">>
           /\ p = "reload" => thread[t].todo \in {<<"reload">>, <<"reload", "events">>}
           /\ p = "events" => thread[t].todo = <<"events">>
  BY SignalTypes, RestSteps DEF At

\* Every step of a worker is such a move.
LEMMA WorkerSteps ==
    ASSUME TypeOK, RequestsInv, NEW t \in Threads, ThreadStep(t)
    PROVE  WorkerMoves(t)
  <1>0. thread \in [Threads -> ThreadStates] /\ thread[t] \in ThreadStates
    BY SignalTypes
  <1>1. CASE CommitRow(t)
    BY <1>1, AtRest, ProceedsMoves, AbandonsMoves DEF CommitRow
  <1>2. CASE Refresh(t)
    BY <1>2, AtRest, ProceedsMoves, AbandonsMoves DEF Refresh
  <1>3. CASE LockClient(t)
    <2>1. PICK b \in BOOLEAN :
             thread' = [thread EXCEPT ![t].pc = "locked", ![t].fresh = b]
      BY <1>3 DEF LockClient
    <2> QED
      BY <1>0, <2>1 DEF WorkerMoves, ThreadStates
  <1>4. CASE BuildClient(t)
    <2>1. CASE thread' = [thread EXCEPT ![t].pc = "resolving"]
      BY <1>0, <2>1 DEF WorkerMoves, ThreadStates
    <2>2. CASE Proceeds(t)
      BY <1>4, <2>2, AtRest, ProceedsMoves DEF BuildClient
    <2> QED
      BY <1>4, <2>1, <2>2 DEF BuildClient, Swallows
  <1>5. CASE Send(t)
    BY <1>5, AtRest, ProceedsMoves DEF Send, Arrives, TimesOut, Swallows
  <1>6. CASE Resolve(t)
    <2>1. CASE thread' = [thread EXCEPT ![t].pc = "sending"]
      BY <1>0, <2>1 DEF WorkerMoves, ThreadStates
    <2>2. CASE Proceeds(t)
      BY <1>6, <2>2, AtRest, ProceedsMoves DEF Resolve
    <2> QED
      BY <1>6, <2>1, <2>2 DEF Resolve, Swallows
  <1> QED
    BY <1>1, <1>2, <1>3, <1>4, <1>5, <1>6 DEF ThreadStep

\* Only a commit writes the row, and only the worker that stands before it.
LEMMA WorkerWrites ==
    ASSUME TypeOK, RequestsInv, NEW t \in Threads, ThreadStep(t)
    PROVE  /\ changes' = changes
           /\ \/ db' = db
              \/ /\ thread[t].todo \in Uncommitted /\ db' = thread[t].row
                 /\ thread'[t].todo = Rest(thread[t].todo)
  <1>1. CASE CommitRow(t)
    BY <1>1, AtRest, ProceedsMoves DEF CommitRow
  <1> QED
    BY <1>1 DEF ThreadStep, Refresh, LockClient, BuildClient, Resolve, Send

----------------------------------------------------------------------------
(* What a request begins with.                                             *)

\* The worker's new state, with the row it is going to write.
BegunThread(s, r) == [IdleThread EXCEPT !.todo = s, !.row = r, !.event = BuildEvent(r, db.sha)]

\* A row a request may write, when the request has the number n.
Writable(r, s, n) ==
    /\ r \in Row
    /\ r.definition # 0
    /\ r.digest <= r.sha /\ r.sha <= n
    /\ r.build = "building" => r.digest # r.sha
    /\ s \in Quiet => r.matching = db.matching /\ r.build # "idle"
    /\ s \in Announcing => Truthful(BuildEvent(r, db.sha))

Began(t) ==
    \E s \in Uncommitted, r \in Row :
        /\ Writable(r, s, changes + 1)
        /\ thread[t].todo = << >>
        /\ \A u \in Threads : thread[u].todo \notin Uncommitted
        /\ changes' = changes + 1 /\ changes < MaxChanges
        /\ thread' = [thread EXCEPT ![t] = BegunThread(s, r)]
        /\ UNCHANGED <<db, client, redis, inbox, connected, index, lost, events>>

LEMMA BeginsIs ==
    ASSUME TypeOK, RequestsInv, NEW t \in Threads, NEW r, NEW after, Begins(t, r, after),
           CommitThenPublish(after) \in Uncommitted,
           Writable(r, CommitThenPublish(after), changes + 1)
    PROVE  Began(t)
  <1>1. \A u \in Threads : thread[u].todo \notin Uncommitted
    BY SignalTypes, PendingRests DEF Begins
  <1>2. r \in Row
    BY DEF Writable
  <1>3. thread' = [thread EXCEPT ![t] = BegunThread(CommitThenPublish(after), r)]
    BY DEF Begins, BegunThread
  <1> QED
    BY <1>1, <1>2, <1>3 DEF Began, Begins

\* Every request begins so: with a row that agrees with what it will publish.
LEMMA RequestBegins ==
    ASSUME TypeOK, RequestsInv, NEW t \in Threads, Request(t)
    PROVE  Began(t)
  <1>0. /\ db \in Row /\ changes \in Nat /\ changes >= 1 /\ RowSound(db)
    BY SignalTypes DEF RequestsInv, RowsSound
  <1> DEFINE W(r, s) == Writable(r, s, changes + 1)
  <1>a. /\ <<"commit">> \in Uncommitted /\ <<"commit", "events">> \in Uncommitted
        /\ <<"commit", "refresh", "reload">> \in Uncommitted
        /\ <<"commit", "reload", "events">> \in Uncommitted
    BY DEF Uncommitted
  <1>b. /\ <<"commit", "refresh", "reload">> \notin Quiet
        /\ <<"commit", "refresh", "reload">> \notin Announcing
        /\ <<"commit", "reload", "events">> \notin Quiet
        /\ <<"commit">> \notin Announcing
    BY DEF Quiet, Announcing
  <1>1. ASSUME NEW target \in {"active", "inactive"}, Toggle(t, target)
        PROVE  Began(t)
    <2> DEFINE r == [db EXCEPT !.matching = target]
    <2>1. /\ r \in Row /\ r.definition = db.definition /\ r.digest = db.digest
          /\ r.sha = db.sha /\ r.build = db.build
      BY <1>0, <1>1 DEF Row
    <2>2. Begins(t, r, <<"refresh", "reload">>)
      BY <1>1 DEF Toggle
    <2> HIDE DEF r
    <2>3. Writable(r, <<"commit", "refresh", "reload">>, changes + 1)
      BY <1>0, <1>b, <2>1 DEF Writable, RowSound, Row
    <2> QED
      BY <1>a, <2>2, <2>3, RestAtBegin, BeginsIs
  <1>2. CASE BeginDelete(t)
    <2> DEFINE r == [db EXCEPT !.matching = "deleting"]
    <2>1. /\ r \in Row /\ r.definition = db.definition /\ r.digest = db.digest
          /\ r.sha = db.sha /\ r.build = db.build
      BY <1>0 DEF Row
    <2>2. Begins(t, r, <<"refresh", "reload">>)
      BY <1>2 DEF BeginDelete
    <2> HIDE DEF r
    <2>3. Writable(r, <<"commit", "refresh", "reload">>, changes + 1)
      BY <1>0, <1>b, <2>1 DEF Writable, RowSound, Row
    <2> QED
      BY <1>a, <2>2, <2>3, RestAtBegin, BeginsIs
  <1>3. CASE Edit(t)
    <2>0. PICK n \in Nat : n = changes + 1
      BY <1>0
    <2> DEFINE r == [db EXCEPT !.build = "building", !.sha = n, !.definition = n]
    <2>1. /\ r \in Row /\ r.definition = n /\ r.digest = db.digest
          /\ r.sha = n /\ r.build = "building" /\ r.matching = db.matching
      BY <1>0 DEF Row, BuildStates
    <2>2. Begins(t, r, << >>)
      BY <1>3, <2>0 DEF Edit
    <2> HIDE DEF r
    <2>3. Writable(r, <<"commit">>, changes + 1)
      BY <1>0, <1>b, <2>0, <2>1 DEF Writable, RowSound, Row
    <2> QED
      BY <1>a, <2>2, <2>3, RestAtBegin, BeginsIs
  <1>4. CASE CutOver(t)
    <2> DEFINE r == [db EXCEPT !.build = "idle", !.digest = db.sha]
    <2>1. /\ r \in Row /\ r.definition = db.definition /\ r.digest = db.sha
          /\ r.sha = db.sha /\ r.build = "idle" /\ r.matching = db.matching
      BY <1>0 DEF Row, BuildStates
    <2>2. Begins(t, r, <<"reload", "events">>)
      BY <1>4 DEF CutOver
    <2> HIDE DEF r
    <2>3. Truthful(BuildEvent(r, db.sha))
      BY <2>1 DEF Truthful, BuildEvent
    <2>4. Writable(r, <<"commit", "reload", "events">>, changes + 1)
      BY <1>0, <1>b, <2>1, <2>3 DEF Writable, RowSound, Row
    <2> QED
      BY <1>a, <2>2, <2>4, RestAtBegin, BeginsIs
  <1>5. CASE FailBuild(t) \/ ReleaseStuckBuild(t)
    <2> DEFINE r == [db EXCEPT !.build = "build_failed"]
    <2>1. /\ r \in Row /\ r.definition = db.definition /\ r.digest = db.digest
          /\ r.sha = db.sha /\ r.build = "build_failed" /\ r.matching = db.matching
      BY <1>0 DEF Row, BuildStates
    <2>2. Begins(t, r, <<"events">>) \/ Begins(t, r, << >>)
      BY <1>5 DEF FailBuild, ReleaseStuckBuild
    <2>3. db.build = "building"
      BY <1>5 DEF FailBuild, ReleaseStuckBuild
    <2> HIDE DEF r
    <2>4. Truthful(BuildEvent(r, db.sha))
      BY <1>0, <2>1, <2>3 DEF Truthful, BuildEvent, RowSound
    <2>5. /\ Writable(r, <<"commit", "events">>, changes + 1)
          /\ Writable(r, <<"commit">>, changes + 1)
      BY <1>0, <2>1, <2>4 DEF Writable, RowSound, Row
    <2> QED
      BY <1>a, <2>2, <2>5, RestAtBegin, BeginsIs
  <1> QED
    BY <1>1, <1>2, <1>3, <1>4, <1>5 DEF Request

LEMMA BegunTyped ==
    ASSUME TypeOK, RequestsInv, NEW s \in Uncommitted, NEW r \in Row
    PROVE  /\ BegunThread(s, r) \in ThreadStates
           /\ BegunThread(s, r).todo = s /\ BegunThread(s, r).row = r
           /\ BegunThread(s, r).event = BuildEvent(r, db.sha)
           /\ BegunThread(s, r).pc = "start"
  <1>1. s \in Seq(Steps) /\ db \in Row
    BY RestsTyped, SignalTypes DEF Rests
  <1>2. BuildEvent(r, db.sha) \in Event
    BY <1>1 DEF BuildEvent, Event, Row
  <1> QED
    BY <1>1, <1>2 DEF BegunThread, IdleThread, ThreadStates, FirstRow, Row

----------------------------------------------------------------------------
(* The requests' part of the invariant.                                    *)

\* Only one worker writes the row, so a commit leaves every other worker with a
\* request that has committed; the row it was going to write becomes the row.
LEMMA RequestsKeptByWorkers ==
    ASSUME TypeOK, RequestsInv, NEW t \in Threads, ThreadStep(t)
    PROVE  RequestsInv'
  <1>0. /\ WorkerMoves(t) /\ thread[t].todo \in Rests /\ changes' = changes
        /\ changes \in Nat /\ changes >= 1
    BY WorkerSteps, WorkerWrites, SignalTypes
  <1>a. /\ IdleThread.todo = << >> /\ IdleThread.row = FirstRow /\ << >> \in Rests
        /\ << >> \notin Uncommitted /\ << >> \notin Quiet /\ << >> \notin Announcing
    BY IdleTyped DEF Rests, Uncommitted, Quiet, Announcing
  <1>b. Quiet \subseteq Uncommitted
    BY DEF Quiet, Uncommitted
  <1>1. thread'[t].todo \in Rests
    BY <1>0, <1>a, RestSteps DEF WorkerMoves
  <1>2. thread'[t].todo \in Uncommitted =>
            thread'[t].todo = thread[t].todo /\ thread'[t].row = thread[t].row
    BY <1>0, <1>a, RestSteps DEF WorkerMoves
  <1>3. thread'[t].row \in {thread[t].row, FirstRow}
    BY <1>0, <1>a DEF WorkerMoves
  <1>4. RestsKnown'
    BY <1>0, <1>1 DEF RestsKnown, WorkerMoves, RequestsInv
  <1>5. OneWriter'
    BY <1>0, <1>2 DEF OneWriter, WorkerMoves, RequestsInv
  <1>6. RowsSound'
    <2>1. RowSound(FirstRow)
      BY <1>0 DEF RowSound, FirstRow
    <2>2. RowSound(db) /\ \A u \in Threads : RowSound(thread[u].row)
      BY DEF RequestsInv, RowsSound
    <2>3. db' = db \/ db' = thread[t].row
      BY WorkerWrites
    <2>4. \A u \in Threads : thread'[u].row \in {thread[u].row, FirstRow}
      BY <1>0, <1>3 DEF WorkerMoves
    <2> QED
      BY <1>0, <2>1, <2>2, <2>3, <2>4 DEF RowsSound, RowSound
  <1>7. QuietWrites'
    <2>1. CASE db' = db
      BY <1>0, <1>2, <1>b, <2>1 DEF QuietWrites, WorkerMoves, RequestsInv
    <2>2. CASE thread[t].todo \in Uncommitted /\ thread'[t].todo = Rest(thread[t].todo)
      <3>1. thread[t].todo # << >>
        BY <1>a, <2>2
      <3>2. thread'[t].todo \notin Uncommitted
        BY <1>0, <2>2, <3>1, RestSteps
      <3>3. \A u \in Threads : u # t => thread'[u].todo \notin Uncommitted
        BY <1>0, <2>2 DEF OneWriter, RequestsInv, WorkerMoves
      <3> QED
        BY <1>b, <3>2, <3>3 DEF QuietWrites
    <2> QED
      BY <2>1, <2>2, WorkerWrites
  <1>8. EventsPending'
    <2>1. thread'[t].todo \in Announcing =>
              thread[t].todo \in Announcing /\ thread'[t].event = thread[t].event
      BY <1>0, <1>a, RestAnnounces DEF WorkerMoves
    <2> QED
      BY <1>0, <2>1 DEF EventsPending, WorkerMoves, RequestsInv, Truthful
  <1> QED
    BY <1>4, <1>5, <1>6, <1>7, <1>8 DEF RequestsInv

LEMMA RequestsKeptByBegin ==
    ASSUME TypeOK, RequestsInv, NEW t \in Threads, Began(t)
    PROVE  RequestsInv'
  <1>1. PICK s \in Uncommitted, r \in Row :
            /\ Writable(r, s, changes + 1)
            /\ \A u \in Threads : thread[u].todo \notin Uncommitted
            /\ changes' = changes + 1
            /\ thread' = [thread EXCEPT ![t] = BegunThread(s, r)]
            /\ db' = db
    BY DEF Began
  <1>2. /\ thread'[t].todo = s /\ thread'[t].row = r
        /\ thread'[t].event = BuildEvent(r, db.sha)
        /\ \A u \in Threads : u # t => thread'[u] = thread[u]
    BY <1>1, BegunTyped, SignalTypes
  <1>0. /\ changes \in Nat /\ s \in Rests /\ db \in Row
        /\ \A u \in Threads : thread[u] \in ThreadStates
    BY SignalTypes DEF Rests
  <1>3. RestsKnown'
    BY <1>0, <1>2 DEF RestsKnown, RequestsInv
  <1>4. OneWriter'
    BY <1>1, <1>2 DEF OneWriter
  <1>5. RowsSound'
    <2>1. RowSound(db)'
      BY <1>0, <1>1 DEF RowSound, RowsSound, RequestsInv, Row
    <2>2. ASSUME NEW u \in Threads
          PROVE  RowSound(thread[u].row)'
      <3>1. CASE u = t
        BY <1>1, <1>2, <3>1 DEF RowSound, Writable
      <3>2. CASE u # t
        <4>1. thread'[u].row = thread[u].row /\ thread[u].row \in Row
          BY <1>0, <1>2, <3>2 DEF ThreadStates
        <4>2. RowSound(thread[u].row)
          BY DEF RowsSound, RequestsInv
        <4> QED
          BY <1>0, <1>1, <4>1, <4>2 DEF RowSound, Row
      <3> QED
        BY <3>1, <3>2
    <2> QED
      BY <2>1, <2>2 DEF RowsSound
  <1>6. QuietWrites'
    <2>1. Quiet \subseteq Uncommitted
      BY DEF Quiet, Uncommitted
    <2> QED
      BY <1>1, <1>2, <2>1 DEF QuietWrites, Writable
  <1>7. EventsPending'
    BY <1>1, <1>2 DEF EventsPending, Writable, Truthful, RequestsInv
  <1> QED
    BY <1>3, <1>4, <1>5, <1>6, <1>7 DEF RequestsInv

LEMMA RequestsKeptByCrash ==
    ASSUME TypeOK, RequestsInv, Crash
    PROVE  RequestsInv'
  <1>1. /\ \A t \in Threads : thread'[t] = IdleThread
        /\ db' = db /\ changes' = changes /\ changes \in Nat /\ changes >= 1
    BY SignalTypes DEF Crash
  <1>2. /\ << >> \in Rests /\ << >> \notin Uncommitted /\ << >> \notin Quiet
        /\ << >> \notin Announcing
    BY DEF Rests, Uncommitted, Quiet, Announcing
  <1>3. RestsKnown' /\ OneWriter' /\ QuietWrites' /\ EventsPending'
    BY <1>1, <1>2, IdleTyped DEF RestsKnown, OneWriter, QuietWrites, EventsPending
  <1>4. RowsSound'
    BY <1>1, IdleTyped DEF RowsSound, RowSound, RequestsInv, FirstRow
  <1> QED
    BY <1>3, <1>4 DEF RequestsInv

\* The steps of Redis, the subscriber and the index.
Outside == SubscriberDrops \/ SubscriberReconnects \/ StartReload \/ FinishReload

LEMMA RequestsKept ==
    ASSUME TypeOK, RequestsInv, [SignalsNext]_signalVars
    PROVE  RequestsInv'
  <1>1. CASE Outside \/ UNCHANGED signalVars
    <2>1. UNCHANGED <<db, changes, thread>>
      BY <1>1 DEF Outside, SubscriberDrops, SubscriberReconnects, StartReload,
                  FinishReload, signalVars
    <2> QED
      BY <2>1 DEF RequestsInv, RestsKnown, OneWriter, RowsSound, RowSound, QuietWrites,
                  EventsPending, Truthful
  <1> QED
    BY <1>1, RequestsKeptByWorkers, RequestsKeptByBegin, RequestBegins, RequestsKeptByCrash
       DEF SignalsNext, Outside

----------------------------------------------------------------------------
(* Type correctness.                                                       *)

LEMMA TypesKeptByWorkers ==
    ASSUME TypeOK, RequestsInv, NEW t \in Threads, ThreadStep(t)
    PROVE  TypeOK'
  <1>0. /\ thread' \in [Threads -> ThreadStates] /\ changes' = changes
        /\ thread[t] \in ThreadStates
    BY WorkerSteps, WorkerWrites, SignalTypes DEF WorkerMoves
  <1>1. db' \in Row
    BY <1>0, WorkerWrites DEF TypeOK, ThreadStates
  <1>2. CASE CommitRow(t) \/ Refresh(t)
    BY <1>0, <1>1, <1>2 DEF TypeOK, CommitRow, Refresh
  <1>3. CASE LockClient(t)
    <2>1. PICK p \in Publishers : client' = [client EXCEPT ![p].holder = t]
      BY <1>3 DEF LockClient
    <2>2. client' \in [Publishers -> [built : Nat, holder : Threads \cup {NoThread}]]
      BY <2>1 DEF TypeOK
    <2>3. UNCHANGED <<redis, inbox, connected, index, lost, events>>
      BY <1>3 DEF LockClient
    <2> QED
      BY <1>0, <1>1, <2>2, <2>3 DEF TypeOK
  <1>4. CASE BuildClient(t)
    <2>1. client' \in [Publishers -> [built : Nat, holder : Threads \cup {NoThread}]]
      <3>1. PICK p \in Publishers, n \in {0, 1} :
               \/ client' = [client EXCEPT ![p] = [built |-> client[p].built + n,
                                                   holder |-> NoThread]]
               \/ client' = [client EXCEPT ![p].holder = NoThread]
        BY <1>4 DEF BuildClient
      <3>2. client[p].built + n \in Nat
        BY DEF TypeOK
      <3> QED
        BY <3>1, <3>2 DEF TypeOK
    <2>2. /\ UNCHANGED <<redis, connected, index, inbox, events>>
          /\ lost' \in BOOLEAN
      BY <1>4 DEF BuildClient, Swallows, TypeOK
    <2> QED
      BY <1>0, <1>1, <2>1, <2>2 DEF TypeOK
  <1>5. CASE Send(t)
    <2>1. UNCHANGED <<client, redis, connected, index>>
      BY <1>5 DEF Send
    <2>2. inbox' \in Nat /\ lost' \in BOOLEAN
      BY <1>5 DEF Send, Arrives, TimesOut, Swallows, TypeOK
    <2>3. events' \subseteq events \cup {thread[t].event}
      BY <1>5 DEF Send, Arrives, TimesOut, Swallows, EventSent
    <2>4. thread[t].event \in Event
      BY <1>0 DEF ThreadStates
    <2> QED
      BY <1>0, <1>1, <2>1, <2>2, <2>3, <2>4 DEF TypeOK
  <1>6. CASE Resolve(t)
    <2>1. UNCHANGED <<client, redis, connected, index, inbox, events>> /\ lost' \in BOOLEAN
      BY <1>6 DEF Resolve, Swallows, TypeOK
    <2> QED
      BY <1>0, <1>1, <2>1 DEF TypeOK
  <1> QED
    BY <1>2, <1>3, <1>4, <1>5, <1>6 DEF ThreadStep

LEMMA TypesKept ==
    ASSUME TypeOK, RequestsInv, [SignalsNext]_signalVars
    PROVE  TypeOK'
  <1>1. ASSUME NEW t \in Threads, Began(t)
        PROVE  TypeOK'
    <2>1. PICK s \in Uncommitted, r \in Row :
              /\ changes' = changes + 1 /\ changes < MaxChanges
              /\ thread' = [thread EXCEPT ![t] = BegunThread(s, r)]
              /\ UNCHANGED <<db, client, redis, inbox, connected, index, lost, events>>
      BY <1>1 DEF Began
    <2>2. thread' \in [Threads -> ThreadStates]
      BY <2>1, BegunTyped, SignalTypes
    <2>3. changes' \in 1..(MaxChanges + 1)
      BY <2>1, SignalsAssumption DEF TypeOK
    <2> QED
      BY <2>1, <2>2, <2>3 DEF TypeOK
  <1>2. CASE Crash
    <2>1. /\ thread' \in [Threads -> ThreadStates]
          /\ client' \in [Publishers -> [built : Nat, holder : Threads \cup {NoThread}]]
          /\ lost' \in BOOLEAN
      BY <1>2, IdleTyped DEF Crash, TypeOK
    <2> QED
      BY <1>2, <2>1 DEF Crash, TypeOK
  <1>3. CASE SubscriberDrops \/ SubscriberReconnects
    <2>1. /\ redis' \in {"up", "down"} /\ inbox' \in {0, 1} /\ connected' \in BOOLEAN
          /\ UNCHANGED <<db, changes, thread, client, index, lost, events>>
      BY <1>3 DEF SubscriberDrops, SubscriberReconnects, TypeOK
    <2> QED
      BY <2>1 DEF TypeOK
  <1>4. CASE StartReload
    <2>1. Hydrated(db) \in Nat
      BY DEF TypeOK, Hydrated, Row
    <2>2. index' \in [pc : {"idle", "reading"}, view : Nat, read : Nat]
      BY <1>4, <2>1 DEF StartReload, TypeOK
    <2>3. inbox' \in Nat
      BY <1>4 DEF StartReload, TypeOK
    <2> QED
      BY <1>4, <2>2, <2>3 DEF StartReload, TypeOK
  <1>5. CASE FinishReload
    <2>1. index' \in [pc : {"idle", "reading"}, view : Nat, read : Nat]
      BY <1>5 DEF FinishReload, TypeOK
    <2> QED
      BY <1>5, <2>1 DEF FinishReload, TypeOK
  <1>6. CASE UNCHANGED signalVars
    BY <1>6 DEF signalVars, TypeOK
  <1> QED
    BY <1>1, <1>2, <1>3, <1>4, <1>5, <1>6, TypesKeptByWorkers, RequestBegins DEF SignalsNext

----------------------------------------------------------------------------
(* The clients: who has locked a publisher holds its lock, so the client   *)
(* it saw missing is still missing when it stores the one it built.        *)

ClientsInv == LockHeld /\ ClientBuiltOnce

LEMMA ClientsKeptByLock ==
    ASSUME TypeOK, RequestsInv, ClientsInv, NEW t \in Threads, LockClient(t)
    PROVE  ClientsInv'
  <1>1. PICK p \in Publishers :
            /\ At(t, p) /\ client[p].holder = NoThread
            /\ client' = [client EXCEPT ![p].holder = t]
            /\ thread' = [thread EXCEPT ![t].pc = "locked",
                                        ![t].fresh = client[p].built = 0]
    BY DEF LockClient, LockFree
  <1>0. /\ thread \in [Threads -> ThreadStates] /\ NoThread \notin Threads
        /\ client \in [Publishers -> [built : Nat, holder : Threads \cup {NoThread}]]
    BY SignalTypes
  <1>2. /\ client'[p].holder = t
        /\ \A q \in Publishers : client'[q].built = client[q].built
        /\ \A q \in Publishers : q # p => client'[q].holder = client[q].holder
    BY <1>0, <1>1
  <1>3. /\ thread'[t].todo = thread[t].todo
        /\ thread'[t].fresh = (client[p].built = 0)
        /\ \A u \in Threads : u # t => thread'[u] = thread[u]
    BY <1>0, <1>1 DEF ThreadStates
  <1>4. ClientBuiltOnce'
    BY <1>2 DEF ClientsInv, ClientBuiltOnce
  <1>5. ASSUME NEW u \in Threads, NEW q \in Publishers, At(u, q)', thread'[u].pc = "locked"
        PROVE  client'[q].holder = u /\ (thread'[u].fresh => client'[q].built = 0)
    <2>1. CASE u = t
      <3>1. q = p
        BY <1>1, <1>3, <1>5, <2>1 DEF At
      <3> QED
        BY <1>2, <1>3, <2>1, <3>1
    <2>2. CASE u # t
      <3>1. At(u, q) /\ thread[u].pc = "locked"
        BY <1>3, <1>5, <2>2 DEF At
      <3>2. client[q].holder = u /\ (thread[u].fresh => client[q].built = 0)
        BY <3>1 DEF ClientsInv, LockHeld
      <3>3. q # p
        BY <1>0, <1>1, <3>2
      <3> QED
        BY <1>2, <1>3, <2>2, <3>2, <3>3
    <2> QED
      BY <2>1, <2>2
  <1>6. LockHeld'
    BY <1>5 DEF LockHeld
  <1> QED
    BY <1>4, <1>6 DEF ClientsInv

LEMMA ClientsKeptByBuild ==
    ASSUME TypeOK, RequestsInv, ClientsInv, NEW t \in Threads, BuildClient(t)
    PROVE  ClientsInv'
  <1>0. /\ thread \in [Threads -> ThreadStates] /\ thread[t] \in ThreadStates
        /\ client \in [Publishers -> [built : Nat, holder : Threads \cup {NoThread}]]
    BY SignalTypes
  <1>1. PICK p \in Publishers :
            /\ At(t, p) /\ thread[t].pc = "locked"
            /\ \/ /\ thread' = [thread EXCEPT ![t].pc = "resolving"]
                  /\ client' = [client EXCEPT
                                  ![p] = [built |-> client[p].built
                                                    + (IF thread[t].fresh THEN 1 ELSE 0),
                                          holder |-> NoThread]]
               \/ /\ client' = [client EXCEPT ![p].holder = NoThread]
                  /\ Proceeds(t)
    BY DEF BuildClient, Swallows
  <1>2. client[p].holder = t /\ (thread[t].fresh => client[p].built = 0)
    BY <1>1 DEF ClientsInv, LockHeld
  <1>3. /\ \A q \in Publishers : q # p => client'[q] = client[q]
        /\ client'[p].built \in {client[p].built, 1}
    <2>1. CASE client' = [client EXCEPT ![p].holder = NoThread]
      BY <1>0, <2>1
    <2>2. CASE client' = [client EXCEPT
                            ![p] = [built |-> client[p].built
                                              + (IF thread[t].fresh THEN 1 ELSE 0),
                                    holder |-> NoThread]]
      <3>1. CASE thread[t].fresh
        BY <1>0, <1>2, <2>2, <3>1
      <3>2. CASE ~thread[t].fresh
        BY <1>0, <2>2, <3>2
      <3> QED
        BY <3>1, <3>2
    <2> QED
      BY <1>1, <2>1, <2>2
  <1>4. ClientBuiltOnce'
    BY <1>3 DEF ClientsInv, ClientBuiltOnce
  <1>5. thread'[t].pc # "locked" /\ \A u \in Threads : u # t => thread'[u] = thread[u]
    <2>1. CASE thread' = [thread EXCEPT ![t].pc = "resolving"]
      BY <1>0, <2>1 DEF ThreadStates
    <2>2. CASE Proceeds(t)
      BY <1>1, <2>2, AtRest, ProceedsMoves DEF WorkerMoves
    <2> QED
      BY <1>1, <2>1, <2>2
  <1>6. ASSUME NEW u \in Threads, NEW q \in Publishers, At(u, q)', thread'[u].pc = "locked"
        PROVE  client'[q].holder = u /\ (thread'[u].fresh => client'[q].built = 0)
    <2>1. u # t /\ At(u, q) /\ thread[u].pc = "locked" /\ thread'[u] = thread[u]
      BY <1>5, <1>6 DEF At
    <2>2. client[q].holder = u /\ (thread[u].fresh => client[q].built = 0)
      BY <2>1 DEF ClientsInv, LockHeld
    <2>3. q # p
      BY <1>2, <2>1, <2>2
    <2> QED
      BY <1>3, <2>1, <2>2, <2>3
  <1>7. LockHeld'
    BY <1>6 DEF LockHeld
  <1> QED
    BY <1>4, <1>7 DEF ClientsInv

\* A step that leaves the clients alone and takes no lock.
LEMMA ClientsKeptOtherwise ==
    ASSUME ClientsInv, client' = client,
           \A u \in Threads : thread'[u] = thread[u] \/ thread'[u].pc # "locked"
    PROVE  ClientsInv'
  <1>1. ClientBuiltOnce'
    BY DEF ClientsInv, ClientBuiltOnce
  <1>2. LockHeld'
    BY DEF ClientsInv, LockHeld, At
  <1> QED
    BY <1>1, <1>2 DEF ClientsInv

LEMMA ClientsKept ==
    ASSUME TypeOK, RequestsInv, ClientsInv, [SignalsNext]_signalVars
    PROVE  ClientsInv'
  <1>1. ASSUME NEW t \in Threads, CommitRow(t) \/ Refresh(t) \/ Send(t)
        PROVE  ClientsInv'
    <2>1. client' = client
      BY <1>1 DEF CommitRow, Refresh, Send
    <2>2. PICK p : At(t, p) /\ (Proceeds(t) \/ Abandons(t))
      BY <1>1 DEF CommitRow, Refresh, Send, Arrives, TimesOut, Swallows
    <2>3. \A u \in Threads : thread'[u] = thread[u] \/ thread'[u].pc = "start"
      BY <2>2, AtRest, ProceedsMoves, AbandonsMoves, IdleTyped DEF WorkerMoves
    <2> QED
      BY <2>1, <2>3, ClientsKeptOtherwise
  <1>2. ASSUME NEW t \in Threads, Began(t)
        PROVE  ClientsInv'
    <2>1. PICK s \in Uncommitted, r \in Row :
              client' = client /\ thread' = [thread EXCEPT ![t] = BegunThread(s, r)]
      BY <1>2 DEF Began
    <2>2. \A u \in Threads : thread'[u] = thread[u] \/ thread'[u].pc = "start"
      BY <2>1, BegunTyped, SignalTypes
    <2> QED
      BY <2>1, <2>2, ClientsKeptOtherwise
  <1>3. CASE Crash
    <2>1. /\ \A t \in Threads : thread'[t].pc = "start"
          /\ \A p \in Publishers : client'[p].built = 0
      BY <1>3, IdleTyped DEF Crash
    <2> QED
      BY <2>1 DEF ClientsInv, LockHeld, ClientBuiltOnce
  <1>4. CASE Outside \/ UNCHANGED signalVars
    <2>1. client' = client /\ thread' = thread
      BY <1>4 DEF Outside, SubscriberDrops, SubscriberReconnects, StartReload,
                  FinishReload, signalVars
    <2> QED
      BY <2>1, ClientsKeptOtherwise
  <1>5. ASSUME NEW t \in Threads, Resolve(t)
        PROVE  ClientsInv'
    <2>1. client' = client
      BY <1>5 DEF Resolve
    <2>2. PICK p : At(t, p) /\ (Proceeds(t) \/ thread' = [thread EXCEPT ![t].pc = "sending"])
      BY <1>5 DEF Resolve, Swallows
    <2>3. \A u \in Threads : thread'[u] = thread[u] \/ thread'[u].pc # "locked"
      <3>1. CASE Proceeds(t)
        BY <2>2, <3>1, AtRest, ProceedsMoves DEF WorkerMoves
      <3>2. CASE thread' = [thread EXCEPT ![t].pc = "sending"]
        BY <3>2, SignalTypes DEF ThreadStates
      <3> QED
        BY <2>2, <3>1, <3>2
    <2> QED
      BY <2>1, <2>3, ClientsKeptOtherwise
  <1> QED
    BY <1>1, <1>2, <1>3, <1>4, <1>5, ClientsKeptByLock, ClientsKeptByBuild, RequestBegins
       DEF SignalsNext, ThreadStep, Outside

----------------------------------------------------------------------------
(* The events: what is sent is what the worker has kept since its webhook  *)
(* was decided.                                                            *)

LEMMA EventsKept ==
    ASSUME TypeOK, RequestsInv, EventsTruthful, [SignalsNext]_signalVars
    PROVE  EventsTruthful'
  <1>1. ASSUME NEW t \in Threads, Send(t)
        PROVE  EventsTruthful'
    <2>1. PICK p \in Publishers : At(t, p) /\ (Arrives(t, p) \/ TimesOut(t, p))
      BY <1>1 DEF Send
    <2>2. CASE p = "events"
      <3>1. thread[t].todo = <<"events">>
        BY <2>1, <2>2, AtRest
      <3>2. Truthful(thread[t].event)
        BY <3>1 DEF RequestsInv, EventsPending, Announcing
      <3>3. events' \subseteq events \cup {thread[t].event}
        BY <2>1 DEF Arrives, TimesOut, Swallows, EventSent
      <3> QED
        BY <3>2, <3>3 DEF EventsTruthful, Truthful
    <2>3. CASE p # "events"
      BY <2>1, <2>3 DEF Arrives, TimesOut, Swallows, EventsTruthful
    <2> QED
      BY <2>2, <2>3
  <1>2. ASSUME UNCHANGED events
        PROVE  EventsTruthful'
    BY <1>2 DEF EventsTruthful
  <1>3. ASSUME NEW t \in Threads, ThreadStep(t), ~Send(t)
        PROVE  UNCHANGED events
    BY <1>3 DEF ThreadStep, CommitRow, Refresh, LockClient, BuildClient, Resolve, Swallows
  <1>4. ASSUME NEW t \in Threads, Request(t)
        PROVE  UNCHANGED events
    BY <1>4, RequestBegins DEF Began
  <1>5. ASSUME Crash \/ Outside \/ UNCHANGED signalVars
        PROVE  UNCHANGED events
    BY <1>5 DEF Crash, Outside, SubscriberDrops, SubscriberReconnects, StartReload,
                FinishReload, signalVars
  <1> QED
    BY <1>1, <1>2, <1>3, <1>4, <1>5 DEF SignalsNext, Outside

----------------------------------------------------------------------------
(* The index: every step that could take it away from the row leaves a     *)
(* reload due, and a reload reads the row as it is.                        *)

LEMMA IndexKeptByCommit ==
    ASSUME TypeOK, RequestsInv, IndexFollows, NEW t \in Threads, CommitRow(t)
    PROVE  IndexFollows'
  <1>0. /\ thread[t].todo \in Uncommitted /\ thread[t].todo # << >>
        /\ UNCHANGED <<lost, connected, inbox, index>>
    BY AtRest DEF CommitRow
  <1>1. WorkerMoves(t)
    BY WorkerSteps DEF ThreadStep
  <1>2. thread[t].todo \notin Owing
    BY <1>0 DEF Uncommitted, Owing
  <1>3. ReloadDue => ReloadDue'
    BY <1>0, <1>1, <1>2 DEF ReloadDue, WorkerMoves
  <1>4. CASE db' = db
    BY <1>0, <1>3, <1>4 DEF IndexFollows, Matches
  <1>5. CASE Proceeds(t) /\ db' = thread[t].row
    <2>1. thread'[t].todo = Rest(thread[t].todo)
      BY <1>0, <1>5, ProceedsMoves
    <2>2. CASE thread[t].todo \in Quiet
      <3>1. db'.matching = db.matching /\ db'.build # "idle"
        BY <1>5, <2>2 DEF RequestsInv, QuietWrites
      <3> QED
        BY <1>0, <1>3, <3>1 DEF IndexFollows, Matches
    <2>3. CASE thread[t].todo \notin Quiet
      <3>1. thread'[t].todo \in Owing
        BY <1>0, <2>1, <2>3, RestAfterCommit DEF Uncommitted, Quiet, Owing
      <3> QED
        BY <3>1 DEF IndexFollows, ReloadDue
    <2> QED
      BY <2>2, <2>3
  <1> QED
    BY <1>4, <1>5 DEF CommitRow

\* A signal that goes is in the subscriber's inbox, lost, or not needed: the
\* subscriber reloads when it is connected again.
LEMMA IndexKeptByWorkers ==
    ASSUME TypeOK, RequestsInv, IndexFollows, NEW t \in Threads, ThreadStep(t), ~CommitRow(t)
    PROVE  IndexFollows'
  <1>0. /\ WorkerMoves(t) /\ UNCHANGED <<db, connected, index>> /\ inbox \in Nat
        /\ lost \in BOOLEAN /\ connected \in BOOLEAN
    <2>1. WorkerMoves(t)
      BY WorkerSteps
    <2>2. UNCHANGED <<db, connected, index>>
      BY DEF ThreadStep, Refresh, LockClient, BuildClient, Resolve, Send
    <2> QED
      BY <2>1, <2>2 DEF TypeOK
  <1>1. /\ lost => lost'
        /\ inbox > 0 => inbox' > 0
    BY <1>0 DEF ThreadStep, Refresh, LockClient, BuildClient, Resolve, Send, Arrives,
                TimesOut, Swallows
  <1>2. CASE thread'[t].todo = thread[t].todo \/ thread[t].todo \notin Owing
    <2>1. ReloadDue => ReloadDue'
      BY <1>0, <1>1, <1>2 DEF ReloadDue, WorkerMoves
    <2> QED
      BY <1>0, <2>1 DEF IndexFollows, Matches
  <1>3. CASE thread'[t].todo # thread[t].todo /\ thread[t].todo \in Owing
    <2>1. CASE Refresh(t)
      <3>1. thread[t].todo = <<"refresh", "reload">>
        BY <2>1, AtRest DEF Refresh
      <3>2. thread[t].todo # << >> /\ Rest(thread[t].todo) = <<"reload">>
        BY <3>1 DEF Rest
      <3>3. lost' \/ thread'[t].todo = <<"reload">>
        BY <2>1, <3>2, ProceedsMoves DEF Refresh
      <3>4. <<"reload">> \in Owing
        BY DEF Owing
      <3> QED
        BY <3>3, <3>4 DEF IndexFollows, ReloadDue
    <2>2. CASE LockClient(t)
      <3>1. thread'[t].todo = thread[t].todo
        BY <2>2, SignalTypes DEF LockClient, ThreadStates
      <3> QED
        BY <1>3, <3>1
    <2>3. ASSUME NEW p \in Publishers, At(t, p), Swallows(t, p) \/ Arrives(t, p)
          PROVE  IndexFollows'
      <3>1. p = "reload"
        BY <1>3, <2>3, AtRest DEF Publishers, Owing
      <3>2. lost' \/ ~connected \/ inbox' > 0
        BY <1>0, <2>3, <3>1 DEF Swallows, Arrives
      <3> QED
        BY <1>0, <3>2 DEF IndexFollows, ReloadDue
    <2>4. CASE BuildClient(t)
      <3>1. CASE thread' = [thread EXCEPT ![t].pc = "resolving"]
        <4>1. thread'[t].todo = thread[t].todo
          BY <3>1, SignalTypes DEF ThreadStates
        <4> QED
          BY <1>3, <4>1
      <3> QED
        BY <2>3, <2>4, <3>1 DEF BuildClient
    <2>5. CASE Send(t)
      BY <2>3, <2>5 DEF Send, TimesOut
    <2>6. CASE Resolve(t)
      <3>1. CASE thread' = [thread EXCEPT ![t].pc = "sending"]
        <4>1. thread'[t].todo = thread[t].todo
          BY <3>1, SignalTypes DEF ThreadStates
        <4> QED
          BY <1>3, <4>1
      <3> QED
        BY <2>3, <2>6, <3>1 DEF Resolve
    <2> QED
      BY <2>1, <2>2, <2>4, <2>5, <2>6 DEF ThreadStep
  <1> QED
    BY <1>2, <1>3

LEMMA IndexKept ==
    ASSUME TypeOK, RequestsInv, IndexFollows, [SignalsNext]_signalVars
    PROVE  IndexFollows'
  <1>1. ASSUME NEW t \in Threads, Began(t)
        PROVE  IndexFollows'
    <2>1. PICK s \in Uncommitted, r \in Row :
              /\ thread[t].todo = << >>
              /\ thread' = [thread EXCEPT ![t] = BegunThread(s, r)]
              /\ UNCHANGED <<db, inbox, connected, index, lost>>
      BY <1>1 DEF Began
    <2>2. \A u \in Threads : thread[u].todo \in Owing => thread'[u].todo \in Owing
      <3>1. << >> \notin Owing
        BY DEF Owing
      <3>2. \A u \in Threads : u # t => thread'[u] = thread[u]
        BY <2>1, SignalTypes
      <3> QED
        BY <2>1, <3>1, <3>2
    <2>3. ReloadDue => ReloadDue'
      BY <2>1, <2>2 DEF ReloadDue
    <2> QED
      BY <2>1, <2>3 DEF IndexFollows, Matches
  <1>2. CASE Crash
    <2>1. UNCHANGED <<db, inbox, connected, index>>
      BY <1>2 DEF Crash
    <2>2. (\E t \in Threads : thread[t].todo \in Owing) \/ lost => lost'
      BY <1>2, SignalTypes, PendingRests DEF Crash
    <2>3. ReloadDue => ReloadDue'
      BY <2>1, <2>2 DEF ReloadDue
    <2> QED
      BY <2>1, <2>3 DEF IndexFollows, Matches
  <1>3. CASE SubscriberDrops \/ SubscriberReconnects
    <2>1. ReloadDue'
      BY <1>3 DEF SubscriberDrops, SubscriberReconnects, ReloadDue
    <2> QED
      BY <2>1 DEF IndexFollows
  <1>4. CASE StartReload
    <2>1. db \in Row /\ db.definition # 0 /\ db' = db
      BY <1>4 DEF StartReload, TypeOK, RequestsInv, RowsSound, RowSound
    <2>2. index'.pc = "reading" /\ index'.read = Hydrated(db)
      BY <1>4 DEF StartReload, TypeOK
    <2>3. Matches(index.read)'
      BY <2>1, <2>2 DEF Matches, Hydrated
    <2> QED
      BY <2>2, <2>3 DEF IndexFollows
  <1>5. CASE FinishReload
    <2>1. /\ index.pc = "reading" /\ index'.pc = "idle" /\ index'.view = index.read
          /\ UNCHANGED <<db, thread, inbox, connected, lost>>
      BY <1>5 DEF FinishReload, TypeOK
    <2> QED
      BY <2>1 DEF IndexFollows, Matches, ReloadDue
  <1>6. CASE UNCHANGED signalVars
    BY <1>6 DEF signalVars, IndexFollows, Matches, ReloadDue
  <1> QED
    BY <1>1, <1>2, <1>3, <1>4, <1>5, <1>6, IndexKeptByCommit, IndexKeptByWorkers, RequestBegins
       DEF SignalsNext

----------------------------------------------------------------------------
LEMMA SignalsInitially ==
    ASSUME SignalsInit
    PROVE  SignalsInv
  <1>1. /\ FirstRow \in Row /\ EnabledRow \in Row
        /\ EnabledRow.matching = "active" /\ EnabledRow.build = "idle"
        /\ EnabledRow.sha = 1 /\ EnabledRow.digest = 1 /\ EnabledRow.definition = 1
    <2>1. FirstRow \in Row /\ FirstRow.sha = 1 /\ FirstRow.definition = 1
      BY IdleTyped DEF FirstRow
    <2> QED
      BY <2>1 DEF EnabledRow, Row, BuildStates
  <1>2. /\ \A t \in Threads : thread[t] = IdleThread
        /\ db \in {FirstRow, EnabledRow} /\ changes = 1
        /\ index.pc = "idle" /\ index.view = Hydrated(db) /\ index.read = 0
    BY DEF SignalsInit
  <1>3. TypeOK
    <2>1. Hydrated(db) \in Nat
      BY <1>1, <1>2 DEF Hydrated, Row
    <2>2. index \in [pc : {"idle", "reading"}, view : Nat, read : Nat]
      BY <2>1 DEF SignalsInit
    <2>3. thread \in [Threads -> ThreadStates]
      BY IdleTyped DEF SignalsInit
    <2>4. client \in [Publishers -> [built : Nat, holder : Threads \cup {NoThread}]]
      BY DEF SignalsInit
    <2>5. changes \in 1..(MaxChanges + 1)
      BY <1>2, SignalsAssumption
    <2> QED
      BY <1>1, <2>2, <2>3, <2>4, <2>5 DEF TypeOK, SignalsInit
  <1>4. RequestsInv
    <2>0. /\ << >> \in Rests /\ << >> \notin Uncommitted /\ << >> \notin Quiet
          /\ << >> \notin Announcing
      BY DEF Rests, Uncommitted, Quiet, Announcing
    <2>1. RestsKnown /\ OneWriter /\ QuietWrites /\ EventsPending
      BY <1>2, <2>0, IdleTyped DEF RestsKnown, OneWriter, QuietWrites, EventsPending
    <2>2. RowSound(FirstRow) /\ RowSound(EnabledRow)
      BY <1>1, <1>2 DEF RowSound, FirstRow
    <2>3. RowsSound
      BY <1>2, <2>2, IdleTyped DEF RowsSound
    <2> QED
      BY <2>1, <2>3 DEF RequestsInv
  <1>5. EventsTruthful
    BY DEF SignalsInit, EventsTruthful
  <1>6. LockHeld /\ ClientBuiltOnce
    BY <1>2, IdleTyped DEF SignalsInit, LockHeld, ClientBuiltOnce
  <1>7. IndexFollows
    <2>1. Matches(Hydrated(db))
      BY <1>1, <1>2 DEF Matches, Hydrated, FirstRow
    <2> QED
      BY <1>2, <2>1 DEF IndexFollows
  <1> QED
    BY <1>3, <1>4, <1>5, <1>6, <1>7 DEF SignalsInv

LEMMA SignalsInductive == SignalsInv /\ [SignalsNext]_signalVars => SignalsInv'
  BY RequestsKept, TypesKept, ClientsKept, EventsKept, IndexKept DEF SignalsInv, ClientsInv

LEMMA SignalsAlways == SignalsSpec => []SignalsInv
  BY SignalsInitially, SignalsInductive, PTL DEF SignalsSpec

\* Every variable keeps its type, for any number of workers and requests.
THEOREM TypeCorrect == SignalsSpec => []TypeOK
  <1>1. SignalsInv => TypeOK
    BY DEF SignalsInv
  <1> QED
    BY <1>1, SignalsAlways, PTL

\* Once the reload signals sent so far have been acted on, the matcher's index
\* agrees with the row: lifecycle.py, cascade.py and builds.py commit before they
\* publish, and every write without a signal (an edit, a failed build) is one the
\* index does not depend on.
THEOREM IndexPrompt == SignalsSpec => []PromptIndex
  <1>1. SignalsInv => PromptIndex
    <2> SUFFICES ASSUME SignalsInv, Settled
                 PROVE  Matches(index.view)
      BY DEF PromptIndex, Matches
    <2>1. \A t \in Threads : thread[t].todo \notin Owing
      BY SignalTypes, PendingRests DEF SignalsInv, Settled
    <2>2. ~ReloadDue
      BY <2>1 DEF Settled, ReloadDue
    <2> QED
      BY <2>2 DEF SignalsInv, IndexFollows, Settled
  <1> QED
    BY <1>1, SignalsAlways, PTL

\* A published build event tells what its webhook committed: the event is built
\* under the row lock (builds.py) and nothing re-reads the row to send it.
THEOREM EventsTrue == SignalsSpec => []EventsTruthful
  <1>1. SignalsInv => EventsTruthful
    BY DEF SignalsInv
  <1> QED
    BY <1>1, SignalsAlways, PTL

\* Each publisher's client is built at most once per process, however many
\* workers publish for the first time at once: the lock covers the check and the
\* build.
THEOREM ClientOnce == SignalsSpec => []ClientBuiltOnce
  <1>1. SignalsInv => ClientBuiltOnce
    BY DEF SignalsInv
  <1> QED
    BY <1>1, SignalsAlways, PTL
==============================================================================
