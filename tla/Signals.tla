-------------------------------- MODULE Signals --------------------------------
(***************************************************************************)
(* The reload signal and the build events: what each request commits and   *)
(* what it publishes afterwards, the publishers' lazily built clients, and *)
(* the matcher's index that the signal keeps in step with the database.    *)
(*                                                                         *)
(* The row is reduced to what is published about it: the matching state,   *)
(* the build axis, the active digest and the definition (both named by the *)
(* commit they came with).  A request is its last, row-locked transaction  *)
(* and what follows it; ControlPlane has what happens before.              *)
(***************************************************************************)
EXTENDS Naturals, Sequences

CONSTANTS
    Threads,        \* threadpool workers serving requests
    NoThread,       \* a lock nobody holds
    MaxChanges      \* bound on requests

ASSUME SignalsAssumption == NoThread \notin Threads /\ MaxChanges \in Nat

VARIABLES
    db,         \* the committed row
    changes,    \* requests so far
    thread,     \* per worker: the rest of its request
    client,     \* per publisher: clients built, and who holds the lock
    redis,      \* whether Redis answers
    inbox,      \* reload signals the subscriber has still to act on
    connected,  \* whether the subscriber is connected
    index,      \* the matcher's index and the reload under way
    lost,       \* whether a reload signal was lost since the last reload
    events      \* the build events published so far

signalVars == <<db, changes, thread, client, redis, inbox, connected, index,
                lost, events>>

Publishers == {"reload", "events"}
Steps == {"commit", "refresh"} \cup Publishers

BuildStates == {"idle", "building", "build_failed"}

Row == [matching : {"inactive", "active", "deleting"}, build : BuildStates,
        sha : Nat, digest : Nat, definition : Nat]

Event == [sha : Nat, build : BuildStates, digest : Nat]

FirstRow == [matching |-> "inactive", build |-> "building", sha |-> 1,
             digest |-> 0, definition |-> 1]

\* pc is where the worker stands in the publish at the head of `todo`; `row`
\* is what its transaction writes; `fresh` is what it saw under the lock.
IdleThread == [pc |-> "start", todo |-> << >>, row |-> FirstRow,
               fresh |-> FALSE,
               event |-> [sha |-> 0, build |-> "idle", digest |-> 0]]

ThreadStates == [pc : {"start", "locked", "resolving", "sending"}, todo : Seq(Steps),
                 row : Row, fresh : BOOLEAN, event : Event]

Pending(t, step) == \E i \in 1..Len(thread[t].todo) : thread[t].todo[i] = step

\* What hydration reads: the definitions of the active automations.
Hydrated(r) == IF r.matching = "active" THEN r.definition ELSE 0

\* A row whose first build was cut over and that was enabled since.
EnabledRow == [FirstRow EXCEPT !.matching = "active", !.build = "idle", !.digest = 1]

SignalsInit ==
    /\ db \in {FirstRow, EnabledRow}
    /\ changes = 1
    /\ thread = [t \in Threads |-> IdleThread]
    /\ client = [p \in Publishers |-> [built |-> 0, holder |-> NoThread]]
    /\ redis = "up"
    /\ inbox = 0
    /\ connected = TRUE
    /\ index = [pc |-> "idle", view |-> Hydrated(db), read |-> 0]
    /\ lost = FALSE
    /\ events = {}

----------------------------------------------------------------------------
(***************************************************************************)
(* Requests.  Each locks the row, decides on what it reads and writes,     *)
(* commits, and only then publishes.                                       *)
(***************************************************************************)

PublishThenCommit(after) == after \o <<"commit">>

CommitThenPublish(after) == <<"commit">> \o after

BuildEvent(r, sha) == [sha |-> sha, build |-> r.build, digest |-> r.digest]

\* The row lock is held from the read to the commit.
Begins(t, r, after) ==
    /\ thread[t].todo = << >>
    /\ \A u \in Threads : ~Pending(u, "commit")
    /\ changes < MaxChanges
    /\ changes' = changes + 1
    /\ thread' = [thread EXCEPT ![t] =
                    [IdleThread EXCEPT !.todo = CommitThenPublish(after),
                                       !.row = r,
                                       !.event = BuildEvent(r, db.sha)]]
    /\ UNCHANGED <<db, client, redis, inbox, connected, index, lost, events>>

Usable == db.matching \in {"inactive", "active"}

Toggle(t, target) ==
    /\ Usable
    /\ target = "active" => db.digest # 0
    /\ Begins(t, [db EXCEPT !.matching = target], <<"refresh", "reload">>)

BeginDelete(t) ==
    /\ Usable
    /\ db.build # "building"
    /\ Begins(t, [db EXCEPT !.matching = "deleting"], <<"refresh", "reload">>)

\* An edit writes the new definition and publishes nothing.
Edit(t) ==
    /\ Usable
    /\ db.build # "building"
    /\ Begins(t, [db EXCEPT !.build = "building", !.sha = changes + 1,
                            !.definition = changes + 1], << >>)

\* A success also overrides the failure recorded for the same commit.
CutOver(t) ==
    /\ Usable
    /\ db.build \in {"building", "build_failed"}
    /\ Begins(t, [db EXCEPT !.build = "idle", !.digest = db.sha],
              <<"reload", "events">>)

FailBuildUnnamed(t) ==
    /\ Usable
    /\ db.build = "building"
    /\ Begins(t, [db EXCEPT !.build = "failed"], <<"events">>)

FailBuild(t) ==
    /\ Usable
    /\ db.build = "building"
    /\ Begins(t, [db EXCEPT !.build = "build_failed"], <<"events">>)

\* Manual release of a stuck build (external): no signal.
ReleaseStuckBuild(t) ==
    /\ Usable
    /\ db.build = "building"
    /\ Begins(t, [db EXCEPT !.build = "build_failed"], << >>)

----------------------------------------------------------------------------
At(t, step) == thread[t].todo # << >> /\ Head(thread[t].todo) = step

Proceeds(t) ==
    LET todo == thread[t].todo IN
    thread' = [thread EXCEPT ![t] =
                 IF Len(todo) = 1 THEN IdleThread
                 ELSE [thread[t] EXCEPT !.todo = Tail(todo), !.pc = "start",
                                        !.fresh = FALSE]]

Abandons(t) == thread' = [thread EXCEPT ![t] = IdleThread]

CommitRow(t) ==
    /\ At(t, "commit")
    /\ \/ Proceeds(t) /\ db' = thread[t].row
       \/ Abandons(t) /\ UNCHANGED db       \* the commit raises
    /\ UNCHANGED <<changes, client, redis, inbox, connected, index, lost, events>>

\* The re-read after the commit; when it raises nothing is published.
Refresh(t) ==
    /\ At(t, "refresh")
    /\ \/ Proceeds(t) /\ UNCHANGED lost
       \/ Abandons(t) /\ lost' = TRUE
    /\ UNCHANGED <<db, changes, client, redis, inbox, connected, index, events>>

----------------------------------------------------------------------------
(***************************************************************************)
(* Publishing: get the process's client under the publisher's lock, send,  *)
(* and swallow whatever goes wrong.                                        *)
(***************************************************************************)

LockIgnored(p) == TRUE

LockFree(p) == client[p].holder = NoThread

LockClient(t) ==
    \E p \in Publishers :
        /\ At(t, p)
        /\ thread[t].pc = "start"
        /\ LockFree(p)
        /\ client' = [client EXCEPT ![p].holder = t]
        /\ thread' = [thread EXCEPT ![t].pc = "locked",
                                    ![t].fresh = client[p].built = 0]
        /\ UNCHANGED <<db, changes, redis, inbox, connected, index, lost, events>>

\* A publish that fails: the exception is logged and the request goes on.
Swallows(t, p) ==
    /\ Proceeds(t)
    /\ lost' = (lost \/ (p = "reload" /\ connected))
    /\ UNCHANGED <<inbox, events>>

BuildClientLeakingLock(t) ==
    \E p \in Publishers :
        /\ At(t, p)
        /\ thread[t].pc = "locked"
        /\ \/ /\ thread' = [thread EXCEPT ![t].pc = "resolving"]
              /\ client' = [client EXCEPT
                              ![p] = [built |-> @.built + (IF thread[t].fresh THEN 1 ELSE 0),
                                      holder |-> NoThread]]
              /\ UNCHANGED <<inbox, lost, events>>
           \/ /\ thread[t].fresh
              /\ Swallows(t, p)
              /\ UNCHANGED client
        /\ UNCHANGED <<db, changes, redis, connected, index>>

\* Leaving the `with` block frees the lock whether or not the build raised.
BuildClient(t) ==
    \E p \in Publishers :
        /\ At(t, p)
        /\ thread[t].pc = "locked"
        /\ \/ /\ thread' = [thread EXCEPT ![t].pc = "resolving"]
              /\ client' = [client EXCEPT
                              ![p] = [built |-> @.built + (IF thread[t].fresh THEN 1 ELSE 0),
                                      holder |-> NoThread]]
              /\ UNCHANGED <<inbox, lost, events>>
           \/ /\ thread[t].fresh
              /\ client' = [client EXCEPT ![p].holder = NoThread]
              /\ Swallows(t, p)
        /\ UNCHANGED <<db, changes, redis, connected, index>>

\* Connecting looks Redis's host up first (external).  The socket timeouts do
\* not bound the lookup: it may never return.
Resolve(t) ==
    \E p \in Publishers :
        /\ At(t, p)
        /\ thread[t].pc = "resolving"
        /\ \/ /\ thread' = [thread EXCEPT ![t].pc = "sending"]
              /\ UNCHANGED <<inbox, lost, events>>
           \/ Swallows(t, p)
        /\ UNCHANGED <<db, changes, client, redis, connected, index>>

EventReread(t) == BuildEvent(db, thread[t].event.sha)

EventSent(t) == thread[t].event

Arrives(t, p) ==
    /\ redis = "up"
    /\ Proceeds(t)
    /\ inbox' = IF p = "reload" /\ connected THEN inbox + 1 ELSE inbox
    /\ events' = IF p = "events" THEN events \cup {EventSent(t)} ELSE events
    /\ UNCHANGED lost

\* socket_timeout and socket_connect_timeout bound the call from here.
TimesOut(t, p) == Swallows(t, p)

Send(t) ==
    \E p \in Publishers :
        /\ At(t, p)
        /\ thread[t].pc = "sending"
        /\ Arrives(t, p) \/ TimesOut(t, p)
        /\ UNCHANGED <<db, changes, client, redis, connected, index>>

----------------------------------------------------------------------------
(***************************************************************************)
(* The process, Redis and keep-event-handler's subscriber (external): it   *)
(* reloads the whole index on a signal, on reconnecting, and periodically. *)
(***************************************************************************)

\* The process dies and restarts: its clients and pending publishes go.
Crash ==
    /\ lost' = (lost \/ \E t \in Threads :
                    Pending(t, "reload") /\ ~Pending(t, "commit"))
    /\ thread' = [t \in Threads |-> IdleThread]
    /\ client' = [p \in Publishers |-> [built |-> 0, holder |-> NoThread]]
    /\ UNCHANGED <<db, changes, redis, inbox, connected, index, events>>

SubscriberDrops ==
    /\ redis' \in {redis, "down"}
    /\ connected' = FALSE
    /\ inbox' = 0
    /\ UNCHANGED <<db, changes, thread, client, index, lost, events>>

SubscriberReconnects ==
    /\ ~connected
    /\ redis' = "up"
    /\ connected' = TRUE
    /\ inbox' = 1
    /\ UNCHANGED <<db, changes, thread, client, index, lost, events>>

StartReload ==
    /\ index.pc = "idle"
    /\ index' = [index EXCEPT !.pc = "reading", !.read = Hydrated(db)]
    /\ inbox' = IF inbox > 0 THEN inbox - 1 ELSE 0     \* 0: the periodic one
    /\ lost' = FALSE
    /\ UNCHANGED <<db, changes, thread, client, redis, connected, events>>

FinishReload ==
    /\ index.pc = "reading"
    /\ index' = [index EXCEPT !.pc = "idle", !.view = index.read, !.read = 0]
    /\ UNCHANGED <<db, changes, thread, client, redis, inbox, connected, lost,
                   events>>

----------------------------------------------------------------------------
ThreadStep(t) ==
    \/ CommitRow(t) \/ Refresh(t) \/ LockClient(t) \/ BuildClient(t)
    \/ Resolve(t) \/ Send(t)

Request(t) ==
    \/ Toggle(t, "active") \/ Toggle(t, "inactive")
    \/ BeginDelete(t) \/ Edit(t) \/ CutOver(t) \/ FailBuild(t) \/ ReleaseStuckBuild(t)

SignalsNext ==
    \/ \E t \in Threads : ThreadStep(t) \/ Request(t)
    \/ Crash \/ SubscriberDrops \/ SubscriberReconnects
    \/ StartReload \/ FinishReload

SignalsSpec == SignalsInit /\ [][SignalsNext]_signalVars

\* The threadpool runs its workers, the database answers or raises, and the
\* socket timeouts bound connecting and sending.  Neither the resolver nor
\* Redis owes anything.
SignalsFairSpec ==
    /\ SignalsSpec
    /\ \A t \in Threads : WF_signalVars(ThreadStep(t) /\ thread[t].pc # "resolving")

----------------------------------------------------------------------------
TypeOK ==
    /\ db \in Row
    /\ changes \in 1..(MaxChanges + 1)
    /\ thread \in [Threads -> ThreadStates]
    /\ client \in [Publishers -> [built : Nat, holder : Threads \cup {NoThread}]]
    /\ redis \in {"up", "down"}
    /\ inbox \in Nat
    /\ connected \in BOOLEAN /\ lost \in BOOLEAN
    /\ index \in [pc : {"idle", "reading"}, view : Nat, read : Nat]
    /\ events \subseteq Event

\* Nothing is on its way to the index and no signal was lost.
Settled ==
    /\ ~lost /\ connected /\ inbox = 0 /\ index.pc = "idle"
    /\ \A t \in Threads : ~Pending(t, "reload")

\* Once the signals sent so far have been acted on, the matcher matches
\* exactly the automations the database calls active, and with the definition
\* the running build was made from: every change the matcher reads is followed
\* by a signal, sent after the commit (lifecycle.py, cascade.py, builds.py).
PromptIndex ==
    Settled =>
        /\ (index.view # 0) <=> (db.matching = "active")
        /\ (db.matching = "active" /\ db.build = "idle") => index.view = db.definition

\* A published build event tells what its webhook committed, however late it
\* is sent and whatever other requests did to the row in between.
EventsTruthful ==
    \A e \in events :
        \/ e.build = "idle" /\ e.digest = e.sha
        \/ e.build = "build_failed" /\ e.digest # e.sha

\* The process builds at most one Redis client per publisher, however many
\* workers publish for the first time at once.
ClientBuiltOnce == \A p \in Publishers : client[p].built <= 1

\* One worker hung in a lookup holds up no other: the client's lock is free
\* again before anything is sent, whether or not the client could be built, so
\* every worker gets on to its own lookup, and past it back to its caller even
\* when Redis never answers (reload.py's _get_client and publish_reload).
HeldUpOnlyByResolver ==
    \A t \in Threads :
        (thread[t].todo # << >>) ~> (thread[t].todo = << >> \/ thread[t].pc = "resolving")

\* What config.py says of REDIS_PUBLISH_TIMEOUT_SECONDS: it bounds connect and
\* publish, so that Redis never turns a request into a hung one.  Refuted: the
\* lookup of Redis's host, which connecting begins with, is not bounded.
PublishersReturn ==
    \A t \in Threads : (thread[t].todo # << >>) ~> (thread[t].todo = << >>)
==============================================================================
