------------------------------- MODULE Resolver -------------------------------
(***************************************************************************)
(* _resolve_bounded: getaddrinfo in a worker thread of a single-use        *)
(* executor, waited for with a timeout.  The executor is left through its  *)
(* `with` block, which joins the worker before anything is returned or     *)
(* raised: after the timeout the caller still waits, now without a bound.  *)
(***************************************************************************)
EXTENDS Validation

CONSTANT Requests       \* the requests that may carry a logstash_url

VARIABLE
    lookups     \* per request: where the caller and its worker stand

\* `worker`: what getaddrinfo has returned so far, NULL while it runs.
NoLookup == [pc |-> "idle", worker |-> NULL, answer |-> NULL]

LookupStates == [pc : {"idle", "waiting", "joining", "done"},
                 worker : Lookups \cup {NULL},
                 answer : Lookups \cup {NULL, TimedOut}]

ResolverInit == lookups = [q \in Requests |-> NoLookup]

Resolving(q) == lookups[q].pc \in {"waiting", "joining"}

StartLookup(q) ==
    /\ lookups[q].pc = "idle"
    /\ lookups' = [lookups EXCEPT ![q].pc = "waiting"]

\* The operating system answers (external), if it ever does.
GetaddrinfoReturns(q, answer) ==
    /\ Resolving(q)
    /\ lookups[q].worker = NULL
    /\ answer # TimedOut
    /\ lookups' = [lookups EXCEPT ![q].worker = answer]

\* future.result in time, or after the three seconds.
LookupInTime(q) ==
    /\ lookups[q].pc = "waiting"
    /\ lookups[q].worker # NULL
    /\ lookups' = [lookups EXCEPT ![q] =
                      [pc |-> "done", worker |-> NULL, answer |-> @.worker]]

LookupExpires(q) ==
    /\ lookups[q].pc = "waiting"
    /\ lookups' = [lookups EXCEPT ![q].pc = "joining"]

\* Leaving the `with` block; then the timeout propagates.
LookupJoined(q) ==
    /\ lookups[q].pc = "joining"
    /\ lookups[q].worker # NULL
    /\ lookups' = [lookups EXCEPT ![q] =
                      [pc |-> "done", worker |-> NULL, answer |-> TimedOut]]

ResolverTypeOK == lookups \in [Requests -> LookupStates]

\* "getaddrinfo itself honors no timeout, so it is additionally bounded by a
\* single-use executor + future.result(3s)": no request resolves for ever.
ResolutionBounded == \A q \in Requests : Resolving(q) ~> ~Resolving(q)
==============================================================================
