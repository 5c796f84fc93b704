--------------------------- MODULE MCScriptPipeline ---------------------------
(* A POST and two PUTs.  The POST brings every list of up to four conditions, *)
(* the boundary values of every other part, and every combination of parts    *)
(* that are wrong at once.                                                    *)
EXTENDS ScriptPipeline

CONSTANTS q1, q2, q3, f1, f2, f3, Empty, Nested

\* Image 1, a name nobody pushed, and names no segment may have.
MCNames == {1, 2, Dot, DotDot, Empty, Nested}
MCCharsOf == [n \in MCNames |-> CASE n \in {1, 2} -> {"digit"}
                                  [] n \in {Dot, DotDot} -> {"."}
                                  [] n = Empty -> {}
                                  [] n = Nested -> {"letter", "/"}]

Condition(field, long) ==
    [shape |-> TRUE, field |-> field, encodes |-> TRUE, long |-> long]
Malformed == [Condition(Unknown, FALSE) EXCEPT !.shape = FALSE]
Surrogate == [Condition(f1, FALSE) EXCEPT !.encodes = FALSE]

Conditions == {Malformed, Condition(Unknown, FALSE), Condition(f1, FALSE),
               Condition(f2, FALSE), Condition(f1, TRUE), Condition(f3, FALSE)}

Script(handles) ==
    [large |-> FALSE, deep |-> FALSE, parses |-> TRUE, handles |-> handles]

Good == [blank |-> FALSE,
         triggers |-> <<Condition(f1, FALSE), Condition(f2, FALSE)>>,
         cooldown_seconds |-> NULL, cooldown_fields |-> NULL,
         timeout_seconds |-> NULL, grace_seconds |-> NULL,
         logstash_url |-> NULL, script |-> Script(<<1>>)]

MCLookups == {TimedOut, NotFound, Failed, Resolved({"global"}),
              Resolved({"global", "private"}), Resolved({"unparsable"})}

UpTo(S, n) == UNION {[1..m -> S] : m \in 0..n}

\* Each part right or wrong, and the bodies on which a rule raises.
MCFaultyTogether ==
    {[blank |-> b, triggers |-> t, cooldown_seconds |-> s, cooldown_fields |-> f,
      timeout_seconds |-> u, grace_seconds |-> g, logstash_url |-> l,
      script |-> x] :
        b \in BOOLEAN,
        t \in {Good.triggers, <<Malformed, Condition(f1, TRUE), Condition(f1, FALSE)>>,
               <<Surrogate, Condition(f2, FALSE)>>},
        s \in {NULL, 0}, f \in {NULL, <<Unknown>>},
        u \in {NULL, 901}, g \in {NULL, 59}, l \in {NULL, "http", "https", "malformed"},
        x \in {Script(<<1>>), Script(<<>>), [Script(<<1>>) EXCEPT !.deep = TRUE]}}

MCSamples ==
    {[Good EXCEPT !.triggers = t] : t \in UpTo(Conditions, 4)}
    \cup {[Good EXCEPT !.triggers = [i \in 1..12 |-> Condition(Unknown, TRUE)]]}
    \cup {[Good EXCEPT !.cooldown_seconds = s, !.cooldown_fields = f] :
            s \in {NULL, -1, 0, 1, 86400, 86401},
            f \in {NULL} \cup UpTo({f1, Unknown}, 4)}
    \cup {[Good EXCEPT !.timeout_seconds = s] : s \in {0, 1, 900, 901}}
    \cup {[Good EXCEPT !.grace_seconds = s] : s \in {0, 59, 60, 3600, 3601}}
    \cup {[Good EXCEPT !.logstash_url = u] : u \in {"http", "https"}}
    \cup {[Good EXCEPT !.script = Script(h)] : h \in UpTo(0..3, 2)}
    \cup {[Good EXCEPT !.script.large = l, !.script.parses = p, !.blank = b] :
            l, p, b \in BOOLEAN}
    \cup MCFaultyTogether

\* What AcceptsValid and EveryFaultReported (ScriptPipeline_proofs) ask of the
\* bodies and lookups.
ASSUME SamplesFit ==
    /\ \A d \in MCSamples : DraftTyped(d)
    /\ \A l \in MCLookups : l.addresses \subseteq Addresses

\* The POST brings every sample, the PUTs a body that passes.
MCDrafts == [q \in Requests |-> IF q = q1 THEN MCSamples ELSE {Good}]
==============================================================================
