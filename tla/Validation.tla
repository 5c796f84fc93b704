------------------------------ MODULE Validation ------------------------------
(***************************************************************************)
(* validate_automation: the authoring rules, as operators on an abstract   *)
(* request body.  A rule adds its errors and the next rule runs; the answer *)
(* is the set of all of them; where a rule raises there is no such answer. *)
(* Lengths in bytes, blank names and the parse of a script are reduced to  *)
(* what the rules ask of them.                                             *)
(***************************************************************************)
EXTENDS Integers, Sequences, FiniteSets

CONSTANTS
    Fields,     \* MATCHABLE_FIELDS
    Unknown,    \* any other field name
    NULL,       \* an absent optional value
    Lookups     \* what resolving the host of a logstash_url may give

ASSUME FieldsFinite == IsFiniteSet(Fields)

TRIGGERS_MIN == 2
TRIGGERS_MAX == Cardinality(Fields)
COOLDOWN_FIELDS_MAX == Cardinality(Fields)
COOLDOWN_SECONDS_MAX == 86400
TIMEOUT_SECONDS_MAX == 900
GRACE_SECONDS_MIN == 60
GRACE_SECONDS_MAX == 3600
HANDLE_PARAMS == 1..2

\* A lookup: how it ended and the kinds of address it returned.
Addresses == {"global", "private", "unparsable"}
Resolved(addresses) == [end |-> "resolved", addresses |-> addresses]
TimedOut == [end |-> "timeout", addresses |-> {}]
NotFound == [end |-> "gaierror", addresses |-> {}]      \* or a UnicodeError
Failed == [end |-> "oserror", addresses |-> {}]         \* any other OSError

Error(field, at, code) == [field |-> field, at |-> at, code |-> code]

----------------------------------------------------------------------------
validate_namespace(blank) ==
    IF blank THEN {Error("namespace", 0, "namespace_invalid")} ELSE {}

\* The scan of the i-th condition: a bad shape ends it, a long value does not;
\* the first condition on a known field claims the field.
ScanCondition(scan, i, condition) ==
    LET long == IF condition.long
                THEN {Error("triggers.value", i, "trigger_value_too_long")}
                ELSE {}
        Adds(errors) == [seen |-> scan.seen, errors |-> scan.errors \cup errors]
    IN  IF ~condition.shape
        THEN Adds({Error("triggers", i, "invalid_trigger_shape")})
        ELSE IF condition.field \notin Fields
        THEN Adds(long \cup {Error("triggers.field", i, "unknown_field")})
        ELSE IF condition.field \in scan.seen
        THEN Adds(long \cup
                  {Error("triggers.field", i, "triggers_duplicate_field")})
        ELSE [seen |-> scan.seen \cup {condition.field},
              errors |-> scan.errors \cup long]

\* The loop over the conditions: the value after i of them.
Scan(triggers) ==
    LET scan[i \in 0..Len(triggers)] ==
            IF i = 0 THEN [seen |-> {}, errors |-> {}]
            ELSE ScanCondition(scan[i - 1], i, triggers[i])
    IN  scan

ScanTriggers(triggers) == Scan(triggers)[Len(triggers)].errors

\* A slip: only neighbouring conditions are compared.
ScanNeighbours(triggers) ==
    ScanTriggers(triggers) \
        {Error("triggers.field", i, "triggers_duplicate_field") :
            i \in {j \in 3..Len(triggers) :
                     triggers[j].field # triggers[j - 1].field}}

TooFew(triggers) ==
    IF Len(triggers) < TRIGGERS_MIN
    THEN {Error("triggers", 0, "triggers_too_few")} ELSE {}

\* Slips: the count cap accumulates like every other rule, a list that is too
\* short is not scanned, and the neighbour comparison above.
validate_triggers_uncapped(triggers) ==
    (IF Len(triggers) > TRIGGERS_MAX
     THEN {Error("triggers", 0, "triggers_too_many")} ELSE {})
    \cup ScanTriggers(triggers) \cup TooFew(triggers)

validate_triggers_first_error(triggers) ==
    IF Len(triggers) > TRIGGERS_MAX
    THEN {Error("triggers", 0, "triggers_too_many")}
    ELSE IF TooFew(triggers) # {} THEN TooFew(triggers)
    ELSE ScanTriggers(triggers)

validate_triggers_neighbours(triggers) ==
    IF Len(triggers) > TRIGGERS_MAX
    THEN {Error("triggers", 0, "triggers_too_many")}
    ELSE TooFew(triggers) \cup ScanNeighbours(triggers)

\* The count cap comes first and alone.
validate_triggers(triggers) ==
    IF Len(triggers) > TRIGGERS_MAX
    THEN {Error("triggers", 0, "triggers_too_many")}
    ELSE TooFew(triggers) \cup ScanTriggers(triggers)

validate_cooldown(seconds, fields) ==
    LET range == IF seconds # NULL /\ seconds \notin 1..COOLDOWN_SECONDS_MAX
                 THEN {Error("cooldown_seconds", 0, "cooldown_out_of_range")}
                 ELSE {}
        coupling ==
            CASE seconds # NULL /\ fields = NULL ->
                   {Error("cooldown_fields", 0, "cooldown_fields_required")}
              [] seconds = NULL /\ fields # NULL ->
                   {Error("cooldown_fields", 0,
                          "cooldown_fields_without_seconds")}
              [] OTHER -> {}
        names == IF fields = NULL THEN << >> ELSE fields
        entries ==
            IF Len(names) > COOLDOWN_FIELDS_MAX
            THEN {Error("cooldown_fields", 0, "cooldown_fields_too_many")}
            ELSE {Error("cooldown_fields", i, "unknown_field") :
                    i \in {j \in DOMAIN names : names[j] \notin Fields}}
    IN  range \cup coupling \cup entries

validate_timeout(seconds) ==
    IF seconds # NULL /\ seconds \notin 1..TIMEOUT_SECONDS_MAX
    THEN {Error("timeout_seconds", 0, "timeout_out_of_range")} ELSE {}

validate_grace(seconds) ==
    IF seconds # NULL /\ seconds \notin GRACE_SECONDS_MIN..GRACE_SECONDS_MAX
    THEN {Error("grace_seconds", 0, "grace_out_of_range")} ELSE {}

\* Whether the rule looks the host up at all.
NeedsLookup(url) == url = "https"

\* An address that does not parse is passed over; one that is not global
\* refuses the host whatever the others are.
validate_logstash_url(url, lookup) ==
    CASE url = NULL -> {}
      [] url # NULL /\ ~NeedsLookup(url) ->
            {Error("logstash_url", 0, "logstash_scheme_not_https")}
      [] url # NULL /\ NeedsLookup(url) /\ lookup.end # "resolved" ->
            {Error("logstash_url", 0, "logstash_unresolvable")}
      [] url # NULL /\ NeedsLookup(url) /\ lookup.end = "resolved" ->
            IF "private" \in lookup.addresses
            THEN {Error("logstash_url", 0, "logstash_private_address")} ELSE {}

\* `handles`: the positional parameters of each top-level handle, in order;
\* the first one counts.
validate_script(script) ==
    CASE script.large -> {Error("script", 0, "script_too_large")}
      [] ~script.large /\ ~script.parses ->
            {Error("script", 0, "script_syntax_error")}
      [] ~script.large /\ script.parses /\ script.handles = << >> ->
            {Error("script", 0, "handle_missing")}
      [] OTHER -> IF Head(script.handles) \in HANDLE_PARAMS THEN {}
                  ELSE {Error("script", 0, "handle_bad_arity")}

validate_automation(data, lookup) ==
    UNION {validate_namespace(data.blank),
           validate_triggers(data.triggers),
           validate_cooldown(data.cooldown_seconds, data.cooldown_fields),
           validate_timeout(data.timeout_seconds),
           validate_grace(data.grace_seconds),
           validate_logstash_url(data.logstash_url, lookup),
           validate_script(data.script)}

(***************************************************************************)
(* The exceptions that no rule catches.  They leave validate_automation,   *)
(* whatever the other rules found or would have found.                     *)
(***************************************************************************)

\* str.encode on a value with a lone surrogate.
TriggersRaise(triggers) ==
    /\ Len(triggers) <= TRIGGERS_MAX
    /\ \E i \in DOMAIN triggers : triggers[i].shape /\ ~triggers[i].encodes

\* urlparse on "https://[", and getaddrinfo with an error that is no gaierror.
LogstashRaises(url, lookup) ==
    \/ url = "malformed"
    \/ NeedsLookup(url) /\ lookup = Failed

\* ast.parse on a script nested deeper than the parser's stack.
ScriptRaises(script) == ~script.large /\ script.deep

ValidationRaises(data, lookup) ==
    \/ TriggersRaise(data.triggers)
    \/ LogstashRaises(data.logstash_url, lookup)
    \/ ScriptRaises(data.script)

----------------------------------------------------------------------------
(* The reference: what a definition has to be, said without a scan.         *)

ValidTriggers(t) ==
    /\ Len(t) \in TRIGGERS_MIN..TRIGGERS_MAX
    /\ \A i \in DOMAIN t :
          t[i].shape /\ t[i].field \in Fields /\ t[i].encodes /\ ~t[i].long
    /\ \A i, j \in DOMAIN t : t[i].field = t[j].field => i = j

ValidCooldown(seconds, fields) ==
    \/ seconds = NULL /\ fields = NULL
    \/ /\ seconds # NULL /\ fields # NULL
       /\ seconds > 0 /\ seconds <= COOLDOWN_SECONDS_MAX
       /\ Len(fields) <= COOLDOWN_FIELDS_MAX
       /\ \A i \in DOMAIN fields : fields[i] \in Fields

ValidTimeout(s) == s # NULL => s \in 1..900
ValidGrace(s) == s # NULL => s \in 60..3600

ValidUrl(url, lookup) ==
    url # NULL => /\ url = "https"
                  /\ lookup.end = "resolved"
                  /\ lookup.addresses \subseteq {"global", "unparsable"}

ValidScript(script) ==
    /\ ~script.large /\ ~script.deep /\ script.parses
    /\ script.handles # << >> /\ Head(script.handles) \in 1..2

ValidDefinition(d, lookup) ==
    /\ ~d.blank
    /\ ValidTriggers(d.triggers)
    /\ ValidCooldown(d.cooldown_seconds, d.cooldown_fields)
    /\ ValidTimeout(d.timeout_seconds)
    /\ ValidGrace(d.grace_seconds)
    /\ ValidUrl(d.logstash_url, lookup)
    /\ ValidScript(d.script)

(* The places a reader of the rules would mark in a body, with 0 for a part  *)
(* as a whole and i for its i-th element.                                    *)

Marked(place, at, wrong) == IF wrong THEN {<<place, at>>} ELSE {}

Repeated(t, i) == \E k \in 1..(i - 1) : t[k].shape /\ t[k].field = t[i].field

ConditionFaults(t, i) ==
    UNION {Marked("triggers", i, ~t[i].shape),
           Marked("triggers.value", i, t[i].shape /\ t[i].long),
           Marked("triggers.field", i,
                  t[i].shape /\ (t[i].field \notin Fields \/ Repeated(t, i)))}

\* A list over the cap is marked as a whole and not looked into.
TriggerFaults(t) ==
    Marked("triggers", 0, Len(t) \notin TRIGGERS_MIN..TRIGGERS_MAX)
        \cup IF Len(t) > TRIGGERS_MAX THEN {}
             ELSE UNION {ConditionFaults(t, i) : i \in DOMAIN t}

CooldownFaults(seconds, fields) ==
    UNION {Marked("cooldown_seconds", 0,
                  seconds # NULL /\ ~(seconds > 0 /\ seconds <= COOLDOWN_SECONDS_MAX)),
           Marked("cooldown_fields", 0,
                  \/ (seconds = NULL) # (fields = NULL)
                  \/ fields # NULL /\ Len(fields) > COOLDOWN_FIELDS_MAX),
           IF fields = NULL \/ Len(fields) > COOLDOWN_FIELDS_MAX THEN {}
           ELSE {<<"cooldown_fields", i>> :
                    i \in {j \in DOMAIN fields : fields[j] \notin Fields}}}

Faults(d, lookup) ==
    UNION {Marked("namespace", 0, d.blank),
           TriggerFaults(d.triggers),
           CooldownFaults(d.cooldown_seconds, d.cooldown_fields),
           Marked("timeout_seconds", 0,
                  d.timeout_seconds # NULL /\ d.timeout_seconds \notin 1..900),
           Marked("grace_seconds", 0,
                  d.grace_seconds # NULL /\ d.grace_seconds \notin 60..3600),
           Marked("logstash_url", 0,
                  /\ d.logstash_url # NULL
                  /\ ~(/\ d.logstash_url = "https"
                       /\ lookup.end = "resolved"
                       /\ lookup.addresses \subseteq {"global", "unparsable"})),
           Marked("script", 0,
                  ~(/\ ~d.script.large /\ d.script.parses
                    /\ d.script.handles # << >> /\ Head(d.script.handles) \in 1..2))}

\* What a body may hold once it has been parsed.
DraftTyped(d) ==
    /\ d.blank \in BOOLEAN
    /\ d.triggers \in Seq([shape : BOOLEAN, field : Fields \cup {Unknown},
                           encodes : BOOLEAN, long : BOOLEAN])
    /\ d.cooldown_seconds \in {NULL} \cup Int
    /\ d.cooldown_fields \in {NULL} \cup Seq(Fields \cup {Unknown})
    /\ d.timeout_seconds \in {NULL} \cup Int
    /\ d.grace_seconds \in {NULL} \cup Int
    /\ d.script.large \in BOOLEAN /\ d.script.deep \in BOOLEAN
    /\ d.script.parses \in BOOLEAN
    /\ d.script.handles \in Seq(Nat)
==============================================================================
