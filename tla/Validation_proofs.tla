--------------------------- MODULE Validation_proofs ---------------------------
(***************************************************************************)
(* Proofs about validate_automation: what the loop over the conditions     *)
(* finds, that the rules together say what the reference definition says,  *)
(* that they mark every place at fault, and how long an answer can be; for *)
(* any set of matchable fields and any body.                               *)
(***************************************************************************)
EXTENDS Validation, TLAPS, FiniteSetTheorems

----------------------------------------------------------------------------
(* Induction.  The library's induction theorems are about a predicate; this *)
(* one is about a set, which the provers can instantiate.                   *)

LEMMA SetInduction ==
    ASSUME NEW S, 0 \in S, \A n \in Nat : n \in S => n + 1 \in S
    PROVE  Nat \subseteq S
<1> SUFFICES ASSUME Nat \ S # {} PROVE FALSE
    OBVIOUS
<1> DEFINE T == Nat \ S
<1>1. T \subseteq Nat /\ T # {}
    OBVIOUS
<1>2. PICK x \in T : \A y \in T : ~(<<y, x>> \in OpToRel(<, Nat))
  <2> HIDE DEF T
  <2> QED BY <1>1, NatLessThanWellFounded, WFMin
<1>3. x \in Nat /\ x # 0 /\ x - 1 \in Nat /\ x - 1 < x
    OBVIOUS
<1>4. x - 1 \in S
  <2>1. SUFFICES ASSUME x - 1 \in T PROVE FALSE
      BY <1>3
  <2>2. <<x - 1, x>> \in OpToRel(<, Nat)
      BY <1>3 DEF OpToRel
  <2> QED BY <1>2, <2>1, <2>2
<1>5. (x - 1) + 1 \in S
    BY <1>3, <1>4
<1>6. (x - 1) + 1 = x
    BY <1>3
<1> QED BY <1>5, <1>6

----------------------------------------------------------------------------
(* The scan of the triggers.                                               *)

Nothing == [seen |-> {}, errors |-> {}]

\* The value of the loop after i conditions, as a function of the values before.
ScanStep(t, g, i) ==
    IF i = 0 THEN Nothing ELSE ScanCondition(g[i - 1], i, t[i])

\* There is a function that satisfies the recursion.
LEMMA ScanExists ==
    ASSUME NEW t, NEW m \in Nat
    PROVE  \E g : g = [i \in 0..m |-> ScanStep(t, g, i)]
<1> DEFINE S == {n \in Nat : \E g : g = [i \in 0..n |-> ScanStep(t, g, i)]}
<1>1. 0 \in S
  <2> DEFINE g == [i \in 0..0 |-> Nothing]
  <2>1. g = [i \in 0..0 |-> ScanStep(t, g, i)]
    <3>1. \A i \in 0..0 : ScanStep(t, g, i) = Nothing
        BY DEF ScanStep
    <3> HIDE DEF g
    <3> QED BY <3>1 DEF g
  <2> QED BY <2>1
<1>2. ASSUME NEW n \in Nat, n \in S
      PROVE  n + 1 \in S
  <2>1. PICK g : g = [i \in 0..n |-> ScanStep(t, g, i)]
      BY <1>2
  <2> DEFINE h == [i \in 0..(n + 1) |->
                      IF i = n + 1 THEN ScanCondition(g[n], n + 1, t[n + 1]) ELSE g[i]]
  <2>2. \A i \in 0..n : h[i] = g[i]
      OBVIOUS
  <2>3. ASSUME NEW i \in 0..(n + 1)
        PROVE  h[i] = ScanStep(t, h, i)
    <3>1. CASE i = 0
      <4>1. h[0] = g[0] /\ g[0] = ScanStep(t, g, 0)
          BY <2>1, <2>2
      <4> QED BY <3>1, <4>1 DEF ScanStep
    <3>2. CASE i # 0 /\ i # n + 1
      <4>1. i \in 0..n /\ i - 1 \in 0..n
          BY <3>2
      <4>2. h[i] = g[i] /\ g[i] = ScanStep(t, g, i) /\ h[i - 1] = g[i - 1]
          BY <2>1, <2>2, <4>1
      <4> HIDE DEF h
      <4> QED BY <3>2, <4>2 DEF ScanStep
    <3>3. CASE i = n + 1
      <4>1. i # 0 /\ i - 1 = n /\ n \in 0..n
          BY <3>3
      <4>2. h[i] = ScanCondition(g[n], n + 1, t[n + 1]) /\ h[n] = g[n]
          BY <2>2, <3>3, <4>1
      <4> HIDE DEF h
      <4> QED BY <3>3, <4>1, <4>2 DEF ScanStep
    <3> QED BY <3>1, <3>2, <3>3
  <2>4. h = [i \in 0..(n + 1) |-> ScanStep(t, h, i)]
    <3>1. h = [i \in 0..(n + 1) |-> h[i]]
        OBVIOUS
    <3> HIDE DEF h
    <3> QED BY <2>3, <3>1
  <2> HIDE DEF h
  <2> QED BY <2>4
<1> HIDE DEF S
<1>3. m \in S
    BY <1>1, <1>2, SetInduction
<1> QED BY <1>3 DEF S

\* So the loop computes what its recursion says.
LEMMA ScanUnfolds ==
    ASSUME NEW T, NEW t \in Seq(T)
    PROVE  /\ Scan(t)[0] = Nothing
           /\ \A i \in 1..Len(t) : Scan(t)[i] = ScanCondition(Scan(t)[i - 1], i, t[i])
<1> DEFINE scan == CHOOSE g : g = [i \in 0..Len(t) |-> ScanStep(t, g, i)]
<1>1. Scan(t) = scan
    BY DEF Scan, ScanStep, Nothing
<1>2. scan = [i \in 0..Len(t) |-> ScanStep(t, scan, i)]
  <2>0. Len(t) \in Nat
      OBVIOUS
  <2>1. \E g : g = [i \in 0..Len(t) |-> ScanStep(t, g, i)]
      BY <2>0, ScanExists, Zenon
  <2> QED BY <2>1
<1> HIDE DEF scan
<1>3. \A i \in 0..Len(t) : scan[i] = ScanStep(t, scan, i)
    BY <1>2
<1>4. scan[0] = Nothing
    BY <1>3 DEF ScanStep
<1>5. \A i \in 1..Len(t) : scan[i] = ScanCondition(scan[i - 1], i, t[i])
    BY <1>3 DEF ScanStep
<1> QED BY <1>1, <1>4, <1>5

\* What the i-th condition is reported for, said without the loop.
LongErrors(t, i) ==
    IF t[i].long THEN {Error("triggers.value", i, "trigger_value_too_long")} ELSE {}

FieldErrors(t, i) ==
    IF t[i].field \notin Fields
    THEN {Error("triggers.field", i, "unknown_field")}
    ELSE IF Repeated(t, i)
    THEN {Error("triggers.field", i, "triggers_duplicate_field")}
    ELSE {}

FoundAt(t, i) ==
    IF ~t[i].shape THEN {Error("triggers", i, "invalid_trigger_shape")}
    ELSE LongErrors(t, i) \cup FieldErrors(t, i)

\* The fields claimed by the first n conditions.
Claimed(t, n) ==
    {f \in Fields : \E k \in 1..n : t[k].shape /\ t[k].field = f}

LEMMA ClaimedNext ==
    ASSUME NEW t, NEW n \in Nat
    PROVE  /\ t[n + 1].shape /\ t[n + 1].field \in Fields =>
                 Claimed(t, n + 1) = Claimed(t, n) \cup {t[n + 1].field}
           /\ ~(t[n + 1].shape /\ t[n + 1].field \in Fields) =>
                 Claimed(t, n + 1) = Claimed(t, n)
<1>1. 1..(n + 1) = (1..n) \cup {n + 1}
    OBVIOUS
<1> QED BY <1>1 DEF Claimed

\* One iteration, from what the loop holds before it to what it holds after it.
LEMMA ScanOne ==
    ASSUME NEW t, NEW n \in Nat, NEW scan, scan.seen = Claimed(t, n)
    PROVE  LET next == ScanCondition(scan, n + 1, t[n + 1]) IN
           /\ next.seen = Claimed(t, n + 1)
           /\ next.errors = scan.errors \cup FoundAt(t, n + 1)
<1> DEFINE c == t[n + 1]
           next == ScanCondition(scan, n + 1, c)
           long == LongErrors(t, n + 1)
           Adds(errors) == [seen |-> scan.seen, errors |-> scan.errors \cup errors]
<1>1. c.field \in Fields => (c.field \in scan.seen <=> Repeated(t, n + 1))
  <2>1. (n + 1) - 1 = n
      OBVIOUS
  <2> QED BY <2>1 DEF Claimed, Repeated
<1>2. CASE ~c.shape
  <2>1. next = Adds({Error("triggers", n + 1, "invalid_trigger_shape")})
      BY <1>2 DEF ScanCondition
  <2> QED BY <1>2, <2>1, ClaimedNext DEF FoundAt
<1>3. CASE c.shape /\ c.field \notin Fields
  <2>1. next = Adds(long \cup {Error("triggers.field", n + 1, "unknown_field")})
      BY <1>3 DEF ScanCondition, LongErrors
  <2>2. FoundAt(t, n + 1) = long \cup {Error("triggers.field", n + 1, "unknown_field")}
      BY <1>3 DEF FoundAt, FieldErrors
  <2> HIDE DEF long
  <2> QED BY <1>3, <2>1, <2>2, ClaimedNext
<1>4. CASE c.shape /\ c.field \in Fields /\ c.field \in scan.seen
  <2>1. next = Adds(long \cup {Error("triggers.field", n + 1, "triggers_duplicate_field")})
      BY <1>4 DEF ScanCondition, LongErrors
  <2>2. FoundAt(t, n + 1) =
            long \cup {Error("triggers.field", n + 1, "triggers_duplicate_field")}
      BY <1>1, <1>4 DEF FoundAt, FieldErrors
  <2>3. Claimed(t, n + 1) = Claimed(t, n)
    <3>1. Claimed(t, n + 1) = Claimed(t, n) \cup {c.field} /\ c.field \in Claimed(t, n)
        BY <1>4, ClaimedNext
    <3> QED BY <3>1
  <2> HIDE DEF long
  <2> QED BY <2>1, <2>2, <2>3
<1>5. CASE c.shape /\ c.field \in Fields /\ c.field \notin scan.seen
  <2>1. next = [seen |-> scan.seen \cup {c.field}, errors |-> scan.errors \cup long]
      BY <1>5 DEF ScanCondition, LongErrors
  <2>2. FoundAt(t, n + 1) = long
      BY <1>1, <1>5 DEF FoundAt, FieldErrors
  <2>3. Claimed(t, n + 1) = Claimed(t, n) \cup {c.field}
      BY <1>5, ClaimedNext
  <2> HIDE DEF long, next
  <2>4. next.seen = scan.seen \cup {c.field} /\ next.errors = scan.errors \cup long
      BY <2>1
  <2> QED BY <2>2, <2>3, <2>4 DEF next
<1> QED BY <1>2, <1>3, <1>4, <1>5

\* After n conditions the loop holds the fields they claim and what each of
\* them is reported for.
Scanned(t, n) ==
    /\ Scan(t)[n].seen = Claimed(t, n)
    /\ Scan(t)[n].errors = UNION {FoundAt(t, i) : i \in 1..n}

LEMMA ScanInvariant ==
    ASSUME NEW T, NEW t \in Seq(T), NEW m \in 0..Len(t)
    PROVE  Scanned(t, m)
<1> DEFINE S == {n \in Nat : n <= Len(t) => Scanned(t, n)}
<1>0. Len(t) \in Nat
    OBVIOUS
<1>1. 0 \in S
  <2>1. Scan(t)[0] = Nothing
      BY ScanUnfolds
  <2>2. 1..0 = {}
      OBVIOUS
  <2>3. Claimed(t, 0) = {} /\ UNION {FoundAt(t, i) : i \in 1..0} = {}
      BY <2>2 DEF Claimed
  <2>4. Scan(t)[0].seen = {} /\ Scan(t)[0].errors = {}
      BY <2>1 DEF Nothing
  <2>5. Scanned(t, 0)
      BY <2>3, <2>4 DEF Scanned
  <2> QED BY <2>5
<1>2. ASSUME NEW n \in Nat, n \in S
      PROVE  n + 1 \in S
  <2>1. SUFFICES ASSUME n + 1 <= Len(t) PROVE Scanned(t, n + 1)
      OBVIOUS
  <2>2. n + 1 \in 1..Len(t) /\ n <= Len(t) /\ (n + 1) - 1 = n
      BY <1>0, <2>1
  <2>3. Scan(t)[n + 1] = ScanCondition(Scan(t)[n], n + 1, t[n + 1])
      BY <2>2, ScanUnfolds
  <2>4. Scanned(t, n)
      BY <1>2, <2>2
  <2>5. /\ Scan(t)[n + 1].seen = Claimed(t, n + 1)
        /\ Scan(t)[n + 1].errors = Scan(t)[n].errors \cup FoundAt(t, n + 1)
    <3>1. PICK scan : scan = Scan(t)[n]
        OBVIOUS
    <3>2. scan.seen = Claimed(t, n)
        BY <2>4, <3>1 DEF Scanned
    <3>3. PICK next : next = ScanCondition(scan, n + 1, t[n + 1])
        OBVIOUS
    <3>4. next.seen = Claimed(t, n + 1) /\ next.errors = scan.errors \cup FoundAt(t, n + 1)
        BY <3>2, <3>3, ScanOne
    <3> QED BY <2>3, <3>1, <3>3, <3>4
  <2>6. 1..(n + 1) = (1..n) \cup {n + 1}
      OBVIOUS
  <2>7. UNION {FoundAt(t, i) : i \in 1..(n + 1)} =
           (UNION {FoundAt(t, i) : i \in 1..n}) \cup FoundAt(t, n + 1)
      BY <2>6
  <2> QED BY <2>4, <2>5, <2>7 DEF Scanned
<1> HIDE DEF S
<1>3. m \in S
    BY <1>1, <1>2, SetInduction
<1> QED BY <1>0, <1>3 DEF S

\* The loop of validate_triggers reports, for every condition of a list of any
\* length, what that condition is wrong for given the ones before it, and
\* nothing else.
THEOREM ScanFinds ==
    ASSUME NEW T, NEW t \in Seq(T)
    PROVE  ScanTriggers(t) = UNION {FoundAt(t, i) : i \in DOMAIN t}
<1>1. Len(t) \in 0..Len(t) /\ DOMAIN t = 1..Len(t)
    OBVIOUS
<1>2. Scanned(t, Len(t))
    BY <1>1, ScanInvariant
<1> QED BY <1>1, <1>2 DEF Scanned, ScanTriggers

----------------------------------------------------------------------------
(* The rules, one by one and together, against the reference.              *)

Conditions == [shape : BOOLEAN, field : Fields \cup {Unknown}, encodes : BOOLEAN,
               long : BOOLEAN]

\* A list in which some condition repeats a field has a condition that is
\* reported for it: the later one.
LEMMA FoundNothing ==
    ASSUME NEW t \in Seq(Conditions),
           \A i \in DOMAIN t : t[i].shape /\ t[i].field \in Fields
    PROVE  (\A i \in DOMAIN t : ~Repeated(t, i)) <=>
           (\A i, j \in DOMAIN t : t[i].field = t[j].field => i = j)
<1>0. DOMAIN t = 1..Len(t) /\ Len(t) \in Nat
    OBVIOUS
<1>1. ASSUME NEW i \in DOMAIN t, NEW j \in DOMAIN t, t[i].field = t[j].field, i < j
      PROVE  Repeated(t, j)
  <2>1. i \in 1..(j - 1)
      BY <1>0, <1>1
  <2> QED BY <1>1, <2>1 DEF Repeated
<1>2. ASSUME NEW i \in DOMAIN t, Repeated(t, i)
      PROVE  \E j \in DOMAIN t : t[i].field = t[j].field /\ i # j
  <2>1. PICK k \in 1..(i - 1) : t[k].field = t[i].field
      BY <1>2 DEF Repeated
  <2>2. k \in DOMAIN t /\ k # i
      BY <1>0
  <2> QED BY <2>1, <2>2
<1>3. \A i, j \in DOMAIN t : i # j => i < j \/ j < i
    BY <1>0
<1> QED BY <1>1, <1>2, <1>3

LEMMA TriggersAgree ==
    ASSUME NEW t \in Seq(Conditions), ~TriggersRaise(t)
    PROVE  (validate_triggers(t) = {}) <=> ValidTriggers(t)
<1> DEFINE right == \A i \in DOMAIN t : t[i].shape /\ t[i].field \in Fields /\ ~t[i].long
           distinct == \A i, j \in DOMAIN t : t[i].field = t[j].field => i = j
<1>0. Len(t) \in Nat /\ TRIGGERS_MAX \in Nat
    BY FS_CardinalityType, FieldsFinite DEF TRIGGERS_MAX
<1>1. ScanTriggers(t) = {} <=> \A i \in DOMAIN t : FoundAt(t, i) = {}
  <2>1. ScanTriggers(t) = UNION {FoundAt(t, i) : i \in DOMAIN t}
      BY ScanFinds
  <2> QED BY <2>1
<1>2. \A i \in DOMAIN t : FoundAt(t, i) = {} <=>
         t[i].shape /\ t[i].field \in Fields /\ ~t[i].long /\ ~Repeated(t, i)
  <2> SUFFICES ASSUME NEW i \in DOMAIN t
               PROVE  FoundAt(t, i) = {} <=>
                        t[i].shape /\ t[i].field \in Fields /\ ~t[i].long /\ ~Repeated(t, i)
      OBVIOUS
  <2>1. LongErrors(t, i) = {} <=> ~t[i].long
      BY DEF LongErrors
  <2>2. FieldErrors(t, i) = {} <=> t[i].field \in Fields /\ ~Repeated(t, i)
      BY DEF FieldErrors
  <2> QED BY <2>1, <2>2 DEF FoundAt
<1>3. ScanTriggers(t) = {} <=> right /\ distinct
    BY <1>1, <1>2, FoundNothing
<1>4. TooFew(t) = {} <=> ~(Len(t) < TRIGGERS_MIN)
    BY DEF TooFew
<1>5. validate_triggers(t) = {} <=>
         ~(Len(t) > TRIGGERS_MAX) /\ TooFew(t) = {} /\ ScanTriggers(t) = {}
    BY DEF validate_triggers
<1>6. Len(t) \in TRIGGERS_MIN..TRIGGERS_MAX <=>
         ~(Len(t) > TRIGGERS_MAX) /\ ~(Len(t) < TRIGGERS_MIN)
    BY <1>0 DEF TRIGGERS_MIN
<1>7. ValidTriggers(t) <=> Len(t) \in TRIGGERS_MIN..TRIGGERS_MAX /\ right /\ distinct
  <2>1. ASSUME Len(t) \in TRIGGERS_MIN..TRIGGERS_MAX, right
        PROVE  \A i \in DOMAIN t : t[i].encodes
      BY <1>0, <2>1 DEF TriggersRaise, Conditions, TRIGGERS_MIN
  <2> QED BY <2>1 DEF ValidTriggers
<1> HIDE DEF right, distinct
<1> QED BY <1>3, <1>4, <1>5, <1>6, <1>7

LEMMA SecondsInRange ==
    ASSUME NEW s \in Int
    PROVE  s \in 1..COOLDOWN_SECONDS_MAX <=> s > 0 /\ s <= COOLDOWN_SECONDS_MAX
<1>1. COOLDOWN_SECONDS_MAX \in Int
    BY SMT DEF COOLDOWN_SECONDS_MAX
<1> QED BY <1>1, SMT

\* A rule on an optional value.
LEMMA OptionalIn ==
    ASSUME NEW s, NEW S, NEW e
    PROVE  (IF s # NULL /\ s \notin S THEN {e} ELSE {}) = {} <=> (s # NULL => s \in S)
  OBVIOUS

LEMMA TimeoutAgrees ==
    ASSUME NEW s
    PROVE  (validate_timeout(s) = {}) <=> ValidTimeout(s)
<1>1. validate_timeout(s) = IF s # NULL /\ s \notin 1..900
                            THEN {Error("timeout_seconds", 0, "timeout_out_of_range")} ELSE {}
    BY SMT DEF validate_timeout, TIMEOUT_SECONDS_MAX
<1> QED BY <1>1, OptionalIn, SMTT(30) DEF ValidTimeout

LEMMA GraceAgrees ==
    ASSUME NEW s
    PROVE  (validate_grace(s) = {}) <=> ValidGrace(s)
<1>1. validate_grace(s) = IF s # NULL /\ s \notin 60..3600
                          THEN {Error("grace_seconds", 0, "grace_out_of_range")} ELSE {}
    BY SMT DEF validate_grace, GRACE_SECONDS_MIN, GRACE_SECONDS_MAX
<1> QED BY <1>1, OptionalIn, SMTT(30) DEF ValidGrace

LEMMA CooldownAgrees ==
    ASSUME NEW seconds \in {NULL} \cup Int,
           NEW fields \in {NULL} \cup Seq(Fields \cup {Unknown})
    PROVE  (validate_cooldown(seconds, fields) = {}) <=> ValidCooldown(seconds, fields)
<1> DEFINE range == IF seconds # NULL /\ seconds \notin 1..COOLDOWN_SECONDS_MAX
                    THEN {Error("cooldown_seconds", 0, "cooldown_out_of_range")}
                    ELSE {}
           coupling ==
              CASE seconds # NULL /\ fields = NULL ->
                     {Error("cooldown_fields", 0, "cooldown_fields_required")}
                [] seconds = NULL /\ fields # NULL ->
                     {Error("cooldown_fields", 0, "cooldown_fields_without_seconds")}
                [] OTHER -> {}
           names == IF fields = NULL THEN << >> ELSE fields
           unknown == {j \in DOMAIN names : names[j] \notin Fields}
           entries ==
              IF Len(names) > COOLDOWN_FIELDS_MAX
              THEN {Error("cooldown_fields", 0, "cooldown_fields_too_many")}
              ELSE {Error("cooldown_fields", i, "unknown_field") : i \in unknown}
<1>1. validate_cooldown(seconds, fields) = range \cup coupling \cup entries
    BY DEF validate_cooldown
<1>2. range = {} <=> (seconds # NULL => seconds \in 1..COOLDOWN_SECONDS_MAX)
    OBVIOUS
<1>3. coupling = {} <=> ((seconds = NULL) <=> (fields = NULL))
    OBVIOUS
<1>4. entries = {} <=> ~(Len(names) > COOLDOWN_FIELDS_MAX) /\ unknown = {}
    OBVIOUS
<1>5. unknown = {} <=> \A i \in DOMAIN names : names[i] \in Fields
    OBVIOUS
<1>6. (validate_cooldown(seconds, fields) = {}) <=> range = {} /\ coupling = {} /\ entries = {}
    BY <1>1
<1> HIDE DEF range, coupling, entries, unknown
<1>7. CASE seconds = NULL /\ fields = NULL
  <2>1. names = << >> /\ Len(names) = 0 /\ DOMAIN names = {}
      BY <1>7
  <2>2. ~(Len(names) > COOLDOWN_FIELDS_MAX)
      BY <2>1, FS_CardinalityType, FieldsFinite DEF COOLDOWN_FIELDS_MAX
  <2> QED BY <1>2, <1>3, <1>4, <1>5, <1>6, <1>7, <2>1, <2>2 DEF ValidCooldown
<1>8. CASE (seconds = NULL) # (fields = NULL)
    BY <1>3, <1>6, <1>8 DEF ValidCooldown
<1>9. CASE seconds # NULL /\ fields # NULL
  <2>1. seconds \in Int /\ names = fields /\ Len(fields) \in Nat
      BY <1>9
  <2>2. seconds \in 1..COOLDOWN_SECONDS_MAX <=> seconds > 0 /\ seconds <= COOLDOWN_SECONDS_MAX
      BY <2>1, SecondsInRange
  <2>3. ~(Len(fields) > COOLDOWN_FIELDS_MAX) <=> Len(fields) <= COOLDOWN_FIELDS_MAX
      BY <2>1, FS_CardinalityType, FieldsFinite DEF COOLDOWN_FIELDS_MAX
  <2> QED BY <1>2, <1>3, <1>4, <1>5, <1>6, <1>9, <2>1, <2>2, <2>3 DEF ValidCooldown
<1> QED BY <1>7, <1>8, <1>9

LEMMA ScriptAgrees ==
    ASSUME NEW script, script.large \in BOOLEAN, script.parses \in BOOLEAN,
           ~ScriptRaises(script)
    PROVE  (validate_script(script) = {}) <=> ValidScript(script)
  <1>1. (validate_script(script) = {}) <=>
              /\ ~script.large /\ script.parses
              /\ script.handles # << >> /\ Head(script.handles) \in 1..2
    BY DEF validate_script, Error, HANDLE_PARAMS
  <1> QED BY <1>1 DEF ScriptRaises, ValidScript

LEMMA LogstashAgrees ==
    ASSUME NEW url, NEW lookup,
           url = "https" => lookup.addresses \subseteq Addresses
    PROVE  (validate_logstash_url(url, lookup) = {}) <=> ValidUrl(url, lookup)
<1> USE DEF validate_logstash_url, NeedsLookup, Error, Addresses, ValidUrl
<1>1. CASE url = NULL
    BY <1>1
<1>2. CASE url # NULL /\ url # "https"
    BY <1>2
<1>3. CASE url # NULL /\ url = "https" /\ lookup.end # "resolved"
    BY <1>3
<1>4. CASE url # NULL /\ url = "https" /\ lookup.end = "resolved"
  <2>1. lookup.addresses \subseteq {"global", "unparsable"} <=> "private" \notin lookup.addresses
      BY <1>4
  <2> QED BY <1>4, <2>1
<1> QED BY <1>1, <1>2, <1>3, <1>4

\* Where no rule raises, validate_automation finds nothing wrong with exactly the
\* definitions that keep every rule, whatever the fields, the length of the
\* lists and the order of the conditions.
THEOREM RulesAgree ==
    ASSUME NEW d, NEW lookup, DraftTyped(d), ~ValidationRaises(d, lookup),
           d.logstash_url = "https" => lookup.addresses \subseteq Addresses
    PROVE  (validate_automation(d, lookup) = {}) <=> ValidDefinition(d, lookup)
<1>1. (validate_automation(d, lookup) = {}) <=>
         /\ validate_namespace(d.blank) = {}
         /\ validate_triggers(d.triggers) = {}
         /\ validate_cooldown(d.cooldown_seconds, d.cooldown_fields) = {}
         /\ validate_timeout(d.timeout_seconds) = {}
         /\ validate_grace(d.grace_seconds) = {}
         /\ validate_logstash_url(d.logstash_url, lookup) = {}
         /\ validate_script(d.script) = {}
    BY DEF validate_automation
<1>2. (validate_namespace(d.blank) = {}) <=> ~d.blank
    BY DEF validate_namespace, Error, DraftTyped
<1>3. (validate_cooldown(d.cooldown_seconds, d.cooldown_fields) = {})
         <=> ValidCooldown(d.cooldown_seconds, d.cooldown_fields)
    BY CooldownAgrees DEF DraftTyped
<1>4. /\ (validate_timeout(d.timeout_seconds) = {}) <=> ValidTimeout(d.timeout_seconds)
      /\ (validate_grace(d.grace_seconds) = {}) <=> ValidGrace(d.grace_seconds)
    BY TimeoutAgrees, GraceAgrees
<1>5. (validate_logstash_url(d.logstash_url, lookup) = {}) <=>
         ValidUrl(d.logstash_url, lookup)
    BY LogstashAgrees
<1>6. (validate_script(d.script) = {}) <=> ValidScript(d.script)
    BY ScriptAgrees DEF DraftTyped, ValidationRaises
<1>7. (validate_triggers(d.triggers) = {}) <=> ValidTriggers(d.triggers)
    BY TriggersAgree DEF DraftTyped, Conditions, ValidationRaises
<1> QED
    BY <1>1, <1>2, <1>3, <1>4, <1>5, <1>6, <1>7, Zenon
       DEF ValidDefinition

----------------------------------------------------------------------------
(* What an answer holds.                                                   *)

\* The places an answer marks.
Places(errors) == {<<e.field, e.at>> : e \in errors}

LEMMA PlacesUnion ==
    ASSUME NEW S, NEW T
    PROVE  Places(S \cup T) = Places(S) \cup Places(T)
BY DEF Places

LEMMA PlacesMarked ==
    ASSUME NEW place, NEW at, NEW code, NEW wrong \in BOOLEAN
    PROVE  Places(IF wrong THEN {Error(place, at, code)} ELSE {}) = Marked(place, at, wrong)
<1>1. Places({}) = {} /\ Places({Error(place, at, code)}) = {<<place, at>>}
    BY DEF Places, Error
<1> QED BY <1>1 DEF Marked

\* What one iteration of the scan adds.
LEMMA ConditionMarked ==
    ASSUME NEW t \in Seq(Conditions), NEW i \in DOMAIN t
    PROVE  Places(FoundAt(t, i)) = ConditionFaults(t, i)
<1>0. t[i].shape \in BOOLEAN /\ t[i].long \in BOOLEAN
  <2>1. t[i] \in Conditions
      OBVIOUS
  <2> QED BY <2>1 DEF Conditions
<1>1. Places(LongErrors(t, i)) = Marked("triggers.value", i, t[i].long)
    BY <1>0, PlacesMarked DEF LongErrors
<1> DEFINE wrong == t[i].field \notin Fields \/ Repeated(t, i)
<1>2. Places(FieldErrors(t, i)) = Marked("triggers.field", i, wrong)
  <2>1. FieldErrors(t, i) =
           IF wrong
           THEN {Error("triggers.field", i, IF t[i].field \notin Fields THEN "unknown_field"
                                            ELSE "triggers_duplicate_field")}
           ELSE {}
      BY DEF FieldErrors
  <2>2. wrong \in BOOLEAN
      BY DEF Repeated
  <2> HIDE DEF wrong
  <2> QED BY <2>1, <2>2, PlacesMarked
<1>3. CASE ~t[i].shape
  <2>1. Places(FoundAt(t, i)) = {<<"triggers", i>>}
      BY <1>3 DEF FoundAt, Places, Error
  <2>2. ConditionFaults(t, i) = {<<"triggers", i>>}
      BY <1>3 DEF ConditionFaults, Marked
  <2> QED BY <2>1, <2>2
<1>4. CASE t[i].shape
  <2>1. FoundAt(t, i) = LongErrors(t, i) \cup FieldErrors(t, i)
      BY <1>4 DEF FoundAt
  <2>2. /\ Marked("triggers", i, ~t[i].shape) = {}
        /\ Marked("triggers.value", i, t[i].shape /\ t[i].long)
              = Marked("triggers.value", i, t[i].long)
        /\ Marked("triggers.field", i, t[i].shape /\ wrong)
              = Marked("triggers.field", i, wrong)
      BY <1>4 DEF Marked
  <2>3. ConditionFaults(t, i) = Marked("triggers.value", i, t[i].long)
                                  \cup Marked("triggers.field", i, wrong)
      BY <2>2 DEF ConditionFaults
  <2> QED BY <1>1, <1>2, <2>1, <2>3, PlacesUnion
<1> QED BY <1>0, <1>3, <1>4

LEMMA TriggersMarked ==
    ASSUME NEW t \in Seq(Conditions)
    PROVE  Places(validate_triggers(t)) = TriggerFaults(t)
<1>0. Len(t) \in Nat /\ TRIGGERS_MAX \in Nat
    BY FS_CardinalityType, FieldsFinite DEF TRIGGERS_MAX
<1>1. CASE Len(t) > TRIGGERS_MAX
  <2>1. Places(validate_triggers(t)) = {<<"triggers", 0>>}
      BY <1>1 DEF validate_triggers, Places, Error
  <2>2. TriggerFaults(t) = {<<"triggers", 0>>}
      BY <1>0, <1>1 DEF TriggerFaults, Marked, TRIGGERS_MIN
  <2> QED BY <2>1, <2>2
<1>2. CASE ~(Len(t) > TRIGGERS_MAX)
  <2>1. validate_triggers(t) = TooFew(t) \cup ScanTriggers(t)
      BY <1>2 DEF validate_triggers
  <2>2. Places(TooFew(t)) = Marked("triggers", 0, Len(t) \notin TRIGGERS_MIN..TRIGGERS_MAX)
    <3>1. Len(t) \notin TRIGGERS_MIN..TRIGGERS_MAX <=> Len(t) < TRIGGERS_MIN
        BY <1>0, <1>2 DEF TRIGGERS_MIN
    <3>2. (Len(t) < TRIGGERS_MIN) \in BOOLEAN
        BY <1>0 DEF TRIGGERS_MIN
    <3>3. Places(TooFew(t)) = Marked("triggers", 0, Len(t) < TRIGGERS_MIN)
        BY <3>2, PlacesMarked, Zenon DEF TooFew
    <3> QED BY <3>1, <3>3 DEF Marked
  <2>3. Places(ScanTriggers(t)) = UNION {Places(FoundAt(t, i)) : i \in DOMAIN t}
    <3>1. ScanTriggers(t) = UNION {FoundAt(t, i) : i \in DOMAIN t}
        BY ScanFinds
    <3> QED BY <3>1 DEF Places
  <2>4. Places(ScanTriggers(t)) = UNION {ConditionFaults(t, i) : i \in DOMAIN t}
      BY <2>3, ConditionMarked
  <2>5. Places(validate_triggers(t)) = Places(TooFew(t)) \cup Places(ScanTriggers(t))
      BY <2>1, PlacesUnion
  <2> QED BY <1>2, <2>2, <2>4, <2>5 DEF TriggerFaults
<1> QED BY <1>1, <1>2

LEMMA CooldownMarked ==
    ASSUME NEW seconds \in {NULL} \cup Int,
           NEW fields \in {NULL} \cup Seq(Fields \cup {Unknown})
    PROVE  Places(validate_cooldown(seconds, fields)) = CooldownFaults(seconds, fields)
<1> DEFINE range == IF seconds # NULL /\ seconds \notin 1..COOLDOWN_SECONDS_MAX
                    THEN {Error("cooldown_seconds", 0, "cooldown_out_of_range")}
                    ELSE {}
           coupling ==
              CASE seconds # NULL /\ fields = NULL ->
                     {Error("cooldown_fields", 0, "cooldown_fields_required")}
                [] seconds = NULL /\ fields # NULL ->
                     {Error("cooldown_fields", 0, "cooldown_fields_without_seconds")}
                [] OTHER -> {}
           names == IF fields = NULL THEN << >> ELSE fields
           many == Len(names) > COOLDOWN_FIELDS_MAX
           unknown == {j \in DOMAIN names : names[j] \notin Fields}
           entries ==
              IF many
              THEN {Error("cooldown_fields", 0, "cooldown_fields_too_many")}
              ELSE {Error("cooldown_fields", i, "unknown_field") : i \in unknown}
           A == Marked("cooldown_seconds", 0,
                  seconds # NULL /\ ~(seconds > 0 /\ seconds <= COOLDOWN_SECONDS_MAX))
           uneven == (seconds = NULL) # (fields = NULL)
           over == fields # NULL /\ Len(fields) > COOLDOWN_FIELDS_MAX
           B == Marked("cooldown_fields", 0, uneven \/ over)
           C == IF fields = NULL \/ Len(fields) > COOLDOWN_FIELDS_MAX THEN {}
                ELSE {<<"cooldown_fields", i>> :
                        i \in {j \in DOMAIN fields : fields[j] \notin Fields}}
<1>0. COOLDOWN_FIELDS_MAX \in Nat
    BY FS_CardinalityType, FieldsFinite DEF COOLDOWN_FIELDS_MAX
<1>1. validate_cooldown(seconds, fields) = range \cup coupling \cup entries
    BY DEF validate_cooldown
<1>2. CooldownFaults(seconds, fields) = A \cup B \cup C
    BY DEF CooldownFaults
<1>3. Places(range) = A
  <2> DEFINE out == seconds # NULL /\ seconds \notin 1..COOLDOWN_SECONDS_MAX
             bad == seconds # NULL /\ ~(seconds > 0 /\ seconds <= COOLDOWN_SECONDS_MAX)
  <2>1. out <=> bad
      BY SecondsInRange
  <2>2. Places(range) = Marked("cooldown_seconds", 0, out)
      BY PlacesMarked
  <2> HIDE DEF out, bad
  <2>3. Marked("cooldown_seconds", 0, out) = Marked("cooldown_seconds", 0, bad)
      BY <2>1 DEF Marked
  <2> QED BY <2>2, <2>3 DEF bad
<1>4. Places(coupling) = Marked("cooldown_fields", 0, uneven)
  <2>1. CASE uneven
    <3>1. coupling = {Error("cooldown_fields", 0, IF fields = NULL THEN "cooldown_fields_required"
                                                  ELSE "cooldown_fields_without_seconds")}
        BY <2>1
    <3> HIDE DEF coupling
    <3> QED BY <2>1, <3>1 DEF Places, Error, Marked
  <2>2. CASE ~uneven
    <3>1. coupling = {}
        BY <2>2
    <3> HIDE DEF coupling
    <3> QED BY <2>2, <3>1 DEF Places, Marked
  <2> QED BY <2>1, <2>2
<1>5. Places(entries) = Marked("cooldown_fields", 0, over) \cup C
  <2>1. CASE fields = NULL
    <3>1. Len(names) = 0 /\ DOMAIN names = {}
        BY <2>1
    <3>2. entries = {}
        BY <1>0, <3>1
    <3> HIDE DEF entries
    <3> QED BY <2>1, <3>2 DEF Places, Marked
  <2>2. CASE fields # NULL /\ many
    <3>1. entries = {Error("cooldown_fields", 0, "cooldown_fields_too_many")} /\ names = fields
        BY <2>2
    <3> HIDE DEF entries
    <3>2. Places(entries) = {<<"cooldown_fields", 0>>}
        BY <3>1 DEF Places, Error
    <3> QED BY <2>2, <3>1, <3>2 DEF Marked
  <2>3. CASE fields # NULL /\ ~many
    <3>1. names = fields
        BY <2>3
    <3>2. Places(entries) = {<<"cooldown_fields", i>> : i \in unknown}
      <4>1. entries = {Error("cooldown_fields", i, "unknown_field") : i \in unknown}
          BY <2>3
      <4>2. \A i : LET e == Error("cooldown_fields", i, "unknown_field")
                  IN  e.field = "cooldown_fields" /\ e.at = i
          BY DEF Error
      <4> HIDE DEF entries, unknown
      <4> QED BY <4>1, <4>2 DEF Places
    <3> HIDE DEF entries
    <3> QED BY <2>3, <3>1, <3>2 DEF Marked
  <2> QED BY <2>1, <2>2, <2>3
<1>6. B = Marked("cooldown_fields", 0, uneven) \cup Marked("cooldown_fields", 0, over)
    BY DEF Marked
<1> HIDE DEF range, coupling, entries, A, B, C, uneven, over
<1>7. Places(range \cup coupling \cup entries)
         = Places(range) \cup Places(coupling) \cup Places(entries)
    BY DEF Places
<1> QED BY <1>1, <1>2, <1>3, <1>4, <1>5, <1>6, <1>7

LEMMA LogstashMarked ==
    ASSUME NEW url, NEW lookup, url = "https" => lookup.addresses \subseteq Addresses
    PROVE  Places(validate_logstash_url(url, lookup)) =
              Marked("logstash_url", 0,
                     /\ url # NULL
                     /\ ~(/\ url = "https"
                          /\ lookup.end = "resolved"
                          /\ lookup.addresses \subseteq {"global", "unparsable"}))
<1> DEFINE errors == validate_logstash_url(url, lookup)
           fine == /\ url = "https"
                   /\ lookup.end = "resolved"
                   /\ lookup.addresses \subseteq {"global", "unparsable"}
<1>1. errors = {} \/ \E code : errors = {Error("logstash_url", 0, code)}
  <2>1. CASE url = NULL
      BY <2>1 DEF validate_logstash_url
  <2>2. CASE url # NULL /\ ~NeedsLookup(url)
      BY <2>2 DEF validate_logstash_url
  <2>3. CASE url # NULL /\ NeedsLookup(url) /\ lookup.end # "resolved"
      BY <2>3 DEF validate_logstash_url
  <2>4. CASE url # NULL /\ NeedsLookup(url) /\ lookup.end = "resolved"
      BY <2>4 DEF validate_logstash_url
  <2> QED BY <2>1, <2>2, <2>3, <2>4
<1>2. (errors = {}) <=> (url # NULL => fine)
    BY LogstashAgrees DEF ValidUrl
<1> HIDE DEF errors, fine
<1>3. errors = {} => Places(errors) = {}
    BY DEF Places
<1>4. errors # {} => Places(errors) = {<<"logstash_url", 0>>}
    BY <1>1 DEF Places, Error
<1>5. Places(errors) = Marked("logstash_url", 0, url # NULL /\ ~fine)
    BY <1>2, <1>3, <1>4 DEF Marked
<1> QED BY <1>5 DEF errors, fine

LEMMA ScriptMarked ==
    ASSUME NEW script, script.large \in BOOLEAN, script.parses \in BOOLEAN
    PROVE  Places(validate_script(script)) =
              Marked("script", 0, ~(/\ ~script.large /\ script.parses
                                    /\ script.handles # << >>
                                    /\ Head(script.handles) \in 1..2))
<1> DEFINE errors == validate_script(script)
           fine == /\ ~script.large /\ script.parses
                   /\ script.handles # << >> /\ Head(script.handles) \in 1..2
<1>1. errors = {} \/ \E code : errors = {Error("script", 0, code)}
    BY DEF validate_script
<1>2. (errors = {}) <=> fine
    BY DEF validate_script, Error, HANDLE_PARAMS
<1> HIDE DEF errors, fine
<1>3. errors = {} => Places(errors) = {}
    BY DEF Places
<1>4. errors # {} => Places(errors) = {<<"script", 0>>}
    BY <1>1 DEF Places, Error
<1>5. Places(errors) = Marked("script", 0, ~fine)
    BY <1>2, <1>3, <1>4 DEF Marked
<1> QED BY <1>5 DEF errors, fine

\* A rule on an optional value.
LEMMA OptionalMarked ==
    ASSUME NEW s, NEW S, NEW place, NEW code
    PROVE  Places(IF s # NULL /\ s \notin S THEN {Error(place, 0, code)} ELSE {})
              = Marked(place, 0, s # NULL /\ s \notin S)
BY PlacesMarked

\* validate_automation marks exactly the places of a body that break a rule,
\* however many there are and whatever else is wrong with it.
THEOREM RulesMark ==
    ASSUME NEW d, NEW lookup, DraftTyped(d),
           d.logstash_url = "https" => lookup.addresses \subseteq Addresses
    PROVE  Places(validate_automation(d, lookup)) = Faults(d, lookup)
<1> DEFINE A == validate_triggers(d.triggers)
           B == validate_cooldown(d.cooldown_seconds, d.cooldown_fields)
           C == validate_namespace(d.blank)
           D == validate_timeout(d.timeout_seconds)
           E == validate_grace(d.grace_seconds)
           F == validate_logstash_url(d.logstash_url, lookup)
           G == validate_script(d.script)
<1>1. Places(A) = TriggerFaults(d.triggers)
    BY TriggersMarked DEF DraftTyped, Conditions
<1>2. Places(B) = CooldownFaults(d.cooldown_seconds, d.cooldown_fields)
    BY CooldownMarked DEF DraftTyped
<1>3. Places(C) = Marked("namespace", 0, d.blank)
    BY PlacesMarked DEF validate_namespace, DraftTyped
<1>4. Places(D) = Marked("timeout_seconds", 0,
                         d.timeout_seconds # NULL /\ d.timeout_seconds \notin 1..900)
  <2> DEFINE S == 1..900
  <2>1. D = IF d.timeout_seconds # NULL /\ d.timeout_seconds \notin S
            THEN {Error("timeout_seconds", 0, "timeout_out_of_range")} ELSE {}
      BY SMT DEF validate_timeout, TIMEOUT_SECONDS_MAX
  <2> HIDE DEF D, S
  <2>2. Places(D) = Marked("timeout_seconds", 0, d.timeout_seconds # NULL /\ d.timeout_seconds \notin S)
      BY <2>1, OptionalMarked, Zenon
  <2> QED BY <2>2 DEF S
<1>5. Places(E) = Marked("grace_seconds", 0,
                         d.grace_seconds # NULL /\ d.grace_seconds \notin 60..3600)
  <2> DEFINE S == 60..3600
  <2>1. E = IF d.grace_seconds # NULL /\ d.grace_seconds \notin S
            THEN {Error("grace_seconds", 0, "grace_out_of_range")} ELSE {}
      BY SMT DEF validate_grace, GRACE_SECONDS_MIN, GRACE_SECONDS_MAX
  <2> HIDE DEF E, S
  <2>2. Places(E) = Marked("grace_seconds", 0, d.grace_seconds # NULL /\ d.grace_seconds \notin S)
      BY <2>1, OptionalMarked, Zenon
  <2> QED BY <2>2 DEF S
<1>6. Places(F) = Marked("logstash_url", 0,
                         /\ d.logstash_url # NULL
                         /\ ~(/\ d.logstash_url = "https"
                              /\ lookup.end = "resolved"
                              /\ lookup.addresses \subseteq {"global", "unparsable"}))
    BY LogstashMarked
<1>7. Places(G) = Marked("script", 0,
                         ~(/\ ~d.script.large /\ d.script.parses
                           /\ d.script.handles # << >> /\ Head(d.script.handles) \in 1..2))
    BY ScriptMarked DEF DraftTyped
<1>8. validate_automation(d, lookup) = UNION {C, A, B, D, E, F, G}
    BY DEF validate_automation
<1> HIDE DEF A, B, C, D, E, F, G
<1>9. Places(UNION {C, A, B, D, E, F, G})
         = UNION {Places(C), Places(A), Places(B), Places(D), Places(E), Places(F), Places(G)}
    BY DEF Places
<1> DEFINE c == Marked("namespace", 0, d.blank)
           a == TriggerFaults(d.triggers)
           b == CooldownFaults(d.cooldown_seconds, d.cooldown_fields)
           t == Marked("timeout_seconds", 0,
                       d.timeout_seconds # NULL /\ d.timeout_seconds \notin 1..900)
           g == Marked("grace_seconds", 0,
                       d.grace_seconds # NULL /\ d.grace_seconds \notin 60..3600)
           u == Marked("logstash_url", 0,
                       /\ d.logstash_url # NULL
                       /\ ~(/\ d.logstash_url = "https"
                            /\ lookup.end = "resolved"
                            /\ lookup.addresses \subseteq {"global", "unparsable"}))
           x == Marked("script", 0,
                       ~(/\ ~d.script.large /\ d.script.parses
                         /\ d.script.handles # << >> /\ Head(d.script.handles) \in 1..2))
<1>10. Faults(d, lookup) = UNION {c, a, b, t, g, u, x}
    BY DEF Faults
<1>11. /\ Places(C) = c /\ Places(A) = a /\ Places(B) = b /\ Places(D) = t
       /\ Places(E) = g /\ Places(F) = u /\ Places(G) = x
    BY <1>1, <1>2, <1>3, <1>4, <1>5, <1>6, <1>7
<1> HIDE DEF c, a, b, t, g, u, x
<1> QED BY <1>8, <1>9, <1>10, <1>11

\* A set with at most n elements.
AtMost(S, n) == IsFiniteSet(S) /\ Cardinality(S) <= n

LEMMA AtMostOne == ASSUME NEW e PROVE AtMost({e}, 1) /\ AtMost({}, 1) /\ AtMost({}, 0)
<1>1. IsFiniteSet({}) /\ Cardinality({}) = 0
    BY FS_EmptySet
<1>2. IsFiniteSet({e}) /\ Cardinality({e}) = 1
    BY FS_Singleton
<1> QED BY <1>1, <1>2 DEF AtMost

LEMMA AtMostUnion ==
    ASSUME NEW S, NEW T, NEW m \in Nat, NEW n \in Nat, AtMost(S, m), AtMost(T, n)
    PROVE  AtMost(S \cup T, m + n)
<1>1. IsFiniteSet(S) /\ IsFiniteSet(T)
    BY DEF AtMost
<1>2. IsFiniteSet(S \cap T) /\ IsFiniteSet(S \cup T)
    BY <1>1, FS_Union, FS_Subset
<1>3. /\ Cardinality(S) \in Nat /\ Cardinality(T) \in Nat
      /\ Cardinality(S \cup T) \in Nat /\ Cardinality(S \cap T) \in Nat
    BY <1>1, <1>2, FS_CardinalityType
<1>4. Cardinality(S \cup T) = Cardinality(S) + Cardinality(T) - Cardinality(S \cap T)
    BY <1>1, FS_Union
<1> QED BY <1>2, <1>3, <1>4 DEF AtMost

LEMMA AtMostSubset ==
    ASSUME NEW S, NEW T, S \subseteq T, NEW m \in Nat, NEW n \in Nat, m <= n, AtMost(T, m)
    PROVE  AtMost(S, n)
<1>1. IsFiniteSet(T) /\ IsFiniteSet(S) /\ Cardinality(S) <= Cardinality(T)
    BY FS_Subset DEF AtMost
<1>2. Cardinality(S) \in Nat /\ Cardinality(T) \in Nat
    BY <1>1, FS_CardinalityType
<1> QED BY <1>1, <1>2 DEF AtMost

\* The values of a function of 1..n.
LEMMA AtMostImage ==
    ASSUME NEW n \in Nat, NEW f
    PROVE  AtMost({f[i] : i \in 1..n}, n)
<1> DEFINE T == {f[i] : i \in 1..n}
           g == [i \in 1..n |-> f[i]]
<1>1. IsFiniteSet(1..n) /\ Cardinality(1..n) = n
  <2>1. IsFiniteSet(1..n) /\ Cardinality(1..n) = IF 1 > n THEN 0 ELSE n - 1 + 1
      BY FS_Interval
  <2> QED BY <2>1
<1>2. g \in Surjection(1..n, T)
    BY DEF Surjection
<1> HIDE DEF T, g
<1>3. IsFiniteSet(T) /\ Cardinality(T) <= Cardinality(1..n)
    BY <1>1, <1>2, FS_Surjection
<1> QED BY <1>1, <1>3 DEF AtMost, T

\* At most two errors per condition: its value, and its shape or its field.
LEMMA ScanBounded ==
    ASSUME NEW T, NEW t \in Seq(T)
    PROVE  AtMost(ScanTriggers(t), 2 * Len(t))
<1> DEFINE n == Len(t)
           long == [i \in 1..n |-> Error("triggers.value", i, "trigger_value_too_long")]
           other == [i \in 1..n |->
                       IF ~t[i].shape THEN Error("triggers", i, "invalid_trigger_shape")
                       ELSE IF t[i].field \notin Fields
                       THEN Error("triggers.field", i, "unknown_field")
                       ELSE Error("triggers.field", i, "triggers_duplicate_field")]
           A == {long[i] : i \in 1..n}
           B == {other[i] : i \in 1..n}
<1>0. n \in Nat /\ DOMAIN t = 1..n
    OBVIOUS
<1>1. ASSUME NEW i \in 1..n
      PROVE  FoundAt(t, i) \subseteq A \cup B
  <2>1. FoundAt(t, i) \subseteq {long[i], other[i]}
    <3>1. LongErrors(t, i) \subseteq {long[i]}
        BY DEF LongErrors
    <3>2. CASE ~t[i].shape
        BY <3>2 DEF FoundAt
    <3>3. CASE t[i].shape
      <4>1. FieldErrors(t, i) \subseteq {other[i]}
          BY <3>3 DEF FieldErrors
      <4> HIDE DEF long, other
      <4> QED BY <3>1, <3>3, <4>1 DEF FoundAt
    <3> QED BY <3>2, <3>3
  <2> HIDE DEF long, other
  <2> QED BY <2>1
<1>2. AtMost(A, n) /\ AtMost(B, n)
  <2> HIDE DEF long, other, n
  <2> QED BY <1>0, AtMostImage
<1> HIDE DEF A, B
<1>3. ScanTriggers(t) \subseteq A \cup B
    BY <1>0, <1>1, ScanFinds
<1>4. AtMost(A \cup B, n + n)
    BY <1>0, <1>2, AtMostUnion
<1>5. n + n \in Nat /\ n + n = 2 * Len(t) /\ 2 * Len(t) \in Nat
    BY <1>0
<1> QED BY <1>3, <1>4, <1>5, AtMostSubset

LEMMA TriggersBounded ==
    ASSUME NEW T, NEW t \in Seq(T)
    PROVE  AtMost(validate_triggers(t), 2 * TRIGGERS_MAX + 1)
<1>0. Len(t) \in Nat /\ TRIGGERS_MAX \in Nat
    BY FS_CardinalityType, FieldsFinite DEF TRIGGERS_MAX
<1> DEFINE m == 2 * TRIGGERS_MAX
           n == 2 * Len(t)
<1>1. CASE Len(t) > TRIGGERS_MAX
  <2>1. validate_triggers(t) = {Error("triggers", 0, "triggers_too_many")}
      BY <1>1 DEF validate_triggers
  <2>2. AtMost(validate_triggers(t), 1)
      BY <2>1, AtMostOne
  <2>3. m + 1 \in Nat /\ 1 <= m + 1
      BY <1>0
  <2> HIDE DEF m
  <2> QED BY <2>2, <2>3, AtMostSubset DEF m
<1>2. CASE ~(Len(t) > TRIGGERS_MAX)
  <2>1. validate_triggers(t) = ScanTriggers(t) \cup TooFew(t)
      BY <1>2 DEF validate_triggers
  <2>2. AtMost(ScanTriggers(t), n)
      BY ScanBounded
  <2>3. AtMost(TooFew(t), 1)
      BY AtMostOne DEF TooFew
  <2>4. n \in Nat /\ m \in Nat /\ n + 1 \in Nat /\ m + 1 \in Nat /\ n + 1 <= m + 1
      BY <1>0, <1>2
  <2> HIDE DEF m, n
  <2>5. AtMost(ScanTriggers(t) \cup TooFew(t), n + 1)
      BY <2>2, <2>3, <2>4, AtMostUnion
  <2>6. AtMost(validate_triggers(t), m + 1)
      BY <2>1, <2>4, <2>5, AtMostSubset
  <2> QED BY <2>6 DEF m
<1> QED BY <1>1, <1>2

\* The range and the coupling are both at fault only when there are no fields
\* to be at fault.
LEMMA CooldownBounded ==
    ASSUME NEW seconds, NEW fields \in {NULL} \cup Seq(Fields \cup {Unknown})
    PROVE  AtMost(validate_cooldown(seconds, fields), COOLDOWN_FIELDS_MAX + 2)
<1> DEFINE range == IF seconds # NULL /\ seconds \notin 1..COOLDOWN_SECONDS_MAX
                    THEN {Error("cooldown_seconds", 0, "cooldown_out_of_range")}
                    ELSE {}
           coupling ==
              CASE seconds # NULL /\ fields = NULL ->
                     {Error("cooldown_fields", 0, "cooldown_fields_required")}
                [] seconds = NULL /\ fields # NULL ->
                     {Error("cooldown_fields", 0, "cooldown_fields_without_seconds")}
                [] OTHER -> {}
           names == IF fields = NULL THEN << >> ELSE fields
           entry == [i \in 1..Len(names) |-> Error("cooldown_fields", i, "unknown_field")]
           entries ==
              IF Len(names) > COOLDOWN_FIELDS_MAX
              THEN {Error("cooldown_fields", 0, "cooldown_fields_too_many")}
              ELSE {Error("cooldown_fields", i, "unknown_field") :
                      i \in {j \in DOMAIN names : names[j] \notin Fields}}
           c == COOLDOWN_FIELDS_MAX
<1>0. c \in Nat /\ c + 1 \in Nat /\ c + 2 \in Nat /\ 2 <= c + 2 /\ 1 <= c + 1 /\ c <= c + 1
    BY FS_CardinalityType, FieldsFinite DEF COOLDOWN_FIELDS_MAX
<1>1. names \in Seq(Fields \cup {Unknown}) /\ Len(names) \in Nat /\ DOMAIN names = 1..Len(names)
    OBVIOUS
<1>2. validate_cooldown(seconds, fields) = (range \cup coupling) \cup entries
    BY DEF validate_cooldown
<1>3. AtMost(range, 1)
    BY AtMostOne
<1>4. AtMost(coupling, 1)
    BY AtMostOne
<1>5. fields # NULL => range = {} \/ coupling = {}
    OBVIOUS
<1>6. AtMost(entries, c + 1)
  <2>1. CASE Len(names) > COOLDOWN_FIELDS_MAX
    <3>1. AtMost(entries, 1)
        BY <2>1, AtMostOne
    <3> HIDE DEF entries, c
    <3> QED BY <1>0, <3>1, AtMostSubset
  <2>2. CASE ~(Len(names) > COOLDOWN_FIELDS_MAX)
    <3>1. entries \subseteq {entry[i] : i \in 1..Len(names)}
        BY <1>1, <2>2
    <3>2. Len(names) <= c + 1
        BY <1>0, <1>1, <2>2
    <3> HIDE DEF entries, entry, c, names
    <3>3. AtMost({entry[i] : i \in 1..Len(names)}, Len(names))
        BY <1>1, AtMostImage
    <3> QED BY <1>0, <1>1, <3>1, <3>2, <3>3, AtMostSubset
  <2> QED BY <2>1, <2>2
<1>7. fields = NULL => entries = {}
  <2>1. ASSUME fields = NULL PROVE Len(names) = 0 /\ DOMAIN names = {}
      BY <2>1
  <2> QED BY <1>0, <2>1
<1> HIDE DEF range, coupling, entries, names, c
<1>8. CASE fields = NULL
  <2>1. AtMost(range \cup coupling, 1 + 1)
      BY <1>3, <1>4, AtMostUnion
  <2>2. validate_cooldown(seconds, fields) \subseteq range \cup coupling
      BY <1>2, <1>7, <1>8
  <2>3. 1 + 1 \in Nat /\ 1 + 1 <= c + 2
      BY <1>0
  <2> QED BY <1>0, <2>1, <2>2, <2>3, AtMostSubset DEF c
<1>9. CASE fields # NULL
  <2>1. AtMost(range \cup coupling, 1)
      BY <1>3, <1>4, <1>5, <1>9
  <2>2. AtMost((range \cup coupling) \cup entries, 1 + (c + 1))
      BY <1>0, <1>6, <2>1, AtMostUnion
  <2>3. 1 + (c + 1) = c + 2
      BY <1>0
  <2> QED BY <1>2, <2>2, <2>3 DEF c
<1> QED BY <1>8, <1>9

\* An answer has at most two errors per matchable field, one per cooldown field
\* and eight besides, however long the lists of the body are.
THEOREM AnswerBound ==
    ASSUME NEW d, NEW lookup, DraftTyped(d)
    PROVE  AtMost(validate_automation(d, lookup),
                  2 * TRIGGERS_MAX + COOLDOWN_FIELDS_MAX + 8)
<1>0. TRIGGERS_MAX \in Nat /\ COOLDOWN_FIELDS_MAX \in Nat
    BY FS_CardinalityType, FieldsFinite DEF TRIGGERS_MAX, COOLDOWN_FIELDS_MAX
<1> DEFINE A == validate_triggers(d.triggers)
           B == validate_cooldown(d.cooldown_seconds, d.cooldown_fields)
           C == validate_namespace(d.blank)
           D == validate_timeout(d.timeout_seconds)
           E == validate_grace(d.grace_seconds)
           F == validate_logstash_url(d.logstash_url, lookup)
           G == validate_script(d.script)
           m == 2 * TRIGGERS_MAX + 1
           n == COOLDOWN_FIELDS_MAX + 2
<1>1. AtMost(A, m)
    BY TriggersBounded DEF DraftTyped
<1>2. AtMost(B, n)
    BY CooldownBounded DEF DraftTyped
<1>3. AtMost(C, 1)
    BY AtMostOne DEF validate_namespace
<1>4. AtMost(D, 1)
  <2>1. D = {} \/ \E e : D = {e}
      BY DEF validate_timeout
  <2> QED BY <2>1, AtMostOne
<1>5. AtMost(E, 1)
  <2>1. E = {} \/ \E e : E = {e}
      BY DEF validate_grace
  <2> QED BY <2>1, AtMostOne
<1>6. AtMost(F, 1)
  <2>1. F = {} \/ \E e : F = {e}
    <3>1. CASE d.logstash_url = NULL
        BY <3>1 DEF validate_logstash_url
    <3>2. CASE d.logstash_url # NULL /\ ~NeedsLookup(d.logstash_url)
        BY <3>2 DEF validate_logstash_url
    <3>3. CASE /\ d.logstash_url # NULL /\ NeedsLookup(d.logstash_url)
               /\ lookup.end # "resolved"
        BY <3>3 DEF validate_logstash_url
    <3>4. CASE /\ d.logstash_url # NULL /\ NeedsLookup(d.logstash_url)
               /\ lookup.end = "resolved"
        BY <3>4 DEF validate_logstash_url
    <3> QED BY <3>1, <3>2, <3>3, <3>4
  <2> QED BY <2>1, AtMostOne
<1>7. AtMost(G, 1)
  <2>1. G = {} \/ \E e : G = {e}
      BY DEF validate_script, DraftTyped
  <2> QED BY <2>1, AtMostOne
<1>8. validate_automation(d, lookup) = A \cup B \cup C \cup D \cup E \cup F \cup G
    BY DEF validate_automation
<1>9. m \in Nat /\ n \in Nat
    BY <1>0
<1>10. m + n + 1 + 1 + 1 + 1 + 1 = 2 * TRIGGERS_MAX + COOLDOWN_FIELDS_MAX + 8
    BY <1>0
<1> HIDE DEF A, B, C, D, E, F, G, m, n
<1>11. AtMost(A \cup B, m + n)
    BY <1>1, <1>2, <1>9, AtMostUnion
<1>12. ASSUME NEW S, NEW T, NEW k \in Nat, AtMost(S, k), AtMost(T, 1)
       PROVE  AtMost(S \cup T, k + 1) /\ k + 1 \in Nat
    BY <1>12, AtMostUnion
<1>13. AtMost(A \cup B \cup C, m + n + 1) /\ m + n + 1 \in Nat
    BY <1>3, <1>9, <1>11, <1>12
<1>14. AtMost(A \cup B \cup C \cup D, m + n + 1 + 1) /\ m + n + 1 + 1 \in Nat
    BY <1>4, <1>12, <1>13
<1>15. AtMost(A \cup B \cup C \cup D \cup E, m + n + 1 + 1 + 1) /\ m + n + 1 + 1 + 1 \in Nat
    BY <1>5, <1>12, <1>14
<1>16. PICK k \in Nat : /\ k = m + n + 1 + 1 + 1 + 1
                        /\ AtMost(A \cup B \cup C \cup D \cup E \cup F, k)
    BY <1>6, <1>12, <1>15
<1>17. AtMost(A \cup B \cup C \cup D \cup E \cup F \cup G, k + 1)
    BY <1>7, <1>12, <1>16
<1> QED BY <1>8, <1>10, <1>16, <1>17
==============================================================================
