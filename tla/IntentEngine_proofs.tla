------------------------ MODULE IntentEngine_proofs ------------------------
(***************************************************************************)
(* From a schema's construction rules to the sessions of the engine:       *)
(* create() accepts what the document admits, the registry holds nothing   *)
(* else and each version once, the classifier picks the best candidate     *)
(* whatever the order of the answer, a session exists only where the       *)
(* schema picked was granted, and the backend is told the best of what the *)
(* knowledge sources offer - for every set of schemas, documents, entries  *)
(* and answers of the backend.                                             *)
(***************************************************************************)
EXTENDS IntentEngine, SessionAggregate_proofs, FiniteSetTheorems

-----------------------------------------------------------------------------
(* The construction rules and the documents *)

(* validate_rollback enforces the document's three rollback rules.         *)
LEMMA RollbackRules ==
    ASSUME NEW d \in ActionSchemaDraft
    PROVE  validate_rollback(d) = "ok" <=>
               /\ d.reversibility = "reversible" => d.rollback = "rollback_api"
               /\ d.reversibility = "compensable" => d.rollback = "compensating_action"
               /\ d.reversibility = "irreversible" => d.rollback \in {"none", "manual"}
  BY DEF ActionSchemaDraft, ReversibilityClass, RollbackStrategy, validate_rollback

(* validate_confirmation enforces the document's two confirmation rules;   *)
(* its check of bounded actions is never the one that decides.             *)
LEMMA ConfirmationRules ==
    ASSUME NEW d \in ActionSchemaDraft
    PROVE  validate_confirmation(d) = "ok" <=>
               /\ d.confirmation = "automatic"
                      => d.blast_radius = "scoped" /\ d.side_effect = "read_only"
               /\ d.blast_radius = "broad"
                      => d.confirmation \in {"multi_party", "cooling_off"}
  BY DEF ActionSchemaDraft, BlastRadiusClass, SideEffectClass, ConfirmationMode,
         validate_confirmation

(* validate_dry_run enforces the document's two dry-run rules.             *)
LEMMA DryRunRules ==
    ASSUME NEW d \in ActionSchemaDraft
    PROVE  validate_dry_run(d) = "ok" <=>
               /\ d.side_effect = "read_only" => d.dry_run = "not_applicable"
               /\ d.reversibility = "irreversible" /\ d.side_effect # "read_only"
                      => d.dry_run = "mandatory"
  BY DEF ActionSchemaDraft, ReversibilityClass, DryRunRequirement, SideEffectClass,
         validate_dry_run

(* ActionSchema::create accepts exactly the drafts of action-schema-v0.md: *)
(* the order in which validate() looks at the rules decides only the error *)
(* code, never the verdict.                                                *)
THEOREM CreateAcceptsAsSpecified == AcceptsAsSpecified
<1> SUFFICES ASSUME NEW d \in ActionSchemaDraft
             PROVE  validate(d) = "ok" <=> SpecifiedRules(d)
  BY DEF AcceptsAsSpecified
<1>1. validate_examples(d) = "ok" <=> d.example \notin {"intent_empty", "parameters_empty"}
  BY DEF ActionSchemaDraft, validate_examples
<1>2. validate(d) = "ok" <=> /\ validate_rollback(d) = "ok"
                             /\ validate_confirmation(d) = "ok"
                             /\ validate_dry_run(d) = "ok"
                             /\ validate_examples(d) = "ok"
  BY DEF validate
<1> QED BY <1>1, <1>2, RollbackRules, ConfirmationRules, DryRunRules DEF SpecifiedRules

(* A number below 2^63 is read as itself, and no other makes a limit.      *)
LEMMA LimitsAreRead ==
    ASSUME NEW n, IsInteger(n)
    PROVE  parse_signed(n) = IF 0 <= n /\ n < Half THEN {n} ELSE {}
<1>1. Half \in Nat \ {0} /\ n \in Int /\ -Half <= n /\ n < 2 * Half
  BY JsonAssumption DEF IsInteger
<1>2. CASE n < Half
  <2>1. get_int64(n) = n
    BY <1>2 DEF get_int64
  <2> QED BY <1>1, <1>2, <2>1 DEF parse_signed
<1>3. CASE ~(n < Half)
  <2>1. get_int64(n) = n - 2 * Half /\ ~(n - 2 * Half >= 0)
    BY <1>1, <1>3 DEF get_int64
  <2> QED BY <1>3, <2>1 DEF parse_signed
<1> QED BY <1>2, <1>3

(* The schema a document stands for, once its number is known to be one.   *)
LEMMA DocumentIsRead ==
    ASSUME NEW doc, WellFormed(doc), 0 <= doc.maxEntities, doc.maxEntities < Half
    PROVE  parse_action_schema_json(doc) = create_schema(
        [action_id |-> doc.id, version |-> doc.version,
         draft |-> [reversibility |-> doc.reversibility, blast_radius |-> doc.class,
                    limit |-> doc.maxEntities,
                    dry_run |-> doc.dryRun, side_effect |-> doc.sideEffects,
                    confirmation |-> doc.confirmation, rollback |-> doc.rollback,
                    parameters |-> "object", example |-> doc.examples]])
<1>1. parse_signed(doc.maxEntities) = {doc.maxEntities}
  BY LimitsAreRead DEF WellFormed
<1> QED BY <1>1 DEF parse_action_schema_json

(* action_schema_json.hpp:22 for every schema the domain accepts: the      *)
(* output is read back without loss when the parameters are an object, the *)
(* limit fits into 63 bits and the examples' parameters are objects, and   *)
(* never otherwise.                                                        *)
THEOREM JsonRoundTrip ==
    ASSUME NEW s \in Schema, validate(s.draft) = "ok"
    PROVE  RoundTrips(s)
<1> DEFINE doc == serialize_action_schema_json(s)
           again == [action_id |-> doc.id, version |-> doc.version,
                     draft |-> [reversibility |-> doc.reversibility, blast_radius |-> doc.class,
                                limit |-> doc.maxEntities,
                                dry_run |-> doc.dryRun, side_effect |-> doc.sideEffects,
                                confirmation |-> doc.confirmation, rollback |-> doc.rollback,
                                parameters |-> "object", example |-> doc.examples]]
<1>1. s.action_id \in ActionIds /\ s.version \in Versions /\ s.draft \in ActionSchemaDraft
  BY DEF Schema
<1>2. s.draft.limit \in Nat /\ Half \in Nat \ {0}
  BY <1>1, JsonAssumption DEF ActionSchemaDraft
<1>3. doc.maxEntities = s.draft.limit
  BY DEF serialize_action_schema_json
<1>4. ASSUME Portable(s)
      PROVE  parse_action_schema_json(doc) = {s}
  <2>1. IsInteger(doc.maxEntities) /\ 0 <= doc.maxEntities /\ doc.maxEntities < Half
    BY <1>2, <1>3, <1>4 DEF Portable, IsInteger
  <2>2. /\ doc.id = s.action_id /\ doc.version = s.version /\ doc.parameters = "object"
        /\ doc.reversibility = s.draft.reversibility /\ doc.class = s.draft.blast_radius
        /\ doc.texts = "copied" /\ doc.dryRun = s.draft.dry_run
        /\ doc.sideEffects = s.draft.side_effect /\ doc.confirmation = s.draft.confirmation
        /\ doc.rollback = s.draft.rollback
    BY <1>4 DEF serialize_action_schema_json, Portable
  <2>3. doc.examples = s.draft.example /\ s.draft.example \in {"object", "empty_object"}
    BY <1>4 DEF serialize_action_schema_json, Portable
  <2>4. WellFormed(doc)
    <3> HIDE DEF doc
    <3> QED BY <1>1, <2>1, <2>2, <2>3 DEF WellFormed, ActionSchemaDraft
  <2>5. again = s
    <3>1. again.draft = s.draft
      <4> HIDE DEF doc
      <4> QED BY <1>1, <1>3, <1>4, <2>2, <2>3 DEF ActionSchemaDraft, Portable
    <3> HIDE DEF doc
    <3> QED BY <2>2, <3>1 DEF Schema
  <2>6. parse_action_schema_json(doc) = create_schema(again)
    <3> HIDE DEF doc
    <3> QED BY <2>1, <2>4, DocumentIsRead
  <2> HIDE DEF doc, again
  <2> QED BY <2>5, <2>6 DEF create_schema
<1>5. ASSUME ~Portable(s)
      PROVE  parse_action_schema_json(doc) # {s}
  <2>1. CASE s.draft.parameters # "object"
    <3>1. doc.parameters = Bad
      BY <2>1 DEF serialize_action_schema_json
    <3>2. ~WellFormed(doc)
      <4> HIDE DEF doc
      <4> QED BY <3>1, JsonAssumption DEF WellFormed
    <3> HIDE DEF doc
    <3> QED BY <3>2 DEF parse_action_schema_json
  <2>2. CASE ~(s.draft.limit < Half)
    <3> HIDE DEF doc
    <3>1. CASE WellFormed(doc)
      <4>1. parse_signed(doc.maxEntities) = {}
        BY <1>3, <2>2, <3>1, LimitsAreRead DEF WellFormed
      <4> QED BY <3>1, <4>1 DEF parse_action_schema_json
    <3>2. CASE ~WellFormed(doc)
      BY <3>2 DEF parse_action_schema_json
    <3> QED BY <3>1, <3>2
  <2>3. CASE s.draft.parameters = "object" /\ s.draft.limit < Half
    <3>1. s.draft.example \in {"json", "text"}
      BY <1>1, <1>5, <2>3 DEF Portable, ActionSchemaDraft, validate, validate_examples
    <3>2. doc.examples # s.draft.example
      BY <3>1, JsonAssumption DEF serialize_action_schema_json
    <3> HIDE DEF doc
    <3>3. \A t \in parse_action_schema_json(doc) : t.draft.example = doc.examples
      BY DEF parse_action_schema_json, create_schema
    <3> QED BY <3>2, <3>3
  <2> QED BY <1>5, <2>1, <2>2, <2>3 DEF Portable
<1> QED BY <1>4, <1>5 DEF RoundTrips

(* What a document is read as: its own number as the limit, and a schema   *)
(* that can be written and read again.                                     *)
THEOREM DocumentsReadAsWritten ==
    ASSUME NEW doc
    PROVE  ReadAsWritten(doc)
<1> SUFFICES ASSUME NEW s \in parse_action_schema_json(doc)
             PROVE  Portable(s) /\ s.draft.limit = doc.maxEntities
  BY DEF ReadAsWritten
<1>1. WellFormed(doc)
  BY DEF parse_action_schema_json
<1>2. PICK limit \in parse_signed(doc.maxEntities) :
         /\ s.draft.limit = limit /\ s.draft.parameters = "object"
         /\ s.draft.example = doc.examples /\ validate(s.draft) = "ok"
  BY <1>1 DEF parse_action_schema_json, create_schema
<1>3. limit = doc.maxEntities /\ limit < Half
  BY <1>1, LimitsAreRead DEF WellFormed
<1>4. s.draft.example \in {"object", "empty_object"}
  <2>1. validate_examples(s.draft) = "ok"
    BY <1>2 DEF validate
  <2> QED BY <1>1, <1>2, <2>1 DEF WellFormed, validate_examples
<1> QED BY <1>2, <1>3, <1>4 DEF Portable

-----------------------------------------------------------------------------
(* Ranks: how many elements of a finite set come before one of them *)

StrictOrder(R, S) ==
    /\ \A x \in S : <<x, x>> \notin R
    /\ \A x, y \in S : x # y => <<x, y>> \in R \/ <<y, x>> \in R
    /\ \A x, y, z \in S : <<x, y>> \in R /\ <<y, z>> \in R => <<x, z>> \in R

Before(R, S, x) == {y \in S : <<y, x>> \in R}

Rank(R, S, x) == Cardinality(Before(R, S, x))

LEMMA RankGrows ==
    ASSUME NEW S, IsFiniteSet(S), NEW R, StrictOrder(R, S), NEW x \in S, NEW y \in S, <<x, y>> \in R
    PROVE  Rank(R, S, x) < Rank(R, S, y)
<1> DEFINE a == Before(R, S, x)
           b == Before(R, S, y)
<1>1. a \in SUBSET S /\ b \in SUBSET S
  BY DEF Before
<1>2. x \notin a /\ a \cup {x} \in SUBSET b
  BY DEF Before, StrictOrder
<1> HIDE DEF a, b
<1>3. IsFiniteSet(a) /\ IsFiniteSet(b)
  BY <1>1, FS_Subset
<1>4. Cardinality(a \cup {x}) = Cardinality(a) + 1 /\ Cardinality(a \cup {x}) <= Cardinality(b)
  BY <1>2, <1>3, FS_AddElement, FS_Subset
<1>5. Cardinality(a) \in Nat /\ Cardinality(b) \in Nat
  BY <1>3, FS_CardinalityType
<1> QED
  BY <1>4, <1>5 DEF Rank, a, b

LEMMA RankIsBounded ==
    ASSUME NEW S, IsFiniteSet(S), NEW R, StrictOrder(R, S), NEW x \in S
    PROVE  /\ Rank(R, S, x) \in Nat /\ Cardinality(S) \in Nat
           /\ Rank(R, S, x) + 1 <= Cardinality(S)
<1> DEFINE a == Before(R, S, x)
<1>1. a \in SUBSET S /\ a \cup {x} \in SUBSET S /\ x \notin a
  BY DEF Before, StrictOrder
<1> HIDE DEF a
<1>2. IsFiniteSet(a)
  BY <1>1, FS_Subset
<1>3. Cardinality(a \cup {x}) = Cardinality(a) + 1 /\ Cardinality(a \cup {x}) <= Cardinality(S)
  BY <1>1, <1>2, FS_AddElement, FS_Subset
<1>4. Cardinality(a) \in Nat /\ Cardinality(S) \in Nat
  BY <1>2, FS_CardinalityType
<1> QED
  BY <1>3, <1>4 DEF Rank, a

(* Every place is taken.                                                   *)
LEMMA RankIsOnto ==
    ASSUME NEW S, IsFiniteSet(S), NEW R, StrictOrder(R, S), NEW k \in 1..Cardinality(S)
    PROVE  \E x \in S : Rank(R, S, x) + 1 = k
<1> DEFINE T == 1..Cardinality(S)
           f == [x \in S |-> Rank(R, S, x) + 1]
<1>1. Cardinality(S) \in Nat
  BY FS_CardinalityType
<1>2. IsFiniteSet(T) /\ Cardinality(T) = Cardinality(S)
  <2>1. PICK n \in Nat : n = Cardinality(S)
    BY <1>1
  <2>2. IsFiniteSet(1..n) /\ Cardinality(1..n) = n
    <3>1. 1 \in Int /\ n \in Int /\ n - 1 + 1 = n
      OBVIOUS
    <3>2. IsFiniteSet(1..n) /\ Cardinality(1..n) = IF 1 > n THEN 0 ELSE n - 1 + 1
      BY <3>1, FS_Interval
    <3> QED
      BY <3>1, <3>2
  <2> QED
    BY <2>1, <2>2
<1>3. f \in [S -> T]
  <2>1. ASSUME NEW x \in S PROVE Rank(R, S, x) + 1 \in T
    <3>1. PICK r \in Nat, n \in Nat : r = Rank(R, S, x) /\ n = Cardinality(S) /\ r + 1 <= n
      BY RankIsBounded
    <3> QED
      BY <3>1
  <2> HIDE DEF T
  <2> QED
    BY <2>1
<1>4. \A x, y \in S : f[x] = f[y] => x = y
  <2>1. SUFFICES ASSUME NEW x \in S, NEW y \in S, Rank(R, S, x) + 1 = Rank(R, S, y) + 1, x # y PROVE FALSE
    OBVIOUS
  <2>2. Rank(R, S, x) < Rank(R, S, y) \/ Rank(R, S, y) < Rank(R, S, x)
    BY <2>1, RankGrows DEF StrictOrder
  <2>3. Rank(R, S, x) \in Nat /\ Rank(R, S, y) \in Nat
    BY RankIsBounded
  <2> QED
    BY <2>1, <2>2, <2>3
<1> HIDE DEF f, T
<1>5. f \in Injection(S, T)
  <2>1. DOMAIN f = S
    BY <1>3
  <2> QED
    BY <1>3, <1>4, <2>1 DEF Injection, IsInjective
<1>6. f \in Surjection(S, T)
  BY <1>2, <1>5, FS_Injection
<1>7. \E x \in S : f[x] = k
  BY <1>6 DEF Surjection, T
<1> QED
  BY <1>7 DEF f

(* The elements in their order, each once.                                 *)
InOrder(R, S) == [k \in 1..Cardinality(S) |-> CHOOSE x \in S : Rank(R, S, x) + 1 = k]

Lists(e, n, S) == n \in Nat /\ e \in [1..n -> S] /\ \A x \in S : \E k \in 1..n : e[k] = x

Ordered(e, n, R) == \A k, l \in 1..n : k < l => <<e[k], e[l]>> \in R

LEMMA Arranged ==
    ASSUME NEW S, IsFiniteSet(S), NEW R, StrictOrder(R, S)
    PROVE  Lists(InOrder(R, S), Cardinality(S), S) /\ Ordered(InOrder(R, S), Cardinality(S), R)
<1> DEFINE e == InOrder(R, S)
<1>1. PICK n \in Nat : n = Cardinality(S)
  BY FS_CardinalityType
<1>2. ASSUME NEW k \in 1..n PROVE e[k] \in S /\ Rank(R, S, e[k]) + 1 = k
  <2>1. \E x \in S : Rank(R, S, x) + 1 = k
    BY <1>1, RankIsOnto
  <2> QED
    BY <1>1, <2>1 DEF InOrder
<1> HIDE DEF e
<1>3. \A x \in S : Rank(R, S, x) \in Nat /\ Rank(R, S, x) + 1 <= n
  BY <1>1, RankIsBounded
<1>4. \A x, y \in S : <<x, y>> \in R => Rank(R, S, x) < Rank(R, S, y)
  BY RankGrows
<1>5. ASSUME NEW x \in S PROVE \E k \in 1..n : e[k] = x
  <2>1. PICK k \in 1..n : k = Rank(R, S, x) + 1
    BY <1>3
  <2>2. PICK y \in S : y = e[k] /\ Rank(R, S, y) + 1 = k
    BY <1>2
  <2>3. Rank(R, S, x) = Rank(R, S, y)
    BY <1>3, <2>1, <2>2
  <2>4. ~(<<x, y>> \in R) /\ ~(<<y, x>> \in R)
    BY <1>3, <1>4, <2>3
  <2> QED
    BY <2>2, <2>4 DEF StrictOrder
<1>6. ASSUME NEW k \in 1..n, NEW l \in 1..n, k < l PROVE <<e[k], e[l]>> \in R
  <2>1. PICK x \in S : x = e[k] /\ Rank(R, S, x) + 1 = k
    BY <1>2
  <2>2. PICK y \in S : y = e[l] /\ Rank(R, S, y) + 1 = l
    BY <1>2
  <2>3. Rank(R, S, x) < Rank(R, S, y) /\ ~(Rank(R, S, y) < Rank(R, S, x))
    <3>1. PICK a \in Nat, b \in Nat : a = Rank(R, S, x) /\ b = Rank(R, S, y)
      BY <1>3
    <3>2. a + 1 < b + 1
      BY <1>6, <2>1, <2>2, <3>1
    <3> QED
      BY <3>1, <3>2
  <2>4. x # y /\ ~(<<y, x>> \in R)
    BY <1>4, <2>3
  <2> QED
    BY <2>1, <2>2, <2>4 DEF StrictOrder
<1>7. e \in [1..n -> S]
  <2>1. e = [k \in 1..n |-> CHOOSE x \in S : Rank(R, S, x) + 1 = k]
    BY <1>1 DEF e, InOrder
  <2> QED
    BY <1>2, <2>1
<1> QED
  BY <1>1, <1>5, <1>6, <1>7 DEF e, Lists, Ordered

LEMMA PlacesFinite == ASSUME NEW n \in Nat PROVE IsFiniteSet(1..n) /\ Cardinality(1..n) = n
<1>1. 1 \in Int /\ n \in Int /\ n - 1 + 1 = n
  OBVIOUS
<1>2. IsFiniteSet(1..n) /\ Cardinality(1..n) = IF 1 > n THEN 0 ELSE n - 1 + 1
  BY <1>1, FS_Interval
<1> QED
  BY <1>1, <1>2

(* The places of some elements of a sequence, from left to right.          *)
LEMMA PlacesOrdered ==
    ASSUME NEW n \in Nat, NEW I \in SUBSET (1..n)
    PROVE  /\ IsFiniteSet(I)
           /\ StrictOrder({p \in I \X I : p[1] < p[2]}, I)
           /\ \A i \in I : Rank({p \in I \X I : p[1] < p[2]}, I, i) = Cardinality({j \in I : j < i})
<1> DEFINE R == {p \in I \X I : p[1] < p[2]}
<1>1. IsFiniteSet(I)
  BY PlacesFinite, FS_Subset
<1>2. StrictOrder(R, I)
  BY DEF StrictOrder
<1>3. ASSUME NEW i \in I PROVE Rank(R, I, i) = Cardinality({j \in I : j < i})
  <2>1. Before(R, I, i) = {j \in I : j < i}
    BY DEF Before
  <2> QED
    BY <2>1 DEF Rank
<1> QED
  BY <1>1, <1>2, <1>3

(* The first of some places.                                               *)
LEMMA FirstPlace ==
    ASSUME NEW n \in Nat, NEW I \in SUBSET (1..n), I # {}
    PROVE  \E i \in I : \A j \in I : i <= j
<1> DEFINE R == {p \in I \X I : p[1] < p[2]}
<1>1. IsFiniteSet(I) /\ StrictOrder(R, I)
  BY PlacesOrdered
<1>2. \A x, y : <<x, y>> \in R => x < y
  OBVIOUS
<1> HIDE DEF R
<1>3. PICK e, c : Lists(e, c, I) /\ Ordered(e, c, R)
  BY <1>1, Arranged
<1>4. c \in Nat /\ 1 \in 1..c
  <2>1. PICK k : k \in 1..c
    BY <1>3 DEF Lists
  <2> QED
    BY <1>3, <2>1 DEF Lists
<1>5. PICK a \in I : a = e[1]
  BY <1>3, <1>4 DEF Lists
<1>6. ASSUME NEW j \in I PROVE a <= j
  <2>1. PICK k \in 1..c : e[k] = j
    BY <1>3 DEF Lists
  <2>2. CASE k = 1
    BY <1>5, <2>1, <2>2
  <2>3. CASE k # 1
    <3>1. <<a, j>> \in R
      BY <1>3, <1>4, <1>5, <2>1, <2>3 DEF Ordered
    <3> QED
      BY <1>2, <3>1
  <2> QED
    BY <2>2, <2>3
<1> QED
  BY <1>6

(* Kept: the elements of s at the places in I, none of them twice.         *)
Picks(u, s, e, m) == u = [k \in 1..m |-> s[e[k]]]

Rises(e, m) == \A k, l \in 1..m : k < l => e[k] < e[l]

LEMMA KeptPlaces ==
    ASSUME NEW n \in Nat, NEW s, NEW I \in SUBSET (1..n)
    PROVE  \E e, m : Lists(e, m, I) /\ Rises(e, m) /\ Picks(Kept(s, I), s, e, m) /\ m = Cardinality(I)
<1> DEFINE R == {p \in I \X I : p[1] < p[2]}
           At(k) == CHOOSE x \in I : Cardinality({j \in I : j < x}) + 1 = k
<1>1. /\ IsFiniteSet(I) /\ StrictOrder(R, I)
      /\ \A i \in I : Rank(R, I, i) = Cardinality({j \in I : j < i})
  BY PlacesOrdered
<1>2. \A x, y : <<x, y>> \in R => x < y
  OBVIOUS
<1>3. Kept(s, I) = [k \in 1..Cardinality(I) |-> s[At(k)]]
  BY DEF Kept
<1> HIDE DEF R
<1>4. PICK e, m : Lists(e, m, I) /\ Ordered(e, m, R) /\ m = Cardinality(I) /\ e = InOrder(R, I)
  BY <1>1, Arranged
<1>5. ASSUME NEW k \in 1..m PROVE At(k) = e[k]
  <2>1. \A x \in I : Cardinality({j \in I : j < x}) + 1 = k <=> Rank(R, I, x) + 1 = k
    BY <1>1
  <2>2. PICK c : c = CHOOSE x \in I : Rank(R, I, x) + 1 = k
    OBVIOUS
  <2>3. At(k) = c
    BY <2>1, <2>2, Zenon
  <2>4. e[k] = c
    BY <1>4, <2>2 DEF InOrder
  <2> QED
    BY <2>3, <2>4
<1>6. Picks(Kept(s, I), s, e, m)
  <2> HIDE DEF At
  <2> QED
    BY <1>3, <1>4, <1>5 DEF Picks
<1>7. Rises(e, m)
  BY <1>2, <1>4 DEF Ordered, Rises
<1> QED
  BY <1>4, <1>6, <1>7

(* Lists, their beginnings and their concatenation.                        *)
Listed(u, n) == n \in Nat /\ DOMAIN u = 1..n /\ u \in Seq(Range(u))

Starts(v, u, c) ==
    Len(v) = c /\ DOMAIN v = 1..c /\ v \in Seq(Range(u)) /\ \A k \in 1..c : v[k] = u[k]

LEMMA FunctionIsListed ==
    ASSUME NEW m \in Nat, NEW S, NEW u \in [1..m -> S]
    PROVE  Listed(u, m)
<1>1. \A k \in 1..m : u[k] \in Range(u)
  BY DEF Range
<1>2. u \in [1..m -> Range(u)]
  BY <1>1
<1> QED
  BY <1>2, FunctionIsSeq DEF Listed

LEMMA PickedIsListed ==
    ASSUME NEW m \in Nat, NEW u, NEW s, NEW e, Picks(u, s, e, m)
    PROVE  Listed(u, m)
<1>1. u \in [1..m -> Range(u)]
  BY DEF Picks, Range
<1> QED
  BY <1>1, FunctionIsListed

LEMMA ListedLen == ASSUME NEW u, NEW n, Listed(u, n) PROVE n \in Nat /\ Len(u) = n
<1>1. n \in Nat /\ DOMAIN u = 1..n /\ u \in Seq(Range(u))
  BY DEF Listed
<1>2. PICK l \in Nat : l = Len(u) /\ DOMAIN u = 1..l
  BY <1>1, LenProperties
<1>3. 1..l = 1..n
  BY <1>1, <1>2
<1>4. (l = 0 \/ l \in 1..l) /\ (n = 0 \/ n \in 1..n)
  BY <1>1, <1>2
<1>5. l = n
  BY <1>3, <1>4
<1> QED
  BY <1>1, <1>2, <1>5

LEMMA Prefix ==
    ASSUME NEW u, NEW n, Listed(u, n), NEW c \in 0..n
    PROVE  Starts(SubSeq(u, 1, c), u, c)
<1>1. n \in Nat /\ DOMAIN u = 1..n /\ u \in Seq(Range(u)) /\ Len(u) = n
  BY ListedLen DEF Listed
<1>2. \A k \in 1..c : u[k] \in Range(u)
  BY <1>1 DEF Range
<1>3. /\ SubSeq(u, 1, c) \in Seq(Range(u))
      /\ Len(SubSeq(u, 1, c)) = IF 1 <= c THEN c - 1 + 1 ELSE 0
      /\ \A k \in 1..(c - 1 + 1) : SubSeq(u, 1, c)[k] = u[1 + k - 1]
  BY <1>2, SubSeqProperties
<1>4. Len(SubSeq(u, 1, c)) = c /\ \A k \in 1..c : SubSeq(u, 1, c)[k] = u[k]
  BY <1>3
<1>5. DOMAIN SubSeq(u, 1, c) = 1..c
  BY <1>3, <1>4, LenProperties
<1> QED
  BY <1>3, <1>4, <1>5 DEF Starts

LEMMA StartIsListed ==
    ASSUME NEW c \in Nat, NEW v, NEW u, Starts(v, u, c)
    PROVE  Listed(v, c)
<1>1. v \in Seq(Range(u)) /\ DOMAIN v = 1..c
  BY DEF Starts
<1>2. v \in [DOMAIN v -> Range(u)]
  BY <1>1, LenProperties
<1> QED
  BY <1>1, <1>2, FunctionIsListed

Joins(w, u, m, v, n) ==
    /\ Listed(w, m + n)
    /\ \A k \in 1..m : w[k] = u[k]
    /\ \A k \in 1..n : w[m + k] = v[k]

LEMMA Joined ==
    ASSUME NEW u, NEW m, Listed(u, m), NEW v, NEW n, Listed(v, n)
    PROVE  Joins(u \o v, u, m, v, n)
<1> DEFINE E == Range(u) \cup Range(v)
<1>1. /\ m \in Nat /\ Len(u) = m /\ u \in Seq(Range(u))
      /\ n \in Nat /\ Len(v) = n /\ v \in Seq(Range(v))
  BY ListedLen DEF Listed
<1>2. u \in Seq(E) /\ v \in Seq(E)
  BY <1>1, SeqMonotonic
<1> HIDE DEF E
<1>3. /\ u \o v \in Seq(E) /\ Len(u \o v) = m + n
      /\ \A i \in 1..(m + n) : (u \o v)[i] = IF i <= m THEN u[i] ELSE v[i - m]
  BY <1>1, <1>2, ConcatProperties
<1>4. u \o v \in [1..(m + n) -> E]
  BY <1>3, LenProperties
<1>5. Listed(u \o v, m + n)
  <2>1. PICK l \in Nat : l = m + n
    BY <1>1
  <2>2. u \o v \in [1..l -> E]
    BY <1>4, <2>1
  <2>3. Listed(u \o v, l)
    BY <2>2, FunctionIsListed
  <2> QED
    BY <2>1, <2>3
<1>6. \A k \in 1..m : (u \o v)[k] = u[k]
  BY <1>1, <1>3
<1>7. ASSUME NEW k \in 1..n PROVE (u \o v)[m + k] = v[k]
  <2>1. m + k \in 1..(m + n) /\ ~(m + k <= m) /\ (m + k) - m = k
    BY <1>1
  <2> QED
    BY <1>3, <2>1
<1> QED
  BY <1>5, <1>6, <1>7 DEF Joins

-----------------------------------------------------------------------------
(* stable_sort *)

(* What the sorted candidates are: the best first, and none of the others  *)
(* better than the second.                                                 *)
LEMMA SortedCandidates ==
    ASSUME NEW answer \in Level1, NEW c \in parse_classification_response(answer)
    PROVE  /\ answer # Nil /\ answer # <<>> /\ answer \in Seq(Range(answer))
           /\ Len(c) = Len(answer) /\ Len(answer) \in Nat /\ DOMAIN answer = 1..Len(answer)
           /\ \E i \in DOMAIN answer :
                  /\ c[1] = answer[i]
                  /\ \A j \in DOMAIN answer \ {i} :
                         /\ answer[j].confidence <= answer[i].confidence
                         /\ Len(c) > 1 /\ answer[j].confidence <= c[2].confidence
                         /\ c[2].confidence \in Nat
<1> DEFINE S == DOMAIN answer
           Less(i, j) == answer[i].confidence > answer[j].confidence
           Precedes(i, j) == Less(i, j) \/ (~Less(j, i) /\ i < j)
           R == {p \in S \X S : Precedes(p[1], p[2])}
           Place(i) == Cardinality({j \in S : Precedes(j, i)}) + 1
<1>1. answer # Nil /\ answer # <<>> /\ answer \in Seq(Range(answer))
  BY EngineAssumption DEF parse_classification_response
<1>2. c = [k \in S |-> answer[CHOOSE i \in S : Place(i) = k]]
  BY DEF parse_classification_response, stable_sort
<1>3. Len(answer) \in Nat /\ S = 1..Len(answer)
  BY <1>1, LenProperties
<1>4. Len(answer) >= 1
  BY <1>1, <1>3, EmptySeq
<1>5. \A i \in S : answer[i].confidence \in Nat /\ i \in Nat
  <2>1. \A i \in S : answer[i].confidence \in Nat
    BY <1>1, EngineAssumption
  <2>2. \A i \in S : i \in Nat
    BY <1>3
  <2> QED
    BY <2>1, <2>2
<1>6. IsFiniteSet(S) /\ Cardinality(S) = Len(answer)
  BY <1>3, PlacesFinite
<1>7. StrictOrder(R, S)
  BY <1>5 DEF StrictOrder
<1>8. \A i \in S : Place(i) = Rank(R, S, i) + 1
  <2>1. SUFFICES ASSUME NEW i \in S PROVE {j \in S : Precedes(j, i)} = Before(R, S, i)
    BY DEF Rank
  <2> QED
    BY DEF Before
<1>9. \A i, j \in S : <<i, j>> \in R => answer[j].confidence <= answer[i].confidence
  BY <1>5
<1> HIDE DEF S, R, Place
<1>10. PICK e, n : n = Len(answer) /\ Lists(e, n, S) /\ Ordered(e, n, R) /\ e = InOrder(R, S)
  BY <1>3, <1>6, <1>7, Arranged
<1>11. ASSUME NEW k \in S PROVE c[k] = answer[e[k]] /\ e[k] \in S
  <2>1. PICK i : i = CHOOSE j \in S : Rank(R, S, j) + 1 = k
    OBVIOUS
  <2>2. i = CHOOSE j \in S : Place(j) = k
    BY <1>8, <2>1, Zenon
  <2>3. k \in 1..n
    BY <1>3, <1>10
  <2>4. e[k] = i /\ e[k] \in S
    BY <1>6, <1>10, <2>1, <2>3 DEF InOrder, Lists
  <2> QED
    BY <1>2, <2>2, <2>4
<1>12. Len(c) = Len(answer)
  <2>1. c = [k \in 1..n |-> c[k]]
    BY <1>2, <1>3, <1>10
  <2>2. c \in [1..n -> Range(answer)]
    BY <1>3, <1>10, <1>11, <2>1 DEF Range, S
  <2>3. n \in Nat
    BY <1>3, <1>10
  <2>4. Listed(c, n)
    BY <2>2, <2>3, FunctionIsListed
  <2> QED
    BY <1>10, <2>4, ListedLen
<1>13. 1 \in S /\ e[1] \in S /\ c[1] = answer[e[1]]
  <2>1. 1 \in S
    BY <1>3, <1>4
  <2> QED
    BY <1>11, <2>1
<1>14. ASSUME NEW j \in S, j # e[1]
       PROVE  /\ answer[j].confidence <= answer[e[1]].confidence
              /\ Len(c) > 1 /\ answer[j].confidence <= c[2].confidence
              /\ c[2].confidence \in Nat
  <2>1. PICK l \in 1..n : e[l] = j /\ l > 1
    <3>1. PICK l \in 1..n : e[l] = j
      BY <1>10 DEF Lists
    <3> QED
      BY <1>14, <3>1
  <2>2. n > 1 /\ 2 \in S
    BY <1>3, <1>10, <2>1
  <2>3. <<e[1], e[l]>> \in R /\ (l # 2 => <<e[2], e[l]>> \in R)
    BY <1>10, <2>1 DEF Ordered
  <2>4. PICK k \in S : k = e[2] /\ c[2] = answer[k]
    BY <1>11, <2>2
  <2>5. answer[j].confidence <= answer[e[1]].confidence
    BY <1>9, <1>13, <2>1, <2>3
  <2>6. answer[j].confidence <= answer[k].confidence
    BY <1>5, <1>9, <2>1, <2>3, <2>4
  <2> QED
    BY <1>5, <1>10, <1>12, <2>2, <2>4, <2>5, <2>6
<1> QED
  BY <1>1, <1>3, <1>12, <1>13, <1>14 DEF S

-----------------------------------------------------------------------------
(* What the backend is told: merge, ranking, removal of copies, truncation *)

IsEntry(e) == e.priority \in Int /\ e.relevance \in Int

(* Ranks compares as std::stable_sort demands it.                          *)
LEMMA RanksIsWeakOrder ==
    ASSUME NEW a, NEW b, NEW c, IsEntry(a), IsEntry(b), IsEntry(c)
    PROVE  /\ ~Ranks(a, a)
           /\ Ranks(a, b) => ~Ranks(b, a)
           /\ Ranks(a, b) => Ranks(a, c) \/ Ranks(c, b)
BY DEF IsEntry, Ranks

(* std::stable_sort by Ranks: the same entries, none before one that ranks *)
(* higher.                                                                 *)
Entries(s, n) == DOMAIN s = 1..n /\ \A i \in 1..n : IsEntry(s[i])

Sorts(t, s, n) ==
    /\ DOMAIN t = 1..n
    /\ \A k \in 1..n : \E i \in 1..n : t[k] = s[i]
    /\ \A i \in 1..n : \E k \in 1..n : t[k] = s[i]
    /\ \A k, l \in 1..n : k <= l => ~Ranks(t[l], t[k])

LEMMA SortedEntries ==
    ASSUME NEW n \in Nat, NEW s, Entries(s, n), NEW t, t = Ranked(s)
    PROVE  Sorts(t, s, n)
<1> DEFINE S == 1..n
           Precedes(i, j) == Ranks(s[i], s[j]) \/ (~Ranks(s[j], s[i]) /\ i < j)
           R == {p \in S \X S : Precedes(p[1], p[2])}
           Place(i) == Cardinality({j \in S : Precedes(j, i)}) + 1
<1>1. IsFiniteSet(S) /\ Cardinality(S) = n
  BY PlacesFinite
<1>2. /\ \A i \in S : ~Ranks(s[i], s[i])
      /\ \A i, j \in S : Ranks(s[i], s[j]) => ~Ranks(s[j], s[i])
      /\ \A i, j, k \in S : Ranks(s[i], s[j]) => Ranks(s[i], s[k]) \/ Ranks(s[k], s[j])
  BY RanksIsWeakOrder DEF Entries
<1>3. StrictOrder(R, S)
  BY <1>2 DEF StrictOrder
<1>4. \A i, j \in S : <<i, j>> \in R => ~Ranks(s[j], s[i])
  BY <1>2
<1>5. \A i \in S : ~Ranks(s[i], s[i])
  BY <1>2
<1>6. t = [k \in S |-> s[CHOOSE i \in S : Place(i) = k]]
  BY DEF Entries, Ranked, stable_sort
<1>7. \A i \in S : Place(i) = Rank(R, S, i) + 1
  <2>1. SUFFICES ASSUME NEW i \in S PROVE {j \in S : Precedes(j, i)} = Before(R, S, i)
    BY DEF Rank
  <2> QED
    BY DEF Before
<1> HIDE DEF R, Place, S
<1>8. PICK e : Lists(e, n, S) /\ Ordered(e, n, R) /\ e = InOrder(R, S)
  BY <1>1, <1>3, Arranged
<1>9. ASSUME NEW k \in S PROVE t[k] = s[e[k]]
  <2>1. PICK c : c = CHOOSE i \in S : Rank(R, S, i) + 1 = k
    OBVIOUS
  <2>2. c = CHOOSE i \in S : Place(i) = k
    BY <1>7, <2>1, Zenon
  <2>3. k \in 1..Cardinality(S)
    BY <1>1 DEF S
  <2>4. e[k] = c
    BY <1>8, <2>1, <2>3 DEF InOrder
  <2>5. t[k] = s[c]
    BY <1>6, <2>2
  <2> QED
    BY <2>4, <2>5
<1>10. ASSUME NEW k \in S, NEW l \in S, k <= l PROVE ~Ranks(t[l], t[k])
  <2>1. PICK i \in S : i = e[k] /\ t[k] = s[i]
    BY <1>8, <1>9 DEF Lists, S
  <2>2. PICK j \in S : j = e[l] /\ t[l] = s[j]
    BY <1>8, <1>9 DEF Lists, S
  <2>3. CASE k = l
    BY <1>5, <2>1, <2>2, <2>3
  <2>4. CASE k # l
    <3>1. k < l
      BY <1>10, <2>4 DEF S
    <3>2. <<i, j>> \in R
      BY <1>8, <2>1, <2>2, <3>1 DEF Ordered, S
    <3> QED
      BY <1>4, <2>1, <2>2, <3>2
  <2> QED
    BY <2>3, <2>4
<1>11. /\ DOMAIN t = S
       /\ \A k \in S : \E i \in S : t[k] = s[i]
       /\ \A i \in S : \E k \in S : t[k] = s[i]
  <2>1. DOMAIN t = S
    BY <1>6
  <2>2. (\A k \in S : e[k] \in S) /\ (\A i \in S : \E k \in S : e[k] = i)
    BY <1>8 DEF Lists, S
  <2> QED
    BY <1>9, <2>1, <2>2
<1> QED
  BY <1>10, <1>11 DEF S, Sorts

(* Removal of copies: what stays are the first ones, in their order, and   *)
(* every entry has its like among what stays, no later than itself.        *)
LEMMA UnseenEntries ==
    ASSUME NEW n \in Nat, NEW t, DOMAIN t = 1..n
    PROVE  \E e, m :
               /\ m \in Nat /\ e \in [1..m -> 1..n] /\ Picks(Unseen(t), t, e, m)
               /\ \A k, l \in 1..m : k < l => e[k] < e[l] /\ ~SameEntry(t[e[l]], t[e[k]])
               /\ \A i \in 1..n : \E k \in 1..m : e[k] <= i /\ SameEntry(t[e[k]], t[i])
<1>1. /\ Firsts(t) \in SUBSET (1..n)
      /\ \A i \in Firsts(t) : \A j \in 1..(i - 1) : ~SameEntry(t[i], t[j])
  BY DEF Firsts
<1>2. PICK e, m : Lists(e, m, Firsts(t)) /\ Rises(e, m) /\ Picks(Kept(t, Firsts(t)), t, e, m)
  BY <1>1, KeptPlaces
<1>3. m \in Nat /\ e \in [1..m -> 1..n] /\ Picks(Unseen(t), t, e, m)
  BY <1>1, <1>2 DEF Lists, Unseen
<1>4. \A i \in Firsts(t) : \E k \in 1..m : e[k] = i
  BY <1>2 DEF Lists
<1>5. ASSUME NEW k \in 1..m, NEW l \in 1..m, k < l
      PROVE  e[k] < e[l] /\ ~SameEntry(t[e[l]], t[e[k]])
  <2>1. PICK i \in Firsts(t), j \in Firsts(t) : i = e[k] /\ j = e[l]
    BY <1>2 DEF Lists
  <2>2. i < j
    BY <1>2, <1>5, <2>1 DEF Rises
  <2>3. i \in 1..(j - 1)
    BY <1>1, <2>1, <2>2
  <2> QED
    BY <1>1, <2>1, <2>2, <2>3
<1>6. ASSUME NEW i \in 1..n PROVE \E k \in 1..m : e[k] <= i /\ SameEntry(t[e[k]], t[i])
  <2> DEFINE I == {j \in 1..n : j <= i /\ SameEntry(t[j], t[i])}
  <2>1. I \in SUBSET (1..n) /\ i \in I
    BY DEF SameEntry
  <2>2. PICK j \in I : \A l \in I : j <= l
    BY <2>1, FirstPlace
  <2>3. ASSUME NEW l \in 1..(j - 1), SameEntry(t[j], t[l]) PROVE FALSE
    <3>1. l \in I
      BY <2>3 DEF SameEntry
    <3> QED
      BY <2>2, <3>1
  <2>4. j \in Firsts(t)
    BY <2>3 DEF Firsts
  <2> QED
    BY <1>4, <2>4
<1> QED
  BY <1>3, <1>5, <1>6

(* The merge of the answers, one source after the other: the library's     *)
(* recursive function exists.                                              *)
Merges(f, q, n) == f = [i \in 1..n |-> IF i = 1 THEN q[i] ELSE f[i - 1] \o q[i]]

LEMMA MergeExists ==
    ASSUME NEW q, NEW n \in Nat \ {0}
    PROVE  \E f : Merges(f, q, n)
<1> DEFINE I == {k \in 1..n : ~\E f : Merges(f, q, k)}
<1>0. n \in 1..n
  OBVIOUS
<1>1. SUFFICES ASSUME n \in I PROVE FALSE
  BY <1>0
<1>2. PICK k \in I : \A l \in I : k <= l
  <2>1. I \in SUBSET (1..n)
    OBVIOUS
  <2> HIDE DEF I
  <2> QED
    BY <1>1, <2>1, FirstPlace
<1>3. CASE k = 1
  <2>1. PICK f : f = [i \in 1..1 |-> q[i]]
    OBVIOUS
  <2>2. f = [i \in 1..1 |-> IF i = 1 THEN q[i] ELSE f[i - 1] \o q[i]]
    BY <2>1
  <2> QED
    BY <1>3, <2>2 DEF Merges
<1>4. CASE k # 1
  <2>1. PICK j \in 1..n : j = k - 1 /\ j \notin I
    BY <1>2, <1>4
  <2>2. PICK f : Merges(f, q, j)
    BY <2>1
  <2>3. PICK g : g = [i \in 1..k |-> IF i = k THEN f[j] \o q[k] ELSE f[i]]
    OBVIOUS
  <2>4. ASSUME NEW i \in 1..k PROVE g[i] = IF i = 1 THEN q[i] ELSE g[i - 1] \o q[i]
    <3>1. CASE i = k
      <4>1. j \in 1..k /\ j # k /\ i - 1 = j
        BY <2>1, <3>1
      <4>2. g[j] = f[j] /\ g[i] = f[j] \o q[k]
        BY <2>3, <3>1, <4>1
      <4> QED
        BY <1>4, <3>1, <4>1, <4>2
    <3>2. CASE i # k
      <4>1. i \in 1..j /\ g[i] = f[i]
        BY <2>1, <2>3, <3>2
      <4>2. f[i] = IF i = 1 THEN q[i] ELSE f[i - 1] \o q[i]
        BY <2>2, <4>1 DEF Merges
      <4>3. i # 1 => i - 1 \in 1..k /\ i - 1 # k /\ g[i - 1] = f[i - 1]
        BY <2>3, <4>1, <2>1
      <4> QED
        BY <4>1, <4>2, <4>3
    <3> QED
      BY <3>1, <3>2
  <2>5. g = [i \in 1..k |-> IF i = 1 THEN q[i] ELSE g[i - 1] \o q[i]]
    <3>1. g = [i \in 1..k |-> g[i]]
      BY <2>3
    <3> QED
      BY <2>4, <3>1
  <2> QED
    BY <2>5 DEF Merges
<1> QED
  BY <1>3, <1>4

(* It holds the entries of all parts and no others.                        *)
Parts(q, n, E) == \A i \in 1..n : q[i] \in Seq(E)

Holds(s, q, k, E) == s \in Seq(E) /\ Range(s) = UNION {Range(q[i]) : i \in 1..k}

LEMMA MergeHolds ==
    ASSUME NEW E, NEW q, NEW n \in Nat, Parts(q, n, E), NEW f, Merges(f, q, n), NEW k \in 1..n
    PROVE  Holds(f[k], q, k, E)
<1> DEFINE Good(i) == Holds(f[i], q, i, E)
           I == {i \in 1..n : ~Good(i)}
<1>1. SUFFICES ASSUME k \in I PROVE FALSE
  OBVIOUS
<1>2. PICK i \in I : \A l \in I : i <= l
  <2>1. I \in SUBSET (1..n)
    OBVIOUS
  <2> HIDE DEF I
  <2> QED
    BY <1>1, <2>1, FirstPlace
<1>3. CASE i = 1
  <2>1. f[1] = q[1] /\ 1..1 = {1}
    BY <1>2, <1>3 DEF Merges
  <2>2. Good(1)
    BY <1>2, <1>3, <2>1 DEF Parts, Holds
  <2> QED
    BY <1>2, <1>3, <2>2
<1>4. CASE i # 1
  <2>1. PICK h \in 1..n : h = i - 1
    BY <1>2, <1>4
  <2>2. f[h] \in Seq(E) /\ Range(f[h]) = UNION {Range(q[j]) : j \in 1..h}
    <3>1. ~(i <= h)
      BY <1>2, <2>1
    <3> HIDE DEF Good
    <3>2. Good(h)
      BY <1>2, <3>1
    <3> QED
      BY <3>2 DEF Good, Holds
  <2>3. f[i] = f[h] \o q[i]
    BY <1>2, <1>4, <2>1 DEF Merges
  <2>4. f[i] \in Seq(E) /\ Range(f[i]) = Range(f[h]) \cup Range(q[i])
    BY <1>2, <2>2, <2>3, ConcatProperties, RangeConcatenation DEF Parts
  <2>5. 1..i = 1..h \cup {i}
    BY <1>2, <2>1
  <2>6. Range(f[i]) = UNION {Range(q[j]) : j \in 1..i}
    BY <2>2, <2>4, <2>5
  <2> QED
    BY <1>2, <2>4, <2>6 DEF Holds
<1> QED
  BY <1>3, <1>4

LEMMA Flattened ==
    ASSUME NEW E, NEW q \in Seq(Seq(E))
    PROVE  FlattenSeq(q) \in Seq(E) /\ Range(FlattenSeq(q)) = UNION {Range(q[i]) : i \in DOMAIN q}
<1>1. PICK n \in Nat : n = Len(q) /\ DOMAIN q = 1..n /\ \A i \in 1..n : q[i] \in Seq(E)
  BY LenProperties
<1>2. CASE n = 0
  <2>1. q = <<>> /\ DOMAIN q = {}
    BY <1>1, <1>2, EmptySeq
  <2>2. FlattenSeq(q) = <<>>
    BY <1>1, <1>2, <2>1 DEF FlattenSeq
  <2> QED
    BY <2>1, <2>2, EmptySeq DEF Range
<1>3. CASE n # 0
  <2> DEFINE f == CHOOSE f : f = [i \in 1..n |-> IF i = 1 THEN q[i] ELSE f[i - 1] \o q[i]]
  <2>1. f = [i \in 1..n |-> IF i = 1 THEN q[i] ELSE f[i - 1] \o q[i]]
    <3>1. \E g : Merges(g, q, n)
      BY <1>3, MergeExists
    <3>2. \E g : g = [i \in 1..n |-> IF i = 1 THEN q[i] ELSE g[i - 1] \o q[i]]
      BY <3>1 DEF Merges
    <3> QED
      BY <3>2, Zenon
  <2>2. FlattenSeq(q) = f[n]
    BY <1>1, <1>3 DEF FlattenSeq
  <2> HIDE DEF f
  <2>3. Merges(f, q, n)
    BY <2>1 DEF Merges
  <2>4. n \in 1..n
    BY <1>3
  <2>5. Parts(q, n, E)
    BY <1>1 DEF Parts
  <2>6. Holds(f[n], q, n, E)
    BY ONLY n \in Nat, <2>3, <2>4, <2>5, MergeHolds
  <2> QED
    BY <1>1, <2>2, <2>6 DEF Holds
<1> QED
  BY <1>2, <1>3

LEMMA MergedEntries ==
    ASSUME NEW answers, answers \in Seq(Range(answers)), \A a \in Range(answers) : IsAnswer(a)
    PROVE  /\ Merged(answers) \in Seq(Offered(answers))
           /\ Range(Merged(answers)) = Offered(answers)
           /\ \A e \in Offered(answers) : IsEntry(e)
<1> DEFINE E == Offered(answers)
           q == [i \in DOMAIN answers |-> IF answers[i] = Failed THEN <<>> ELSE answers[i]]
<1>1. PICK n \in Nat : DOMAIN answers = 1..n
  BY LenProperties
<1>2. ASSUME NEW i \in 1..n PROVE q[i] \in Seq(E)
  <2>1. CASE answers[i] = Failed
    BY <1>1, <2>1, EmptySeq
  <2>2. CASE answers[i] # Failed
    <3>1. answers[i] \in Seq(Range(answers[i]))
      BY <1>1, <2>2 DEF IsAnswer, Range
    <3>2. Range(answers[i]) \in SUBSET E
      BY <1>1, <2>2 DEF Offered
    <3> QED
      BY <1>1, <2>2, <3>1, <3>2, SeqMonotonic
  <2> QED
    BY <2>1, <2>2
<1>3. q \in Seq(Seq(E)) /\ DOMAIN q = 1..n
  <2>1. q \in [1..n -> Seq(E)] /\ DOMAIN q = 1..n
    BY <1>1, <1>2
  <2> HIDE DEF q
  <2> QED
    BY <2>1, FunctionIsSeq
<1>4. FlattenSeq(q) \in Seq(E) /\ Range(FlattenSeq(q)) = UNION {Range(q[i]) : i \in DOMAIN q}
  BY <1>3, Flattened
<1>5. UNION {Range(q[i]) : i \in DOMAIN q} = E
  <2>1. \A i \in 1..n : answers[i] = Failed => Range(q[i]) = {}
    BY <1>1, EmptySeq DEF Range
  <2>2. \A i \in 1..n : answers[i] # Failed => q[i] = answers[i]
    BY <1>1
  <2> HIDE DEF q
  <2>3. ASSUME NEW e PROVE e \in E <=> \E i \in 1..n : answers[i] # Failed /\ e \in Range(answers[i])
    BY <1>1 DEF Offered
  <2>4. ASSUME NEW i \in 1..n, NEW e
        PROVE  e \in Range(q[i]) <=> answers[i] # Failed /\ e \in Range(answers[i])
    BY <2>1, <2>2
  <2>5. ASSUME NEW e PROVE e \in UNION {Range(q[i]) : i \in DOMAIN q} <=> \E i \in 1..n : e \in Range(q[i])
    BY <1>3
  <2> HIDE DEF E
  <2> QED
    BY <2>3, <2>4, <2>5
<1>6. ASSUME NEW e \in E PROVE IsEntry(e)
  <2>1. PICK i \in DOMAIN answers : answers[i] # Failed /\ e \in Range(answers[i])
    BY DEF Offered
  <2> QED
    BY <2>1 DEF IsAnswer, IsEntry, Range
<1> QED
  BY <1>4, <1>5, <1>6 DEF Merged

(* The cut: the first max_results entries, or all.                         *)
Cuts(v, u, c, n) == Starts(v, u, c) /\ c <= MaxResults /\ (c < n => c = MaxResults)

LEMMA TruncatedEntries ==
    ASSUME NEW u, NEW n, Listed(u, n)
    PROVE  \E c \in 0..n : Cuts(Truncated(u), u, c, n)
<1>1. n \in Nat /\ Len(u) = n /\ MaxResults \in Nat
  BY ListedLen, OrchestratorAssumption
<1>2. PICK c \in 0..n : c = IF n > MaxResults THEN MaxResults ELSE n
  BY <1>1
<1>3. Truncated(u) = SubSeq(u, 1, c)
  BY <1>1, <1>2 DEF Truncated
<1>4. Starts(Truncated(u), u, c)
  BY <1>3, Prefix
<1>5. Cuts(Truncated(u), u, c, n)
  BY <1>1, <1>2, <1>4 DEF Cuts
<1> QED
  BY <1>5

(* KnowledgeOrchestrator keeps the best entries of any number of sources,  *)
(* whatever they answer and however many of them fail.                     *)
THEOREM BestAreKept ==
    ASSUME NEW answers, answers \in Seq(Range(answers)), \A a \in Range(answers) : IsAnswer(a)
    PROVE  KeepsTheBest(answers)
<1> DEFINE E == Offered(answers)
<1>1. PICK s : /\ s = Merged(answers) /\ s \in Seq(E) /\ Range(s) = E
               /\ \A e \in E : IsEntry(e)
  BY MergedEntries
<1> HIDE DEF E
<1>2. PICK n \in Nat : Entries(s, n)
  BY <1>1, LenProperties DEF Range, Entries
<1>3. PICK t : t = Ranked(s)
  OBVIOUS
<1>4. /\ DOMAIN s = 1..n /\ DOMAIN t = 1..n
      /\ \A k \in 1..n : \E i \in 1..n : t[k] = s[i]
      /\ \A i \in 1..n : \E k \in 1..n : t[k] = s[i]
      /\ \A k, l \in 1..n : k <= l => ~Ranks(t[l], t[k])
  <2>1. Sorts(t, s, n)
    BY <1>2, <1>3, SortedEntries
  <2> QED
    BY <1>2, <2>1 DEF Entries, Sorts
<1>5. PICK p, m :
          /\ m \in Nat /\ p \in [1..m -> 1..n] /\ Picks(Unseen(t), t, p, m)
          /\ \A k, l \in 1..m : k < l => p[k] < p[l] /\ ~SameEntry(t[p[l]], t[p[k]])
          /\ \A i \in 1..n : \E k \in 1..m : p[k] <= i /\ SameEntry(t[p[k]], t[i])
  BY <1>4, UnseenEntries
<1>6. PICK u : u = Unseen(t) /\ DOMAIN u = 1..m /\ \A k \in 1..m : u[k] = t[p[k]]
  BY <1>5 DEF Picks
<1>7. Listed(u, m)
  BY <1>5, <1>6, PickedIsListed
<1>8. PICK c \in 0..m :
          \E v : /\ v = Truncated(u) /\ Len(v) = c /\ DOMAIN v = 1..c
                 /\ \A k \in 1..c : v[k] = u[k]
                 /\ c < m => c = MaxResults
  <2>1. PICK c \in 0..m : Cuts(Truncated(u), u, c, m)
    BY <1>7, TruncatedEntries
  <2> QED
    BY <2>1 DEF Cuts, Starts
<1>9. PICK context :
          /\ context = Truncated(u) /\ Len(context) = c /\ DOMAIN context = 1..c
          /\ \A k \in 1..c : context[k] = u[k]
          /\ c < m => c = MaxResults
  BY <1>8
<1>10. context = retrieve(answers)
  BY <1>1, <1>3, <1>6, <1>9 DEF retrieve
<1>11. \A i \in 1..c : i \in 1..m /\ p[i] \in 1..n /\ context[i] = t[p[i]]
  <2>1. \A i \in 1..c : i \in 1..m
    BY <1>5
  <2>2. \A i \in 1..m : p[i] \in 1..n
    BY <1>5
  <2> QED
    BY <1>6, <1>9, <2>1, <2>2
<1>12. Range(context) \subseteq E
  <2>1. ASSUME NEW i \in 1..c PROVE context[i] \in E
    <3>1. PICK k \in 1..n : k = p[i] /\ context[i] = t[k]
      BY <1>11
    <3>2. PICK l \in 1..n : t[k] = s[l]
      BY <1>4
    <3> QED
      BY <1>1, <1>4, <3>1, <3>2 DEF Range
  <2> QED
    BY <1>9, <2>1 DEF Range
<1>13. ASSUME NEW i \in 1..c, NEW j \in 1..c, i < j
       PROVE  ~SameEntry(context[i], context[j]) /\ ~Ranks(context[j], context[i])
  <2>1. p[i] < p[j] /\ ~SameEntry(t[p[j]], t[p[i]])
    BY <1>5, <1>11, <1>13
  <2>2. PICK k \in 1..n, l \in 1..n : k = p[i] /\ l = p[j] /\ k <= l
    <3>1. PICK k \in 1..n, l \in 1..n : k = p[i] /\ l = p[j]
      BY <1>11
    <3> QED
      BY <2>1, <3>1
  <2> QED
    BY <1>4, <1>11, <2>1, <2>2 DEF SameEntry
<1>14. ASSUME NEW e \in E \ Range(context)
       PROVE  \/ \E x \in Range(context) : SameEntry(x, e) /\ ~Ranks(e, x)
              \/ c = MaxResults /\ \A x \in Range(context) : ~Ranks(e, x)
  <2>1. PICK i \in 1..n : t[i] = e
    BY <1>1, <1>4 DEF Range
  <2>2. PICK k \in 1..m : p[k] <= i /\ SameEntry(t[p[k]], t[i])
    BY <1>5
  <2>3. p[k] \in 1..n /\ ~Ranks(e, t[p[k]])
    BY <1>4, <1>5, <2>1, <2>2
  <2>4. CASE k \in 1..c
    BY <1>9, <1>11, <2>1, <2>2, <2>3, <2>4 DEF Range
  <2>5. CASE k \notin 1..c
    <3>1. c < m /\ c < k
      <4>1. m \in Nat
        BY <1>5
      <4> QED
        BY <2>5, <4>1
    <3>2. ASSUME NEW l \in 1..c PROVE ~Ranks(e, context[l])
      <4>1. l \in 1..m /\ l < k /\ p[l] \in 1..n /\ p[k] \in 1..n
        BY <1>11, <2>3, <3>1
      <4>2. p[l] < p[k]
        BY <1>5, <4>1
      <4>3. p[l] <= i
        BY <2>2, <4>1, <4>2
      <4> QED
        BY <1>4, <1>11, <2>1, <4>1, <4>3
    <3>3. \A x \in Range(context) : ~Ranks(e, x)
      BY <1>9, <3>2 DEF Range
    <3> QED
      BY <1>9, <3>1, <3>3
  <2> QED
    BY <2>4, <2>5
<1>15. \A i, j \in DOMAIN context : i < j => /\ ~SameEntry(context[i], context[j])
                                              /\ ~Ranks(context[j], context[i])
  BY <1>9, <1>13
<1>16. Len(context) = c
  BY <1>9
<1> QED
  BY ONLY <1>10, <1>12, <1>14, <1>15, <1>16 DEF KeepsTheBest, E

-----------------------------------------------------------------------------
(* The registry *)

(* What the vector and the pointers into it satisfy.  That no pair of an   *)
(* action and a version is registered twice and that no pointer comes from *)
(* a buffer yet to be is what keeps register_schema() from breaking it.    *)
RegistrySound ==
    /\ TypeOK
    /\ \A i \in DOMAIN schemas_ : validate(schemas_[i].draft) = "ok"
    /\ \A i, j \in DOMAIN schemas_ :
           /\ schemas_[i].action_id = schemas_[j].action_id
           /\ schemas_[i].version = schemas_[j].version
           => i = j
    /\ \A p \in pointers :
           /\ p.buffer <= buffer
           /\ p.buffer = buffer => p.index \in DOMAIN schemas_ /\ schemas_[p.index] = p.to

LEMMA RegistryRange ==
    ASSUME schemas_ \in Seq(Schema)
    PROVE  /\ Len(schemas_) \in Nat /\ DOMAIN schemas_ = 1..Len(schemas_)
           /\ \A i \in DOMAIN schemas_ : i \in Nat /\ schemas_[i] \in Schema
<1>1. Len(schemas_) \in Nat /\ DOMAIN schemas_ = 1..Len(schemas_) /\ schemas_ \in [1..Len(schemas_) -> Schema]
  BY LenProperties
<1> QED
  BY <1>1

(* The positions of some schemas, in order.                                *)
LEMMA PositionsAreOrdered ==
    ASSUME schemas_ \in Seq(Schema), NEW own \in SUBSET DOMAIN schemas_
    PROVE  /\ IsFiniteSet(own)
           /\ StrictOrder({p \in own \X own : p[1] < p[2]}, own)
           /\ \A i \in own :
                  Rank({p \in own \X own : p[1] < p[2]}, own, i) = Cardinality({j \in own : j < i})
<1>1. PICK n \in Nat : DOMAIN schemas_ = 1..n
  BY RegistryRange
<1> QED
  BY <1>1, PlacesOrdered

(* std::find_if finds something when there is something to find.           *)
LEMMA FindsAny ==
    ASSUME schemas_ \in Seq(Schema), NEW a, NEW v, find(a, v) = {}
    PROVE  \A i \in DOMAIN schemas_ : ~(schemas_[i].action_id = a /\ schemas_[i].version = v)
<1> DEFINE own == Matching(a, {v})
<1>1. PICK n \in Nat : DOMAIN schemas_ = 1..n
  BY RegistryRange
<1>2. own \in SUBSET (1..n)
  BY <1>1 DEF Matching
<1>3. own = {}
  <2>1. ~\E i \in own : \A j \in own : i <= j
    BY DEF find
  <2> HIDE DEF own
  <2> QED
    BY <1>2, <2>1, FirstPlace
<1> QED
  BY <1>3 DEF Matching

(* The parser and the constructors make typed schemas that obey the rules. *)
LEMMA MadeSchemas ==
    ASSUME NEW s \in UNION ({create_schema(t) : t \in Built}
                            \cup {parse_action_schema_json(doc) : doc \in Documents})
    PROVE  s \in Schema /\ validate(s.draft) = "ok"
<1>1. CASE \E t \in Built : s \in create_schema(t)
  BY <1>1, RegistryAssumption DEF create_schema
<1>2. ASSUME NEW doc \in Documents, s \in parse_action_schema_json(doc)
      PROVE  s \in Schema /\ validate(s.draft) = "ok"
  <2>1. WellFormed(doc)
    BY <1>2 DEF parse_action_schema_json
  <2>2. PICK limit \in parse_signed(doc.maxEntities) : s \in create_schema(
            [action_id |-> doc.id, version |-> doc.version,
             draft |-> [reversibility |-> doc.reversibility, blast_radius |-> doc.class, limit |-> limit,
                        dry_run |-> doc.dryRun, side_effect |-> doc.sideEffects,
                        confirmation |-> doc.confirmation, rollback |-> doc.rollback,
                        parameters |-> "object", example |-> doc.examples]])
    BY <1>2, <2>1 DEF parse_action_schema_json
  <2>3. limit \in Nat
    <3>1. limit = doc.maxEntities /\ doc.maxEntities \in Int /\ 0 <= doc.maxEntities
      BY <2>1, LimitsAreRead DEF WellFormed, IsInteger
    <3> QED
      BY <3>1
  <2>4. /\ validate(s.draft) = "ok" /\ s.action_id = doc.id /\ s.version = doc.version
        /\ s = [action_id |-> doc.id, version |-> doc.version, draft |-> s.draft]
        /\ s.draft = [reversibility |-> doc.reversibility, blast_radius |-> doc.class, limit |-> limit,
                      dry_run |-> doc.dryRun, side_effect |-> doc.sideEffects,
                      confirmation |-> doc.confirmation, rollback |-> doc.rollback,
                      parameters |-> "object", example |-> doc.examples]
    BY <2>2 DEF create_schema
  <2>5. s.draft \in ActionSchemaDraft
    BY <2>1, <2>3, <2>4 DEF WellFormed, ActionSchemaDraft
  <2> QED
    BY <2>1, <2>4, <2>5 DEF WellFormed, Schema
<1> QED
  BY <1>1, <1>2

LEMMA RegisterSound ==
    ASSUME RegistrySound, Register
    PROVE  /\ RegistrySound'
           /\ \A i \in DOMAIN schemas_ : schemas_'[i] = schemas_[i]
<1>1. PICK s : /\ s \in UNION ({create_schema(t) : t \in Built}
                               \cup {parse_action_schema_json(doc) : doc \in Documents})
               /\ register_schema(s)
  BY DEF Register
<1>2. s \in Schema /\ validate(s.draft) = "ok"
  BY <1>1, MadeSchemas
<1>3. /\ find(s.action_id, s.version) = {} /\ schemas_' = Append(schemas_, s) /\ pointers' = pointers
      /\ IF Len(schemas_) = capacity
         THEN capacity' = (IF capacity = 0 THEN 1 ELSE 2 * capacity) /\ buffer' = buffer + 1
         ELSE capacity' = capacity /\ buffer' = buffer
  BY <1>1 DEF register_schema, push_back
<1>4. schemas_ \in Seq(Schema)
  BY DEF RegistrySound, TypeOK
<1>5. PICK n \in Nat : n = Len(schemas_) /\ DOMAIN schemas_ = 1..n
  BY <1>4, RegistryRange
<1>6. /\ schemas_' \in Seq(Schema) /\ Len(schemas_') = n + 1 /\ DOMAIN schemas_' = 1..(n + 1)
      /\ \A i \in 1..n : schemas_'[i] = schemas_[i]
      /\ schemas_'[n + 1] = s
  <2>1. schemas_' \in Seq(Schema) /\ Len(schemas_') = n + 1
    BY <1>2, <1>3, <1>4, <1>5, AppendProperties
  <2>2. DOMAIN schemas_' = 1..(n + 1)
    BY <2>1, LenProperties
  <2>3. \A i \in 1..n : schemas_'[i] = schemas_[i]
    BY <1>2, <1>3, <1>4, <1>5, AppendProperties
  <2>4. schemas_'[n + 1] = s
    BY <1>2, <1>3, <1>4, <1>5, AppendProperties
  <2> QED
    BY <2>1, <2>2, <2>3, <2>4
<1>7. \A i \in 1..n : ~(schemas_[i].action_id = s.action_id /\ schemas_[i].version = s.version)
  BY <1>3, <1>4, <1>5, FindsAny
<1>8. capacity \in Nat /\ buffer \in Nat /\ n <= capacity
  BY <1>5 DEF RegistrySound, TypeOK
<1>9. capacity' \in Nat /\ buffer' \in Nat /\ n + 1 <= capacity' /\ buffer <= buffer'
  BY <1>3, <1>5, <1>8
<1>10. TypeOK'
  BY <1>3, <1>6, <1>9 DEF TypeOK, RegistrySound
<1>11. ASSUME NEW i \in DOMAIN schemas_'
       PROVE  validate(schemas_'[i].draft) = "ok"
  <2>1. CASE i \in 1..n
    BY <1>5, <1>6, <2>1 DEF RegistrySound
  <2>2. CASE i = n + 1
    BY <1>2, <1>6, <2>2
  <2> QED
    BY <1>6, <2>1, <2>2
<1>12. ASSUME NEW i \in DOMAIN schemas_', NEW j \in DOMAIN schemas_',
              schemas_'[i].action_id = schemas_'[j].action_id,
              schemas_'[i].version = schemas_'[j].version
       PROVE  i = j
  <2>1. CASE i \in 1..n /\ j \in 1..n
    BY <1>5, <1>6, <1>12, <2>1 DEF RegistrySound
  <2>2. CASE i \in 1..n /\ j = n + 1
    BY <1>6, <1>7, <1>12, <2>2
  <2>3. CASE i = n + 1 /\ j \in 1..n
    BY <1>6, <1>7, <1>12, <2>3
  <2> QED
    BY <1>6, <2>1, <2>2, <2>3
<1>13. ASSUME NEW p \in pointers'
       PROVE  /\ p.buffer <= buffer'
              /\ p.buffer = buffer' => p.index \in DOMAIN schemas_' /\ schemas_'[p.index] = p.to
  <2>1. /\ p \in pointers /\ p.buffer \in Nat /\ p.buffer <= buffer
        /\ p.buffer = buffer => p.index \in 1..n /\ schemas_[p.index] = p.to
    BY <1>3, <1>5 DEF RegistrySound, TypeOK
  <2>2. p.buffer <= buffer'
    BY <1>8, <1>9, <2>1
  <2>3. p.buffer = buffer' => p.buffer = buffer
    BY <1>3, <1>8, <2>1
  <2>4. p.buffer = buffer' => p.index \in 1..n /\ schemas_'[p.index] = p.to
    BY <1>6, <2>1, <2>3
  <2>5. 1..n \subseteq DOMAIN schemas_'
    BY <1>6
  <2> QED
    BY <2>2, <2>4, <2>5
<1> QED
  BY <1>5, <1>6, <1>10, <1>11, <1>12, <1>13 DEF RegistrySound

LEMMA RegistryStaysSound ==
    ASSUME RegistrySound, [Next]_vars
    PROVE  RegistrySound'
<1>1. CASE Register
  BY <1>1, RegisterSound
<1>2. ASSUME NEW a \in ActionIds, Lookup(a) PROVE RegistrySound'
  <2>1. PICK i \in latest_for(a) :
            pointers' = pointers \cup {[buffer |-> buffer, index |-> i, to |-> schemas_[i]]}
    BY <1>2 DEF Lookup
  <2>2. schemas_' = schemas_ /\ capacity' = capacity /\ buffer' = buffer
    BY <1>2 DEF Lookup
  <2>3. /\ i \in DOMAIN schemas_ /\ i \in Nat \ {0} /\ schemas_[i] \in Schema
        /\ buffer \in Nat
    <3>1. i \in DOMAIN schemas_
      BY <2>1 DEF latest_for, Matching
    <3>2. schemas_ \in Seq(Schema) /\ buffer \in Nat
      BY DEF RegistrySound, TypeOK
    <3> QED
      BY <3>1, <3>2, RegistryRange
  <2>4. PICK q : q = [buffer |-> buffer, index |-> i, to |-> schemas_[i]]
    OBVIOUS
  <2>5. /\ q \in [buffer : Nat, index : Nat \ {0}, to : Schema]
        /\ q.buffer = buffer /\ q.index = i /\ q.to = schemas_[i]
    BY <2>3, <2>4
  <2>6. pointers' = pointers \cup {q}
    BY <2>1, <2>4
  <2>7. TypeOK'
    BY <2>2, <2>5, <2>6 DEF RegistrySound, TypeOK
  <2>8. ASSUME NEW p \in pointers'
        PROVE  /\ p.buffer <= buffer
               /\ p.buffer = buffer => p.index \in DOMAIN schemas_ /\ schemas_[p.index] = p.to
    <3>1. CASE p \in pointers
      BY <3>1 DEF RegistrySound
    <3>2. CASE p = q
      BY <2>3, <2>5, <3>2
    <3> QED
      BY <2>6, <3>1, <3>2
  <2> QED
    BY <2>2, <2>7, <2>8 DEF RegistrySound
<1>3. CASE Forget
  <2>1. /\ pointers' \subseteq pointers
        /\ schemas_' = schemas_ /\ capacity' = capacity /\ buffer' = buffer
    BY <1>3 DEF Forget
  <2>2. TypeOK'
    BY <2>1 DEF RegistrySound, TypeOK
  <2> QED
    BY <2>1, <2>2 DEF RegistrySound
<1>4. CASE UNCHANGED vars
  BY <1>4 DEF vars, RegistrySound, TypeOK
<1> QED
  BY <1>1, <1>2, <1>3, <1>4 DEF Next

(* versions_for() lists every version once.                                *)
LEMMA VersionsAreDistinct ==
    ASSUME RegistrySound, NEW a \in ActionIds
    PROVE  IsInjective(versions_for(a))
<1> DEFINE own == Matching(a, Versions)
           R == {p \in own \X own : p[1] < p[2]}
           Place(i) == Cardinality({j \in own : j < i}) + 1
           At(k) == CHOOSE i \in own : Place(i) = k
<1>1. own \in SUBSET DOMAIN schemas_ /\ schemas_ \in Seq(Schema)
  BY DEF Matching, RegistrySound, TypeOK
<1>2. /\ IsFiniteSet(own) /\ StrictOrder(R, own)
      /\ \A i \in own : Place(i) = Rank(R, own, i) + 1
  <2>1. /\ IsFiniteSet(own) /\ StrictOrder(R, own)
        /\ \A i \in own : Rank(R, own, i) = Cardinality({j \in own : j < i})
    BY <1>1, PositionsAreOrdered
  <2> QED
    BY <2>1
<1>3. versions_for(a) = [k \in 1..Cardinality(own) |-> schemas_[At(k)].version]
  BY DEF versions_for
<1>4. \A i, j \in own : schemas_[i].version = schemas_[j].version => i = j
  BY <1>1 DEF RegistrySound, Matching
<1> HIDE DEF own, R, Place
<1>5. ASSUME NEW k \in 1..Cardinality(own)
      PROVE  At(k) \in own /\ Place(At(k)) = k
  <2>1. \E i \in own : Rank(R, own, i) + 1 = k
    <3>1. IsFiniteSet(own) /\ StrictOrder(R, own) /\ k \in 1..Cardinality(own)
      BY <1>2
    <3> QED
      BY ONLY <3>1, RankIsOnto
  <2>2. \E i \in own : Place(i) = k
    BY <1>2, <2>1
  <2> QED
    BY <2>2
<1>6. ASSUME NEW k \in 1..Cardinality(own), NEW l \in 1..Cardinality(own),
             versions_for(a)[k] = versions_for(a)[l]
      PROVE  k = l
  <2>1. PICK i \in own, j \in own : i = At(k) /\ j = At(l) /\ Place(i) = k /\ Place(j) = l
    BY <1>5
  <2>2. schemas_[i].version = schemas_[j].version
    BY <1>3, <1>6, <2>1
  <2> QED
    BY <1>4, <2>1, <2>2
<1>7. DOMAIN versions_for(a) = 1..Cardinality(own)
  BY <1>3
<1> QED
  BY <1>6, <1>7 DEF IsInjective

(* Whatever is registered: the promises the registry makes.                *)
LEMMA SoundRegistryIsConsistent ==
    ASSUME RegistrySound
    PROVE  RegistryConsistent
<1>1. schemas_ \in Seq(Schema)
  BY DEF RegistrySound, TypeOK
<1>2. ASSUME NEW i \in DOMAIN schemas_
      PROVE  SpecifiedRules(schemas_[i].draft) /\ RoundTrips(schemas_[i])
  <2>1. PICK s \in Schema : s = schemas_[i]
    BY <1>1, RegistryRange
  <2>2. validate(s.draft) = "ok" /\ s.draft \in ActionSchemaDraft
    BY <2>1 DEF RegistrySound, Schema
  <2>3. SpecifiedRules(s.draft)
    BY <2>2, CreateAcceptsAsSpecified DEF AcceptsAsSpecified
  <2>4. RoundTrips(s)
    BY <2>2, JsonRoundTrip
  <2> QED
    BY <2>1, <2>3, <2>4
<1> QED
  BY <1>2, VersionsAreDistinct, DocumentsReadAsWritten DEF RegistryConsistent, RegistrySound

(* There is one newest schema of an action.                                *)
LEMMA OnlyLatest ==
    ASSUME RegistrySound, NEW a, NEW m \in latest_for(a)
    PROVE  /\ m \in DOMAIN schemas_ /\ schemas_[m] \in Schema /\ schemas_[m].action_id = a
           /\ \A k \in latest_for(a) : k = m
           /\ \A k \in DOMAIN schemas_ : schemas_[k].action_id = a => k <= m
<1>1. schemas_ \in Seq(Schema)
  BY DEF RegistrySound, TypeOK
<1>2. \A k \in DOMAIN schemas_ : k \in Nat /\ schemas_[k] \in Schema /\ schemas_[k].version \in Versions
  <2>1. \A k \in DOMAIN schemas_ : k \in Nat /\ schemas_[k] \in Schema
    BY <1>1, RegistryRange
  <2> QED
    BY <2>1 DEF Schema
<1>3. /\ m \in Matching(a, Versions)
      /\ \A k \in Matching(a, Versions) : k <= m
      /\ \A k \in latest_for(a) : k \in Matching(a, Versions) /\ m <= k
  BY DEF latest_for
<1>4. m \in DOMAIN schemas_ /\ schemas_[m].action_id = a
  BY <1>3 DEF Matching
<1>5. ASSUME NEW k \in latest_for(a) PROVE k = m
  <2>1. k <= m /\ m <= k
    BY <1>3
  <2>2. k \in DOMAIN schemas_
    BY <1>3 DEF Matching
  <2>3. k \in Nat /\ m \in Nat
    BY <1>2, <1>4, <2>2
  <2> QED
    BY <2>1, <2>3
<1>6. ASSUME NEW k \in DOMAIN schemas_, schemas_[k].action_id = a PROVE k <= m
  BY <1>2, <1>3, <1>6 DEF Matching
<1> QED
  BY <1>2, <1>4, <1>5, <1>6

-----------------------------------------------------------------------------
(* The classifier *)

(* A candidate that is not ambiguous: sure enough, and ahead of every      *)
(* other one wherever it stood in the answer.                              *)
LEMMA ChosenIsBest ==
    ASSUME NEW answer \in Level1, NEW c \in parse_classification_response(answer), ~Ambiguous(c)
    PROVE  /\ answer # Nil
           /\ \E i \in DOMAIN answer :
                  /\ c[1] = answer[i] /\ AreSlots(answer[i].slots)
                  /\ answer[i].confidence >= MinConfidence
                  /\ \A j \in DOMAIN answer \ {i} :
                         /\ answer[j].confidence + MinGap <= answer[i].confidence
                  /\ \A j \in DOMAIN answer : answer[j].confidence <= answer[i].confidence
<1>1. answer # Nil /\ \A j \in DOMAIN answer : answer[j].confidence \in Nat /\ AreSlots(answer[j].slots)
  <2>1. answer # Nil
    BY SortedCandidates
  <2> QED
    BY <2>1, EngineAssumption
<1>2. PICK i \in DOMAIN answer :
          /\ c[1] = answer[i]
          /\ \A j \in DOMAIN answer \ {i} :
                 /\ answer[j].confidence <= answer[i].confidence
                 /\ Len(c) > 1 /\ answer[j].confidence <= c[2].confidence
                 /\ c[2].confidence \in Nat
  BY SortedCandidates
<1>3. /\ ~(c[1].confidence < MinConfidence)
      /\ Len(c) > 1 => ~(c[1].confidence - c[2].confidence < MinGap)
  BY DEF Ambiguous
<1>4. PICK best \in Nat, least \in Nat, gap \in Nat :
          best = answer[i].confidence /\ least = MinConfidence /\ gap = MinGap
  BY <1>1, EngineAssumption
<1>5. best >= least
  BY <1>2, <1>3, <1>4
<1>6. ASSUME NEW j \in DOMAIN answer \ {i}
      PROVE  answer[j].confidence + MinGap <= answer[i].confidence
  <2>1. PICK other \in Nat : other = answer[j].confidence
    BY <1>1
  <2>2. other <= c[2].confidence /\ ~(best - c[2].confidence < gap)
    BY <1>2, <1>3, <1>4, <2>1
  <2>3. c[2].confidence \in Nat
    BY <1>2
  <2>4. other + gap <= best
    BY <2>2, <2>3
  <2> QED
    BY <1>4, <2>1, <2>4
<1>7. \A j \in DOMAIN answer : answer[j].confidence <= answer[i].confidence
  BY <1>1, <1>2
<1> QED
  BY <1>1, <1>2, <1>4, <1>5, <1>6, <1>7

(* What the classifier hands on: the best candidate with its parameters,   *)
(* and those of the second answer over them where the first one was not    *)
(* complete.                                                               *)
LEMMA Classified ==
    ASSUME RegistrySound, NEW level1 \in Level1, NEW level2 \in Level2,
           NEW intent \in classify(level1, level2), NEW m \in latest_for(intent.action)
    PROVE  /\ AreSlots(intent.slots)
           /\ \E i \in DOMAIN level1 :
                  /\ level1[i].action = intent.action
                  /\ level1[i].confidence >= MinConfidence
                  /\ \A j \in DOMAIN level1 \ {i} :
                         level1[j].confidence + MinGap <= level1[i].confidence
                  /\ \A j \in DOMAIN level1 : level1[j].confidence <= level1[i].confidence
                  /\ intent.slots = IF has_missing_required_slots(m, level1[i].slots) /\ level2 # Nil
                                    THEN merge_slots(level1[i].slots, level2)
                                    ELSE level1[i].slots
<1>1. PICK c \in parse_classification_response(level1) :
          /\ ~Ambiguous(c)
          /\ intent = LET slots == c[1].slots
                          ask == \E i \in latest_for(c[1].action) : has_missing_required_slots(i, slots)
                      IN  [action |-> c[1].action,
                           slots  |-> IF ask /\ level2 # Nil THEN merge_slots(slots, level2) ELSE slots]
  BY DEF classify
<1>2. PICK i \in DOMAIN level1 :
          /\ c[1] = level1[i] /\ AreSlots(level1[i].slots)
          /\ level1[i].confidence >= MinConfidence
          /\ \A j \in DOMAIN level1 \ {i} : level1[j].confidence + MinGap <= level1[i].confidence
          /\ \A j \in DOMAIN level1 : level1[j].confidence <= level1[i].confidence
  BY <1>1, ChosenIsBest
<1> DEFINE first == level1[i].slots
           ask == \E k \in latest_for(level1[i].action) : has_missing_required_slots(k, first)
<1>3. /\ intent.action = level1[i].action
      /\ intent.slots = IF ask /\ level2 # Nil THEN merge_slots(first, level2) ELSE first
  BY <1>1, <1>2
<1>4. ask <=> has_missing_required_slots(m, first)
  <2>1. \A k \in latest_for(intent.action) : k = m
    BY OnlyLatest
  <2> QED
    BY <1>3, <2>1
<1> HIDE DEF ask
<1>5. AreSlots(intent.slots)
  <2>1. CASE intent.slots = first
    BY <1>2, <2>1
  <2>2. CASE level2 # Nil /\ intent.slots = merge_slots(first, level2)
    <3>1. AreSlots(first) /\ AreSlots(level2)
      BY <1>2, <2>2, EngineAssumption
    <3>2. AreSlots(merge_slots(first, level2))
      <4> HIDE DEF first
      <4> QED
        BY <3>1 DEF AreSlots, merge_slots
    <3> QED
      BY <2>2, <3>2
  <2> QED
    BY <1>3, <2>1, <2>2
<1> QED
  BY <1>2, <1>3, <1>4, <1>5

-----------------------------------------------------------------------------
(* The engine *)

(* What is kept of a request that was admitted.                            *)
Request ==
    [session : IntentSession, schema : Schema, granted : Grants, level1 : Level1, level2 : Level2]

RequestSound(r) ==
    /\ r \in Request
    /\ SoundSession(r.session)
    /\ Admitted(r)
    /\ Justified(r)

(* The inductive invariant.  RegistrySound is there because an admitted    *)
(* schema must be typed and the newest one unique, SoundSession because a  *)
(* preview stands for filled slots.                                        *)
EngineIInv ==
    /\ RegistrySound
    /\ DOMAIN stored = SessionIds
    /\ \A id \in Existing : RequestSound(stored[id])

(* The parameters a schema declares.                                       *)
LEMMA DeclaredType ==
    ASSUME NEW s \in Schema
    PROVE  (IF Declares(s) THEN Demands(s).properties ELSE <<>>) \in Seq(SlotNames \cup {Nil})
<1>1. PICK a \in ActionIds, v \in Versions : a = s.action_id /\ v = s.version
  BY DEF Schema
<1>2. Signature[<<a, v>>].properties \in Seq(SlotNames \cup {Nil})
  BY EngineAssumption
<1>3. <<>> \in Seq(SlotNames \cup {Nil})
  BY EmptySeq
<1> QED
  BY <1>1, <1>2, <1>3 DEF Demands

(* The slots of a new session are the declared ones, in their order.       *)
LEMMA Extracted ==
    ASSUME RegistrySound, NEW i \in DOMAIN schemas_, NEW said, AreSlots(said), NEW slots \in extract(i, said)
    PROVE  /\ schemas_[i].draft.parameters # "text"
           /\ slots \in Seq(SlotDraft) /\ Len(slots) = Len(PropertiesOf(i))
           /\ DOMAIN slots = DOMAIN PropertiesOf(i)
           /\ \A k \in DOMAIN PropertiesOf(i) :
                  /\ slots[k].name = PropertiesOf(i)[k]
                  /\ slots[k].required = (PropertiesOf(i)[k] \in RequiredOf(i))
                  /\ Said(said, slots[k])
<1> DEFINE names == PropertiesOf(i)
           Value(name) == IF name \in DOMAIN said THEN said[name] ELSE Nil
<1>1. names \in Seq(SlotNames \cup {Nil})
  <2>1. schemas_[i] \in Schema
    BY RegistryRange DEF RegistrySound, TypeOK
  <2> QED
    BY <2>1, DeclaredType DEF PropertiesOf
<1>2. Len(names) \in Nat /\ DOMAIN names = 1..Len(names) /\ \A k \in DOMAIN names : names[k] \in SlotNames \cup {Nil}
  BY <1>1, LenProperties
<1>3. /\ schemas_[i].draft.parameters # "text"
      /\ slots = [k \in DOMAIN names |-> [name |-> names[k], required |-> names[k] \in RequiredOf(i),
                                          value |-> Value(names[k])]]
  BY DEF extract
<1>4. \A name : Value(name) \in Values \cup {Nil}
  BY DEF AreSlots
<1> HIDE DEF names, Value
<1>5. ASSUME NEW k \in DOMAIN names
      PROVE  slots[k] \in SlotDraft
  <2>1. slots[k] = [name |-> names[k], required |-> names[k] \in RequiredOf(i), value |-> Value(names[k])]
    BY <1>3
  <2>2. (names[k] \in RequiredOf(i)) \in BOOLEAN
    OBVIOUS
  <2> QED
    BY <1>2, <1>4, <2>1, <2>2 DEF SlotDraft
<1>6. slots \in Seq(SlotDraft)
  <2>1. slots \in [1..Len(names) -> SlotDraft]
    BY <1>2, <1>3, <1>5
  <2> QED
    BY <1>2, <2>1, FunctionIsSeq
<1>7. Len(slots) = Len(names)
  <2>1. DOMAIN slots = DOMAIN names /\ DOMAIN slots = 1..Len(slots) /\ Len(slots) \in Nat
    BY <1>3, <1>6, LenProperties
  <2>2. PICK m \in Nat, n \in Nat : m = Len(slots) /\ n = Len(names) /\ 1..m = 1..n
    BY <1>2, <2>1
  <2>3. (m \in 1..m \/ m = 0) /\ (n \in 1..n \/ n = 0)
    OBVIOUS
  <2> QED
    BY <2>2, <2>3
<1>8. ASSUME NEW k \in DOMAIN names
      PROVE  /\ slots[k].name = names[k]
             /\ slots[k].required = (names[k] \in RequiredOf(i))
             /\ Said(said, slots[k])
  <2>1. slots[k] = [name |-> names[k], required |-> names[k] \in RequiredOf(i), value |-> Value(names[k])]
    BY <1>3
  <2> QED
    BY <2>1 DEF Said, Value
<1> QED
  BY <1>3, <1>6, <1>7, <1>8 DEF names

(* The slots of r hold what the candidates of the request say.             *)
HoldsAnswers(r) ==
    \E i \in Best(r) : \A k \in DOMAIN r.session.slots :
        LET slot == r.session.slots[k]
            first == r.level1[i].slots
        IN  IF ~Complete(r, first) /\ r.level2 # Nil /\ slot.name \in DOMAIN r.level2
            THEN Said(r.level2, slot)
            ELSE Said(first, slot)

(* A request that is admitted is sound, of the newest version, and new.    *)
LEMMA ProcessSound ==
    ASSUME EngineIInv, NEW owner \in Owners, NEW granted \in Grants, NEW level1 \in Level1,
           NEW level2 \in Level2, NEW id \in SessionIds,
           process(owner, granted, level1, level2, id)
    PROVE  /\ stored[id] = Nil /\ UNCHANGED vars
           /\ \E r : /\ stored' = [stored EXCEPT ![id] = r]
                     /\ RequestSound(r) /\ HoldsAnswers(r)
                     /\ \E m \in DOMAIN schemas_ :
                            /\ r.schema = schemas_[m]
                            /\ \A k \in DOMAIN schemas_ :
                                   schemas_[k].action_id = r.schema.action_id => k <= m
<1>1. stored[id] = Nil /\ UNCHANGED vars
  BY DEF process, Repeated, id_conflict
<1>2. PICK intent \in classify(level1, level2) :
          \E m \in latest_for(intent.action) :
              /\ permitted(m, granted)
              /\ \E s \in UNION {create(owner, slots, 0, Ttl) : slots \in extract(m, intent.slots)} :
                     stored' = [stored EXCEPT ![id] =
                         [session |-> s, schema |-> schemas_[m],
                          granted |-> granted, level1 |-> level1, level2 |-> level2]]
  BY DEF process
<1>3. PICK m \in latest_for(intent.action) :
          /\ permitted(m, granted)
          /\ \E s \in UNION {create(owner, slots, 0, Ttl) : slots \in extract(m, intent.slots)} :
                 stored' = [stored EXCEPT ![id] =
                     [session |-> s, schema |-> schemas_[m],
                      granted |-> granted, level1 |-> level1, level2 |-> level2]]
  BY <1>2
<1>4. PICK s \in UNION {create(owner, slots, 0, Ttl) : slots \in extract(m, intent.slots)} :
          stored' = [stored EXCEPT ![id] =
              [session |-> s, schema |-> schemas_[m],
               granted |-> granted, level1 |-> level1, level2 |-> level2]]
  BY <1>3
<1>5. PICK slots \in extract(m, intent.slots) : s \in create(owner, slots, 0, Ttl)
  BY <1>4
<1>6. PICK r : r = [session |-> s, schema |-> schemas_[m],
                    granted |-> granted, level1 |-> level1, level2 |-> level2]
  OBVIOUS
<1>7. /\ stored' = [stored EXCEPT ![id] = r]
      /\ r.session = s /\ r.schema = schemas_[m] /\ r.granted = granted
      /\ r.level1 = level1 /\ r.level2 = level2
  BY <1>4, <1>6
<1>8. RegistrySound
  BY DEF EngineIInv
<1>9. /\ m \in DOMAIN schemas_ /\ schemas_[m] \in Schema /\ schemas_[m].action_id = intent.action
      /\ \A k \in DOMAIN schemas_ : schemas_[k].action_id = intent.action => k <= m
  BY <1>8, OnlyLatest
<1>10. AreSlots(intent.slots)
  BY <1>2, <1>8, Classified
<1>11. PICK i \in DOMAIN level1 :
          /\ level1[i].action = intent.action
          /\ level1[i].confidence >= MinConfidence
          /\ \A j \in DOMAIN level1 \ {i} :
                 level1[j].confidence + MinGap <= level1[i].confidence
          /\ \A j \in DOMAIN level1 : level1[j].confidence <= level1[i].confidence
          /\ intent.slots = IF has_missing_required_slots(m, level1[i].slots) /\ level2 # Nil
                            THEN merge_slots(level1[i].slots, level2)
                            ELSE level1[i].slots
  BY <1>2, <1>8, Classified
<1>12. /\ schemas_[m].draft.parameters # "text"
       /\ slots \in Seq(SlotDraft) /\ Len(slots) = Len(PropertiesOf(m))
       /\ DOMAIN slots = DOMAIN PropertiesOf(m)
       /\ \A k \in DOMAIN PropertiesOf(m) :
              /\ slots[k].name = PropertiesOf(m)[k]
              /\ slots[k].required = (PropertiesOf(m)[k] \in RequiredOf(m))
              /\ Said(intent.slots, slots[k])
  BY <1>8, <1>9, <1>10, Extracted
<1>13. s \in IntentSession /\ SoundSession(s)
  <2>1. 0 \in Nat /\ Ttl \in Nat
    BY EngineAssumption
  <2> QED
    BY <1>5, <1>12, <2>1, CreateSound
<1>14. s.slots = slots
  BY <1>5 DEF create, Accepted
<1>15. r \in Request
  BY <1>6, <1>9, <1>13 DEF Request
<1>16. Admitted(r)
  <2>1. /\ ScopesOf(m) = Demands(r.schema).scopes
        /\ PropertiesOf(m) = IF Declares(r.schema)
                             THEN Demands(r.schema).properties ELSE <<>>
        /\ RequiredOf(m) = IF Declares(r.schema)
                           THEN Demands(r.schema).required ELSE {}
    BY <1>7 DEF ScopesOf, PropertiesOf, RequiredOf
  <2>2. DOMAIN <<>> = {}
    OBVIOUS
  <2>3. ScopesOf(m) \subseteq granted
    BY <1>3 DEF permitted
  <2>4. CASE Declares(r.schema)
    BY <1>7, <1>12, <1>14, <2>1, <2>3, <2>4 DEF Admitted
  <2>5. CASE ~Declares(r.schema)
    BY <1>7, <1>12, <1>14, <2>1, <2>2, <2>3, <2>5 DEF Admitted
  <2> QED
    BY <2>4, <2>5
<1>17. Justified(r)
  BY <1>7, <1>9, <1>11 DEF Justified
<1>18. HoldsAnswers(r)
  <2> DEFINE first == level1[i].slots
  <2>1. i \in Best(r)
    BY <1>7, <1>11 DEF Best
  <2>2. has_missing_required_slots(m, first) <=> ~Complete(r, first)
    BY <1>7 DEF has_missing_required_slots, Complete, RequiredOf
  <2>3. ASSUME NEW k \in DOMAIN r.session.slots
        PROVE  LET slot == r.session.slots[k]
               IN  IF ~Complete(r, first) /\ r.level2 # Nil /\ slot.name \in DOMAIN r.level2
                   THEN Said(r.level2, slot)
                   ELSE Said(first, slot)
    <3>1. PICK slot : slot = r.session.slots[k]
      OBVIOUS
    <3>2. Said(intent.slots, slot)
      BY <1>7, <1>12, <1>14, <2>3, <3>1
    <3>3. CASE ~Complete(r, first) /\ level2 # Nil
      <4>1. intent.slots = merge_slots(first, level2)
        BY <1>11, <2>2, <3>3
      <4>2. CASE slot.name \in DOMAIN level2
        <5>1. Said(level2, slot)
          BY <3>2, <4>1, <4>2 DEF Said, merge_slots
        <5> QED
          BY <1>7, <3>1, <3>3, <4>2, <5>1
      <4>3. CASE slot.name \notin DOMAIN level2
        <5>1. Said(first, slot)
          BY <3>2, <4>1, <4>3 DEF Said, merge_slots
        <5> QED
          BY <1>7, <3>1, <3>3, <4>3, <5>1
      <4> QED
        BY <4>2, <4>3
    <3>4. CASE ~(~Complete(r, first) /\ level2 # Nil)
      <4>1. intent.slots = first
        BY <1>11, <2>2, <3>4
      <4> QED
        BY <1>7, <3>1, <3>2, <3>4, <4>1
    <3> QED
      BY <3>3, <3>4
  <2> QED
    BY <1>7, <2>1, <2>3 DEF HoldsAnswers
<1> QED
  BY <1>1, <1>7, <1>9, <1>13, <1>15, <1>16, <1>17, <1>18 DEF RequestSound

(* What a call on a session leaves of its slots.                           *)
SameSlots(s, t) ==
    /\ Len(t.slots) = Len(s.slots)
    /\ \A k \in DOMAIN s.slots : /\ t.slots[k].name = s.slots[k].name
                                 /\ t.slots[k].required = s.slots[k].required

LEMMA FillKeepsSlots ==
    ASSUME NEW s \in IntentSession, SoundSession(s), NEW n \in SlotNames, NEW v \in Values,
           NEW t \in fill_slot(s, n, v, 0)
    PROVE  t \in IntentSession /\ SoundSession(t) /\ SameSlots(s, t)
<1>1. Touched(s, t, 0)
  <2>1. 0 \in Nat
    OBVIOUS
  <2> QED
    BY <2>1, FillSlotSound
<1>2. PICK i \in DOMAIN s.slots : t = [s EXCEPT !.slots[i].value = v, !.updated_at = 0]
  BY DEF fill_slot, FirstNamed
<1>3. t.slots = [s.slots EXCEPT ![i].value = v] /\ s.slots \in Seq(Slot)
  BY <1>2 DEF IntentSession
<1>4. Len(t.slots) = Len(s.slots)
  <2>1. /\ Len(s.slots) \in Nat /\ DOMAIN s.slots = 1..Len(s.slots) /\ DOMAIN t.slots = DOMAIN s.slots
    BY <1>3, LenProperties
  <2>2. t.slots \in Seq(Slot)
    BY <1>1 DEF Touched, IntentSession
  <2>3. Len(t.slots) \in Nat /\ DOMAIN t.slots = 1..Len(t.slots)
    BY <2>2, LenProperties
  <2>4. PICK a \in Nat, b \in Nat : a = Len(t.slots) /\ b = Len(s.slots) /\ 1..a = 1..b
    BY <2>1, <2>3
  <2>5. (a \in 1..a \/ a = 0) /\ (b \in 1..b \/ b = 0)
    OBVIOUS
  <2> QED
    BY <2>4, <2>5
<1>5. ASSUME NEW k \in DOMAIN s.slots
      PROVE  t.slots[k].name = s.slots[k].name /\ t.slots[k].required = s.slots[k].required
  <2>1. s.slots[k] \in Slot
    BY <1>3
  <2>2. t.slots[k] = IF k = i THEN [s.slots[k] EXCEPT !.value = v] ELSE s.slots[k]
    BY <1>3
  <2> QED
    BY <2>1, <2>2 DEF Slot
<1> QED
  BY <1>1, <1>4, <1>5 DEF Touched, SameSlots

LEMMA DecisionsKeepSlots ==
    ASSUME NEW s \in IntentSession, SoundSession(s), NEW t,
           \/ t \in preview(s, Params(s.slots), 0)
           \/ t \in reject_preview(s, 0)
           \/ t \in confirm(s, 0)
    PROVE  t \in IntentSession /\ SoundSession(t) /\ SameSlots(s, t)
<1>1. 0 \in Nat
  OBVIOUS
<1>2. Touched(s, t, 0)
  BY <1>1, PreviewSound, RejectPreviewSound, ConfirmSound
<1>3. t.slots = s.slots
  <2>1. CASE t \in preview(s, Params(s.slots), 0)
    BY <2>1 DEF preview, Accepted, transition_to, IntentSession
  <2>2. CASE t \in reject_preview(s, 0)
    BY <2>2 DEF reject_preview, Accepted, transition_to, IntentSession
  <2>3. CASE t \in confirm(s, 0)
    BY <2>3 DEF confirm, Accepted, transition_to, IntentSession
  <2> QED
    BY <2>1, <2>2, <2>3
<1> QED
  BY <1>2, <1>3 DEF Touched, SameSlots

(* Working on a session changes nothing of what it was admitted for.       *)
LEMMA ServedRequestSound ==
    ASSUME NEW r, RequestSound(r), NEW t \in IntentSession, SoundSession(t), SameSlots(r.session, t)
    PROVE  RequestSound([r EXCEPT !.session = t])
<1>1. PICK q : q = [r EXCEPT !.session = t]
  OBVIOUS
<1>2. /\ q \in Request /\ q.session = t
      /\ q.schema = r.schema /\ q.granted = r.granted /\ q.level1 = r.level1 /\ q.level2 = r.level2
  BY <1>1 DEF RequestSound, Request
<1>3. SoundSession(q.session)
  BY <1>2
<1>4. Justified(q)
  BY <1>2 DEF RequestSound, Justified
<1>5. Admitted(q)
  <2> DEFINE declared == IF Declares(r.schema) THEN Demands(r.schema).properties ELSE <<>>
  <2>1. /\ Demands(r.schema).scopes \subseteq r.granted
        /\ r.schema.draft.parameters # "text"
        /\ Len(r.session.slots) = Len(declared)
        /\ \A k \in DOMAIN declared :
               /\ r.session.slots[k].name = declared[k]
               /\ r.session.slots[k].required = (declared[k] \in Demands(r.schema).required)
    BY DEF RequestSound, Admitted
  <2>2. DOMAIN declared = DOMAIN r.session.slots
    <3>1. r.session.slots \in Seq(Slot) /\ r.schema \in Schema
      BY DEF RequestSound, Request, IntentSession
    <3>2. DOMAIN r.session.slots = 1..Len(r.session.slots)
      BY <3>1, LenProperties
    <3>3. DOMAIN declared = 1..Len(declared)
      <4>1. declared \in Seq(SlotNames \cup {Nil})
        BY <3>1, DeclaredType
      <4> HIDE DEF declared
      <4> QED
        BY <4>1, LenProperties
    <3> HIDE DEF declared
    <3> QED
      BY <2>1, <3>2, <3>3
  <2> HIDE DEF declared
  <2>3. /\ Len(q.session.slots) = Len(declared)
        /\ \A k \in DOMAIN declared :
               /\ q.session.slots[k].name = declared[k]
               /\ q.session.slots[k].required = (declared[k] \in Demands(r.schema).required)
    BY <1>2, <2>1, <2>2 DEF SameSlots
  <2> QED
    BY <1>2, <2>1, <2>3 DEF Admitted, declared
<1> QED
  BY <1>1, <1>2, <1>3, <1>4, <1>5 DEF RequestSound

-----------------------------------------------------------------------------
(* Every step *)

LEMMA EngineStarts == EngineInit => EngineIInv
<1> SUFFICES ASSUME EngineInit PROVE EngineIInv
  OBVIOUS
<1>1. /\ schemas_ = <<>> /\ capacity = 0 /\ buffer = 0 /\ pointers = {}
      /\ stored = [id \in SessionIds |-> Nil]
  BY DEF EngineInit, Init
<1>2. schemas_ \in Seq(Schema) /\ Len(schemas_) = 0 /\ DOMAIN schemas_ = {}
  <2>1. <<>> \in Seq(Schema) /\ Len(<<>>) = 0
    BY EmptySeq
  <2> QED
    BY <1>1, <2>1
<1>3. TypeOK
  BY <1>1, <1>2 DEF TypeOK
<1>4. RegistrySound
  BY <1>1, <1>2, <1>3 DEF RegistrySound
<1> QED
  BY <1>1, <1>4 DEF EngineIInv, Existing

LEMMA EngineStep == EngineIInv /\ [EngineNext]_engine_vars => EngineIInv'
<1> SUFFICES ASSUME EngineIInv, [EngineNext]_engine_vars PROVE EngineIInv'
  OBVIOUS
<1>1. CASE Next /\ UNCHANGED stored
  <2>1. RegistrySound'
    BY <1>1, RegistryStaysSound DEF EngineIInv
  <2> QED
    BY <1>1, <2>1 DEF EngineIInv, Existing
<1>2. ASSUME NEW owner \in Owners, NEW granted \in Grants, NEW level1 \in Level1,
             NEW level2 \in Level2, NEW id \in SessionIds, process(owner, granted, level1, level2, id)
      PROVE  EngineIInv'
  <2>1. UNCHANGED vars
    BY <1>2, ProcessSound
  <2>2. PICK r : stored' = [stored EXCEPT ![id] = r] /\ RequestSound(r)
    BY <1>2, ProcessSound
  <2>3. RegistrySound'
    BY <2>1, RegistryStaysSound DEF EngineIInv
  <2>4. ASSUME NEW x \in Existing' PROVE RequestSound(stored'[x])
    <3>1. CASE x = id
      BY <2>2, <3>1 DEF EngineIInv
    <3>2. CASE x # id
      BY <2>2, <2>4, <3>2 DEF EngineIInv, Existing
    <3> QED
      BY <3>1, <3>2
  <2>5. DOMAIN stored' = SessionIds
    BY <2>2 DEF EngineIInv
  <2> QED
    BY <2>3, <2>4, <2>5 DEF EngineIInv
<1>3. ASSUME NEW id \in SessionIds, Serve(id)
      PROVE  EngineIInv'
  <2>1. UNCHANGED vars /\ stored[id] # Nil /\ RequestSound(stored[id])
    BY <1>3 DEF Serve, EngineIInv, Existing
  <2>2. PICK s : s = stored[id].session
    OBVIOUS
  <2>3. s \in IntentSession /\ SoundSession(s)
    BY <2>1, <2>2 DEF RequestSound, Request
  <2>4. PICK t : /\ \/ \E n \in SlotNames, v \in Values : t \in fill_slot(s, n, v, 0)
                    \/ t \in preview(s, Params(s.slots), 0)
                    \/ t \in reject_preview(s, 0)
                    \/ t \in confirm(s, 0)
                 /\ save(id, t)
    BY <1>3, <2>2 DEF Serve
  <2>5. t \in IntentSession /\ SoundSession(t) /\ SameSlots(s, t)
    BY <2>3, <2>4, FillKeepsSlots, DecisionsKeepSlots
  <2>6. RequestSound([stored[id] EXCEPT !.session = t])
    BY <2>1, <2>2, <2>5, ServedRequestSound
  <2>7. stored' = [stored EXCEPT ![id] = [stored[id] EXCEPT !.session = t]]
    BY <2>1, <2>4 DEF save, RequestSound, Request
  <2>8. RegistrySound'
    BY <2>1, RegistryStaysSound DEF EngineIInv
  <2>9. ASSUME NEW x \in Existing' PROVE RequestSound(stored'[x])
    <3>1. CASE x = id
      BY <2>6, <2>7, <3>1 DEF EngineIInv
    <3>2. CASE x # id
      BY <2>7, <2>9, <3>2 DEF EngineIInv, Existing
    <3> QED
      BY <3>1, <3>2
  <2>10. DOMAIN stored' = SessionIds
    BY <2>7 DEF EngineIInv
  <2> QED
    BY <2>8, <2>9, <2>10 DEF EngineIInv
<1>4. CASE UNCHANGED engine_vars
  <2>1. UNCHANGED vars /\ UNCHANGED stored
    BY <1>4 DEF engine_vars
  <2>2. RegistrySound'
    BY <2>1, RegistryStaysSound DEF EngineIInv
  <2> QED
    BY <2>1, <2>2 DEF EngineIInv, Existing
<1> QED
  BY <1>1, <1>2, <1>3, <1>4 DEF EngineNext

LEMMA EngineAlways == EngineSpec => []EngineIInv
<1> QED
  BY EngineStarts, EngineStep, PTL DEF EngineSpec

(* What was admitted, registered and looked up stays in order: no session  *)
(* without the scopes and the slots of its schema, no schema against the   *)
(* rules, no dangling pointer into the current buffer - whatever the       *)
(* backend answers and the embedding registers under the sessions.         *)
THEOREM AdmitsOnlyWhatIsGranted == EngineSpec => []EngineInv
<1>1. EngineIInv => EngineInv
  <2> SUFFICES ASSUME EngineIInv PROVE EngineInv
    OBVIOUS
  <2>1. RegistrySound /\ \A id \in Existing : RequestSound(stored[id])
    BY DEF EngineIInv
  <2>2. RegistryConsistent
    BY <2>1, SoundRegistryIsConsistent
  <2>3. EngineTypeOK
    BY <2>1 DEF EngineTypeOK, RegistrySound, RequestSound, Request
  <2> QED
    BY <2>1, <2>2, <2>3 DEF EngineInv, RequestSound
<1> QED
  BY <1>1, EngineAlways, PTL

(* The action of every session was the backend's clear first choice,       *)
(* wherever in its answer it stood.                                        *)
THEOREM NoActionByGuess == EngineSpec => []ChoiceIsJustified
<1>1. EngineIInv => ChoiceIsJustified
  BY DEF EngineIInv, ChoiceIsJustified, RequestSound
<1> QED
  BY <1>1, EngineAlways, PTL

(* What an operator is shown or has confirmed has a value for everything   *)
(* the current schema requires, unless a newer one was registered since.   *)
THEOREM ShownIsComplete == EngineSpec => []ShownFitsSchema
<1>1. EngineIInv => ShownFitsSchema
  <2> SUFFICES ASSUME EngineIInv, NEW id \in Existing, NEW i \in latest_for(stored[id].schema.action_id),
                      stored[id].session.state \in {"preview", "commit"},
                      schemas_[i] = stored[id].schema,
                      NEW n \in RequiredOf(i) \cap Range(PropertiesOf(i))
               PROVE  \E k \in DOMAIN stored[id].session.slots :
                          /\ stored[id].session.slots[k].name = n
                          /\ stored[id].session.slots[k].value # Nil
    BY DEF ShownFitsSchema
  <2>1. PICK r : r = stored[id] /\ RequestSound(r)
    BY DEF EngineIInv
  <2>2. PICK s : s = r.session /\ s.state \in {"preview", "commit"} /\ SoundSession(s) /\ s.slots \in Seq(Slot)
    BY <2>1 DEF RequestSound, Request, IntentSession
  <2>3. Declares(r.schema) /\ n \in Demands(r.schema).required /\ n \in Range(Demands(r.schema).properties)
    BY <2>1 DEF RequiredOf, PropertiesOf
  <2>4. PICK k \in DOMAIN Demands(r.schema).properties : Demands(r.schema).properties[k] = n
    BY <2>3 DEF Range
  <2>5. /\ Len(s.slots) = Len(Demands(r.schema).properties)
        /\ s.slots[k].name = n /\ s.slots[k].required
    BY <2>1, <2>2, <2>3, <2>4 DEF RequestSound, Admitted
  <2>6. k \in DOMAIN s.slots
    <3>1. r.schema \in Schema
      BY <2>1 DEF RequestSound, Request
    <3>2. Demands(r.schema).properties \in Seq(SlotNames \cup {Nil})
      BY <2>3, <3>1, DeclaredType
    <3>3. DOMAIN Demands(r.schema).properties = 1..Len(Demands(r.schema).properties)
      BY <3>2, LenProperties
    <3>4. DOMAIN s.slots = 1..Len(s.slots)
      BY <2>2, LenProperties
    <3> QED
      BY <2>4, <2>5, <3>3, <3>4
  <2>7. s.slots[k].value # Nil
    BY <2>2, <2>5, <2>6 DEF SoundSession, RequiredFilled, Approved, all_required_slots_filled, is_filled
  <2> QED
    BY <2>1, <2>2, <2>5, <2>6, <2>7
<1> QED
  BY <1>1, EngineAlways, PTL

(* A new session is one of the newest version of its action, and what its  *)
(* slots hold is what the backend said.                                    *)
THEOREM OnlyWhatWasSaid == EngineSpec => ValuesFromAnswers
<1> DEFINE Step ==
        \A id \in SessionIds :
            LET r == stored'[id]
            IN  stored[id] = Nil /\ r # Nil =>
                    /\ \A i \in DOMAIN schemas_ :
                           (\A j \in i..Len(schemas_) : schemas_[j] # r.schema)
                               => schemas_[i].action_id # r.schema.action_id
                    /\ HoldsAnswers(r)
<1>1. EngineIInv /\ [EngineNext]_engine_vars => [Step]_engine_vars
  <2> SUFFICES ASSUME EngineIInv, EngineNext PROVE Step
    BY DEF engine_vars
  <2> SUFFICES ASSUME NEW x \in SessionIds, stored[x] = Nil, stored'[x] # Nil
               PROVE  /\ \A i \in DOMAIN schemas_ :
                             (\A j \in i..Len(schemas_) : schemas_[j] # stored'[x].schema)
                                 => schemas_[i].action_id # stored'[x].schema.action_id
                      /\ HoldsAnswers(stored'[x])
    OBVIOUS
  <2> HIDE DEF Step
  <2>1. CASE Next /\ UNCHANGED stored
    BY <2>1
  <2>2. ASSUME NEW id \in SessionIds, Serve(id) PROVE FALSE
    <3>1. stored[id] # Nil /\ \E t : save(id, t)
      BY <2>2 DEF Serve
    <3>2. PICK t : save(id, t)
      BY <3>1
    <3>3. PICK r : stored' = [stored EXCEPT ![id] = r]
      BY <3>2 DEF save
    <3>4. stored'[x] = stored[x]
      BY <3>1, <3>3 DEF EngineIInv
    <3> QED
      BY <3>4
  <2>3. ASSUME NEW owner \in Owners, NEW granted \in Grants, NEW level1 \in Level1,
               NEW level2 \in Level2, NEW id \in SessionIds, process(owner, granted, level1, level2, id)
        PROVE  /\ \A i \in DOMAIN schemas_ :
                      (\A j \in i..Len(schemas_) : schemas_[j] # stored'[x].schema)
                          => schemas_[i].action_id # stored'[x].schema.action_id
               /\ HoldsAnswers(stored'[x])
    <3>1. PICK r : /\ stored' = [stored EXCEPT ![id] = r] /\ HoldsAnswers(r)
                   /\ \E m \in DOMAIN schemas_ :
                          /\ r.schema = schemas_[m]
                          /\ \A k \in DOMAIN schemas_ :
                                 schemas_[k].action_id = r.schema.action_id => k <= m
      BY <2>3, ProcessSound
    <3>2. x = id /\ stored'[x] = r
      BY <3>1 DEF EngineIInv
    <3>3. PICK m \in DOMAIN schemas_ :
              /\ r.schema = schemas_[m]
              /\ \A k \in DOMAIN schemas_ : schemas_[k].action_id = r.schema.action_id => k <= m
      BY <3>1
    <3>4. PICK n \in Nat : n = Len(schemas_) /\ DOMAIN schemas_ = 1..n
      BY RegistryRange DEF EngineIInv, RegistrySound, TypeOK
    <3>5. ASSUME NEW i \in DOMAIN schemas_, \A j \in i..Len(schemas_) : schemas_[j] # r.schema,
                 schemas_[i].action_id = r.schema.action_id
          PROVE  FALSE
      <4>1. m \in i..n
        BY <3>3, <3>4, <3>5
      <4> QED
        BY <3>3, <3>4, <3>5, <4>1
    <3> QED
      BY <3>1, <3>2, <3>5
  <2> QED
    BY <2>1, <2>2, <2>3 DEF EngineNext
<1> QED
  BY <1>1, EngineAlways, PTL DEF EngineSpec, ValuesFromAnswers, HoldsAnswers

-----------------------------------------------------------------------------
(* What the sources of the repository answer *)

LEMMA LeastOfTwo ==
    ASSUME NEW a \in Int, NEW b \in Int
    PROVE  Min({a, b}) = IF a <= b THEN a ELSE b
BY DEF Min

LEMMA GreatestOfTwo ==
    ASSUME NEW a \in Int, NEW b \in Int
    PROVE  Max({a, b}) = IF a >= b THEN a ELSE b
BY DEF Max

(* What a query without an action gets from the schemas: the first c of    *)
(* those found, which are all of them or at least max_results.             *)
SchemaEntries(v, e, c) ==
    v = [k \in 1..c |-> schema_entry(schemas_[e[k]], Score(schemas_[e[k]]))]

LEMMA SchemasAnswer ==
    ASSUME schemas_ \in Seq(Schema), NEW query, query.action = {}
    PROVE  \E e, m : /\ Lists(e, m, FoundSchemas) /\ Rises(e, m)
                     /\ \E c \in 0..m : /\ c < m => c >= MaxResults
                                        /\ SchemaEntries(retrieve_schemas(query), e, c)
<1>0. PICK n : n = Len(schemas_)
  OBVIOUS
<1>1. n \in Nat /\ DOMAIN schemas_ = 1..n
  BY <1>0, RegistryRange
<1>2. FoundSchemas \in SUBSET (1..n)
  BY <1>1 DEF FoundSchemas
<1>3. PICK e, m : Lists(e, m, FoundSchemas) /\ Rises(e, m) /\ Picks(Kept(schemas_, FoundSchemas), schemas_, e, m)
  BY <1>1, <1>2, KeptPlaces
<1>4. PICK found : found = Kept(schemas_, FoundSchemas) /\ Picks(found, schemas_, e, m)
  BY <1>3
<1>5. m \in Nat /\ Listed(found, m) /\ Len(found) = m
  BY <1>3, <1>4, PickedIsListed, ListedLen DEF Lists
<1>6. PICK c \in 0..m : c = Min({Len(found), Max({1, MaxResults})}) /\ (c < m => c >= MaxResults)
  <2>1. PICK b \in Nat : b = Max({1, MaxResults}) /\ b >= MaxResults
    BY OrchestratorAssumption, GreatestOfTwo
  <2>2. Min({m, b}) = IF m <= b THEN m ELSE b
    BY <1>5, LeastOfTwo
  <2>3. PICK c \in 0..m : c = IF m <= b THEN m ELSE b
    BY <1>5
  <2>4. c < m => c >= MaxResults
    BY <1>5, <2>1, <2>3, OrchestratorAssumption
  <2> QED
    BY <1>5, <2>1, <2>2, <2>3, <2>4
<1>7. PICK taken : taken = SubSeq(found, 1, c) /\ DOMAIN taken = 1..c /\ \A k \in 1..c : taken[k] = found[k]
  <2>1. Starts(SubSeq(found, 1, c), found, c)
    BY <1>5, Prefix
  <2> QED
    BY <2>1 DEF Starts
<1>8. retrieve_schemas(query) = [k \in DOMAIN taken |-> schema_entry(taken[k], Score(taken[k]))]
  BY <1>4, <1>6, <1>7 DEF retrieve_schemas
<1>9. \A k \in 1..c : taken[k] = schemas_[e[k]]
  BY <1>4, <1>5, <1>7 DEF Picks
<1>10. SchemaEntries(retrieve_schemas(query), e, c)
  BY <1>7, <1>8, <1>9 DEF SchemaEntries
<1> QED
  BY <1>3, <1>6, <1>10

(* c numbers that rise to less than i are c numbers below i.               *)
LEMMA CountBelow ==
    ASSUME NEW c \in Nat, NEW i \in Nat, NEW e \in [1..c -> 1..(i - 1)], Rises(e, c),
           NEW J \in SUBSET (1..(i - 1)), \A k \in 1..c : e[k] \in J
    PROVE  Cardinality(J) \in Nat /\ Cardinality(J) >= c
<1>1. PICK h \in Nat : 1..h = 1..(i - 1)
  <2>1. CASE i = 0
    <3>1. 1..0 = 1..(i - 1)
      BY <2>1
    <3> QED
      BY <3>1
  <2>2. CASE i # 0
    BY <2>2
  <2> QED
    BY <2>1, <2>2
<1>2. IsFiniteSet(J)
  <2>1. IsFiniteSet(1..h)
    BY PlacesFinite
  <2> QED
    BY <1>1, <2>1, FS_Subset
<1>3. e \in Injection(1..c, J)
  <2>1. e \in [1..c -> J]
    OBVIOUS
  <2>2. ASSUME NEW k \in 1..c, NEW l \in 1..c, e[k] = e[l] PROVE k = l
    <3>1. ~(k < l) /\ ~(l < k)
      BY <2>2 DEF Rises
    <3> QED
      BY <3>1
  <2> QED
    BY <2>1, <2>2 DEF Injection, IsInjective
<1>4. Cardinality(1..c) <= Cardinality(J)
  BY <1>2, <1>3, FS_Injection
<1>5. Cardinality(1..c) = c /\ Cardinality(J) \in Nat
  BY <1>2, PlacesFinite, FS_CardinalityType
<1> QED
  BY <1>4, <1>5

LEMMA FirstSchemas ==
    ASSUME schemas_ \in Seq(Schema), NEW query
    PROVE  FirstSchemasOffered(query)
<1> DEFINE Named(j, v) == \E x \in Range(v) : x.id = <<schemas_[j].action_id, schemas_[j].version>>
<1>1. SUFFICES ASSUME query.action = {}, NEW i \in DOMAIN schemas_, Score(schemas_[i]) > 0,
                      ~Named(i, retrieve_schemas(query))
               PROVE  Cardinality({j \in 1..(i - 1) : Named(j, retrieve_schemas(query))}) >= MaxResults
  BY DEF FirstSchemasOffered
<1>2. PICK e, m : /\ Lists(e, m, FoundSchemas) /\ Rises(e, m)
                  /\ \E c \in 0..m : /\ c < m => c >= MaxResults
                                     /\ SchemaEntries(retrieve_schemas(query), e, c)
  BY <1>1, SchemasAnswer
<1>3. PICK c \in 0..m : /\ c < m => c >= MaxResults
                        /\ SchemaEntries(retrieve_schemas(query), e, c)
  BY <1>2
<1>4. m \in Nat /\ i \in Nat /\ \A k \in 1..m : e[k] \in DOMAIN schemas_ /\ e[k] \in Nat \ {0}
  BY <1>2, RegistryRange DEF Lists, FoundSchemas
<1>5. PICK v : v = retrieve_schemas(query) /\ SchemaEntries(v, e, c)
  BY <1>3
<1>6. ASSUME NEW k \in 1..c PROVE Named(e[k], v)
  <2>1. k \in DOMAIN v /\ v[k] = schema_entry(schemas_[e[k]], Score(schemas_[e[k]]))
    BY <1>5 DEF SchemaEntries
  <2>2. v[k] \in Range(v)
    BY <2>1 DEF Range
  <2>3. v[k].id = <<schemas_[e[k]].action_id, schemas_[e[k]].version>>
    BY <2>1 DEF schema_entry, KnowledgeEntry
  <2> QED
    BY <2>2, <2>3
<1>7. PICK k \in 1..m : e[k] = i
  BY <1>1, <1>2 DEF Lists, FoundSchemas
<1> DEFINE J == {j \in 1..(i - 1) : Named(j, v)}
<1> HIDE DEF Named
<1>8. c < k
  <2>1. k \notin 1..c
    BY <1>1, <1>5, <1>6, <1>7
  <2> QED
    BY <1>4, <2>1
<1>9. \A l \in 1..c : e[l] \in 1..(i - 1) /\ Named(e[l], v)
  BY <1>2, <1>4, <1>6, <1>7, <1>8 DEF Rises
<1>10. PICK f : f = [l \in 1..c |-> e[l]]
  OBVIOUS
<1>11. f \in [1..c -> 1..(i - 1)] /\ Rises(f, c)
  BY <1>2, <1>4, <1>9, <1>10 DEF Rises
<1>12. Cardinality(J) \in Nat /\ Cardinality(J) >= c
  <2>1. J \in SUBSET (1..(i - 1)) /\ \A l \in 1..c : f[l] \in J
    BY <1>9, <1>10
  <2> HIDE DEF J
  <2>2. c \in Nat /\ i \in Nat
    BY <1>4
  <2> QED
    BY <1>11, <2>1, <2>2, CountBelow
<1>13. c \in Nat /\ c >= MaxResults
  BY <1>3, <1>4, <1>7, <1>8
<1> QED
  BY <1>5, <1>12, <1>13, OrchestratorAssumption

(* The entries of the glossary: those in the locale asked for, then those  *)
(* in English, up to max_results.                                          *)
Explanation(r, score) == KnowledgeEntry("glossary", <<r.term, r.locale>>, 1, score)

Explanations(answer, e, m, h, p, c) ==
    /\ Listed(answer, c) /\ Len(answer) = c /\ c \in 0..(m + p) /\ (c < MaxResults => c = m + p)
    /\ \A k \in 1..c : k <= m => answer[k] = Explanation(Glossary[e[k]], 10)
    /\ \A k \in 1..p : m + k <= c => answer[m + k] = Explanation(Glossary[h[k]], 8)

LEMMA GlossaryAnswer ==
    ASSUME NEW query
    PROVE  \E e, m, h, p :
               /\ Lists(e, m, FoundTerms(query.locale)) /\ Lists(h, p, Fallback(query.locale))
               /\ \E c : Explanations(retrieve_glossary(query), e, m, h, p, c)
<1> DEFINE A == FoundTerms(query.locale)
           B == Fallback(query.locale)
<1>1. PICK n : n = Len(Glossary)
  OBVIOUS
<1>2. n \in Nat /\ DOMAIN Glossary = 1..n
  BY <1>1, SourcesAssumption, LenProperties
<1>3. A \in SUBSET (1..n) /\ B \in SUBSET (1..n)
  BY <1>2 DEF FoundTerms, Fallback
<1> HIDE DEF A, B
<1>4. PICK e, m : Lists(e, m, A) /\ Picks(Kept(Glossary, A), Glossary, e, m)
  BY <1>2, <1>3, KeptPlaces
<1>5. PICK h, p : Lists(h, p, B) /\ Picks(Kept(Glossary, B), Glossary, h, p)
  BY <1>2, <1>3, KeptPlaces
<1>6. m \in Nat /\ p \in Nat
  BY <1>4, <1>5 DEF Lists
<1>7. PICK x : x = [k \in DOMAIN Kept(Glossary, A) |-> Explanation(Kept(Glossary, A)[k], 10)]
  OBVIOUS
<1>8. PICK y : y = [k \in DOMAIN Kept(Glossary, B) |-> Explanation(Kept(Glossary, B)[k], 8)]
  OBVIOUS
<1>9. x = [k \in 1..m |-> Explanation(Glossary[e[k]], 10)]
  BY <1>4, <1>7 DEF Picks
<1>10. y = [k \in 1..p |-> Explanation(Glossary[h[k]], 8)]
  BY <1>5, <1>8 DEF Picks
<1>11. Listed(x, m) /\ Listed(y, p)
  <2>1. x \in [1..m -> Range(x)]
    BY <1>9 DEF Range
  <2>2. y \in [1..p -> Range(y)]
    BY <1>10 DEF Range
  <2> QED
    BY <1>6, <2>1, <2>2, FunctionIsListed
<1>12. retrieve_glossary(query) = Truncated(x \o y)
  BY <1>7, <1>8 DEF retrieve_glossary, Explanation, A, B
<1>13. Joins(x \o y, x, m, y, p)
  BY <1>11, Joined
<1>14. PICK c \in 0..(m + p) : Cuts(Truncated(x \o y), x \o y, c, m + p)
  BY <1>13, TruncatedEntries DEF Joins
<1>15. PICK answer : answer = retrieve_glossary(query) /\ Cuts(answer, x \o y, c, m + p)
  BY <1>12, <1>14
<1>16. Listed(answer, c) /\ Len(answer) = c /\ (c < MaxResults => c = m + p)
  <2>1. Starts(answer, x \o y, c) /\ c <= MaxResults /\ (c < m + p => c = MaxResults)
    BY <1>15 DEF Cuts
  <2>2. c \in Nat /\ m + p \in Nat /\ c <= m + p
    BY <1>6
  <2> QED
    BY <2>1, <2>2, StartIsListed, ListedLen, OrchestratorAssumption
<1>17. ASSUME NEW k \in 1..c, k <= m PROVE answer[k] = Explanation(Glossary[e[k]], 10)
  <2>1. answer[k] = (x \o y)[k]
    BY <1>15 DEF Cuts, Starts
  <2>2. k \in 1..m
    BY <1>6, <1>17
  <2> QED
    BY <1>9, <1>13, <2>1, <2>2 DEF Joins
<1>18. ASSUME NEW k \in 1..p, m + k <= c PROVE answer[m + k] = Explanation(Glossary[h[k]], 8)
  <2>1. m + k \in 1..c
    BY <1>6, <1>18
  <2>2. answer[m + k] = (x \o y)[m + k]
    BY <1>15, <2>1 DEF Cuts, Starts
  <2> QED
    BY <1>10, <1>13, <2>2 DEF Joins
<1>19. Explanations(answer, e, m, h, p, c)
  BY <1>16, <1>17, <1>18 DEF Explanations
<1> QED
  BY <1>4, <1>5, <1>15, <1>19 DEF A, B

(* A word has entries in at most one language among those served, and some *)
(* unless the answer is full.                                              *)
LEMMA OneLanguageServed ==
    ASSUME NEW query
    PROVE  OneLanguage(query)
<1> DEFINE L == query.locale
<1>1. PICK e, m, h, p :
          /\ Lists(e, m, FoundTerms(L)) /\ Lists(h, p, Fallback(L))
          /\ \E c : Explanations(retrieve_glossary(query), e, m, h, p, c)
  BY GlossaryAnswer
<1>2. PICK answer, c : answer = retrieve_glossary(query) /\ Explanations(answer, e, m, h, p, c)
  BY <1>1
<1> HIDE DEF L
<1>3. /\ m \in Nat /\ \A k \in 1..m : e[k] \in FoundTerms(L)
      /\ \A i \in FoundTerms(L) : \E k \in 1..m : e[k] = i
      /\ p \in Nat /\ \A k \in 1..p : h[k] \in Fallback(L)
      /\ \A i \in Fallback(L) : \E k \in 1..p : h[k] = i
  BY <1>1 DEF Lists
<1>4. /\ DOMAIN answer = 1..c /\ Len(answer) = c /\ c \in 0..(m + p) /\ (c < MaxResults => c = m + p)
      /\ \A k \in 1..c : k <= m => answer[k] = Explanation(Glossary[e[k]], 10)
      /\ \A k \in 1..p : m + k <= c => answer[m + k] = Explanation(Glossary[h[k]], 8)
  BY <1>2 DEF Explanations, Listed
<1>5. /\ \A i \in FoundTerms(L) : /\ Glossary[i] \in Range(Glossary)
                                  /\ Glossary[i].locale = L /\ Glossary[i].found
      /\ \A g \in Range(Glossary) : g.found /\ g.locale = L
             => \E i \in FoundTerms(L) : Glossary[i] = g
  BY DEF FoundTerms, Range
<1>6. /\ \A i \in Fallback(L) : /\ Glossary[i] \in Range(Glossary) /\ Glossary[i].locale = "en"
                                /\ \A j \in FoundTerms(L) : Glossary[j].word # Glossary[i].word
      /\ \A g \in Range(Glossary) :
             /\ g.found /\ g.locale = "en" /\ L # "en"
             /\ \A j \in FoundTerms(L) : Glossary[j].word # g.word
             => \E i \in Fallback(L) : Glossary[i] = g
  BY DEF Fallback, FoundTerms, Explained, Range
<1>7. \A r, g \in Range(Glossary) : r.term = g.term => r.word = g.word
  BY SourcesAssumption
<1>8. \A r, s : Explanation(r, s).id = <<r.term, r.locale>>
  BY DEF Explanation, KnowledgeEntry
<1> DEFINE Known(word, l) == \E g \in Range(Glossary) : g.found /\ g.word = word /\ g.locale = l
           Serves(x, word) == \E g \in Range(Glossary) : g.word = word /\ x.id = <<g.term, g.locale>>
<1>9. ASSUME NEW word, NEW x \in Range(answer), Serves(x, word)
      PROVE  x.id[2] = IF Known(word, L) THEN L ELSE "en"
  <2>1. PICK k \in 1..c : answer[k] = x
    BY <1>4 DEF Range
  <2>2. PICK g \in Range(Glossary) : g.word = word /\ x.id = <<g.term, g.locale>>
    BY <1>9
  <2>3. CASE k <= m
    <3>1. PICK i \in FoundTerms(L) : i = e[k] /\ x.id = <<Glossary[i].term, Glossary[i].locale>>
      BY <1>3, <1>4, <1>8, <2>1, <2>3
    <3>2. Glossary[i].term = g.term /\ x.id[2] = L
      BY <1>5, <2>2, <3>1
    <3> QED
      BY <1>5, <1>7, <2>2, <3>1, <3>2
  <2>4. CASE ~(k <= m)
    <3>1. PICK l \in 1..p : k = m + l
      BY <1>3, <1>4, <2>4
    <3>2. PICK i \in Fallback(L) : i = h[l] /\ x.id = <<Glossary[i].term, Glossary[i].locale>>
      <4>1. m + l <= c
        BY <1>3, <1>4, <3>1
      <4>2. x = Explanation(Glossary[h[l]], 8)
        BY <1>4, <2>1, <3>1, <4>1
      <4> QED
        BY <1>3, <1>8, <4>2
    <3>3. Glossary[i].term = g.term /\ x.id[2] = "en" /\ Glossary[i].word = word
      BY <1>6, <1>7, <2>2, <3>2
    <3>4. ~Known(word, L)
      BY <1>5, <1>6, <3>2, <3>3
    <3> QED
      BY <3>3, <3>4
  <2> QED
    BY <2>3, <2>4
<1>10. ASSUME NEW word, Known(word, L) \/ Known(word, "en"), c < MaxResults
       PROVE  \E x \in Range(answer) : Serves(x, word)
  <2>1. CASE Known(word, L)
    <3>1. PICK i \in FoundTerms(L) : Glossary[i].word = word
      BY <1>5, <2>1
    <3>2. PICK k \in 1..m : e[k] = i
      BY <1>3
    <3>3. k \in 1..c /\ k <= m
      BY <1>3, <1>4, <1>10
    <3>4. answer[k] \in Range(answer) /\ answer[k].id = <<Glossary[i].term, Glossary[i].locale>>
      BY <1>4, <1>8, <3>2, <3>3 DEF Range
    <3> QED
      BY <1>5, <3>1, <3>4
  <2>2. CASE ~Known(word, L)
    <3>1. PICK g \in Range(Glossary) : g.found /\ g.word = word /\ g.locale = "en"
      BY <1>10, <2>2
    <3>2. L # "en" /\ \A j \in FoundTerms(L) : Glossary[j].word # g.word
      BY <1>5, <2>2, <3>1
    <3>3. PICK i \in Fallback(L) : Glossary[i] = g
      BY <1>6, <3>1, <3>2
    <3>4. PICK k \in 1..p : h[k] = i
      BY <1>3
    <3>5. m + k \in 1..c /\ m + k <= c
      BY <1>3, <1>4, <1>10
    <3>6. answer[m + k] \in Range(answer) /\ answer[m + k].id = <<g.term, g.locale>>
      BY <1>4, <1>8, <3>3, <3>4, <3>5 DEF Range
    <3> QED
      BY <3>1, <3>6
  <2> QED
    BY <2>1, <2>2
<1> DEFINE locales(word) == {r.locale : r \in {g \in Range(Glossary) : g.found /\ g.word = word}}
           served(word) == {x \in Range(answer) : Serves(x, word)}
           Alright(word) ==
               /\ \A x \in served(word) : x.id[2] = IF L \in locales(word) THEN L ELSE "en"
               /\ {L, "en"} \cap locales(word) # {} /\ c < MaxResults => served(word) # {}
<1>11. ASSUME NEW word PROVE Alright(word)
  <2>1. \A l : l \in locales(word) <=> Known(word, l)
    OBVIOUS
  <2> HIDE DEF Known, locales, Serves
  <2> QED
    BY <1>9, <1>10, <2>1
<1>12. (\A word : Alright(word)) => OneLanguage(query)
  BY <1>2, <1>4 DEF OneLanguage, L
<1> QED
  BY <1>11, <1>12

(* Every source answers with a list of entries that can be ranked.         *)
LEMMA ListOfEntries ==
    ASSUME NEW a, NEW c, Listed(a, c), \A k \in 1..c : IsEntry(a[k])
    PROVE  IsAnswer(a)
<1>1. DOMAIN a = 1..c /\ a \in Seq(Range(a))
  BY DEF Listed
<1>2. \A x \in Range(a) : x.priority \in Int /\ x.relevance \in Int
  BY <1>1 DEF IsEntry, Range
<1> QED
  BY <1>1, <1>2 DEF IsAnswer

LEMMA AsSequence ==
    ASSUME NEW S, IsFiniteSet(S)
    PROVE  Cardinality(S) \in Nat /\ SetToSeq(S) \in [1..Cardinality(S) -> S]
<1>1. Cardinality(S) \in Nat /\ ExistsBijection(1..Cardinality(S), S)
  BY FS_CardinalityType
<1>2. \E f \in [1..Cardinality(S) -> S] : IsInjective(f)
  BY <1>1 DEF ExistsBijection, Bijection, Injection
<1> QED
  BY <1>1, <1>2 DEF SetToSeq

LEMMA SchemasAreRanked ==
    ASSUME schemas_ \in Seq(Schema), NEW query
    PROVE  IsAnswer(retrieve_schemas(query))
<1>1. CASE query.action = {}
  <2>1. PICK e, m : /\ Lists(e, m, FoundSchemas)
                    /\ \E c \in 0..m : SchemaEntries(retrieve_schemas(query), e, c)
    BY <1>1, SchemasAnswer
  <2>2. m \in Nat /\ \A k \in 1..m : e[k] \in DOMAIN schemas_
    BY <2>1 DEF Lists, FoundSchemas
  <2>3. PICK v, c : v = retrieve_schemas(query) /\ c \in 0..m /\ SchemaEntries(v, e, c)
    BY <2>1
  <2>4. c \in Nat /\ \A k \in 1..c : e[k] \in DOMAIN schemas_
    BY <2>2, <2>3
  <2>5. DOMAIN v = 1..c /\ \A k \in 1..c : v[k] = schema_entry(schemas_[e[k]], Score(schemas_[e[k]]))
    BY <2>3 DEF SchemaEntries
  <2>6. v \in [1..c -> Range(v)]
    BY <2>3, <2>5 DEF SchemaEntries, Range
  <2>7. ASSUME NEW k \in 1..c PROVE IsEntry(v[k])
    <3>1. PICK s \in Schema : s = schemas_[e[k]]
      BY <2>4, RegistryRange
    <3>2. Score(s) \in Nat
      <4>1. <<s.action_id, s.version>> \in ActionIds \X Versions
        BY DEF Schema
      <4> QED
        BY <4>1, SourcesAssumption DEF Score
    <3> QED
      BY <2>5, <3>1, <3>2 DEF schema_entry, KnowledgeEntry, IsEntry
  <2> QED
    BY <2>3, <2>4, <2>6, <2>7, FunctionIsListed, ListOfEntries
<1>2. CASE query.action # {}
  <2> DEFINE newest == UNION {latest_for(a) : a \in query.action}
             T == {schema_entry(schemas_[i], 10) : i \in newest}
  <2>1. PICK n : n = Len(schemas_)
    OBVIOUS
  <2>2. n \in Nat /\ DOMAIN schemas_ = 1..n
    BY <2>1, RegistryRange
  <2>3. newest \in SUBSET (1..n)
    BY <2>2 DEF latest_for, Matching
  <2>4. IsFiniteSet(newest)
    BY <2>2, <2>3, PlacesFinite, FS_Subset
  <2>5. PICK f : f = [i \in newest |-> schema_entry(schemas_[i], 10)]
    OBVIOUS
  <2>6. f \in Surjection(newest, T)
    <3> HIDE DEF newest
    <3> QED
      BY <2>5 DEF Surjection
  <2>7. retrieve_schemas(query) = SetToSeq(T)
    BY <1>2 DEF retrieve_schemas
  <2>8. \A x \in T : IsEntry(x)
    BY DEF schema_entry, KnowledgeEntry, IsEntry
  <2> HIDE DEF newest, T
  <2>9. IsFiniteSet(T)
    BY <2>4, <2>6, FS_Surjection
  <2>10. PICK v, c : v = SetToSeq(T) /\ c \in Nat /\ v \in [1..c -> T]
    BY <2>9, AsSequence
  <2>11. Listed(v, c) /\ \A k \in 1..c : IsEntry(v[k])
    BY <2>8, <2>10, FunctionIsListed
  <2> QED
    BY <2>7, <2>10, <2>11, ListOfEntries
<1> QED
  BY <1>1, <1>2

LEMMA GlossaryIsRanked ==
    ASSUME NEW query
    PROVE  IsAnswer(retrieve_glossary(query))
<1>1. PICK e, m, h, p :
          /\ Lists(e, m, FoundTerms(query.locale)) /\ Lists(h, p, Fallback(query.locale))
          /\ \E c : Explanations(retrieve_glossary(query), e, m, h, p, c)
  BY GlossaryAnswer
<1>2. PICK v, c : v = retrieve_glossary(query) /\ Explanations(v, e, m, h, p, c)
  BY <1>1
<1>3. m \in Nat /\ p \in Nat
  BY <1>1 DEF Lists
<1>4. /\ Listed(v, c) /\ c \in 0..(m + p)
      /\ \A k \in 1..c : k <= m => v[k] = Explanation(Glossary[e[k]], 10)
      /\ \A k \in 1..p : m + k <= c => v[m + k] = Explanation(Glossary[h[k]], 8)
  BY <1>2 DEF Explanations
<1>5. \A r : IsEntry(Explanation(r, 10)) /\ IsEntry(Explanation(r, 8))
  BY DEF IsEntry, Explanation, KnowledgeEntry
<1>6. ASSUME NEW k \in 1..c PROVE IsEntry(v[k])
  <2>1. CASE k <= m
    BY <1>4, <1>5, <2>1
  <2>2. CASE ~(k <= m)
    <3>1. c \in Nat /\ c <= m + p
      BY <1>3, <1>4
    <3>2. k \in Nat /\ m < k /\ k <= c
      BY <1>3, <2>2, <3>1
    <3>3. PICK l \in 1..p : k = m + l
      BY <1>3, <3>1, <3>2
    <3>4. v[k] = Explanation(Glossary[h[l]], 8)
      BY <1>4, <3>2, <3>3
    <3> QED
      BY <1>5, <3>4
  <2> QED
    BY <2>1, <2>2
<1> QED
  BY <1>2, <1>4, <1>6, ListOfEntries

LEMMA VectorsAreRanked ==
    ASSUME NEW indexed \in SUBSET DOMAIN Similarity, NEW vectors \in retrieve_vectors(indexed)
    PROVE  IsAnswer(vectors)
<1>1. CASE vectors = Failed
  BY <1>1 DEF IsAnswer
<1>2. ASSUME NEW x \in SetToSeqs(indexed), NEW ids, ids = Truncated(x),
             vectors = [k \in DOMAIN ids |-> KnowledgeEntry("vector", <<ids[k]>>, 2, Similarity[ids[k]])]
      PROVE  IsAnswer(vectors)
  <2>1. IsFiniteSet(indexed)
    BY SourcesAssumption, FS_Subset
  <2>2. PICK n \in Nat : n = Cardinality(indexed)
    BY <2>1, FS_CardinalityType
  <2>3. x \in [1..n -> indexed]
    BY <1>2, <2>2 DEF SetToSeqs
  <2>4. Listed(x, n)
    BY <2>3, FunctionIsListed
  <2>5. PICK c \in 0..n : Cuts(ids, x, c, n)
    BY <1>2, <2>4, TruncatedEntries
  <2>6. DOMAIN ids = 1..c /\ \A k \in 1..c : ids[k] \in indexed
    BY <2>3, <2>5 DEF Cuts, Starts
  <2>7. \A id \in indexed : Similarity[id] \in Nat
    BY SourcesAssumption
  <2>8. c \in Nat /\ vectors \in [1..c -> Range(vectors)]
    BY <1>2, <2>6 DEF Range
  <2>9. \A k \in 1..c : IsEntry(vectors[k])
    BY <1>2, <2>6, <2>7 DEF KnowledgeEntry, IsEntry
  <2> QED
    BY <2>8, <2>9, FunctionIsListed, ListOfEntries
<1>3. \/ vectors = Failed
      \/ \E x \in SetToSeqs(indexed) : \E ids :
             /\ ids = Truncated(x)
             /\ vectors = [k \in DOMAIN ids |-> KnowledgeEntry("vector", <<ids[k]>>, 2, Similarity[ids[k]])]
  BY DEF retrieve_vectors, search
<1> QED
  BY <1>1, <1>2, <1>3

(* Whatever is registered or indexed and whatever the embedding's source   *)
(* answers, the backend is shown the best entries, each once - also while  *)
(* there are sessions and pointers.                                        *)
THEOREM BestIsRetrieved == EngineSpec => []AnswersTheBest /\ []RetrievesTheBest
<1>1. EngineIInv => AnswersTheBest
  <2> SUFFICES ASSUME EngineIInv, NEW query \in Queries
               PROVE  /\ FirstSchemasOffered(query) /\ OneLanguage(query)
                      /\ \A indexed \in SUBSET DOMAIN Similarity, other \in OtherAnswers :
                             \A vectors \in retrieve_vectors(indexed) :
                                 KeepsTheBest(<<retrieve_schemas(query), retrieve_glossary(query),
                                                vectors, other>>)
    BY DEF AnswersTheBest
  <2>1. schemas_ \in Seq(Schema)
    BY DEF EngineIInv, RegistrySound, TypeOK
  <2>2. FirstSchemasOffered(query) /\ OneLanguage(query)
    BY <2>1, FirstSchemas, OneLanguageServed
  <2>3. ASSUME NEW indexed \in SUBSET DOMAIN Similarity, NEW other \in OtherAnswers,
               NEW vectors \in retrieve_vectors(indexed)
        PROVE  KeepsTheBest(<<retrieve_schemas(query), retrieve_glossary(query), vectors, other>>)
    <3>1. PICK a, b : a = retrieve_schemas(query) /\ b = retrieve_glossary(query)
      OBVIOUS
    <3>2. IsAnswer(a) /\ IsAnswer(b) /\ IsAnswer(vectors) /\ IsAnswer(other)
      BY <2>1, <3>1, SchemasAreRanked, GlossaryIsRanked, VectorsAreRanked, EngineAssumption
    <3>3. PICK answers : answers = <<a, b, vectors, other>>
      OBVIOUS
    <3>4. Range(answers) = {a, b, vectors, other} /\ answers \in [1..4 -> {a, b, vectors, other}]
      BY <3>3 DEF Range
    <3>5. answers \in Seq(Range(answers))
      BY <3>4, FunctionIsSeq
    <3>6. KeepsTheBest(answers)
      BY <3>2, <3>4, <3>5, BestAreKept
    <3> QED
      BY <3>1, <3>3, <3>6
  <2> QED
    BY <2>2, <2>3
<1>2. AnswersTheBest => RetrievesTheBest
  BY DEF RetrievesTheBest
<1> QED
  BY <1>1, <1>2, EngineAlways, PTL
=============================================================================
