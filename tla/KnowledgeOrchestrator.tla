----------------------- MODULE KnowledgeOrchestrator -----------------------
(***************************************************************************)
(* KnowledgeOrchestrator: the answers of the knowledge sources, in the     *)
(* order of the sources' priorities, are merged, ranked, freed of copies   *)
(* and cut off.  A source that fails (Failed) contributes nothing.         *)
(***************************************************************************)
EXTENDS Integers, Sequences, FiniteSets, SequencesExt

CONSTANTS
    Failed,          \* the answer of a source that returns an error
    MaxResults       \* KnowledgeQuery::max_results

ASSUME OrchestratorAssumption == MaxResults \in Nat

(* What an embedding's source answers: entries with a priority and a score *)
(* that is a number, or an error.                                          *)
IsAnswer(a) ==
    a # Failed => /\ a \in Seq(Range(a))
                  /\ \A e \in Range(a) : e.priority \in Int /\ e.relevance \in Int

(* The elements of s at the places in I, in order.                         *)
Kept(s, I) ==
    LET Place(i) == Cardinality({j \in I : j < i}) + 1
    IN  [k \in 1..Cardinality(I) |-> s[CHOOSE i \in I : Place(i) = k]]

(* std::stable_sort: element i goes behind all that must precede it.       *)
stable_sort(s, Less(_, _)) ==
    LET Precedes(i, j) == Less(s[i], s[j]) \/ (~Less(s[j], s[i]) /\ i < j)
        Place(i) == Cardinality({j \in DOMAIN s : Precedes(j, i)}) + 1
    IN  [k \in DOMAIN s |-> s[CHOOSE i \in DOMAIN s : Place(i) = k]]

Ranks(a, b) ==
    IF a.priority # b.priority THEN a.priority < b.priority ELSE a.relevance > b.relevance

Ranked(entries) == stable_sort(entries, Ranks)

SameEntry(a, b) == a.source = b.source /\ a.id = b.id

(* The first copy of every entry stays.                                    *)
Firsts(entries) == {i \in DOMAIN entries : \A j \in 1..(i - 1) : ~SameEntry(entries[i], entries[j])}

Unseen(entries) == Kept(entries, Firsts(entries))

Merged(answers) == FlattenSeq([i \in DOMAIN answers |->
                                  IF answers[i] = Failed THEN <<>> ELSE answers[i]])

Truncated(entries) == SubSeq(entries, 1, IF Len(entries) > MaxResults THEN MaxResults ELSE Len(entries))

(* Faulty variant: copies are removed before the ranking.                  *)
retrieve_first_copies(answers) == Truncated(Ranked(Unseen(Merged(answers))))

retrieve(answers) == Truncated(Unseen(Ranked(Merged(answers))))

-----------------------------------------------------------------------------
Offered(answers) == UNION {Range(answers[i]) : i \in {j \in DOMAIN answers : answers[j] # Failed}}

(* The context has no entry twice, and an offered entry is left out only   *)
(* for a copy of it that ranks at least as high, or because the context is *)
(* full of entries that do.                                                *)
KeepsTheBest(answers) ==
    LET context == retrieve(answers)
    IN  /\ Range(context) \subseteq Offered(answers)
        /\ \A i, j \in DOMAIN context : i < j => /\ ~SameEntry(context[i], context[j])
                                                 /\ ~Ranks(context[j], context[i])
        /\ \A e \in Offered(answers) \ Range(context) :
               \/ \E c \in Range(context) : SameEntry(c, e) /\ ~Ranks(e, c)
               \/ /\ Len(context) = MaxResults
                  /\ \A c \in Range(context) : ~Ranks(e, c)
=============================================================================
