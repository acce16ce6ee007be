-------------------------- MODULE KnowledgeSources --------------------------
(***************************************************************************)
(* The three knowledge sources of the repository, asked in the order of    *)
(* their priorities: the schema registry, the glossary, and a vector index *)
(* behind an embedding service.  The text of the query is the same in      *)
(* every query; how well it matches a schema, a term or an indexed entry   *)
(* is a constant, in tenths.                                               *)
(***************************************************************************)
EXTENDS SchemaRegistry, KnowledgeOrchestrator

CONSTANTS
    Relevance,   \* score of the text against a schema, 0 if it does not match
    Glossary,    \* the entries added to the glossary, in order
    Similarity,  \* score of the text against an entry of the vector index
    Queries      \* an action (none or one) and a locale

ASSUME SourcesAssumption ==
    /\ Relevance \in [ActionIds \X Versions -> Nat]
    /\ Glossary \in Seq(Range(Glossary))
    /\ \A r \in Range(Glossary) : r.found \in BOOLEAN
    /\ \A r, g \in Range(Glossary) : /\ r.term = g.term => r.word = g.word
                                     /\ r.word = g.word => r.found = g.found
    /\ IsFiniteSet(DOMAIN Similarity)
    /\ \A id \in DOMAIN Similarity : Similarity[id] \in Nat
    /\ \A q \in Queries : q.action \subseteq ActionIds /\ Cardinality(q.action) <= 1

KnowledgeEntry(source, id, priority, score) ==
    [source |-> source, id |-> id, priority |-> priority, relevance |-> score]

schema_entry(s, score) == KnowledgeEntry("schema", <<s.action_id, s.version>>, 0, score)

(* SchemaKnowledgeSource: the newest schema of the action asked for, or    *)
(* those that match in the order of registration; the loop ends once       *)
(* max_results are found, with one at least.                               *)
Score(s) == Relevance[<<s.action_id, s.version>>]

FoundSchemas == {i \in DOMAIN schemas_ : Score(schemas_[i]) > 0}

retrieve_schemas(query) ==
    LET newest == UNION {latest_for(a) : a \in query.action}
        found == Kept(schemas_, FoundSchemas)
        taken == SubSeq(found, 1, Min({Len(found), Max({1, MaxResults})}))
    IN  IF query.action # {} THEN SetToSeq({schema_entry(schemas_[i], 10) : i \in newest})
        ELSE [k \in DOMAIN taken |-> schema_entry(taken[k], Score(taken[k]))]

(* GlossaryKnowledgeSource: a term is found in the locale asked for, or in *)
(* English when that locale has no entry for it, whatever its case.        *)
FoundTerms(locale) == {i \in DOMAIN Glossary : Glossary[i].locale = locale /\ Glossary[i].found}

Explained(locale) == {Glossary[i].word : i \in FoundTerms(locale)}

Fallback(locale) ==
    {i \in FoundTerms("en") : locale # "en" /\ Glossary[i].word \notin Explained(locale)}

retrieve_glossary(query) ==
    LET entries(records, score) ==
            [k \in DOMAIN records |->
                KnowledgeEntry("glossary", <<records[k].term, records[k].locale>>, 1, score)]
    IN  Truncated(entries(Kept(Glossary, FoundTerms(query.locale)), 10)
                  \o entries(Kept(Glossary, Fallback(query.locale)), 8))

(* InMemoryVectorIndex::search: the best entries; equal ones in any order. *)
search(indexed) ==
    {Truncated(ids) :
        ids \in {s \in SetToSeqs(indexed) :
                    \A i, j \in DOMAIN s : i < j => Similarity[s[i]] >= Similarity[s[j]]}}

(* VectorKnowledgeSource: without an embedding it fails.                   *)
retrieve_vectors(indexed) ==
    {Failed} \cup {[k \in DOMAIN ids |-> KnowledgeEntry("vector", <<ids[k]>>, 2, Similarity[ids[k]])] :
                      ids \in search(indexed)}

-----------------------------------------------------------------------------
(* A schema that matches is not offered only when as many that were        *)
(* registered before it are.                                               *)
FirstSchemasOffered(query) ==
    LET offered == Range(retrieve_schemas(query))
        missing == {i \in DOMAIN schemas_ :
                       /\ Score(schemas_[i]) > 0
                       /\ \A e \in offered : e.id # <<schemas_[i].action_id, schemas_[i].version>>}
    IN  query.action = {} => \A i \in missing :
            Cardinality({j \in 1..(i - 1) : \E e \in offered :
                            e.id = <<schemas_[j].action_id, schemas_[j].version>>}) >= MaxResults

(* A word is explained in one language only, and in the one asked for if   *)
(* that is possible; it is missing only when the answer is full.           *)
OneLanguage(query) ==
    LET answer == retrieve_glossary(query)
        locales(word) == {r.locale : r \in {g \in Range(Glossary) : g.found /\ g.word = word}}
        served(word) == {e \in Range(answer) : \E g \in Range(Glossary) :
                            g.word = word /\ e.id = <<g.term, g.locale>>}
    IN  \A word \in {g.word : g \in Range(Glossary)} :
            /\ \A e \in served(word) :
                   e.id[2] = IF query.locale \in locales(word) THEN query.locale ELSE "en"
            /\ {query.locale, "en"} \cap locales(word) # {} /\ Len(answer) < MaxResults
                   => served(word) # {}
=============================================================================
