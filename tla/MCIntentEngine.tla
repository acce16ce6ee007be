--------------------------- MODULE MCIntentEngine ---------------------------
(* Two actions, the second version of the first demands more; answers that *)
(* are malformed, out of order, tied, unsure, complete, partial and null.  *)
EXTENDS IntentEngine

CONSTANTS n1, n2, x1, x2, a1, a2, v1, v2, z

MCSchema(action, version, parameters, limit, example) ==
    [action_id |-> action, version |-> version,
     draft |-> [reversibility |-> "irreversible", blast_radius |-> "scoped", limit |-> limit,
                dry_run |-> "mandatory", side_effect |-> "writes_system", confirmation |-> "single",
                rollback |-> "manual", parameters |-> parameters, example |-> example]]

(* Schemas made in code: one that JSON cannot carry, and one whose         *)
(* parameters are no JSON.                                                 *)
MCBuilt == {MCSchema(a2, v2, "json", Half + 1, "text"), MCSchema(a2, v1, "text", 3, "json")}

(* A good document of every version, and others each with one fault.       *)
MCDocument(action, version) ==
    serialize_action_schema_json(MCSchema(action, version, "object", 3, "object"))

MCDocuments ==
    {MCDocument(a, v) : a \in ActionIds, v \in Versions}
    \cup {[MCDocument(a1, v1) EXCEPT !.maxEntities = n] : n \in {-1, Half, 2 * Half}}
    \cup {[MCDocument(a1, v1) EXCEPT !.dryRun = "optional"],
          [MCDocument(a1, v1) EXCEPT !.examples = "intent_empty"],
          [MCDocument(a1, v1) EXCEPT !.texts = Bad]}

MCSignature ==
    [p \in ActionIds \X Versions |->
        CASE p = <<a1, v1>> -> [scopes |-> {"r"}, properties |-> <<n1, n2>>, required |-> {n1}]
          [] p = <<a1, v2>> -> [scopes |-> {"r", "w"}, properties |-> <<n1, n2>>, required |-> {n1, n2}]
          [] p = <<a2, v1>> -> [scopes |-> {"r"}, properties |-> <<n2>>, required |-> {n2}]
          [] p = <<a2, v2>> -> [scopes |-> {"w"}, properties |-> <<n2, Nil>>, required |-> {}]]

MCCandidate(action, confidence, slots) ==
    [action |-> action, confidence |-> confidence, slots |-> slots]

MCLevel1 ==
    {Nil, <<>>,
     <<MCCandidate(z, 9, <<>>)>>,
     <<MCCandidate(a1, 6, n1 :> x1)>>,
     <<MCCandidate(a1, 7, n1 :> x1)>>,
     <<MCCandidate(a2, 7, <<>>), MCCandidate(a1, 9, n1 :> x1 @@ n2 :> x2)>>,
     <<MCCandidate(a1, 9, n2 :> x1), MCCandidate(z, 3, <<>>), MCCandidate(a2, 8, n2 :> x2)>>,
     <<MCCandidate(a2, 9, n2 :> Nil), MCCandidate(a1, 7, n1 :> x1), MCCandidate(z, 3, <<>>)>>,
     <<MCCandidate(a1, 9, n1 :> x1), MCCandidate(Nil, 3, <<>>)>>}

MCLevel2 == {Nil, n1 :> x2, n1 :> Nil @@ n2 :> x1}

MCGrants == {{}, {"r"}, {"r", "w"}}

(* One action matches by its id, one version of the other by an example.   *)
MCRelevance ==
    [p \in ActionIds \X Versions |->
        CASE p[1] = a1 -> 9 [] p = <<a2, v1>> -> 7 [] p = <<a2, v2>> -> 0]

(* A word with entries in both languages, written in two ways in one of    *)
(* them, a word in English only, and one that is not in the text.          *)
MCTerm(term, word, locale) == [term |-> term, word |-> word, locale |-> locale, found |-> word # "job"]

MCGlossary ==
    <<MCTerm("Node", "node", "en"), MCTerm("pod", "pod", "en"), MCTerm("node", "node", "fr"),
      MCTerm("NODE", "node", "fr"), MCTerm("job", "job", "fr"), MCTerm("node", "node", "fr")>>

MCQueries == {[action |-> {}, locale |-> l] : l \in {"en", "fr"}}
             \cup {[action |-> {a}, locale |-> "de"] : a \in ActionIds}

MCSimilarity == [id \in {"d1", "d2", "d3"} |-> IF id = "d3" THEN 9 ELSE 5]

(* A source that may fail, and whose entries may be copies of others.      *)
MCEntry(priority, score) == KnowledgeEntry("vector", <<"d1">>, priority, score)

MCOtherAnswers ==
    {Failed, <<>>} \cup {<<MCEntry(p, r), KnowledgeEntry("own", <<"o">>, 0, 10)>> : p \in {0, 2}, r \in {4, 9}}

Symmetry == Permutations(Owners)
=============================================================================
