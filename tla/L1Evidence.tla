------------------------------ MODULE L1Evidence ------------------------------
(***************************************************************************)
(* What a person is shown of an L1 answer of src/llm_engine.py: the vote   *)
(* of the entries within the threshold, the answer that is built of the    *)
(* chosen one, and the evidence that accompanies it to the approval        *)
(* message and the dashboard.  How the collection comes by its entries is  *)
(* in KnowledgeBase, which votes by the same rule.                         *)
(*                                                                         *)
(* A distance is in percent of _RAG_THRESHOLD.  An entry is named by its   *)
(* place in the result of the query, which is sorted by distance.          *)
(***************************************************************************)
EXTENDS Naturals, FiniteSets, Sequences

CONSTANTS
    EntryActions,    \* action_type of the entries; not all need be ActionTypes
    KnownActions,    \* ActionType
    Distances,
    MaxResults       \* bound: results of a query, n_results = 5 in the code

ASSUME EvidenceAssumption ==
    /\ "escalate_to_human" \in KnownActions
    /\ Distances \subseteq Nat
    /\ MaxResults \in Nat \ {0}

VARIABLES
    results,   \* of _query_l1
    voted      \* the answer with its evidence, or what analyze_error does instead

evidenceVars == <<results, voted>>

\* learned: "source" is "online_learning"; the other labels are wording.
L1Result == [action : EntryActions, dist : Distances, learned : BOOLEAN]

NotYet == [at |-> "none"]

EvidenceInit == results = <<>> /\ voted = NotYet

\* n_results entries, the nearest first, or none.
QueryL1(found) ==
    /\ \A i, j \in DOMAIN found : i < j => found[i].dist <= found[j].dist
    /\ results' = found
    /\ UNCHANGED voted

CandidatePlaces == {i \in DOMAIN results : results[i].dist <= 100}
Votes(a) == Cardinality({i \in CandidatePlaces : results[i].action = a})

\* Counter.most_common: of equal actions the one that was met first.
TopAction ==
    LET First(a) == CHOOSE i \in CandidatePlaces :
                       /\ results[i].action = a
                       /\ \A j \in CandidatePlaces : results[j].action = a => i <= j
        Met == {results[i].action : i \in CandidatePlaces}
    IN  CHOOSE a \in Met : \A b \in Met \ {a} :
            Votes(a) > Votes(b) \/ (Votes(a) = Votes(b) /\ First(a) < First(b))

\* Wrong variant: the nearest entry answers for the action that won.
NearestOfAll == CHOOSE i \in CandidatePlaces : \A j \in CandidatePlaces : i <= j

\* _ensemble_vote: the nearest entry of that action.  Its answer for none, the nearest
\* of all (1256-1257), is for entries without an action_type, which no writer stores.
Best ==
    LET its == {i \in CandidatePlaces : results[i].action = TopAction}
    IN  CHOOSE i \in its : \A j \in its : i <= j

\* _confidence_label of a distance: 3 is the highest.
Confidence(dist) ==
    IF dist <= 20 THEN 3 ELSE IF dist <= 50 THEN 2 ELSE IF dist <= 85 THEN 1 ELSE 0

\* _format_track_record: the counters of a learned entry, of any other nothing.
TrackRecord(e) == e.learned

\* _format_evidence: its head and a line for each candidate, the nearest first.
Evidence(best) ==
    [votes      |-> Votes(TopAction),
     of         |-> Cardinality(CandidatePlaces),
     confidence |-> Confidence(results[best].dist),
     lines      |-> [i \in CandidatePlaces |->
                       [marked |-> i = best, action |-> results[i].action,
                        record |-> TrackRecord(results[i])]]]

\* _build_response_from_meta
Built(best) ==
    [at       |-> "hit",
     doc      |-> best,
     action   |-> IF results[best].action \in KnownActions
                  THEN results[best].action ELSE "escalate_to_human",
     evidence |-> Evidence(best)]

\* analyze_error and, alike, analyze_errors_batch.
Analyze ==
    /\ voted = NotYet
    /\ voted' = IF results = <<>> THEN [at |-> "escalated"]
                ELSE IF CandidatePlaces = {} THEN [at |-> "L2"]
                ELSE Built(Best)
    /\ UNCHANGED results

Delivered ==
    /\ voted # NotYet
    /\ results' = <<>>
    /\ voted' = NotYet

EvidenceNext ==
    \/ /\ voted = NotYet /\ results = <<>>
       /\ \E n \in 1..MaxResults : \E found \in [1..n -> L1Result] : QueryL1(found)
    \/ Analyze
    \/ Delivered

EvidenceSpec == EvidenceInit /\ [][EvidenceNext]_evidenceVars

-----------------------------------------------------------------------------
EvidenceTypeOK ==
    /\ \A i \in DOMAIN results : results[i] \in L1Result
    /\ voted.at \in {"none", "hit", "escalated", "L2"}

\* What a person reads is what is done: one line of the evidence is marked, it is
\* the entry that answers (and whose counters the result will change), no
\* candidate of its action is nearer and no action has more lines, the answer
\* does what the line says or asks a person, the entries shown with a record are
\* those that have one, and the confidence is never higher than that of the
\* nearest line, which may be of another action.
EvidenceIsOfAnswer ==
    voted.at = "hit" =>
        LET e == voted.evidence
            Lines(a) == {i \in DOMAIN e.lines : e.lines[i].action = a}
            Marked == {i \in DOMAIN e.lines : e.lines[i].marked}
        IN  /\ Marked = {voted.doc}
            /\ voted.action \in {e.lines[voted.doc].action, "escalate_to_human"}
            /\ \A i \in Lines(e.lines[voted.doc].action) : results[voted.doc].dist <= results[i].dist
            /\ e.votes = Cardinality(Lines(e.lines[voted.doc].action))
            /\ \A i \in DOMAIN e.lines : Cardinality(Lines(e.lines[i].action)) <= e.votes
            /\ \A i \in DOMAIN e.lines :
                  /\ e.lines[i].record <=> results[i].learned
                  /\ results[i].dist = results[1].dist => e.confidence <= Confidence(results[i].dist)
=============================================================================
