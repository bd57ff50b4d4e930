---------------------------- MODULE LoghubPipeline ----------------------------
(***************************************************************************)
(* scripts/loghub_pipeline.py up to the upsert: the lines of public log    *)
(* files are sorted into categories by keywords, and a small language      *)
(* model, asked in batches, fills the categories that are not yet full.    *)
(* The upsert of what is filed is in Playbook.                             *)
(*                                                                         *)
(* Categories are numbered in the order of KEYWORD_RULES; 0 is "NONE".     *)
(***************************************************************************)
EXTENDS Naturals, Sequences, SequencesExt

CONSTANTS
    LogTexts,        \* cleaned lines of 20 characters or more
    NumCats,
    MAX_PER_CAT,
    MAX_CANDIDATES,  \* lines kept for the language model
    BATCH_SIZE,
    MaxLogLines      \* bound: lines read

ASSUME LoghubAssumption ==
    /\ {NumCats, MAX_PER_CAT, BATCH_SIZE} \subseteq Nat \ {0}
    /\ {MAX_CANDIDATES, MaxLogLines} \subseteq Nat

VARIABLES
    keywordOf,    \* keyword_classify of each text
    keywordOnly,  \* --keyword-only
    phase,        \* "reading", "asking", "sorting" a batch, "filing", "filed"
    linesRead,
    hits,         \* kw_hits
    llmHits,      \* llm_hits
    candidates,   \* ambiguous, the batches not yet asked about
    needed,       \* need_cats
    modelBatch,   \* <<text, category>> of the batch that is being sorted
    filed,        \* the entries, [text, cat]
    said          \* history: <<text, category>> the language model has answered

logVars == <<keywordOf, keywordOnly, phase, linesRead, hits, llmHits, candidates,
             needed, modelBatch, filed, said>>

Cats == 1..NumCats

\* keyword_classify: the first rule of which a pattern matches, or none.
KeywordRules == [LogTexts -> 0..NumCats]

LogInit ==
    /\ keywordOf \in KeywordRules
    /\ keywordOnly \in BOOLEAN
    /\ phase = "reading"
    /\ linesRead = 0
    /\ hits = [c \in Cats |-> <<>>]
    /\ llmHits = [c \in Cats |-> <<>>]
    /\ candidates = <<>>
    /\ needed = {}
    /\ modelBatch = <<>>
    /\ filed = {}
    /\ said = {}

ReadHit(t) ==
    /\ phase = "reading"
    /\ linesRead < MaxLogLines
    /\ linesRead' = linesRead + 1
    /\ keywordOf[t] # 0
    /\ hits' = IF Len(hits[keywordOf[t]]) < MAX_PER_CAT
               THEN [hits EXCEPT ![keywordOf[t]] = Append(@, t)] ELSE hits
    /\ UNCHANGED <<keywordOf, keywordOnly, phase, llmHits, candidates, needed, modelBatch, filed, said>>

ReadAmbiguous(t) ==
    /\ phase = "reading"
    /\ linesRead < MaxLogLines
    /\ linesRead' = linesRead + 1
    /\ keywordOf[t] = 0
    /\ candidates' = IF ~keywordOnly /\ Len(candidates) < MAX_CANDIDATES
                     THEN Append(candidates, t) ELSE candidates
    /\ UNCHANGED <<keywordOf, keywordOnly, phase, hits, llmHits, needed, modelBatch, filed, said>>

Room(c) == Len(hits[c]) + Len(llmHits[c]) < MAX_PER_CAT
WithRoom == {c \in Cats : Room(c)}
Onward == IF WithRoom = {} \/ candidates = <<>> THEN "filing" ELSE "asking"

\* A data set that could not be downloaded is left out; one whose download was cut
\* off stays in the cache as it is, and its lines end early in every run.
EndOfData ==
    /\ phase = "reading"
    /\ needed' = WithRoom
    /\ phase' = Onward
    /\ UNCHANGED <<keywordOf, keywordOnly, linesRead, hits, llmHits, candidates, modelBatch, filed, said>>

\* Wrong variant: a reply that is too short is filled up from the left.
FilledFromLeft(reply, n) ==
    [i \in 1..n |-> IF i + Len(reply) > n THEN reply[i + Len(reply) - n] ELSE 0]

\* llm_classify_batch: one category per line, "NONE" behind the end of the reply
\* and for all lines when there is none.
Aligned(reply, n) == [i \in 1..n |-> IF i <= Len(reply) THEN reply[i] ELSE 0]

AskModel(reply) ==
    LET n == IF BATCH_SIZE < Len(candidates) THEN BATCH_SIZE ELSE Len(candidates)
        lines == SubSeq(candidates, 1, n)
    IN  /\ phase = "asking"
        /\ modelBatch' = [i \in 1..n |-> <<lines[i], Aligned(reply, n)[i]>>]
        /\ candidates' = SubSeq(candidates, n + 1, Len(candidates))
        /\ said' = said \cup {<<lines[i], reply[i]>> : i \in 1..n \cap DOMAIN reply}
        /\ phase' = "sorting"
        /\ UNCHANGED <<keywordOf, keywordOnly, linesRead, hits, llmHits, needed, filed>>

SortLine ==
    /\ phase = "sorting"
    /\ modelBatch # <<>>
    /\ LET text == Head(modelBatch)[1]
           cat == Head(modelBatch)[2]
       IN  llmHits' = IF cat \in needed /\ Room(cat)
                      THEN [llmHits EXCEPT ![cat] = Append(@, text)] ELSE llmHits
    /\ modelBatch' = Tail(modelBatch)
    /\ UNCHANGED <<keywordOf, keywordOnly, phase, linesRead, hits, candidates, needed, filed, said>>

\* It ends early when all categories are full.
EndBatch ==
    /\ phase = "sorting"
    /\ modelBatch = <<>>
    /\ needed' = needed \cap WithRoom
    /\ phase' = IF needed' = {} \/ candidates = <<>> THEN "filing" ELSE "asking"
    /\ UNCHANGED <<keywordOf, keywordOnly, linesRead, hits, llmHits, candidates, modelBatch, filed, said>>

Classified(t) == {c \in Cats : Contains(hits[c], t) \/ Contains(llmHits[c], t)}

\* Ids are sums of texts: the first category that a text was sorted into has it.
File ==
    /\ phase = "filing"
    /\ filed' = {[text |-> t, cat |-> CHOOSE c \in Classified(t) : \A d \in Classified(t) : c <= d] :
                    t \in {u \in LogTexts : Classified(u) # {}}}
    /\ phase' = "filed"
    /\ UNCHANGED <<keywordOf, keywordOnly, linesRead, hits, llmHits, candidates, needed, modelBatch, said>>

\* All replies of up to one category more than there are lines.
ModelReplies == UNION {[1..n -> 0..NumCats] : n \in 0..(BATCH_SIZE + 1)}

LogNext ==
    \/ \E t \in LogTexts : ReadHit(t) \/ ReadAmbiguous(t)
    \/ EndOfData
    \/ phase = "asking" /\ \E reply \in ModelReplies : AskModel(reply)
    \/ SortLine \/ EndBatch \/ File

LogSpec == LogInit /\ [][LogNext]_logVars

-----------------------------------------------------------------------------
LogTypeOK ==
    /\ phase \in {"reading", "asking", "sorting", "filing", "filed"}
    /\ needed \subseteq Cats
    /\ \A i \in DOMAIN candidates : candidates[i] \in LogTexts
    /\ \A i \in DOMAIN modelBatch : modelBatch[i] \in LogTexts \X (0..NumCats)
    /\ \A e \in filed : e.text \in LogTexts /\ e.cat \in Cats

\* No category gets more than MAX_PER_CAT lines, however keywords and batches share
\* them; a filed entry has the category of its keyword, or one that the language
\* model gave to this very line and not to its neighbour; and when a line that the
\* model could have sorted was not shown to it, all categories are full.
FiledAsClassified ==
    /\ \A c \in Cats : Len(hits[c]) + Len(llmHits[c]) <= MAX_PER_CAT
    /\ \A e \in filed : e.cat = keywordOf[e.text] \/
                        (keywordOf[e.text] = 0 /\ <<e.text, e.cat>> \in said)
    /\ phase = "filed" => candidates = <<>> \/ WithRoom = {}
=============================================================================
