-------------------------- MODULE ResolutionProofs ---------------------------
(***************************************************************************)
(* Proofs about what becomes of an error: the answer that is found for it  *)
(* with any configured providers and attempts, the command that is run with*)
(* any process table, and what people are told by any number of senders.   *)
(***************************************************************************)
EXTENDS Escalation, Execution, Notify, TLAPS

-----------------------------------------------------------------------------
(* Escalation                                                              *)

\* Groq is only talked to in cloud mode, and for something.
GroqInCloud == step \in {"groq", "groq_pause"} => GroqAvailable /\ task # "none"

\* What waits for its review is an unreviewed command that the fixed rules leave
\* open, and only a back end that judges is asked about it.
DraftIsOpen ==
    task = "review" =>
        /\ step \in {"groq", "groq_pause", "ollama"}
        /\ HasCommand(draft)
        /\ SettledVerdict(draft.arg) = "open"

EscInv ==
    /\ EscTypeOK
    /\ LocalStaysLocal
    /\ GroqInCloud
    /\ DraftIsOpen
    /\ ChosenByModelIsReviewed

-----------------------------------------------------------------------------
(* The operators that the steps are built from                             *)

LEMMA ResponseType ==
    ASSUME NEW source \in {"none", "L1_CACHE", "L2_LLM", "RULE"}, NEW action \in Actions,
           NEW arg \in Kinds \cup {"absent"}, NEW safe \in Safety
    PROVE  Response(source, action, arg, safe) \in Responses
  BY DEF Response, Responses

LEMMA CleanedType ==
    ASSUME NEW reply \in Replies
    PROVE  Cleaned(reply) \in Kinds
<1> DEFINE commands == {i \in DOMAIN reply.lines : reply.lines[i] # "prose"}
<1>1. reply.json \in {"none", "targeted"} /\ reply.lines \in Lines2
  BY DEF Replies
<1>2. CASE reply.lines = <<>>
  <2>1. commands = {}
    BY <1>2
  <2> QED
    BY <2>1, <1>1 DEF Cleaned, Kinds
<1>3. CASE \E a \in (Kinds \ {"empty"}) \cup {"prose"} : reply.lines = <<a>>
  <2> PICK a \in (Kinds \ {"empty"}) \cup {"prose"} : reply.lines = <<a>>
    BY <1>3
  <2>1. commands = IF a = "prose" THEN {} ELSE {1}
    OBVIOUS
  <2>2. (CHOOSE i \in {1} : \A j \in {1} : i <= j) = 1
    OBVIOUS
  <2> QED
    BY <2>1, <2>2, <1>1 DEF Cleaned, Kinds
<1>4. CASE \E b \in Kinds \ {"empty"} : reply.lines = <<"prose", b>>
  <2> PICK b \in Kinds \ {"empty"} : reply.lines = <<"prose", b>>
    BY <1>4
  <2>1. commands = {2}
    BY DEF Kinds
  <2>2. (CHOOSE i \in {2} : \A j \in {2} : i <= j) = 2
    OBVIOUS
  <2> QED
    BY <2>1, <2>2, <1>1 DEF Cleaned, Kinds
<1> QED
  BY <1>1, <1>2, <1>3, <1>4 DEF Lines2

\* What Answer and Review do to the state, for a response r.
LEMMA AnswerType ==
    ASSUME NEW r \in Responses, Answer(r)
    PROVE  /\ step' = "answered" /\ task' = "none" /\ attempt' \in Nat
           /\ draft' \in Responses /\ answer' = r
  BY DEF Answer, NoResponse, Response, Responses, Actions, Kinds, Safety

LEMMA SettledIsSafety ==
    ASSUME NEW kind
    PROVE  /\ SettledVerdict(kind) \in {"yes", "no", "open"}
           /\ kind = "pid1" => SettledVerdict(kind) = "no"
  BY DEF SettledVerdict

LEMMA MarkedType ==
    ASSUME NEW r \in Responses, NEW v \in Safety
    PROVE  /\ [r EXCEPT !.safe = v] \in Responses
           /\ [r EXCEPT !.safe = v].safe = v
           /\ [r EXCEPT !.safe = v].arg = r.arg
           /\ [r EXCEPT !.safe = v].action = r.action
           /\ [r EXCEPT !.safe = v].source = r.source
  BY DEF Responses

-----------------------------------------------------------------------------
(* The three ways in which a step goes on                                  *)

\* The part of every step that none of them decides: the configuration stays,
\* and only a process that may use Groq has asked it.
Bystanders ==
    /\ UNCHANGED setup
    /\ asked' \in BOOLEAN
    /\ asked' => asked \/ GroqAvailable

LEMMA BystandersKeep ==
    ASSUME EscInv, Bystanders
    PROVE  /\ provider' \in Providers /\ keySet' \in BOOLEAN /\ ipex' \in BOOLEAN
           /\ asked' \in BOOLEAN
           /\ LocalStaysLocal'
           /\ GroqAvailable' = GroqAvailable
  BY DEF EscInv, EscTypeOK, Bystanders, setup, LocalStaysLocal, Announced, Cloud, GroqAvailable

\* A step that asks the next back end.  Only a review goes on as a review.
LEMMA AskKeeps ==
    ASSUME EscInv, Bystanders,
           NEW next \in {"groq", "health", "ollama", "ipex", "rules"},
           NEW what \in {"none", "diagnose", "propose", "review"},
           Ask(next, what), verdict' = verdict,
           next = "groq" => GroqAvailable /\ what # "none",
           what = "review" => task = "review" /\ next = "ollama"
    PROVE  EscInv'
<1>1. EscTypeOK'
  BY BystandersKeep DEF EscInv, EscTypeOK, Ask
<1>2. GroqInCloud' /\ LocalStaysLocal'
  BY BystandersKeep DEF GroqInCloud, Ask
<1>3. DraftIsOpen'
  BY DEF EscInv, DraftIsOpen, Ask, HasCommand, SettledVerdict
<1>4. ChosenByModelIsReviewed'
  BY DEF Ask, ChosenByModelIsReviewed
<1> QED
  BY <1>1, <1>2, <1>3, <1>4 DEF EscInv

\* What ChosenByModelIsReviewed asks of an answer r after the verdict v.
Passable(r, v) ==
    r.source = "L2_LLM" /\ HasCommand(r) =>
        /\ r.safe # "unreviewed"
        /\ r.arg = "pid1" => r.safe = "no"
        /\ SettledVerdict(r.arg) = "open" /\ r.safe = "yes" => v = "yes"

LEMMA AnswerKeeps ==
    ASSUME EscInv, Bystanders, NEW r \in Responses, Answer(r),
           verdict' \in {"none"} \cup Safety, Passable(r, verdict')
    PROVE  EscInv'
<1>1. EscTypeOK'
  BY BystandersKeep, AnswerType DEF EscInv, EscTypeOK
<1>2. GroqInCloud' /\ DraftIsOpen' /\ LocalStaysLocal'
  BY BystandersKeep, AnswerType DEF GroqInCloud, DraftIsOpen
<1>3. ChosenByModelIsReviewed'
  BY AnswerType DEF ChosenByModelIsReviewed, Passable, HasCommand, SettledVerdict
<1> QED
  BY <1>1, <1>2, <1>3 DEF EscInv

\* A step that hands an unreviewed answer to the review.
LEMMA ReviewKeeps ==
    ASSUME EscInv, Bystanders, NEW r \in Responses, Review(r)
    PROVE  EscInv'
<1>1. CASE ~HasCommand(r)
  <2>1. Answer(r) /\ verdict' = verdict
    BY <1>1 DEF Review
  <2> QED
    BY <1>1, <2>1, AnswerKeeps DEF Passable, EscInv, EscTypeOK
<1>2. CASE HasCommand(r) /\ SettledVerdict(r.arg) # "open"
  <2> DEFINE q == [r EXCEPT !.safe = SettledVerdict(r.arg)]
  <2>1. Answer(q) /\ verdict' = verdict
    BY <1>2 DEF Review
  <2>2. SettledVerdict(r.arg) \in Safety
    BY <1>2, SettledIsSafety DEF Safety
  <2>3. /\ q \in Responses /\ q.safe = SettledVerdict(r.arg) /\ q.arg = r.arg
    BY <2>2, MarkedType
  <2>4. Passable(q, verdict')
    BY <1>2, <2>3, SettledIsSafety DEF Passable
  <2> QED
    BY <2>1, <2>3, <2>4, AnswerKeeps DEF EscInv, EscTypeOK
<1>3. CASE HasCommand(r) /\ SettledVerdict(r.arg) = "open"
  <2>1. /\ step' = IF GroqAvailable THEN "groq" ELSE "ollama"
        /\ task' = "review" /\ attempt' = 1 /\ draft' = r
        /\ answer' = answer /\ verdict' = verdict
    BY <1>3 DEF Review
  <2>2. EscTypeOK'
    BY <2>1, BystandersKeep DEF EscInv, EscTypeOK
  <2>3. GroqInCloud' /\ LocalStaysLocal'
    BY <2>1, BystandersKeep DEF GroqInCloud
  <2>4. DraftIsOpen'
    BY <1>3, <2>1 DEF DraftIsOpen, HasCommand, SettledVerdict
  <2>5. ChosenByModelIsReviewed'
    BY <2>1 DEF ChosenByModelIsReviewed
  <2> QED
    BY <2>2, <2>3, <2>4, <2>5 DEF EscInv
<1> QED
  BY <1>1, <1>2, <1>3

\* A step that ends the review of the draft with v.
LEMMA JudgedKeeps ==
    ASSUME EscInv, Bystanders, task = "review", NEW v \in {"yes", "no", "failed"},
           Judged(v), verdict' \in {"none"} \cup Safety, v = "yes" => verdict' = "yes"
    PROVE  EscInv'
<1> DEFINE q == [draft EXCEPT !.safe = v]
<1>1. draft \in Responses /\ HasCommand(draft) /\ SettledVerdict(draft.arg) = "open"
  BY DEF EscInv, EscTypeOK, DraftIsOpen
<1>2. v \in Safety
  BY DEF Safety
<1>3. q \in Responses /\ q.safe = v /\ q.arg = draft.arg
  BY <1>1, <1>2, MarkedType
<1>4. Passable(q, verdict')
  BY <1>1, <1>3, SettledIsSafety DEF Passable
<1> QED
  BY <1>3, <1>4, AnswerKeeps DEF Judged

-----------------------------------------------------------------------------
(* The invariant                                                           *)

LEMMA NoResponseType == NoResponse \in Responses
  BY DEF NoResponse, Response, Responses, Actions, Kinds, Safety

LEMMA EscInitInv == EscInit => EscInv
<1> SUFFICES ASSUME EscInit PROVE EscInv
  OBVIOUS
<1>1. EscTypeOK
  BY NoResponseType DEF EscInit, EscTypeOK
<1>2. LocalStaysLocal /\ GroqInCloud /\ DraftIsOpen /\ ChosenByModelIsReviewed
  BY DEF EscInit, LocalStaysLocal, Announced, GroqInCloud, DraftIsOpen, ChosenByModelIsReviewed
<1> QED
  BY <1>1, <1>2 DEF EscInv

\* Steps that only move between the stages of a request.
LEMMA MovesKeep ==
    ASSUME EscInv,
           \/ \E e \in {"analyze", "batch"} : Begin(e)
           \/ GroqPauses \/ GroqRetries \/ GroqAnswersNull
           \/ OllamaPauses \/ OllamaRetries \/ Deliver
    PROVE  EscInv'
<1> SUFFICES /\ step' \in {"idle", "analyze", "batch", "groq", "groq_pause", "ollama",
                           "ollama_pause", "raised"}
             /\ Bystanders /\ attempt' \in Nat
             /\ task' \in {task, "none"} /\ draft' \in {draft, NoResponse}
             /\ answer' \in {answer, NoResponse} /\ verdict' \in {verdict, "none"}
             /\ GroqInCloud' /\ DraftIsOpen'
  BY BystandersKeep, NoResponseType DEF EscInv, EscTypeOK, ChosenByModelIsReviewed
<1> USE DEF EscInv, EscTypeOK, Bystanders, GroqInCloud, DraftIsOpen, GroqAvailable, Cloud, setup
<1>2. CASE \E e \in {"analyze", "batch"} : Begin(e)
  BY <1>2 DEF Begin, HasCommand, SettledVerdict
<1>3. CASE GroqPauses
  BY <1>3 DEF GroqPauses, HasCommand, SettledVerdict
<1>4. CASE GroqRetries
  BY <1>4 DEF GroqRetries, NextAttempt, HasCommand, SettledVerdict
<1>5. CASE GroqAnswersNull
  BY <1>5 DEF GroqAnswersNull
<1>6. CASE OllamaPauses
  BY <1>6 DEF OllamaPauses
<1>7. CASE OllamaRetries
  BY <1>7 DEF OllamaRetries, NextAttempt, HasCommand, SettledVerdict
<1>8. CASE Deliver
  BY <1>8 DEF Deliver
<1> QED
  BY <1>2, <1>3, <1>4, <1>5, <1>6, <1>7, <1>8

\* Steps of the L1 lookup and of the chain's ends.
LEMMA LookupKeeps ==
    ASSUME EscInv,
           \/ NothingFound
           \/ \E h \in PlaybookHits : Hit(h[1], h[2])
           \/ Miss
    PROVE  EscInv'
<1>1. CASE NothingFound
  <2> DEFINE r == Response("L1_CACHE", "escalate", "absent", "unreviewed")
  <2>1. r \in Responses /\ Answer(r) /\ Bystanders /\ verdict' = verdict
    BY <1>1, ResponseType DEF NothingFound, Bystanders, EscInv, EscTypeOK, Actions, Safety
  <2> QED
    BY <2>1, AnswerKeeps DEF Passable, Response, EscInv, EscTypeOK
<1>2. ASSUME NEW h \in PlaybookHits, Hit(h[1], h[2]) PROVE EscInv'
  <2> DEFINE r == Response("L1_CACHE", h[1], h[2], "unreviewed")
             q == [r EXCEPT !.safe = "yes"]
  <2>1. h[1] \in Actions /\ h[2] \in Kinds \cup {"absent"}
    BY DEF PlaybookHits, Actions, Kinds
  <2>2. r \in Responses
    BY <2>1, ResponseType DEF Safety
  <2>3. Bystanders /\ r.source = "L1_CACHE"
    BY <1>2 DEF Hit, Bystanders, EscInv, EscTypeOK, Response
  <2>4. q \in Responses /\ q.source = "L1_CACHE"
    BY <2>2, <2>3, MarkedType DEF Safety
  <2>5. CASE (Answer(r) \/ Answer(q)) /\ verdict' = verdict
    BY <2>2, <2>3, <2>4, <2>5, AnswerKeeps DEF Passable, EscInv, EscTypeOK
  <2>6. CASE Review(r)
    BY <2>2, <2>3, <2>6, ReviewKeeps
  <2> QED
    BY <1>2, <2>5, <2>6 DEF Hit
<1>3. CASE Miss
  <2>1. Bystanders /\ verdict' = verdict
    BY <1>3 DEF Miss, Bystanders, EscInv, EscTypeOK
  <2>2. CASE GroqAvailable /\ Ask("groq", "diagnose")
    BY <2>1, <2>2, AskKeeps
  <2>3. CASE Ask("health", "propose")
    BY <2>1, <2>3, AskKeeps
  <2> QED
    BY <1>3, <2>2, <2>3 DEF Miss
<1> QED
  BY <1>1, <1>2, <1>3

\* A reply with a command goes to the review, one without to the next back end.
LEMMA ProposedKeeps ==
    ASSUME EscInv, Bystanders, NEW reply \in Replies, NEW giveUp,
           Proposed(reply, giveUp), giveUp /\ verdict' = verdict => EscInv'
    PROVE  EscInv'
<1> DEFINE r == Response("L2_LLM", "llm_command", Cleaned(reply), "unreviewed")
<1>1. r \in Responses
  BY CleanedType, ResponseType DEF Actions, Safety
<1> QED
  BY <1>1, ReviewKeeps DEF Proposed

\* Giving up on Groq asks for the next thing.
LEMMA GroqGivesUpKeeps ==
    ASSUME EscInv, Bystanders, step = "groq", GroqGivesUp, verdict' = verdict,
           task \in {"diagnose", "propose", "review"}
    PROVE  EscInv'
<1>1. GroqAvailable
  BY DEF EscInv, GroqInCloud
<1>2. CASE task = "diagnose"
  BY <1>1, <1>2, AskKeeps DEF GroqGivesUp
<1>3. CASE task = "propose"
  BY <1>3, AskKeeps DEF GroqGivesUp
<1>4. CASE task = "review"
  BY <1>4, AskKeeps DEF GroqGivesUp
<1> QED
  BY <1>2, <1>3, <1>4

LEMMA GroqKeeps ==
    ASSUME EscInv,
           \/ GroqFails
           \/ \E d \in Diagnoses \cup {Unparsed} : Diagnosed(d)
           \/ \E r \in Replies : GroqProposes(r)
           \/ \E v \in {"yes", "no"} : GroqJudges(v)
    PROVE  EscInv'
<1>1. CASE GroqFails
  <2>1. Bystanders /\ verdict' = verdict /\ step = "groq" /\ GroqGivesUp
    BY <1>1 DEF GroqFails, Bystanders, EscInv, GroqInCloud
  <2>2. task \in {"diagnose", "propose", "review"}
    BY <2>1 DEF EscInv, EscTypeOK, GroqInCloud
  <2> QED
    BY <2>1, <2>2, GroqGivesUpKeeps
<1>2. ASSUME NEW d \in Diagnoses \cup {Unparsed}, Diagnosed(d) PROVE EscInv'
  <2>1. Bystanders /\ GroqAvailable
    BY <1>2 DEF Diagnosed, Bystanders, EscInv, GroqInCloud
  <2>2. CASE Routable(d)
    <3> DEFINE arg == IF d.target = "none" THEN "absent" ELSE "targeted"
               r == Response("L2_LLM", d.action, arg, "unreviewed")
    <3>1. d.action \in Actions /\ arg \in Kinds \cup {"absent"}
      BY <2>2 DEF Routable, Actions, Kinds
    <3>2. r \in Responses
      BY <3>1, ResponseType DEF Safety
    <3> QED
      BY <1>2, <2>1, <2>2, <3>2, ReviewKeeps DEF Diagnosed
  <2>3. CASE ~Routable(d)
    BY <1>2, <2>1, <2>3, AskKeeps DEF Diagnosed
  <2> QED
    BY <2>2, <2>3
<1>3. ASSUME NEW reply \in Replies, GroqProposes(reply) PROVE EscInv'
  <2>1. Bystanders /\ step = "groq" /\ task = "propose" /\ Proposed(reply, GroqGivesUp)
    BY <1>3 DEF GroqProposes, Bystanders, EscInv, GroqInCloud
  <2>2. GroqGivesUp /\ verdict' = verdict => EscInv'
    BY <2>1, GroqGivesUpKeeps
  <2> QED
    BY <2>1, <2>2, ProposedKeeps
<1>4. ASSUME NEW v \in {"yes", "no"}, GroqJudges(v) PROVE EscInv'
  <2>1. Bystanders /\ task = "review" /\ Judged(v) /\ verdict' = v
    BY <1>4 DEF GroqJudges, Bystanders, EscInv, GroqInCloud
  <2> QED
    BY <2>1, JudgedKeeps DEF Safety
<1> QED
  BY <1>1, <1>2, <1>3, <1>4

LEMMA LocalKeeps ==
    ASSUME EscInv,
           \/ HealthCheckFails \/ OllamaIsUp \/ OllamaFails \/ IpexFails \/ NoRuleMatches
           \/ \E r \in Replies : OllamaProposes(r) \/ IpexProposes(r)
           \/ \E v \in {"yes", "no"} : OllamaJudges(v)
           \/ \E k \in {"read_only", "targeted"} : RuleMatches(k)
    PROVE  EscInv'
<1>1. CASE HealthCheckFails
  <2>1. Bystanders /\ verdict' = verdict /\ step = "health"
    BY <1>1 DEF HealthCheckFails, Bystanders, EscInv, EscTypeOK
  <2>2. CASE Ask("ipex", "propose")
    BY <2>1, <2>2, AskKeeps
  <2>3. CASE attempt' = attempt + 1 /\ UNCHANGED <<step, task, draft, answer>>
    BY <1>1, <2>1, <2>3, BystandersKeep
       DEF EscInv, EscTypeOK, GroqInCloud, DraftIsOpen, ChosenByModelIsReviewed
  <2> QED
    BY <1>1, <2>2, <2>3 DEF HealthCheckFails
<1>2. CASE OllamaIsUp
  <2>1. Bystanders /\ verdict' = verdict /\ Ask("ollama", "propose")
    BY <1>2 DEF OllamaIsUp, Bystanders, EscInv, EscTypeOK
  <2> QED
    BY <2>1, AskKeeps
<1>3. CASE OllamaFails
  <2>1. Bystanders /\ verdict' = verdict /\ verdict' \in {"none"} \cup Safety
    BY <1>3 DEF OllamaFails, Bystanders, EscInv, EscTypeOK
  <2>2. CASE task = "review" /\ Judged("failed")
    BY <2>1, <2>2, JudgedKeeps
  <2>3. CASE Ask("ipex", "propose")
    BY <2>1, <2>3, AskKeeps
  <2> QED
    BY <1>3, <2>2, <2>3 DEF OllamaFails, UnavailableReview
<1>4. CASE IpexFails
  <2>1. Bystanders /\ verdict' = verdict /\ Ask("rules", "none")
    BY <1>4 DEF IpexFails, Bystanders, EscInv, EscTypeOK
  <2> QED
    BY <2>1, AskKeeps
<1>5. CASE NoRuleMatches
  <2> DEFINE r == Response("L2_LLM", "escalate", "absent", "unreviewed")
  <2>1. Bystanders /\ verdict' = verdict /\ Answer(r) /\ r \in Responses
    BY <1>5, ResponseType
       DEF NoRuleMatches, Bystanders, EscInv, EscTypeOK, Actions, Safety
  <2>2. Passable(r, verdict')
    BY DEF Passable, HasCommand, Response
  <2> QED
    BY <2>1, <2>2, AnswerKeeps DEF EscInv, EscTypeOK
<1>6. ASSUME NEW reply \in Replies, OllamaProposes(reply) PROVE EscInv'
  <2>1. Bystanders /\ Proposed(reply, Ask("ipex", "propose"))
    BY <1>6 DEF OllamaProposes, Bystanders, EscInv, EscTypeOK
  <2>2. Ask("ipex", "propose") /\ verdict' = verdict => EscInv'
    BY <2>1, AskKeeps
  <2> QED
    BY <2>1, <2>2, ProposedKeeps
<1>7. ASSUME NEW reply \in Replies, IpexProposes(reply) PROVE EscInv'
  <2> DEFINE r == Response("L2_LLM", "llm_command", Cleaned(reply), "unreviewed")
  <2>1. r \in Responses
    BY CleanedType, ResponseType DEF Actions, Safety
  <2>2. Bystanders /\ Review(r)
    BY <1>7 DEF IpexProposes, Bystanders, EscInv, EscTypeOK
  <2> QED
    BY <2>1, <2>2, ReviewKeeps
<1>8. ASSUME NEW v \in {"yes", "no"}, OllamaJudges(v) PROVE EscInv'
  <2>1. Bystanders /\ task = "review" /\ Judged(v) /\ verdict' = v
    BY <1>8 DEF OllamaJudges, Bystanders, EscInv, EscTypeOK
  <2> QED
    BY <2>1, JudgedKeeps DEF Safety
<1>9. ASSUME NEW k \in {"read_only", "targeted"}, RuleMatches(k) PROVE EscInv'
  <2> DEFINE r == Response("RULE", "rule_command", k, "unreviewed")
  <2>1. Bystanders /\ verdict' = verdict /\ Answer(r)
    BY <1>9 DEF RuleMatches, Bystanders, EscInv, EscTypeOK
  <2>2. r \in Responses /\ Passable(r, verdict')
    BY ResponseType DEF Passable, Response, Actions, Safety, Kinds
  <2> QED
    BY <2>1, <2>2, AnswerKeeps DEF EscInv, EscTypeOK
<1> QED
  BY <1>1, <1>2, <1>3, <1>4, <1>5, <1>6, <1>7, <1>8, <1>9

LEMMA EscNextInv == EscInv /\ [EscNext]_escVars => EscInv'
<1> SUFFICES ASSUME EscInv, [EscNext]_escVars PROVE EscInv'
  OBVIOUS
<1>1. CASE EscNext
  BY <1>1, MovesKeep, LookupKeeps, GroqKeeps, LocalKeeps DEF EscNext, Resolve
<1>2. CASE UNCHANGED escVars
  <2>1. Bystanders
    BY <1>2 DEF escVars, setup, Bystanders, EscInv, EscTypeOK
  <2>2. GroqInCloud' /\ DraftIsOpen'
    BY <1>2, <2>1, BystandersKeep
       DEF escVars, EscInv, GroqInCloud, DraftIsOpen, HasCommand, SettledVerdict
  <2>3. ChosenByModelIsReviewed'
    BY <1>2 DEF escVars, EscInv, HasCommand, SettledVerdict, ChosenByModelIsReviewed
  <2> QED
    BY <1>2, <2>1, <2>2, <2>3, BystandersKeep DEF escVars, EscInv, EscTypeOK
<1> QED
  BY <1>1, <1>2

-----------------------------------------------------------------------------
\* Every state of a resolution satisfies the invariant; the theorems follow.
LEMMA EscInvariant == EscSpec => []EscInv
  BY EscInitInv, EscNextInv, PTL DEF EscSpec

\* The type invariant of the resolution.
THEOREM EscalationTypeCorrect == EscSpec => []EscTypeOK
<1>1. EscInv => EscTypeOK
  BY DEF EscInv
<1> QED
  BY <1>1, EscInvariant, PTL

\* resolve_llm_provider and _is_groq_available keep a process in local mode from
\* sending anything to Groq, whatever its environment holds.
THEOREM LocalModeIsLocal == EscSpec => []LocalStaysLocal
<1>1. EscInv => LocalStaysLocal
  BY DEF EscInv
<1> QED
  BY <1>1, EscInvariant, PTL

\* No path through the fallback chain and its reviews lets a model's command
\* out as passed unless a reviewer or a fixed rule passed it.
THEOREM ModelCommandsAreReviewed == EscSpec => []ChosenByModelIsReviewed
<1>1. EscInv => ChosenByModelIsReviewed
  BY DEF EscInv
<1> QED
  BY <1>1, EscInvariant, PTL

\* Both at once: the property of the answers of the engine.
THEOREM AnswersSafe == EscSpec => []AnswersAreSafe
<1>1. EscInv => AnswersAreSafe
  BY DEF EscInv, AnswersAreSafe
<1> QED
  BY <1>1, EscInvariant, PTL

-----------------------------------------------------------------------------
(* Execution                                                               *)

SafeProcess(p) == procs[p].comm \notin ProtectedNames

\* The command that is to run signals no protected process but one that changed since
\* its check or that its name only fits, and the service or the deployment that it names
\* is unprotected.
Harmless(c) ==
    /\ \A p \in Pids \ young :
          p \in Matched(c) => SafeProcess(p) \/ KindOf(c, p) = "fitting"
    /\ c.op = "systemctl" => c.arg = "status" \/ SafeName(c.target)
    /\ c.op = "kubectl" => SafeName(c.target)

\* What a command names, the request has named, or the target app stands in for it.
Named(c) ==
    /\ c.op \in {"systemctl", "kubectl"} => c.target \in {request.target, k8s_target_app}
    /\ c.op = "nginx" => request.target = "nginx"

ExecInv ==
    /\ procs = [p \in Pids |-> procs[p]]
    /\ young \subseteq Pids
    /\ stage \in {"idle", "given", "approval", "approved", "rollback", "verify", "done"}
    /\ outcome \in {"none", "SUCCESS", "FAILURE", "IMPOSSIBLE"}
    /\ stage \in {"idle", "given", "done"} => young = {}
    /\ stage # "done" => outcome = "none" /\ \A h \in touched : ~h.undo
    /\ stage \notin {"idle", "done"} => Named(act) /\ (IsLlm => act = request)
    /\ stage \in {"approval", "approved"} => Harmless(act)
    /\ stage = "verify" /\ act.op = "kubectl" => SafeName(act.target)
    /\ ExecutionIsSafe

\* No command is under way.
LEMMA ExecInvInit == ExecInit => ExecInv
BY DEF ExecInit, ExecInv, ExecutionIsSafe, ProtectedUntouched, UndoneIsFailed

\* What commands there are.
LEMMA LlmCommandIs ==
    ASSUME NEW c \in LlmCommands
    PROVE  /\ c.op \in {"systemctl", "pkill", "kill", "fuser", "nginx", "ulimit", "reader", "malformed"}
           /\ c.op = "pkill" => c.arg \in {"-x", "-f"}
           /\ c.op = "nginx" => c.target = "nginx"
<1>1. \/ c \in [op : {"systemctl"}, arg : {"restart", "status"}, target : Names \cup {Odd}]
      \/ c \in [op : {"pkill"}, arg : {"-x", "-f"}, target : Names \cup {Odd}]
      \/ c \in [op : {"kill"}, arg : {"-TERM"}, target : Pids]
      \/ c \in [op : {"fuser"}, arg : {"-k"}, target : {Odd}]
      \/ c \in [op : {"nginx"}, arg : {"-s", "-t"}, target : {"nginx"}]
      \/ c \in [op : {"ulimit", "reader", "malformed"}, arg : {""}, target : {Odd}]
  BY Zenon DEF LlmCommands
<1>2. CASE c \in [op : {"systemctl"}, arg : {"restart", "status"}, target : Names \cup {Odd}]
  BY <1>2
<1>3. CASE c \in [op : {"pkill"}, arg : {"-x", "-f"}, target : Names \cup {Odd}]
  BY <1>3
<1>4. CASE c \in [op : {"kill"}, arg : {"-TERM"}, target : Pids]
  BY <1>4
<1>5. CASE c \in [op : {"fuser"}, arg : {"-k"}, target : {Odd}]
  BY <1>5
<1>6. CASE c \in [op : {"nginx"}, arg : {"-s", "-t"}, target : {"nginx"}]
  BY <1>6
<1>7. CASE c \in [op : {"ulimit", "reader", "malformed"}, arg : {""}, target : {Odd}]
  BY <1>7
<1> QED
  BY <1>1, <1>2, <1>3, <1>4, <1>5, <1>6, <1>7, Zenon

LEMMA StructuredIs ==
    ASSUME NEW c \in Structured
    PROVE  c.op \in {"restart_service", "kill_process", "clear_memory"}
<1>1. \/ c \in [op : {"restart_service", "kill_process"}, arg : {""}, target : Names \cup {Odd}]
      \/ c = Command("clear_memory", "", Odd)
  BY DEF Structured
<1>2. CASE c \in [op : {"restart_service", "kill_process"}, arg : {""}, target : Names \cup {Odd}]
  BY <1>2
<1>3. CASE c = Command("clear_memory", "", Odd)
  BY <1>3 DEF Command
<1> QED
  BY <1>1, <1>2, <1>3

\* What the check of a command finds, process by process.
LEMMA MatchedIs ==
    ASSUME NEW c, NEW p
    PROVE  p \in Matched(c) <=>
             /\ p \in Pids
             /\ Alive(p)
             /\ \/ c.op = "kill" /\ p = c.target
                \/ c.op = "pkill" /\ c.arg = "-x" /\ FitsName(c.target, procs[p].comm)
                \/ c.op = "pkill" /\ c.arg = "-f" /\ FitsName(c.target, procs[p].pattern)
                \/ c.op = "fuser" /\ procs[p].bound
BY DEF Matched

\* An admitted command is harmless at the time of its check.
LEMMA AdmittedIsHarmless ==
    ASSUME NEW c \in LlmCommands, Admitted(c)
    PROVE  Harmless(c)
<1>1. /\ c.op \in {"systemctl", "pkill", "kill", "fuser", "nginx", "ulimit", "reader", "malformed"}
      /\ c.op = "pkill" => c.arg \in {"-x", "-f"}
  BY LlmCommandIs
<1>2. CASE c.op = "kill"
  <2>1. ~Guarded(c.target)
    BY <1>2 DEF Admitted
  <2> QED
    BY <1>2, <2>1, MatchedIs DEF Harmless, SafeProcess, Guarded
<1>3. CASE c.op = "pkill" /\ c.arg = "-x"
  <2>1. SafeName(c.target)
    BY <1>3 DEF Admitted
  <2>2. ASSUME NEW p \in Pids
        PROVE  SafeProcess(p) \/ KindOf(c, p) = "fitting"
    BY <1>3, <2>1 DEF SafeProcess, SafeName, KindOf
  <2> QED
    BY <1>3, <2>1, <2>2 DEF Harmless
<1>4. CASE (c.op = "pkill" /\ c.arg = "-f") \/ c.op = "fuser"
  <2>1. ListedHarmless(c)
    BY <1>4 DEF Admitted
  <2> QED
    BY <1>4, <2>1, MatchedIs DEF Harmless, SafeProcess, ListedHarmless, Guarded
<1>5. CASE c.op = "systemctl"
  <2>1. c.arg = "status" \/ SafeName(c.target)
    BY <1>5 DEF Admitted
  <2> QED
    BY <1>5, <2>1, MatchedIs DEF Harmless
<1>6. CASE c.op \notin {"kill", "pkill", "fuser", "systemctl"}
  BY <1>1, <1>6, MatchedIs DEF Harmless
<1> QED
  BY <1>1, <1>2, <1>3, <1>4, <1>5, <1>6

\* A harmless command touches nothing protected that the code asks the list about.
LEMMA HarmlessTouches ==
    ASSUME NEW c, Harmless(c), NEW undo, NEW h \in Touches(c, undo)
    PROVE  /\ h.undo = undo
           /\ h.name \in ProtectedNames => Unasked(h)
<1>1. CASE \E p \in Matched(c) : h = Touch(KindOf(c, p), procs[p].comm, undo, p \in young)
  <2>1. PICK p \in Matched(c) : h = Touch(KindOf(c, p), procs[p].comm, undo, p \in young)
    BY <1>1
  <2>2. p \in Pids
    BY <2>1, MatchedIs
  <2>3. /\ h.undo = undo
        /\ h.late = (p \in young)
        /\ h.kind = KindOf(c, p)
        /\ h.name = procs[p].comm
    BY <2>1 DEF Touch
  <2>4. CASE p \in young
    BY <2>3, <2>4 DEF Unasked
  <2>5. CASE p \notin young
    <3>1. SafeProcess(p) \/ KindOf(c, p) = "fitting"
      BY <2>1, <2>2, <2>5 DEF Harmless
    <3> QED
      BY <2>3, <3>1 DEF SafeProcess, Unasked
  <2> QED
    BY <2>4, <2>5
<1>2. CASE c.op = "systemctl" /\ c.arg # "status" /\ h = Touch("unit", c.target, undo, FALSE)
  BY <1>2 DEF Touch, Harmless, SafeName
<1>3. CASE c.op = "nginx" /\ h = Touch("reload", "nginx", undo, FALSE)
  BY <1>3 DEF Touch, Unasked
<1>4. CASE c.op = "docker" /\ h = Touch("container", c.target, undo, FALSE)
  BY <1>4 DEF Touch, Unasked
<1>5. CASE c.op = "kubectl" /\ h = Touch("deployment", c.target, undo, FALSE)
  BY <1>5 DEF Touch, Harmless, SafeName
<1> QED
  BY <1>1, <1>2, <1>3, <1>4, <1>5 DEF Touches

\* Running a harmless command keeps what holds of everything that is touched.
LEMMA EffectKeeps ==
    ASSUME ExecInv, stage = "approved", Effect(act) \/ NoEffect
    PROVE  /\ \A h \in touched' : ~h.undo
           /\ \A h \in touched' : h.name \in ProtectedNames => Unasked(h)
           /\ procs' = [p \in Pids |-> procs'[p]]
<1>1. Harmless(act) /\ \A h \in touched : ~h.undo /\ (h.name \in ProtectedNames => Unasked(h))
  BY DEF ExecInv, ExecutionIsSafe, ProtectedUntouched
<1>2. \A h \in Touches(act, FALSE) : ~h.undo /\ (h.name \in ProtectedNames => Unasked(h))
  BY <1>1, HarmlessTouches
<1>3. CASE Effect(act)
  BY <1>1, <1>2, <1>3 DEF Effect, Ended, ExecInv
<1>4. CASE NoEffect
  BY <1>1, <1>4 DEF NoEffect, ExecInv
<1> QED
  BY <1>3, <1>4

\* An execution that ends without having undone anything is safe.
LEMMA EndingKeeps ==
    ASSUME ExecInv, NEW category \in {"SUCCESS", "FAILURE", "IMPOSSIBLE"}, Finish(category),
           \A h \in touched' : ~h.undo /\ (h.name \in ProtectedNames => Unasked(h)),
           procs' = [p \in Pids |-> procs'[p]]
    PROVE  ExecInv'
BY DEF ExecInv, Finish, ExecutionIsSafe, ProtectedUntouched, UndoneIsFailed

\* The same when it has touched nothing in this step.
LEMMA EndingQuietly ==
    ASSUME ExecInv, stage # "done", NEW category \in {"SUCCESS", "FAILURE", "IMPOSSIBLE"},
           Finish(category), NoEffect
    PROVE  ExecInv'
<1>1. \A h \in touched' : ~h.undo /\ (h.name \in ProtectedNames => Unasked(h))
  BY DEF ExecInv, NoEffect, ExecutionIsSafe, ProtectedUntouched
<1>2. procs' = [p \in Pids |-> procs'[p]]
  BY DEF ExecInv, NoEffect
<1> QED
  BY <1>1, <1>2, EndingKeeps

\* The last step of a failed one, which undoes or stops what was named.
LEMMA UndoingKeeps ==
    ASSUME ExecInv, stage # "done", Finish("FAILURE"), UNCHANGED <<procs, request>>,
           touched \subseteq touched',
           \A h \in touched' \ touched :
              h.name \notin ProtectedNames /\ h.name \in {request.target, k8s_target_app}
    PROVE  ExecInv'
BY DEF ExecInv, Finish, ExecutionIsSafe, ProtectedUntouched, UndoneIsFailed

\* Every step of an execution, and every change of the process table, keeps it.
LEMMA ExecInvStep == ExecInv /\ ExecNext => ExecInv'
<1> SUFFICES ASSUME ExecInv, ExecNext PROVE ExecInv'
  OBVIOUS
<1> USE DEF Proceed
<1>1. ASSUME NEW p \in Pids, ProcessChanges(p) PROVE ExecInv'
  <2>1. /\ \A q \in Pids : q # p => procs'[q] = procs[q]
        /\ procs' = [q \in Pids |-> procs'[q]]
        /\ UNCHANGED <<config, stage, request, act, outcome, touched>>
        /\ stage \notin {"rollback", "done"}
        /\ young' = IF stage \in {"idle", "given"} THEN young ELSE young \cup {p}
    BY <1>1 DEF ProcessChanges, ExecInv
  <2>2. ASSUME stage \in {"approval", "approved"} PROVE Harmless(act)'
    <3>1. young' = young \cup {p}
      BY <2>1, <2>2
    <3>2. Harmless(act)
      BY <2>2 DEF ExecInv
    <3>3. ASSUME NEW q \in Pids \ young', (q \in Matched(act))'
          PROVE  (SafeProcess(q) \/ KindOf(act, q) = "fitting")'
      <4>1. q # p /\ q \in Pids \ young
        BY <3>1, <3>3
      <4>2. procs'[q] = procs[q]
        BY <2>1, <4>1
      <4>3. q \in Matched(act)
        BY <2>1, <3>3, <4>2 DEF Matched, Alive, FitsName
      <4> QED
        BY <2>1, <3>2, <4>1, <4>2, <4>3 DEF Harmless, SafeProcess, KindOf
    <3> QED
      BY <2>1, <3>2, <3>3 DEF Harmless, SafeName
  <2>3. young' \subseteq Pids /\ (stage \in {"idle", "given"} => young' = young)
    BY <2>1 DEF ExecInv
  <2> QED
    BY <2>1, <2>2, <2>3 DEF ExecInv, Named, IsLlm, SafeName, ExecutionIsSafe, ProtectedUntouched,
       UndoneIsFailed
<1>2. ASSUME NEW c \in LlmCommands \cup Structured, Execute(c) PROVE ExecInv'
  <2>1. c.op = "nginx" => c.target = "nginx"
    BY LlmCommandIs, StructuredIs
  <2>2. /\ act' = c
        /\ request' = c
        /\ stage = "idle"
        /\ stage' = "given"
        /\ procs' = procs
        /\ outcome' = outcome
        /\ touched' = touched
        /\ young' = young
    BY <1>2 DEF Execute
  <2>3. Named(act)'
    BY <2>1, <2>2 DEF Named
  <2>4. (IsLlm => act = request)'
    BY <2>2
  <2>5. ExecutionIsSafe'
    BY <2>2 DEF ExecInv, ExecutionIsSafe, ProtectedUntouched, UndoneIsFailed
  <2> QED
    BY <2>2, <2>3, <2>4, <2>5 DEF ExecInv
<1>3. CASE Return
  BY <1>3 DEF Return, ExecInv, ExecutionIsSafe, ProtectedUntouched, UndoneIsFailed
<1>4. CASE SecurityBlock
  BY <1>4, EndingQuietly DEF SecurityBlock
<1>5. CASE PassesChecks
  <2>1. act = request /\ act \in LlmCommands /\ Admitted(act) /\ young = {}
    BY <1>5 DEF PassesChecks, ExecInv, IsLlm
  <2>2. Harmless(act)
    BY <2>1, AdmittedIsHarmless
  <2>3. UNCHANGED <<procs, young, act, request, outcome, touched>> /\ stage' \in {"approval", "approved"}
    BY <1>5 DEF PassesChecks, NoEffect
  <2>4. Harmless(act)'
    BY <2>2, <2>3 DEF Harmless, SafeProcess, Matched, Alive, FitsName, KindOf, SafeName
  <2>5. stage = "given"
    BY <1>5 DEF PassesChecks
  <2> QED
    BY <2>1, <2>3, <2>4, <2>5 DEF ExecInv, Named, IsLlm, ExecutionIsSafe, ProtectedUntouched, UndoneIsFailed
<1>6. CASE Approved
  <2>1. /\ UNCHANGED <<procs, young, act, request, outcome, touched>>
        /\ stage = "approval" /\ stage' = "approved"
    BY <1>6 DEF Approved, NoEffect
  <2>2. Harmless(act)'
    BY <2>1 DEF ExecInv, Harmless, SafeProcess, Matched, Alive, FitsName, KindOf, SafeName
  <2> QED
    BY <2>1, <2>2 DEF ExecInv, Named, IsLlm, ExecutionIsSafe, ProtectedUntouched, UndoneIsFailed
<1>7. CASE NotApproved
  BY <1>7, EndingQuietly DEF NotApproved
<1>8. CASE CommandSucceeds
  BY <1>8, EffectKeeps, EndingKeeps DEF CommandSucceeds
<1>9. CASE CommandFails
  <2>1. /\ \A h \in touched' : ~h.undo /\ (h.name \in ProtectedNames => Unasked(h))
        /\ procs' = [p \in Pids |-> procs'[p]]
    BY <1>9, EffectKeeps DEF CommandFails
  <2>2. /\ UNCHANGED <<young, act, request, outcome>>
        /\ stage = "approved" /\ stage' = "rollback"
    BY <1>9 DEF CommandFails
  <2> QED
    BY <2>1, <2>2 DEF ExecInv, Named, IsLlm, ExecutionIsSafe, ProtectedUntouched, UndoneIsFailed
<1>10. CASE CommandRaises
  <2>1. /\ \A h \in touched' : ~h.undo /\ (h.name \in ProtectedNames => Unasked(h))
        /\ procs' = [p \in Pids |-> procs'[p]]
    BY <1>10, EffectKeeps DEF CommandRaises
  <2> QED
    BY <1>10, <2>1, EndingKeeps DEF CommandRaises
<1>11. CASE RunRollback
  <2>1. /\ stage = "rollback" /\ Finish("FAILURE") /\ UNCHANGED <<procs, request>>
        /\ touched' = touched \cup UNION {Touches(c, TRUE) : c \in Rollback(act)}
    BY <1>11 DEF RunRollback
  <2>2. ASSUME NEW c \in Rollback(act), NEW h \in Touches(c, TRUE)
        PROVE  h.name \notin ProtectedNames /\ h.name \in {request.target, k8s_target_app}
    <3>1. Named(act) /\ (IsLlm => act = request)
      BY <2>1 DEF ExecInv
    <3>2. CASE act.op = "systemctl"
      <4>1. c = Command("systemctl", "stop", act.target) /\ SafeName(act.target)
        BY <2>2, <3>2 DEF Rollback
      <4>2. h = Touch("unit", act.target, TRUE, FALSE)
        BY <2>2, <4>1 DEF Touches, Matched, Command
      <4> QED
        BY <3>1, <3>2, <4>1, <4>2 DEF Touch, SafeName, Named
    <3>3. CASE act.op = "nginx"
      <4>1. c = Command("systemctl", "stop", "nginx") /\ SafeName("nginx")
        BY <2>2, <3>3 DEF Rollback
      <4>2. h = Touch("unit", "nginx", TRUE, FALSE)
        BY <2>2, <4>1 DEF Touches, Matched, Command
      <4> QED
        BY <3>1, <3>3, <4>1, <4>2 DEF Touch, SafeName, Named
    <3>4. CASE act.op \notin {"systemctl", "nginx"}
      <4>1. c = Command("ulimit", "-n", Odd)
        BY <2>2, <3>4 DEF Rollback
      <4> QED
        BY <2>2, <4>1 DEF Touches, Matched, Command
    <3> QED
      BY <3>2, <3>3, <3>4
  <2> QED
    BY <2>1, <2>2, UndoingKeeps
<1>12. CASE ClearMemory
  BY <1>12, EndingQuietly DEF ClearMemory
<1>13. CASE ResolveTarget
  <2>1. /\ stage = "given" /\ ~IsLlm /\ request \in Structured /\ NoEffect /\ UNCHANGED request
        /\ \/ act' = act /\ Finish("FAILURE")
           \/ /\ stage' = "approved" /\ UNCHANGED <<outcome, young>>
              /\ \/ act' = Command("docker", request.op, docker_target_app)
                 \/ \E n \in {request.target, k8s_target_app} : SafeName(n) /\ act' = On(n)
    BY <1>13, StructuredIs, LlmCommandIs DEF ResolveTarget, Deployment, IsLlm
  <2>2. CASE act' = act /\ Finish("FAILURE")
    BY <2>1, <2>2, EndingQuietly
  <2>3. ASSUME stage' = "approved", UNCHANGED <<outcome, young>>,
               \/ act' = Command("docker", request.op, docker_target_app)
               \/ \E n \in {request.target, k8s_target_app} : SafeName(n) /\ act' = On(n)
        PROVE  ExecInv'
    <3>1. act'.op # "nginx" /\ Named(act)' /\ Harmless(act)'
      <4>1. CASE act' = Command("docker", request.op, docker_target_app)
        BY <2>1, <4>1 DEF Named, Harmless, Matched, Command
      <4>2. ASSUME NEW n \in {request.target, k8s_target_app}, SafeName(n), act' = On(n)
            PROVE  act'.op # "nginx" /\ Named(act)' /\ Harmless(act)'
        <5>1. /\ act'.op \in {"kubectl", "systemctl", "pkill"} /\ act'.target = n
              /\ act'.op = "pkill" => act'.arg = "-x"
          BY <4>2 DEF On, Command
        <5>2. \A p \in Pids : (p \in Matched(act) =>
                                 SafeProcess(p) \/ KindOf(act, p) = "fitting")'
          BY <2>1, <4>2, <5>1 DEF Matched, SafeName, SafeProcess, KindOf
        <5> QED
          BY <2>1, <4>2, <5>1, <5>2 DEF Named, Harmless, SafeName
      <4> QED
        BY <2>3, <4>1, <4>2
    <3> QED
      BY <2>1, <2>3, <3>1 DEF ExecInv, IsLlm, NoEffect, ExecutionIsSafe, ProtectedUntouched, UndoneIsFailed
  <2> QED
    BY <2>1, <2>2, <2>3
<1>14. CASE ActionSent
  <2>1. \A h \in touched' : ~h.undo /\ (h.name \in ProtectedNames => Unasked(h))
    BY <1>14, EffectKeeps DEF ActionSent
  <2>2. /\ UNCHANGED <<young, act, request, outcome>> /\ ~IsLlm
        /\ stage = "approved" /\ stage' = "verify"
    BY <1>14 DEF ActionSent
  <2>3. procs' = [p \in Pids |-> procs'[p]]
    BY <1>14, EffectKeeps DEF ActionSent
  <2> QED
    BY <2>1, <2>2, <2>3 DEF ExecInv, Harmless, Named, IsLlm, ExecutionIsSafe, ProtectedUntouched,
       UndoneIsFailed
<1>15. CASE ActionFails
  <2>1. \A h \in touched' : ~h.undo /\ (h.name \in ProtectedNames => Unasked(h))
    BY <1>15, EffectKeeps DEF ActionFails
  <2>2. /\ UNCHANGED <<act, request>> /\ ~IsLlm /\ stage = "approved"
        /\ Finish("FAILURE") \/ (stage' = "rollback" /\ UNCHANGED <<outcome, young>>)
    BY <1>15 DEF ActionFails
  <2>3. procs' = [p \in Pids |-> procs'[p]]
    BY <1>15, EffectKeeps DEF ActionFails
  <2> QED
    BY <2>1, <2>2, <2>3, EndingKeeps DEF ExecInv, Named, IsLlm, ExecutionIsSafe, ProtectedUntouched,
       UndoneIsFailed
<1>16. CASE Verified
  BY <1>16, EndingQuietly DEF Verified
<1>17. CASE NotVerified
  <2>1. stage = "verify" /\ Finish("FAILURE") /\ UNCHANGED <<procs, request, act>>
        /\ touched' = IF act.op = "kubectl" /\ act.arg = "restart"
                      THEN touched \cup Touches(act, TRUE) ELSE touched
    BY <1>17 DEF NotVerified, Unverified
  <2>2. CASE act.op = "kubectl"
    <3>1. SafeName(act.target) /\ act.target \in {request.target, k8s_target_app}
      BY <2>1, <2>2 DEF ExecInv, Named
    <3>2. \A h \in Touches(act, TRUE) : h.name = act.target
      BY <2>2 DEF Touches, Matched, Touch
    <3>3. \A h \in touched' \ touched : h.name = act.target
      BY <2>1, <3>2
    <3> QED
      BY <2>1, <3>1, <3>3, UndoingKeeps DEF SafeName
  <2>3. CASE act.op # "kubectl"
    <3>1. touched' = touched
      BY <2>1, <2>3
    <3> QED
      BY <2>1, <3>1, UndoingKeeps
  <2> QED
    BY <2>2, <2>3
<1> QED
  BY <1>1, <1>2, <1>3, <1>4, <1>5, <1>6, <1>7, <1>8, <1>9, <1>10, <1>11, <1>12, <1>13, <1>14,
     <1>15, <1>16, <1>17 DEF ExecNext, ExecStep

LEMMA ExecInvStutter == ExecInv /\ UNCHANGED execVars => ExecInv'
BY DEF ExecInv, Harmless, SafeProcess, Matched, Alive, FitsName, KindOf, SafeName, Named, IsLlm, ExecutionIsSafe,
   ProtectedUntouched, UndoneIsFailed, execVars, config

\* The types; a command that names something to be touched has a name for it.
ExecTypes ==
    /\ method \in {"systemd", "k8s"}
    /\ fallback \in BOOLEAN
    /\ procs \in [Pids -> Processes]
    /\ request \in LlmCommands \cup Structured \cup {NoCommand}
    /\ act.op \in {"pkill", "systemctl", "docker", "kubectl"} => act.target \in Names \cup {Odd}
    /\ touched \subseteq [kind : TouchKinds, name : Names \cup {Odd}, undo : BOOLEAN,
                          late : BOOLEAN]

\* What a command touches.
Touched == [kind : TouchKinds, name : Names \cup {Odd}, undo : BOOLEAN, late : BOOLEAN]

\* No command has been asked for.
LEMMA ExecTypesInit == ExecInit => ExecTypes
<1> SUFFICES ASSUME ExecInit PROVE ExecTypes
  OBVIOUS
<1>1. procs \in [Pids -> Processes]
  BY DEF ExecInit, Processes
<1>2. act.op = "none" /\ touched = {} /\ request = NoCommand
  BY DEF ExecInit, NoCommand, Command
<1>3. method \in {"systemd", "k8s"} /\ fallback \in BOOLEAN
  BY DEF ExecInit
<1> QED
  BY <1>1, <1>2, <1>3 DEF ExecTypes

\* A process has a name that is known or one that is not.
LEMMA NameOfProcess ==
    ASSUME ExecTypes, NEW p \in Pids
    PROVE  procs[p].comm \in Names \cup {Odd}
<1>1. procs[p] \in Processes
  BY DEF ExecTypes
<1>2. CASE procs[p] = NoProcess
  BY <1>2 DEF NoProcess
<1>3. CASE procs[p] \in [comm : Comms, pattern : Comms, bound : BOOLEAN]
  BY <1>3, ExecutionAssumption
<1> QED
  BY <1>1, <1>2, <1>3 DEF Processes

\* The commands that a person, a model or a request can name.
LEMMA TargetIs ==
    ASSUME NEW c \in LlmCommands \cup Structured,
           c.op \in {"pkill", "systemctl", "docker", "kubectl"}
    PROVE  c.target \in Names \cup {Odd}
<1>1. c \notin Structured
  BY StructuredIs
<1>2. \/ c \in [op : {"systemctl"}, arg : {"restart", "status"}, target : Names \cup {Odd}]
      \/ c \in [op : {"pkill"}, arg : {"-x", "-f"}, target : Names \cup {Odd}]
      \/ c \in [op : {"kill"}, arg : {"-TERM"}, target : Pids]
      \/ c \in [op : {"fuser"}, arg : {"-k"}, target : {Odd}]
      \/ c \in [op : {"nginx"}, arg : {"-s", "-t"}, target : {"nginx"}]
      \/ c \in [op : {"ulimit", "reader", "malformed"}, arg : {""}, target : {Odd}]
  BY <1>1, Zenon DEF LlmCommands
<1> QED
  BY <1>2

\* What is touched has the name of its process or of its target.
LEMMA TouchesIs ==
    ASSUME ExecTypes, NEW c, NEW undo \in BOOLEAN,
           c.op \in {"systemctl", "docker", "kubectl"} => c.target \in Names \cup {Odd}
    PROVE  Touches(c, undo) \subseteq Touched
<1> SUFFICES ASSUME NEW h \in Touches(c, undo) PROVE h \in Touched
  OBVIOUS
<1>1. CASE \E p \in Matched(c) : h = Touch(KindOf(c, p), procs[p].comm, undo, p \in young)
  <2>1. PICK p \in Matched(c) : h = Touch(KindOf(c, p), procs[p].comm, undo, p \in young)
    BY <1>1
  <2>2. procs[p].comm \in Names \cup {Odd}
    BY NameOfProcess, MatchedIs
  <2> DEFINE b == p \in young
  <2>3. b \in BOOLEAN
    OBVIOUS
  <2>4. h = [kind |-> KindOf(c, p), name |-> procs[p].comm, undo |-> undo, late |-> b]
    BY <2>1 DEF Touch
  <2>5. KindOf(c, p) \in TouchKinds
    BY DEF KindOf, TouchKinds
  <2> HIDE DEF b
  <2> QED
    BY <2>2, <2>3, <2>4, <2>5 DEF Touched
<1>2. CASE c.op = "systemctl" /\ h = Touch("unit", c.target, undo, FALSE)
  BY <1>2 DEF Touch, Touched, TouchKinds
<1>3. CASE c.op = "nginx" /\ h = Touch("reload", "nginx", undo, FALSE)
  BY <1>3, ExecutionAssumption DEF Touch, Touched, TouchKinds
<1>4. CASE c.op = "docker" /\ h = Touch("container", c.target, undo, FALSE)
  BY <1>4 DEF Touch, Touched, TouchKinds
<1>5. CASE c.op = "kubectl" /\ h = Touch("deployment", c.target, undo, FALSE)
  BY <1>5 DEF Touch, Touched, TouchKinds
<1> QED
  BY <1>1, <1>2, <1>3, <1>4, <1>5 DEF Touches

\* What a command does leaves processes and what it touched.
LEMMA EffectTypes ==
    ASSUME ExecTypes, Effect(act) \/ NoEffect
    PROVE  touched' \subseteq Touched /\ procs' \in [Pids -> Processes]
<1>1. touched \subseteq Touched /\ procs \in [Pids -> Processes]
  BY DEF ExecTypes, Touched
<1>2. CASE Effect(act)
  <2>1. Touches(act, FALSE) \subseteq Touched
    <3>1. act.op \in {"systemctl", "docker", "kubectl"} => act.target \in Names \cup {Odd}
      BY DEF ExecTypes
    <3> QED
      BY <3>1, TouchesIs
  <2>2. Ended(Matched(act)) \in [Pids -> Processes]
    BY <1>1 DEF Ended, Processes
  <2> QED
    BY <1>1, <1>2, <2>1, <2>2 DEF Effect
<1>3. CASE NoEffect
  BY <1>1, <1>3 DEF NoEffect
<1> QED
  BY <1>2, <1>3

\* So does every step of the executor and of the system around it.
LEMMA ExecTypesStep == ExecTypes /\ ExecNext => ExecTypes'
<1> SUFFICES ASSUME ExecTypes, ExecNext PROVE ExecTypes'
  OBVIOUS
<1>0. touched \subseteq Touched /\ procs \in [Pids -> Processes]
  BY DEF ExecTypes, Touched
<1>1. ASSUME NEW p \in Pids, ProcessChanges(p) PROVE ExecTypes'
  <2>1. PICK r \in Processes : procs' = [procs EXCEPT ![p] = r]
    BY <1>1 DEF ProcessChanges
  <2>2. procs' \in [Pids -> Processes]
    BY <1>0, <2>1
  <2>3. UNCHANGED <<config, request, act, touched>>
    BY <1>1 DEF ProcessChanges
  <2> QED
    BY <2>2, <2>3 DEF ExecTypes, config
<1>2. ASSUME NEW c \in LlmCommands \cup Structured, Execute(c) PROVE ExecTypes'
  <2>1. request' = c /\ act' = c /\ UNCHANGED <<config, procs, touched>>
    BY <1>2 DEF Execute
  <2>2. c.op \in {"pkill", "systemctl", "docker", "kubectl"} => c.target \in Names \cup {Odd}
    BY TargetIs
  <2> QED
    BY <2>1, <2>2 DEF ExecTypes, config
<1>3. CASE /\ Effect(act) \/ NoEffect
           /\ UNCHANGED <<config, request, act>>
  <2>1. touched' \subseteq Touched /\ procs' \in [Pids -> Processes]
    BY <1>3, EffectTypes
  <2> QED
    BY <1>3, <2>1 DEF ExecTypes, config, Touched
<1>4. CASE SecurityBlock \/ PassesChecks \/ Approved \/ NotApproved \/ CommandSucceeds
           \/ CommandFails \/ CommandRaises \/ ClearMemory \/ ActionSent \/ ActionFails \/ Verified
  <2>1. Effect(act) \/ NoEffect
    BY <1>4 DEF SecurityBlock, PassesChecks, Approved, NotApproved, CommandSucceeds,
       CommandFails, CommandRaises, ClearMemory, ActionSent, ActionFails, Verified
  <2>2. UNCHANGED <<config, request, act>>
    BY <1>4 DEF SecurityBlock, PassesChecks, Approved, NotApproved, CommandSucceeds,
       CommandFails, CommandRaises, ClearMemory, ActionSent, ActionFails, Verified
  <2> QED
    BY <1>3, <2>1, <2>2
<1>5. CASE RunRollback
  <2>1. /\ touched' = touched \cup UNION {Touches(c, TRUE) : c \in Rollback(act)}
        /\ UNCHANGED <<config, procs, request, act>>
    BY <1>5 DEF RunRollback
  <2>2. ASSUME NEW c \in Rollback(act) PROVE Touches(c, TRUE) \subseteq Touched
    <3>1. c.op \in {"systemctl", "docker", "kubectl"} => c.target \in Names \cup {Odd}
      <4>1. CASE act.op = "systemctl" /\ SafeName(act.target) /\ c = Command("systemctl", "stop", act.target)
        BY <4>1 DEF Command, SafeName
      <4>2. CASE c = Command("systemctl", "stop", "nginx")
        BY <4>2, ExecutionAssumption DEF Command
      <4>3. CASE c = Command("ulimit", "-n", Odd)
        BY <4>3 DEF Command
      <4> QED
        BY <2>2, <4>1, <4>2, <4>3 DEF Rollback
    <3> QED
      BY <3>1, TouchesIs
  <2>3. touched' \subseteq Touched
    BY <1>0, <2>1, <2>2
  <2> QED
    BY <2>1, <2>3 DEF ExecTypes, config, Touched
<1>6. CASE ResolveTarget
  <2>1. act' = act \/ (\E restart, n : act' = Command("docker", restart, docker_target_app))
        \/ (\E n : SafeName(n) /\ act' = On(n))
    BY <1>6 DEF ResolveTarget
  <2>2. act'.op \in {"pkill", "systemctl", "docker", "kubectl"} => act'.target \in Names \cup {Odd}
    <3>1. CASE act' = act
      BY <3>1 DEF ExecTypes
    <3>2. CASE \E restart, n : act' = Command("docker", restart, docker_target_app)
      BY <3>2, ExecutionAssumption DEF Command
    <3>3. ASSUME NEW n, SafeName(n), act' = On(n) PROVE act'.target \in Names
      <4>1. On(n).target = n
        BY DEF On, Command
      <4> QED
        BY <3>3, <4>1 DEF SafeName
    <3> QED
      BY <2>1, <3>1, <3>2, <3>3
  <2>3. UNCHANGED <<config, request, touched, procs>>
    BY <1>6 DEF ResolveTarget, NoEffect
  <2> QED
    BY <2>2, <2>3 DEF ExecTypes, config
<1>7. CASE NotVerified
  <2>1. /\ touched' = touched \/ touched' = touched \cup Touches(act, TRUE)
        /\ UNCHANGED <<config, procs, request, act>>
    BY <1>7 DEF NotVerified
  <2>2. Touches(act, TRUE) \subseteq Touched
    <3>1. act.op \in {"systemctl", "docker", "kubectl"} => act.target \in Names \cup {Odd}
      BY DEF ExecTypes
    <3> QED
      BY <3>1, TouchesIs
  <2> QED
    BY <1>0, <2>1, <2>2 DEF ExecTypes, config, Touched
<1>8. CASE Return
  <2>1. /\ request' = NoCommand /\ act' = NoCommand /\ touched' = {} /\ UNCHANGED <<config, procs>>
    BY <1>8 DEF Return
  <2> QED
    BY <2>1 DEF ExecTypes, config, NoCommand, Command
<1> QED
  BY <1>1, <1>2, <1>4, <1>5, <1>6, <1>7, <1>8 DEF ExecNext, ExecStep

\* A step of another component changes none of it.
LEMMA ExecTypesStutter == ExecTypes /\ UNCHANGED execVars => ExecTypes'
BY DEF ExecTypes, execVars

\* The rest of the types is in the invariant.
LEMMA ExecIsTyped == ExecInv /\ ExecTypes => ExecTypeOK
BY DEF ExecInv, ExecTypes, ExecTypeOK

-----------------------------------------------------------------------------
(* Notify                                                                  *)

\* A report has no row.
MayBeShown(m) == kindOf[m] = "report" \/ m \in stored

\* A message is with one sender, then perhaps in the queue, and not shown before it
\* has left both.
NotifyInv ==
    /\ NotifyTypeOK
    /\ \A t \in Senders : job[t].at # "idle" => job[t].id # 0
    /\ \A s, t \in Senders : job[s].id = job[t].id /\ job[t].id # 0 => s = t
    /\ \A t \in Senders : job[t].id # 0 =>
          /\ kindOf[job[t].id] # "none"
          /\ job[t].id \notin queue
          /\ shown[job[t].id] = 0
    /\ \A t \in Senders : job[t].at \in {"choose", "telegram", "slack"} => MayBeShown(job[t].id)
    /\ \A m \in queue : kindOf[m] # "none" /\ shown[m] = 0 /\ MayBeShown(m)
    /\ \A m \in Messages : kindOf[m] = "none" => shown[m] = 0
    /\ ShownOnceAndStored

\* Nothing has begun.
LEMMA NotifyInvInit == NotifyInit => NotifyInv
BY NotifyAssumption DEF NotifyInit, NotifyInv, NotifyTypeOK, NoJob, Messages, MessageKinds,
   MayBeShown, ShownOnceAndStored

\* A sender goes on with its message, or has done with it.
LEMMA MoveToIs ==
    ASSUME NotifyInv, NEW t \in Senders, NEW place, MoveTo(t, place)
    PROVE  /\ job' = [job EXCEPT ![t] = [id |-> IF place = "idle" THEN 0 ELSE job[t].id, at |-> place]]
           /\ job[t].id \in 0..MaxMessages
<1>1. job[t] \in [id : 0..MaxMessages, at : {"idle", "store", "choose", "telegram", "slack"}]
  BY DEF NotifyInv, NotifyTypeOK
<1>2. CASE place = "idle"
  BY <1>1, <1>2 DEF MoveTo, NoJob
<1>3. CASE place # "idle"
  <2>1. [job[t] EXCEPT !.at = place] = [id |-> job[t].id, at |-> place]
    BY <1>1
  <2> QED
    BY <1>1, <1>3, <2>1 DEF MoveTo
<1> QED
  BY <1>2, <1>3

\* A sender that has done with its message, which people saw once or not at all.
LEMMA LeavingKeeps ==
    ASSUME NotifyInv, NEW t \in Senders, job[t].at \in {"telegram", "slack"},
           MoveTo(t, "idle"), Seen(job[t].id) \/ UNCHANGED shown,
           UNCHANGED <<processVars, queue, kindOf, stored>>
    PROVE  NotifyInv'
<1> USE NotifyAssumption DEF NotifyInv, Messages, MayBeShown, processVars
<1>1. /\ job' = [job EXCEPT ![t] = [id |-> 0, at |-> "idle"]]
      /\ job[t].id \in 1..MaxMessages
  BY MoveToIs
<1>2. /\ shown' \in [Messages -> Nat]
      /\ \A m \in Messages : m # job[t].id => shown'[m] = shown[m]
      /\ shown'[job[t].id] <= 1
  BY <1>1 DEF Seen, NotifyTypeOK
<1>3. NotifyTypeOK'
  BY <1>1, <1>2 DEF NotifyTypeOK
<1>4. job'[t] = [id |-> 0, at |-> "idle"] /\ \A s \in Senders : s # t => job'[s] = job[s]
  BY <1>1 DEF NotifyTypeOK
<1>5. \A s \in Senders : job[s].id \in 0..MaxMessages
  BY DEF NotifyTypeOK
<1>6. queue \subseteq 1..MaxMessages /\ job[t].id \notin queue /\ kindOf[job[t].id] # "none"
  BY <1>1 DEF NotifyTypeOK
<1>7. ShownOnceAndStored'
  BY <1>1, <1>2 DEF ShownOnceAndStored
<1>8. \A m \in queue : shown'[m] = shown[m]
  BY <1>2, <1>6
<1>9. \A s \in Senders : s # t /\ job[s].id # 0 => shown'[job[s].id] = shown[job[s].id]
  BY <1>1, <1>2, <1>5
<1> HIDE DEF NotifyTypeOK
<1>10. (\A s \in Senders : job[s].id # 0 =>
          kindOf[job[s].id] # "none" /\ job[s].id \notin queue /\ shown[job[s].id] = 0)'
  BY <1>4, <1>9
<1>11. (\A m \in Messages : kindOf[m] = "none" => shown[m] = 0)'
  BY <1>2, <1>6
<1>12. (\A m \in queue : kindOf[m] # "none" /\ shown[m] = 0 /\ MayBeShown(m))'
  BY <1>8
<1> QED
  BY <1>3, <1>4, <1>7, <1>10, <1>11, <1>12

\* Every step of the senders, of the polling loop and of the process keeps it.
LEMMA NotifyInvStep == NotifyInv /\ NotifyNext => NotifyInv'
<1> SUFFICES ASSUME NotifyInv, NotifyNext PROVE NotifyInv'
  OBVIOUS
<1> USE NotifyAssumption DEF NotifyInv, Messages, MayBeShown, processVars, At
<1>0. /\ \A s \in Senders : job[s].id \in 0..MaxMessages
      /\ queue \subseteq 1..MaxMessages
  BY DEF NotifyTypeOK
<1>1. ASSUME NEW t \in Senders, NEW m \in Messages, NEW k \in MessageKinds, BeginMessage(t, m, k)
      PROVE  NotifyInv'
  <2> DEFINE place == IF k = "report" THEN "choose" ELSE "store"
  <2>1. /\ job' = [job EXCEPT ![t] = [id |-> m, at |-> place]]
        /\ kindOf' = [kindOf EXCEPT ![m] = k]
        /\ kindOf[m] = "none" /\ k # "none" /\ job[t].at = "idle"
        /\ UNCHANGED <<webhook, bot, exits, queue, stored, shown>>
    BY <1>1 DEF BeginMessage, MessageKinds
  <2>2. NotifyTypeOK'
    BY <2>1 DEF NotifyTypeOK
  <2>3. job'[t] = [id |-> m, at |-> place] /\ \A s \in Senders : s # t => job'[s] = job[s]
    BY <2>1 DEF NotifyTypeOK
  <2>4. kindOf'[m] = k /\ \A n \in Messages : n # m => kindOf'[n] = kindOf[n]
    BY <2>1 DEF NotifyTypeOK
  <2>5. shown[m] = 0 /\ m \notin queue /\ \A s \in Senders : job[s].id # m
    BY <2>1
  <2>6. ShownOnceAndStored'
    BY <2>1, <2>4, <2>5 DEF ShownOnceAndStored
  <2> HIDE DEF NotifyTypeOK
  <2> QED
    BY <1>0, <2>1, <2>2, <2>3, <2>4, <2>5, <2>6
<1>2. ASSUME NEW t \in Senders, NEW place \in {"idle", "choose", "telegram", "slack"},
             MoveTo(t, place), job[t].at \in {"store", "choose"},
             UNCHANGED <<processVars, queue, kindOf, shown>>,
             stored \subseteq stored', stored' \subseteq Messages,
             place # "idle" => kindOf[job[t].id] = "report" \/ job[t].id \in stored'
      PROVE  NotifyInv'
  <2>1. job' = [job EXCEPT ![t] = [id |-> IF place = "idle" THEN 0 ELSE job[t].id, at |-> place]]
    BY <1>2, MoveToIs
  <2>2. /\ job'[t] = [id |-> IF place = "idle" THEN 0 ELSE job[t].id, at |-> place]
        /\ \A s \in Senders : s # t => job'[s] = job[s]
    BY <2>1 DEF NotifyTypeOK
  <2>3. NotifyTypeOK'
    BY <1>2, <2>1 DEF NotifyTypeOK
  <2>4. ShownOnceAndStored'
    BY <1>2 DEF ShownOnceAndStored
  <2> HIDE DEF NotifyTypeOK
  <2> QED
    BY <1>0, <1>2, <2>2, <2>3, <2>4
<1>3. ASSUME NEW t \in Senders, Store(t) PROVE NotifyInv'
  <2> DEFINE place == IF kindOf[job[t].id] = "success" THEN "idle" ELSE "choose"
  <2>1. /\ job[t].at = "store" /\ MoveTo(t, place)
        /\ stored' = stored \cup {job[t].id}
        /\ UNCHANGED <<processVars, queue, kindOf, shown>>
    BY <1>3 DEF Store
  <2>2. job[t].id \in Messages /\ stored \subseteq Messages
    BY <1>0, <2>1 DEF NotifyTypeOK
  <2>3. place \in {"idle", "choose", "telegram", "slack"}
    OBVIOUS
  <2> HIDE DEF place, NotifyInv
  <2> QED
    BY <1>2, <2>1, <2>2, <2>3
<1>4. ASSUME NEW t \in Senders, StoreFails(t) PROVE NotifyInv'
  BY <1>2, <1>4 DEF StoreFails, NotStored, NotifyTypeOK
<1>5. ASSUME NEW t \in Senders, Choose(t) PROVE NotifyInv'
  BY <1>2, <1>5 DEF Choose, NotifyTypeOK
<1>6. ASSUME NEW t \in Senders, SendByItself(t) PROVE NotifyInv'
  BY <1>6, LeavingKeeps DEF SendByItself, AfterTelegram
<1>7. ASSUME NEW t \in Senders, Schedule(t) PROVE NotifyInv'
  <2>1. /\ job' = [job EXCEPT ![t] = [id |-> 0, at |-> "idle"]]
        /\ job[t].id \in 1..MaxMessages
    BY <1>7, MoveToIs DEF Schedule, AfterTelegram
  <2>2. /\ job'[t] = [id |-> 0, at |-> "idle"] /\ \A s \in Senders : s # t => job'[s] = job[s]
        /\ queue' = queue \cup {job[t].id}
        /\ UNCHANGED <<webhook, bot, exits, kindOf, stored, shown>>
    BY <1>7, <2>1 DEF Schedule, NotifyTypeOK
  <2>3. NotifyTypeOK'
    <3>1. queue' \subseteq 1..MaxMessages
      BY <1>0, <2>1, <2>2
    <3>2. job' \in [Senders -> [id : 0..MaxMessages,
                               at : {"idle", "store", "choose", "telegram", "slack"}]]
      BY <2>1 DEF NotifyTypeOK
    <3> QED
      BY <2>2, <3>1, <3>2 DEF NotifyTypeOK
  <2>4. ShownOnceAndStored'
    BY <2>2 DEF ShownOnceAndStored
  <2>5. job[t].at = "telegram"
    BY <1>7 DEF Schedule
  <2> HIDE DEF NotifyTypeOK
  <2> QED
    BY <1>0, <2>1, <2>2, <2>3, <2>4, <2>5
<1>8. ASSUME NEW t \in Senders, ScheduleRaises(t) PROVE NotifyInv'
  BY <1>8, LeavingKeeps DEF ScheduleRaises, AfterTelegram
<1>9. ASSUME NEW t \in Senders, SendSlack(t) PROVE NotifyInv'
  BY <1>9, LeavingKeeps DEF SendSlack
<1>10. CASE LoopStored
  BY <1>10 DEF LoopStored, NotifyTypeOK, ShownOnceAndStored
<1>11. ASSUME NEW m \in Messages, SendScheduled(m) PROVE NotifyInv'
  <2>1. /\ m \in queue /\ queue' = queue \ {m}
        /\ UNCHANGED <<webhook, bot, exits, job, kindOf, stored>>
    BY <1>11 DEF SendScheduled
  <2>2. /\ shown' \in [Messages -> Nat]
        /\ \A n \in Messages : n # m => shown'[n] = shown[n]
        /\ shown'[m] <= 1
    BY <1>11 DEF SendScheduled, Seen, NotifyTypeOK
  <2>3. NotifyTypeOK'
    BY <2>1, <2>2 DEF NotifyTypeOK
  <2>4. ShownOnceAndStored'
    BY <2>1, <2>2 DEF ShownOnceAndStored
  <2>5. \A s \in Senders : job[s].id # m
    BY <1>0, <2>1
  <2> HIDE DEF NotifyTypeOK
  <2>6. (\A s \in Senders : job[s].id # 0 =>
          kindOf[job[s].id] # "none" /\ job[s].id \notin queue /\ shown[job[s].id] = 0)'
    BY <1>0, <2>1, <2>2, <2>5
  <2>7. (\A n \in queue : kindOf[n] # "none" /\ shown[n] = 0 /\ MayBeShown(n))'
    BY <1>0, <2>1, <2>2
  <2>8. (\A n \in Messages : kindOf[n] = "none" => shown[n] = 0)'
    BY <1>0, <2>1, <2>2
  <2> QED
    BY <2>1, <2>3, <2>4, <2>6, <2>7, <2>8
<1>12. CASE PollingEnds
  BY <1>12 DEF PollingEnds, NotifyTypeOK, ShownOnceAndStored
<1>13. CASE Exit
  <2>1. NotifyTypeOK'
    BY <1>13 DEF Exit, NotifyTypeOK, NoJob
  <2> QED
    BY <1>13, <2>1 DEF Exit, NoJob, ShownOnceAndStored
<1> HIDE DEF NotifyInv, Messages
<1> QED
  BY <1>1, <1>3, <1>4, <1>5, <1>6, <1>7, <1>8, <1>9, <1>10, <1>11, <1>12, <1>13 DEF NotifyNext

LEMMA NotifyInvStutter == NotifyInv /\ UNCHANGED notifyVars => NotifyInv'
BY DEF NotifyInv, NotifyTypeOK, MayBeShown, ShownOnceAndStored, notifyVars, processVars
=============================================================================
