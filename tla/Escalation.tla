------------------------------ MODULE Escalation ------------------------------
(***************************************************************************)
(* How RAGEngine of src/llm_engine.py gets from an error to an answer:     *)
(* the L1 lookup with its review, and on a miss the chain diagnosis, Groq, *)
(* Ollama, ipex_llm, rules, a person, with the review of what a language   *)
(* model chose.  What the lookup finds and learns is in KnowledgeBase, how *)
(* an answer is carried out in AutonomyGate.                               *)
(*                                                                         *)
(* Each request to a back end is a step and may fail in every way the code *)
(* tells apart.  A command is one of the kinds that the review tells apart *)
(* by itself, and "targeted" is all that it leaves to a language model.    *)
(***************************************************************************)
EXTENDS Naturals, Sequences

CONSTANTS
    Providers,          \* LLM_PROVIDER as configured, stripped and in lower case
    GROQ_MAX_RETRIES,
    OLLAMA_MAX_RETRIES,
    HEALTH_CHECKS       \* attempts of _is_ollama_available

ASSUME EscalationAssumption ==
    /\ "groq" \in Providers
    /\ {GROQ_MAX_RETRIES, OLLAMA_MAX_RETRIES, HEALTH_CHECKS} \subseteq Nat \ {0}

VARIABLES
    provider,  \* LLM_PROVIDER of this process
    keySet,    \* GROQ_API_KEY is set
    ipex,      \* ipex_llm is installed
    step,      \* where the resolution is
    task,      \* what the language model is asked for: "diagnose", "propose", "review"
    attempt,   \* of the request under way
    draft,     \* the answer that waits for its review
    answer,    \* the answer, when step = "answered"
    asked,     \* history: an error text or a command was sent to Groq
    verdict    \* history: what a reviewer said of the draft

escVars == <<provider, keySet, ipex, step, task, attempt, draft, answer, asked, verdict>>
setup == <<provider, keySet, ipex>>

\* Kinds of commands, and "absent" for an answer without one.
Kinds == {"read_only", "bounded", "pid1", "targeted", "empty"}
Actions == {"restart_service", "kill_process", "clear_memory", "rule_command",
            "llm_command", "escalate"}
\* self_reflection_safe and self_reflection_error: "failed" is None with the error.
Safety == {"yes", "no", "failed", "unreviewed"}
Response(source, action, arg, safe) ==
    [source |-> source, action |-> action, arg |-> arg, safe |-> safe]
NoResponse == Response("none", "escalate", "absent", "unreviewed")

EscInit ==
    /\ provider \in Providers
    /\ keySet \in BOOLEAN
    /\ ipex \in BOOLEAN
    /\ step = "idle"
    /\ task = "none"
    /\ attempt = 0
    /\ draft = NoResponse
    /\ answer = NoResponse
    /\ asked = FALSE
    /\ verdict = "none"

-----------------------------------------------------------------------------
(* Mode                                                                    *)

\* resolve_llm_provider: anything but "groq" is the local mode.
Cloud == provider = "groq"

\* _is_groq_available
GroqAvailable == Cloud /\ keySet

\* _llm_mode_messages: what the log of the start says about where texts go.
Announced ==
    CASE provider # "groq"             -> "nothing leaves the server"
      [] provider = "groq" /\ ~keySet -> "Groq cannot be used"
      [] provider = "groq" /\ keySet  -> "texts are sent out"

-----------------------------------------------------------------------------
(* Texts                                                                   *)

\* A reply of a language model: its JSON object's command, if it has one, and
\* the lines of its code block or of all of it, each prose or a command.
Lines2 == {<<>>} \cup {<<a>> : a \in (Kinds \ {"empty"}) \cup {"prose"}}
           \cup {<<"prose", b>> : b \in Kinds \ {"empty"}}
Replies == [json : {"none", "targeted"}, lines : Lines2]

\* _clean_llm_output: the JSON command, else the first line that is no prose.
Cleaned(reply) ==
    LET commands == {i \in DOMAIN reply.lines : reply.lines[i] # "prose"}
    IN  IF reply.json # "none" THEN reply.json
        ELSE IF commands = {} THEN "empty"
        ELSE reply.lines[CHOOSE i \in commands : \A j \in commands : i <= j]

\* _parse_diagnosis: nothing, or an action and what its target looks like.
Targets == {"none", "name", "digits", "path"}
Diagnoses == [action : {"restart_service", "kill_process", "clear_memory", "other"},
              target : Targets]
Unparsed == [action |-> "unparsed", target |-> "none"]

\* _route_from_diagnosis: no routing for a PID, a port, a phrase or a path.
Routable(d) ==
    \/ d.action = "clear_memory"
    \/ d.action \in {"restart_service", "kill_process"} /\ d.target = "name"

\* The three verdicts of _reflect_on_command that need no language model.
SettledVerdict(kind) ==
    CASE kind = "pid1"                     -> "no"
      [] kind \in {"read_only", "bounded"} -> "yes"
      [] OTHER                             -> "open"

\* Answers _apply_self_reflection has a command to review for.
HasCommand(r) ==
    /\ r.action \in {"restart_service", "kill_process", "rule_command", "llm_command"}
    /\ r.arg # "absent"

-----------------------------------------------------------------------------
Answer(r) ==
    /\ step' = "answered"
    /\ answer' = r
    /\ task' = "none"
    /\ attempt' = 0
    /\ draft' = NoResponse

Ask(next, what) ==
    /\ step' = next
    /\ task' = what
    /\ attempt' = 1
    /\ UNCHANGED <<draft, answer>>

\* _reflect_on_command for a draft, or the answer itself when there is nothing
\* to review.
Review(r) ==
    IF ~HasCommand(r)
    THEN Answer(r) /\ UNCHANGED verdict
    ELSE IF SettledVerdict(r.arg) # "open"
    THEN /\ Answer([r EXCEPT !.safe = SettledVerdict(r.arg)])
         /\ UNCHANGED verdict
    ELSE /\ step' = IF GroqAvailable THEN "groq" ELSE "ollama"
         /\ task' = "review"
         /\ attempt' = 1
         /\ draft' = r
         /\ UNCHANGED <<answer, verdict>>

\* Wrong variant: a review that could not be made counts as passed, as it did
\* before 2026-10-04.
PassedAnyway == "yes"

UnavailableReview == "failed"

Judged(v) == Answer([draft EXCEPT !.safe = v])

-----------------------------------------------------------------------------
(* analyze_error and analyze_errors_batch                                  *)

Begin(entry) ==
    /\ step = "idle"
    /\ step' = entry
    /\ verdict' = "none"
    /\ UNCHANGED <<setup, task, attempt, draft, answer, asked>>

Querying == step \in {"analyze", "batch"}

NothingFound ==
    /\ Querying
    /\ Answer(Response("L1_CACHE", "escalate", "absent", "unreviewed"))
    /\ UNCHANGED <<setup, asked, verdict>>

\* The actions and arguments that the documents of the knowledge base hold.
PlaybookHits ==
    {"restart_service", "kill_process"} \X {"targeted", "absent"}
    \cup {"rule_command", "llm_command"} \X ((Kinds \ {"empty"}) \cup {"absent"})
    \cup {"clear_memory", "escalate"} \X {"absent"}

\* An L1 hit.  analyze_error reviews it, except that a curated RESTART_SERVICE
\* passes; analyze_errors_batch returns it as it is.
Hit(action, arg) ==
    LET r == Response("L1_CACHE", action, arg, "unreviewed")
    IN  /\ Querying
        /\ IF step = "batch"
           THEN Answer(r) /\ UNCHANGED verdict
           ELSE IF action = "restart_service"
           THEN Answer([r EXCEPT !.safe = "yes"]) /\ UNCHANGED verdict
           ELSE Review(r)
        /\ UNCHANGED <<setup, asked>>

\* _l2_slow_track: Groq is asked for a diagnosis when it is available.
Miss ==
    /\ Querying
    /\ IF GroqAvailable THEN Ask("groq", "diagnose") ELSE Ask("health", "propose")
    /\ UNCHANGED <<setup, asked, verdict>>

-----------------------------------------------------------------------------
(* _call_groq_chat and what its callers do with the outcome                *)

GroqGivesUp ==
    CASE task = "diagnose" -> Ask("groq", "propose")
      [] task = "propose"  -> Ask("health", "propose")
      [] task = "review"   -> Ask("ollama", "review")

NextAttempt(n) == n + 1

\* HTTP 429 and a URLError are tried again after a pause, until the attempts
\* are used up.
GroqPauses ==
    /\ step = "groq"
    /\ attempt < GROQ_MAX_RETRIES
    /\ step' = "groq_pause"
    /\ asked' = TRUE
    /\ UNCHANGED <<setup, task, attempt, draft, answer, verdict>>

GroqRetries ==
    /\ step = "groq_pause"
    /\ step' = "groq"
    /\ attempt' = NextAttempt(attempt)
    /\ UNCHANGED <<setup, task, draft, answer, asked, verdict>>

\* Another HTTP status or exception at once, or the last attempt failed.
GroqFails ==
    /\ step = "groq"
    /\ GroqGivesUp
    /\ asked' = TRUE
    /\ UNCHANGED <<setup, verdict>>

\* "content" is null: its callers ask None for startswith, and the exception
\* leaves analyze_error.
GroqAnswersNull ==
    /\ step = "groq"
    /\ step' = "raised"
    /\ task' = "none"
    /\ attempt' = 0
    /\ draft' = NoResponse
    /\ asked' = TRUE
    /\ UNCHANGED <<setup, answer, verdict>>

Diagnosed(d) ==
    /\ step = "groq"
    /\ task = "diagnose"
    /\ asked' = TRUE
    /\ IF Routable(d)
       THEN Review(Response("L2_LLM", d.action,
                            IF d.target = "none" THEN "absent" ELSE "targeted", "unreviewed"))
       ELSE Ask("groq", "propose") /\ UNCHANGED verdict
    /\ UNCHANGED setup

\* A command to review, or nothing usable: then the next back end.
Proposed(reply, giveUp) ==
    IF Cleaned(reply) = "empty"
    THEN giveUp /\ UNCHANGED verdict
    ELSE Review(Response("L2_LLM", "llm_command", Cleaned(reply), "unreviewed"))

GroqProposes(reply) ==
    /\ step = "groq"
    /\ task = "propose"
    /\ asked' = TRUE
    /\ Proposed(reply, GroqGivesUp)
    /\ UNCHANGED setup

GroqJudges(v) ==
    /\ step = "groq"
    /\ task = "review"
    /\ asked' = TRUE
    /\ Judged(v)
    /\ verdict' = v
    /\ UNCHANGED setup

-----------------------------------------------------------------------------
(* _is_ollama_available, _run_ollama, and the review by Ollama             *)

HealthCheckFails ==
    /\ step = "health"
    /\ IF attempt < HEALTH_CHECKS
       THEN attempt' = attempt + 1 /\ UNCHANGED <<step, task, draft, answer>>
       ELSE Ask("ipex", "propose")
    /\ UNCHANGED <<setup, asked, verdict>>

OllamaIsUp ==
    /\ step = "health"
    /\ Ask("ollama", "propose")
    /\ UNCHANGED <<setup, asked, verdict>>

OllamaPauses ==
    /\ step = "ollama"
    /\ task = "propose"
    /\ attempt < OLLAMA_MAX_RETRIES
    /\ step' = "ollama_pause"
    /\ UNCHANGED <<setup, task, attempt, draft, answer, asked, verdict>>

OllamaRetries ==
    /\ step = "ollama_pause"
    /\ step' = "ollama"
    /\ attempt' = NextAttempt(attempt)
    /\ UNCHANGED <<setup, task, draft, answer, asked, verdict>>

\* The review by Ollama is one request: without an answer there is no review.
OllamaFails ==
    /\ step = "ollama"
    /\ IF task = "review"
       THEN Judged(UnavailableReview)
       ELSE Ask("ipex", "propose")
    /\ UNCHANGED <<setup, asked, verdict>>

OllamaProposes(reply) ==
    /\ step = "ollama"
    /\ task = "propose"
    /\ Proposed(reply, Ask("ipex", "propose"))
    /\ UNCHANGED <<setup, asked>>

OllamaJudges(v) ==
    /\ step = "ollama"
    /\ task = "review"
    /\ Judged(v)
    /\ verdict' = v
    /\ UNCHANGED <<setup, asked>>

-----------------------------------------------------------------------------
(* run_ipex_engine: the worker may send a command, also an empty one.      *)

IpexProposes(reply) ==
    /\ step = "ipex"
    /\ ipex
    /\ Review(Response("L2_LLM", "llm_command", Cleaned(reply), "unreviewed"))
    /\ UNCHANGED <<setup, asked>>

\* Not installed, an error of the worker, its death (EOFError), or a timeout.
IpexFails ==
    /\ step = "ipex"
    /\ Ask("rules", "none")
    /\ UNCHANGED <<setup, asked, verdict>>

\* _rule_based_fallback; its commands are not reviewed.
RuleMatches(kind) ==
    /\ step = "rules"
    /\ Answer(Response("RULE", "rule_command", kind, "unreviewed"))
    /\ UNCHANGED <<setup, asked, verdict>>

NoRuleMatches ==
    /\ step = "rules"
    /\ Answer(Response("L2_LLM", "escalate", "absent", "unreviewed"))
    /\ UNCHANGED <<setup, asked, verdict>>

\* The caller takes the answer, or logs the exception, and goes on.
Deliver ==
    /\ step \in {"answered", "raised"}
    /\ step' = "idle"
    /\ answer' = NoResponse
    /\ verdict' = "none"
    /\ UNCHANGED <<setup, task, attempt, draft, asked>>

Resolve ==
    \/ NothingFound
    \/ \E h \in PlaybookHits : Hit(h[1], h[2])
    \/ Miss
    \/ GroqPauses
    \/ GroqRetries
    \/ GroqFails
    \/ GroqAnswersNull
    \/ \E d \in Diagnoses \cup {Unparsed} : Diagnosed(d)
    \/ \E r \in Replies : \/ GroqProposes(r)
                          \/ OllamaProposes(r)
                          \/ IpexProposes(r)
    \/ \E v \in {"yes", "no"} : GroqJudges(v) \/ OllamaJudges(v)
    \/ HealthCheckFails
    \/ OllamaIsUp
    \/ OllamaPauses
    \/ OllamaRetries
    \/ OllamaFails
    \/ IpexFails
    \/ \E k \in {"read_only", "targeted"} : RuleMatches(k)
    \/ NoRuleMatches
    \/ Deliver

EscNext == (\E e \in {"analyze", "batch"} : Begin(e)) \/ Resolve

EscSpec == EscInit /\ [][EscNext]_escVars

-----------------------------------------------------------------------------
Responses == [source : {"none", "L1_CACHE", "L2_LLM", "RULE"}, action : Actions,
              arg : Kinds \cup {"absent"}, safe : Safety]

EscTypeOK ==
    /\ provider \in Providers
    /\ keySet \in BOOLEAN
    /\ ipex \in BOOLEAN
    /\ step \in {"idle", "analyze", "batch", "groq", "groq_pause", "health", "ollama",
                 "ollama_pause", "ipex", "rules", "answered", "raised"}
    /\ task \in {"none", "diagnose", "propose", "review"}
    /\ attempt \in Nat
    /\ draft \in Responses
    /\ answer \in Responses
    /\ asked \in BOOLEAN
    /\ verdict \in {"none"} \cup Safety

\* Nothing is sent to Groq unless the log of the start has said so: whatever key
\* is set, whatever was mistyped for a mode, and whatever the local back ends do.
LocalStaysLocal == asked => Announced = "texts are sent out"

\* What a language model chose to run or restart or kill leaves the engine with
\* a verdict or marked as unreviewed by failure; a command that the fixed rules
\* do not settle passes only on the word of a reviewer, and PID 1 never does.
ChosenByModelIsReviewed ==
    step = "answered" /\ answer.source = "L2_LLM" /\ HasCommand(answer) =>
        /\ answer.safe # "unreviewed"
        /\ answer.arg = "pid1" => answer.safe = "no"
        /\ SettledVerdict(answer.arg) = "open" /\ answer.safe = "yes" => verdict = "yes"

\* What an answer tells and what it took to get it stay within the operator's
\* mode and behind a review.
AnswersAreSafe == LocalStaysLocal /\ ChosenByModelIsReviewed
=============================================================================
