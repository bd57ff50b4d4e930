-------------------------------- MODULE Notify --------------------------------
(***************************************************************************)
(* How messages for people leave a process: AgentObserver.log_event of     *)
(* src/observability.py, the approval requests and proposals of            *)
(* src/executor.py, the reports of the main loop and of                    *)
(* scripts/check_pipeline_health.py, over src/telegram_bot.py or           *)
(* src/slack_bot.py.                                                       *)
(*                                                                         *)
(* The network may show a message and report an error all the same.  What  *)
(* is given to Telegram's polling loop is only scheduled: the sender goes  *)
(* on, and what the loop has not sent is lost when it or the process ends. *)
(***************************************************************************)
EXTENDS Naturals

CONSTANTS
    Senders,       \* threads that send
    MaxMessages,   \* bound: messages begun
    MaxExits       \* bound: ends of the process

ASSUME NotifyAssumption == {MaxMessages, MaxExits} \subseteq Nat

VARIABLES
    webhook,   \* SLACK_WEBHOOK_URL is set
    bot,       \* TelegramChatOps: "off", "starting", "polling" or "closed"
    job,       \* the message each sender is at, and where: [id, at]
    queue,     \* messages scheduled in the polling loop
    kindOf,    \* history: what a message is, "none" before it is begun
    stored,    \* history: messages whose row has been committed
    shown,     \* history: how often people see a message
    exits

notifyVars == <<webhook, bot, job, queue, kindOf, stored, shown, exits>>
processVars == <<webhook, bot, exits>>

Messages == 1..MaxMessages
\* A row of metrics, without an alert or with one (a failure, an escalation); a
\* pending approval; what is only sent: proposals, reports, the health check.
MessageKinds == {"success", "failure", "request", "report"}
NoJob == [id |-> 0, at |-> "idle"]

NotifyInit ==
    /\ webhook \in BOOLEAN
    /\ bot \in {"off", "starting"}
    /\ job = [t \in Senders |-> NoJob]
    /\ queue = {}
    /\ kindOf = [m \in Messages |-> "none"]
    /\ stored = {}
    /\ shown = [m \in Messages |-> 0]
    /\ exits = 0

At(t, at) == job[t].at = at
MoveTo(t, at) ==
    job' = [job EXCEPT ![t] = IF at = "idle" THEN NoJob ELSE [@ EXCEPT !.at = at]]

\* A message has no more than one row, and its sender no other message.
BeginMessage(t, m, kind) ==
    /\ At(t, "idle")
    /\ kindOf[m] = "none"
    /\ \A n \in 1..(m - 1) : kindOf[n] # "none"
    /\ kindOf' = [kindOf EXCEPT ![m] = kind]
    /\ job' = [job EXCEPT ![t] = [id |-> m, at |-> IF kind = "report" THEN "choose" ELSE "store"]]
    /\ UNCHANGED <<processVars, queue, stored, shown>>

\* The INSERT of log_event, the one of create_request.
Store(t) ==
    /\ At(t, "store")
    /\ stored' = stored \cup {job[t].id}
    /\ MoveTo(t, IF kindOf[job[t].id] = "success" THEN "idle" ELSE "choose")
    /\ UNCHANGED <<processVars, queue, kindOf, shown>>

\* log_event logs the exception and returns, create_request lets it through.
NotStored == "idle"

StoreFails(t) ==
    /\ At(t, "store")
    /\ MoveTo(t, NotStored)
    /\ UNCHANGED <<processVars, queue, kindOf, stored, shown>>

\* get_chatops_client: Telegram when it is enabled, also when it polls no more.
Choose(t) ==
    /\ At(t, "choose")
    /\ MoveTo(t, IF bot = "off" THEN "slack" ELSE "telegram")
    /\ UNCHANGED <<processVars, queue, kindOf, stored, shown>>

Seen(m) == shown' = [shown EXCEPT ![m] = @ + 1]

\* Wrong variant: what Telegram reports as failed goes to Slack.
SlackOnFalse(ok) == IF ok THEN "idle" ELSE "slack"

\* send_notification and send_approval_request catch their exceptions, and
\* nobody looks at the False they return.
AfterTelegram(ok) == "idle"

\* No loop yet: the coroutine is run here, to its end.
SendByItself(t) ==
    /\ At(t, "telegram")
    /\ bot = "starting"
    /\ Seen(job[t].id) \/ UNCHANGED shown
    /\ \E ok \in BOOLEAN : MoveTo(t, AfterTelegram(ok))
    /\ UNCHANGED <<processVars, queue, kindOf, stored>>

\* run_coroutine_threadsafe
Schedule(t) ==
    /\ At(t, "telegram")
    /\ bot = "polling"
    /\ queue' = queue \cup {job[t].id}
    /\ MoveTo(t, AfterTelegram(TRUE))
    /\ UNCHANGED <<processVars, kindOf, stored, shown>>

\* The loop is closed, and Telegram still enabled.
ScheduleRaises(t) ==
    /\ At(t, "telegram")
    /\ bot = "closed"
    /\ MoveTo(t, AfterTelegram(FALSE))
    /\ UNCHANGED <<processVars, queue, kindOf, stored, shown>>

\* Without a webhook only a warning is logged.
SendSlack(t) ==
    /\ At(t, "slack")
    /\ (webhook /\ Seen(job[t].id)) \/ UNCHANGED shown
    /\ MoveTo(t, "idle")
    /\ UNCHANGED <<processVars, queue, kindOf, stored>>

-----------------------------------------------------------------------------
(* The polling thread                                                      *)

LoopStored ==
    /\ bot = "starting"
    /\ bot' = "polling"
    /\ UNCHANGED <<webhook, exits, job, queue, kindOf, stored, shown>>

SendScheduled(m) ==
    /\ m \in queue
    /\ queue' = queue \ {m}
    /\ Seen(m) \/ UNCHANGED shown
    /\ UNCHANGED <<processVars, job, kindOf, stored>>

\* run_polling ends or raises: the loop is closed, and _loop keeps it.
PollingEnds ==
    /\ bot = "polling"
    /\ bot' = "closed"
    /\ queue' = {}
    /\ UNCHANGED <<webhook, exits, job, kindOf, stored, shown>>

\* The end of the agent, or of a script that has just scheduled its message, and
\* the next start.
Exit ==
    /\ exits < MaxExits
    /\ exits' = exits + 1
    /\ bot' = IF bot = "off" THEN "off" ELSE "starting"
    /\ job' = [t \in Senders |-> NoJob]
    /\ queue' = {}
    /\ UNCHANGED <<webhook, kindOf, stored, shown>>

NotifyNext ==
    \/ \E t \in Senders :
          \/ \E m \in Messages, k \in MessageKinds : BeginMessage(t, m, k)
          \/ Store(t) \/ StoreFails(t) \/ Choose(t)
          \/ SendByItself(t) \/ Schedule(t) \/ ScheduleRaises(t) \/ SendSlack(t)
    \/ LoopStored
    \/ \E m \in Messages : SendScheduled(m)
    \/ PollingEnds
    \/ Exit

NotifySpec == NotifyInit /\ [][NotifyNext]_notifyVars

-----------------------------------------------------------------------------
NotifyTypeOK ==
    /\ webhook \in BOOLEAN
    /\ bot \in {"off", "starting", "polling", "closed"}
    /\ job \in [Senders -> [id : 0..MaxMessages,
                            at : {"idle", "store", "choose", "telegram", "slack"}]]
    /\ queue \subseteq Messages
    /\ kindOf \in [Messages -> MessageKinds \cup {"none"}]
    /\ stored \subseteq Messages
    /\ shown \in [Messages -> Nat]
    /\ exits \in 0..MaxExits

\* People see a message at most once, although a channel may fail after it has
\* shown it and there is a second channel, and what has a row only when the row
\* was committed: a request for approval can be answered, an alert looked up.
ShownOnceAndStored ==
    \A m \in Messages :
        /\ shown[m] <= 1
        /\ shown[m] > 0 => kindOf[m] = "report" \/ m \in stored
=============================================================================
