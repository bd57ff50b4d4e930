------------------------------- MODULE Approval -------------------------------
(***************************************************************************)
(* The human approval of an action: the pending_approvals table of         *)
(* src/approval_store.py, the executor that waits for a decision           *)
(* (_await_approval in src/executor.py, in daemon mode), and the two       *)
(* places where people decide: the Telegram bot inside the agent's process *)
(* and the threads of the approval server, a process of its own.           *)
(*                                                                         *)
(* Each SQL statement is one step.  approval_store's _lock is a lock of    *)
(* one process: it keeps the bot and the waiters apart, and the threads of *)
(* the approval server from each other, but not the two processes.         *)
(*                                                                         *)
(* The two clocks are ages that saturate where the code compares them: a   *)
(* row of age EXPIRY_MINUTES is past its expires_at, a waiter that has     *)
(* waited APPROVAL_TIMEOUT_SEC is past its deadline.  Neither bound is     *)
(* assumed to be the shorter: the timeout comes from the environment.      *)
(***************************************************************************)
EXTENDS Naturals

CONSTANTS
    Waiters,              \* threads that run the pipeline
    Tokens,               \* the tokens create_request draws, never twice
    Bot,                  \* the Telegram callback handler
    WebThreads,           \* request handlers of the approval server
    EXPIRY_MINUTES,       \* in ticks of the model's clock
    APPROVAL_TIMEOUT_SEC, \* in ticks of the model's clock
    MaxRestarts,          \* bound: how often the agent's process dies
    Null                  \* no token

ASSUME ApprovalAssumption ==
    /\ EXPIRY_MINUTES \in Nat \ {0}
    /\ APPROVAL_TIMEOUT_SEC \in Nat \ {0}
    /\ MaxRestarts \in Nat
    /\ Bot \notin WebThreads
    /\ Null \notin Tokens

VARIABLES
    row,      \* the pending_approvals table
    waiter,   \* what each pipeline thread waits for
    click,    \* the click each handler is working on
    stopping, \* the shutdown event is set
    restarts, \* how often the agent's process died
    ran,      \* history: how often the action of a token was carried out
    told,     \* history: the decisions people were told to have taken, by token
    orphaned  \* history: tokens whose waiter died of an exception or a restart

vars == <<row, waiter, click, stopping, restarts, ran, told, orphaned>>

Clickers == WebThreads \cup {Bot}
Decisions == {"approved", "rejected"}
Statuses == Decisions \cup {"absent", "pending", "expired"}

\* The age saturates at the expiry, the wait at the timeout.
Up(n, max) == IF n < max THEN n + 1 ELSE n

\* _is_past
IsPast(r) == r.age = EXPIRY_MINUTES

Resting == [at |-> "idle", token |-> Null, waited |-> 0]
NoClick == [at |-> "idle", token |-> Null, want |-> "rejected"]

-----------------------------------------------------------------------------
Init ==
    /\ row      = [t \in Tokens |-> [status |-> "absent", age |-> 0]]
    /\ waiter   = [w \in Waiters |-> Resting]
    /\ click    = [c \in Clickers |-> NoClick]
    /\ stopping = FALSE
    /\ restarts = 0
    /\ ran      = [t \in Tokens |-> 0]
    /\ told     = [t \in Tokens |-> {}]
    /\ orphaned = {}

-----------------------------------------------------------------------------
(* The waiter *)

\* create_request; the token goes out with the notification, which may fail.
CreateRequest(w, t) ==
    /\ waiter[w].at = "idle"
    /\ row[t].status = "absent"
    /\ row'    = [row EXCEPT ![t] = [status |-> "pending", age |-> 0]]
    /\ waiter' = [waiter EXCEPT ![w] = [at |-> "notify", token |-> t, waited |-> 0]]
    /\ UNCHANGED <<click, stopping, restarts, ran, told, orphaned>>

\* The notification was sent, or was given up; the deadline counts from here.
StartWaiting(w) ==
    /\ waiter[w].at = "notify"
    /\ waiter' = [waiter EXCEPT ![w].at = "test"]
    /\ UNCHANGED <<row, click, stopping, restarts, ran, told, orphaned>>

\* Wrong variant: the loop does not look at the deadline.
LoopTestForever(w) ==
    /\ waiter[w].at = "test"
    /\ waiter' = [waiter EXCEPT ![w].at = IF stopping THEN "give_up" ELSE "poll"]
    /\ UNCHANGED <<row, click, stopping, restarts, ran, told, orphaned>>

\* The head of the polling loop: the deadline, then the shutdown event, then
\* the sleep that ends with the poll.
LoopTest(w) ==
    /\ waiter[w].at = "test"
    /\ waiter' = [waiter EXCEPT ![w].at =
                    IF waiter[w].waited = APPROVAL_TIMEOUT_SEC \/ stopping
                    THEN "give_up" ELSE "poll"]
    /\ UNCHANGED <<row, click, stopping, restarts, ran, told, orphaned>>

\* Wrong variant: a shutdown that began during the sleep comes before the poll.
PollUnlessStopping(w) ==
    /\ waiter[w].at = "poll"
    /\ LET status == row[waiter[w].token].status IN
       waiter' = [waiter EXCEPT ![w] =
                    IF status = "rejected" THEN Resting
                    ELSE [@ EXCEPT !.at = IF stopping THEN "give_up"
                                          ELSE IF status = "approved" THEN "run"
                                          ELSE "test"]]
    /\ UNCHANGED <<row, click, stopping, restarts, ran, told, orphaned>>

\* get_status after the sleep; a row past its expiry reads as "expired", on
\* which the loop goes on as on a pending one.
Poll(w) ==
    /\ waiter[w].at = "poll"
    /\ LET status == row[waiter[w].token].status IN
       waiter' = [waiter EXCEPT ![w] =
                    IF status = "rejected" THEN Resting
                    ELSE [@ EXCEPT !.at = IF status = "approved" THEN "run" ELSE "test"]]
    /\ UNCHANGED <<row, click, stopping, restarts, ran, told, orphaned>>

\* Wrong variant: the wait ends without marking the row.
MarkExpiredNot(w) ==
    /\ waiter[w].at = "give_up"
    /\ waiter' = [waiter EXCEPT ![w] = Resting]
    /\ UNCHANGED <<row, click, stopping, restarts, ran, told, orphaned>>

\* mark_expired, on a timeout or a shutdown; only a pending row changes, and
\* the return value is dropped.
MarkExpired(w) ==
    /\ waiter[w].at = "give_up"
    /\ click[Bot].at # "update"
    /\ LET t == waiter[w].token IN
       row' = [row EXCEPT ![t].status = IF @ = "pending" THEN "expired" ELSE @]
    /\ waiter' = [waiter EXCEPT ![w] = Resting]
    /\ UNCHANGED <<click, stopping, restarts, ran, told, orphaned>>

\* "approved" was returned: the command or the structured action is run.
Run(w) ==
    /\ waiter[w].at = "run"
    /\ ran'    = [ran EXCEPT ![waiter[w].token] = @ + 1]
    /\ waiter' = [waiter EXCEPT ![w] = Resting]
    /\ UNCHANGED <<row, click, stopping, restarts, told, orphaned>>

\* An SQL statement of the waiter raises (a locked database): the exception
\* leaves _await_approval and execute, and nobody marks the row.
WaiterRaises(w) ==
    /\ waiter[w].at \in {"poll", "give_up"}
    /\ orphaned' = orphaned \cup {waiter[w].token}
    /\ waiter'   = [waiter EXCEPT ![w] = Resting]
    /\ UNCHANGED <<row, click, stopping, restarts, ran, told>>

WaiterStep(w) ==
    \/ StartWaiting(w)
    \/ LoopTest(w)
    \/ Poll(w)
    \/ MarkExpired(w)
    \/ Run(w)

-----------------------------------------------------------------------------
(* The people who decide *)

\* Someone presses a button: _handle_callback goes straight to set_decision,
\* the approval server looks at the status first.
Press(c, t, d) ==
    /\ click[c].at = "idle"
    /\ row[t].status # "absent"
    /\ click' = [click EXCEPT ![c] =
                   [at |-> IF c = Bot THEN "select" ELSE "check", token |-> t, want |-> d]]
    /\ UNCHANGED <<row, waiter, stopping, restarts, ran, told, orphaned>>

\* The handler answers and is done; told keeps the answers that report a
\* decision as taken.
Answer(c, reply) ==
    /\ told'  = [told EXCEPT ![click[c].token] =
                    IF reply = "refused" THEN @ ELSE @ \cup {<<c, reply>>}]
    /\ click' = [click EXCEPT ![c] = NoClick]

\* _check_status of the approval server, a connection of its own.
CheckStatus(c) ==
    LET r == row[click[c].token] IN
    /\ click[c].at = "check"
    /\ \/ /\ r.status = "pending" /\ ~IsPast(r)
          /\ click' = [click EXCEPT ![c].at = "select"]
          /\ UNCHANGED told
       \/ /\ r.status # "pending" \/ IsPast(r)
          /\ Answer(c, "refused")
    /\ UNCHANGED <<row, waiter, stopping, restarts, ran, orphaned>>

\* Wrong variant: the bot does not look at what set_decision returned either.
ReplyRegardless(c, done) == click[c].want

\* The bot answers by what set_decision returned, the approval server shows
\* its page whatever it returned.
Reply(c, done) == IF c = Bot /\ ~done THEN "refused" ELSE click[c].want

\* Handlers of one process that share approval_store's _lock with c.
Rivals(c) == IF c = Bot THEN {} ELSE WebThreads \ {c}

\* set_decision takes the lock and reads expires_at.
SelectExpiry(c) ==
    /\ click[c].at = "select"
    /\ \A d \in Rivals(c) : click[d].at # "update"
    /\ \/ /\ IsPast(row[click[c].token])
          /\ Answer(c, Reply(c, FALSE))
       \/ /\ ~IsPast(row[click[c].token])
          /\ click' = [click EXCEPT ![c].at = "update"]
          /\ UNCHANGED told
    /\ UNCHANGED <<row, waiter, stopping, restarts, ran, orphaned>>

\* Wrong variant: UPDATE without AND status = 'pending'.
DecidedAnyway(status, want) == want

\* Wrong variant: the button's action is stored instead of the decision.
DecidedRaw(status, want) ==
    IF status # "pending" THEN status
    ELSE IF want = "approved" THEN "approve" ELSE "reject"

\* UPDATE ... WHERE token = ? AND status = 'pending'.
Decided(status, want) == IF status = "pending" THEN want ELSE status

\* set_decision writes; rowcount tells whether the row was still pending.
UpdateStatus(c) ==
    LET t == click[c].token IN
    /\ click[c].at = "update"
    /\ row' = [row EXCEPT ![t].status = Decided(@, click[c].want)]
    /\ Answer(c, Reply(c, row[t].status = "pending"))
    /\ UNCHANGED <<waiter, stopping, restarts, ran, orphaned>>

\* An SQL statement of the handler raises: nobody is told anything.
ClickRaises(c) ==
    /\ click[c].at # "idle"
    /\ click' = [click EXCEPT ![c] = NoClick]
    /\ UNCHANGED <<row, waiter, stopping, restarts, ran, told, orphaned>>

ClickStep(c) ==
    \/ CheckStatus(c)
    \/ SelectExpiry(c)
    \/ UpdateStatus(c)

-----------------------------------------------------------------------------
(* The process and the clock *)

\* SIGTERM or SIGINT sets the shutdown event.
Sigterm ==
    /\ ~stopping
    /\ stopping' = TRUE
    /\ UNCHANGED <<row, waiter, click, restarts, ran, told, orphaned>>

\* The agent's process is gone, waiters and bot with it, and is started again:
\* a kill, or the end of a shutdown that did not wait for them.
Restart ==
    /\ restarts < MaxRestarts
    /\ restarts' = restarts + 1
    /\ stopping' = FALSE
    /\ orphaned' = orphaned \cup {t \in Tokens : \E w \in Waiters : waiter[w].token = t}
    /\ waiter'   = [w \in Waiters |-> Resting]
    /\ click'    = [click EXCEPT ![Bot] = NoClick]
    /\ UNCHANGED <<row, ran, told>>

\* The wall clock advances.
Tick ==
    /\ row' = [t \in Tokens |->
                 IF row[t].status = "absent" THEN row[t]
                 ELSE [row[t] EXCEPT !.age = Up(@, EXPIRY_MINUTES)]]
    /\ waiter' = [w \in Waiters |->
                    IF waiter[w].at \in {"test", "poll"}
                    THEN [waiter[w] EXCEPT !.waited = Up(@, APPROVAL_TIMEOUT_SEC)]
                    ELSE waiter[w]]
    /\ UNCHANGED <<click, stopping, restarts, ran, told, orphaned>>

Next ==
    \/ \E w \in Waiters, t \in Tokens : CreateRequest(w, t)
    \/ \E w \in Waiters : WaiterStep(w)
    \/ \E c \in Clickers, t \in Tokens, d \in Decisions : Press(c, t, d)
    \/ \E w \in Waiters : WaiterRaises(w)
    \/ \E c \in Clickers : ClickStep(c)
    \/ \E c \in Clickers : ClickRaises(c)
    \/ Sigterm
    \/ Restart
    \/ Tick

Spec == Init /\ [][Next]_vars

\* A thread that can run runs, a handler that began its work ends it, time
\* passes.  Nobody has to press a button, and no fault has to happen.
FairSpec ==
    /\ Spec
    /\ \A w \in Waiters : WF_vars(WaiterStep(w))
    /\ \A c \in Clickers : WF_vars(ClickStep(c))
    /\ WF_vars(Tick)

-----------------------------------------------------------------------------
TypeOK ==
    /\ row \in [Tokens -> [status : Statuses, age : 0..EXPIRY_MINUTES]]
    /\ waiter \in [Waiters -> [at     : {"idle", "notify", "test", "poll", "give_up", "run"},
                               token  : Tokens \cup {Null},
                               waited : 0..APPROVAL_TIMEOUT_SEC]]
    /\ click \in [Clickers -> [at    : {"idle", "check", "select", "update"},
                               token : Tokens \cup {Null},
                               want  : Decisions]]
    /\ stopping \in BOOLEAN
    /\ restarts \in 0..MaxRestarts
    /\ ran \in [Tokens -> Nat]
    /\ told \in [Tokens -> SUBSET (Clickers \X Decisions)]
    /\ orphaned \subseteq Tokens

WaitsFor(t) == {w \in Waiters : waiter[w].token = t}

\* An action that was carried out was carried out once, and the table says, and
\* keeps saying, that a person approved it, however the clicks of the two
\* processes, the timeout and a restart interleave.
RunsAreApproved ==
    \A t \in Tokens : ran[t] > 0 => ran[t] = 1 /\ row[t].status = "approved"

\* A request that can still be decided has somebody waiting for the decision,
\* or lost him to an exception or a crash: the end of a wait closes the request
\* (approval_store.py:168-173).
PendingIsAwaited ==
    \A t \in Tokens :
        row[t].status = "pending" => WaitsFor(t) # {} \/ t \in orphaned

\* What the Telegram bot answers is what the table says, even if the approval
\* server, a timeout or a shutdown decides the same request at the same time.
BotTellsTruth ==
    \A t \in Tokens, d \in Decisions :
        <<Bot, d>> \in told[t] => row[t].status = d

\* An approval that arrives while the waiter sleeps is carried out, even if the
\* deadline or the shutdown signal comes during the same sleep; only an
\* exception or the death of the process prevents it.
ApprovedInSleepRuns ==
    \A w \in Waiters, t \in Tokens :
        (waiter[w].at = "poll" /\ waiter[w].token = t /\ row[t].status = "approved")
            ~> (ran[t] = 1 \/ t \in orphaned)

\* Every wait ends.
WaitEnds == \A w \in Waiters : waiter[w].at # "idle" ~> waiter[w].at = "idle"

\* telegram_bot.py:113 answers that the command is being run: an approval that
\* was accepted is carried out or about to be.
ApprovedIsRun ==
    \A t \in Tokens :
        row[t].status = "approved" => ran[t] = 1 \/ WaitsFor(t) # {}

\* approval_server.py:76 says on its page that the command is run.
PageTellsTruth ==
    \A t \in Tokens, c \in WebThreads :
        <<c, "approved">> \in told[t] => row[t].status = "approved"

=============================================================================
