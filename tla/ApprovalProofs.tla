---------------------------- MODULE ApprovalProofs ----------------------------
(***************************************************************************)
(* Proofs about Approval for every set of waiters, tokens and web threads, *)
(* every expiry and every timeout.                                         *)
(***************************************************************************)
EXTENDS Approval, TLAPS

\* A waiter has a token of its own, which has a row and was not acted upon; it
\* goes on to act only when the row says approved.
WaitersOwn ==
    \A w \in Waiters :
        LET t == waiter[w].token IN
        /\ waiter[w].at = "idle" <=> t = Null
        /\ t \in Tokens => row[t].status # "absent" /\ ran[t] = 0
        /\ waiter[w].at = "run" => row[t].status = "approved"
        /\ \A v \in Waiters : t \in Tokens /\ waiter[v].token = t => v = w

\* Buttons exist for requests only.
ClicksExist ==
    \A c \in Clickers :
        LET t == click[c].token IN
        /\ click[c].at = "idle" <=> t = Null
        /\ t \in Tokens => row[t].status # "absent"

IInv ==
    /\ TypeOK
    /\ WaitersOwn
    /\ ClicksExist
    /\ RunsAreApproved
    /\ PendingIsAwaited
    /\ BotTellsTruth

-----------------------------------------------------------------------------
LEMMA InitIInv == Init => IInv
<1> SUFFICES ASSUME Init PROVE IInv
  OBVIOUS
<1> USE ApprovalAssumption
<1>1. TypeOK
  <2>1. row \in [Tokens -> [status : Statuses, age : 0..EXPIRY_MINUTES]]
    BY DEF Init, Statuses
  <2>2. Resting \in [at     : {"idle", "notify", "test", "poll", "give_up", "run"},
                     token  : Tokens \cup {Null},
                     waited : 0..APPROVAL_TIMEOUT_SEC]
    BY DEF Resting
  <2>3. NoClick \in [at    : {"idle", "check", "select", "update"},
                     token : Tokens \cup {Null},
                     want  : Decisions]
    BY DEF NoClick, Decisions
  <2>4. told \in [Tokens -> SUBSET (Clickers \X Decisions)] /\ orphaned \subseteq Tokens
    BY DEF Init
  <2>5. ran \in [Tokens -> Nat] /\ restarts \in 0..MaxRestarts
    BY DEF Init
  <2>6. waiter = [w \in Waiters |-> Resting] /\ click = [c \in Clickers |-> NoClick]
    BY DEF Init
  <2>7. stopping = FALSE
    BY DEF Init
  <2> QED
    BY <2>1, <2>2, <2>3, <2>4, <2>5, <2>6, <2>7 DEF TypeOK
<1>2. WaitersOwn /\ ClicksExist
  BY DEF Init, WaitersOwn, ClicksExist, Resting, NoClick
<1>3. RunsAreApproved /\ PendingIsAwaited /\ BotTellsTruth
  BY DEF Init, RunsAreApproved, PendingIsAwaited, BotTellsTruth
<1> QED
  BY <1>1, <1>2, <1>3 DEF IInv

\* A step in which a waiter only moves on, to act if its row is approved.
LEMMA MoveOn ==
    ASSUME IInv, NEW w \in Waiters, waiter[w].at # "idle",
           NEW a \in {"test", "poll", "give_up", "run"},
           a = "run" => row[waiter[w].token].status = "approved",
           waiter' = [waiter EXCEPT ![w].at = a],
           UNCHANGED <<row, click, stopping, restarts, ran, told, orphaned>>
    PROVE  IInv'
<1> USE ApprovalAssumption DEF IInv
<1>1. TypeOK'
  BY DEF TypeOK
<1>2. \A v \in Waiters : /\ waiter'[v].token = waiter[v].token
                         /\ waiter'[v].at = IF v = w THEN a ELSE waiter[v].at
  BY DEF TypeOK
<1>3. WaitersOwn'
  BY <1>2 DEF WaitersOwn, TypeOK
<1>4. ClicksExist' /\ RunsAreApproved' /\ BotTellsTruth'
  BY DEF ClicksExist, RunsAreApproved, BotTellsTruth
<1>5. PendingIsAwaited'
  BY <1>2 DEF PendingIsAwaited, WaitsFor
<1> QED
  BY <1>1, <1>3, <1>4, <1>5

\* A step in which a waiter ends its wait, its request no longer pending.
LEMMA WaitOver ==
    ASSUME IInv, NEW w \in Waiters, waiter[w].at # "idle",
           waiter' = [waiter EXCEPT ![w] = Resting],
           row[waiter[w].token].status # "pending",
           UNCHANGED <<row, click, stopping, restarts, ran, told, orphaned>>
    PROVE  IInv'
<1> USE ApprovalAssumption DEF IInv
<1>1. TypeOK'
  BY DEF TypeOK, Resting
<1>2. \A v \in Waiters : waiter'[v] = IF v = w THEN Resting ELSE waiter[v]
  BY DEF TypeOK
<1>3. WaitersOwn'
  BY <1>2 DEF WaitersOwn, TypeOK, Resting
<1>4. ClicksExist' /\ RunsAreApproved' /\ BotTellsTruth'
  BY DEF ClicksExist, RunsAreApproved, BotTellsTruth
<1>5. PendingIsAwaited'
  BY <1>2 DEF PendingIsAwaited, WaitsFor
<1> QED
  BY <1>1, <1>3, <1>4, <1>5

\* A handler takes up a click, moves on or answers; the table does not change.
LEMMA ClickMoves ==
    ASSUME IInv, NEW c \in Clickers, NEW k,
           k \in [at : {"idle", "check", "select", "update"},
                  token : Tokens \cup {Null}, want : Decisions],
           k.at = "idle" <=> k.token = Null,
           k.token \in Tokens => row[k.token].status # "absent",
           click' = [click EXCEPT ![c] = k],
           told' \in [Tokens -> SUBSET (Clickers \X Decisions)],
           \A t \in Tokens, d \in Decisions :
               <<Bot, d>> \in told'[t] => <<Bot, d>> \in told[t],
           UNCHANGED <<row, waiter, stopping, restarts, ran, orphaned>>
    PROVE  IInv'
<1> USE ApprovalAssumption DEF IInv
<1>1. TypeOK'
  BY DEF TypeOK
<1>2. \A d \in Clickers : click'[d] = IF d = c THEN k ELSE click[d]
  BY DEF TypeOK
<1>3. ClicksExist'
  BY <1>2 DEF ClicksExist
<1>4. WaitersOwn' /\ RunsAreApproved' /\ PendingIsAwaited' /\ BotTellsTruth'
  BY DEF WaitersOwn, RunsAreApproved, PendingIsAwaited, WaitsFor, BotTellsTruth
<1> QED
  BY <1>1, <1>3, <1>4

LEMMA StepIInv == IInv /\ [Next]_vars => IInv'
<1> SUFFICES ASSUME IInv, [Next]_vars PROVE IInv'
  OBVIOUS
<1> USE ApprovalAssumption DEF IInv
<1>1. ASSUME NEW w \in Waiters, NEW t \in Tokens, CreateRequest(w, t)
      PROVE  IInv'
  <2> DEFINE k == [at |-> "notify", token |-> t, waited |-> 0]
  <2>1. TypeOK'
    BY <1>1 DEF CreateRequest, TypeOK, Statuses
  <2>2. /\ \A v \in Waiters : waiter'[v] = IF v = w THEN k ELSE waiter[v]
        /\ \A u \in Tokens \ {t} : row'[u] = row[u]
        /\ row'[t].status = "pending"
        /\ row[t].status = "absent"
        /\ ran' = ran /\ told' = told /\ click' = click /\ orphaned' = orphaned
    BY <1>1 DEF CreateRequest, TypeOK
  <2>3. /\ ran[t] = 0
        /\ \A v \in Waiters : waiter[v].token # t
        /\ \A d \in Decisions : <<Bot, d>> \notin told[t]
    <3>1. row[t].status = "absent"
      BY <2>2
    <3>2. ran[t] = 0
      <4>1. ran[t] \in Nat /\ ~(ran[t] > 0)
        BY <3>1 DEF RunsAreApproved, TypeOK
      <4> QED
        BY <4>1
    <3>3. \A v \in Waiters : waiter[v].token # t
      BY <3>1 DEF WaitersOwn
    <3>4. \A d \in Decisions : <<Bot, d>> \notin told[t]
      BY <3>1 DEF BotTellsTruth, Decisions
    <3> QED
      BY <3>2, <3>3, <3>4
  <2>4. WaitersOwn'
    <3>1. ASSUME NEW v \in Waiters \ {w}, NEW u, u = waiter[v].token
          PROVE  /\ waiter'[v] = waiter[v]
                 /\ u \in Tokens => u # t /\ row'[u] = row[u]
      BY <2>2, <2>3, <3>1
    <3>2. waiter'[w] = k
      BY <2>2
    <3>3. ASSUME NEW v \in Waiters
          PROVE  LET u == waiter'[v].token IN
                 /\ waiter'[v].at = "idle" <=> u = Null
                 /\ u \in Tokens => row'[u].status # "absent" /\ ran'[u] = 0
                 /\ waiter'[v].at = "run" => row'[u].status = "approved"
      <4>1. CASE v = w
        BY <2>2, <2>3, <3>2, <4>1
      <4>2. CASE v # w
        <5>1. waiter[v].at = "run" => waiter[v].token \in Tokens
          BY DEF WaitersOwn, TypeOK
        <5> QED
          BY <2>2, <3>1, <4>2, <5>1 DEF WaitersOwn
      <4> QED
        BY <4>1, <4>2
    <3>4. ASSUME NEW v \in Waiters, NEW x \in Waiters,
                 waiter'[v].token \in Tokens, waiter'[x].token = waiter'[v].token
          PROVE  x = v
      <4>1. \A y \in Waiters \ {w} : waiter'[y] = waiter[y] /\ waiter[y].token # t
        BY <2>2, <2>3
      <4>2. waiter'[w].token = t
        BY <3>2
      <4> QED
        BY <3>4, <4>1, <4>2 DEF WaitersOwn
    <3> QED
      BY <3>3, <3>4 DEF WaitersOwn
  <2>5. ClicksExist'
    <3>1. ASSUME NEW c \in Clickers, click[c].token \in Tokens
          PROVE  row'[click[c].token].status # "absent"
      BY <2>2, <3>1 DEF ClicksExist
    <3> QED
      BY <2>2, <3>1 DEF ClicksExist
  <2>6. RunsAreApproved' /\ BotTellsTruth'
    BY <2>2, <2>3 DEF RunsAreApproved, BotTellsTruth
  <2>7. PendingIsAwaited'
    <3>1. waiter[w].token = Null
      BY <1>1 DEF CreateRequest, WaitersOwn
    <3>2. \A u \in Tokens : WaitsFor(u)' = WaitsFor(u) \cup (IF u = t THEN {w} ELSE {})
      BY <2>2, <2>3, <3>1 DEF WaitsFor
    <3> QED
      BY <2>2, <3>2 DEF PendingIsAwaited
  <2> QED
    BY <2>1, <2>4, <2>5, <2>6, <2>7
<1>2. ASSUME NEW w \in Waiters, StartWaiting(w)
      PROVE  IInv'
  BY <1>2, MoveOn DEF StartWaiting
<1>3. ASSUME NEW w \in Waiters, LoopTest(w)
      PROVE  IInv'
  <2> DEFINE a == IF waiter[w].waited = APPROVAL_TIMEOUT_SEC \/ stopping
                  THEN "give_up" ELSE "poll"
  <2>1. a \in {"test", "poll", "give_up", "run"} /\ a # "run"
    OBVIOUS
  <2>2. waiter' = [waiter EXCEPT ![w].at = a] /\ waiter[w].at # "idle"
    BY <1>3 DEF LoopTest
  <2> QED
    BY <1>3, <2>1, <2>2, MoveOn DEF LoopTest
<1>4. ASSUME NEW w \in Waiters, Poll(w)
      PROVE  IInv'
  <2> DEFINE status == row[waiter[w].token].status
             a == IF status = "approved" THEN "run" ELSE "test"
  <2>1. CASE status = "rejected"
    BY <1>4, <2>1, WaitOver DEF Poll
  <2>2. CASE status # "rejected"
    <3>1. waiter' = [waiter EXCEPT ![w].at = a] /\ waiter[w].at # "idle"
      BY <1>4, <2>2 DEF Poll
    <3> QED
      BY <1>4, <3>1, MoveOn DEF Poll
  <2> QED
    BY <2>1, <2>2
<1>5. ASSUME NEW w \in Waiters, MarkExpired(w)
      PROVE  IInv'
  <2>0. PICK t \in Tokens : t = waiter[w].token
    BY <1>5 DEF MarkExpired, WaitersOwn, TypeOK
  <2>1. TypeOK'
    <3>1. row' \in [Tokens -> [status : Statuses, age : 0..EXPIRY_MINUTES]]
      BY <1>5, <2>0 DEF MarkExpired, TypeOK, Statuses
    <3>2. Resting \in [at     : {"idle", "notify", "test", "poll", "give_up", "run"},
                       token  : Tokens \cup {Null},
                       waited : 0..APPROVAL_TIMEOUT_SEC]
      BY DEF Resting
    <3> QED
      BY <1>5, <3>1, <3>2 DEF MarkExpired, TypeOK
  <2>2. /\ \A v \in Waiters : waiter'[v] = IF v = w THEN Resting ELSE waiter[v]
        /\ \A u \in Tokens : row'[u].status = IF u = t /\ row[t].status = "pending"
                                              THEN "expired" ELSE row[u].status
        /\ ran' = ran /\ told' = told /\ click' = click /\ orphaned' = orphaned
    BY <1>5, <2>0 DEF MarkExpired, TypeOK
  <2>3. WaitersOwn'
    <3>1. \A v \in Waiters \ {w} : waiter[v].token # t
      BY <2>0 DEF WaitersOwn
    <3>2. ASSUME NEW v \in Waiters, NEW u, u = waiter'[v].token
          PROVE  /\ waiter'[v].at = "idle" <=> u = Null
                 /\ u \in Tokens => v # w /\ waiter[v].token = u /\ u # t
                 /\ u \in Tokens => row'[u].status # "absent" /\ ran'[u] = 0
                 /\ waiter'[v].at = "run" => row'[u].status = "approved"
      <4>1. CASE v = w
        <5>1. waiter'[v] = Resting
          BY <2>2, <4>1
        <5> QED
          BY <3>2, <5>1 DEF Resting
      <4>2. CASE v # w
        <5>1. waiter'[v] = waiter[v] /\ u = waiter[v].token /\ u # t
          BY <2>2, <3>1, <3>2, <4>2
        <5>2. u \in Tokens => row'[u].status = row[u].status /\ ran'[u] = ran[u]
          BY <2>2, <5>1
        <5>3. waiter[v].at = "idle" <=> u = Null
          BY <5>1 DEF WaitersOwn
        <5>4. u \in Tokens => row[u].status # "absent" /\ ran[u] = 0
          BY <5>1 DEF WaitersOwn
        <5>5. waiter[v].at = "run" => u \in Tokens /\ row[u].status = "approved"
          BY <5>1 DEF WaitersOwn, TypeOK
        <5> QED
          BY <4>2, <5>1, <5>2, <5>3, <5>4, <5>5
      <4> QED
        BY <4>1, <4>2
    <3>3. ASSUME NEW v \in Waiters, NEW x \in Waiters,
                 waiter'[v].token \in Tokens, waiter'[x].token = waiter'[v].token
          PROVE  x = v
      <4>1. waiter[v].token = waiter'[v].token /\ waiter[x].token = waiter'[v].token
        BY <3>2, <3>3
      <4> QED
        BY <3>3, <4>1 DEF WaitersOwn
    <3> QED
      BY <3>2, <3>3 DEF WaitersOwn
  <2>4. ClicksExist'
    BY <2>2 DEF ClicksExist
  <2>5. RunsAreApproved' /\ BotTellsTruth'
    BY <2>2 DEF RunsAreApproved, BotTellsTruth, Decisions
  <2>6. PendingIsAwaited'
    BY <2>0, <2>2 DEF PendingIsAwaited, WaitsFor
  <2> QED
    BY <2>1, <2>3, <2>4, <2>5, <2>6
<1>6. ASSUME NEW w \in Waiters, Run(w)
      PROVE  IInv'
  <2>0. PICK t \in Tokens : t = waiter[w].token
    BY <1>6 DEF Run, WaitersOwn, TypeOK
  <2>1. row[t].status = "approved" /\ ran[t] = 0
    BY <1>6, <2>0 DEF Run, WaitersOwn
  <2>2. TypeOK'
    <3>1. ran' \in [Tokens -> Nat]
      BY <1>6, <2>0 DEF Run, TypeOK
    <3>2. Resting \in [at     : {"idle", "notify", "test", "poll", "give_up", "run"},
                       token  : Tokens \cup {Null},
                       waited : 0..APPROVAL_TIMEOUT_SEC]
      BY DEF Resting
    <3> QED
      BY <1>6, <3>1, <3>2 DEF Run, TypeOK
  <2>3. /\ \A v \in Waiters : waiter'[v] = IF v = w THEN Resting ELSE waiter[v]
        /\ \A u \in Tokens : ran'[u] = IF u = t THEN 1 ELSE ran[u]
        /\ row' = row /\ told' = told /\ click' = click /\ orphaned' = orphaned
    BY <1>6, <2>0, <2>1 DEF Run, TypeOK
  <2>4. WaitersOwn'
    <3>1. \A v \in Waiters \ {w} : waiter[v].token # t
      BY <2>0 DEF WaitersOwn
    <3>2. ASSUME NEW v \in Waiters \ {w}, NEW u, u = waiter[v].token
          PROVE  /\ waiter'[v] = waiter[v]
                 /\ u \in Tokens => ran'[u] = ran[u]
      BY <2>3, <3>1, <3>2
    <3>3. waiter'[w].at = "idle" /\ waiter'[w].token = Null
      BY <2>3 DEF Resting
    <3>4. ASSUME NEW v \in Waiters
          PROVE  LET u == waiter[v].token IN
                 /\ waiter'[v].at = "idle" <=> waiter'[v].token = Null
                 /\ waiter'[v].token \in Tokens =>
                        v # w /\ waiter'[v] = waiter[v] /\ ran'[u] = 0 /\ row[u].status # "absent"
                 /\ waiter'[v].at = "run" => row'[u].status = "approved" /\ v # w
      BY <2>3, <3>2, <3>3 DEF WaitersOwn
    <3>5. \A v, x \in Waiters :
             waiter'[v].token \in Tokens /\ waiter'[x].token = waiter'[v].token => x = v
      BY <3>2, <3>3, <3>4 DEF WaitersOwn
    <3> QED
      BY <2>3, <3>2, <3>4, <3>5 DEF WaitersOwn
  <2>5. ClicksExist' /\ RunsAreApproved' /\ BotTellsTruth'
    BY <2>1, <2>3 DEF ClicksExist, RunsAreApproved, BotTellsTruth
  <2>6. PendingIsAwaited'
    BY <2>0, <2>1, <2>3 DEF PendingIsAwaited, WaitsFor
  <2> QED
    BY <2>2, <2>4, <2>5, <2>6
<1>7. ASSUME NEW c \in Clickers, NEW t \in Tokens, NEW d \in Decisions, Press(c, t, d)
      PROVE  IInv'
  <2> DEFINE k == [at |-> IF c = Bot THEN "select" ELSE "check", token |-> t, want |-> d]
  <2>1. /\ k \in [at : {"idle", "check", "select", "update"},
                  token : Tokens \cup {Null}, want : Decisions]
        /\ k.at # "idle" /\ k.token = t
    OBVIOUS
  <2> HIDE DEF k
  <2>2. /\ click' = [click EXCEPT ![c] = k] /\ row[t].status # "absent"
        /\ UNCHANGED <<row, waiter, stopping, restarts, ran, told, orphaned>>
    BY <1>7 DEF Press, k
  <2> QED
    BY <2>1, <2>2, ClickMoves DEF TypeOK
<1>8. ASSUME NEW c \in Clickers, CheckStatus(c) \/ SelectExpiry(c)
      PROVE  IInv'
  <2>0. PICK t \in Tokens : t = click[c].token
    BY <1>8 DEF CheckStatus, SelectExpiry, ClicksExist, TypeOK
  <2>1. UNCHANGED <<row, waiter, stopping, restarts, ran, orphaned>>
    BY <1>8 DEF CheckStatus, SelectExpiry
  <2>2. \/ \E a \in {"select", "update"} :
              click' = [click EXCEPT ![c].at = a] /\ told' = told
        \/ Answer(c, "refused")
        \/ Answer(c, Reply(c, FALSE))
    BY <1>8 DEF CheckStatus, SelectExpiry
  <2>3. ASSUME NEW a \in {"select", "update"},
               click' = [click EXCEPT ![c].at = a], told' = told
        PROVE  IInv'
    <3> DEFINE k == [click[c] EXCEPT !.at = a]
    <3>1. /\ k \in [at : {"idle", "check", "select", "update"},
                    token : Tokens \cup {Null}, want : Decisions]
          /\ k.at # "idle" /\ k.token = t
      <4>1. click[c] \in [at : {"idle", "check", "select", "update"},
                          token : Tokens \cup {Null}, want : Decisions]
        BY DEF TypeOK
      <4> QED
        BY ONLY <2>0, <4>1
    <3>2. click' = [click EXCEPT ![c] = k]
      <4>1. click \in [Clickers -> [at : {"idle", "check", "select", "update"},
                                    token : Tokens \cup {Null}, want : Decisions]]
        BY DEF TypeOK
      <4> QED
        BY ONLY <2>3, <4>1
    <3>3. row[t].status # "absent"
      BY <2>0 DEF ClicksExist
    <3> HIDE DEF k
    <3> QED
      BY <2>1, <2>3, <3>1, <3>2, <3>3, ClickMoves DEF TypeOK
  <2>4. ASSUME NEW reply, reply = "refused" \/ (reply \in Decisions /\ c # Bot),
               Answer(c, reply)
        PROVE  IInv'
    <3>1. /\ NoClick \in [at : {"idle", "check", "select", "update"},
                          token : Tokens \cup {Null}, want : Decisions]
          /\ NoClick.at = "idle" /\ NoClick.token = Null
      BY DEF NoClick, Decisions
    <3>2. click' = [click EXCEPT ![c] = NoClick]
      BY <2>4 DEF Answer
    <3>3. /\ told' \in [Tokens -> SUBSET (Clickers \X Decisions)]
          /\ \A u \in Tokens, d \in Decisions :
                <<Bot, d>> \in told'[u] => <<Bot, d>> \in told[u]
      BY <2>0, <2>4 DEF Answer, TypeOK
    <3> QED
      BY <2>1, <3>1, <3>2, <3>3, ClickMoves
  <2>5. Reply(c, FALSE) = "refused" \/ (Reply(c, FALSE) \in Decisions /\ c # Bot)
    BY DEF Reply, TypeOK
  <2> QED
    BY <2>2, <2>3, <2>4, <2>5
<1>9. ASSUME NEW c \in Clickers, UpdateStatus(c)
      PROVE  IInv'
  <2>0. PICK t \in Tokens : t = click[c].token
    BY <1>9 DEF UpdateStatus, ClicksExist, TypeOK
  <2> DEFINE want == click[c].want
             done == row[t].status = "pending"
  <2>1. want \in Decisions
    BY DEF TypeOK
  <2>2. /\ \A u \in Tokens : row'[u].status = IF u = t /\ done THEN want ELSE row[u].status
        /\ row' \in [Tokens -> [status : Statuses, age : 0..EXPIRY_MINUTES]]
        /\ UNCHANGED <<waiter, stopping, restarts, ran, orphaned>>
        /\ Answer(c, Reply(c, done))
    BY <1>9, <2>0, <2>1 DEF UpdateStatus, Decided, TypeOK, Statuses
  <2>3. /\ click' = [click EXCEPT ![c] = NoClick]
        /\ told' \in [Tokens -> SUBSET (Clickers \X Decisions)]
        /\ \A u \in Tokens, d \in Decisions :
              <<Bot, d>> \in told'[u] =>
                  <<Bot, d>> \in told[u] \/ (u = t /\ done /\ d = want)
    BY <2>0, <2>1, <2>2 DEF Answer, Reply, TypeOK, Decisions
  <2>4. TypeOK'
    BY <2>2, <2>3 DEF TypeOK, NoClick, Decisions
  <2>5. WaitersOwn'
    BY <2>2 DEF WaitersOwn, Decisions, TypeOK
  <2>6. ClicksExist'
    BY <2>1, <2>2, <2>3 DEF ClicksExist, NoClick, Decisions, TypeOK
  <2>7. RunsAreApproved' /\ PendingIsAwaited'
    BY <2>1, <2>2 DEF RunsAreApproved, PendingIsAwaited, WaitsFor, Decisions
  <2>8. BotTellsTruth'
    BY <2>2, <2>3 DEF BotTellsTruth, Decisions
  <2> QED
    BY <2>4, <2>5, <2>6, <2>7, <2>8
<1>10. CASE Sigterm
  BY <1>10 DEF Sigterm, TypeOK, WaitersOwn, ClicksExist, RunsAreApproved,
               PendingIsAwaited, WaitsFor, BotTellsTruth
<1>11. CASE Restart
  <2>1. TypeOK'
    <3>1. NoClick \in [at    : {"idle", "check", "select", "update"},
                       token : Tokens \cup {Null},
                       want  : Decisions]
      BY DEF NoClick, Decisions
    <3>2. Resting \in [at     : {"idle", "notify", "test", "poll", "give_up", "run"},
                       token  : Tokens \cup {Null},
                       waited : 0..APPROVAL_TIMEOUT_SEC]
      BY DEF Resting
    <3>3. restarts' \in 0..MaxRestarts
      BY <1>11 DEF Restart, TypeOK
    <3> QED
      BY <1>11, <3>1, <3>2, <3>3 DEF Restart, TypeOK
  <2>2. WaitersOwn'
    BY <1>11 DEF Restart, WaitersOwn, Resting
  <2>3. ClicksExist'
    BY <1>11 DEF Restart, ClicksExist, NoClick, TypeOK
  <2>4. RunsAreApproved' /\ BotTellsTruth'
    BY <1>11 DEF Restart, RunsAreApproved, BotTellsTruth
  <2>5. PendingIsAwaited'
    BY <1>11 DEF Restart, PendingIsAwaited, WaitsFor
  <2> QED
    BY <2>1, <2>2, <2>3, <2>4, <2>5
<1>12. CASE Tick
  <2>1. TypeOK'
    <3>1. \A n, max \in Nat : n \in 0..max => Up(n, max) \in 0..max
      BY DEF Up
    <3>2. row' \in [Tokens -> [status : Statuses, age : 0..EXPIRY_MINUTES]]
      BY <1>12, <3>1 DEF Tick, TypeOK
    <3>3. waiter' \in [Waiters -> [at     : {"idle", "notify", "test", "poll", "give_up", "run"},
                                  token  : Tokens \cup {Null},
                                  waited : 0..APPROVAL_TIMEOUT_SEC]]
      BY <1>12, <3>1 DEF Tick, TypeOK
    <3> QED
      BY <1>12, <3>2, <3>3 DEF Tick, TypeOK
  <2>2. /\ \A t \in Tokens : row'[t].status = row[t].status
        /\ \A w \in Waiters : /\ waiter'[w].at = waiter[w].at
                              /\ waiter'[w].token = waiter[w].token
        /\ ran' = ran /\ told' = told /\ click' = click /\ orphaned' = orphaned
    BY <1>12 DEF Tick, TypeOK
  <2>3. WaitersOwn'
    BY <2>2 DEF WaitersOwn, TypeOK
  <2>4. ClicksExist' /\ RunsAreApproved' /\ BotTellsTruth'
    BY <2>2 DEF ClicksExist, RunsAreApproved, BotTellsTruth
  <2>5. PendingIsAwaited'
    BY <2>2 DEF PendingIsAwaited, WaitsFor
  <2> QED
    BY <2>1, <2>3, <2>4, <2>5
<1>13. ASSUME NEW w \in Waiters, WaiterRaises(w)
       PROVE  IInv'
  <2>0. PICK t \in Tokens : t = waiter[w].token
    BY <1>13 DEF WaiterRaises, WaitersOwn, TypeOK
  <2>1. TypeOK'
    <3>1. Resting \in [at     : {"idle", "notify", "test", "poll", "give_up", "run"},
                       token  : Tokens \cup {Null},
                       waited : 0..APPROVAL_TIMEOUT_SEC]
      BY DEF Resting
    <3> QED
      BY <1>13, <2>0, <3>1 DEF WaiterRaises, TypeOK
  <2>2. /\ \A v \in Waiters : waiter'[v] = IF v = w THEN Resting ELSE waiter[v]
        /\ orphaned' = orphaned \cup {t}
        /\ row' = row /\ ran' = ran /\ told' = told /\ click' = click
    BY <1>13, <2>0 DEF WaiterRaises, TypeOK
  <2>3. WaitersOwn'
    <3>1. waiter'[w].at = "idle" /\ waiter'[w].token = Null
      BY <2>2 DEF Resting
    <3>2. \A v \in Waiters \ {w} : waiter'[v] = waiter[v]
      BY <2>2
    <3> QED
      BY <2>2, <3>1, <3>2 DEF WaitersOwn
  <2>4. ClicksExist' /\ RunsAreApproved' /\ BotTellsTruth'
    BY <2>2 DEF ClicksExist, RunsAreApproved, BotTellsTruth
  <2>5. PendingIsAwaited'
    BY <2>0, <2>2 DEF PendingIsAwaited, WaitsFor
  <2> QED
    BY <2>1, <2>3, <2>4, <2>5
<1>14. ASSUME NEW c \in Clickers, ClickRaises(c)
       PROVE  IInv'
  <2>1. /\ NoClick \in [at : {"idle", "check", "select", "update"},
                        token : Tokens \cup {Null}, want : Decisions]
        /\ NoClick.at = "idle" /\ NoClick.token = Null
    BY DEF NoClick, Decisions
  <2> QED
    BY <1>14, <2>1, ClickMoves DEF ClickRaises, TypeOK
<1>15. CASE UNCHANGED vars
  BY <1>15 DEF vars, TypeOK, WaitersOwn, ClicksExist, RunsAreApproved,
               PendingIsAwaited, WaitsFor, BotTellsTruth
<1> QED
  BY <1>1, <1>2, <1>3, <1>4, <1>5, <1>6, <1>7, <1>8, <1>9, <1>10, <1>11, <1>12, <1>13,
     <1>14, <1>15
  DEF Next, WaiterStep, ClickStep

-----------------------------------------------------------------------------
\* The inductive invariant holds in every reachable state.
THEOREM InductiveInvariant == Spec => []IInv
  BY InitIInv, StepIInv, PTL DEF Spec

\* Every variable keeps its type.
THEOREM TypeCorrect == Spec => []TypeOK
  BY InductiveInvariant, PTL DEF IInv

\* An action is carried out at most once, and only one that the table says was
\* approved (executor.py:774-785, approval_store.py:136-187).
THEOREM RunsApproved == Spec => []RunsAreApproved
  BY InductiveInvariant, PTL DEF IInv

\* Whichever way a wait ends, it leaves no open request behind; only an
\* exception or the death of the process does (approval_store.py:165-187).
THEOREM PendingAwaited == Spec => []PendingIsAwaited
  BY InductiveInvariant, PTL DEF IInv

\* The bot reports a decision as taken only if the table took it, and keeps it
\* (telegram_bot.py:111-119).
THEOREM BotTruthful == Spec => []BotTellsTruth
  BY InductiveInvariant, PTL DEF IInv

=============================================================================
