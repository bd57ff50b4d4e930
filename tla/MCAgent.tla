------------------------------- MODULE MCAgent -------------------------------
(***************************************************************************)
(* One TLC run for the components around the agent's core.  They share no  *)
(* variable, so a behaviour lets one of them run and leaves the others in  *)
(* an initial state: what would be the product of the state spaces is      *)
(* their sum.                                                              *)
(***************************************************************************)
EXTENDS Debouncer, LogTail, ProactiveMonitor, MainLoop, Escalation, Execution,
        Notify, Playbook, GithubCrawl, LoghubPipeline, L1Evidence, Connections,
        ChaosApp, Installation, Metrics

\* A dot in a name stands for any character when pkill and pgrep read it.
MCFits == [n \in Names |-> IF n = "dotted" THEN {"dotted", "sshd"} ELSE {n}]

VARIABLE running   \* the component that runs

vars == <<running, debVars, tailVars, monVars, loopVars, escVars, execVars,
          notifyVars, playVars, crawlVars, logVars, evidenceVars, connVars,
          chaosVars, installVars, metricVars>>

Components == {"debouncer", "tail", "monitor", "loop", "escalation", "execution",
               "notify", "playbook", "crawl", "loghub", "evidence", "connections",
               "chaos", "installation", "metrics"}

\* Of a component that does not run one initial state is enough.
Init ==
    /\ running \in Components
    /\ DebInit /\ TailInit /\ MonInit /\ LoopInit /\ PlayInit
    /\ EvidenceInit /\ ConnInit /\ ChaosInit /\ InstallInit
    /\ EscInit /\ (running # "escalation" => provider = "groq" /\ keySet /\ ipex)
    /\ ExecInit /\ (running # "execution" => method = "systemd" /\ fallback)
    /\ NotifyInit /\ (running # "notify" => webhook /\ bot = "off")
    /\ CrawlInit /\ (running # "crawl" => client = "script" /\ token)
    /\ LogInit /\ (running # "loghub" => keywordOnly /\ \A t \in LogTexts : keywordOf[t] = 1)
    /\ MetricInit /\ (running # "metrics" => metrics = {} /\ level = "auto")

core == <<debVars, tailVars, monVars, loopVars>>
resolution == <<escVars, execVars>>
sources == <<playVars, crawlVars, logVars, evidenceVars>>
aside == <<connVars, chaosVars, installVars, metricVars>>
outside == <<notifyVars, sources, aside>>

Alone(component, rest) == running = component /\ UNCHANGED <<running, rest>>

DebAlone    == Alone("debouncer", <<tailVars, monVars, loopVars, resolution, outside>>)
TailAlone   == Alone("tail", <<debVars, monVars, loopVars, resolution, outside>>)
MonAlone    == Alone("monitor", <<debVars, tailVars, loopVars, resolution, outside>>)
LoopAlone   == Alone("loop", <<debVars, tailVars, monVars, resolution, outside>>)
EscAlone    == Alone("escalation", <<core, execVars, outside>>)
ExecAlone   == Alone("execution", <<core, escVars, outside>>)
NotifyAlone == Alone("notify", <<core, resolution, sources, aside>>)
PlayAlone   == Alone("playbook", <<core, resolution, notifyVars, crawlVars, logVars, evidenceVars, aside>>)
CrawlAlone  == Alone("crawl", <<core, resolution, notifyVars, playVars, logVars, evidenceVars, aside>>)
LogAlone    == Alone("loghub", <<core, resolution, notifyVars, playVars, crawlVars, evidenceVars, aside>>)
EvAlone     == Alone("evidence", <<core, resolution, notifyVars, playVars, crawlVars, logVars, aside>>)
ConnAlone   == Alone("connections", <<core, resolution, notifyVars, sources, chaosVars, installVars, metricVars>>)
ChaosAlone  == Alone("chaos", <<core, resolution, notifyVars, sources, connVars, installVars, metricVars>>)
InstallAlone == Alone("installation", <<core, resolution, notifyVars, sources, connVars, chaosVars, metricVars>>)
MetricAlone == Alone("metrics", <<core, resolution, notifyVars, sources, connVars, chaosVars, installVars>>)

\* Nothing that a command of a language model goes through reads the configuration.
OneConfiguration == request' \in LlmCommands => method = "systemd" /\ fallback

Next ==
    \/ DebAlone /\ DebNext
    \/ TailAlone /\ TailNext
    \/ MonAlone /\ MonNext
    \/ LoopAlone /\ LoopNext
    \/ EscAlone /\ EscNext
    \/ ExecAlone /\ ExecNext /\ OneConfiguration
    \/ NotifyAlone /\ NotifyNext
    \/ PlayAlone /\ PlayNext
    \/ CrawlAlone /\ CrawlNext
    \/ LogAlone /\ LogNext
    \/ EvAlone /\ EvidenceNext
    \/ ConnAlone /\ ConnNext
    \/ ChaosAlone /\ ChaosNext
    \/ InstallAlone /\ InstallNext
    \/ MetricAlone /\ MetricNext

\* The fairness of TailSpec, MonSpec and LoopSpec.
Spec ==
    /\ Init
    /\ [][Next]_vars
    /\ WF_tailVars(running = "tail" /\ Dispatch)
    /\ WF_monVars(running = "monitor" /\ CheckStep)
    /\ WF_monVars(running = "monitor" /\ MonTick)
    /\ WF_loopVars(running = "loop" /\ LoopStep)
    /\ WF_loopVars(running = "loop" /\ LoopTick)

\* Type correctness of every component.
AgentTypeOK ==
    /\ DebTypeOK /\ TailTypeOK /\ MonTypeOK /\ LoopTypeOK /\ EscTypeOK /\ ExecTypeOK
    /\ NotifyTypeOK /\ PlayTypeOK /\ CrawlTypeOK /\ LogTypeOK /\ EvidenceTypeOK
    /\ ConnTypeOK /\ ChaosTypeOK /\ InstallTypeOK /\ MetricTypeOK

\* From the query and the log file to the entry that is looked up: what the sources
\* of the knowledge base offer is collected under the right query, filed under the
\* right category, kept until it is removed, and shown as what it is when it answers.
SourcesAreSound ==
    IssuesAreCollected /\ FiledAsClassified /\ LoadedIsKept /\ EvidenceIsOfAnswer

\* Where threads or handlers wait for one another with locks, one at a time is let
\* in: creations of the clients of the databases, and injections of faults.  It lets
\* the next one in, but for the one handler that can end with its lock (KeepsLock).
OneAtATime == ConnectedOnce /\ InjectionsKeptApart

\* What persons are told: by the installation, that texts stay or go as they then do, in
\* every spelling it knows; by the gate report, that a category may go to AUTO, without
\* counting what ran by leave of AUTO itself; by the dashboard, that what counts as
\* resolved is done, which escalations and alerts are as well.
ToldRight == ModeIsAsTold /\ MetricsToldRight
=============================================================================
