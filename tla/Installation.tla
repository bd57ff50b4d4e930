----------------------------- MODULE Installation -----------------------------
(***************************************************************************)
(* install.sh: from a checked out repository to an agent that can be       *)
(* started.  It may be run again at any time, stops at the first command   *)
(* that fails (set -e) or when the operator interrupts it, and leaves      *)
(* behind what it did.  Its step 4 chooses the mode of the second level:   *)
(* LLM_PROVIDER in .env, which decides whether error texts leave the       *)
(* server.                                                                 *)
(*                                                                         *)
(* Of .env only the active lines of three keys matter; a key is assumed to *)
(* have at most one.  "spelled" is any writing of groq that the agent      *)
(* accepts and install.sh does not: GROQ, quotes, a trailing blank.        *)
(***************************************************************************)
EXTENDS Naturals

CONSTANTS
    MaxInstalls,   \* bound: starts of install.sh
    MaxEdits       \* bound: changes of .env by hand

ASSUME InstallationAssumption == {MaxInstalls, MaxEdits} \subseteq Nat

VARIABLES
    dotenv,      \* .env: [provider, profiles, key], or NoFile
    at,          \* the step install.sh is at
    mode,        \* MODE: "none" while empty
    terminal,    \* it was started at a terminal
    fresh,       \* NEED_ENV_FILL
    containers,  \* those that run
    scriptsRun,  \* how many scripts of step 7 have run
    unit,        \* the systemd unit is installed
    told,        \* the mode that the last lines speak of
    cloudAsked,  \* history: the operator has at some time chosen the cloud
    unfinished,  \* history: stopped between the two keys of the mode, or edited
    installs, edits

installVars == <<dotenv, at, mode, terminal, fresh, containers, scriptsRun, unit, told,
                 cloudAsked, unfinished, installs, edits>>
environment == <<containers, scriptsRun, unit>>
counted == <<installs, edits>>

Spellings == {"none", "ollama", "groq", "spelled", "typo"}
NoFile == [provider |-> "none", profiles |-> FALSE, key |-> FALSE, there |-> FALSE]
EnvFile(provider, profiles, key) ==
    [provider |-> provider, profiles |-> profiles, key |-> key, there |-> TRUE]

\* .env.example; and a .env whose rewriting was cut off after open(path, "w").
Template == EnvFile("ollama", TRUE, FALSE)
Truncated == EnvFile("none", FALSE, FALSE)

\* resolve_llm_provider of src/llm_mode.py
AgentReads(provider) == IF provider \in {"groq", "spelled"} THEN "cloud" ELSE "local"

\* Wrong variant: a setting that is kept is not looked at.
KeptUnread(provider) == "local"

\* The case statement on CURRENT_PROVIDER.
InstallerReads(provider) == IF provider = "groq" THEN "cloud" ELSE "local"

InstallInit ==
    /\ dotenv = NoFile
    /\ at = "off"
    /\ mode = "none"
    /\ terminal = FALSE
    /\ fresh = FALSE
    /\ containers = {}
    /\ scriptsRun = 0
    /\ unit = FALSE
    /\ told = "none"
    /\ cloudAsked = FALSE
    /\ unfinished = FALSE
    /\ installs = 0
    /\ edits = 0

-----------------------------------------------------------------------------
\* The arguments; odd ones end it before anything is done.
StartInstall(flag, tty) ==
    /\ at \in {"off", "done"}
    /\ installs < MaxInstalls
    /\ installs' = installs + 1
    /\ at' = "packages"
    /\ mode' = flag
    /\ terminal' = tty
    /\ fresh' = FALSE
    /\ scriptsRun' = 0
    /\ told' = "none"
    /\ cloudAsked' = (cloudAsked \/ flag = "cloud")
    /\ UNCHANGED <<dotenv, containers, unit, unfinished, edits>>

\* Steps 1 and 2: the version of Python, the virtual environment, the packages.
Packages ==
    /\ at = "packages"
    /\ at' = "dotenv"
    /\ UNCHANGED <<dotenv, mode, terminal, fresh, environment, told, cloudAsked, unfinished, counted>>

\* Step 3
PrepareDotenv ==
    /\ at = "dotenv"
    /\ at' = "mode"
    /\ dotenv' = IF dotenv.there THEN dotenv ELSE Template
    /\ fresh' = ~dotenv.there
    /\ UNCHANGED <<mode, terminal, environment, told, cloudAsked, unfinished, counted>>

\* Step 4.  Without --mode, an existing .env keeps what it has.
Keeps == mode = "none" /\ ~fresh /\ dotenv.provider # "none"

KeepMode ==
    /\ at = "mode"
    /\ Keeps
    /\ mode' = InstallerReads(dotenv.provider)
    /\ at' = "containers"
    /\ UNCHANGED <<dotenv, terminal, fresh, environment, told, cloudAsked, unfinished, counted>>

\* --mode, else the answer of the operator, else local.
Answers == IF mode # "none" THEN {mode}
           ELSE IF terminal THEN {"local", "cloud"}
           ELSE {"local"}

ChooseMode ==
    /\ at = "mode"
    /\ ~Keeps
    /\ mode' \in Answers
    /\ cloudAsked' = (cloudAsked \/ (mode = "none" /\ mode' = "cloud"))
    /\ at' = "provider"
    /\ UNCHANGED <<dotenv, terminal, fresh, environment, told, unfinished, counted>>

\* set_env_var LLM_PROVIDER
SetProvider ==
    /\ at = "provider"
    /\ dotenv' = [dotenv EXCEPT !.provider = IF mode = "cloud" THEN "groq" ELSE "ollama"]
    /\ at' = "profiles"
    /\ UNCHANGED <<mode, terminal, fresh, environment, told, cloudAsked, unfinished, counted>>

\* comment_env_var or set_env_var COMPOSE_PROFILES
SetProfiles ==
    /\ at = "profiles"
    /\ dotenv' = [dotenv EXCEPT !.profiles = (mode = "local")]
    /\ at' = IF mode = "cloud" THEN "key" ELSE "containers"
    /\ unfinished' = FALSE
    /\ UNCHANGED <<mode, terminal, fresh, environment, told, cloudAsked, counted>>

\* GROQ_API_KEY: there already, from the environment, typed in, or a warning.
SetKey(given) ==
    /\ at = "key"
    /\ dotenv' = [dotenv EXCEPT !.key = @ \/ given]
    /\ at' = "containers"
    /\ UNCHANGED <<mode, terminal, fresh, environment, told, cloudAsked, unfinished, counted>>

\* Steps 5 and 6.  compose starts the profiles of .env and stops none; that the
\* model cannot be pulled is only a warning.
StartContainers(docker) ==
    /\ at = "containers"
    /\ containers' = containers \cup (IF ~docker THEN {}
                                      ELSE IF dotenv.profiles THEN {"infrastructure", "ollama"}
                                      ELSE {"infrastructure"})
    /\ at' = "load"
    /\ UNCHANGED <<dotenv, mode, terminal, fresh, scriptsRun, unit, told, cloudAsked, unfinished, counted>>

\* Step 7: the three scripts, all of which may be run again.
LoadNext ==
    /\ at = "load"
    /\ scriptsRun' = scriptsRun + 1
    /\ at' = IF scriptsRun' = 3 THEN "unit" ELSE "load"
    /\ UNCHANGED <<dotenv, mode, terminal, fresh, containers, unit, told, cloudAsked, unfinished, counted>>

\* Step 8, skipped without systemd or sudo, and the last lines.
FinishInstall(systemd) ==
    /\ at = "unit"
    /\ unit' = (unit \/ systemd)
    /\ told' = mode
    /\ at' = "done"
    /\ UNCHANGED <<dotenv, mode, terminal, fresh, containers, scriptsRun, cloudAsked, unfinished, counted>>

\* A command fails or the operator interrupts; a rewriting may be cut off.
Stop(torn) ==
    /\ at \notin {"off", "done"}
    /\ torn => at \in {"provider", "profiles", "key"}
    /\ dotenv' = IF torn THEN Truncated ELSE dotenv
    /\ unfinished' = (unfinished \/ at = "profiles")
    /\ at' = "off"
    /\ UNCHANGED <<mode, terminal, fresh, environment, told, cloudAsked, counted>>

\* The operator changes .env.
Edit(provider, profiles) ==
    /\ at \in {"off", "done"}
    /\ dotenv.there
    /\ edits < MaxEdits
    /\ edits' = edits + 1
    /\ dotenv' = EnvFile(provider, profiles, dotenv.key)
    /\ cloudAsked' = (cloudAsked \/ AgentReads(provider) = "cloud")
    /\ unfinished' = TRUE
    /\ at' = "off"
    /\ UNCHANGED <<mode, terminal, fresh, environment, told, installs>>

InstallNext ==
    \/ \E flag \in {"none", "local", "cloud"}, tty \in BOOLEAN : StartInstall(flag, tty)
    \/ Packages \/ PrepareDotenv \/ KeepMode \/ ChooseMode
    \/ SetProvider \/ SetProfiles
    \/ \E given \in BOOLEAN : SetKey(given)
    \/ \E docker \in BOOLEAN : StartContainers(docker)
    \/ LoadNext
    \/ \E systemd \in BOOLEAN : FinishInstall(systemd)
    \/ \E torn \in BOOLEAN : Stop(torn)
    \/ \E provider \in Spellings, profiles \in BOOLEAN : Edit(provider, profiles)

InstallSpec == InstallInit /\ [][InstallNext]_installVars

-----------------------------------------------------------------------------
InstallTypeOK ==
    /\ dotenv \in [provider : Spellings, profiles : BOOLEAN, key : BOOLEAN, there : BOOLEAN]
    /\ at \in {"off", "packages", "dotenv", "mode", "provider", "profiles", "key",
               "containers", "load", "unit", "done"}
    /\ mode \in {"none", "local", "cloud"}
    /\ told \in {"none", "local", "cloud"}
    /\ terminal \in BOOLEAN /\ fresh \in BOOLEAN /\ unit \in BOOLEAN
    /\ cloudAsked \in BOOLEAN /\ unfinished \in BOOLEAN
    /\ containers \subseteq {"infrastructure", "ollama"}
    /\ scriptsRun \in 0..3
    /\ installs \in 0..MaxInstalls
    /\ edits \in 0..MaxEdits

\* However often installations are repeated, interrupted and corrected by hand:
\* the agent sends texts away only if the operator once chose so; what the
\* installation says last about that is what the agent will do, except for a
\* spelling that only the agent understands; and a local mode that install.sh set
\* up, and no stop cut in half, has the compose profile of its Ollama container.
ModeIsAsTold ==
    /\ AgentReads(dotenv.provider) = "cloud" => cloudAsked
    /\ at = "done" => told = AgentReads(dotenv.provider) \/ dotenv.provider = "spelled"
    /\ dotenv.provider = "ollama" /\ ~unfinished /\ at # "profiles" => dotenv.profiles
=============================================================================
