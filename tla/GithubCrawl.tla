----------------------------- MODULE GithubCrawl -----------------------------
(***************************************************************************)
(* The searches for GitHub issues, once for the ETL job                    *)
(* (src/etl_github_crawler.py, "crawler") and once for the script that     *)
(* loads Chroma directly (scripts/etl_github_to_chroma.py, "script").      *)
(* Both go through a list of queries, give each three requests, and take   *)
(* from each issue a text they have not yet met in this query; they differ *)
(* in what they make of a refusal.  What becomes of the texts is in        *)
(* Playbook.                                                               *)
(***************************************************************************)
EXTENDS Naturals

CONSTANTS
    Snippets,       \* error texts; the script cuts them out, the crawler takes all
    MAX_ATTEMPTS,   \* requests per query
    MaxQueries,     \* bound: length of the list of queries
    MaxIssues       \* bound: issues found by one query

ASSUME GithubCrawlAssumption ==
    /\ {MAX_ATTEMPTS, MaxQueries} \subseteq Nat \ {0}
    /\ MaxIssues \in Nat
    /\ "none" \notin Snippets

VARIABLES
    client,    \* "crawler" or "script"
    token,     \* GITHUB_TOKEN is set
    crawl,     \* [at, query, attempt, auth]: auth, the request carries the token
    seen,      \* texts taken from the issues of this query
    issues,    \* issues of this query looked at
    gathered,  \* <<query, text>> taken
    issueTexts    \* history: <<query, texts>> of each issue looked at

crawlVars == <<client, token, crawl, seen, issues, gathered, issueTexts>>

Asking(query) == [at |-> "asking", query |-> query, attempt |-> 1, auth |-> token]

CrawlInit ==
    /\ client \in {"crawler", "script"}
    /\ token \in BOOLEAN
    /\ crawl = Asking(1)
    /\ seen = {}
    /\ issues = 0
    /\ gathered = {}
    /\ issueTexts = {}

\* The next query starts with the token again, refused or not.
NextQuery ==
    /\ crawl' = IF crawl.query = MaxQueries THEN [crawl EXCEPT !.at = "returned"]
                ELSE Asking(crawl.query + 1)
    /\ issues' = 0
    /\ UNCHANGED <<client, token, gathered, issueTexts>>

GiveUp == NextQuery /\ UNCHANGED seen

TryAgain(auth) ==
    \/ /\ crawl.attempt < MAX_ATTEMPTS
       /\ crawl' = [crawl EXCEPT !.attempt = @ + 1, !.auth = auth]
       /\ UNCHANGED <<client, token, seen, issues, gathered, issueTexts>>
    \/ crawl.attempt = MAX_ATTEMPTS /\ GiveUp

\* Wrong variant: one set of texts met for all queries.
SeenKept == seen

SeenAtFirst == {}

Found ==
    /\ crawl.at = "asking"
    /\ crawl' = [crawl EXCEPT !.at = "issues"]
    /\ seen' = SeenAtFirst
    /\ UNCHANGED <<client, token, issues, gathered, issueTexts>>

\* A body that is no JSON is one more failed attempt for the script.
Unreadable ==
    /\ crawl.at = "asking"
    /\ IF client = "script" THEN TryAgain(crawl.auth) ELSE GiveUp

NoReply ==
    /\ crawl.at = "asking"
    /\ TryAgain(crawl.auth)

\* 401: the script goes on without its token, and wonders as often without one.
Unauthorised ==
    /\ crawl.at = "asking"
    /\ IF client = "script" THEN TryAgain(FALSE) ELSE GiveUp

\* 403: a limit for the script, an error like any other for the crawler.
Forbidden ==
    /\ crawl.at = "asking"
    /\ IF client = "script" THEN TryAgain(crawl.auth) ELSE GiveUp

Limited ==
    /\ crawl.at = "asking"
    /\ TryAgain(crawl.auth)

\* int() of a Retry-After that is a date raises: the script catches it in its
\* attempt, the crawler nowhere.
OddlyLimited ==
    /\ crawl.at = "asking"
    /\ IF client = "script" THEN TryAgain(crawl.auth)
       ELSE /\ crawl' = [crawl EXCEPT !.at = "raised"]
            /\ gathered' = {}
            /\ UNCHANGED <<client, token, seen, issues, issueTexts>>

\* 422, 404, 5xx
RefusedForGood ==
    /\ crawl.at = "asking"
    /\ GiveUp

\* extract_error_snippet
Extracts == Snippets \cup {"none"}

\* What can be taken from an issue: its body, for the script else its title.
Usable(body, title) ==
    LET fresh == {t \in Snippets : t \notin seen}
    IN  IF body \in fresh THEN {body}
        ELSE IF client = "script" /\ title \in fresh THEN {title} ELSE {}

TakeIssue(body, title) ==
    /\ crawl.at = "issues"
    /\ issues < MaxIssues
    /\ issues' = issues + 1
    /\ seen' = seen \cup Usable(body, title)
    /\ gathered' = gathered \cup ({crawl.query} \X Usable(body, title))
    /\ issueTexts' = issueTexts \cup {<<crawl.query, ({body} \cup IF client = "script" THEN {title} ELSE {})
                                                \ {"none"}>>}
    /\ UNCHANGED <<client, token, crawl>>

PageEnds ==
    /\ crawl.at = "issues"
    /\ NextQuery
    /\ UNCHANGED seen

CrawlNext ==
    \/ Found \/ Unreadable \/ NoReply \/ Unauthorised \/ Forbidden \/ Limited
    \/ OddlyLimited \/ RefusedForGood \/ PageEnds
    \/ \E body, title \in Extracts : TakeIssue(body, title)

CrawlSpec == CrawlInit /\ [][CrawlNext]_crawlVars

-----------------------------------------------------------------------------
CrawlTypeOK ==
    /\ crawl \in [at : {"asking", "issues", "returned", "raised"}, query : 1..MaxQueries,
                  attempt : 1..MAX_ATTEMPTS, auth : BOOLEAN]
    /\ seen \subseteq Snippets
    /\ issues \in 0..MaxIssues
    /\ gathered \subseteq (1..MaxQueries) \X Snippets

\* A failed query costs its own issues only, and the texts of one query do not
\* hide those of another: what is returned holds, under its query, a text of every
\* issue that had one.  The one exception is the crawler that an odd Retry-After
\* makes raise, which returns nothing; the script never does.
IssuesAreCollected ==
    /\ crawl.at # "raised" =>
          \A o \in issueTexts : o[2] = {} \/ \E t \in o[2] : <<o[1], t>> \in gathered
    /\ client = "script" => crawl.at # "raised"
    /\ ~token => ~crawl.auth
=============================================================================
