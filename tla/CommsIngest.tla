---------------------------- MODULE CommsIngest ----------------------------
(***************************************************************************)
(* Automatic ingestion of the communications relay: run_ingestion()        *)
(* (server/edge1_comms/ingest.py) over its three kinds of source, the      *)
(* upstream reader (upstream_nntp.py) and the ledger and cursors of        *)
(* CommsStore (storage.py).                                                *)
(*                                                                         *)
(* A file lock lets one run through at a time, in whatever process; every  *)
(* method of the store is one transaction.  Upstream, the repository and   *)
(* retention move on between the steps of a run.                           *)
(***************************************************************************)
EXTENDS Integers, Sequences, FiniteSets, FiniteSetsExt, SequencesExt, Functions

CONSTANTS
  MessageIds,    \* upstream articles
  Unfit,         \* those that the reader skips (multipart, too long, ...)
  Unpostable,    \* items whose headers the store refuses
  Commits,       \* commits, numbered so that parents come first
  Ancestry,      \* commit -> the commits reachable from it, itself included
  Budget,        \* max_items_per_run
  InitialItems, ScanLimit,
  Configurations,   \* sets of enabled sources that a relay may be configured with
  NoCommit,
  MaxRenumberings, MaxIngRuns   \* bounds

ASSUME IngestAssumption ==
  /\ Budget \in Nat \ {0} /\ InitialItems \in Nat \ {0} /\ ScanLimit \in Nat \ {0}
  /\ Commits \subseteq Nat
  /\ \A c \in Commits : c \in Ancestry[c] /\ \A b \in Ancestry[c] :
                          b <= c /\ Ancestry[b] \subseteq Ancestry[c]

VARIABLES
  upstream,    \* the upstream group: articles by number, the first available
  ingTip,      \* the commit that the watched ref names
  ingGroups,   \* local newsgroups
  ingLedger,   \* ingest_items: <<source, item>>
  ingArticles, \* articles of ledger items that retention has not removed
  ingCursor,   \* ingest_state: nntp (an article number, -1 for NULL) and git
  ingRun,      \* the run in progress
  ingRuns,     \* runs started
  ingSources,  \* the enabled sources
  \* history
  ingPosts,    \* item -> articles ever created for it
  ingCovers,   \* since which number, in which numbering, the nntp cursor counts
  ingPassed    \* commits older than the look-back of a first or rewritten scan

ingVars == <<upstream, ingTip, ingGroups, ingLedger, ingArticles, ingCursor,
             ingRun, ingRuns, ingSources, ingPosts, ingCovers, ingPassed>>
ingTables == <<ingSources, ingGroups, ingLedger, ingArticles, ingCursor>>
ingHistory == <<ingPosts, ingCovers, ingPassed>>

LocalGroups == <<"home", "usenet">>   \* by name: the git source's, the nntp source's
IngItems ==
  ({"bootstrap"} \X ToSet(LocalGroups)) \cup ({"nntp"} \X MessageIds)
  \cup ({"git"} \X Commits)
IngIdle == [at |-> "idle"]
High == Len(upstream.arts)
LastOf(S, n) == {c \in S : Cardinality({d \in S : d > c}) < n}
FirstOf(S, n) == {c \in S : Cardinality({d \in S : d < c}) < n}
----------------------------------------------------------------------------
IngInit ==
  /\ upstream = [low |-> 1, arts |-> <<>>, numbering |-> 0]
  /\ ingTip = Min(Commits)
  /\ ingGroups = {"home"} /\ ingLedger = {} /\ ingArticles = {}
  /\ ingCursor = [nntp |-> -1, git |-> NoCommit]
  /\ ingRun = IngIdle /\ ingRuns = 0 /\ ingSources \in Configurations
  /\ ingPosts = [i \in IngItems |-> 0]
  /\ ingCovers = [numbering |-> 0, base |-> 1] /\ ingPassed = {}

\* The enabled sources are taken up in their order while the budget lasts.
SourceOrder == SelectSeq(<<"bootstrap", "nntp", "git">>, LAMBDA s : s \in ingSources)
Enter(k, left) ==
  IF left <= 0 \/ k > Len(SourceOrder) THEN IngIdle
  ELSE [at |-> "list", src |-> SourceOrder[k], nth |-> k, left |-> left]

IngBegin ==
  /\ ingRun = IngIdle /\ ingRuns < MaxIngRuns
  /\ ingRun' = Enter(1, Budget)
  /\ ingRuns' = ingRuns + 1
  /\ UNCHANGED <<upstream, ingTip, ingTables, ingHistory>>

\* Candidates of a source, numbered in their order, are cut to what is left of the
\* budget.
Candidates(items, more) ==
  LET cut == FirstOf(DOMAIN items, ingRun.left) IN
  ingRun' = [at |-> IF cut = {} THEN "end" ELSE "post", src |-> ingRun.src,
             nth |-> ingRun.nth, left |-> ingRun.left, batch |-> Restrict(items, cut),
             none |-> cut = {}, more |-> more]

\* _bootstrap_candidates(): an introduction for every group without one.
ListGroups ==
  /\ ingRun.at = "list" /\ ingRun.src = "bootstrap"
  /\ LET new == {k \in DOMAIN LocalGroups : /\ LocalGroups[k] \in ingGroups
                                             /\ <<"bootstrap", LocalGroups[k]>> \notin ingLedger}
     IN Candidates([k \in new |-> <<"bootstrap", LocalGroups[k]>>], <<>>)
  /\ UNCHANGED <<upstream, ingTip, ingTables, ingRuns, ingHistory>>

\* The numbers that pull_articles() takes up: from the cursor, or from a short
\* look-back when there is none or upstream has fallen behind it.
Fresh == ingCursor.nntp = -1 \/ ingCursor.nntp > High
ScanStart ==
  Max({upstream.low, IF Fresh THEN High - InitialItems + 1 ELSE ingCursor.nntp + 1})
ScanEnd == Min({High, ScanStart + ScanLimit - 1})
Wanted ==
  {n \in ScanStart..ScanEnd : /\ upstream.arts[n] \notin Unfit
                              /\ <<"nntp", upstream.arts[n]>> \notin ingLedger}

\* The last number scanned: the one that fills the budget, or the last there is.
ScanStops(last) ==
  IF ScanStart > High THEN last = High
  ELSE LET taken == Cardinality({n \in Wanted : n <= last}) IN
       /\ last \in ScanStart..ScanEnd
       /\ \/ last \in Wanted /\ taken = ingRun.left
          \/ last = ScanEnd /\ taken < ingRun.left

\* Mutant: the cursor of a scan that stopped early is the end of the scan.
ScanCursorEnd(last) == IF ScanStart > High THEN last ELSE ScanEnd

\* The cursor is the last number scanned.
ScanCursor(last) == last

\* pull_articles() and _ensure_nntp_group().
PullArticles ==
  /\ ingRun.at = "list" /\ ingRun.src = "nntp"
  /\ \E last \in 0..High :
       /\ ScanStops(last)
       /\ Candidates([n \in {k \in Wanted : k <= last} |-> <<"nntp", upstream.arts[n]>>],
                     [cursor |-> ScanCursor(last), fresh |-> Fresh \/ High = 0,
                      base |-> IF High = 0 THEN 1 ELSE ScanStart,
                      numbering |-> upstream.numbering])
  /\ ingGroups' = ingGroups \cup {"usenet"}
  /\ UNCHANGED <<upstream, ingTip, ingSources, ingLedger, ingArticles, ingCursor,
                 ingRuns, ingHistory>>

\* _git_hashes(): the ref is resolved and the commits after the cursor are
\* listed, oldest first; an unrelated cursor makes it a bounded scan.
GitHashes ==
  LET cursor == ingCursor.git
      all == Ancestry[ingTip]
      rewritten == cursor # NoCommit /\ cursor \notin all
      recent == LastOf(all, IF rewritten THEN ScanLimit ELSE InitialItems)
      bounded == cursor = NoCommit \/ rewritten
  IN
  /\ ingRun.at = "list" /\ ingRun.src = "git"
  /\ ingRun' = [at |-> "tip", src |-> "git", nth |-> ingRun.nth, left |-> ingRun.left,
                listed |-> IF bounded THEN recent
                           ELSE FirstOf(all \ Ancestry[cursor], ScanLimit),
                passed |-> IF bounded THEN all \ recent ELSE {}]
  /\ UNCHANGED <<upstream, ingTip, ingTables, ingRuns, ingHistory>>

\* _git_candidates(): the ref is resolved once more.
GitTip ==
  /\ ingRun.at = "tip"
  /\ Candidates([c \in ingRun.listed |-> <<"git", c>>],
                [tip |-> ingTip, passed |-> ingRun.passed])
  /\ UNCHANGED <<upstream, ingTip, ingTables, ingRuns, ingHistory>>

AlreadyIngested(i) == i \in ingLedger

\* The candidate that is next, and the run when it is done.
Upcoming(n) == \A m \in DOMAIN ingRun.batch : n <= m
Advance(r, n) ==
  LET rest == DOMAIN r.batch \ {n} IN
  [r EXCEPT !.batch = Restrict(@, rest), !.at = IF rest = {} THEN "end" ELSE "post"]

\* post_ingested_article(): an error ends the whole run.
PostItem ==
  /\ ingRun.at = "post"
  /\ \E n \in DOMAIN ingRun.batch :
       LET i == ingRun.batch[n]
           spent == [ingRun EXCEPT !.left = @ - 1]
       IN
       /\ Upcoming(n)
       /\ IF i \in Unpostable
          THEN ingRun' = IngIdle /\ UNCHANGED <<ingLedger, ingArticles, ingPosts>>
          ELSE /\ ingRun' = IF ingRun.src = "git" THEN [spent EXCEPT !.at = "cursor"]
                            ELSE Advance(spent, n)
               /\ IF AlreadyIngested(i)
                  THEN UNCHANGED <<ingLedger, ingArticles, ingPosts>>
                  ELSE /\ ingLedger' = ingLedger \cup {i}
                       /\ ingArticles' = ingArticles \cup {i}
                       /\ ingPosts' = [ingPosts EXCEPT ![i] = @ + 1]
  /\ UNCHANGED <<upstream, ingTip, ingSources, ingGroups, ingCursor, ingRuns,
                 ingCovers, ingPassed>>

\* set_ingest_cursor() after every commit.
SetGitCursor ==
  /\ ingRun.at = "cursor"
  /\ \E n \in DOMAIN ingRun.batch :
       /\ Upcoming(n)
       /\ ingCursor' = [ingCursor EXCEPT !.git = ingRun.batch[n][2]]
       /\ ingRun' = Advance(ingRun, n)
  /\ ingPassed' = ingPassed \cup ingRun.more.passed
  /\ UNCHANGED <<upstream, ingTip, ingSources, ingGroups, ingLedger, ingArticles, ingRuns,
                 ingPosts, ingCovers>>

\* What follows the last candidate: the nntp cursor; for git, the tip if there
\* was nothing to post.
EndSource ==
  /\ ingRun.at = "end"
  /\ ingRun' = Enter(ingRun.nth + 1, ingRun.left)
  /\ ingCursor' =
       CASE ingRun.src = "nntp" -> [ingCursor EXCEPT !.nntp = ingRun.more.cursor]
         [] ingRun.src = "git" /\ ingRun.none ->
              [ingCursor EXCEPT !.git = ingRun.more.tip]
         [] OTHER -> ingCursor
  /\ ingCovers' = IF ingRun.src = "nntp" /\ ingRun.more.fresh
                  THEN [numbering |-> ingRun.more.numbering, base |-> ingRun.more.base]
                  ELSE ingCovers
  /\ UNCHANGED <<upstream, ingTip, ingSources, ingGroups, ingLedger, ingArticles, ingRuns,
                 ingPosts, ingPassed>>

IngDies ==
  /\ ingRun # IngIdle /\ ingRun' = IngIdle
  /\ UNCHANGED <<upstream, ingTip, ingTables, ingRuns, ingHistory>>

\* prune_retention(): which article is old enough is a matter of its group's
\* retention_days; the ledger row stays (ON DELETE SET NULL).
PruneArticle(i) ==
  /\ i \in ingArticles /\ ingArticles' = ingArticles \ {i}
  /\ UNCHANGED <<upstream, ingTip, ingSources, ingGroups, ingLedger, ingCursor,
                 ingRun, ingRuns, ingHistory>>

UpstreamPosts(m) ==
  /\ "nntp" \in ingSources /\ m \notin ToSet(upstream.arts)
  /\ upstream' = [upstream EXCEPT !.arts = Append(@, m)]
  /\ UNCHANGED <<ingTip, ingTables, ingRun, ingRuns, ingHistory>>

UpstreamExpires ==
  /\ upstream.low <= High /\ upstream' = [upstream EXCEPT !.low = @ + 1]
  /\ UNCHANGED <<ingTip, ingTables, ingRun, ingRuns, ingHistory>>

\* The server renumbers what it still has.
UpstreamRenumbers ==
  /\ High > 0 /\ upstream.numbering < MaxRenumberings
  /\ upstream' = [low |-> 1, arts |-> SubSeq(upstream.arts, upstream.low, High),
                  numbering |-> upstream.numbering + 1]
  /\ UNCHANGED <<ingTip, ingTables, ingRun, ingRuns, ingHistory>>

\* The ref moves, forwards or, after a rewrite, to any other commit.
MoveTip(c) ==
  /\ "git" \in ingSources /\ c # ingTip /\ ingTip' = c
  /\ UNCHANGED <<upstream, ingTables, ingRun, ingRuns, ingHistory>>

IngNext ==
  \/ IngBegin \/ ListGroups \/ PullArticles \/ GitHashes \/ GitTip
  \/ PostItem \/ SetGitCursor \/ EndSource \/ IngDies
  \/ \E i \in IngItems : PruneArticle(i)
  \/ \E m \in MessageIds : UpstreamPosts(m)
  \/ UpstreamExpires \/ UpstreamRenumbers
  \/ \E c \in Commits : MoveTip(c)

IngSpec == IngInit /\ [][IngNext]_ingVars
----------------------------------------------------------------------------
\* "repeated runs cannot duplicate content": no item ever has a second article,
\* although runs die before they move a cursor, upstream renumbers, the
\* repository is rewritten and retention removes the articles themselves.
ItemsPostedOnce ==
  \A i \in IngItems : ingPosts[i] = IF i \in ingLedger THEN 1 ELSE 0

\* The nntp cursor never passes an article over: what lies behind it, from the
\* first number scanned in this numbering, is in the ledger, unfit or expired.
\* So a full budget, a refused article or a crash leaves the rest for later.
CursorPassesNothing ==
  ingCovers.numbering = upstream.numbering =>
    \A n \in ingCovers.base..ingCursor.nntp :
      \/ n < upstream.low \/ upstream.arts[n] \in Unfit
      \/ <<"nntp", upstream.arts[n]>> \in ingLedger

\* An upstream article is posted once and not passed over.
EveryItemOnce == ItemsPostedOnce /\ CursorPassesNothing

\* The same of the git cursor: "New eligible main commits are posted".
NoCommitPassedOver ==
  ingCursor.git # NoCommit =>
    \A c \in Ancestry[ingCursor.git] : c \in ingPassed \/ <<"git", c>> \in ingLedger
=============================================================================
