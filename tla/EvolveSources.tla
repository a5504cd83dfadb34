--------------------------- MODULE EvolveSources ---------------------------
(***************************************************************************)
(* What a daily-evolve run reads and what it makes of it: the sources of    *)
(* source-aggregator.mjs and the verdicts of diff-analyzer.mjs.  All of it  *)
(* is a function of the world at the time: a record w whose fields are      *)
(*   down       the sources whose call throws (gh missing, no permission);  *)
(*   grep       grep answers;                                               *)
(*   upstream   the issues and pull requests of the upstream repository;    *)
(*   changelog  the passages of CHANGELOG.md, each the text around a        *)
(*              number it cites;                                            *)
(*   events     the lines of telemetry/events.jsonl;                        *)
(*   projects   the memory directories of ~/.claude/projects, as listed;    *)
(*   refs       what the Unreleased block of CHANGELOG.md quotes;           *)
(*   todos      the lines grep finds with a TODO, in its order.             *)
(* Texts are numbers: id names the thing a record is about.                 *)
(***************************************************************************)
EXTENDS Integers, Sequences, FiniteSets

CONSTANTS BlameCap,   \* 100 TODO lines are looked at
          ClusterCap  \* 5 failure clusters are kept

ASSUME SourcesAssumption == BlameCap \in Nat /\ ClusterCap \in Nat

Sources == {"upstream_prs", "upstream_issues", "telemetry",
            "memory_feedback", "unreleased_gap", "todo_stale",
            "failure_cluster"}

RecentDays == 30

----------------------------------------------------------------------------
\* source-aggregator.mjs

\* Open ones, and those closed in the recent window.  The issues endpoint
\* returns pull requests too, which are left out.
Fetched(w, kind) ==
  {i \in w.upstream : i.kind = kind /\ (i.open \/ i.age <= RecentDays)}

\* The feedback notes of the first directory that may be this project's memory;
\* without such a directory, the notes of all projects that name the plugin.
MemoryFeedback(w) ==
  LET projects == DOMAIN w.projects
      own == {i \in projects : w.projects[i].own}
      scanned == IF own = {} THEN projects
                 ELSE {i \in own : \A k \in own : i <= k}
  IN {n \in UNION {w.projects[i].notes : i \in scanned} :
        n.feedback /\ (own # {} \/ n.keyword)}

\* A quoted path outside the run's own output that grep finds nowhere; when
\* grep fails, every one of them.
UnreleasedGaps(w) ==
  {r \in w.refs : r.path /\ ~r.output /\ ~(w.grep /\ r.found)}

\* Of the first hundred TODO lines, those git blame dates a month back.
StaleTodos(w) ==
  IF ~w.grep THEN {}
  ELSE {w.todos[i] : i \in {k \in DOMAIN w.todos :
          k <= BlameCap /\ w.todos[k].blamed /\ w.todos[k].age > RecentDays}}

\* One line that does not parse fails the whole file.
Torn(w) == \E i \in DOMAIN w.events : w.events[i].kind = "torn"

Telemetry(w) ==
  IF Torn(w) \/ "telemetry" \in w.down THEN <<>> ELSE w.events

\* The messages of failed and terminated jobs, the five most frequent ones;
\* of two as frequent the one seen first.
FailureClusters(w) ==
  LET events == Telemetry(w)
      failures == {i \in DOMAIN events :
                     events[i].kind \in {"failed", "terminated"}}
      messages == {events[i].message : i \in failures}
      Of(m) == {i \in failures : events[i].message = m}
      First(m) == CHOOSE i \in Of(m) : \A k \in Of(m) : i <= k
      Before(m, n) ==
        \/ Cardinality(Of(m)) > Cardinality(Of(n))
        \/ /\ Cardinality(Of(m)) = Cardinality(Of(n))
           /\ First(m) < First(n)
  IN {m \in messages :
        Cardinality({n \in messages : Before(n, m)}) < ClusterCap}

\* safeCall, and the loop that moves a failed source to errors.
Errors(w) ==
  w.down \union (IF Torn(w) THEN {"telemetry"} ELSE {})

\* Mutant: one failure fails the whole collection.
KeptNone(w, source) == Errors(w) = {}

\* A source keeps what it returned unless its call threw.
Kept(w, source) == source \notin Errors(w)

Surfaced(w) == Errors(w)

----------------------------------------------------------------------------
\* diff-analyzer.mjs, fixed-resolver.mjs

\* indexOf("#" + number) also stops at a longer number that begins with it.
Cites(passage, number) ==
  \E n \in passage.cites :
    \/ n = number \/ n \div 10 = number \/ n \div 100 = number

Citing(w, number) ==
  {i \in DOMAIN w.changelog : Cites(w.changelog[i], number)}

Context(w, number) ==
  w.changelog[CHOOSE i \in Citing(w, number) :
                \A k \in Citing(w, number) : i <= k]

\* A keyword in a path touched within thirty days; an added assert in a
\* commit that cites the number; the pull request merged into HEAD.
Evidence(item, skipGhApi) ==
  item.touched \/ item.asserted \/ (~skipGhApi /\ item.merged)

\* "planned", "known issue" and the like in the passage reject it.
ResolveFixed(passage, item, skipGhApi) ==
  IF ~passage.promise /\ Evidence(item, skipGhApi) THEN "FIXED"
  ELSE "PARTIAL"

IssueVerdict(w, item, skipGhApi) ==
  IF Citing(w, item.id) = {} THEN "NOT-FIXED"
  ELSE ResolveFixed(Context(w, item.id), item, skipGhApi)

Rec(verdict, signal, id, age) ==
  [verdict |-> verdict, signal |-> signal, id |-> id, age |-> age]

\* The records of one source.
RecordsOf(w, source, skipGhApi) ==
  CASE source = "upstream_prs" ->
         {Rec(IssueVerdict(w, i, skipGhApi), "upstream-pr", i.id, 0) :
            i \in Fetched(w, "pr")}
    [] source = "upstream_issues" ->
         {Rec(IssueVerdict(w, i, skipGhApi), "upstream-issue", i.id, 0) :
            i \in Fetched(w, "issue")}
    [] source = "telemetry" -> {}
    [] source = "failure_cluster" ->
         {Rec("NOT-FIXED", "telemetry-ux", m, 0) : m \in FailureClusters(w)}
    [] source = "memory_feedback" ->
         {Rec("QUESTION", "memory-drift", n.id, 0) : n \in MemoryFeedback(w)}
    [] source = "unreleased_gap" ->
         {Rec("PARTIAL", "unreleased-gap", r.id, 0) : r \in UnreleasedGaps(w)}
    [] source = "todo_stale" ->
         {Rec("PARTIAL", "todo-stale", t.id, t.age) : t \in StaleTodos(w)}

\* aggregate, then analyze.
Analyzed(w, skipGhApi) ==
  UNION {RecordsOf(w, s, skipGhApi) : s \in {s \in Sources : Kept(w, s)}}
============================================================================
