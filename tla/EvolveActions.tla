--------------------------- MODULE EvolveActions ---------------------------
(***************************************************************************)
(* What a daily-evolve run decides about its records: the triage and its    *)
(* cost cap (codex-triage.mjs, cost-cap.mjs), the drafts proposed and the   *)
(* seven days' cache that keeps them from being proposed again              *)
(* (action-executor.mjs, action-policy.mjs, dedupe-key.mjs), the health of  *)
(* the login that the digest reports (auth-health-check.mjs), and the cron  *)
(* line of schedule-setup.mjs.  Records are those of EvolveSources, and the *)
(* import candidates of EvolveForks.                                        *)
(***************************************************************************)
EXTENDS EvolveSources, EvolveForks

CONSTANTS FanOut,         \* fewer than 3 records are not triaged
          BaselinesKept,  \* costs of the last 7 runs
          CapMultiplier,  \* their median times 3 is the cap
          InitialUnits,   \* 20, without any
          DraftCap,       \* 5 drafts in one execution
          CacheDays       \* a proposed draft is remembered for 7 days

ASSUME ActionsAssumption ==
  {FanOut, BaselinesKept, CapMultiplier, InitialUnits, DraftCap, CacheDays}
    \subseteq Nat

----------------------------------------------------------------------------
\* auth-health-check.mjs

\* The report of setup --json; the first condition that fails names it.
Health(s) ==
  IF ~s.answers THEN "unknown"
  ELSE IF ~s.available THEN "cli_unavailable"
  ELSE IF s.transient \/ s.loggedIn = "null" THEN "transient"
  ELSE IF s.loggedIn # "yes" THEN "not_logged_in"
  ELSE IF s.stale \/ ~s.verified THEN "not_verified"
  ELSE IF ~s.ready THEN "unknown"
  ELSE "ready"

\* buildFailureMessage: what the digest says of it, "none" for a good one.
HealthMessage(s) == IF Health(s) = "ready" THEN "none" ELSE Health(s)

----------------------------------------------------------------------------
\* codex-triage.mjs, cost-cap.mjs, cost-profile-registry.mjs

Heuristic(r) ==
  CASE r.verdict \in {"FIXED", "WONTFIX"} -> "autonomous_safe"
    [] r.verdict = "QUESTION" -> "needs_claude_judgment"
    [] OTHER -> "needs_user"

\* No usage is known, so a decision-triage turn costs what its profile says.
TurnUnits == 1

\* Twice the median of a sequence of costs.
TwiceMedian(units) ==
  LET n == Len(units)
      Below(i) == Cardinality({k \in 1..n :
                    units[k] < units[i] \/ (units[k] = units[i] /\ k < i)})
      At(rank) == units[CHOOSE i \in 1..n : Below(i) = rank]
  IN At((n - 1) \div 2) + At(n \div 2)

TwiceCap(units) ==
  CapMultiplier *
    (IF units = <<>> THEN 2 * InitialUnits ELSE TwiceMedian(units))

CapExceeded(units) == 2 * TurnUnits > TwiceCap(units)

\* appendBaseline
Charged(units) ==
  LET next == Append(units, TurnUnits)
  IN IF Len(next) > BaselinesKept
     THEN SubSeq(next, Len(next) - BaselinesKept + 1, Len(next))
     ELSE next

\* Whether the records are worth a triage, and affordable.
WorthTriage(records) == Cardinality(records) >= FanOut

Triaged(records, judged) ==
  {[record |-> r, triage |-> IF judged THEN Heuristic(r) ELSE "needs_user"] :
     r \in records}

\* The import candidates join the records.
ForkRecords(forks, budget) ==
  {Rec("NOT-FIXED", "fork-import-candidate", forks[k].id, 0) :
     k \in Imports(forks, budget)}

----------------------------------------------------------------------------
\* action-policy.mjs, dedupe-key.mjs, action-executor.mjs

\* heuristicL5
L5(r) ==
  CASE r.signal = "todo-stale" /\ r.age >= 30 -> "pr_draft"
    [] r.signal \in {"unreleased-gap", "telemetry-ux", "memory-drift",
                     "fork-import-candidate"} -> "needs_user"
    [] OTHER -> "skip"

L5Units == 1

\* The title of a stale TODO spells out its age.
DedupeKey(r) == <<r.signal, r.id, r.age, r.verdict>>

\* pruneCache
Live(entries, today) == {e \in entries : today - e.day < CacheDays}

\* The records, in their order, that are proposed as drafts: of those that
\* ask for it and are not cached, the first with a key, up to the cap.
Candidates(records, live) ==
  LET keys == {e.key : e \in live}
      asking == {i \in DOMAIN records :
                   /\ records[i].triage = "autonomous_safe"
                   /\ L5(records[i].record) = "pr_draft"}
      Key(i) == DedupeKey(records[i].record)
      fresh == {i \in asking :
                  /\ Key(i) \notin keys
                  /\ \A k \in asking : k < i => Key(k) # Key(i)}
  IN {i \in fresh : Cardinality({k \in fresh : k < i}) < DraftCap}

CacheAfter(records, live, today) ==
  live \union {[key |-> DedupeKey(records[i].record), day |-> today] :
                 i \in Candidates(records, live)}

L5Cost(triaged) ==
  L5Units * Cardinality({t \in triaged : t.triage = "autonomous_safe"})
============================================================================
