---------------------------- MODULE EvolveForks ----------------------------
(***************************************************************************)
(* The active-fork research of daily-evolve (fork-research.mjs and its      *)
(* fork-ranking.mjs): of the forks GitHub lists, which become import        *)
(* candidates, at how many API calls and advisory (L7) calls.               *)
(*                                                                         *)
(* forks is a sequence, in the order of the list.  Ratios are percentages,  *)
(* ages days; scores are integers, a baseline of 100 being Whole * 100.     *)
(***************************************************************************)
EXTENDS Integers, Sequences, FiniteSets

CONSTANTS TopCandidates,  \* 10 are ranked for advice
          TopFinal,       \* 5 are proposed
          TopAusterity,   \* 3 get advice when there are many forks
          AusterityAbove  \* 50 forks are many

ASSUME ForksAssumption ==
  /\ {TopCandidates, TopFinal, TopAusterity, AusterityAbove} \subseteq Nat
  /\ TopAusterity <= TopCandidates

\* Of the forks GitHub lists, what the order of research is made from.
ForkList(forks) ==
  /\ DOMAIN forks = 1..Len(forks) /\ Len(forks) \in Nat
  /\ \A i \in DOMAIN forks : forks[i].stars \in Nat /\ forks[i].pushed \in Nat

\* CODEX_PLUGIN_FORK_API_BUDGET is not set.
Unlimited == 1000

----------------------------------------------------------------------------
\* fork-ranking.mjs

Licences == {"Apache-2.0", "MIT", "BSD-2-Clause", "BSD-3-Clause"}

\* Without an answer of the compare call ahead is 0 and the rest unknown.
IsActive(f) ==
  /\ f.compared
  /\ f.pushed < 30 /\ ~f.archived
  /\ f.ahead >= 5 /\ f.authors >= 2 /\ f.ratio >= 30

\* A common denominator of the five axes.
Whole == 365 * 9 * 50 * 3

Recency(f)   == IF f.mergeAge >= 365 THEN 0
                ELSE (365 - f.mergeAge) * (Whole \div 365)
Matching(f)  == f.matched * (Whole \div 9)
Uniqueness(f) == IF f.unique >= 50 THEN Whole ELSE f.unique * (Whole \div 50)
Diversity(f) == IF f.authors < 2 THEN 0 ELSE IF f.authors >= 5 THEN Whole
                ELSE (f.authors - 2) * (Whole \div 3)

Score(f) ==
  30 * Recency(f) + 25 * Matching(f) + 20 * Uniqueness(f) + 15 * Diversity(f)
  + f.ratio * (Whole \div 10)

\* heuristicL7: the advice, as tenths the score is multiplied by.
Advice(f) ==
  IF 2 * f.matched >= 9 /\ f.unique >= 5 THEN 13
  ELSE IF f.mergeAge >= 180 \/ f.ratio < 50 THEN 7
  ELSE 10

----------------------------------------------------------------------------
\* fork-research.mjs

Eligible(forks) ==
  {i \in DOMAIN forks : ~forks[i].self /\ forks[i].licence \in Licences}

\* Mutant: in the order of the list.
FirstByList(forks, i, k) == i < k

\* By stars, then by the last push: they are worth the budget.
First(forks, i, k) ==
  \/ forks[i].stars > forks[k].stars
  \/ /\ forks[i].stars = forks[k].stars
     /\ \/ forks[i].pushed < forks[k].pushed
        \/ forks[i].pushed = forks[k].pushed /\ i < k

\* selectTopN: by the score, then by stars, then in the order it is given.
Ahead(forks, score, order, i, k) ==
  \/ score[i] > score[k]
  \/ /\ score[i] = score[k]
     /\ \/ forks[i].stars > forks[k].stars
        \/ /\ forks[i].stars = forks[k].stars
           /\ \/ order[i] > order[k]
              \/ order[i] = order[k] /\ First(forks, i, k)

TopN(forks, S, score, order, n) ==
  {k \in S : Cardinality({i \in S : Ahead(forks, score, order, i, k)}) < n}

\* The API calls made before fork k: the list, and a compare call for each
\* fork before it (none for a name without a slash).
CallsBefore(forks, k) ==
  1 + Cardinality({i \in Eligible(forks) :
                     First(forks, i, k) /\ forks[i].named})

Within(forks, budget, k) == CallsBefore(forks, k) < budget

Enriched(forks, budget) ==
  {k \in Eligible(forks) : Within(forks, budget, k)}

ApiCalls(forks, budget) ==
  1 + Cardinality({k \in Enriched(forks, budget) : forks[k].named})

Ranked(forks, budget) ==
  LET active == {k \in Enriched(forks, budget) : IsActive(forks[k])}
      score == [k \in active |-> Score(forks[k])]
  IN TopN(forks, active, score, score, TopCandidates)

\* The candidates that get advice, the best first.
Advised(forks, budget) ==
  LET candidates == Ranked(forks, budget)
      n == IF Len(forks) > AusterityAbove THEN TopAusterity
           ELSE TopCandidates
      score == [k \in candidates |-> Score(forks[k])]
  IN TopN(forks, candidates, score, score, n)

\* The forks proposed for import.
Imports(forks, budget) ==
  LET advised == Advised(forks, budget)
      score == [k \in advised |-> Score(forks[k])]
      adjusted == [k \in advised |-> score[k] * Advice(forks[k])]
  IN TopN(forks, advised, adjusted, score, TopFinal)

\* Each piece of advice is one cost unit (profile decision-triage).
AdviceCost(forks, budget) == Cardinality(Advised(forks, budget))
============================================================================
