----------------------------- MODULE MCEvolve ------------------------------
\* Two worlds, four forks, and the invocations of three processes.
EXTENDS Evolve

Item(kind, id, open, age, touched, merged) ==
  [kind |-> kind, id |-> id, open |-> open, age |-> age,
   touched |-> touched, asserted |-> FALSE, merged |-> merged]

Event(kind, message) == [kind |-> kind, message |-> message]
Note(id, feedback, keyword) ==
  [id |-> id, feedback |-> feedback, keyword |-> keyword]
Ref(id, output, found) ==
  [id |-> id, path |-> TRUE, output |-> output, found |-> found]
Todo(id, blamed, age) == [id |-> id, blamed |-> blamed, age |-> age]

Busy == [down |-> {}, grep |-> TRUE,
  upstream |-> {Item("pr", 12, FALSE, 3, FALSE, TRUE),
                Item("issue", 7, TRUE, 90, TRUE, FALSE),
                Item("issue", 9, FALSE, 60, TRUE, FALSE)},
  changelog |-> <<[cites |-> {12}, promise |-> FALSE],
                  [cites |-> {7}, promise |-> TRUE]>>,
  events |-> <<Event("failed", 1), Event("other", 0), Event("failed", 2),
               Event("terminated", 2), Event("failed", 3)>>,
  projects |-> <<[own |-> FALSE, notes |-> {Note(1, TRUE, TRUE),
                                            Note(2, TRUE, FALSE)}]>>,
  refs |-> {Ref(1, FALSE, FALSE), Ref(2, TRUE, FALSE), Ref(3, FALSE, TRUE)},
  todos |-> <<Todo(1, TRUE, 40), Todo(2, TRUE, 10), Todo(3, TRUE, 90)>>]

Broken == [Busy EXCEPT !.down = {"upstream_prs", "upstream_issues"},
                       !.events = <<Event("torn", 0)>>, !.grep = FALSE,
                       !.projects = @ \o
                         <<[own |-> TRUE, notes |-> {Note(2, TRUE, FALSE)}],
                           [own |-> TRUE, notes |-> {Note(3, TRUE, TRUE)}]>>]

Quiet == [Busy EXCEPT !.upstream = {}, !.events = <<>>, !.projects = <<>>,
                      !.refs = {}, !.todos = <<>>]

Fork(id, stars, licence, compared, matched) ==
  [id |-> id, self |-> FALSE, licence |-> licence, stars |-> stars,
   pushed |-> 2, archived |-> FALSE, named |-> TRUE, compared |-> compared,
   ahead |-> 6, authors |-> 3, ratio |-> 80, mergeAge |-> 20, unique |-> 8,
   matched |-> matched]

Forks == <<Fork(1, 1, "MIT", TRUE, 9), Fork(2, 5, "MIT", TRUE, 0),
           Fork(3, 9, "GPL-3.0", TRUE, 9), Fork(4, 3, "MIT", FALSE, 9),
           Fork(5, 2, "MIT", TRUE, 2)>>

Login == [answers |-> TRUE, available |-> TRUE, transient |-> FALSE,
          loggedIn |-> "yes", stale |-> FALSE, verified |-> TRUE,
          ready |-> TRUE]
Expired == [Login EXCEPT !.loggedIn = "no", !.verified = FALSE,
                         !.ready = FALSE]

Run(world, phase, setup, budget) ==
  [kind |-> "run", disabled |-> FALSE, phase |-> phase, skipGhApi |-> FALSE,
   world |-> world, setup |-> setup, forks |-> Forks, budget |-> budget]

Stale40 == [record |-> Rec("PARTIAL", "todo-stale", 1, 40),
            triage |-> "autonomous_safe"]
Stale90 == [record |-> Rec("PARTIAL", "todo-stale", 3, 90),
            triage |-> "autonomous_safe"]
Act(records) == [kind |-> "act", records |-> records]
Reviewing(type, force) == [kind |-> "review", disabled |-> FALSE,
                           type |-> type, force |-> force]
Probing(disabled) == [kind |-> "probe", disabled |-> disabled]

Plan(files, from, a, b, c) ==
  [files |-> files, from |-> from, job |-> [p1 |-> a, p2 |-> b, p3 |-> c]]

MCDays == <<0, 3, 7>>

Runs == <<Run(Busy, 4, Login, 3), Run(Busy, 2, Login, 1),
          Run(Quiet, 1, Login, 1)>>

MCPlans ==
  {Plan("absent", 3, Runs[1], Runs[2], Runs[3]),
   Plan("torn", 1, Run(Broken, 4, Expired, Unlimited), Runs[3],
        Act(<<Stale40>>)),
   Plan("newer", 1, Runs[1], Act(<<Stale40>>), Reviewing("weekly", FALSE)),
   Plan("absent", 1, Act(<<Stale40, Stale90, Stale40>>),
        Act(<<Stale90, Stale40>>), Act(<<Stale40>>)),
   Plan("torn", 1, Reviewing("weekly", FALSE), Reviewing("monthly", TRUE),
        Reviewing("weekly", FALSE)),
   Plan("absent", 1, Reviewing("weekly", FALSE), Reviewing("weekly", TRUE),
        Reviewing("weekly", FALSE)),
   Plan("absent", 3, Probing(FALSE), Probing(TRUE),
        Run(Quiet, 6, Login, 1)),
   Plan("absent", 3, [Reviewing("weekly", FALSE) EXCEPT !.disabled = TRUE],
        [Runs[2] EXCEPT !.disabled = TRUE],
        [Runs[1] EXCEPT !.world = Broken, !.phase = 0])}
============================================================================
