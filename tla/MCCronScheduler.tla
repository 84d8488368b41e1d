---------------------------- MODULE MCCronScheduler ----------------------------
(* Three terminals, of which a and c have resumed the same session, in        *)
(* several histories: some with two ends and a second start, some with one    *)
(* end in front of a task, some with an edit beside the tasks that are due.   *)
EXTENDS CronScheduler

CONSTANTS a, b, c, once, again, daily

\* Who starts how often.
Starts(n, m, k) == [s \in Sessions |-> CASE s = a -> n [] s = b -> m [] OTHER -> k]

Budget(starts, stops, crashes) ==
  [starts |-> starts, stops |-> stops, crashes |-> crashes]

Case(budget, scheduled, n) ==
  [budget |-> budget, scheduled |-> scheduled, edits |-> n]

Ids == [s \in Sessions |-> IF s = c THEN a ELSE s]

SomeCases ==
  {Case(Budget(Starts(2, 1, 0), 1, 1), {}, 0),
   Case(Budget(Starts(2, 1, 0), 2, 0), {}, 0),
   Case(Budget(Starts(1, 0, 1), 1, 1), {}, 0),
   Case(Budget(Starts(1, 1, 0), 0, 1), {once}, 0),
   Case(Budget(Starts(2, 0, 0), 1, 0), {once}, 0),
   Case(Budget(Starts(1, 1, 0), 1, 0), {daily}, 0),
   Case(Budget(Starts(1, 0, 0), 0, 0), {}, 1),
   Case(Budget(Starts(1, 0, 0), 0, 0), {once, daily}, 1)}

SomeBudgets == {x.budget : x \in SomeCases}

\* The races for the lock are those of the cases without tasks.  In the others a
\* session starts alone, or beside an owner that has started up.
BesideOwner ==
  (kept # {} \/ \E t \in Tasks : handled[t] > 0) =>
    \A s \in Sessions : phase[s] = "down" /\ phase'[s] # "down" =>
      \A r \in Sessions : phase[r] # "down" => Holds(r) /\ watching[r]

CronSpec == Init /\ [][Next /\ BesideOwner]_vars /\ Fairness

\* One session that runs on, and two one-shots for the same minute.
TwoOneShots == {Case(Budget(Starts(1, 0, 0), 0, 0), {once, again}, 0)}

TwoOneShotsBudgets == {x.budget : x \in TwoOneShots}
===============================================================================
