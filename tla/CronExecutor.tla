---------------------------- MODULE CronExecutor ----------------------------
(***************************************************************************)
(* The jobs of the CronJob that invokes the actions of the users: each one *)
(* reads the actions with a cron expression or to be executed once, reads  *)
(* the keys of their owners, and works through what it has read.  Jobs may *)
(* start late and overlap.                                                 *)
(*                                                                         *)
(* The clock goes round; a cron expression is the set of the instants of   *)
(* the round it stands for.                                                *)
(***************************************************************************)
EXTENDS NamespaceLimits, FiniteSets

CONSTANTS
  Period,    \* the instants of a round
  Schedule,  \* the instants the executor is scheduled at
  MaxDelay,  \* bound: how late a job starts
  MaxJobs,   \* bound: the jobs that exist at once
  Action,    \* actions of users
  owner_of,  \* the user an action is of
  Crons,     \* the cron annotations that are used
  NoCron,    \* no such annotation
  Invalid    \* an annotation that is not a cron expression

Instant == 0 .. Period - 1

ASSUME ClockAssumption ==
  Period \in Nat \ {0} /\ Schedule \subseteq Instant /\ Schedule # {}
ASSUME ActionsAssumption ==
  /\ owner_of \in [Action -> Login]
  /\ NoCron \in Crons
  /\ \A cron \in Crons \ {NoCron, Invalid} : cron \subseteq Instant
ASSUME JobsAssumption == MaxDelay \in Nat /\ MaxJobs \in Nat \ {0}

Job == 1 .. MaxJobs

VARIABLES
  clock,     \* the present instant
  actions,   \* the actions of the users with their annotations
  updates,   \* how often they were changed
  job,       \* the jobs
  expected,  \* history: the actions with the instants they are to run for,
             \* when nothing has hindered its job
  served     \* history: the actions with the instants they were invoked for

cronVars == <<clock, actions, updates, job, expected, served>>

NoAction == [exists |-> FALSE, cron |-> NoCron, autoexec |-> FALSE]

NoJob ==
  [at |-> "none", scheduled |-> 0, window |-> {}, covers |-> {},
   todo |-> <<>>, keys |-> [l \in Login |-> 0], invoking |-> {}]

----------------------------------------------------------------------------
(* When a job runs, and what it looks back on.                             *)

\* The first instant of the schedule after t.
get_next(t) ==
  CHOOSE n \in t + 1 .. t + Period :
    /\ n % Period \in Schedule
    /\ \A m \in t + 1 .. n - 1 : m % Period \notin Schedule

\* Mutant: the time until the next job.
from_cron_to_seconds_next(base) == get_next(base) - base

from_cron_to_seconds(base) == get_next(get_next(base)) - get_next(base)

\* croniter_range has both ends.
looks_back_on(current, interval) ==
  {t % Period : t \in {u \in current .. current + Period :
                         u >= current + Period - interval}}

\* Whether there is an instant of the expression among those.
action_should_trigger(window, cron) == window \cap cron # {}

should_trigger(window, cron) ==
  cron \notin {NoCron, Invalid} /\ action_should_trigger(window, cron)

----------------------------------------------------------------------------
(* Users and their actions.                                                *)

\* An action is deployed with other annotations, or removed.
Update(a, cron, autoexec) ==
  /\ updates < scenario.updates /\ updates' = updates + 1
  /\ cron \in scenario.crons
  /\ actions' = [actions EXCEPT ![a] =
       [exists |-> TRUE, cron |-> cron, autoexec |-> autoexec]]
  /\ actions' # actions
  /\ expected' = {e \in expected : e[1] # a}
  /\ UNCHANGED <<scenario, faults, clock, job, served>>

RemoveAction(a) ==
  /\ updates < scenario.updates /\ updates' = updates + 1
  /\ actions[a].exists
  /\ actions' = [actions EXCEPT ![a] = NoAction]
  /\ expected' = {e \in expected : e[1] # a}
  /\ UNCHANGED <<scenario, faults, clock, job, served>>

----------------------------------------------------------------------------
(* The CronJob.                                                            *)

\* The time from the instant t to the instant s.
from_to(t, s) == (s + Period - t) % Period

late(j) == from_to(job[j].scheduled, clock) >= MaxDelay

\* The instant of the schedule whose job is to look back on t.
served_at(t) == get_next(t + Period - 1) % Period

due(t) ==
  {a \in Action : actions[a].exists /\ ~actions[a].autoexec
                  /\ actions[a].cron \notin {NoCron, Invalid}
                  /\ t \in actions[a].cron /\ users[owner_of[a]] # 0}

\* The clock goes on; at an instant of the schedule there is a new job.
Tick ==
  LET t == (clock + 1) % Period
  IN /\ scenario.clock
     /\ ~\E j \in Job : job[j].at = "pending" /\ late(j)
     /\ clock' = t
     /\ served' = {e \in served : e[2] # t}
     /\ expected' = {e \in expected : e[2] # t} \union (due(t) \X {t})
     /\ IF t \in Schedule
          THEN /\ \E j \in Job :
                    /\ job[j].at = "none" /\ \A i \in 1 .. j - 1 : job[i].at # "none"
                    /\ job' = [i \in Job |->
                         IF i = j THEN [NoJob EXCEPT !.at = "pending", !.scheduled = t]
                         ELSE [job[i] EXCEPT !.covers = @ \ {t}]]
               /\ ~\E i \in Job : job[i].at # "none" /\ job[i].scheduled = t
          ELSE job' = [i \in Job |-> [job[i] EXCEPT !.covers = @ \ {t}]]
     /\ UNCHANGED <<scenario, faults, actions, updates>>

Ended(j) == job' = [job EXCEPT ![j] = NoJob]

Hindered(j) == expected' = {e \in expected : served_at(e[2]) # job[j].scheduled}

\* What a failing request leaves of the answer: the pages before it.
answers(full) == SUBSET full

\* A job looks back from the moment it starts, and both ends of what it looks
\* back on count: it may be one instant late.  Of those it was to run for, one
\* that is later leaves out what the window no longer holds.
Overslept(j, window) ==
  expected' = IF from_to(job[j].scheduled, clock) <= 1 THEN expected
              ELSE {e \in expected : served_at(e[2]) = job[j].scheduled
                                        => e[2] \in window}

start(j) ==
  /\ job[j].at = "pending"
  /\ LET window == looks_back_on(clock, from_cron_to_seconds(clock))
     IN \/ /\ job' = [job EXCEPT ![j].at = "actions", ![j].window = window,
                                 ![j].covers = window]
           /\ Overslept(j, window)
           /\ UNCHANGED faults
        \/ \* The database is not ready.
           Fault /\ Ended(j) /\ Hindered(j)
  /\ UNCHANGED <<scenario, clock, actions, updates, served>>

get_cron_aware_actions(j) ==
  LET found == {a \in Action : actions[a].exists
                               /\ (actions[a].cron # NoCron \/ actions[a].autoexec)}
      Reads(A) ==
        IF A = {} THEN Ended(j)
        ELSE job' = [job EXCEPT ![j].at = "subjects",
                                ![j].todo = [a \in A |-> actions[a]]]
  IN /\ job[j].at = "actions"
     /\ \/ Reads(found) /\ UNCHANGED <<faults, expected>>
        \/ Fault /\ Hindered(j) /\ \E A \in answers(found) : Reads(A)
     /\ UNCHANGED <<scenario, clock, actions, updates, served>>

get_subjects(j) ==
  LET Reads(L) ==
        job' = [job EXCEPT ![j].at = "handle",
                  ![j].keys = [l \in Login |-> IF l \in L THEN users[l] ELSE 0]]
  IN /\ job[j].at = "subjects"
     /\ \/ Reads(Login) /\ UNCHANGED <<faults, expected>>
        \/ Fault /\ Hindered(j) /\ \E L \in answers(Login) : Reads(L)
     /\ UNCHANGED <<scenario, clock, actions, updates, served>>

\* Mutant: an action with a cron expression is not one to be executed once.
execute_cron_first(j, a) ==
  IF a.cron # NoCron
    THEN IF should_trigger(job[j].window, a.cron) THEN "execute" ELSE "no_execution"
  ELSE "execute_once"

\* The annotation autoexec has precedence.
execute(j, a) ==
  IF a.autoexec THEN "execute_once"
  ELSE IF should_trigger(job[j].window, a.cron) THEN "execute" ELSE "no_execution"

get_auth(j, a) == job[j].keys[owner_of[a]]

\* Mutant: the action invoked last is not forgotten.
Handled_invoking(j, a) ==
  job' = [job EXCEPT ![j].at = "handle",
            ![j].todo = [b \in DOMAIN @ \ {a} |-> @[b]]]

Handled(j, a) ==
  job' = [job EXCEPT ![j].at = "handle", ![j].invoking = {},
            ![j].todo = [b \in DOMAIN @ \ {a} |-> @[b]]]

\* OpenWhisk takes what the owner of an action asks for.
taken(j, a) == actions[a].exists /\ users[owner_of[a]] = get_auth(j, a)

\* handle_action, as far as the invocation, which the limits may forbid.
handle_action(j, a) ==
  LET seen == job[j].todo[a]
      what == execute(j, seen)
  IN /\ job[j].at = "handle" /\ a \in DOMAIN job[j].todo
     /\ IF what = "no_execution" \/ get_auth(j, a) = 0
          THEN Handled(j, a) /\ UNCHANGED <<faults, expected, served>>
          ELSE \/ /\ IF taken(j, a) /\ ~throttled(owner_of[a]) /\ what = "execute_once"
                       THEN job' = [job EXCEPT ![j].at = "unschedule",
                                               ![j].invoking = {a}]
                       ELSE Handled(j, a)
                  /\ served' = served \union
                       (IF what = "execute" THEN {a} \X (job[j].covers \cap seen.cron)
                        ELSE {})
                  /\ UNCHANGED <<faults, expected>>
               \/ Fault /\ Hindered(j) /\ Handled(j, a) /\ UNCHANGED served
     /\ UNCHANGED <<scenario, clock, actions, updates>>

\* The annotations are replaced by one: no cron expression is left either.
unschedule_autoexec_action(j, a) ==
  LET Puts ==
        /\ actions' = [actions EXCEPT ![a].cron = NoCron, ![a].autoexec = FALSE]
        /\ expected' = {e \in expected : e[1] # a}
  IN /\ job[j].at = "unschedule" /\ a \in job[j].invoking
     /\ Handled(j, a)
     /\ \/ taken(j, a) /\ Puts /\ UNCHANGED faults
        \/ ~taken(j, a) /\ UNCHANGED <<actions, expected, faults>>
        \/ /\ Fault
           /\ \/ taken(j, a) /\ Puts
              \/ UNCHANGED <<actions, expected>>
     /\ UNCHANGED <<scenario, clock, updates, served>>

finish(j) ==
  /\ job[j].at = "handle" /\ DOMAIN job[j].todo = {}
  /\ Ended(j)
  /\ UNCHANGED <<scenario, faults, clock, actions, updates, expected, served>>

\* The container dies and is started again.
die(j) ==
  /\ job[j].at \notin {"none", "pending"} /\ Fault
  /\ job' = [job EXCEPT ![j] =
       [NoJob EXCEPT !.at = "pending", !.scheduled = job[j].scheduled]]
  /\ Hindered(j)
  /\ UNCHANGED <<scenario, clock, actions, updates, served>>

Running(j) ==
  \/ start(j)
  \/ get_cron_aware_actions(j)
  \/ get_subjects(j)
  \/ \E a \in Action : handle_action(j, a) \/ unschedule_autoexec_action(j, a)
  \/ finish(j)

CronInit ==
  /\ clock = 0
  /\ actions = [a \in Action |-> NoAction]
  /\ updates = 0
  /\ job = [j \in Job |-> NoJob]
  /\ expected = {} /\ served = {}

CronNext ==
  \/ \E a \in Action, cron \in Crons, autoexec \in BOOLEAN : Update(a, cron, autoexec)
  \/ \E a \in Action : RemoveAction(a)
  \/ Tick
  \/ \E j \in Job : Running(j) \/ die(j)

CronTypeOK ==
  LET Annotated == [exists : BOOLEAN, cron : Crons, autoexec : BOOLEAN]
  IN /\ clock \in Instant
     /\ actions \in [Action -> Annotated]
     /\ updates \in Nat
     /\ \A j \in Job :
          /\ job[j].at \in {"none", "pending", "actions", "subjects", "handle",
                            "unschedule"}
          /\ job[j].scheduled \in Instant
          /\ job[j].covers \subseteq job[j].window /\ job[j].window \subseteq Instant
          /\ \A a \in DOMAIN job[j].todo : a \in Action /\ job[j].todo[a] \in Annotated
          /\ job[j].invoking \subseteq DOMAIN job[j].todo
     /\ expected \subseteq Action \X Instant
     /\ served \subseteq Action \X Instant
=============================================================================
