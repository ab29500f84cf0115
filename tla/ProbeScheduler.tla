--------------------------- MODULE ProbeScheduler ---------------------------
(***************************************************************************)
(* When the automatic probe of a credential runs (probe.go): one due time  *)
(* per credential, which a running task sets far ahead, a scan every       *)
(* second, and a rescan flag for what changes while a task runs.  What a   *)
(* probe request does to the pool is TurnStatePool's; here it only counts  *)
(* that the pool changed, which re-plans the credential.                   *)
(***************************************************************************)
EXTENDS Naturals, FiniteSets

CONSTANTS
    Auths,       \* credentials that have a rule at some time
    Workers,     \* task goroutines; bounds how many run at once
    Models,      \* how many models a rule can list
    MaxChanges,  \* bounds the versions a rule goes through
    Calls        \* how many calls fit in probeTaskMaxAge if each runs into its
                 \* own timeout (6 in the code: 90 seconds in 10 minutes)

ASSUME BoundsAssumption ==
    Models \in Nat \ {0} /\ MaxChanges \in Nat /\ Calls \in Nat

VARIABLES
    life,     \* "open", "stopping" or "closed", as in TurnStatePool
    rule,     \* version of the rule, the version the operator last saved or
              \* deleted, and whether its probe is active; with no rule it is not
    due,      \* probeSchedule.nextDue: none or past, later, or the running
              \* marker, fresh or older than any task should be; and the
              \* version a later time was planned under
    rescan,   \* probeSchedule.rescan
    task      \* the tasks: where one is, the rule it read, the models left and
              \* what it will schedule

vars == <<life, rule, due, rescan, task>>

Idle == [at |-> "idle", auth |-> CHOOSE a \in Auths : TRUE, ver |-> 0, left |-> 0,
         asked |-> 0, next |-> "none"]
IdleTask(w) == task[w].at = "idle"
NoDue == [at |-> "none", ver |-> 0]
Marker == [at |-> "running", ver |-> 0]
Versions == 0 .. MaxChanges

Task == [at: {"idle", "start", "plan", "ask", "out", "end"}, auth: Auths, ver: Versions,
         left: 0 .. Models, asked: 0 .. Models, next: {"none", "later"}]

TypeOK ==
    /\ life \in {"open", "stopping", "closed"}
    /\ rule \in [Auths -> [ver: Versions, since: Versions, active: BOOLEAN]]
    /\ due \in [Auths -> [at: {"none", "later", "running", "stale"}, ver: Versions]]
    /\ rescan \in [Auths -> BOOLEAN]
    /\ task \in [Workers -> Task]

Init ==
    /\ life = "open"
    /\ rule \in [Auths -> [ver: {0}, since: {0}, active: BOOLEAN]]
    /\ due = [a \in Auths |-> NoDue]
    /\ rescan = [a \in Auths |-> FALSE]
    /\ task = [w \in Workers |-> Idle]

Running(a) == {w \in Workers : ~IdleTask(w) /\ task[w].auth = a}

-----------------------------------------------------------------------------
(* The schedule.  Each operator is one critical section of probeSchedule.   *)

\* probeDueLocked: nothing planned, or a marker older than any task.
IsDue(a) == due[a].at \in {"none", "stale"}

\* Mutant of Reschedule: the plan is dropped even when a task is running.
Reschedule_Always(a) ==
    /\ due' = [due EXCEPT ![a] = NoDue]
    /\ UNCHANGED rescan

\* rescheduleProbe, for whatever voids a plan.
Reschedule(a) ==
    IF due[a].at \in {"running", "stale"}
    THEN rescan' = [rescan EXCEPT ![a] = TRUE] /\ UNCHANGED due
    ELSE due' = [due EXCEPT ![a] = NoDue] /\ UNCHANGED rescan

\* Mutant of SetDue: a change during the task is not looked at.
SetDue_NoRescan(a, at, ver) ==
    /\ due' = [due EXCEPT ![a] = IF at = "none" THEN NoDue ELSE [at |-> at, ver |-> ver]]
    /\ UNCHANGED rescan

\* Mutant of SetDue: with nothing to schedule the marker is left in place.
SetDue_KeepsMarker(a, at, ver) ==
    /\ due' = IF at = "none" /\ ~rescan[a] THEN due
              ELSE [due EXCEPT ![a] =
                       IF rescan[a] THEN NoDue ELSE [at |-> at, ver |-> ver]]
    /\ rescan' = [rescan EXCEPT ![a] = FALSE]

\* setProbeDue.
SetDue(a, at, ver) ==
    /\ due' = [due EXCEPT ![a] =
                  IF rescan[a] \/ at = "none" THEN NoDue ELSE [at |-> at, ver |-> ver]]
    /\ rescan' = [rescan EXCEPT ![a] = FALSE]

-----------------------------------------------------------------------------
(* The scan and the task.                                                   *)

Becomes(w, t) == task' = [task EXCEPT ![w] = t]

\* scanProbes for one due credential.
Scan(a, w) ==
    /\ life = "open"
    /\ rule[a].active
    /\ IsDue(a)
    /\ IdleTask(w)
    /\ due' = [due EXCEPT ![a] = Marker]
    /\ Becomes(w, [Idle EXCEPT !.at = "start", !.auth = a])
    /\ UNCHANGED <<life, rule, rescan>>

\* probeRule: one look at the rule serves the whole task.
ReadRule(w) ==
    /\ task[w].at = "start"
    /\ Becomes(w, [task[w] EXCEPT
           !.ver = rule[task[w].auth].ver,
           !.at = IF life = "open" /\ rule[task[w].auth].active THEN "plan" ELSE "end"])
    /\ UNCHANGED <<life, rule, due, rescan>>

\* The rest of runProbeTask up to its requests: outside the window, an unused
\* account and a fresh pool plan a later look (none when no state is pooled
\* to expire); else so many models are asked for, and the next time is set
\* before the first of them is.
Plan(w, left, next) ==
    /\ task[w].at = "plan"
    /\ left > 0 => next = "later"
    /\ Becomes(w, [task[w] EXCEPT !.left = left, !.next = next,
                                  !.at = IF left > 0 THEN "ask" ELSE "end"])
    /\ UNCHANGED <<life, rule, due, rescan>>

\* One model: its request goes out unless the task was told to stop ...
AskModel(w) ==
    /\ task[w].at = "ask"
    /\ life = "open"
    /\ Becomes(w, [task[w] EXCEPT !.at = "out", !.asked = @ + 1])
    /\ UNCHANGED <<life, rule, due, rescan>>

\* Mutant of ModelAnswered: one model too many is asked for.
ModelAnswered_OneMore(w, pooled) ==
    LET a == task[w].auth IN
    /\ task[w].at = "out"
    /\ Becomes(w, [task[w] EXCEPT !.left = @ - 1,
                                  !.at = IF task[w].left = 0 THEN "end" ELSE "ask"])
    /\ IF pooled THEN Reschedule(a) ELSE UNCHANGED <<due, rescan>>
    /\ UNCHANGED <<life, rule>>

\* ... and its answer, which a stop in between does not discard, may enter the
\* pool, which re-plans the credential.
ModelAnswered(w, pooled) ==
    LET a == task[w].auth IN
    /\ task[w].at = "out"
    /\ Becomes(w, [task[w] EXCEPT !.left = @ - 1,
                                  !.at = IF task[w].left = 1 THEN "end" ELSE "ask"])
    /\ IF pooled THEN Reschedule(a) ELSE UNCHANGED <<due, rescan>>
    /\ UNCHANGED <<life, rule>>

StopAsking(w) ==
    /\ task[w].at = "ask"
    /\ life # "open"
    /\ Becomes(w, [task[w] EXCEPT !.at = "end"])
    /\ UNCHANGED <<life, rule, due, rescan>>

\* The deferred setProbeDue.
EndTask(w) ==
    /\ task[w].at = "end"
    /\ SetDue(task[w].auth, task[w].next, task[w].ver)
    /\ Becomes(w, Idle)
    /\ UNCHANGED <<life, rule>>

-----------------------------------------------------------------------------
(* Time.                                                                    *)

\* A planned time arrives, for the schedule or for a task still under way.
TimeArrives(a) ==
    /\ due[a].at = "later"
    /\ due' = [due EXCEPT ![a] = NoDue]
    /\ UNCHANGED <<life, rule, rescan, task>>

TimeArrivesEarly(w) ==
    /\ task[w].at \in {"ask", "out", "end"}
    /\ task[w].next = "later"
    /\ Becomes(w, [task[w] EXCEPT !.next = "none"])
    /\ UNCHANGED <<life, rule, due, rescan>>

\* The marker gets older than probeTaskMaxAge while every task under it is
\* past the calls that fit in it.
MarkerAges(a) ==
    /\ due[a].at = "running"
    /\ Running(a) # {}
    /\ \A w \in Running(a) : task[w].asked > Calls
    /\ due' = [due EXCEPT ![a] = [at |-> "stale", ver |-> 0]]
    /\ UNCHANGED <<life, rule, rescan, task>>

-----------------------------------------------------------------------------
(* What changes the rules or voids a plan, and the lifecycle.               *)

\* saveRule and deleteRule.
SaveRule(a, active) ==
    /\ life # "closed"
    /\ rule[a].ver < MaxChanges
    /\ rule' = [rule EXCEPT ![a] =
                   [ver |-> @.ver + 1, since |-> @.ver + 1, active |-> active]]
    /\ Reschedule(a)
    /\ UNCHANGED <<life, task>>

\* cleanupOrphans, whose second half takes the rule out of memory whatever became
\* of the store since, and voids nothing.
CleanupOrphan(a) ==
    /\ rule[a].ver < MaxChanges
    /\ rule' = [rule EXCEPT ![a].ver = @ + 1, ![a].active = FALSE]
    /\ UNCHANGED <<life, due, rescan, task>>

\* A live turn's retirement, a retry's or an operator's mint.
PoolChanges(a) ==
    /\ Reschedule(a)
    /\ UNCHANGED <<life, rule, task>>

QuiesceBegin ==
    /\ life = "open"
    /\ life' = "stopping"
    /\ UNCHANGED <<rule, due, rescan, task>>

\* Past retryWG.Wait.
QuiesceEnd ==
    /\ life = "stopping"
    /\ \A w \in Workers : IdleTask(w)
    /\ life' = "closed"
    /\ UNCHANGED <<rule, due, rescan, task>>

\* A registration loads the rules of the store it opens, other ones than before
\* if data_path names another; the schedule is not part of what it rebuilds.
Configure(changed, active) ==
    /\ life = "closed"
    /\ \A a \in changed : rule[a].ver < MaxChanges
    /\ life' = "open"
    /\ rule' = [a \in Auths |->
                   IF a \in changed
                   THEN [rule[a] EXCEPT !.ver = @ + 1, !.active = active[a]]
                   ELSE rule[a]]
    /\ UNCHANGED <<due, rescan, task>>

TaskStep(w) ==
    \/ ReadRule(w)
    \/ \E left \in 0 .. Models, next \in {"none", "later"} : Plan(w, left, next)
    \/ AskModel(w)
    \/ \E pooled \in BOOLEAN : ModelAnswered(w, pooled)
    \/ StopAsking(w)
    \/ EndTask(w)

Next ==
    \/ \E a \in Auths :
          \/ \E w \in Workers : Scan(a, w)
          \/ TimeArrives(a) \/ MarkerAges(a) \/ PoolChanges(a) \/ CleanupOrphan(a)
          \/ \E active \in BOOLEAN : SaveRule(a, active)
    \/ \E w \in Workers : TaskStep(w) \/ TimeArrivesEarly(w)
    \/ QuiesceBegin \/ QuiesceEnd
    \/ \E changed \in SUBSET Auths, active \in [Auths -> BOOLEAN] : Configure(changed, active)

Spec == Init /\ [][Next]_vars

\* The ticker keeps scanning, a request ends by its own timeout, and time goes
\* on.
Fairness ==
    /\ \A a \in Auths : /\ WF_vars(\E w \in Workers : Scan(a, w))
                        /\ WF_vars(TimeArrives(a))
    /\ \A w \in Workers : WF_vars(TaskStep(w))

FairSpec == Spec /\ Fairness

-----------------------------------------------------------------------------
(* Properties.                                                              *)

\* Two tasks never share a credential's cookie jar (probe.go:31), whatever is
\* saved, pooled or restarted while one runs.
OneTaskPerCredential == \A a \in Auths : Cardinality(Running(a)) <= 1

\* No plan outlives a save or a deletion, not even the plan of a task that was
\* running at the time: a later time was planned under the version the operator
\* last made, or under one that has replaced it without a save since.  Those are
\* the rules a clean-up removes and a registration loads, which void nothing.
SavesVoidPlans ==
    \A a \in Auths : due[a].at = "later" => due[a].ver >= rule[a].since

\* The running marker is there exactly while a task is.
MarkerMeansRunning ==
    \A a \in Auths : due[a].at \in {"running", "stale"} <=> Running(a) # {}

\* An active probe is never silenced: whatever version of the rule is in force,
\* a task plans under it sooner or later.
ActiveRuleIsPlanned ==
    \A a \in Auths :
        rule[a].active /\ life = "open" ~>
            \/ ~rule[a].active \/ life # "open"
            \/ \E w \in Running(a) : task[w].at = "plan" /\ task[w].ver = rule[a].ver
=============================================================================
