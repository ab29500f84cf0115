----------------------- MODULE ProbeScheduler_proofs -----------------------
(***************************************************************************)
(* The probe's schedule for every number of credentials, tasks, models and *)
(* saves: as long as a task's calls fit in probeTaskMaxAge, the one due    *)
(* time per credential is all the mutual exclusion its tasks need, and no  *)
(* plan outlives a save; and, last, what a plan for later is: the           *)
(* next instant of the window the probe may run in.                        *)
(***************************************************************************)
EXTENDS ProbeScheduler, ProbeWindow, FiniteSetTheorems, TLAPS

\* A task never asks for more models than it planned: what TypeOK needs to be
\* inductive.
Counted(t) ==
    /\ t.at \in {"idle", "start", "plan"} => t.asked = 0 /\ t.left = 0
    /\ t.at \in {"ask", "out"} => t.left >= 1
    /\ t.asked + t.left <= IF t.at = "out" THEN Models + 1 ELSE Models
CallsCounted == \A w \in Workers : Counted(task[w])

\* One task moves, the others stay.
LEMMA OneTaskMoves ==
  ASSUME TypeOK, CallsCounted, NEW w \in Workers, NEW t \in Task, Counted(t),
         task' = [task EXCEPT ![w] = t]
  PROVE  (task \in [Workers -> Task])' /\ CallsCounted'
<1>1. task' \in [Workers -> Task]
  BY DEF TypeOK
<1>2. \A v \in Workers : task'[v] = IF v = w THEN t ELSE task[v]
  BY DEF TypeOK
<1>3. QED
  BY <1>1, <1>2 DEF CallsCounted, Counted

ScheduleOK ==
    /\ due \in [Auths -> [at: {"none", "later", "running", "stale"}, ver: Versions]]
    /\ rescan \in [Auths -> BOOLEAN]

LEMMA RescheduleTypes ==
  ASSUME TypeOK, NEW a \in Auths, Reschedule(a)
  PROVE  ScheduleOK'
<1>1. NoDue \in [at: {"none", "later", "running", "stale"}, ver: Versions]
  BY BoundsAssumption DEF NoDue, Versions
<1>2. CASE due[a].at \in {"running", "stale"}
  BY <1>2 DEF TypeOK, Reschedule, ScheduleOK
<1>3. CASE due[a].at \notin {"running", "stale"}
  BY <1>1, <1>3 DEF TypeOK, Reschedule, ScheduleOK
<1>4. QED
  BY <1>2, <1>3

LEMMA SetDueTypes ==
  ASSUME TypeOK, NEW a \in Auths, NEW at \in {"none", "later"}, NEW ver \in Versions,
         SetDue(a, at, ver)
  PROVE  ScheduleOK'
BY BoundsAssumption DEF TypeOK, SetDue, ScheduleOK, NoDue, Versions

\* TypeOK and the count of calls, for every instance with a credential.
THEOREM ScheduleTypes ==
  ASSUME Auths # {}
  PROVE  Spec => [](TypeOK /\ CallsCounted)
<1>0. Idle \in Task /\ Counted(Idle)
  <2>1. (CHOOSE a \in Auths : TRUE) \in Auths
    OBVIOUS
  <2>2. QED
    BY <2>1, BoundsAssumption DEF Idle, Task, Counted, Versions
<1>1. Init => TypeOK /\ CallsCounted
  BY <1>0, BoundsAssumption DEF Init, TypeOK, CallsCounted, NoDue, Versions
<1>2. ASSUME TypeOK, CallsCounted, [Next]_vars
      PROVE  TypeOK' /\ CallsCounted'
  <2>1. ASSUME NEW a \in Auths, NEW w \in Workers, Scan(a, w)
        PROVE  TypeOK' /\ CallsCounted'
    <3> DEFINE t == [Idle EXCEPT !.at = "start", !.auth = a]
    <3>1. t \in Task /\ Counted(t)
      BY <1>0, BoundsAssumption DEF Idle, Task, Counted, Versions
    <3>2. (task \in [Workers -> Task])' /\ CallsCounted'
      BY <1>2, <2>1, <3>1, OneTaskMoves DEF Scan, Becomes
    <3>3. ScheduleOK'
      BY <1>2, <2>1, BoundsAssumption DEF Scan, Marker, ScheduleOK, TypeOK, Versions
    <3>4. QED
      BY <1>2, <2>1, <3>2, <3>3 DEF Scan, TypeOK, ScheduleOK
  <2>2. ASSUME NEW a \in Auths, TimeArrives(a) \/ MarkerAges(a)
        PROVE  TypeOK' /\ CallsCounted'
    <3>1. ScheduleOK'
      BY <1>2, <2>2, BoundsAssumption
         DEF TimeArrives, MarkerAges, NoDue, ScheduleOK, TypeOK, Versions
    <3>2. QED
      BY <1>2, <2>2, <3>1
         DEF TimeArrives, MarkerAges, TypeOK, ScheduleOK, CallsCounted
  <2>3. ASSUME NEW a \in Auths, PoolChanges(a)
        PROVE  TypeOK' /\ CallsCounted'
    BY <1>2, <2>3, RescheduleTypes DEF PoolChanges, TypeOK, ScheduleOK, CallsCounted
  <2>4. ASSUME NEW a \in Auths, NEW active \in BOOLEAN, SaveRule(a, active)
        PROVE  TypeOK' /\ CallsCounted'
    <3>1. ScheduleOK'
      BY <1>2, <2>4, RescheduleTypes DEF SaveRule
    <3>2. rule' \in [Auths -> [ver: Versions, since: Versions, active: BOOLEAN]]
      BY <1>2, <2>4, BoundsAssumption DEF SaveRule, TypeOK, Versions
    <3>3. QED
      BY <1>2, <2>4, <3>1, <3>2 DEF SaveRule, TypeOK, ScheduleOK, CallsCounted
  <2>5. ASSUME NEW w \in Workers, ReadRule(w)
        PROVE  TypeOK' /\ CallsCounted'
    <3> DEFINE t == [task[w] EXCEPT
                 !.ver = rule[task[w].auth].ver,
                 !.at = IF life = "open" /\ rule[task[w].auth].active
                        THEN "plan" ELSE "end"]
    <3>0. task[w] \in Task /\ rule[task[w].auth].ver \in Versions
      BY <1>2 DEF TypeOK, Task
    <3>1. t \in Task /\ Counted(t)
      BY <1>2, <2>5, <3>0 DEF ReadRule, CallsCounted, Counted, Task
    <3>2. task' = [task EXCEPT ![w] = t]
      BY <2>5 DEF ReadRule, Becomes
    <3>3. QED
      BY <1>2, <2>5, <3>1, <3>2, OneTaskMoves DEF ReadRule, TypeOK
  <2>6. ASSUME NEW w \in Workers, NEW left \in 0 .. Models,
               NEW next \in {"none", "later"}, Plan(w, left, next)
        PROVE  TypeOK' /\ CallsCounted'
    <3> DEFINE t == [task[w] EXCEPT !.left = left, !.next = next,
                                    !.at = IF left > 0 THEN "ask" ELSE "end"]
    <3>0. task[w] \in Task /\ task[w].asked = 0
      BY <1>2, <2>6 DEF TypeOK, Plan, CallsCounted, Counted, Task
    <3>a. /\ t.left = left /\ t.asked = 0
          /\ t.at = IF left > 0 THEN "ask" ELSE "end"
      BY <3>0 DEF Task
    <3>b. t \in Task
      BY <3>0 DEF Task
    <3>1. t \in Task /\ Counted(t)
      BY <3>a, <3>b, BoundsAssumption DEF Counted
    <3>2. task' = [task EXCEPT ![w] = t]
      BY <2>6 DEF Plan, Becomes
    <3>3. QED
      BY <1>2, <2>6, <3>1, <3>2, OneTaskMoves DEF Plan, TypeOK
  <2>7. ASSUME NEW w \in Workers, AskModel(w)
        PROVE  TypeOK' /\ CallsCounted'
    <3> DEFINE t == [task[w] EXCEPT !.at = "out", !.asked = @ + 1]
    <3>0. task[w] \in Task /\ Counted(task[w]) /\ task[w].at = "ask"
      BY <1>2, <2>7 DEF TypeOK, CallsCounted, AskModel
    <3>a. t.at = "out" /\ t.left = task[w].left /\ t.asked = task[w].asked + 1
      BY <3>0 DEF Task
    <3>b. task[w].asked + 1 \in 0 .. Models
      BY <3>0, BoundsAssumption DEF Task, Counted
    <3>c. t \in Task
      BY <3>0, <3>b DEF Task
    <3>d. Counted(t)
      BY <3>0, <3>a, BoundsAssumption DEF Counted, Task
    <3>1. t \in Task /\ Counted(t)
      BY <3>c, <3>d
    <3>2. task' = [task EXCEPT ![w] = t]
      BY <2>7 DEF AskModel, Becomes
    <3>3. QED
      BY <1>2, <2>7, <3>1, <3>2, OneTaskMoves DEF AskModel, TypeOK
  <2>8. ASSUME NEW w \in Workers, NEW pooled \in BOOLEAN, ModelAnswered(w, pooled)
        PROVE  TypeOK' /\ CallsCounted'
    <3> DEFINE t == [task[w] EXCEPT !.left = @ - 1,
                                    !.at = IF task[w].left = 1 THEN "end" ELSE "ask"]
    <3>0. /\ task[w] \in Task /\ Counted(task[w])
          /\ task[w].auth \in Auths /\ task[w].at = "out"
      BY <1>2, <2>8 DEF TypeOK, CallsCounted, ModelAnswered, Task
    <3>a. /\ t.left = task[w].left - 1 /\ t.asked = task[w].asked
          /\ t.at = IF task[w].left = 1 THEN "end" ELSE "ask"
      BY <3>0 DEF Task
    <3>b. task[w].left - 1 \in 0 .. Models
      BY <3>0, BoundsAssumption DEF Task, Counted
    <3>c. t \in Task
      BY <3>0, <3>b DEF Task
    <3>d. Counted(t)
      BY <3>0, <3>a, BoundsAssumption DEF Counted, Task
    <3>1. t \in Task /\ Counted(t)
      BY <3>c, <3>d
    <3>2. task' = [task EXCEPT ![w] = t]
      BY <2>8 DEF ModelAnswered, Becomes
    <3>3. (task \in [Workers -> Task])' /\ CallsCounted'
      BY <1>2, <3>1, <3>2, OneTaskMoves
    <3>4. ScheduleOK'
      BY <1>2, <2>8, <3>0, RescheduleTypes DEF ModelAnswered, ScheduleOK, TypeOK
    <3>5. QED
      BY <1>2, <2>8, <3>0, <3>3, <3>4 DEF ModelAnswered, TypeOK, ScheduleOK
  <2>9. ASSUME NEW w \in Workers, StopAsking(w)
         PROVE  TypeOK' /\ CallsCounted'
    <3> DEFINE t == [task[w] EXCEPT !.at = "end"]
    <3>1. t \in Task /\ Counted(t)
      BY <1>2, <2>9 DEF StopAsking, TypeOK, CallsCounted, Counted, Task
    <3>2. task' = [task EXCEPT ![w] = t]
      BY <2>9 DEF StopAsking, Becomes
    <3>3. QED
      BY <1>2, <2>9, <3>1, <3>2, OneTaskMoves DEF StopAsking, TypeOK
  <2>10. ASSUME NEW w \in Workers, EndTask(w)
         PROVE  TypeOK' /\ CallsCounted'
    <3>1. /\ task[w].auth \in Auths /\ task[w].next \in {"none", "later"}
          /\ task[w].ver \in Versions
      BY <1>2 DEF TypeOK, Task
    <3>2. ScheduleOK'
      BY <1>2, <2>10, <3>1, SetDueTypes DEF EndTask
    <3>3. (task \in [Workers -> Task])' /\ CallsCounted'
      BY <1>0, <1>2, <2>10, OneTaskMoves DEF EndTask, Becomes
    <3>4. QED
      BY <1>2, <2>10, <3>2, <3>3 DEF EndTask, TypeOK, ScheduleOK
  <2>11. ASSUME NEW w \in Workers, TimeArrivesEarly(w)
         PROVE  TypeOK' /\ CallsCounted'
    <3> DEFINE t == [task[w] EXCEPT !.next = "none"]
    <3>1. t \in Task /\ Counted(t)
      BY <1>2 DEF TypeOK, CallsCounted, Counted, Task
    <3>2. task' = [task EXCEPT ![w] = t]
      BY <2>11 DEF TimeArrivesEarly, Becomes
    <3>3. QED
      BY <1>2, <2>11, <3>1, <3>2, OneTaskMoves DEF TimeArrivesEarly, TypeOK
  <2>12. CASE QuiesceBegin \/ QuiesceEnd \/ UNCHANGED vars
    BY <1>2, <2>12
       DEF QuiesceBegin, QuiesceEnd, vars, TypeOK, CallsCounted
  <2>13. ASSUME NEW a \in Auths, CleanupOrphan(a)
         PROVE  TypeOK' /\ CallsCounted'
    <3> DEFINE r == [rule[a] EXCEPT !.ver = @ + 1, !.active = FALSE]
    <3>a. rule[a] \in [ver: Versions, since: Versions, active: BOOLEAN]
      BY <1>2 DEF TypeOK
    <3>b. rule[a].ver + 1 \in Versions
      BY <2>13, <3>a, BoundsAssumption DEF CleanupOrphan, Versions
    <3>c. r \in [ver: Versions, since: Versions, active: BOOLEAN]
      BY <3>a, <3>b
    <3>d. rule' = [rule EXCEPT ![a] = r]
      BY <1>2, <2>13 DEF CleanupOrphan, TypeOK
    <3> HIDE DEF r
    <3>1. rule' \in [Auths -> [ver: Versions, since: Versions, active: BOOLEAN]]
      BY <1>2, <3>c, <3>d DEF TypeOK
    <3>2. QED
      BY <1>2, <2>13, <3>1 DEF CleanupOrphan, TypeOK, CallsCounted
  <2>14. ASSUME NEW changed \in SUBSET Auths, NEW active \in [Auths -> BOOLEAN],
                Configure(changed, active)
         PROVE  TypeOK' /\ CallsCounted'
    <3> DEFINE Loaded(a) == [rule[a] EXCEPT !.ver = @ + 1, !.active = active[a]]
    <3>a. ASSUME NEW a \in changed
          PROVE  Loaded(a) \in [ver: Versions, since: Versions, active: BOOLEAN]
      <4>1. rule[a] \in [ver: Versions, since: Versions, active: BOOLEAN]
        BY <1>2 DEF TypeOK
      <4>2. rule[a].ver < MaxChanges
        BY <2>14 DEF Configure
      <4>3. rule[a].ver + 1 \in Versions
        BY <4>1, <4>2, BoundsAssumption DEF Versions
      <4>4. QED
        BY <4>1, <4>3
    <3>b. rule' = [a \in Auths |-> IF a \in changed THEN Loaded(a) ELSE rule[a]]
      BY <2>14 DEF Configure
    <3> HIDE DEF Loaded
    <3>1. rule' \in [Auths -> [ver: Versions, since: Versions, active: BOOLEAN]]
      BY <1>2, <3>a, <3>b DEF TypeOK
    <3>2. QED
      BY <1>2, <2>14, <3>1 DEF Configure, TypeOK, CallsCounted
  <2>15. QED
    BY <1>2, <2>1, <2>2, <2>3, <2>4, <2>5, <2>6, <2>7, <2>8, <2>9, <2>10,
       <2>11, <2>12, <2>13, <2>14 DEF Next, TaskStep
<1>3. QED
  BY <1>1, <1>2, PTL DEF Spec
-----------------------------------------------------------------------------
(* One task per credential, and no plan from before a save.                 *)

\* The marker is never old enough to be taken for a hung task's.
NeverStale == \A a \in Auths : due[a].at # "stale"

RunsFor(w, a) == task[w].at # "idle" /\ task[w].auth = a

\* MarkerMeansRunning and OneTaskPerCredential without the set they count.
MarkerIsATask ==
    \A a \in Auths : due[a].at = "running" <=> \E w \in Workers : RunsFor(w, a)
Alone ==
    \A a \in Auths : \A v, w \in Workers : RunsFor(v, a) /\ RunsFor(w, a) => v = w

\* A running task's plan will be dropped if there was a save since it read the rule.
RuleRead == {"plan", "ask", "out", "end"}
OldPlansRescan ==
    \A w \in Workers : task[w].at \in RuleRead =>
        task[w].ver >= rule[task[w].auth].since \/ rescan[task[w].auth] = TRUE

\* The rule in force is the one last saved or one that came after it.
SavedBefore == \A a \in Auths : rule[a].ver >= rule[a].since

ScheduleInv ==
    NeverStale /\ MarkerIsATask /\ Alone /\ SavedBefore /\ OldPlansRescan /\ SavesVoidPlans

\* What rescheduleProbe does when no marker is stale.
LEMMA RescheduleFacts ==
  ASSUME TypeOK, NeverStale, NEW a \in Auths, Reschedule(a)
  PROVE  /\ \A b \in Auths \ {a} : due'[b] = due[b] /\ rescan'[b] = rescan[b]
         /\ due[a].at = "running" => due'[a] = due[a] /\ rescan'[a] = TRUE
         /\ due[a].at # "running" => due'[a].at = "none" /\ rescan'[a] = rescan[a]
<1>1. CASE due[a].at = "running"
  BY <1>1 DEF TypeOK, Reschedule
<1>2. CASE due[a].at # "running"
  BY <1>2 DEF TypeOK, NeverStale, Reschedule, NoDue
<1>3. QED
  BY <1>1, <1>2

\* setProbeDue.
LEMMA SetDueFacts ==
  ASSUME TypeOK, NEW a \in Auths, NEW at \in {"none", "later"}, NEW ver \in Versions,
         SetDue(a, at, ver)
  PROVE  /\ \A b \in Auths \ {a} : due'[b] = due[b] /\ rescan'[b] = rescan[b]
         /\ due'[a].at \in {"none", "later"}
         /\ due'[a].at = "later" => ~rescan[a] /\ due'[a].ver = ver
<1>1. CASE rescan[a] \/ at = "none"
  BY <1>1 DEF TypeOK, SetDue, NoDue
<1>2. CASE ~(rescan[a] \/ at = "none")
  BY <1>2 DEF TypeOK, SetDue
<1>3. QED
  BY <1>1, <1>2

\* No task starts, ends or changes hands, and a task that reads its rule reads
\* the one in force.
GoesOn ==
    \A w \in Workers :
        /\ task'[w].auth = task[w].auth
        /\ task'[w].at = "idle" <=> task[w].at = "idle"
        /\ task'[w].at \in RuleRead =>
              \/ task'[w].ver = rule[task[w].auth].ver
              \/ task[w].at \in RuleRead /\ task'[w].ver = task[w].ver

LEMMA OneTaskGoesOn ==
  ASSUME TypeOK, NEW w \in Workers, NEW t, task' = [task EXCEPT ![w] = t],
         t.auth = task[w].auth, t.at # "idle", task[w].at # "idle",
         \/ t.ver = rule[task[w].auth].ver
         \/ task[w].at \in RuleRead /\ t.ver = task[w].ver
  PROVE  GoesOn
<1>1. \A v \in Workers : task'[v] = IF v = w THEN t ELSE task[v]
  BY DEF TypeOK
<1>2. QED
  BY <1>1 DEF GoesOn

\* Nothing is saved; a clean-up or a registration may put other rules in force.
NothingSaved ==
    \A a \in Auths : rule'[a].since = rule[a].since /\ rule'[a].ver >= rule'[a].since

\* While the tasks go on, a change of the pool or of the rules in force leaves the
\* schedule sound.
LEMMA TasksGoOn ==
  ASSUME TypeOK, ScheduleInv, GoesOn, NothingSaved,
         UNCHANGED <<due, rescan>> \/ \E a \in Auths : Reschedule(a)
  PROVE  ScheduleInv'
<1>1. \A b \in Auths :
        /\ due'[b] # due[b] => due[b].at # "running" /\ due'[b].at = "none"
        /\ rescan'[b] # TRUE => rescan'[b] = rescan[b]
  <2>1. CASE UNCHANGED <<due, rescan>>
    BY <2>1
  <2>2. ASSUME NEW a \in Auths, Reschedule(a)
        PROVE  \A b \in Auths :
                 /\ due'[b] # due[b] => due[b].at # "running" /\ due'[b].at = "none"
                 /\ rescan'[b] # TRUE => rescan'[b] = rescan[b]
    BY <2>2, RescheduleFacts DEF ScheduleInv
  <2>3. QED
    BY <2>1, <2>2
<1>2. NeverStale'
  BY <1>1 DEF ScheduleInv, NeverStale
<1>3. \A a \in Auths, w \in Workers : RunsFor(w, a)' <=> RunsFor(w, a)
  BY DEF GoesOn, RunsFor
<1>4. MarkerIsATask'
  BY <1>1, <1>3 DEF ScheduleInv, MarkerIsATask
<1>5. Alone'
  BY <1>3 DEF ScheduleInv, Alone
<1>6. OldPlansRescan'
  <2>1. \A w \in Workers : task[w].auth \in Auths
    BY DEF TypeOK, Task
  <2>2. \A a \in Auths : rescan[a] = TRUE => rescan'[a] = TRUE
    BY <1>1
  <2>3. ASSUME NEW w \in Workers, task'[w].at \in RuleRead
        PROVE  \/ task'[w].ver >= rule'[task'[w].auth].since
               \/ rescan'[task'[w].auth] = TRUE
    <3>1. \/ task'[w].ver = rule[task[w].auth].ver
          \/ task[w].at \in RuleRead /\ task'[w].ver = task[w].ver
      BY <2>3 DEF GoesOn
    <3>2. task'[w].auth = task[w].auth
      BY DEF GoesOn
    <3>3. CASE task'[w].ver = rule[task[w].auth].ver
      BY <2>1, <3>2, <3>3 DEF ScheduleInv, SavedBefore, NothingSaved
    <3>4. CASE task[w].at \in RuleRead /\ task'[w].ver = task[w].ver
      <4>1. task[w].ver >= rule[task[w].auth].since \/ rescan[task[w].auth] = TRUE
        BY <3>4 DEF ScheduleInv, OldPlansRescan
      <4>2. QED
        BY <2>1, <2>2, <3>2, <3>4, <4>1 DEF NothingSaved
    <3>5. QED
      BY <3>1, <3>3, <3>4
  <2>4. QED
    BY <2>3 DEF OldPlansRescan, RuleRead
<1>7. SavesVoidPlans'
  BY <1>1 DEF ScheduleInv, SavesVoidPlans, NothingSaved
<1>8. SavedBefore'
  BY DEF SavedBefore, NothingSaved
<1>9. QED
  BY <1>2, <1>4, <1>5, <1>6, <1>7, <1>8 DEF ScheduleInv

\* The schedule is sound in every reachable state of every instance in which a
\* task's calls fit in the age at which its marker would be taken for hung.
LEMMA ScheduleIsSound ==
  ASSUME Auths # {}, Models <= Calls
  PROVE  Spec => []ScheduleInv
<1>1. Init => ScheduleInv
  <2> SUFFICES ASSUME Init PROVE ScheduleInv
    OBVIOUS
  <2>1. \A w \in Workers : task[w].at = "idle"
    BY DEF Init, Idle
  <2>2. \A a \in Auths : due[a].at = "none"
    BY DEF Init, NoDue
  <2>3. SavedBefore
    BY DEF Init, SavedBefore
  <2>4. QED
    BY <2>1, <2>2, <2>3 DEF ScheduleInv, NeverStale, MarkerIsATask, Alone, RunsFor,
                            OldPlansRescan, RuleRead, SavesVoidPlans
<1>2. ASSUME TypeOK, CallsCounted, ScheduleInv, [Next]_vars
      PROVE  ScheduleInv'
  <2> USE <1>2
  <2>0. /\ \A w \in Workers : task[w] \in Task /\ task[w].auth \in Auths
        /\ DOMAIN task = Workers
        /\ \A a \in Auths : rule[a].ver \in Int /\ rule[a].since \in Int
    BY BoundsAssumption DEF TypeOK, Task, Versions
  <2>1. ASSUME NEW a \in Auths, NEW w \in Workers, Scan(a, w)
        PROVE  ScheduleInv'
    <3>1. due[a].at = "none" /\ task[w].at = "idle"
      BY <2>1 DEF Scan, IsDue, IdleTask, ScheduleInv, NeverStale
    <3>2. /\ due'[a].at = "running" /\ \A b \in Auths \ {a} : due'[b] = due[b]
          /\ UNCHANGED <<rule, rescan>>
      BY <2>1 DEF Scan, Marker, TypeOK
    <3>3. /\ task'[w].at = "start" /\ task'[w].auth = a
          /\ \A v \in Workers \ {w} : task'[v] = task[v]
      BY <2>0, <2>1 DEF Scan, Becomes, Idle
    <3>4. \A v \in Workers : ~RunsFor(v, a)
      BY <3>1 DEF ScheduleInv, MarkerIsATask
    <3>5. /\ RunsFor(w, a)'
          /\ \A v \in Workers, b \in Auths :
                v # w \/ b # a => (RunsFor(v, b)' <=> RunsFor(v, b))
      BY <3>1, <3>3 DEF RunsFor
    <3>6. NeverStale' /\ MarkerIsATask' /\ SavedBefore' /\ SavesVoidPlans'
      BY <3>2, <3>5 DEF ScheduleInv, NeverStale, MarkerIsATask, SavedBefore, SavesVoidPlans
    <3>7. Alone'
      BY <3>4, <3>5 DEF ScheduleInv, Alone
    <3>8. OldPlansRescan'
      BY <3>2, <3>3 DEF ScheduleInv, OldPlansRescan, RuleRead
    <3>9. QED
      BY <3>6, <3>7, <3>8 DEF ScheduleInv
  <2>2. ASSUME NEW a \in Auths, TimeArrives(a)
        PROVE  ScheduleInv'
    <3>1. /\ due[a].at = "later" /\ due'[a].at = "none"
          /\ \A b \in Auths \ {a} : due'[b] = due[b]
          /\ UNCHANGED <<rule, rescan, task>>
      BY <2>2 DEF TimeArrives, NoDue, TypeOK
    <3>2. QED
      BY <3>1 DEF ScheduleInv, NeverStale, MarkerIsATask, Alone, RunsFor,
                  SavedBefore, OldPlansRescan, SavesVoidPlans
  <2>3. ASSUME NEW a \in Auths, MarkerAges(a)
        PROVE  FALSE
    <3>1. PICK w \in Running(a) : task[w].asked > Calls
      BY <2>3 DEF MarkerAges
    <3>2. task[w].asked \in 0 .. Models
      BY <2>0, <3>1 DEF Running, Task
    <3>3. QED
      BY <3>1, <3>2, BoundsAssumption
  <2>4. ASSUME NEW a \in Auths, NEW active \in BOOLEAN, SaveRule(a, active)
        PROVE  ScheduleInv'
    <3>1. /\ \A b \in Auths \ {a} : /\ rule'[b] = rule[b] /\ due'[b] = due[b]
                                   /\ rescan'[b] = rescan[b]
          /\ due[a].at = "running" => due'[a] = due[a] /\ rescan'[a] = TRUE
          /\ due[a].at # "running" => due'[a].at = "none"
          /\ task' = task
      BY <2>4, RescheduleFacts DEF SaveRule, TypeOK, ScheduleInv
    <3>a. rule'[a].ver = rule'[a].since /\ rule'[a].since \in Int
      BY <2>0, <2>4 DEF SaveRule, TypeOK
    <3>2. NeverStale' /\ Alone' /\ SavedBefore' /\ SavesVoidPlans'
      BY <3>1, <3>a DEF ScheduleInv, NeverStale, Alone, RunsFor, SavedBefore, SavesVoidPlans
    <3>3. MarkerIsATask'
      BY <3>1 DEF ScheduleInv, MarkerIsATask, RunsFor
    <3>4. OldPlansRescan'
      <4>1. \A w \in Workers :
              task[w].at \in RuleRead /\ task[w].auth = a => due[a].at = "running"
        BY DEF ScheduleInv, MarkerIsATask, RunsFor, RuleRead
      <4>2. QED
        BY <2>0, <3>1, <4>1 DEF ScheduleInv, OldPlansRescan
    <3>5. QED
      BY <3>2, <3>3, <3>4 DEF ScheduleInv
  <2>5. ASSUME NEW w \in Workers, EndTask(w)
        PROVE  ScheduleInv'
    <3> DEFINE a == task[w].auth
    <3>0. /\ a \in Auths /\ task[w].at = "end" /\ task[w].ver \in Versions
          /\ task[w].next \in {"none", "later"} /\ RunsFor(w, a)
      BY <2>0, <2>5 DEF EndTask, Task, RunsFor
    <3>1. /\ \A b \in Auths \ {a} : due'[b] = due[b] /\ rescan'[b] = rescan[b]
          /\ due'[a].at \in {"none", "later"}
          /\ due'[a].at = "later" => ~rescan[a] /\ due'[a].ver = task[w].ver
      BY <2>5, <3>0, SetDueFacts DEF EndTask
    <3>2. /\ task'[w].at = "idle" /\ rule' = rule
          /\ \A v \in Workers \ {w} : task'[v] = task[v]
      BY <2>0, <2>5 DEF EndTask, Becomes, Idle
    <3>3. \A v \in Workers \ {w} : ~RunsFor(v, a)
      BY <3>0 DEF ScheduleInv, Alone
    <3>4. \A v \in Workers, b \in Auths : RunsFor(v, b)' <=> v # w /\ RunsFor(v, b)
      BY <3>2 DEF RunsFor
    <3>5. NeverStale' /\ Alone' /\ SavedBefore'
      BY <3>0, <3>1, <3>2, <3>4 DEF ScheduleInv, NeverStale, Alone, SavedBefore
    <3>6. MarkerIsATask'
      <4>1. \A b \in Auths \ {a} : ~RunsFor(w, b)
        BY DEF RunsFor
      <4>2. QED
        BY <3>0, <3>1, <3>3, <3>4, <4>1 DEF ScheduleInv, MarkerIsATask
    <3>7. OldPlansRescan'
      <4>1. \A v \in Workers \ {w} : task[v].at \in RuleRead => task[v].auth # a
        BY <3>3 DEF RunsFor, RuleRead
      <4>2. QED
        BY <2>0, <3>1, <3>2, <4>1 DEF ScheduleInv, OldPlansRescan, RuleRead
    <3>8. SavesVoidPlans'
      <4>1. ~rescan[a] => task[w].ver >= rule[a].since
        BY <3>0 DEF ScheduleInv, OldPlansRescan, RuleRead
      <4>2. due'[a].at = "later" => due'[a].ver >= rule'[a].since
        BY <3>1, <3>2, <4>1
      <4>3. \A b \in Auths \ {a} : due'[b].at = "later" => due'[b].ver >= rule'[b].since
        BY <3>1, <3>2 DEF ScheduleInv, SavesVoidPlans
      <4>4. QED
        BY <4>2, <4>3 DEF SavesVoidPlans
    <3>9. QED
      BY <3>5, <3>6, <3>7, <3>8 DEF ScheduleInv
  <2>6. ASSUME NEW w \in Workers,
               \/ ReadRule(w)
               \/ \E left \in 0 .. Models, next \in {"none", "later"} : Plan(w, left, next)
               \/ AskModel(w) \/ \E pooled \in BOOLEAN : ModelAnswered(w, pooled)
               \/ StopAsking(w) \/ TimeArrivesEarly(w)
        PROVE  ScheduleInv'
    <3>1. /\ rule' = rule
          /\ UNCHANGED <<due, rescan>> \/ \E a \in Auths : Reschedule(a)
      BY <2>0, <2>6
         DEF ReadRule, Plan, AskModel, ModelAnswered, StopAsking, TimeArrivesEarly
    <3>2. GoesOn
      <4>1. CASE ReadRule(w)
        <5> DEFINE t == [task[w] EXCEPT
                   !.ver = rule[task[w].auth].ver,
                   !.at = IF life = "open" /\ rule[task[w].auth].active
                          THEN "plan" ELSE "end"]
        <5>1. task' = [task EXCEPT ![w] = t]
          BY <4>1 DEF ReadRule, Becomes
        <5>2. t.auth = task[w].auth /\ t.at # "idle" /\ t.ver = rule[task[w].auth].ver
          BY <2>0, <4>1 DEF ReadRule, Task, RuleRead
        <5>3. task[w].at # "idle"
          BY <4>1 DEF ReadRule
        <5>4. QED
          BY <5>1, <5>2, <5>3, OneTaskGoesOn
      <4>2. ASSUME NEW left, NEW next, Plan(w, left, next)
            PROVE  GoesOn
        <5> DEFINE t == [task[w] EXCEPT !.left = left, !.next = next,
                                      !.at = IF left > 0 THEN "ask" ELSE "end"]
        <5>1. task' = [task EXCEPT ![w] = t]
          BY <4>2 DEF Plan, Becomes
        <5>2. t.auth = task[w].auth /\ t.at # "idle" /\ task[w].at \in RuleRead /\ t.ver = task[w].ver
          BY <2>0, <4>2 DEF Plan, Task, RuleRead
        <5>3. task[w].at # "idle"
          BY <4>2 DEF Plan
        <5>4. QED
          BY <5>1, <5>2, <5>3, OneTaskGoesOn
      <4>3. CASE AskModel(w)
        <5> DEFINE t == [task[w] EXCEPT !.at = "out", !.asked = @ + 1]
        <5>1. task' = [task EXCEPT ![w] = t]
          BY <4>3 DEF AskModel, Becomes
        <5>2. t.auth = task[w].auth /\ t.at # "idle" /\ task[w].at \in RuleRead /\ t.ver = task[w].ver
          BY <2>0, <4>3 DEF AskModel, Task, RuleRead
        <5>3. task[w].at # "idle"
          BY <4>3 DEF AskModel
        <5>4. QED
          BY <5>1, <5>2, <5>3, OneTaskGoesOn
      <4>4. ASSUME NEW pooled \in BOOLEAN, ModelAnswered(w, pooled)
            PROVE  GoesOn
        <5> DEFINE t == [task[w] EXCEPT !.left = @ - 1,
                                      !.at = IF task[w].left = 1 THEN "end" ELSE "ask"]
        <5>1. task' = [task EXCEPT ![w] = t]
          BY <4>4 DEF ModelAnswered, Becomes
        <5>2. t.auth = task[w].auth /\ t.at # "idle" /\ task[w].at \in RuleRead /\ t.ver = task[w].ver
          BY <2>0, <4>4 DEF ModelAnswered, Task, RuleRead
        <5>3. task[w].at # "idle"
          BY <4>4 DEF ModelAnswered
        <5>4. QED
          BY <5>1, <5>2, <5>3, OneTaskGoesOn
      <4>5. CASE StopAsking(w)
        <5> DEFINE t == [task[w] EXCEPT !.at = "end"]
        <5>1. task' = [task EXCEPT ![w] = t]
          BY <4>5 DEF StopAsking, Becomes
        <5>2. t.auth = task[w].auth /\ t.at # "idle" /\ task[w].at \in RuleRead /\ t.ver = task[w].ver
          BY <2>0, <4>5 DEF StopAsking, Task, RuleRead
        <5>3. task[w].at # "idle"
          BY <4>5 DEF StopAsking
        <5>4. QED
          BY <5>1, <5>2, <5>3, OneTaskGoesOn
      <4>6. CASE TimeArrivesEarly(w)
        <5> DEFINE t == [task[w] EXCEPT !.next = "none"]
        <5>1. task' = [task EXCEPT ![w] = t]
          BY <4>6 DEF TimeArrivesEarly, Becomes
        <5>2. t.auth = task[w].auth /\ t.at # "idle" /\ task[w].at \in RuleRead /\ t.ver = task[w].ver
          BY <2>0, <4>6 DEF TimeArrivesEarly, Task, RuleRead
        <5>3. task[w].at # "idle"
          BY <4>6 DEF TimeArrivesEarly
        <5>4. QED
          BY <5>1, <5>2, <5>3, OneTaskGoesOn
      <4>7. QED
        BY <2>6, <4>1, <4>2, <4>3, <4>4, <4>5, <4>6
    <3>3. NothingSaved
      BY <3>1 DEF NothingSaved, ScheduleInv, SavedBefore
    <3>4. QED
      BY <3>1, <3>2, <3>3, TasksGoOn
  <2>7. CASE \/ \E a \in Auths : PoolChanges(a) \/ CleanupOrphan(a)
             \/ \E changed \in SUBSET Auths, active \in [Auths -> BOOLEAN] :
                   Configure(changed, active)
             \/ QuiesceBegin \/ QuiesceEnd \/ UNCHANGED vars
    <3>1. /\ task' = task
          /\ UNCHANGED <<due, rescan>> \/ \E a \in Auths : Reschedule(a)
      BY <2>7 DEF PoolChanges, CleanupOrphan, Configure, QuiesceBegin, QuiesceEnd, vars
    <3>2. GoesOn
      BY <3>1 DEF GoesOn
    <3>3. NothingSaved
      <4>1. CASE rule' = rule
        BY <4>1 DEF NothingSaved, ScheduleInv, SavedBefore
      <4>2. ASSUME NEW a \in Auths, CleanupOrphan(a)
            PROVE  NothingSaved
        BY <2>0, <4>2 DEF CleanupOrphan, TypeOK, NothingSaved, ScheduleInv, SavedBefore
      <4>3. ASSUME NEW changed \in SUBSET Auths, NEW active \in [Auths -> BOOLEAN],
                   Configure(changed, active)
            PROVE  NothingSaved
        <5>1. SUFFICES ASSUME NEW a \in Auths
                       PROVE  rule'[a].since = rule[a].since /\ rule'[a].ver >= rule'[a].since
          BY DEF NothingSaved
        <5>2. rule'[a] = IF a \in changed
                         THEN [rule[a] EXCEPT !.ver = @ + 1, !.active = active[a]]
                         ELSE rule[a]
          BY <4>3 DEF Configure
        <5>3. rule[a] \in [ver: Versions, since: Versions, active: BOOLEAN]
          BY DEF TypeOK
        <5>4. rule'[a].since = rule[a].since /\ rule'[a].ver \in {rule[a].ver, rule[a].ver + 1}
          BY <5>2, <5>3
        <5>5. rule[a].ver >= rule[a].since
          BY DEF ScheduleInv, SavedBefore
        <5>6. QED
          BY <2>0, <5>4, <5>5
      <4>4. QED
        BY <2>7, <4>1, <4>2, <4>3 DEF PoolChanges, QuiesceBegin, QuiesceEnd, vars
    <3>4. QED
      BY <3>1, <3>2, <3>3, TasksGoOn
  <2>8. QED
    BY <2>1, <2>2, <2>3, <2>4, <2>5, <2>6, <2>7 DEF Next, TaskStep
<1>3. QED
  BY <1>1, <1>2, ScheduleTypes, PTL DEF Spec

\* Two tasks never share a credential's session and cookie jar (probe.go:31).
THEOREM TasksExclude ==
  ASSUME Auths # {}, Models <= Calls
  PROVE  Spec => []OneTaskPerCredential
<1>1. ScheduleInv => OneTaskPerCredential
  <2> SUFFICES ASSUME Alone, NEW a \in Auths
               PROVE  Cardinality(Running(a)) <= 1
    BY DEF ScheduleInv, OneTaskPerCredential
  <2>1. CASE Running(a) = {}
    BY <2>1, FS_EmptySet
  <2>2. ASSUME NEW w \in Running(a)
        PROVE  Cardinality(Running(a)) <= 1
    <3>1. Running(a) = {w}
      BY <2>2 DEF Alone, RunsFor, Running, IdleTask
    <3>2. QED
      BY <3>1, FS_Singleton
  <2>3. QED
    BY <2>1, <2>2
<1>2. QED
  BY <1>1, ScheduleIsSound, PTL

\* No plan outlives a save or a deletion (probe.go:101-103), whatever the task that
\* made it was doing then, and whatever a clean-up or another store's rules have put
\* in force since, under which a plan may stand that was not made for them.
THEOREM PlansFollowSaves ==
  ASSUME Auths # {}, Models <= Calls
  PROVE  Spec => []SavesVoidPlans
<1>1. ScheduleInv => SavesVoidPlans
  BY DEF ScheduleInv
<1>2. QED
  BY <1>1, ScheduleIsSound, PTL

\* The marker stands for a running task, never for one that is gone.
THEOREM MarkersAreTasks ==
  ASSUME Auths # {}, Models <= Calls
  PROVE  Spec => []MarkerMeansRunning
<1>1. ScheduleInv => MarkerMeansRunning
  BY DEF ScheduleInv, NeverStale, MarkerIsATask, MarkerMeansRunning, RunsFor, Running,
         IdleTask
<1>2. QED
  BY <1>1, ScheduleIsSound, PTL

-----------------------------------------------------------------------------

\* A task that finds itself outside its window comes back at the very next
\* instant inside it: the time it plans is later, is inside, and no instant
\* before it is, for every window and whichever side of midnight it is on.
THEOREM NextOpenIsTheNext ==
    ASSUME NEW start \in Minutes, NEW end \in Minutes, NEW now \in Instants,
           ~WithinProbeWindow(start, end, now)
    PROVE  LET open == NextProbeWindowOpen(start, now)
           IN  /\ open \in Instants /\ After(open, now)
               /\ WithinProbeWindow(start, end, open)
               /\ \A t \in Instants :
                     ~After(now, t) /\ After(open, t) => ~WithinProbeWindow(start, end, t)
<1> DEFINE today == [day |-> now.day, minute |-> start, second |-> 0]
           tomorrow == [day |-> now.day + 1, minute |-> start, second |-> 0]
           open == NextProbeWindowOpen(start, now)
<1>1. /\ start \in Int /\ end \in Int /\ 0 <= start /\ start < 1440 /\ 0 <= end /\ end < 1440
      /\ \A t \in Instants : /\ t.day \in Int /\ t.minute \in Int /\ t.second \in Int
                             /\ 0 <= t.minute /\ t.minute < 1440 /\ 0 <= t.second
  <2>1. \A m \in Minutes : m \in Int /\ 0 <= m /\ m < 1440  BY DEF Minutes, minutesPerDay
  <2>2. ASSUME NEW t \in Instants
        PROVE  t.day \in Int /\ t.minute \in Minutes /\ t.second \in Int /\ 0 <= t.second
    BY DEF Instants
  <2> QED  BY <2>1, <2>2
<1>2. /\ today \in Instants /\ tomorrow \in Instants
      /\ today.day = now.day /\ today.minute = start /\ today.second = 0
      /\ tomorrow.day = now.day + 1 /\ tomorrow.minute = start /\ tomorrow.second = 0
  BY DEF Instants
<1>3. open = IF After(today, now) THEN today ELSE tomorrow
  BY DEF NextProbeWindowOpen
<1> HIDE DEF today, tomorrow, open
<1>4. CASE now.minute < start
  <2>1. open = today /\ After(today, now)  BY <1>1, <1>2, <1>3, <1>4 DEF After
  <2>2. start > end => now.minute >= end  BY <1>1, <1>4 DEF WithinProbeWindow
  <2>3. WithinProbeWindow(start, end, open)  BY <1>1, <1>2, <2>1 DEF WithinProbeWindow
  <2>4. ASSUME NEW t \in Instants, ~After(now, t), After(open, t)
        PROVE  ~WithinProbeWindow(start, end, t)
    <3>1. t.day = now.day /\ now.minute <= t.minute /\ t.minute < start
      BY <1>1, <1>2, <2>1, <2>4 DEF After
    <3>2. start # end  BY DEF WithinProbeWindow
    <3> QED  BY <1>1, <2>2, <3>1, <3>2 DEF WithinProbeWindow
  <2> QED  BY <1>2, <2>1, <2>3, <2>4 DEF open
<1>5. CASE now.minute >= start
  <2>1. start < end /\ now.minute >= end  BY <1>1, <1>5 DEF WithinProbeWindow
  <2>2. open = tomorrow /\ After(tomorrow, now)  BY <1>1, <1>2, <1>3, <1>5, <2>1 DEF After
  <2>3. WithinProbeWindow(start, end, open)  BY <1>1, <1>2, <2>1, <2>2 DEF WithinProbeWindow
  <2>4. ASSUME NEW t \in Instants, ~After(now, t), After(open, t)
        PROVE  ~WithinProbeWindow(start, end, t)
    <3>1. \/ t.day = now.day /\ now.minute <= t.minute
          \/ t.day = now.day + 1 /\ t.minute < start
      BY <1>1, <1>2, <2>2, <2>4 DEF After
    <3> QED  BY <1>1, <1>5, <2>1, <3>1 DEF WithinProbeWindow
  <2> QED  BY <1>2, <2>2, <2>3, <2>4 DEF open
<1> QED  BY <1>1, <1>4, <1>5
=============================================================================
