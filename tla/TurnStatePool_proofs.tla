------------------------ MODULE TurnStatePool_proofs ------------------------
(***************************************************************************)
(* What holds of the turn-state pool for every set of credentials, models, *)
(* states, turns, slots and rules: type correctness, the agreement of the  *)
(* pool in memory with the one on disk, the ownership of every state the   *)
(* pool touches, the silence of tracked work after a quiesce, and that the *)
(* pool does not step back.                                                *)
(***************************************************************************)
EXTENDS TurnStatePool, TLAPS

\* TypeOK is inductive: every critical section of the code leaves each piece
\* of state within the values the code can read from it.
THEOREM TypeCorrect == Spec => []TypeOK
<1>1. Init => TypeOK
  BY NullAssumption DEF Init, TypeOK, Empty, IdleJob, Job, MaybeKey, MaybeBlob,
       MaybeRule
<1>2. TypeOK /\ [Next]_vars => TypeOK'
  <2> SUFFICES ASSUME TypeOK, [Next]_vars PROVE TypeOK'
    OBVIOUS
  <2> USE DEF TypeOK
  <2>1. ASSUME NEW t \in Turns, NEW k \in Keys, NEW echo \in MaybeBlob,
               NEW expired \in BOOLEAN, Intercept(t, k, echo, expired)
        PROVE  TypeOK'
    BY <2>1 DEF Intercept, Turn, MaybeKey, MaybeBlob
  <2>2. ASSUME NEW t \in Turns, SilentResponse(t) PROVE TypeOK'
    BY <2>2 DEF SilentResponse
  <2>3. ASSUME NEW t \in Turns, NEW b \in Blobs, NEW deleted \in BOOLEAN,
               NEW swept \in Sweeps, StateResponse(t, b, deleted, swept)
        PROVE  TypeOK'
    <3> turns[t] \in Turn
      BY <2>3 DEF StateResponse
    <3> DEFINE k == turns[t].key
    <3> k \in Keys
      BY DEF Turn
    <3>1. prov' \in [Blobs -> MaybeKey]
      BY <2>3 DEF StateResponse, Remember, MaybeKey
    <3>2. pool' \in [Keys -> MaybeBlob] /\ disk' \in [Keys -> MaybeBlob]
      BY <2>3 DEF StateResponse, Invalidate, MaybeBlob
    <3>3. jobs' \in [Jobs -> Job]
      BY <2>3 DEF StateResponse, ScheduleRetry, Jobs, Job, MaybeKey, MaybeBlob
    <3>4. QED
      BY <2>3, <3>1, <3>2, <3>3 DEF StateResponse
  <2>4. ASSUME NEW j \in Tasks, NEW k \in Keys,
               StartProbe(j, k) \/ StartHandProbe(j, k)
        PROVE  TypeOK'
    BY <2>4 DEF StartProbe, StartHandProbe, Start, Jobs, Job, MaybeKey, MaybeBlob
  <2>5. ASSUME NEW j \in Tasks, NEW b \in Blobs, StartManualPool(j, b)
        PROVE  TypeOK'
    BY <2>5, OwnerAssumption
       DEF StartManualPool, Start, Jobs, Job, MaybeKey, MaybeBlob
  <2>6. ASSUME NEW j \in Jobs, NEW saved \in BOOLEAN, NEW swept \in Sweeps,
               NEW b \in Blobs,
               RetryAnswered(j, b, saved, swept) \/ ProbeAnswered(j, b, saved, swept)
        PROVE  TypeOK'
    <3> jobs[j].key \in Keys
      BY <2>6, OwnerAssumption DEF RetryAnswered, ProbeAnswered
    <3>1. Mint(jobs[j].key, b, "auto", saved, swept) /\ Finish(j)
          /\ UNCHANGED <<life, rules, savedRules, turns, cleaning, listed>>
      BY <2>6 DEF RetryAnswered, ProbeAnswered
    <3>2. QED
      BY <3>1 DEF Mint, Remember, Finish, IdleJob, Job, MaybeKey, MaybeBlob
  <2>7. ASSUME NEW j \in Jobs, NEW saved \in BOOLEAN, NEW swept \in Sweeps,
               ManualPool(j, saved, swept)
        PROVE  TypeOK'
    BY <2>7 DEF ManualPool, Mint, Remember, Finish, IdleJob, Job, MaybeKey,
                MaybeBlob
  <2>8. ASSUME NEW j \in Jobs, GiveUp(j) PROVE TypeOK'
    BY <2>8 DEF GiveUp, Finish, IdleJob, Job, MaybeKey, MaybeBlob
  <2>9. ASSUME NEW a \in Auths, NEW r \in MaybeRule, SaveRule(a, r) PROVE TypeOK'
    BY <2>9 DEF SaveRule
  <2>10. ASSUME NEW a \in Auths, Unlist(a) \/ CleanupStore(a) \/ CleanupMemory(a)
         PROVE  TypeOK'
    BY <2>10 DEF Unlist, CleanupStore, CleanupMemory, MaybeRule, MaybeBlob, MaybeKey
  <2>11. CASE Lifecycle
    <3>1. CASE QuiesceBegin
      BY <3>1 DEF QuiesceBegin
    <3>2. CASE QuiesceEnd
      BY <3>2 DEF QuiesceEnd
    <3>3. CASE Configure
      BY <3>3 DEF Configure, MaybeKey
    <3>4. CASE Crash
      BY <3>4, NullAssumption
         DEF Crash, Empty, IdleJob, Job, MaybeKey, MaybeBlob, MaybeRule
    <3>5. QED
      BY <2>11, <3>1, <3>2, <3>3, <3>4 DEF Lifecycle
  <2>12. CASE UNCHANGED vars
    BY <2>12 DEF vars
  <2>13. QED
    BY <2>1, <2>2, <2>3, <2>4, <2>5, <2>6, <2>7, <2>8, <2>9, <2>10, <2>11, <2>12
       DEF Next, LiveTurn, Background, Management
<1>3. QED
  BY <1>1, <1>2, PTL DEF Spec

-----------------------------------------------------------------------------
(* The two copies of the pool.                                              *)

\* Only a credential the host no longer lists is ever half cleaned up: what
\* PoolMatchesStore needs to be inductive, since a listed credential could lose
\* its disk copy to a cleanup without it.
CleanupSparesListed == cleaning \cap listed = {}

\* mintTurnStateLocked leaves the two copies as they agreed: a failed write
\* touches neither, a successful one both.
LEMMA MintKeepsCopies ==
  ASSUME TypeOK, PoolMatchesStore, NEW k \in Keys, NEW b \in Blobs, NEW mode,
         NEW saved \in BOOLEAN, NEW swept, Mint(k, b, mode, saved, swept),
         UNCHANGED <<life, cleaning, listed>>
  PROVE  PoolMatchesStore'
BY DEF TypeOK, PoolMatchesStore, Mint, StoreOpen

\* invalidateTurnStateLocked leaves the two copies as they agreed.
LEMMA InvalidateKeepsCopies ==
  ASSUME TypeOK, PoolMatchesStore, NEW k \in Keys, NEW b \in Blobs,
         NEW deleted \in BOOLEAN, Invalidate(k, b, deleted),
         UNCHANGED <<life, cleaning, listed>>
  PROVE  PoolMatchesStore'
BY DEF TypeOK, PoolMatchesStore, Invalidate, StoreOpen

\* For every instance: while the plugin holds its store, what memory would
\* inject is what a restart would load, up to a cleanup that is half done.
THEOREM CopiesAgree == Spec => []PoolMatchesStore
<1>1. Init => CleanupSparesListed /\ PoolMatchesStore
  BY DEF Init, CleanupSparesListed, PoolMatchesStore, StoreOpen
<1>2. ASSUME TypeOK, TypeOK', CleanupSparesListed, PoolMatchesStore, [Next]_vars
      PROVE  CleanupSparesListed' /\ PoolMatchesStore'
  <2>1. ASSUME NEW t \in Turns, NEW k \in Keys, NEW echo \in MaybeBlob,
               NEW expired \in BOOLEAN, Intercept(t, k, echo, expired)
        PROVE  CleanupSparesListed' /\ PoolMatchesStore'
    BY <1>2, <2>1 DEF Intercept, CleanupSparesListed, PoolMatchesStore, StoreOpen
  <2>2. ASSUME NEW t \in Turns, SilentResponse(t)
        PROVE  CleanupSparesListed' /\ PoolMatchesStore'
    BY <1>2, <2>2 DEF SilentResponse, CleanupSparesListed, PoolMatchesStore, StoreOpen
  <2>3. ASSUME NEW t \in Turns, NEW b \in Blobs, NEW deleted \in BOOLEAN,
               NEW swept \in Sweeps, StateResponse(t, b, deleted, swept)
        PROVE  CleanupSparesListed' /\ PoolMatchesStore'
    <3>1. turns[t].key \in Keys
      BY <1>2, <2>3 DEF StateResponse, TypeOK, Turn
    <3>2. UNCHANGED <<life, cleaning, listed>>
      BY <2>3 DEF StateResponse
    <3>3. CASE turns[t].set \in Blobs
      BY <1>2, <2>3, <3>1, <3>2, <3>3, InvalidateKeepsCopies
         DEF StateResponse, CleanupSparesListed
    <3>4. CASE turns[t].set \notin Blobs
      BY <1>2, <2>3, <3>2, <3>4
         DEF StateResponse, CleanupSparesListed, PoolMatchesStore, StoreOpen
    <3>5. QED
      BY <3>3, <3>4
  <2>4. ASSUME NEW j \in Jobs, NEW k, NEW b, NEW kind, Start(j, kind, k, b)
        PROVE  CleanupSparesListed' /\ PoolMatchesStore'
    BY <1>2, <2>4 DEF Start, CleanupSparesListed, PoolMatchesStore, StoreOpen
  <2>5. ASSUME NEW j \in Jobs, NEW saved \in BOOLEAN, NEW swept \in Sweeps,
               NEW b \in Blobs,
               RetryAnswered(j, b, saved, swept) \/ ProbeAnswered(j, b, saved, swept)
        PROVE  CleanupSparesListed' /\ PoolMatchesStore'
    <3>1. jobs[j].key \in Keys
      BY <2>5, OwnerAssumption DEF RetryAnswered, ProbeAnswered
    <3>2. /\ Mint(jobs[j].key, b, "auto", saved, swept)
          /\ UNCHANGED <<life, cleaning, listed>>
      BY <2>5 DEF RetryAnswered, ProbeAnswered
    <3>3. QED
      BY <1>2, <3>1, <3>2, MintKeepsCopies DEF CleanupSparesListed
  <2>6. ASSUME NEW j \in Jobs, NEW saved \in BOOLEAN, NEW swept \in Sweeps,
               ManualPool(j, saved, swept)
        PROVE  CleanupSparesListed' /\ PoolMatchesStore'
    BY <1>2, <2>6
       DEF ManualPool, Mint, TypeOK, CleanupSparesListed, PoolMatchesStore, StoreOpen
  <2>7. ASSUME NEW j \in Jobs, GiveUp(j)
        PROVE  CleanupSparesListed' /\ PoolMatchesStore'
    BY <1>2, <2>7 DEF GiveUp, CleanupSparesListed, PoolMatchesStore, StoreOpen
  <2>8. ASSUME NEW a \in Auths, NEW r \in MaybeRule, SaveRule(a, r)
        PROVE  CleanupSparesListed' /\ PoolMatchesStore'
    BY <1>2, <2>8 DEF SaveRule, CleanupSparesListed, PoolMatchesStore, StoreOpen
  <2>9. ASSUME NEW a \in Auths, Unlist(a) \/ CleanupStore(a)
        PROVE  CleanupSparesListed' /\ PoolMatchesStore'
    BY <1>2, <2>9
       DEF Unlist, CleanupStore, TypeOK, CleanupSparesListed, PoolMatchesStore, StoreOpen
  <2>10. ASSUME NEW a \in Auths, CleanupMemory(a)
         PROVE  CleanupSparesListed' /\ PoolMatchesStore'
    BY <1>2, <2>10
       DEF CleanupMemory, TypeOK, CleanupSparesListed, PoolMatchesStore, StoreOpen
  <2>11. CASE Lifecycle
    BY <1>2, <2>11
       DEF Lifecycle, QuiesceBegin, QuiesceEnd, Configure, Crash,
           CleanupSparesListed, PoolMatchesStore, StoreOpen
  <2>12. CASE UNCHANGED vars
    BY <1>2, <2>12 DEF vars, CleanupSparesListed, PoolMatchesStore, StoreOpen
  <2>13. QED
    BY <1>2, <2>1, <2>2, <2>3, <2>4, <2>5, <2>6, <2>7, <2>8, <2>9, <2>10, <2>11,
       <2>12
       DEF Next, LiveTurn, Background, Management, StartProbe, StartHandProbe,
           StartManualPool, Jobs
<1>3. QED
  BY <1>1, <1>2, TypeCorrect, PTL DEF Spec

-----------------------------------------------------------------------------
(* Whose states the pool touches.                                           *)

\* What OwnChainOnly needs to be inductive: the operator's pooling carries a
\* state between its two locked sections, and it is of the slot it will take.
ManualJobsOwn ==
    \A j \in Jobs : jobs[j].kind = "manual" =>
        jobs[j].blob \in Blobs /\ Owner[jobs[j].blob] = jobs[j].key

\* A mint of a state for its own slot keeps every copy and every record of
\* provenance within the state's chain.
LEMMA MintKeepsChains ==
  ASSUME TypeOK, OwnChainOnly, NEW b \in Blobs, NEW mode, NEW saved, NEW swept,
         Mint(Owner[b], b, mode, saved, swept), UNCHANGED turns
  PROVE  OwnChainOnly'
<1> Owner[b] \in Keys
  BY OwnerAssumption
<1>1. QED
  BY DEF TypeOK, OwnChainOnly, Mint, Remember

\* Chains and the operator's jobs keep each other: neither is inductive alone.
LEMMA ChainsAndJobs == Spec => [](ManualJobsOwn /\ OwnChainOnly)
<1>1. Init => ManualJobsOwn /\ OwnChainOnly
  BY NullAssumption
     DEF Init, Empty, IdleJob, ManualJobsOwn, OwnChainOnly
<1>2. ASSUME TypeOK, ManualJobsOwn, OwnChainOnly, [Next]_vars
      PROVE  ManualJobsOwn' /\ OwnChainOnly'
  <2>1. ASSUME NEW t \in Turns, NEW k \in Keys, NEW echo \in MaybeBlob,
               NEW expired \in BOOLEAN, Intercept(t, k, echo, expired)
        PROVE  ManualJobsOwn' /\ OwnChainOnly'
    <3>1. turns' = [turns EXCEPT ![t] = turns'[t]]
      BY <1>2, <2>1 DEF Intercept, TypeOK
    <3>2. /\ turns'[t] # NoTurn => turns'[t].key = k
          /\ turns'[t].set \in Blobs => turns'[t].set = pool[k]
      BY <1>2, <2>1, NullAssumption DEF Intercept, TypeOK
    <3>3. \A b \in Blobs : prov'[b] \in {NoKey, Owner[b]}
      BY <1>2, <2>1 DEF Intercept, OwnChainOnly, TypeOK
    <3>4. QED
      BY <1>2, <2>1, <3>1, <3>2, <3>3
         DEF Intercept, ManualJobsOwn, OwnChainOnly, TypeOK
  <2>2. ASSUME NEW t \in Turns, SilentResponse(t)
        PROVE  ManualJobsOwn' /\ OwnChainOnly'
    BY <1>2, <2>2 DEF SilentResponse, ManualJobsOwn, OwnChainOnly, TypeOK
  <2>3. ASSUME NEW t \in Turns, NEW b \in Blobs, NEW deleted \in BOOLEAN,
               NEW swept \in Sweeps, StateResponse(t, b, deleted, swept)
        PROVE  ManualJobsOwn' /\ OwnChainOnly'
    <3>1. ManualJobsOwn'
      BY <1>2, <2>3 DEF StateResponse, ScheduleRetry, ManualJobsOwn, TypeOK, Jobs
    <3>2. \A x \in Blobs : prov'[x] \in {NoKey, Owner[x]}
      BY <1>2, <2>3 DEF StateResponse, Remember, OwnChainOnly, TypeOK
    <3>3. \A k \in Keys : pool'[k] \in {pool[k], NoBlob}
                          /\ disk'[k] \in {disk[k], NoBlob}
      BY <1>2, <2>3 DEF StateResponse, Invalidate, TypeOK
    <3>4. QED
      BY <1>2, <2>3, <3>1, <3>2, <3>3, NullAssumption
         DEF StateResponse, OwnChainOnly, TypeOK
  <2>4. ASSUME NEW j \in Tasks, NEW k \in Keys,
               StartProbe(j, k) \/ StartHandProbe(j, k)
        PROVE  ManualJobsOwn' /\ OwnChainOnly'
    BY <1>2, <2>4
       DEF StartProbe, StartHandProbe, Start, ManualJobsOwn, OwnChainOnly, TypeOK
  <2>5. ASSUME NEW j \in Tasks, NEW b \in Blobs, StartManualPool(j, b)
        PROVE  ManualJobsOwn' /\ OwnChainOnly'
    BY <1>2, <2>5
       DEF StartManualPool, Start, ManualJobsOwn, OwnChainOnly, TypeOK
  <2>6. ASSUME NEW j \in Jobs, NEW saved \in BOOLEAN, NEW swept \in Sweeps,
               NEW b \in Blobs,
               RetryAnswered(j, b, saved, swept) \/ ProbeAnswered(j, b, saved, swept)
        PROVE  ManualJobsOwn' /\ OwnChainOnly'
    <3>1. ManualJobsOwn'
      BY <1>2, <2>6
         DEF RetryAnswered, ProbeAnswered, Finish, IdleJob, ManualJobsOwn, TypeOK
    <3>2. Mint(Owner[b], b, "auto", saved, swept) /\ UNCHANGED turns
      BY <2>6 DEF RetryAnswered, ProbeAnswered
    <3>3. QED
      BY <1>2, <3>1, <3>2, MintKeepsChains
  <2>7. ASSUME NEW j \in Jobs, NEW saved \in BOOLEAN, NEW swept \in Sweeps,
               ManualPool(j, saved, swept)
        PROVE  ManualJobsOwn' /\ OwnChainOnly'
    <3>1. ManualJobsOwn'
      BY <1>2, <2>7 DEF ManualPool, Finish, IdleJob, ManualJobsOwn, TypeOK
    <3>2. jobs[j].blob \in Blobs /\ Owner[jobs[j].blob] = jobs[j].key
      BY <1>2, <2>7 DEF ManualPool, ManualJobsOwn
    <3>3. CASE Maintains(jobs[j].key[1])
      BY <1>2, <2>7, <3>1, <3>2, <3>3, MintKeepsChains DEF ManualPool
    <3>4. CASE ~Maintains(jobs[j].key[1])
      BY <1>2, <2>7, <3>1, <3>4 DEF ManualPool, OwnChainOnly
    <3>5. QED
      BY <3>3, <3>4
  <2>8. ASSUME NEW j \in Jobs, GiveUp(j)
        PROVE  ManualJobsOwn' /\ OwnChainOnly'
    BY <1>2, <2>8 DEF GiveUp, Finish, IdleJob, ManualJobsOwn, OwnChainOnly, TypeOK
  <2>9. ASSUME NEW a \in Auths, NEW r \in MaybeRule, SaveRule(a, r)
        PROVE  ManualJobsOwn' /\ OwnChainOnly'
    BY <1>2, <2>9 DEF SaveRule, ManualJobsOwn, OwnChainOnly
  <2>10. ASSUME NEW a \in Auths, Unlist(a) \/ CleanupStore(a) \/ CleanupMemory(a)
         PROVE  ManualJobsOwn' /\ OwnChainOnly'
    BY <1>2, <2>10, NullAssumption
       DEF Unlist, CleanupStore, CleanupMemory, ManualJobsOwn, OwnChainOnly
  <2>11. CASE Lifecycle
    <3>1. CASE QuiesceBegin \/ QuiesceEnd
      BY <1>2, <3>1 DEF QuiesceBegin, QuiesceEnd, ManualJobsOwn, OwnChainOnly
    <3>2. CASE Configure
      BY <1>2, <3>2 DEF Configure, ManualJobsOwn, OwnChainOnly
    <3>3. CASE Crash
      BY <1>2, <3>3, NullAssumption
         DEF Crash, Empty, IdleJob, ManualJobsOwn, OwnChainOnly
    <3>4. QED
      BY <2>11, <3>1, <3>2, <3>3 DEF Lifecycle
  <2>12. CASE UNCHANGED vars
    BY <1>2, <2>12 DEF vars, ManualJobsOwn, OwnChainOnly
  <2>13. QED
    BY <1>2, <2>1, <2>2, <2>3, <2>4, <2>5, <2>6, <2>7, <2>8, <2>9, <2>10, <2>11,
       <2>12 DEF Next, LiveTurn, Background, Management
<1>3. QED
  BY <1>1, <1>2, TypeCorrect, PTL DEF Spec

\* For every instance: no state is pooled, remembered or injected outside the
\* turn chain -- credential and model -- it is of.
THEOREM OwnChains == Spec => []OwnChainOnly
BY ChainsAndJobs, PTL

\* For every instance: the guard of the state header never takes a client's own
\* chain off its request, since what is remembered of a state is never wrong.
THEOREM OwnEchoesPass == Spec => OwnEchoIsNeverStripped
<1>1. ASSUME OwnChainOnly, TypeOK, NEW t \in Turns, NEW b \in Blobs,
             NEW expired \in BOOLEAN, Intercept(t, Owner[b], b, expired),
             HeaderPin(Owner[b][1]) # "remove"
      PROVE  ~turns'[t].clear
  <2>1. ~Unusable(Owner[b], b)
    BY <1>1 DEF OwnChainOnly, Unusable
  <2>2. QED
    BY <1>1, <2>1 DEF Intercept, TypeOK
<1>2. OwnChainOnly /\ TypeOK =>
        [\A t \in Turns, b \in Blobs, expired \in BOOLEAN :
            Intercept(t, Owner[b], b, expired)
                /\ HeaderPin(Owner[b][1]) # "remove" => ~turns'[t].clear]_vars
  BY <1>1
<1>3. QED
  BY <1>2, OwnChains, TypeCorrect, PTL DEF OwnEchoIsNeverStripped

-----------------------------------------------------------------------------
(* Quiesce.                                                                 *)

\* For every instance: a quiesce that gave the store up left no retry and no
\* scheduled probe behind, and none starts until the next registration.
THEOREM QuiesceDrains == Spec => []NoTrackedWorkWhenClosed
<1>1. Init => NoTrackedWorkWhenClosed
  BY DEF Init, NoTrackedWorkWhenClosed, Tracked, IdleJob
<1>2. ASSUME TypeOK, NoTrackedWorkWhenClosed, [Next]_vars
      PROVE  NoTrackedWorkWhenClosed'
  <2> USE DEF NoTrackedWorkWhenClosed, Tracked, StoreOpen, TypeOK
  <2>1. CASE LiveTurn
    BY <1>2, <2>1
       DEF LiveTurn, Intercept, SilentResponse, StateResponse, ScheduleRetry
  <2>2. CASE Background
    <3>1. ASSUME NEW j \in Tasks, NEW k \in Keys,
                 StartProbe(j, k) \/ StartHandProbe(j, k)
          PROVE  NoTrackedWorkWhenClosed'
      BY <1>2, <3>1 DEF StartProbe, StartHandProbe, Start
    <3>2. ASSUME NEW j \in Tasks, NEW b \in Blobs, StartManualPool(j, b)
          PROVE  NoTrackedWorkWhenClosed'
      BY <1>2, <3>2 DEF StartManualPool, Start
    <3>3. ASSUME NEW j \in Jobs, Finish(j), life' = life
          PROVE  NoTrackedWorkWhenClosed'
      BY <1>2, <3>3 DEF Finish, IdleJob
    <3>4. QED
      BY <2>2, <3>1, <3>2, <3>3
         DEF Background, RetryAnswered, ProbeAnswered, ManualPool, GiveUp
  <2>3. CASE Management
    BY <1>2, <2>3 DEF Management, SaveRule, Unlist, CleanupStore, CleanupMemory
  <2>4. CASE Lifecycle
    BY <1>2, <2>4
       DEF Lifecycle, QuiesceBegin, QuiesceEnd, Configure, Crash, IdleJob
  <2>5. CASE UNCHANGED vars
    BY <1>2, <2>5 DEF vars
  <2>6. QED
    BY <1>2, <2>1, <2>2, <2>3, <2>4, <2>5 DEF Next
<1>3. QED
  BY <1>1, <1>2, TypeCorrect, PTL DEF Spec

-----------------------------------------------------------------------------
(* The two copies of the rules.                                             *)

\* For every instance: while the plugin holds its store, the rules in force are
\* the rules a restart would load, up to a cleanup that is half done.
THEOREM RulesAgree == Spec => []RulesMatchStore
<1>1. Init => CleanupSparesListed /\ RulesMatchStore
  BY DEF Init, CleanupSparesListed, RulesMatchStore, StoreOpen
<1>2. ASSUME TypeOK, CleanupSparesListed, RulesMatchStore, [Next]_vars
      PROVE  CleanupSparesListed' /\ RulesMatchStore'
  <2> USE DEF CleanupSparesListed, RulesMatchStore, StoreOpen, TypeOK
  <2>1. CASE LiveTurn
    BY <1>2, <2>1 DEF LiveTurn, Intercept, SilentResponse, StateResponse
  <2>2. CASE Background
    BY <1>2, <2>2
       DEF Background, StartProbe, StartHandProbe, StartManualPool, Start,
           RetryAnswered, ProbeAnswered, ManualPool, GiveUp
  <2>3. ASSUME NEW a \in Auths, NEW r \in MaybeRule, SaveRule(a, r)
        PROVE  CleanupSparesListed' /\ RulesMatchStore'
    BY <1>2, <2>3 DEF SaveRule
  <2>4. ASSUME NEW a \in Auths, Unlist(a) \/ CleanupStore(a) \/ CleanupMemory(a)
        PROVE  CleanupSparesListed' /\ RulesMatchStore'
    BY <1>2, <2>4 DEF Unlist, CleanupStore, CleanupMemory
  <2>5. CASE Lifecycle
    BY <1>2, <2>5 DEF Lifecycle, QuiesceBegin, QuiesceEnd, Configure, Crash
  <2>6. CASE UNCHANGED vars
    BY <1>2, <2>6 DEF vars
  <2>7. QED
    BY <1>2, <2>1, <2>2, <2>3, <2>4, <2>5, <2>6 DEF Next, Management
<1>3. QED
  BY <1>1, <1>2, TypeCorrect, PTL DEF Spec

-----------------------------------------------------------------------------
(* What goes into a slot and what comes out of it.                          *)

\* What PooledByRight says of one slot.
Enters(k) ==
    pool'[k] \notin {pool[k], NoBlob} =>
        \/ \E j \in Jobs :
              /\ jobs[j].key = k /\ jobs'[j] = IdleJob
              /\ jobs[j].kind = "manual" => Maintains(k[1]) /\ pool'[k] = jobs[j].blob
        \/ life # life'

\* For every instance: a slot is filled by a fetch of its own or by a hand that
\* the pool is not frozen against, never by a live turn.
THEOREM FilledByRight == Spec => PooledByRight
<1>1. ASSUME TypeOK, [Next]_vars, NEW k \in Keys
      PROVE  Enters(k)
  <2>1. CASE LiveTurn
    BY <1>1, <2>1
       DEF LiveTurn, Intercept, SilentResponse, StateResponse, Invalidate, TypeOK, Enters
  <2>2. CASE Background
    <3>1. ASSUME NEW j \in Tasks,
                 \/ \E q \in Keys : StartProbe(j, q) \/ StartHandProbe(j, q)
                 \/ \E b \in Blobs : StartManualPool(j, b)
          PROVE  Enters(k)
      BY <3>1 DEF StartProbe, StartHandProbe, StartManualPool, Start, Enters
    <3>2. ASSUME NEW j \in Jobs, NEW saved \in BOOLEAN, NEW swept \in Sweeps,
                 NEW b \in Blobs,
                 RetryAnswered(j, b, saved, swept) \/ ProbeAnswered(j, b, saved, swept)
          PROVE  Enters(k)
      <4>1. /\ jobs[j].kind # "manual" /\ jobs'[j] = IdleJob
            /\ Mint(jobs[j].key, b, "auto", saved, swept)
        BY <1>1, <3>2 DEF RetryAnswered, ProbeAnswered, Finish, TypeOK
      <4>2. pool'[k] # pool[k] => jobs[j].key = k
        BY <1>1, <4>1 DEF Mint, TypeOK
      <4>3. QED
        BY <4>1, <4>2 DEF Enters
    <3>3. ASSUME NEW j \in Jobs, NEW saved \in BOOLEAN, NEW swept \in Sweeps,
                 ManualPool(j, saved, swept)
          PROVE  Enters(k)
      <4>1. jobs'[j] = IdleJob
        BY <1>1, <3>3 DEF ManualPool, Finish, TypeOK
      <4>2. pool'[k] # pool[k] =>
              jobs[j].key = k /\ Maintains(k[1]) /\ pool'[k] = jobs[j].blob
        BY <1>1, <3>3 DEF ManualPool, Mint, TypeOK
      <4>3. QED
        BY <4>1, <4>2 DEF Enters
    <3>4. ASSUME NEW j \in Jobs, GiveUp(j)
          PROVE  Enters(k)
      BY <3>4 DEF GiveUp, Enters
    <3>5. QED
      BY <2>2, <3>1, <3>2, <3>3, <3>4 DEF Background
  <2>3. CASE Management
    BY <1>1, <2>3
       DEF Management, SaveRule, Unlist, CleanupStore, CleanupMemory, TypeOK, Enters
  <2>4. CASE Lifecycle
    BY <2>4 DEF Lifecycle, QuiesceBegin, QuiesceEnd, Configure, Crash, Enters
  <2>5. CASE UNCHANGED vars
    BY <2>5 DEF vars, Enters
  <2>6. QED
    BY <1>1, <2>1, <2>2, <2>3, <2>4, <2>5 DEF Next
<1>2. TypeOK /\ [Next]_vars => [\A k \in Keys : Enters(k)]_vars
  BY <1>1
<1>3. QED
  BY <1>2, TypeCorrect, PTL DEF Spec, PooledByRight, Enters

\* What RetiredOnEvidence says of one slot.
Leaves(k) ==
    pool[k] # NoBlob /\ pool'[k] = NoBlob =>
        \/ \E t \in Turns : /\ turns[t] # NoTurn /\ turns'[t] = NoTurn
                            /\ turns[t].key = k /\ turns[t].set = pool[k]
        \/ k[1] \in cleaning
        \/ life' # life

\* A mint never empties a slot.
LEMMA MintLeavesNone ==
  ASSUME TypeOK, NEW q \in Keys, NEW b \in Blobs, NEW mode, NEW saved, NEW swept,
         Mint(q, b, mode, saved, swept), NEW k \in Keys
  PROVE  Leaves(k)
BY NullAssumption DEF Mint, TypeOK, Leaves

\* For every instance: a slot is emptied by the answer to a turn that its very
\* state went out on, by a cleanup or by a restart, and by nothing else.
THEOREM EmptiedOnEvidence == Spec => RetiredOnEvidence
<1>1. ASSUME TypeOK, ManualJobsOwn, [Next]_vars, NEW k \in Keys
      PROVE  Leaves(k)
  <2>1. CASE LiveTurn
    <3>1. ASSUME NEW t \in Turns, NEW b \in Blobs, NEW deleted \in BOOLEAN,
                 NEW swept \in Sweeps, StateResponse(t, b, deleted, swept)
          PROVE  Leaves(k)
      <4>1. turns[t] # NoTurn /\ turns'[t] = NoTurn
        BY <1>1, <3>1 DEF StateResponse, TypeOK
      <4>2. pool'[k] # pool[k] => turns[t].key = k /\ turns[t].set = pool[k]
        BY <1>1, <3>1 DEF StateResponse, Invalidate, TypeOK
      <4>3. QED
        BY <4>1, <4>2 DEF Leaves
    <3>2. QED
      BY <2>1, <3>1 DEF LiveTurn, Intercept, SilentResponse, Leaves
  <2>2. CASE Background
    <3>1. ASSUME NEW j \in Tasks,
                 \/ \E q \in Keys : StartProbe(j, q) \/ StartHandProbe(j, q)
                 \/ \E b \in Blobs : StartManualPool(j, b)
          PROVE  Leaves(k)
      BY <3>1 DEF StartProbe, StartHandProbe, StartManualPool, Start, Leaves
    <3>2. ASSUME NEW j \in Jobs, NEW saved \in BOOLEAN, NEW swept \in Sweeps,
                 NEW b \in Blobs,
                 RetryAnswered(j, b, saved, swept) \/ ProbeAnswered(j, b, saved, swept)
          PROVE  Leaves(k)
      <4>1. jobs[j].key \in Keys /\ Mint(jobs[j].key, b, "auto", saved, swept)
        BY <3>2, OwnerAssumption DEF RetryAnswered, ProbeAnswered
      <4>2. QED
        BY <1>1, <4>1, MintLeavesNone
    <3>3. ASSUME NEW j \in Jobs, NEW saved \in BOOLEAN, NEW swept \in Sweeps,
                 ManualPool(j, saved, swept)
          PROVE  Leaves(k)
      <4>1. jobs[j].blob \in Blobs /\ jobs[j].key \in Keys
        BY <1>1, <3>3, OwnerAssumption DEF ManualPool, ManualJobsOwn
      <4>2. CASE Maintains(jobs[j].key[1])
        BY <1>1, <3>3, <4>1, <4>2, MintLeavesNone DEF ManualPool
      <4>3. CASE ~Maintains(jobs[j].key[1])
        BY <3>3, <4>3 DEF ManualPool, Leaves
      <4>4. QED
        BY <4>2, <4>3
    <3>4. ASSUME NEW j \in Jobs, GiveUp(j)
          PROVE  Leaves(k)
      BY <3>4 DEF GiveUp, Leaves
    <3>5. QED
      BY <2>2, <3>1, <3>2, <3>3, <3>4 DEF Background
  <2>3. CASE Management
    BY <1>1, <2>3
       DEF Management, SaveRule, Unlist, CleanupStore, CleanupMemory, TypeOK, Leaves
  <2>4. CASE Lifecycle
    BY <2>4 DEF Lifecycle, QuiesceBegin, QuiesceEnd, Configure, Crash, Leaves
  <2>5. CASE UNCHANGED vars
    BY <2>5 DEF vars, Leaves
  <2>6. QED
    BY <1>1, <2>1, <2>2, <2>3, <2>4, <2>5 DEF Next
<1>2. TypeOK /\ ManualJobsOwn /\ [Next]_vars => [\A k \in Keys : Leaves(k)]_vars
  BY <1>1
<1>3. QED
  BY <1>2, TypeCorrect, ChainsAndJobs, PTL DEF Spec, RetiredOnEvidence, Leaves

-----------------------------------------------------------------------------
(* The pool does not step back.                                             *)

\* Only a task, never a retry slot, carries an operator's pooling.
ManualJobsAreTasks == \A j \in Jobs : jobs[j].kind = "manual" => j \in Tasks

\* An automatic mint moves a held slot forward or leaves it alone.
LEMMA AutoMintGoesForward ==
  ASSUME TypeOK, NEW q \in Keys, NEW b \in Blobs, NEW saved, NEW swept,
         Mint(q, b, "auto", saved, swept), NEW k \in Keys, pool[k] # NoBlob
  PROVE  IssuedAt[pool[k]] <= IssuedAt[pool'[k]]
<1>1. pool[k] \in Blobs /\ IssuedAt[pool[k]] \in Nat
  BY IssuedAtAssumption DEF TypeOK, MaybeBlob
<1>2. QED
  BY <1>1 DEF Mint, Takes, TypeOK

\* A slot that is left alone or emptied moves forward trivially.
LEMMA KeptOrEmptied ==
  ASSUME TypeOK, NEW k \in Keys, pool'[k] \in {pool[k], NoBlob}
  PROVE  StepsForward(k)
<1>1. pool[k] # NoBlob => IssuedAt[pool[k]] \in Nat
  BY IssuedAtAssumption DEF TypeOK, MaybeBlob
<1>2. QED
  BY <1>1 DEF StepsForward

\* For every instance and every order in which answers come back: while a
\* slot stays held, only an operator's own choice makes it older.
THEOREM PoolGoesForward == Spec => NeverStepsBack
<1>1. ASSUME TypeOK, ManualJobsAreTasks, [Next]_vars,
             NEW k \in Keys
      PROVE  StepsForward(k)
  <2>1. CASE LiveTurn
    <3>1. pool'[k] \in {pool[k], NoBlob}
      BY <1>1, <2>1
         DEF LiveTurn, Intercept, SilentResponse, StateResponse, Invalidate, TypeOK
    <3>2. QED
      BY <1>1, <3>1, KeptOrEmptied
  <2>2. CASE Background
    <3>1. ASSUME NEW j \in Tasks,
                 \/ \E q \in Keys : StartProbe(j, q) \/ StartHandProbe(j, q)
                 \/ \E b \in Blobs : StartManualPool(j, b)
          PROVE  StepsForward(k)
      BY <1>1, <3>1, KeptOrEmptied
         DEF StartProbe, StartHandProbe, StartManualPool, Start
    <3>2. ASSUME NEW j \in Jobs, NEW saved \in BOOLEAN, NEW swept \in Sweeps,
                 NEW b \in Blobs,
                 RetryAnswered(j, b, saved, swept) \/ ProbeAnswered(j, b, saved, swept)
          PROVE  StepsForward(k)
      <4>1. jobs[j].key \in Keys /\ Mint(jobs[j].key, b, "auto", saved, swept)
        BY <3>2, OwnerAssumption DEF RetryAnswered, ProbeAnswered
      <4>2. QED
        BY <1>1, <4>1, AutoMintGoesForward DEF StepsForward
    <3>3. ASSUME NEW j \in Jobs, NEW saved \in BOOLEAN, NEW swept \in Sweeps,
                 ManualPool(j, saved, swept)
          PROVE  StepsForward(k)
      <4>1. j \in Tasks /\ jobs[j].kind = "manual" /\ jobs'[j] = IdleJob
        BY <1>1, <3>3 DEF ManualPool, Finish, ManualJobsAreTasks, TypeOK
      <4>2. CASE pool'[k] = pool[k]
        BY <1>1, <4>2, KeptOrEmptied
      <4>3. CASE pool'[k] # pool[k]
        <5>1. jobs[j].key = k /\ pool'[k] = jobs[j].blob
          BY <1>1, <3>3, <4>3 DEF ManualPool, Mint, TypeOK
        <5>2. QED
          BY <4>1, <5>1 DEF StepsForward
      <4>4. QED
        BY <4>2, <4>3
    <3>4. ASSUME NEW j \in Jobs, GiveUp(j)
          PROVE  StepsForward(k)
      BY <1>1, <3>4, KeptOrEmptied DEF GiveUp
    <3>5. QED
      BY <2>2, <3>1, <3>2, <3>3, <3>4 DEF Background
  <2>3. CASE Management
    <3>1. pool'[k] \in {pool[k], NoBlob}
      BY <1>1, <2>3 DEF Management, SaveRule, Unlist, CleanupStore, CleanupMemory
    <3>2. QED
      BY <1>1, <3>1, KeptOrEmptied
  <2>4. CASE Lifecycle
    <3>1. StoreOpen => pool'[k] \in {pool[k], NoBlob}
      BY <1>1, <2>4
         DEF Lifecycle, QuiesceBegin, QuiesceEnd, Configure, Crash, Empty, StoreOpen
    <3>2. QED
      BY <1>1, <3>1, KeptOrEmptied DEF StepsForward
  <2>5. CASE UNCHANGED vars
    BY <1>1, <2>5, KeptOrEmptied DEF vars
  <2>6. QED
    BY <1>1, <2>1, <2>2, <2>3, <2>4, <2>5 DEF Next
<1>2. Spec => []ManualJobsAreTasks
  <2>1. Init => ManualJobsAreTasks
    BY DEF Init, ManualJobsAreTasks, IdleJob
  <2>2. ASSUME TypeOK, ManualJobsAreTasks, [Next]_vars
        PROVE  ManualJobsAreTasks'
    <3> USE DEF ManualJobsAreTasks, TypeOK
    <3>1. CASE LiveTurn
      BY <2>2, <3>1
         DEF LiveTurn, Intercept, SilentResponse, StateResponse, ScheduleRetry
    <3>2. CASE Background
      BY <2>2, <3>2
         DEF Background, StartProbe, StartHandProbe, StartManualPool, Start,
             RetryAnswered, ProbeAnswered, ManualPool, GiveUp, Finish, IdleJob, Jobs
    <3>3. CASE Management \/ Lifecycle
      BY <2>2, <3>3
         DEF Management, SaveRule, Unlist, CleanupStore, CleanupMemory, Lifecycle,
             QuiesceBegin, QuiesceEnd, Configure, Crash, IdleJob
    <3>4. CASE UNCHANGED vars
      BY <2>2, <3>4 DEF vars
    <3>5. QED
      BY <2>2, <3>1, <3>2, <3>3, <3>4 DEF Next
  <2>3. QED
    BY <2>1, <2>2, TypeCorrect, PTL DEF Spec
<1>3. TypeOK /\ ManualJobsAreTasks /\ [Next]_vars
        => [\A k \in Keys : StepsForward(k)]_vars
  BY <1>1
<1>4. QED
  BY <1>2, <1>3, TypeCorrect, PTL DEF Spec, NeverStepsBack
=============================================================================
