---------------------------- MODULE TurnStatePool ----------------------------
(***************************************************************************)
(* The pool of Codex turn states (turnstate.go) with everything that moves *)
(* it: live turns that carry a pooled state out and bring a verdict back   *)
(* (state.go), the background fetches that refill it (degraded_retry.go,   *)
(* probe.go), the operator's manual pool (manualpool.go), rule saves,      *)
(* orphan cleanup (management.go) and the plugin's own lifecycle.          *)
(*                                                                         *)
(* Every action is one critical section of state.mu: what the code does    *)
(* between two of them -- a host call, an upstream request, a wait -- is   *)
(* the gap in which other actions interleave.                              *)
(***************************************************************************)
EXTENDS Naturals, FiniteSets

CONSTANTS
    Auths,       \* credentials, by the host's auth_index
    Models,      \* models a request can be sent to
    Blobs,       \* turn states the upstream can issue
    Turns,       \* live requests in flight at once
    RetrySlots,  \* the capacity of retryInFlight, one element per slot
    Tasks,       \* probes and operator actions in flight at once
    Rules,       \* the rule versions an operator saves
    Sweeps,      \* what one sweep of the provenance index may drop
    IssuedAt,    \* the timestamp inside each state's envelope
    Owner,       \* the credential and model whose turn chain a state is of
    NoBlob, NoKey, NoRule, NoTurn,
    Pinned       \* a value the operator set for the header by hand

Keys == Auths \X Models

Headers == {"free", "set", "remove"}

Rule == [maintain: BOOLEAN, inject: BOOLEAN, retry: BOOLEAN, probe: BOOLEAN,
         header: Headers]

\* validateRule: a frozen pool switches the retry and the probe off with it,
\* and the two writers are never on together.
ValidRule(r) ==
    /\ ~r.maintain => ~r.retry /\ ~r.probe
    /\ ~(r.retry /\ r.probe)

ASSUME RulesAssumption == Rules \subseteq {r \in Rule : ValidRule(r)}
ASSUME SweepsAssumption == Sweeps \subseteq SUBSET Blobs
ASSUME IssuedAtAssumption == IssuedAt \in [Blobs -> Nat]
ASSUME OwnerAssumption == Owner \in [Blobs -> Keys]
ASSUME NullAssumption ==
    /\ NoBlob \notin Blobs /\ Pinned \notin Blobs /\ Pinned # NoBlob
    /\ NoKey \notin Keys /\ NoRule \notin Rule
ASSUME SlotAssumption == RetrySlots \cap Tasks = {}

MaybeBlob == Blobs \cup {NoBlob}
MaybeKey  == Keys \cup {NoKey}
MaybeRule == Rules \cup {NoRule}
Jobs      == RetrySlots \cup Tasks

Turn == [key: Keys, set: MaybeBlob \cup {Pinned}, clear: BOOLEAN]
ASSUME NoTurnAssumption == NoTurn \notin Turn

Job == [kind: {"idle", "retry", "probe", "hand", "manual"},
        key: MaybeKey, blob: MaybeBlob]
IdleJob == [kind |-> "idle", key |-> NoKey, blob |-> NoBlob]

VARIABLES
    life,        \* "down" (not loaded), "open", "stopping" (quiescing, the store
                 \* still held), "closed" (quiesced: callable, no store)
    rules,       \* state.rules
    savedRules,  \* the rules bucket
    pool,        \* state.turnStateLatest
    disk,        \* the turn_states bucket
    prov,        \* state.turnStates: where a remembered state came from
    turns,       \* state.pending
    jobs,        \* the goroutines with a request out
    cleaning,    \* credentials whose cleanup deleted the disk copy only
    listed       \* credentials the host lists; cleanup spares them

vars == <<life, rules, savedRules, pool, disk, prov, turns, jobs, cleaning, listed>>

TypeOK ==
    /\ life \in {"down", "open", "stopping", "closed"}
    /\ rules \in [Auths -> MaybeRule]
    /\ savedRules \in [Auths -> MaybeRule]
    /\ pool \in [Keys -> MaybeBlob]
    /\ disk \in [Keys -> MaybeBlob]
    /\ prov \in [Blobs -> MaybeKey]
    /\ turns \in [Turns -> Turn \cup {NoTurn}]
    /\ jobs \in [Jobs -> Job]
    /\ cleaning \subseteq Auths
    /\ listed \subseteq Auths

Empty == [k \in Keys |-> NoBlob]

Init ==
    /\ life = "down"
    /\ rules = [a \in Auths |-> NoRule]
    /\ savedRules = rules
    /\ pool = Empty
    /\ disk = Empty
    /\ prov = [b \in Blobs |-> NoKey]
    /\ turns = [t \in Turns |-> NoTurn]
    /\ jobs = [j \in Jobs |-> IdleJob]
    /\ cleaning = {}
    /\ listed = Auths

-----------------------------------------------------------------------------
(* What a credential's rule switches on, read where the code reads it.      *)

StoreOpen == life \in {"open", "stopping"}

Maintains(a)    == rules[a] # NoRule => rules[a].maintain
Injects(a)      == rules[a] # NoRule /\ rules[a].inject /\ rules[a].maintain
ProbeActive(a)  == rules[a] # NoRule /\ rules[a].probe /\ rules[a].maintain
RetryEnabled(a) == rules[a] # NoRule /\ rules[a].retry /\ rules[a].maintain
HeaderPin(a)    == IF rules[a] = NoRule THEN "free" ELSE rules[a].header

-----------------------------------------------------------------------------
(* The pool's operations.  Callers hold state.mu.                           *)

\* Mutant of Takes: an automatic mint takes the slot whatever holds it.
Takes_AnyAge(k, b, mode) == mode \in {"auto", "manual"}

\* An automatic mint yields to a newer holder; an operator's mint does not.
Takes(k, b, mode) ==
    \/ mode = "manual"
    \/ mode = "auto" /\ (pool[k] = NoBlob \/ IssuedAt[pool[k]] <= IssuedAt[b])

\* Mutant of Remember: the entry names the credential and loses the model.
Remember_AuthOnly(k, b, swept) == [prov EXCEPT ![b] = k[1]]

\* The index entry for b, and what the sweep drops in the same call.
Remember(k, b, swept) ==
    [x \in Blobs |-> IF x = b THEN k ELSE IF x \in swept THEN NoKey ELSE prov[x]]

\* Mutant of Mint: memory is updated before the store has answered.
Mint_MemoryFirst(k, b, mode, saved, swept) ==
    /\ prov' = Remember(k, b, swept)
    /\ pool' = IF Takes(k, b, mode) THEN [pool EXCEPT ![k] = b] ELSE pool
    /\ disk' = IF Takes(k, b, mode) /\ StoreOpen /\ saved
               THEN [disk EXCEPT ![k] = b] ELSE disk

\* The store is written first.  A failed write forgets the provenance it had
\* just recorded, an earlier record of the same state included.
Mint(k, b, mode, saved, swept) ==
    IF Takes(k, b, mode) /\ StoreOpen /\ ~saved
    THEN /\ prov' = [prov EXCEPT ![b] = NoKey]
         /\ UNCHANGED <<pool, disk>>
    ELSE /\ prov' = Remember(k, b, swept)
         /\ pool' = IF Takes(k, b, mode) THEN [pool EXCEPT ![k] = b] ELSE pool
         /\ disk' = IF Takes(k, b, mode) /\ StoreOpen
                    THEN [disk EXCEPT ![k] = b] ELSE disk

\* Mutant of Invalidate: whatever holds the slot by then is dropped.
Invalidate_AnyHolder(k, b, deleted) ==
    IF StoreOpen => deleted
    THEN /\ pool' = [pool EXCEPT ![k] = NoBlob]
         /\ disk' = IF StoreOpen THEN [disk EXCEPT ![k] = NoBlob] ELSE disk
    ELSE UNCHANGED <<pool, disk>>

\* The injected state is dropped while it is still the one pooled; with a
\* store, only once the store has dropped it.
Invalidate(k, b, deleted) ==
    IF pool[k] = b /\ (StoreOpen => deleted)
    THEN /\ pool' = [pool EXCEPT ![k] = NoBlob]
         /\ disk' = IF StoreOpen THEN [disk EXCEPT ![k] = NoBlob] ELSE disk
    ELSE UNCHANGED <<pool, disk>>

-----------------------------------------------------------------------------
(* Live turns.                                                              *)

\* Mutant of Unusable: an echo of unknown origin counts as foreign.
Unusable_Unknown(k, echo) == echo # NoBlob /\ prov[echo] # k

\* An echo is unusable when its origin is remembered and is another key.
Unusable(k, echo) == echo # NoBlob /\ prov[echo] # NoKey /\ prov[echo] # k

\* Mutant of Intercept: the state of any model of the credential is injected.
Intercept_AnyModel(t, k, echo, expired) ==
    LET held == {q \in Keys : q[1] = k[1] /\ pool[q] # NoBlob}
    IN  /\ life # "down"
        /\ turns[t] = NoTurn
        /\ turns' = [turns EXCEPT ![t] =
                [key   |-> k,
                 set   |-> IF Injects(k[1]) /\ held # {}
                           THEN pool[CHOOSE q \in held : TRUE] ELSE NoBlob,
                 clear |-> FALSE]]
        /\ UNCHANGED <<life, rules, savedRules, pool, disk, prov, jobs, cleaning, listed>>

\* interceptAfter.  A lookup drops an entry older than turnStateTTL
\* (expired).  An earlier attempt of the request ends first, so the turn is
\* free by then.
Intercept(t, k, echo, expired) ==
    LET a       == k[1]
        strip   == Unusable(k, echo) /\ ~expired /\ Injects(a)
        pooled  == Injects(a) /\ HeaderPin(a) = "free" /\ pool[k] # NoBlob
    IN  /\ life # "down"
        /\ turns[t] = NoTurn
        /\ turns' = [turns EXCEPT ![t] =
                [key   |-> k,
                 set   |-> IF pooled THEN pool[k]
                           ELSE IF HeaderPin(a) = "set" THEN Pinned ELSE NoBlob,
                 clear |-> ~pooled /\ (strip \/ HeaderPin(a) = "remove")]]
        /\ prov' = IF echo \in Blobs /\ expired
                   THEN [prov EXCEPT ![echo] = NoKey] ELSE prov
        /\ UNCHANGED <<life, rules, savedRules, pool, disk, jobs, cleaning, listed>>

\* The turn ends and the pool is left alone: noteTurnStateMintLocked2 for a
\* response that carries no state (the turn held the one it had), and
\* completeRequest or the next attempt for one that never came.
SilentResponse(t) ==
    /\ turns[t] # NoTurn
    /\ turns' = [turns EXCEPT ![t] = NoTurn]
    /\ UNCHANGED <<life, rules, savedRules, pool, disk, prov, jobs, cleaning, listed>>

\* scheduleDegradedRetry: a free slot, a store, and no quiesce under way.
ScheduleRetry(k) ==
    IF RetryEnabled(k[1]) /\ life = "open"
       /\ \E s \in RetrySlots : jobs[s].kind = "idle"
    THEN \E s \in RetrySlots :
            /\ jobs[s].kind = "idle"
            /\ jobs' = [jobs EXCEPT ![s] =
                    [kind |-> "retry", key |-> k, blob |-> NoBlob]]
    ELSE UNCHANGED jobs

\* Mutant of StateResponse: the state a live turn brings back is pooled.
StateResponse_Pools(t, b, deleted, swept) ==
    /\ turns[t] # NoTurn
    /\ Owner[b] = turns[t].key
    /\ Mint(turns[t].key, b, "auto", TRUE, swept)
    /\ turns' = [turns EXCEPT ![t] = NoTurn]
    /\ UNCHANGED <<life, rules, savedRules, jobs, cleaning, listed>>

\* noteTurnStateMintLocked2 for a response that carries state b.  Where b
\* came from is recorded, never pooled.  If a pooled state went out, b says
\* the upstream dropped it: it is retired and a retry may start.
StateResponse(t, b, deleted, swept) ==
    LET k == turns[t].key IN
    /\ turns[t] # NoTurn
    /\ Owner[b] = k
    /\ prov' = IF Maintains(k[1]) THEN Remember(k, b, swept) ELSE prov
    /\ IF turns[t].set \in Blobs
       THEN Invalidate(k, turns[t].set, deleted) /\ ScheduleRetry(k)
       ELSE UNCHANGED <<pool, disk, jobs>>
    /\ turns' = [turns EXCEPT ![t] = NoTurn]
    /\ UNCHANGED <<life, rules, savedRules, cleaning, listed>>

-----------------------------------------------------------------------------
(* Background work: the slot or task is taken, a request goes out with no   *)
(* lock held, and what comes back is minted under the lock.                 *)

Start(j, kind, k, b) ==
    /\ jobs[j].kind = "idle"
    /\ jobs' = [jobs EXCEPT ![j] = [kind |-> kind, key |-> k, blob |-> b]]
    /\ UNCHANGED <<life, rules, savedRules, pool, disk, prov, turns, cleaning, listed>>

\* scanProbes and runProbeTask, for one model of the rule.
StartProbe(j, k) ==
    life = "open" /\ ProbeActive(k[1]) /\ Start(j, "probe", k, NoBlob)

\* runManualProbe: no wait group, and the switch is read only here.
StartHandProbe(j, k) ==
    StoreOpen /\ Maintains(k[1]) /\ Start(j, "hand", k, NoBlob)

\* poolFromHistory, up to the unlocked read of the history row.
StartManualPool(j, b) ==
    StoreOpen /\ Maintains(Owner[b][1]) /\ Start(j, "manual", Owner[b], b)

Finish(j) == jobs' = [jobs EXCEPT ![j] = IdleJob]

\* runDegradedRetry after a 2xx answer: nothing is minted once quiescing.
RetryAnswered(j, b, saved, swept) ==
    /\ jobs[j].kind = "retry"
    /\ life = "open"
    /\ Owner[b] = jobs[j].key
    /\ Mint(jobs[j].key, b, "auto", saved, swept)
    /\ Finish(j)
    /\ UNCHANGED <<life, rules, savedRules, turns, cleaning, listed>>

\* probeModelWith after an eligible answer.
ProbeAnswered(j, b, saved, swept) ==
    /\ jobs[j].kind \in {"probe", "hand"}
    /\ Owner[b] = jobs[j].key
    /\ Mint(jobs[j].key, b, "auto", saved, swept)
    /\ Finish(j)
    /\ UNCHANGED <<life, rules, savedRules, turns, cleaning, listed>>

\* Mutant of ManualPool: the switch read before the history is trusted.
ManualPool_NoRecheck(j, saved, swept) ==
    /\ jobs[j].kind = "manual"
    /\ Mint(jobs[j].key, jobs[j].blob, "manual", saved, swept)
    /\ Finish(j)
    /\ UNCHANGED <<life, rules, savedRules, turns, cleaning, listed>>

\* poolFromHistory under the lock: the switch is read again.
ManualPool(j, saved, swept) ==
    /\ jobs[j].kind = "manual"
    /\ IF Maintains(jobs[j].key[1])
       THEN Mint(jobs[j].key, jobs[j].blob, "manual", saved, swept)
       ELSE UNCHANGED <<pool, disk, prov>>
    /\ Finish(j)
    /\ UNCHANGED <<life, rules, savedRules, turns, cleaning, listed>>

\* No usable answer, an unverified state, a changed identity, or a stop.
GiveUp(j) ==
    /\ jobs[j].kind # "idle"
    /\ Finish(j)
    /\ UNCHANGED <<life, rules, savedRules, pool, disk, prov, turns, cleaning, listed>>

-----------------------------------------------------------------------------
(* The operator and the host.                                               *)

\* saveRule and deleteRule under the lock; a failed write changes nothing.
SaveRule(a, r) ==
    /\ StoreOpen
    /\ rules' = [rules EXCEPT ![a] = r]
    /\ savedRules' = [savedRules EXCEPT ![a] = r]
    /\ UNCHANGED <<life, pool, disk, prov, turns, jobs, cleaning, listed>>

\* The operator deletes a credential's auth file; one that comes back is not
\* modelled.
Unlist(a) ==
    /\ listed' = listed \ {a}
    /\ UNCHANGED <<life, rules, savedRules, pool, disk, prov, turns, jobs, cleaning>>

\* cleanupOrphans deletes the disk copy with no lock held ...
CleanupStore(a) ==
    /\ StoreOpen
    /\ a \notin listed
    /\ disk' = [k \in Keys |-> IF k[1] = a THEN NoBlob ELSE disk[k]]
    /\ savedRules' = [savedRules EXCEPT ![a] = NoRule]
    /\ cleaning' = cleaning \cup {a}
    /\ UNCHANGED <<life, rules, pool, prov, turns, jobs, listed>>

\* Mutant of CleanupMemory: the pooled states stay in memory.
CleanupMemory_KeepsPool(a) ==
    /\ a \in cleaning
    /\ rules' = [rules EXCEPT ![a] = NoRule]
    /\ cleaning' = cleaning \ {a}
    /\ UNCHANGED <<life, savedRules, pool, disk, prov, turns, jobs, listed>>

\* Mutant of CleanupMemory: the rule stays in memory.
CleanupMemory_KeepsRule(a) ==
    /\ a \in cleaning
    /\ pool' = [k \in Keys |-> IF k[1] = a THEN NoBlob ELSE pool[k]]
    /\ cleaning' = cleaning \ {a}
    /\ UNCHANGED <<life, rules, savedRules, disk, prov, turns, jobs, listed>>

\* ... and the memory copy afterwards, under it.
CleanupMemory(a) ==
    /\ a \in cleaning
    /\ pool' = [k \in Keys |-> IF k[1] = a THEN NoBlob ELSE pool[k]]
    /\ prov' = [b \in Blobs |->
                    IF prov[b] \in {a} \X Models THEN NoKey ELSE prov[b]]
    /\ rules' = [rules EXCEPT ![a] = NoRule]
    /\ cleaning' = cleaning \ {a}
    /\ UNCHANGED <<life, savedRules, disk, turns, jobs, listed>>

\* quiescePlugin raises the flag and closes retryStop ...
QuiesceBegin ==
    /\ life = "open"
    /\ life' = "stopping"
    /\ UNCHANGED <<rules, savedRules, pool, disk, prov, turns, jobs, cleaning, listed>>

Tracked(j) == jobs[j].kind \in {"retry", "probe"}

\* Mutant of QuiesceEnd: the store is let go with fetches still running.
QuiesceEnd_NoWait ==
    /\ life = "stopping"
    /\ life' = "closed"
    /\ turns' = [t \in Turns |-> NoTurn]
    /\ UNCHANGED <<rules, savedRules, pool, disk, prov, jobs, cleaning, listed>>

\* ... and lets go of the store once retryWG has drained.
QuiesceEnd ==
    /\ life = "stopping"
    /\ \A j \in Jobs : ~Tracked(j)
    /\ life' = "closed"
    /\ turns' = [t \in Turns |-> NoTurn]
    /\ UNCHANGED <<rules, savedRules, pool, disk, prov, jobs, cleaning, listed>>

\* Mutant of Configure: the saved rules are not read back.
Configure_KeepsRules ==
    /\ life \in {"down", "closed"}
    /\ life' = "open"
    /\ pool' = disk
    /\ turns' = [t \in Turns |-> NoTurn]
    /\ UNCHANGED <<rules, savedRules, disk, prov, jobs, cleaning, listed>>

\* configurePlugin rebuilds memory from the store.
Configure ==
    /\ life \in {"down", "closed"}
    /\ life' = "open"
    /\ rules' = savedRules
    /\ pool' = disk
    /\ prov' = [b \in Blobs |->
                    IF \E k \in Keys : disk[k] = b
                    THEN CHOOSE k \in Keys : disk[k] = b ELSE NoKey]
    /\ turns' = [t \in Turns |-> NoTurn]
    /\ UNCHANGED <<savedRules, disk, jobs, cleaning, listed>>

\* The host process dies: only the store survives.
Crash ==
    /\ life # "down"
    /\ life' = "down"
    /\ rules' = [a \in Auths |-> NoRule]
    /\ pool' = Empty
    /\ prov' = [b \in Blobs |-> NoKey]
    /\ turns' = [t \in Turns |-> NoTurn]
    /\ jobs' = [j \in Jobs |-> IdleJob]
    /\ cleaning' = {}
    /\ UNCHANGED <<savedRules, disk, listed>>

-----------------------------------------------------------------------------
LiveTurn ==
    \E t \in Turns :
        \/ \E k \in Keys, echo \in MaybeBlob, expired \in BOOLEAN :
              Intercept(t, k, echo, expired)
        \/ SilentResponse(t)
        \/ \E b \in Blobs, deleted \in BOOLEAN, swept \in Sweeps :
              StateResponse(t, b, deleted, swept)

Background ==
    \/ \E j \in Tasks :
          \/ \E k \in Keys : StartProbe(j, k) \/ StartHandProbe(j, k)
          \/ \E b \in Blobs : StartManualPool(j, b)
    \/ \E j \in Jobs, saved \in BOOLEAN, swept \in Sweeps :
          \/ \E b \in Blobs :
                RetryAnswered(j, b, saved, swept) \/ ProbeAnswered(j, b, saved, swept)
          \/ ManualPool(j, saved, swept)
    \/ \E j \in Jobs : GiveUp(j)

Management ==
    \E a \in Auths :
        \/ \E r \in MaybeRule : SaveRule(a, r)
        \/ Unlist(a)
        \/ CleanupStore(a)
        \/ CleanupMemory(a)

Lifecycle == QuiesceBegin \/ QuiesceEnd \/ Configure \/ Crash

Next == LiveTurn \/ Background \/ Management \/ Lifecycle

Spec == Init /\ [][Next]_vars
-----------------------------------------------------------------------------
(* Properties.                                                              *)

\* While the store is held, what memory injects is what a restart would load:
\* a failed write, a retirement, a quiesce or a crash leaves no state in one
\* copy only.  A credential whose cleanup is half done, or that a mint raced
\* during one, may keep a disk entry memory has dropped, never the reverse.
PoolMatchesStore ==
    StoreOpen =>
        /\ \A k \in Keys : k[1] \in listed => pool[k] = disk[k]
        /\ \A k \in Keys : k[1] \notin cleaning => pool[k] \in {NoBlob, disk[k]}

\* The rules in force are the rules saved, under the same exception.
RulesMatchStore ==
    StoreOpen =>
        /\ \A a \in listed : rules[a] = savedRules[a]
        /\ \A a \in Auths \ cleaning : rules[a] \in {NoRule, savedRules[a]}

\* No state is pooled, remembered or injected for a credential or a model
\* other than the one whose turn chain it is of.
OwnChainOnly ==
    /\ \A k \in Keys : pool[k] \in Blobs => Owner[pool[k]] = k
    /\ \A k \in Keys : disk[k] \in Blobs => Owner[disk[k]] = k
    /\ \A b \in Blobs : prov[b] \in {NoKey, Owner[b]}
    /\ \A t \in Turns : turns[t] # NoTurn /\ turns[t].set \in Blobs =>
            Owner[turns[t].set] = turns[t].key

\* Once the store is given up no retry and no scheduled probe is running, so
\* none of them can still reach for it.
NoTrackedWorkWhenClosed == ~StoreOpen => \A j \in Jobs : ~Tracked(j)

\* What a step may do to a slot that is held and stays held.
StepsForward(k) ==
    StoreOpen /\ pool[k] # NoBlob /\ pool'[k] # NoBlob =>
        \/ IssuedAt[pool[k]] <= IssuedAt[pool'[k]]
        \/ \E j \in Tasks : jobs[j].kind = "manual" /\ jobs[j].key = k
                           /\ jobs[j].blob = pool'[k] /\ jobs'[j] = IdleJob

\* Responses finish out of order, the pool does not step back: while a slot
\* stays held, only an operator's own choice replaces a state by an older one.
NeverStepsBack == [][\A k \in Keys : StepsForward(k)]_vars

\* A pooled state leaves an unreplaced slot only on evidence about that very
\* state -- the answer to a turn it went out on -- or with its credential's
\* cleanup or a restart.
RetiredOnEvidence ==
    [][\A k \in Keys :
        pool[k] # NoBlob /\ pool'[k] = NoBlob =>
            \/ \E t \in Turns : /\ turns[t] # NoTurn /\ turns'[t] = NoTurn
                                /\ turns[t].key = k /\ turns[t].set = pool[k]
            \/ k[1] \in cleaning
            \/ life' # life]_vars

\* A slot takes a state only from a background fetch for that very slot or at an
\* operator's hand, never from a live turn, whatever the rule became while the
\* turn was out; and the hand only in a pool that is not frozen by then, whatever
\* it looked like when the operator chose the state.
PooledByRight ==
    [][\A k \in Keys :
        pool'[k] \notin {pool[k], NoBlob} =>
            \/ \E j \in Jobs :
                  /\ jobs[j].key = k /\ jobs'[j] = IdleJob
                  /\ jobs[j].kind = "manual" =>
                        Maintains(k[1]) /\ pool'[k] = jobs[j].blob
            \/ life # life']_vars

\* A client's echo of its own chain's state is never taken off its request,
\* however the provenance index was refilled, swept or rebuilt; only an
\* operator's own removal clears it.
OwnEchoIsNeverStripped ==
    [][\A t \in Turns, b \in Blobs, expired \in BOOLEAN :
        Intercept(t, Owner[b], b, expired)
            /\ HeaderPin(Owner[b][1]) # "remove" => ~turns'[t].clear]_vars

\* Documented (README.md:424, docs/architecture.md:102): a frozen pool takes
\* no state in, and the probe and the retry stand down with it.
FrozenPoolTakesNothing ==
    [][\A k \in Keys :
        ~Maintains(k[1]) /\ life = life' => pool'[k] \in {pool[k], NoBlob}]_vars
=============================================================================
