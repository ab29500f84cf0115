# codex-header-rewrite, specified in TLA+

The plugin rewrites the headers of Codex requests that pass through a proxy host
and keeps, per credential and model, a pool of turn states (the
`X-Codex-Turn-State` header) which it sends out in place of what the client sent.
It judges answers, withholds degraded ones, refills the pool by retries and by a
timed probe, keeps session cookies, and writes a history. It is a shared object
loaded into the host: the host calls it from many goroutines, and unloads and
reloads it while requests are in flight.

Source paths below are relative to the repository. Run a check from this directory with
`tlc -config <cfg> <MC module>`, a proof with `tlapm <module>_proofs.tla`.

## Inventory

| Component | Code | State it keeps | Operations | Talks to |
|---|---|---|---|---|
| State pool | `turnstate.go`, `state.go`, `degraded.go`, `manualpool.go` | `turnStateLatest` (per credential and model), `turnStates` (provenance of remembered states), the `turn_states` bucket | mint (recorded only, automatic, manual), retire, sweep, inject, reload | everything below, under `state.mu` |
| Rules | `headers.go`, `model.go`, `state.go` | `rules` and the `rules` bucket | validate, save, delete, load | pool, scheduler, auth file |
| Live turn | `state.go` | `pending`, one attempt per request | intercept, header of a stream, chunk, whole response, complete | pool, retry, jar, history |
| Retry after a degraded turn | `degraded_retry.go` | `retryInFlight` (4 slots), `retryWG`, `retryStop`, one `done` channel per series | schedule, ask, pool, record; hold the client meanwhile | pool, live turn, history |
| Probe scheduler | `probe.go` | `probeSchedule.nextDue`, `.rescan` | scan each second, run a task, plan the next, void a plan | pool, rules, lifecycle |
| Probe request, jars | `probe.go`, `turnstate.go` | the `sessions` bucket: one record per credential and egress with cookie, liveness clock and allowance | present a cookie, check the state by a second request, remember the session | pool, cookie pool, live traffic |
| Cookie pool | `cookiepool.go` | the `cookie_pool` bucket: one entry per credential and backend | note, cool, draw, add by hand, use by hand | probe, live turn, panel |
| History | `store.go`, `store_bbolt.go` | a queue of 256, a batch of 32, the buckets of request rows, probe rows and payloads | enqueue, batch, flush, drain, evict, clear | all that record |
| Lifecycle | `state.go`, `plugin.go` | `store`, `writer`, `quiescing` | configure, quiesce, shutdown | all |
| Management API | `management.go` | none of its own | save rules, pool by hand, clean up, clear, list | all |
| Cookie forwarding | `cookieforward.go` | an entry in the host's auth file | read, edit, read again, save; put back | rules, host |
| Model observer | `upstream_model.go` | per response: the model declared first, the terminal one, a conflict, the residual of the stream | observe a chunk, a whole body, flush | live turn, probe |
| Body masking, thinking level | `bodymask.go`, `thinking.go` | none | pure | history |
| Quota | `quota.go` | the allowance in the jar record | read, refresh | jar |
| Test request | `testrequest.go` | none | one request from the panel | history |
| Transport, ABI | `retry_proxy.go`, `abi.go`, `host.go`, `wire.go` | none | I/O | all |

What is hard: one mutex is released around every host call and upstream request,
so whatever was read before may be stale after; a hot reload closes the store under
requests, series and probes that go on; memory and bbolt hold two copies of pool and
rules; answers come out of order; the client is held on a channel that a timer, a
series and a reload may all release; one map value says both "running" and "not
yet due". `PROJECT.json` lists each such place as a hazard with its line and the
properties that watch it.

## Modules

An action is one critical section (of `state.mu`, of `probeSchedule`, of one bbolt
transaction, or one channel operation). What the code does between two of them, a
host call or a wait, is where other actions interleave. The definition-to-line map
is in `PROJECT.json`.

| Module | Models | Extended by |
|---|---|---|
| `TurnStatePool` | the pool: live turns, retries, probes, manual pool, rules, orphan cleanup, quiesce, configure, crash | `MC_TurnStatePool`, `TurnStatePool_proofs` |
| `DegradedTurn` | a withheld turn: what its client gets, the wait, the series, slots and wait group, quiesce and registration | `MC_DegradedTurn`, `DegradedTurn_proofs` |
| `ResponseGate` | what the interception promises a client; abstract | instantiated by `DegradedTurn` |
| `ProbeScheduler` | due times, the running marker, rescan, tasks, what voids a plan, what changes a rule and does not | `MC_ProbeScheduler`, `ProbeScheduler_proofs` |
| `ProbeWindow` | the window a probe may run in and its next opening | `ProbeScheduler_proofs` |
| `HistoryStore` | queue, batch, writer goroutine, rows, payloads, clearing, close and reopen | `MC_HistoryStore`, `HistoryStore_proofs` |
| `SessionJar` | jars, liveness clock, cookie pool, probe cookie modes, panel actions | `MC_SessionJar`, `SessionJar_proofs` |
| `CookieForward` | the Cookie entry of the auth file between management calls, the host and the operator | `MC_CookieForward`, `CookieForward_proofs` |
| `StreamText` | the text of a response stream and what is found in it by line, marker and bracket | `ModelObserver`, `BodyMask` |
| `ModelObserver` | which model a stream declares, read chunk by chunk | `ResponseReader` |
| `BodyMask` | what is stored of a body | `ResponseReader` |
| `CookieCrumbs` | Set-Cookie headers applied to a session, one cookie laid over another | `ResponseReader` |
| `ResponseReader` | composes the four: one request from interception to its row | `MC_ResponseReader`, `ResponseReader_proofs`, `ResponseArrivals_proofs` |

### TurnStatePool

`pool` is `state.turnStateLatest`, `disk` its bucket, `prov` the provenance index,
`turns` the pending attempts reduced to the header they carry, `jobs` the retries,
probes and operator actions whose request is out, `life` the phase of the plugin.
A state is a model value with the chain it belongs to (`Owner`) and the time in
its envelope (`IssuedAt`); its text, length and digest are not modelled. The length
rule is paused in the code (`judgePaused`), so a state with no verdict is eligible.
`saved` and `deleted` are the outcomes of a bbolt write, which may fail. The time
to live of a state plays no part in injection or retirement and is left out; the
provenance index forgets at a sweep, and what a sweep drops is a choice of the run
(`Sweeps`).

`Mint` does the whole of `mintTurnStateLocked`: provenance, the slot's rule for
who may take it, the disk write and what follows its failure, the sweep.
`CleanupStore` and `CleanupMemory` are the two halves of one credential's orphan cleanup,
which releases the lock between them; `cleaning` remembers which are half done.

### DegradedTurn and ResponseGate

`pending` follows a turn from interception to completion, `client` is what its
client was last given, `wait` the stages of `waitForDegradedRetry`, `series` the
stages of the goroutine with the deferred calls in their order (slot, wait group,
`done`). `slots` and `group` are the counters as the code moves them, so that
`SlotsAccounted` compares them with the series they stand for.
`ResponseGate` says: a response is passed or withheld; a withheld one gives the
client a marker and one error and nothing else. `ImplementsGate` maps `given` to
`client` and `watched` to the requests that are pending.

### ProbeScheduler and ProbeWindow

`due` is `nextDue` reduced to what is asked of it: nothing (look now), `later`
with the version of the rule it was planned under, `running`, or `stale` (a
marker older than `probeTaskMaxAge`). `task` is one goroutine per member of
`Workers`. `Calls` is how many model calls fit in the marker's age: ten minutes
at 90 seconds each is six. The liveness, window and freshness tests decide what
`Plan` may choose and are a choice here; the length of the interval is not modelled.
What the window test and the next opening compute is `ProbeWindow`, on instants of
day, minute and second.

A rule is a version (`ver`), the version the operator last saved or deleted (`since`),
and whether its probe is active. `SaveRule` moves both versions and reschedules. Two
other actions change what is in force and void nothing, as in the code: `CleanupOrphan`
takes a rule out of memory (management.go:642), and `Configure` may find other rules in
the store it opens, when `data_path` names another one (state.go:49 and 86), while
`probeSchedule` is a global that outlives the registration. `SavesVoidPlans` therefore
compares a plan with `since`, not with `ver`.

### HistoryStore

`phase` is the life of the writer from open over released (the stop channel
closed), draining and the last flush to closed. A flush writes record by record.
Records outside `Tracked` come from test requests and probes by hand, which read
the writer under the lock and use it after; those the drain misses are lost, and
`ClosesWithEverything` speaks of the others. It speaks of the queue and the batch, not of
the disk: an append may fail (`TryStore`), the code drops its error and the record with
it. `RecordsLeaveMemory` likewise says that the append is tried.

### SessionJar

One credential. A cookie is a number with the backend its `__oailb` crumb names
and the way it came back. `applySetCookies` keeps it, clears it or brings a
new one (crumb by crumb it is `CookieCrumbs`). The live path writes the jar in one
step; `rememberSession` and `useCookieForCredential` take two, with their copy of
the record in `probe` and `hand`. `slot` is the session stored with the pooled
state of one model. `passed` and `byHand` are history variables for the evidence.

### CookieForward

The auth file is its Cookie entry (none, the plugin's reference, or something of
the operator's) and its refresh token; the other fields are carried over by the
edit. A call of `saveRule` or `deleteRule` reads the previous rule under the lock,
and when forwarding has to change reads the file, edits its copy, reads the file
again, starts over if it changed (`Tries`, three in the code), and saves; each is a
host call without the lock. Then it stores the rule under the lock, and a save whose
write fails puts the entry back by the same steps with the lock held (`lock`).
`checked` is a history field, the file as the second read returned it. `drifted` is
a history variable: something happened that the code does not make good, a
deletion whose write failed, a store that was closed in between, calls that
overlapped, a crash between edit and write, an entry of the plugin's edited by hand.

### ResponseReader and what it composes

A stream is a sequence of tokens: the `event:` text of an event, the `data:` marker,
the two ends of its JSON payload and pieces between them, a line end, `[DONE]`. The
host may hand it over in any pieces its framing allows (`stream.next`), and the
framings are those the code's comments speak of: framed as it should be, data lines
only, a payload split over two data lines, no line ends at all, separators stripped,
data lines packed into one frame, bare payloads. `ModelObserver` translates the scanner
entry by entry (callback, stream, frame, tail, body, flush), `BodyMask` the masking of
the kept body, both found by brackets where lines fail. A loop of the code is a
recursive function over the positions of what it walks, one definition naming the
step (`SalvageNext`, `ObserveNext`, `MaskNext`); a turn that finds nothing more changes
nothing, so the function at the length is where the loop ends. `ResponseReader` runs one
exchange: `Intercept` lays the pool's cookie over the client's, `Headers` applies
the Set-Cookie headers to what was sent, `Chunk` feeds observer and buffer, `Finalize`
makes the row, at the end of the response or before it.

`ExchangesAssumption` types what arrives, `StreamsAssumption` says what a stream is: a
payload is written to its end before the next one begins, a payload on one line is all
there, where a stream has event lines each stands before its payload, and a `[DONE]`
mark stands behind a marker. TLC evaluates both on every stream of the run.

Its properties are stated without a scanner: `ReadsWhatArrived` compares the observer
with the events whose payload has arrived whole, `StoredAsPromised` decides token by
token what may be in the row (of a payload the buffer cut off the start may be, as the
source's README.md:274 has it), `SessionFollowsResponse` and `InjectionCoversClient`
go name by name.

## Runs

All bounds are constants of a `.cfg` or definitions of the MC module. Each was
chosen so that the mutants listed in `PROJECT.json`, plausible errors in the
code, are caught.

| Run | Question | Bounds |
|---|---|---|
| `pool` | agreement of memory and disk, own chains, order, evidence, who may fill a slot, the echo guard, quiesce | 1 credential that the host may stop listing, 2 models, 2 states of one chain and different age, 1 turn, 1 retry slot, 1 task; rules that retry, probe with the header set, remove the header, and are frozen; a sweep drops nothing or all it may |
| `turn` | slots, order of error and series, refinement of the gate; a reload frees clients and ends; no client hangs | 2 requests, 1 slot, 2 attempts |
| `probe` | exclusion, no plan outlives a save, truth of the marker | 2 credentials, 2 workers, 2 models, 2 changes of each rule, 2 calls |
| `probe_live` | no probe is silenced | 1 credential, 2 workers, 2 models, 2 changes of the rule, 1 call, so that markers age |
| `history` | bounds, no double write, drain, eviction, appends tried on a quiet plugin; any append may fail | 4 records, queue of 1, batch of 2, 2 request rows, 1 probe row |
| `session` | evidence of pooled cookies, egress of jars, the liveness clock | 2 live requests, 1 probe of 6 setups, 2 backends, 1 issued cookie; requests and backends interchangeable |
| `forward` | agreement of switch and auth file, refresh tokens, the operator's entry, every call ends | 2 calls, 2 tries, 1 refresh, 1 edit by hand, a store that fails and closes, a crash |
| `response` | the model read, the body stored, the session kept, the cookie injected | streams of up to 3 of 7 events in 7 framings under every cut; 5 client cookies, 3 pooled, up to 3 of 7 Set-Cookie headers; residual of 8 tokens, buffer of 20 |

Two requests are enough for one slot to be refused and for two series to share the
wait group. Two states of one chain are enough for a late and an early one. A
second credential shares only the scan with the first and the store of history rows
not at all; a second model is needed so that a state can be wrongly looked up. One
edit by hand and one refresh are enough to fall into each gap of a call, and a second
try is enough to notice it. The `response` bounds let a frame be larger than the
residual and a body be cut by the buffer; it ends when its exchange does, so it
does not check for deadlock. Exchanges that vary the stream have no cookies and
those that vary the cookies no stream: the handlers treat them apart.

### Fairness

`PromptSpec` (`turn`) assumes the plugin's own goroutines run: a closed channel is
noticed, a series takes its next step, a cancelled request returns and the
quiesce goes on after the wait group empties. It assumes nothing of the
upstream or of the client's timer; `HeldClientsAnswered` alone has the 25 second
timer as its premise, `TimerFires`. `FairSpec` of `ProbeScheduler` assumes the
one-second ticker, the per-call timeout of 90 seconds (every task step is eventually
taken) and the passing of time; `FairSpec` of `HistoryStore` the writer goroutine and
its half-second ticker. `FairSpec` of `CookieForward` assumes a management call runs
on, its host calls return, and strong fairness for taking `state.mu`, since a Go mutex
hands itself over to a goroutine that has waited for more than a millisecond.

## What the code does that its text denies

Each of these is a run that must fail, with TLC's trace as the evidence.

| Run | Text | Code |
|---|---|---|
| `pool_frozen` | a frozen pool takes nothing in (README.md:424, docs/architecture.md:102) | an answer out at the time is pooled by retry and probe |
| `history_bodies` | a body goes with its record (store_bbolt.go:281) | not on clearing probe rows or deleting a credential |
| `session_forward` | a proxied probe never touches the direct jar (probe.go:575) | its cookie gets there with a pooled state, by cookie injection |
| `session_clock` | a probe never touches the liveness clock (probe.go:577) | its unlocked write-back undoes a live answer |

Others were met on the way; no run states them. The properties they touch except
them by name, and the hazards in `PROJECT.json` give the lines:

- one header is set and cleared in one answer when the operator pins the state header
  and the client echoes a foreign state (state.go:263, against state.go:302);
- a state retired between quiesce and registration leaves memory only and returns
  (turnstate.go:701, against README.md:473);
- a series is recorded after its request when the client times out or hangs up
  (degraded_retry.go:128, against store.go:15);
- chunks of a stream that got its error pass again after a reload (state.go:146,
  against state.go:548); `ImplementsGate` allows it only for requests a reload forgot;
- a clean-up removes a rule, and a registration with another `data_path` brings other
  rules, and neither voids what was planned under the rule before (management.go:642 and
  state.go:86, against probe.go:101, "rescheduleProbe is called whenever a credential's
  rule is saved or removed"): the planned time of a credential so changed, up to an
  interval away, is kept; `SavesVoidPlans` speaks of saves and deletions only, and
  `CleanupOrphan` and `Configure` are what it excepts;
- the probe interval runs from before the first request of a task (probe.go:213,
  against probe.go:181);
- a task that outlives its marker is joined by a second one, and the second to end
  writes its plan over the rescan (probe.go:76 and 90, against probe.go:31 and 102);
- a probe record that finds the queue full lands in the request rows (store.go:176,
  against store.go:164);
- the liveness clock is the request answered last, not the latest one (probe.go:720,
  against README.md:168);
- switch and auth file stay apart after a deletion whose write fails, a call that finds
  the store closed after its edit, or two calls that overlap (state.go:192, against
  state.go:177); `SwitchAgrees` excepts them as `drifted`;
- a cookie that a response clears and then issues, and that the request did not carry,
  is lost (turnstate.go:386, against turnstate.go:387); `Reissued` in
  `SessionFollowsResponse`;
- when data lines are packed into one frame and the cut truncates the last of them, an
  earlier line that parses has the whole frame consumed and the truncated event is lost
  (upstream_model.go:424); the `packed` framing is checked a frame at a time;
- a kept payload split over data lines, or several documents with no marker, are stored
  unmasked (bodymask.go:43 and 204); `OneLined` in `StoredAsPromised`;
- two spellings of one header name pass `validateRule`, and either value may be the one
  kept (headers.go:41).

## Proofs

| Module | Theorems | Argument |
|---|---|---|
| `TurnStatePool_proofs` | all nine properties of `pool`: `TypeCorrect`, `CopiesAgree`, `RulesAgree`, `OwnChains`, `QuiesceDrains`, `PoolGoesForward`, `FilledByRight`, `EmptiedOnEvidence`, `OwnEchoesPass` | types and the quiesce are inductive as they stand; the two agreements together with `CleanupSparesListed`: without it a listed credential could be in the middle of a cleanup; the chains together with `ManualJobsOwn`: the operator's job holds a state of the chain it is for; the action properties follow from these and `ManualJobsAreTasks`, one step per action |
| `DegradedTurn_proofs` | `TurnTypes`, `SlotsBalance`, `ErrorsWait`, `GateImplemented` | `CountInv` states the counters as cardinalities of the series at a stage, and every action moves at most one series; `TurnInv` adds what a client may have been given at each stage of `pending` and `wait`, and from it every step maps to a step or a stutter of `ResponseGate` |
| `ProbeScheduler_proofs` | `ScheduleTypes`, `TasksExclude`, `PlansFollowSaves`, `MarkersAreTasks`; `NextOpenIsTheNext` of `ProbeWindow` | `ScheduleInv`, see below; for the window, cases on which side of the opening the instant lies |
| `HistoryStore_proofs` | `HistoryTypes`, `FamiliesBounded`, `WrittenOnce`, `NothingLeftBehind`, `EvictedWithItsBody`, `RowsCanBeOpened`, `OrphansByClearingOnly` | `OnceInv` keeps queue, batch and rows each free of repetition and apart from each other and from records still to come; `DrainInv` says what the drain has left at each phase of the writer; a transaction of `Store` takes from the payloads exactly what it takes from the rows, since no record is in two families |
| `SessionJar_proofs` | `SessionTypes`, `PoolHasEvidence`, `ClockIsTrue`, `JarsKeepApart` | copies of the jar record are state too: `ClockInv` says of the jar and of every copy of it that the clock in it is the start of an answered request; `EgressInv` says of every cookie at rest or on its way by which egress it came |
| `CookieForward_proofs` | `ForwardTypes`, `SwitchFollowsFile`, `TokensGoForward`, `OperatorKeepsEntry` | what a call may assume of the file at each stage, as long as nothing drifted: alone it has made the file what it wants, or it is about to put it back |
| `ResponseReader_proofs` | `TypeCorrect`, `InjectionCorrect`, `SessionCorrect`, `StoredCorrect`, `ReadingCorrect`, `VerdictCorrect` | invariants of the handlers' loops, see below |
| `ResponseArrivals_proofs` | `ArrivalsCorrect`, `HandedCorrect`, `RowCorrect` | `Placing`: where in its frames the reader of a stream can stand; `Handing`: between two events it holds nothing; see below |

The theorems hold for any number of credentials, models, states, rules, turns, requests,
slots, attempts, records, calls and retries, from the assumptions named in the modules:
null values are none of what they stand in for, limits are positive, sets that are
counted are finite.

Some have a condition of their own. The scheduler's theorems assume at least one
credential, the last three also `Models <= Calls`, that a task is never longer than its marker's age.
With `Models = 2` and `Calls = 1` TLC violates both `OneTaskPerCredential` and
`SavesVoidPlans`, so the assumption is the one the code needs (six probe models at
the full timeout). `ScheduleInv` says together that no marker is stale, that a credential
has a marker exactly while it has a task and never a second task, that a task that read
its rule before the last save has its rescan mark set, that later times were planned under
nothing older than the last save, and that the rule in force is no older either. The
rescan mark is what carries `SavesVoidPlans` over the end of a task. `JarsKeepApart` assumes `~ForwardCookie`: with cookie injection the run
`session_forward` refutes it. `NextOpenIsTheNext` is about an instant outside its window,
which is when the code asks.

The state of `ResponseReader` changes little in a step; what a step computes is the matter,
and it is computed by loops. `LoopExists` says once that a loop written as a function is
one (it exists and has its type), by the least number at which it would not; every other
lemma about a loop is an invariant of it, with the loop's length for the index:

- types: no step of a scanner leaves the sequences over `Tokens`, the residual fits
  because `Buffered` drops what does not, and a model in the observer is one that an event
  declares, because only `ObservePayload` of a payload that is there whole reaches
  `Observe`;
- cookies: `Assigned` and `Adjusted` say what a jar is after the first i crumbs or
  headers, `WrittenUpTo` what is written of its first i names; `MergeIs` and `ApplyIs` are
  the two handlers, and `CookiesAre` the invariant that carries them to the properties.
  The case `Reissued` is where `Adjusted` cannot place a name;
- the stored body: `Masked` is the invariant of `maskSSEBody`: what is written is what is
  to be stored of the tokens copied, what lies between the copy and the scan is stored as
  it is, and no payload still to be found begins before the scan. It needs `ValueHere` (a
  marker is followed by a whole payload, the mark or nothing) and `LastEventIs` (the event
  line behind the copy is the payload's own). `BufferIs` says that the buffer is the
  beginning of the stream, which makes it `Readable`, and `MaskLoop` that the loop's
  length is enough for the scan to reach the end;
- what the observer has read: a `Chain` gives each place of the text a set of observers,
  growing along the text and closed under reading an event at the place where its payload
  ends. `PayloadRead`, `PartsRead`, `FrameRead`, `FramesRead` and `CallbackRead` carry any
  chain through the scanner, from a payload to a chunk: the lines, data lines and salvaged
  values of a piece of text stand one after another in it (`Spread`), and `Reading` says
  that the observer has come to some place and holds the text from there on. One chain,
  `Knowing`, gives `ReadsInOrder`; another, `Later`, gives `VerdictStands`.

`StoredCorrect` rests on `StreamsAssumption`; without "each payload is written to its end"
a bracket of the next one would close the one before, and a body that began with a `[DONE]`
mark of its own would be taken for a document (`Bracketed`). It holds for bodies whose payloads
are on their marker's line (`OneLined`), which is the exception the code itself makes.
`ReadingCorrect` and `VerdictCorrect` need nothing of the stream, whole payloads or not.
`ReadsInOrder` is the half of `ReadsWhatArrived` that says what the observer cannot have
read: its model and conflict are those of a list of declarations, each of an event whose
payload has ended, with all that this event declares, in order and none twice. The other
half, that it has read every event that has arrived, is `ArrivalsCorrect`, for streams
that have kept their separators (`Separated`): one frame after another, all with event
lines or all without, a payload to a data line, with the `[DONE]` mark at the end or
without, cut anywhere. The argument:

- `Knowers(s)[p]` are the observers that tell what the events declare that have ended by
  p, but for some of the oversize ones. `Counting` is all the later lemmas use of it: the
  set changes only where a payload ends, reading that event there leads from one set to
  the next, and at an oversize one it may be left out;
- a frame that is read whole, whatever blank lines stand before it, leads its reader
  across its payload and no further (`FrameReads`); text without a whole payload is read
  without effect (`QuietRead`);
- `Spot` says where the scanner can stand: before a frame, with no more than the
  separator's line ends before it, amid the payload of an oversize frame it has given up,
  or past the last. `NextSpot` carries it over one separator, `FramesTurned` over a whole
  chunk, `TailStands` over what no separator ends: a payload that is whole is salvaged at
  once, one that is not waits;
- `Standing` is the invariant: the residual is the text from a `Spot` to where the host
  has got, with no whole frame in it (`Settled`), and the observer is one of the `Knowers`
  of that `Spot`.
  `CallbackStands` shows that a chunk keeps it, `StandsKnows` that where it holds nothing
  whole is left unread, which makes the observer a `Knower` of the place the host has got to.
  `Placing` says that for the state, and `BodyKnows` for a response in one piece.

`ArrivalsCorrect` assumes `MaxResidual >= 4`. With less, an event line can be abandoned
apart from the payload below it, which is then read with a type of its own or none; with 3
tokens TLC refutes `ReadsWhatArrived`, with 4 it does not. The code's residual is 64 KiB
(upstream_model.go:19) and an event line some thirty bytes. Every `framed` and `data`
stream of the run `response`, 400 of each, is `Separated`.

`HandedCorrect` is the same for streams whose separators the host has stripped, handing
over an event at a time (`HandedOver`): event line and data line, or where there are no
event lines the data line or the payload by itself. Then nothing is lost, not even an
oversize event, and nothing is asked of the residual. `LineIs` makes a frame of the event's
lines by putting the separator back, so that the lemmas about frames apply to it;
`PieceIs` says that the callback reads such a piece as its event and keeps nothing, by the
way of `json.Valid` where there is no event line and by the scanner where there is one;
`Handing` is the invariant: the host has got to the end of an event, the residual is empty
and the observer tells what has been declared up to there. A single payload that is the
whole response is left out (`Document`): `observeBody` reads it as a document, in which a
declaration without a type counts as the final one. Every `stripped` stream of the run
`response` is `HandedOver`, and every `bare` one but the seven of one event.

`RowCorrect` joins the two at the end of the request: the row names what the events that
had arrived declare. Where no frame is oversize that does not depend on the cuts.

`OrphansByClearingOnly` bounds the finding `BodyOutlivesNothing`: of all the operations of
the store only the two clearings leave a payload behind, and by `RowsCanBeOpened` none
ever leaves a row without one.

Only model-checked: the liveness properties `QuiesceFinishes`, `HeldClientsAnswered`,
`ActiveRuleIsPlanned`, `RecordsLeaveMemory` and `EveryCallEnds` (fairness is beyond the
prover), and `ReadsWhatArrived` in three framings: `split`, where a payload is on several
data lines, `unframed`, where nothing but the brackets ends it, and `packed`, where
several payloads are in one frame. Each of them needs an account of its own of what one
frame holds.

## Not modelled

- The text of states, headers and bodies, and so the length rule, digests and the
  decoding of an envelope.
- Of the response: the reasoning effort (read beside the model and never compared), the
  cut of the stored body at its final size, the masking of request bodies (one document,
  no scanner), the walk through one document, the thinking level, strings in a payload
  that hold brackets or markers.
- Of the sessions: the allowance reading (a locked read-modify-write of one field of a
  record whose unlocked writers `SessionJar` has), cookie expiry, more than one
  credential.
- Of the rules: the checks of names and values, proxies and models; a rule here is what
  the pool and the auth file read of it.
- Of the history: paging and `UpdateHistory`.
- A registration with another `data_path` for the pool, the history, the sessions and the
  auth file, which then start from what that store holds; only the probe schedule,
  which survives it, is followed across one.
- A configure that arrives during a quiesce; an auth file that comes back.
- Network, proxies, ABI, the panel: I/O without a decision of the plugin's own.

## Plan

Modelled, checked and proved so far is what the tables above say. Left:

1. `RuleValidation`: what a saved rule can never be, whatever was sent, and the two
   spellings of one name.
2. A composition of pool, scheduler and live turn through one `state.mu`, with the
   registration that arrives during a quiesce.
3. The allowance field of the jar record beside the clock, and the refresh that fills it.
4. `ArrivalsCorrect` for frames of several data lines (`packed`, `split`).
