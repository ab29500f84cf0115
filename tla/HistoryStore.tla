---------------------------- MODULE HistoryStore ----------------------------
(***************************************************************************)
(* The history of one credential on its way to disk: the bounded queue and *)
(* the batching goroutine in front of it (store.go), the two bounded       *)
(* families of rows and the payloads kept apart from them                  *)
(* (store_bbolt.go), and what clears them (management.go).  Every bbolt    *)
(* transaction is one step; so is every channel operation.                 *)
(***************************************************************************)
EXTENDS Naturals, FiniteSets, SequencesExt

CONSTANTS
    Records,      \* history records, each with a payload
    Family,       \* "request" or "probe", by the record's Origin
    Tracked,      \* records handed over under state.mu or inside retryWG; the
                  \* others (test requests, probes by hand) read the writer,
                  \* let the lock go and use it later
    QueueCap,     \* 256 in the code
    BatchSize,    \* 32 in the code
    Limit         \* rows kept per family: historyLimit, probeHistoryLimit

Families == {"request", "probe"}

ASSUME RecordsAssumption == Tracked \subseteq Records /\ Family \in [Records -> Families]
ASSUME SizesAssumption ==
    /\ QueueCap \in Nat \ {0} /\ BatchSize \in Nat \ {0}
    /\ Limit \in [Families -> Nat \ {0}]

VARIABLES
    phase,      \* of the writer: "open"; "released" (state.writer is nil and the
                \* stop channel closed); "draining" (the stop was seen);
                \* "last" (its final flush); "closed"
    at,         \* the recorders: "held" has read the writer but not used it
    queue,      \* the channel
    batch,      \* run's batch; while flushing, what is left of it
    flushing,
    rows,       \* the history and probe_history buckets, oldest first
    bodies      \* the history_bodies bucket

vars == <<phase, at, queue, batch, flushing, rows, bodies>>

TypeOK ==
    /\ phase \in {"open", "released", "draining", "last", "closed"}
    /\ at \in [Records -> {"new", "held", "given", "gone"}]
    /\ queue \in Seq(Records) /\ Len(queue) <= QueueCap
    /\ batch \in Seq(Records)
    /\ flushing \in BOOLEAN
    /\ rows \in [Families -> Seq(Records)]
    /\ bodies \subseteq Records

Init ==
    /\ phase = "open"
    /\ at = [r \in Records |-> "new"]
    /\ queue = <<>> /\ batch = <<>> /\ flushing = FALSE
    /\ rows = [f \in Families |-> <<>>]
    /\ bodies = {}

-----------------------------------------------------------------------------
(* One transaction of appendRecord.                                         *)

Newest(s, n) == IF Len(s) <= n THEN s ELSE SubSeq(s, Len(s) - n + 1, Len(s))

\* Mutant of Store: the row just put is not counted.
Store_CountsBefore(f, r) ==
    LET kept == Append(Newest(rows[f], Limit[f]), r)
    IN  /\ rows' = [rows EXCEPT ![f] = kept]
        /\ bodies' = (bodies \cup {r}) \ (ToSet(rows[f]) \ ToSet(kept))

\* Mutant of Store: a row is evicted without its payload.
Store_KeepsBodies(f, r) ==
    /\ rows' = [rows EXCEPT ![f] = Newest(Append(@, r), Limit[f])]
    /\ bodies' = bodies \cup {r}

\* The row and its payload go in, what is over the limit goes out with its own.
Store(f, r) ==
    LET kept == Newest(Append(rows[f], r), Limit[f])
    IN  /\ rows' = [rows EXCEPT ![f] = kept]
        /\ bodies' = (bodies \cup {r}) \ (ToSet(rows[f]) \ ToSet(kept))

-----------------------------------------------------------------------------
(* The recorders.                                                           *)

\* An append, whose error nobody looks at: it fails on a store that is closed by
\* then and may on any other.
TryStore(f, r) ==
    \/ phase # "closed" /\ Store(f, r)
    \/ UNCHANGED <<rows, bodies>>

\* Mutant of Enqueue: the send blocks for no one.
Enqueue_Unbounded(r) == queue' = Append(queue, r) /\ UNCHANGED <<rows, bodies>>

\* Enqueue: a full queue is bypassed, whatever the record is, into the request
\* history.
Enqueue(r) ==
    IF Len(queue) < QueueCap
    THEN queue' = Append(queue, r) /\ UNCHANGED <<rows, bodies>>
    ELSE TryStore("request", r) /\ UNCHANGED queue

\* finalizeLocked, recordRetrySeries, recordProbe of a scheduled probe.
Record(r) ==
    /\ r \in Tracked
    /\ phase = "open"
    /\ at[r] = "new"
    /\ at' = [at EXCEPT ![r] = "given"]
    /\ Enqueue(r)
    /\ UNCHANGED <<phase, batch, flushing>>

\* recordTestAttempt, recordProbe of a probe by hand: first the look ...
TakeWriter(r) ==
    /\ r \notin Tracked
    /\ phase = "open"
    /\ at[r] = "new"
    /\ at' = [at EXCEPT ![r] = "held"]
    /\ UNCHANGED <<phase, queue, batch, flushing, rows, bodies>>

\* ... then the use.
UseWriter(r) ==
    /\ at[r] = "held"
    /\ at' = [at EXCEPT ![r] = "given"]
    /\ Enqueue(r)
    /\ UNCHANGED <<phase, batch, flushing>>

-----------------------------------------------------------------------------
(* The writer's goroutine.                                                  *)

Looping == phase \in {"open", "released"} /\ ~flushing

Receive ==
    /\ queue # <<>>
    /\ Looping \/ phase = "draining"
    /\ queue' = Tail(queue)
    /\ batch' = Append(batch, Head(queue))
    /\ flushing' = (phase # "draining" /\ Len(batch) + 1 >= BatchSize)
    /\ UNCHANGED <<phase, at, rows, bodies>>

\* Mutant of Tick: only a full batch is worth a flush.
Tick_Full ==
    /\ Looping
    /\ Len(batch) >= BatchSize
    /\ flushing' = TRUE
    /\ UNCHANGED <<phase, at, queue, batch, rows, bodies>>

Tick ==
    /\ Looping
    /\ batch # <<>>
    /\ flushing' = TRUE
    /\ UNCHANGED <<phase, at, queue, batch, rows, bodies>>

\* Mutant of FlushOne: the batch is not emptied as it is written.
FlushOne_Again ==
    /\ flushing
    /\ batch # <<>>
    /\ TryStore(Family[Head(batch)], Head(batch))
    /\ flushing' = (Len(batch) > 1 \/ phase = "last")
    /\ UNCHANGED <<phase, at, queue, batch>>

\* One append of flush, into the family its Origin names; a record whose append
\* fails is gone with the batch.
FlushOne ==
    /\ flushing
    /\ batch # <<>>
    /\ TryStore(Family[Head(batch)], Head(batch))
    /\ batch' = Tail(batch)
    /\ flushing' = (Len(batch) > 1 \/ phase = "last")
    /\ UNCHANGED <<phase, at, queue>>

SeeStop ==
    /\ phase = "released"
    /\ ~flushing
    /\ phase' = "draining"
    /\ UNCHANGED <<at, queue, batch, flushing, rows, bodies>>

\* Mutant of DrainDone: what is still queued is left there.
DrainDone_AtOnce ==
    /\ phase = "draining"
    /\ phase' = "last"
    /\ flushing' = TRUE
    /\ UNCHANGED <<at, queue, batch, rows, bodies>>

DrainDone ==
    /\ phase = "draining"
    /\ queue = <<>>
    /\ phase' = "last"
    /\ flushing' = TRUE
    /\ UNCHANGED <<at, queue, batch, rows, bodies>>

\* The last sync, and Close past <-done: the store is given up.
CloseStore ==
    /\ phase = "last"
    /\ batch = <<>>
    /\ phase' = "closed"
    /\ flushing' = FALSE
    /\ UNCHANGED <<at, queue, batch, rows, bodies>>

-----------------------------------------------------------------------------
(* Quiesce, registration, and the operator's clears.                        *)

\* quiescePlugin past retryWG.Wait, and the first half of Close.
ReleaseWriter ==
    /\ phase = "open"
    /\ phase' = "released"
    /\ UNCHANGED <<at, queue, batch, flushing, rows, bodies>>

\* A registration makes a writer of its own; the old one's queue, and whoever
\* still holds it, come to nothing.
Reopen ==
    /\ phase = "closed"
    /\ phase' = "open"
    /\ queue' = <<>>
    /\ at' = [r \in Records |-> IF at[r] = "held" THEN "gone" ELSE at[r]]
    /\ UNCHANGED <<batch, flushing, rows, bodies>>

ClearProbeHistory ==
    /\ phase # "closed"
    /\ rows' = [rows EXCEPT !["probe"] = <<>>]
    /\ UNCHANGED <<phase, at, queue, batch, flushing, bodies>>

ClearHistory ==
    /\ phase # "closed"
    /\ rows' = [f \in Families |-> <<>>]
    /\ bodies' = {}
    /\ UNCHANGED <<phase, at, queue, batch, flushing>>

\* cleanupOrphans, as far as it reaches the history.
DeleteCredentialData ==
    /\ phase # "closed"
    /\ rows' = [rows EXCEPT !["request"] = <<>>]
    /\ UNCHANGED <<phase, at, queue, batch, flushing, bodies>>

Writer == Receive \/ Tick \/ FlushOne \/ SeeStop \/ DrainDone \/ CloseStore

Next ==
    \/ \E r \in Records : Record(r) \/ TakeWriter(r) \/ UseWriter(r)
    \/ Writer
    \/ ReleaseWriter \/ Reopen
    \/ ClearProbeHistory \/ ClearHistory \/ DeleteCredentialData

Spec == Init /\ [][Next]_vars

\* The goroutine runs, its ticker ticks, and select does not pass over the stop
\* for ever.
FairSpec == Spec /\ WF_vars(Writer)

-----------------------------------------------------------------------------
(* Properties.                                                              *)

\* Neither family outgrows its limit, by the queue or around it.
HistoryBounded == \A f \in Families : Len(rows[f]) <= Limit[f]

\* A record is written once: nowhere on its way, whichever way it took, are
\* there two of it.
EachRecordOnce == IsInjective(queue \o batch \o rows["request"] \o rows["probe"])

\* When the store closes nothing that was handed over while the writer could not
\* be let go of is still on its way: each such record has had its one append.
ClosesWithEverything ==
    phase = "closed" => batch = <<>> /\ ToSet(queue) \cap Tracked = {}

\* A row pushed out by a newer one takes its payload along.
EvictionTakesTheBody ==
    [][\A f \in Families : \A r \in ToSet(rows[f]) \ ToSet(rows'[f]) :
        ToSet(rows'[f]) \subseteq ToSet(rows[f]) \/ r \notin bodies']_vars

\* A record that was handed over does not stay in memory for good, on a quiet
\* plugin either: its append is tried.
RecordsLeaveMemory ==
    \A r \in Tracked : r \in ToSet(queue \o batch) ~> r \notin ToSet(queue \o batch)

\* Documented (store_bbolt.go:281): the body outlives nothing; it goes when the
\* record it explains goes.
BodyOutlivesNothing == bodies \subseteq ToSet(rows["request"] \o rows["probe"])
=============================================================================
