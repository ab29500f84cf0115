---------------------------- MODULE DegradedTurn ----------------------------
(***************************************************************************)
(* A live response that is judged degraded (state.go, degraded_retry.go):  *)
(* the plugin withholds it, starts a retry series on the credential that   *)
(* served it, and holds the client's error until the series is over, a     *)
(* timer fires or the plugin is quiesced.  The host's calls for one        *)
(* request come one after the other, except that a client that hangs up    *)
(* lets the host complete the request while a call is still waiting.       *)
(***************************************************************************)
EXTENDS Naturals, FiniteSets

CONSTANTS
    Requests,     \* requests of the host, each with an id of its own
    SlotLimit,    \* retryInFlightLimit
    Attempts      \* what retryAttemptCount allows one series

ASSUME LimitsAssumption == SlotLimit \in Nat \ {0} /\ Attempts \in Nat \ {0}

VARIABLES
    life,      \* "open", "stopping" or "closed", as in TurnStatePool
    stopped,   \* the retryStop of this registration has been closed
    host,      \* where the host is with the request
    pending,   \* state.pending: "absent", or what its attempt says so far
    wait,      \* the host call held in waitForDegradedRetry, if any
    series,    \* the retry series of the request: where it is, attempts used
    slots,     \* len(retryInFlight)
    group,     \* the series state.retryWG counts
    client     \* what the client was last given

vars == <<life, stopped, host, pending, wait, series, slots, group, client>>
pool == <<slots, group>>

\* Where a series is: "check" before a request, "ask" with one out, "gap"
\* between two, then on the way out through its deferred calls.
Stages == {"none", "check", "ask", "gap", "mint", "record", "slot", "group",
           "signal", "done"}

TypeOK ==
    /\ life \in {"open", "stopping", "closed"}
    /\ stopped \in BOOLEAN
    /\ host \in [Requests -> {"new", "sent", "streaming", "answered", "ended"}]
    /\ pending \in [Requests -> {"absent", "sent", "passing", "rejecting", "erred"}]
    /\ wait \in [Requests -> {"none", "entering", "armed", "deaf", "stopped"}]
    /\ series \in [Requests -> [at: Stages, used: 0 .. Attempts]]
    /\ slots \in 0 .. SlotLimit
    /\ group \in Nat
    /\ client \in [Requests -> {"nothing", "mark", "body", "error"}]

Init ==
    /\ life = "open"
    /\ stopped = FALSE
    /\ host = [r \in Requests |-> "new"]
    /\ pending = [r \in Requests |-> "absent"]
    /\ wait = [r \in Requests |-> "none"]
    /\ series = [r \in Requests |-> [at |-> "none", used |-> 0]]
    /\ slots = 0
    /\ group = 0
    /\ client = [r \in Requests |-> "nothing"]

-----------------------------------------------------------------------------
Give(r, frame) ==
    client' = IF host[r] = "ended" THEN client ELSE [client EXCEPT ![r] = frame]

HasSeries(r) == series[r].at # "none"
SeriesOver(r) == series[r].at = "done"

\* Mutant of ScheduleRetry: the group is joined before a slot is found.
ScheduleRetry_GroupFirst(r) ==
    IF life = "open"
    THEN /\ group' = group + 1
         /\ IF slots < SlotLimit
            THEN /\ slots' = slots + 1
                 /\ series' = [series EXCEPT ![r].at = "check"]
            ELSE UNCHANGED <<slots, series>>
    ELSE UNCHANGED <<slots, group, series>>

\* Mutant of ScheduleRetry: the limit is not looked at.
ScheduleRetry_NoLimit(r) ==
    IF life = "open"
    THEN /\ slots' = slots + 1
         /\ group' = group + 1
         /\ series' = [series EXCEPT ![r].at = "check"]
    ELSE UNCHANGED <<slots, group, series>>

\* scheduleDegradedRetry: without a store, a slot or a registration the
\* response goes out with no series behind it.
ScheduleRetry(r) ==
    IF life = "open" /\ slots < SlotLimit
    THEN /\ slots' = slots + 1
         /\ group' = group + 1
         /\ series' = [series EXCEPT ![r].at = "check"]
    ELSE UNCHANGED <<slots, group, series>>

-----------------------------------------------------------------------------
(* The host's calls.                                                        *)

\* interceptAfter.
Intercept(r) ==
    /\ host[r] = "new"
    /\ host' = [host EXCEPT ![r] = "sent"]
    /\ pending' = [pending EXCEPT ![r] = "sent"]
    /\ UNCHANGED <<life, stopped, wait, series, pool, client>>

\* noteTurnStateMintLocked2 as far as it decides the response's fate; retry
\* says whether the rule asks for one.
Judge(r, degraded, retry) ==
    /\ pending' = [pending EXCEPT ![r] = IF degraded THEN "rejecting" ELSE "passing"]
    /\ IF degraded /\ retry THEN ScheduleRetry(r) ELSE UNCHANGED <<series, pool>>

\* observeStreamHeaders for the header-init chunk.
StreamHeader(r, degraded, retry) ==
    /\ host[r] = "sent"
    /\ host' = [host EXCEPT ![r] = "streaming"]
    /\ IF pending[r] = "sent"
       THEN /\ Judge(r, degraded, retry)
            /\ IF degraded THEN Give(r, "mark") ELSE UNCHANGED client
       ELSE UNCHANGED <<pending, series, pool, client>>
    /\ UNCHANGED <<life, stopped, wait>>

\* Mutant of StreamChunk: the error goes out at once.
StreamChunk_NoWait(r) ==
    /\ host[r] = "streaming"
    /\ wait[r] = "none"
    /\ \/ /\ pending[r] \in {"absent", "passing"}
          /\ Give(r, "body") /\ UNCHANGED <<pending, wait>>
       \/ /\ pending[r] = "rejecting"
          /\ pending' = [pending EXCEPT ![r] = "erred"]
          /\ Give(r, "error") /\ UNCHANGED wait
       \/ pending[r] = "erred" /\ UNCHANGED <<pending, wait, client>>
    /\ UNCHANGED <<life, stopped, host, series, pool>>

\* Mutant of StreamChunk: only the first chunk is replaced.
StreamChunk_NoDrop(r) ==
    /\ host[r] = "streaming"
    /\ wait[r] = "none"
    /\ IF pending[r] = "rejecting"
       THEN /\ pending' = [pending EXCEPT ![r] = "erred"]
            /\ IF HasSeries(r)
               THEN wait' = [wait EXCEPT ![r] = "entering"] /\ UNCHANGED client
               ELSE Give(r, "error") /\ UNCHANGED wait
       ELSE Give(r, "body") /\ UNCHANGED <<pending, wait>>
    /\ UNCHANGED <<life, stopped, host, series, pool>>

\* observeStreamHeaders for a payload chunk: the first one of a withheld
\* stream becomes the error, the rest are dropped.
StreamChunk(r) ==
    /\ host[r] = "streaming"
    /\ wait[r] = "none"
    /\ \/ /\ pending[r] \in {"absent", "passing"}
          /\ Give(r, "body") /\ UNCHANGED <<pending, wait>>
       \/ /\ pending[r] = "rejecting"
          /\ pending' = [pending EXCEPT ![r] = "erred"]
          /\ IF HasSeries(r)
             THEN wait' = [wait EXCEPT ![r] = "entering"] /\ UNCHANGED client
             ELSE Give(r, "error") /\ UNCHANGED wait
       \/ pending[r] = "erred" /\ UNCHANGED <<pending, wait, client>>
    /\ UNCHANGED <<life, stopped, host, series, pool>>

\* observeResponse: a whole response is judged and replaced in one call.
WholeResponse(r, degraded, retry) ==
    /\ host[r] = "sent"
    /\ host' = [host EXCEPT ![r] = "answered"]
    /\ IF pending[r] = "sent"
       THEN /\ Judge(r, degraded, retry)
            /\ \/ ~degraded /\ Give(r, "body") /\ UNCHANGED wait
               \/ degraded /\ series'[r].at = "none" /\ Give(r, "error") /\ UNCHANGED wait
               \/ /\ degraded /\ series'[r].at # "none"
                  /\ wait' = [wait EXCEPT ![r] = "entering"] /\ UNCHANGED client
       ELSE Give(r, "body") /\ UNCHANGED <<pending, series, pool, wait>>
    /\ UNCHANGED <<life, stopped>>

\* waitForDegradedRetry reads retryStop in a critical section of its own: after
\* a quiesce began it is nil, and the call waits for the series or the timer.
EnterWait(r) ==
    /\ wait[r] = "entering"
    /\ wait' = [wait EXCEPT ![r] = IF life = "open" THEN "armed" ELSE "deaf"]
    /\ UNCHANGED <<life, stopped, host, pending, series, pool, client>>

Answer(r) ==
    /\ wait' = [wait EXCEPT ![r] = "none"]
    /\ Give(r, "error")
    /\ UNCHANGED <<life, stopped, host, pending, series, pool>>

WaitOver(r) ==
    /\ wait[r] \in {"armed", "deaf", "stopped"}
    /\ SeriesOver(r) \/ wait[r] = "stopped"
    /\ Answer(r)

\* Mutant of WaitTimedOut: only a call that found no retryStop has a timer.
WaitTimedOut_Deaf(r) == wait[r] = "deaf" /\ Answer(r)

\* retryWaitTimeout.
WaitTimedOut(r) == wait[r] \in {"armed", "deaf"} /\ Answer(r)

\* completeRequest, at the end of a response or when the client hung up.  What
\* becomes of the row it enqueues is HistoryStore's.
Complete(r) ==
    /\ host[r] \in {"sent", "streaming", "answered"}
    /\ host' = [host EXCEPT ![r] = "ended"]
    /\ pending' = [pending EXCEPT ![r] = "absent"]
    /\ UNCHANGED <<life, stopped, wait, series, pool, client>>

-----------------------------------------------------------------------------
(* The series: runDegradedRetry, one step per lock, channel or request.     *)

Move(r, from, to) == series[r].at = from /\ series' = [series EXCEPT ![r].at = to]

\* Out of the loop over the attempts, and of its counter.
Leave(r, from, to) ==
    series[r].at = from /\ series' = [series EXCEPT ![r] = [at |-> to, used |-> 0]]

\* A stop before an attempt ends the series without a row.
StartAttempt(r) ==
    /\ IF stopped
       THEN Leave(r, "check", "slot")
       ELSE /\ series[r].at = "check"
            /\ series' = [series EXCEPT ![r] = [at |-> "ask", used |-> @.used + 1]]
    /\ UNCHANGED <<life, stopped, host, pending, wait, pool, client>>

\* retryOnce returned: a state, nothing usable, or a reason to stop asking.
AttemptAnswered(r, outcome) ==
    /\ \/ stopped /\ Leave(r, "ask", "slot")
       \/ ~stopped /\ outcome = "state" /\ Leave(r, "ask", "mint")
       \/ ~stopped /\ outcome = "nothing" /\ series[r].used < Attempts /\ Move(r, "ask", "gap")
       \/ ~stopped /\ outcome = "nothing" /\ series[r].used = Attempts /\ Leave(r, "ask", "record")
       \/ ~stopped /\ outcome = "identity" /\ Leave(r, "ask", "record")
    /\ UNCHANGED <<life, stopped, host, pending, wait, pool, client>>

\* The pause between attempts, which a stop cuts short; when both are ready
\* the select takes either.
GapOver(r) ==
    /\ \/ Move(r, "gap", "check")
       \/ stopped /\ Leave(r, "gap", "slot")
    /\ UNCHANGED <<life, stopped, host, pending, wait, pool, client>>

\* The mint's critical section: a quiesce discards the result.
MintState(r) ==
    /\ Move(r, "mint", IF life = "open" THEN "record" ELSE "slot")
    /\ UNCHANGED <<life, stopped, host, pending, wait, pool, client>>

\* recordRetrySeries, whose row is HistoryStore's.
RecordSeries(r) ==
    /\ Move(r, "record", "slot")
    /\ UNCHANGED <<life, stopped, host, pending, wait, pool, client>>

\* The deferred calls, in the order they run.
FreeSlot(r) ==
    /\ Move(r, "slot", "group")
    /\ slots' = slots - 1
    /\ UNCHANGED <<life, stopped, host, pending, wait, group, client>>

LeaveGroup(r) ==
    /\ Move(r, "group", "signal")
    /\ group' = group - 1
    /\ UNCHANGED <<life, stopped, host, pending, wait, slots, client>>

CloseDone(r) ==
    /\ Move(r, "signal", "done")
    /\ UNCHANGED <<life, stopped, host, pending, wait, pool, client>>

-----------------------------------------------------------------------------
(* Quiesce and registration.                                                *)

\* Mutant of QuiesceBegin: retryStop is dropped without being closed.
QuiesceBegin_NoClose ==
    /\ life = "open"
    /\ life' = "stopping"
    /\ UNCHANGED <<stopped, host, pending, wait, series, pool, client>>

QuiesceBegin ==
    /\ life = "open"
    /\ life' = "stopping"
    /\ stopped' = TRUE
    /\ wait' = [r \in Requests |-> IF wait[r] = "armed" THEN "stopped" ELSE wait[r]]
    /\ UNCHANGED <<host, pending, series, pool, client>>

\* Past retryWG.Wait: in-flight requests are forgotten.
QuiesceEnd ==
    /\ life = "stopping"
    /\ group = 0
    /\ life' = "closed"
    /\ pending' = [r \in Requests |-> "absent"]
    /\ UNCHANGED <<stopped, host, wait, series, pool, client>>

Configure ==
    /\ life = "closed"
    /\ life' = "open"
    /\ stopped' = FALSE
    /\ pending' = [r \in Requests |-> "absent"]
    /\ UNCHANGED <<host, wait, series, pool, client>>

-----------------------------------------------------------------------------
Outcomes == {"state", "nothing", "identity"}

HostCall(r) ==
    \/ Intercept(r)
    \/ \E degraded, retry \in BOOLEAN :
          StreamHeader(r, degraded, retry) \/ WholeResponse(r, degraded, retry)
    \/ StreamChunk(r)
    \/ Complete(r)

\* What the plugin's own goroutines do without help from outside.
WaitStep(r) == EnterWait(r) \/ WaitOver(r)
SeriesStep(r) ==
    \/ StartAttempt(r) \/ GapOver(r) \/ MintState(r) \/ RecordSeries(r)
    \/ FreeSlot(r) \/ LeaveGroup(r) \/ CloseDone(r)

Next ==
    \/ \E r \in Requests :
          \/ HostCall(r) \/ WaitStep(r) \/ WaitTimedOut(r) \/ SeriesStep(r)
          \/ \E outcome \in Outcomes : AttemptAnswered(r, outcome)
    \/ QuiesceBegin \/ QuiesceEnd \/ Configure

Spec == Init /\ [][Next]_vars

\* A request of a retry may hang for as long as the upstream likes, until the
\* stop cancels its context; nothing makes a client's timer fire in time.
Cancelled(r) == stopped /\ \E outcome \in Outcomes : AttemptAnswered(r, outcome)

Fairness ==
    /\ \A r \in Requests : /\ WF_vars(WaitStep(r))
                           /\ WF_vars(SeriesStep(r))
                           /\ WF_vars(Cancelled(r))
    /\ WF_vars(QuiesceEnd)

PromptSpec == Spec /\ Fairness

-----------------------------------------------------------------------------
(* Properties.                                                              *)

\* Every way out of a series -- a stop, a full house, a changed identity, the
\* last attempt -- gives back the slot and the place in the group it took.
SlotsAccounted ==
    /\ slots = Cardinality({r \in Requests :
                   series[r].at \in Stages \ {"none", "group", "signal", "done"}})
    /\ group = Cardinality({r \in Requests :
                   series[r].at \in Stages \ {"none", "signal", "done"}})

\* The error is held until the series is over, unless the timer fires, a
\* quiesce lets the client go, or there never was a series to wait for.
ErrorWaitsForSeries ==
    [][\A r \in Requests :
        client'[r] # client[r] /\ client'[r] = "error" =>
            \/ series'[r].at \in {"none", "done"}
            \/ wait[r] = "stopped"
            \/ WaitTimedOut(r)]_vars

\* What the client gets is what the gate promises.
Gate == INSTANCE ResponseGate WITH
    given   <- client,
    watched <- {r \in Requests : pending[r] # "absent"}
ImplementsGate == Gate!GateSpec

\* A quiesce ends, whatever the series were doing, so that the next instance can
\* open the store; and it frees every held client by itself, without the client's
\* own timer and though the upstream hangs.
QuiesceFinishes ==
    /\ life = "stopping" ~> life = "closed"
    /\ \A r \in Requests : life = "stopping" /\ wait[r] # "none" ~> wait[r] = "none"

\* No client hangs on the plugin whose timer fires, though the upstream may.
TimerFires == \A r \in Requests : WF_vars(WaitTimedOut(r))
HeldClientsAnswered ==
    TimerFires => \A r \in Requests : wait[r] # "none" ~> wait[r] = "none"
=============================================================================
