------------------------ MODULE DegradedTurn_proofs ------------------------
(***************************************************************************)
(* Proofs about DegradedTurn, for any requests, slots and attempts: types;  *)
(* that slots and group count the series; that an error waits for its       *)
(* series; and that the clients are given what ResponseGate allows.         *)
(***************************************************************************)
EXTENDS DegradedTurn, FiniteSetTheorems, TLAPS

USE LimitsAssumption

Slotted == {r \in Requests : series[r].at \in Stages \ {"none", "group", "signal", "done"}}
Grouped == {r \in Requests : series[r].at \in Stages \ {"none", "signal", "done"}}

\* Types without the bound on slots, which is the accounting's to give.
Typed ==
    /\ life \in {"open", "stopping", "closed"}
    /\ stopped \in BOOLEAN
    /\ host \in [Requests -> {"new", "sent", "streaming", "answered", "ended"}]
    /\ pending \in [Requests -> {"absent", "sent", "passing", "rejecting", "erred"}]
    /\ wait \in [Requests -> {"none", "entering", "armed", "deaf", "stopped"}]
    /\ series \in [Requests -> [at: Stages, used: 0 .. Attempts]]
    /\ slots \in Nat /\ group \in Nat
    /\ client \in [Requests -> {"nothing", "mark", "body", "error"}]

(* A request that is not answered yet has no series, a series outside its     *)
(* attempts has used none, and one that may start another has one left.       *)
SeriesInv(r) ==
    /\ host[r] \in {"new", "sent"} => series[r].at = "none"
    /\ series[r].at \notin {"check", "ask", "gap"} => series[r].used = 0
    /\ series[r].at \in {"check", "gap"} => series[r].used < Attempts

(* The inductive strengthening of TypeOK and SlotsAccounted.                  *)
CountInv ==
    /\ Typed
    /\ \A r \in Requests : SeriesInv(r)
    /\ IsFiniteSet(Grouped)
    /\ slots = Cardinality(Slotted) /\ group = Cardinality(Grouped)
    /\ slots <= SlotLimit

LEMMA InitCounts == Init => CountInv
<1> SUFFICES ASSUME Init PROVE CountInv  OBVIOUS
<1>1. Slotted = {} /\ Grouped = {}  BY DEF Init, Slotted, Grouped
<1>2. Cardinality({}) = 0 /\ IsFiniteSet({})  BY FS_EmptySet
<1>3. [at |-> "none", used |-> 0] \in [at: Stages, used: 0 .. Attempts]  BY DEF Stages
<1>4. Typed  BY <1>3 DEF Init, Typed
<1> QED  BY <1>1, <1>2, <1>4 DEF Init, CountInv, SeriesInv

-----------------------------------------------------------------------------
(* How a step moves a series.                                                *)

\* The set of series with a place is finite, and so is its part with a slot.
LEMMA SlottedFinite ==
    ASSUME CountInv
    PROVE  IsFiniteSet(Slotted) /\ IsFiniteSet(Grouped)
<1>1. Slotted \subseteq Grouped  BY DEF Slotted, Grouped
<1> QED  BY <1>1, FS_Subset DEF CountInv

\* A step that moves no series leaves the counters right.
LEMMA Uncounted ==
    ASSUME CountInv, Typed', \A r \in Requests : SeriesInv(r)',
           UNCHANGED <<slots, group>>, Slotted' = Slotted, Grouped' = Grouped
    PROVE  CountInv'
BY DEF CountInv

LEMMA ScheduleCounts ==
    ASSUME CountInv, NEW r \in Requests, host[r] = "sent", ScheduleRetry(r)
    PROVE  /\ series' \in [Requests -> [at: Stages, used: 0 .. Attempts]]
           /\ series'[r].used = 0 /\ series'[r].at \in {"none", "check"}
           /\ \A q \in Requests : q # r => series'[q] = series[q]
           /\ slots' \in Nat /\ group' \in Nat /\ slots' <= SlotLimit
           /\ slots' = Cardinality(Slotted') /\ group' = Cardinality(Grouped')
           /\ IsFiniteSet(Grouped')
<1>0. series[r].at = "none" /\ series[r].used = 0  BY DEF CountInv, SeriesInv
<1>1. CASE life = "open" /\ slots < SlotLimit
  <2>1. series' = [series EXCEPT ![r].at = "check"] /\ slots' = slots + 1 /\ group' = group + 1
    BY <1>1 DEF ScheduleRetry
  <2>2. series'[r] = [at |-> "check", used |-> 0]  BY <1>0, <2>1 DEF CountInv, Typed
  <2>3. \A q \in Requests : q # r => series'[q] = series[q]  BY <2>1 DEF CountInv, Typed
  <2>4. series' \in [Requests -> [at: Stages, used: 0 .. Attempts]]
    BY <2>1, <2>2 DEF CountInv, Typed, Stages
  <2>5. Slotted' = Slotted \cup {r} /\ Grouped' = Grouped \cup {r}
    BY <2>2, <2>3 DEF Slotted, Grouped, Stages
  <2>6. r \notin Slotted /\ r \notin Grouped  BY <1>0 DEF Slotted, Grouped
  <2>7. /\ Cardinality(Slotted \cup {r}) = Cardinality(Slotted) + 1
        /\ Cardinality(Grouped \cup {r}) = Cardinality(Grouped) + 1
        /\ IsFiniteSet(Grouped \cup {r})
    BY <2>6, SlottedFinite, FS_AddElement
  <2>8. slots \in Nat /\ group \in Nat /\ SlotLimit \in Nat  BY DEF CountInv, Typed
  <2> QED  BY <1>1, <2>1, <2>2, <2>3, <2>4, <2>5, <2>7, <2>8 DEF CountInv
<1>2. CASE ~(life = "open" /\ slots < SlotLimit)
  <2>1. UNCHANGED <<slots, group, series>>  BY <1>2 DEF ScheduleRetry
  <2>2. Slotted' = Slotted /\ Grouped' = Grouped  BY <2>1 DEF Slotted, Grouped
  <2> QED  BY <1>0, <2>1, <2>2 DEF CountInv, Typed
<1> QED  BY <1>1, <1>2

\* A series that goes from one place to another that counts the same.
LEMMA Moves ==
    ASSUME CountInv, NEW r \in Requests, NEW s \in [at: Stages, used: 0 .. Attempts],
           series[r].at # "none", s.at # "none",
           r \in Slotted <=> s.at \in Stages \ {"none", "group", "signal", "done"},
           r \in Grouped <=> s.at \in Stages \ {"none", "signal", "done"},
           s.at \notin {"check", "ask", "gap"} => s.used = 0,
           s.at \in {"check", "gap"} => s.used < Attempts,
           series' = [series EXCEPT ![r] = s],
           UNCHANGED <<life, stopped, host, pending, wait, client, slots, group>>
    PROVE  CountInv'
<1>1. \A q \in Requests : series'[q] = IF q = r THEN s ELSE series[q]  BY DEF CountInv, Typed
<1>2. Typed'  BY DEF CountInv, Typed
<1>3. Slotted' = Slotted /\ Grouped' = Grouped  BY <1>1 DEF Slotted, Grouped
<1>4. \A q \in Requests : SeriesInv(q)'
  <2> SUFFICES ASSUME NEW q \in Requests PROVE SeriesInv(q)'  OBVIOUS
  <2>1. CASE q = r  BY <1>1, <2>1 DEF CountInv, SeriesInv
  <2>2. CASE q # r  BY <1>1, <2>2 DEF CountInv, SeriesInv
  <2> QED  BY <2>1, <2>2
<1> QED  BY <1>2, <1>3, <1>4, Uncounted

\* Within the loop and up to the slot's release nothing is given back.
LEMMA InLoop ==
    ASSUME CountInv, NEW r \in Requests, NEW s \in [at: Stages, used: 0 .. Attempts],
           series[r].at \in {"check", "ask", "gap", "mint", "record"},
           s.at \in {"check", "ask", "gap", "mint", "record", "slot"},
           s.at \notin {"check", "ask", "gap"} => s.used = 0,
           s.at \in {"check", "gap"} => s.used < Attempts,
           series' = [series EXCEPT ![r] = s],
           UNCHANGED <<life, stopped, host, pending, wait, client, slots, group>>
    PROVE  CountInv'
<1>1. r \in Slotted /\ r \in Grouped  BY DEF Slotted, Grouped, Stages
<1>2. s.at \in Stages \ {"none", "group", "signal", "done"}  BY DEF Stages
<1> QED  BY <1>1, <1>2, Moves

\* Moving and leaving, as the records they write.
LEMMA MoveTo ==
    ASSUME CountInv, NEW r \in Requests, NEW from \in Stages, NEW to \in Stages, Move(r, from, to)
    PROVE  /\ series[r].at = from
           /\ series' = [series EXCEPT ![r] = [at |-> to, used |-> series[r].used]]
           /\ [at |-> to, used |-> series[r].used] \in [at: Stages, used: 0 .. Attempts]
<1>1. series[r] \in [at: Stages, used: 0 .. Attempts]  BY DEF CountInv, Typed
<1>2. [series[r] EXCEPT !.at = to] = [at |-> to, used |-> series[r].used]  BY <1>1
<1> QED  BY <1>1, <1>2 DEF Move

LEMMA LeaveTo ==
    ASSUME CountInv, NEW r \in Requests, NEW from \in Stages, NEW to \in Stages, Leave(r, from, to)
    PROVE  /\ series[r].at = from
           /\ series' = [series EXCEPT ![r] = [at |-> to, used |-> 0]]
           /\ [at |-> to, used |-> 0] \in [at: Stages, used: 0 .. Attempts]
BY DEF Leave

LEMMA StartCounts ==
    ASSUME CountInv, NEW r \in Requests, StartAttempt(r)
    PROVE  CountInv'
<1>0. UNCHANGED <<life, stopped, host, pending, wait, client, slots, group>>
  BY DEF StartAttempt, pool
<1>1. CASE stopped
  <2>1. Leave(r, "check", "slot")  BY <1>1 DEF StartAttempt
  <2>2. /\ series[r].at = "check" /\ series' = [series EXCEPT ![r] = [at |-> "slot", used |-> 0]]
        /\ [at |-> "slot", used |-> 0] \in [at: Stages, used: 0 .. Attempts]
    BY <2>1, LeaveTo DEF Stages
  <2> QED  BY <1>0, <2>2, InLoop
<1>2. CASE ~stopped
  <2> DEFINE s == [at |-> "ask", used |-> series[r].used + 1]
  <2>1. series[r].at = "check" /\ series[r] \in [at: Stages, used: 0 .. Attempts]
    BY <1>2 DEF StartAttempt, CountInv, Typed
  <2>2. series[r].used < Attempts  BY <2>1 DEF CountInv, SeriesInv
  <2>3. series[r].used + 1 \in 0 .. Attempts  BY <2>1, <2>2
  <2>4. s \in [at: Stages, used: 0 .. Attempts]  BY <2>3 DEF Stages
  <2>5. series' = [series EXCEPT ![r] = s]  BY <1>2 DEF StartAttempt
  <2> QED  BY <1>0, <2>1, <2>4, <2>5, InLoop
<1> QED  BY <1>1, <1>2

LEMMA AnsweredCounts ==
    ASSUME CountInv, NEW r \in Requests, NEW outcome \in Outcomes, AttemptAnswered(r, outcome)
    PROVE  CountInv'
<1>0. UNCHANGED <<life, stopped, host, pending, wait, client, slots, group>>
  BY DEF AttemptAnswered, pool
<1>1. CASE \E to \in {"slot", "mint", "record"} : Leave(r, "ask", to)
  <2>1. PICK to \in {"slot", "mint", "record"} : Leave(r, "ask", to)  BY <1>1
  <2>2. to \in Stages /\ "ask" \in Stages  BY DEF Stages
  <2>3. /\ series[r].at = "ask" /\ series' = [series EXCEPT ![r] = [at |-> to, used |-> 0]]
        /\ [at |-> to, used |-> 0] \in [at: Stages, used: 0 .. Attempts]
    BY <2>1, <2>2, LeaveTo
  <2> QED  BY <1>0, <2>3, InLoop
<1>2. CASE Move(r, "ask", "gap") /\ series[r].used < Attempts
  <2>1. "ask" \in Stages /\ "gap" \in Stages  BY DEF Stages
  <2> DEFINE s == [at |-> "gap", used |-> series[r].used]
  <2>2. /\ series[r].at = "ask" /\ series' = [series EXCEPT ![r] = s]
        /\ s \in [at: Stages, used: 0 .. Attempts]
    BY <1>2, <2>1, MoveTo
  <2> QED  BY <1>0, <1>2, <2>2, InLoop
<1> QED  BY <1>1, <1>2 DEF AttemptAnswered

LEMMA LoopCounts ==
    ASSUME CountInv, NEW r \in Requests, GapOver(r) \/ MintState(r) \/ RecordSeries(r)
    PROVE  CountInv'
<1>0. UNCHANGED <<life, stopped, host, pending, wait, client, slots, group>>
  BY DEF GapOver, MintState, RecordSeries, pool
<1>1. CASE Move(r, "gap", "check")
  <2>1. "gap" \in Stages /\ "check" \in Stages  BY DEF Stages
  <2> DEFINE s == [at |-> "check", used |-> series[r].used]
  <2>2. /\ series[r].at = "gap" /\ series' = [series EXCEPT ![r] = s]
        /\ s \in [at: Stages, used: 0 .. Attempts]
    BY <1>1, <2>1, MoveTo
  <2>3. series[r].used < Attempts  BY <2>2 DEF CountInv, SeriesInv
  <2> QED  BY <1>0, <2>2, <2>3, InLoop
<1>2. CASE Leave(r, "gap", "slot")
  <2>1. "gap" \in Stages /\ "slot" \in Stages  BY DEF Stages
  <2>2. /\ series[r].at = "gap" /\ series' = [series EXCEPT ![r] = [at |-> "slot", used |-> 0]]
        /\ [at |-> "slot", used |-> 0] \in [at: Stages, used: 0 .. Attempts]
    BY <1>2, <2>1, LeaveTo
  <2> QED  BY <1>0, <2>2, InLoop
<1>3. CASE \E from \in {"mint", "record"}, to \in {"record", "slot"} : Move(r, from, to)
  <2>1. PICK from \in {"mint", "record"}, to \in {"record", "slot"} : Move(r, from, to)  BY <1>3
  <2>2. from \in Stages /\ to \in Stages  BY DEF Stages
  <2>3. series[r].at = from /\ series[r].used = 0
    BY <2>1, <2>2, MoveTo DEF CountInv, SeriesInv
  <2>4. /\ series' = [series EXCEPT ![r] = [at |-> to, used |-> 0]]
        /\ [at |-> to, used |-> 0] \in [at: Stages, used: 0 .. Attempts]
    BY <2>1, <2>2, <2>3, MoveTo
  <2> QED  BY <1>0, <2>3, <2>4, InLoop
<1> QED  BY <1>1, <1>2, <1>3 DEF GapOver, MintState, RecordSeries

\* What the deferred calls give back.
LEMMA FreeCounts ==
    ASSUME CountInv, NEW r \in Requests, FreeSlot(r)
    PROVE  CountInv'
<1>1. "slot" \in Stages /\ "group" \in Stages  BY DEF Stages
<1>2. series[r].at = "slot" /\ series' = [series EXCEPT ![r] = [at |-> "group", used |-> series[r].used]]
  BY <1>1, MoveTo DEF FreeSlot
<1>3. series[r].used = 0  BY <1>2 DEF CountInv, SeriesInv
<1>4. Slotted' = Slotted \ {r} /\ Grouped' = Grouped /\ r \in Slotted
  BY <1>2 DEF Slotted, Grouped, Stages, CountInv, Typed
<1>5. Cardinality(Slotted \ {r}) = Cardinality(Slotted) - 1
  BY <1>4, SlottedFinite, FS_RemoveElement
<1>6. Cardinality(Slotted \ {r}) \in Nat
  BY SlottedFinite, FS_RemoveElement, FS_CardinalityType
<1>7. slots' = slots - 1 /\ UNCHANGED <<life, stopped, host, pending, wait, client, group>>
  BY DEF FreeSlot
<1>8. slots' \in Nat /\ slots' = Cardinality(Slotted') /\ slots' <= SlotLimit
  BY <1>4, <1>5, <1>6, <1>7 DEF CountInv, Typed
<1>9. Typed'  BY <1>1, <1>2, <1>3, <1>7, <1>8 DEF CountInv, Typed
<1>10. \A q \in Requests : SeriesInv(q)'
  BY <1>2, <1>3, <1>7 DEF CountInv, Typed, SeriesInv
<1> QED  BY <1>4, <1>7, <1>8, <1>9, <1>10 DEF CountInv

LEMMA GroupCounts ==
    ASSUME CountInv, NEW r \in Requests, LeaveGroup(r)
    PROVE  CountInv'
<1>1. "signal" \in Stages /\ "group" \in Stages  BY DEF Stages
<1>2. series[r].at = "group" /\ series' = [series EXCEPT ![r] = [at |-> "signal", used |-> series[r].used]]
  BY <1>1, MoveTo DEF LeaveGroup
<1>3. series[r].used = 0  BY <1>2 DEF CountInv, SeriesInv
<1>4. Grouped' = Grouped \ {r} /\ Slotted' = Slotted /\ r \in Grouped
  BY <1>2 DEF Slotted, Grouped, Stages, CountInv, Typed
<1>5. Cardinality(Grouped \ {r}) = Cardinality(Grouped) - 1 /\ IsFiniteSet(Grouped \ {r})
  BY <1>4, SlottedFinite, FS_RemoveElement
<1>6. Cardinality(Grouped \ {r}) \in Nat  BY <1>5, FS_CardinalityType
<1>7. group' = group - 1 /\ UNCHANGED <<life, stopped, host, pending, wait, client, slots>>
  BY DEF LeaveGroup
<1>8. group' \in Nat /\ group' = Cardinality(Grouped')
  BY <1>4, <1>5, <1>6, <1>7 DEF CountInv, Typed
<1>9. Typed'  BY <1>1, <1>2, <1>3, <1>7, <1>8 DEF CountInv, Typed
<1>10. \A q \in Requests : SeriesInv(q)'
  BY <1>2, <1>3, <1>7 DEF CountInv, Typed, SeriesInv
<1> QED  BY <1>4, <1>5, <1>7, <1>8, <1>9, <1>10 DEF CountInv

LEMMA DoneCounts ==
    ASSUME CountInv, NEW r \in Requests, CloseDone(r)
    PROVE  CountInv'
<1>0. UNCHANGED <<life, stopped, host, pending, wait, client, slots, group>>
  BY DEF CloseDone, pool
<1>1. "signal" \in Stages /\ "done" \in Stages  BY DEF Stages
<1>2. series[r].at = "signal" /\ series' = [series EXCEPT ![r] = [at |-> "done", used |-> series[r].used]]
  BY <1>1, MoveTo DEF CloseDone
<1>3. series[r].used = 0  BY <1>2 DEF CountInv, SeriesInv
<1>4. r \notin Slotted /\ r \notin Grouped  BY <1>2 DEF Slotted, Grouped
<1>5. [at |-> "done", used |-> series[r].used] \in [at: Stages, used: 0 .. Attempts]
  BY <1>1, <1>3
<1> QED  BY <1>0, <1>2, <1>3, <1>4, <1>5, Moves

-----------------------------------------------------------------------------
(* The host's calls and the wait move no series but to schedule one.         *)

\* A call that leaves the series alone.
LEMMA Elsewhere ==
    ASSUME CountInv, Typed', UNCHANGED <<series, slots, group>>,
           \A r \in Requests : host'[r] \in {"new", "sent"} => host[r] \in {"new", "sent"}
    PROVE  CountInv'
<1>1. Slotted' = Slotted /\ Grouped' = Grouped  BY DEF Slotted, Grouped
<1>2. \A r \in Requests : SeriesInv(r)'  BY DEF CountInv, SeriesInv
<1> QED  BY <1>1, <1>2, Uncounted

LEMMA JudgeCounts ==
    ASSUME CountInv, NEW r \in Requests, NEW degraded \in BOOLEAN, NEW retry \in BOOLEAN,
           NEW to \in {"streaming", "answered"}, host[r] = "sent", host' = [host EXCEPT ![r] = to],
           Judge(r, degraded, retry),
           wait' \in [Requests -> {"none", "entering", "armed", "deaf", "stopped"}],
           client' \in [Requests -> {"nothing", "mark", "body", "error"}],
           UNCHANGED <<life, stopped>>
    PROVE  CountInv'
<1>0. /\ host' \in [Requests -> {"new", "sent", "streaming", "answered", "ended"}]
      /\ pending' \in [Requests -> {"absent", "sent", "passing", "rejecting", "erred"}]
      /\ \A q \in Requests : host'[q] = IF q = r THEN to ELSE host[q]
  BY DEF Judge, CountInv, Typed
<1>1. CASE degraded /\ retry
  <2>1. ScheduleRetry(r)  BY <1>1 DEF Judge
  <2>2. Typed'  BY <1>0, <2>1, ScheduleCounts DEF CountInv, Typed
  <2>3. \A q \in Requests : SeriesInv(q)'
    BY <1>0, <2>1, ScheduleCounts DEF CountInv, SeriesInv
  <2> QED  BY <2>1, <2>2, <2>3, ScheduleCounts DEF CountInv
<1>2. CASE ~(degraded /\ retry)
  <2>1. UNCHANGED <<series, slots, group>>  BY <1>2 DEF Judge, pool
  <2>2. Typed'  BY <1>0, <2>1 DEF CountInv, Typed
  <2> QED  BY <1>0, <2>1, <2>2, Elsewhere
<1> QED  BY <1>1, <1>2

LEMMA GiveTypes ==
    ASSUME CountInv, NEW r \in Requests, NEW frame \in {"mark", "body", "error"}, Give(r, frame)
    PROVE  client' \in [Requests -> {"nothing", "mark", "body", "error"}]
BY DEF Give, CountInv, Typed

LEMMA ResponseCounts ==
    ASSUME CountInv, NEW r \in Requests, NEW degraded \in BOOLEAN, NEW retry \in BOOLEAN,
           StreamHeader(r, degraded, retry) \/ WholeResponse(r, degraded, retry)
    PROVE  CountInv'
<1>1. ASSUME StreamHeader(r, degraded, retry)  PROVE CountInv'
  <2>0. host[r] = "sent" /\ host' = [host EXCEPT ![r] = "streaming"] /\ UNCHANGED <<life, stopped, wait>>
    BY <1>1 DEF StreamHeader
  <2>1. CASE pending[r] = "sent"
    <3>1. Judge(r, degraded, retry)  BY <1>1, <2>1 DEF StreamHeader
    <3>2. client' \in [Requests -> {"nothing", "mark", "body", "error"}]
      BY <1>1, <2>1, GiveTypes DEF StreamHeader, CountInv, Typed
    <3>3. wait' \in [Requests -> {"none", "entering", "armed", "deaf", "stopped"}]
      BY <2>0 DEF CountInv, Typed
    <3> QED  BY <2>0, <3>1, <3>2, <3>3, JudgeCounts
  <2>2. CASE pending[r] # "sent"
    <3>1. UNCHANGED <<pending, series, slots, group, client>>  BY <1>1, <2>2 DEF StreamHeader, pool
    <3>2. Typed'  BY <2>0, <3>1 DEF CountInv, Typed
    <3> QED  BY <2>0, <3>1, <3>2, Elsewhere DEF CountInv, Typed
  <2> QED  BY <2>1, <2>2
<1>2. ASSUME WholeResponse(r, degraded, retry)  PROVE CountInv'
  <2>0. host[r] = "sent" /\ host' = [host EXCEPT ![r] = "answered"] /\ UNCHANGED <<life, stopped>>
    BY <1>2 DEF WholeResponse
  <2>1. CASE pending[r] = "sent"
    <3>1. Judge(r, degraded, retry)  BY <1>2, <2>1 DEF WholeResponse
    <3>2. /\ client' \in [Requests -> {"nothing", "mark", "body", "error"}]
          /\ wait' \in [Requests -> {"none", "entering", "armed", "deaf", "stopped"}]
      BY <1>2, <2>1, GiveTypes DEF WholeResponse, CountInv, Typed
    <3> QED  BY <2>0, <3>1, <3>2, JudgeCounts
  <2>2. CASE pending[r] # "sent"
    <3>1. UNCHANGED <<pending, series, slots, group, wait>> /\ Give(r, "body")
      BY <1>2, <2>2 DEF WholeResponse, pool
    <3>2. Typed'  BY <2>0, <3>1, GiveTypes DEF CountInv, Typed
    <3> QED  BY <2>0, <3>1, <3>2, Elsewhere DEF CountInv, Typed
  <2> QED  BY <2>1, <2>2
<1> QED  BY <1>1, <1>2

LEMMA CallCounts ==
    ASSUME CountInv, NEW r \in Requests,
           \/ Intercept(r) \/ StreamChunk(r) \/ Complete(r)
           \/ WaitStep(r) \/ WaitTimedOut(r)
    PROVE  CountInv'
<1>1. UNCHANGED <<series, slots, group>>
  BY DEF Intercept, StreamChunk, Complete, WaitStep, WaitTimedOut, EnterWait, WaitOver, Answer, pool
<1>2. client' \in [Requests -> {"nothing", "mark", "body", "error"}]
  <2>1. CASE UNCHANGED client  BY <2>1 DEF CountInv, Typed
  <2>2. CASE \E frame \in {"body", "error"} : Give(r, frame)  BY <2>2, GiveTypes
  <2> QED  BY <2>1, <2>2 DEF Intercept, StreamChunk, Complete, WaitStep, WaitTimedOut, EnterWait, WaitOver, Answer
<1>3. Typed'
  BY <1>1, <1>2 DEF Intercept, StreamChunk, Complete, WaitStep, WaitTimedOut, EnterWait, WaitOver, Answer,
                    CountInv, Typed
<1>4. \A q \in Requests : host'[q] \in {"new", "sent"} => host[q] \in {"new", "sent"}
  BY DEF Intercept, StreamChunk, Complete, WaitStep, WaitTimedOut, EnterWait, WaitOver, Answer,
         CountInv, Typed
<1> QED  BY <1>1, <1>3, <1>4, Elsewhere

LEMMA LifeCounts ==
    ASSUME CountInv, QuiesceBegin \/ QuiesceEnd \/ Configure
    PROVE  CountInv'
<1>1. UNCHANGED <<series, slots, group, host, client>>
  BY DEF QuiesceBegin, QuiesceEnd, Configure, pool
<1>2. Typed'
  <2>1. CASE QuiesceBegin  BY <1>1, <2>1 DEF QuiesceBegin, CountInv, Typed
  <2>2. CASE QuiesceEnd  BY <1>1, <2>2 DEF QuiesceEnd, CountInv, Typed
  <2>3. CASE Configure  BY <1>1, <2>3 DEF Configure, CountInv, Typed
  <2> QED  BY <2>1, <2>2, <2>3
<1> QED  BY <1>1, <1>2, Elsewhere

LEMMA StepCounts ==
    ASSUME CountInv, [Next]_vars
    PROVE  CountInv'
<1>1. CASE UNCHANGED vars
  <2>1. UNCHANGED <<series, slots, group, host>> /\ Typed'
    BY <1>1 DEF vars, CountInv, Typed
  <2> QED  BY <2>1, Elsewhere
<1>2. ASSUME NEW r \in Requests, HostCall(r)  PROVE CountInv'
  BY <1>2, ResponseCounts, CallCounts DEF HostCall
<1>3. ASSUME NEW r \in Requests, WaitStep(r) \/ WaitTimedOut(r)  PROVE CountInv'
  BY <1>3, CallCounts
<1>4. ASSUME NEW r \in Requests, SeriesStep(r)  PROVE CountInv'
  BY <1>4, StartCounts, LoopCounts, FreeCounts, GroupCounts, DoneCounts DEF SeriesStep
<1>5. ASSUME NEW r \in Requests, NEW outcome \in Outcomes, AttemptAnswered(r, outcome)
      PROVE  CountInv'
  BY <1>5, AnsweredCounts
<1> QED  BY <1>1, <1>2, <1>3, <1>4, <1>5, LifeCounts DEF Next

LEMMA CountsImply == CountInv => TypeOK /\ SlotsAccounted
BY DEF CountInv, Typed, TypeOK, SlotsAccounted, Slotted, Grouped

(* Every variable keeps its type: never more slots in use than there are, and *)
(* no series asks more often than it may (runDegradedRetry).                  *)
THEOREM TurnTypes == Spec => []TypeOK
BY InitCounts, StepCounts, CountsImply, PTL DEF Spec

(* Slots in use and places in the wait group are the series that hold them,   *)
(* on every way out of runDegradedRetry.                                      *)
THEOREM SlotsBalance == Spec => []SlotsAccounted
BY InitCounts, StepCounts, CountsImply, PTL DEF Spec
-----------------------------------------------------------------------------
(* What clients are given.                                                   *)

(* Until its response arrives a client has nothing; the body passes only to   *)
(* one that was not told otherwise, and a held or withheld one has at most    *)
(* the mark.                                                                  *)
ClientInv(r) ==
    /\ host[r] \in {"new", "sent"} => client[r] = "nothing" /\ wait[r] = "none"
    /\ host[r] = "sent" => pending[r] \in {"sent", "absent"}
    /\ pending[r] = "passing" => client[r] \in {"nothing", "body"} /\ wait[r] = "none"
    /\ pending[r] = "rejecting" /\ host[r] = "streaming" => client[r] = "mark" /\ wait[r] = "none"
    /\ wait[r] # "none" /\ host[r] # "ended" => client[r] \in {"nothing", "mark"}
TurnInv == CountInv /\ \A r \in Requests : ClientInv(r)

\* A step at one request leaves the others as they are.
LEMMA OthersKept ==
    ASSUME CountInv, NEW r \in Requests,
           \/ HostCall(r) \/ WaitStep(r) \/ WaitTimedOut(r)
    PROVE  \A q \in Requests : q # r =>
              /\ host'[q] = host[q] /\ pending'[q] = pending[q]
              /\ wait'[q] = wait[q] /\ client'[q] = client[q] /\ series'[q] = series[q]
<1>1. UNCHANGED client \/ \E frame \in {"mark", "body", "error"} : Give(r, frame)
  BY DEF HostCall, Intercept, StreamHeader, WholeResponse, StreamChunk, Complete,
         WaitStep, EnterWait, WaitOver, WaitTimedOut, Answer
<1>2. \A q \in Requests : q # r => client'[q] = client[q]
  BY <1>1 DEF Give, CountInv, Typed
<1>3. \A q \in Requests : q # r => series'[q] = series[q]
  BY DEF HostCall, Intercept, StreamHeader, WholeResponse, StreamChunk, Complete, Judge, ScheduleRetry,
         WaitStep, EnterWait, WaitOver, WaitTimedOut, Answer, CountInv, Typed
<1>4. \A q \in Requests : q # r => host'[q] = host[q] /\ pending'[q] = pending[q] /\ wait'[q] = wait[q]
  BY DEF HostCall, Intercept, StreamHeader, WholeResponse, StreamChunk, Complete, Judge,
         WaitStep, EnterWait, WaitOver, WaitTimedOut, Answer, CountInv, Typed
<1> QED  BY <1>2, <1>3, <1>4

LEMMA ClientStep ==
    ASSUME TurnInv, NEW r \in Requests,
           \/ HostCall(r) \/ WaitStep(r) \/ WaitTimedOut(r)
    PROVE  ClientInv(r)'
<1>1. CASE Intercept(r)
  BY <1>1 DEF Intercept, TurnInv, CountInv, Typed, ClientInv
<1>2. ASSUME NEW degraded \in BOOLEAN, NEW retry \in BOOLEAN, StreamHeader(r, degraded, retry)
      PROVE  ClientInv(r)'
  BY <1>2 DEF StreamHeader, Judge, Give, TurnInv, CountInv, Typed, ClientInv
<1>3. ASSUME NEW degraded \in BOOLEAN, NEW retry \in BOOLEAN, WholeResponse(r, degraded, retry)
      PROVE  ClientInv(r)'
  BY <1>3 DEF WholeResponse, Judge, Give, TurnInv, CountInv, Typed, ClientInv
<1>4. CASE StreamChunk(r)
  BY <1>4 DEF StreamChunk, Give, TurnInv, CountInv, Typed, ClientInv
<1>5. CASE Complete(r)
  BY <1>5 DEF Complete, TurnInv, CountInv, Typed, ClientInv
<1>6. CASE EnterWait(r)
  BY <1>6 DEF EnterWait, TurnInv, CountInv, Typed, ClientInv
<1>7. CASE WaitOver(r) \/ WaitTimedOut(r)
  <2>1. wait[r] # "none" /\ Answer(r)  BY <1>7 DEF WaitOver, WaitTimedOut
  <2> QED  BY <2>1 DEF Answer, Give, TurnInv, CountInv, Typed, ClientInv
<1> QED  BY <1>1, <1>2, <1>3, <1>4, <1>5, <1>6, <1>7 DEF HostCall, WaitStep

LEMMA TurnInvStep ==
    ASSUME TurnInv, [Next]_vars
    PROVE  TurnInv'
<1>0. CountInv'  BY StepCounts DEF TurnInv
<1>1. ASSUME NEW r \in Requests, HostCall(r) \/ WaitStep(r) \/ WaitTimedOut(r)
      PROVE  \A q \in Requests : ClientInv(q)'
  <2>1. \A q \in Requests : q # r => ClientInv(q)'
    BY <1>1, OthersKept DEF TurnInv, ClientInv
  <2> QED  BY <1>1, <2>1, ClientStep
<1>2. ASSUME UNCHANGED <<host, pending, wait, client>>
      PROVE  \A q \in Requests : ClientInv(q)'
  BY <1>2 DEF TurnInv, ClientInv
<1>3. ASSUME NEW r \in Requests,
             SeriesStep(r) \/ \E outcome \in Outcomes : AttemptAnswered(r, outcome)
      PROVE  UNCHANGED <<host, pending, wait, client>>
  BY <1>3 DEF SeriesStep, StartAttempt, GapOver, MintState, RecordSeries, FreeSlot, LeaveGroup,
              CloseDone, AttemptAnswered
<1>4. ASSUME QuiesceBegin \/ QuiesceEnd \/ Configure
      PROVE  \A q \in Requests : ClientInv(q)'
  <2>1. UNCHANGED <<host, client>>
        /\ \A q \in Requests : /\ wait'[q] = wait[q] \/ (wait[q] # "none" /\ wait'[q] # "none")
                               /\ pending'[q] \in {pending[q], "absent"}
    BY <1>4 DEF QuiesceBegin, QuiesceEnd, Configure, TurnInv, CountInv, Typed
  <2> QED  BY <2>1 DEF TurnInv, ClientInv
<1>5. ASSUME UNCHANGED vars
      PROVE  \A q \in Requests : ClientInv(q)'
  BY <1>2, <1>5 DEF vars
<1>6. \A q \in Requests : ClientInv(q)'
  BY <1>1, <1>2, <1>3, <1>4, <1>5 DEF Next
<1> QED  BY <1>0, <1>6 DEF TurnInv

LEMMA TurnInvInit == Init => TurnInv
BY InitCounts DEF TurnInv, ClientInv, Init

-----------------------------------------------------------------------------
(* The error and its series.                                                 *)

LEMMA ErrorStep ==
    ASSUME TurnInv, [Next]_vars, NEW r \in Requests,
           client'[r] # client[r], client'[r] = "error"
    PROVE  series'[r].at \in {"none", "done"} \/ wait[r] = "stopped" \/ WaitTimedOut(r)
<1>1. \E q \in Requests : HostCall(q) \/ WaitStep(q) \/ WaitTimedOut(q)
  BY DEF Next, SeriesStep, StartAttempt, GapOver, MintState, RecordSeries, FreeSlot, LeaveGroup,
         CloseDone, AttemptAnswered, QuiesceBegin, QuiesceEnd, Configure, vars
<1>2. HostCall(r) \/ WaitStep(r) \/ WaitTimedOut(r)
  BY <1>1, OthersKept DEF TurnInv
<1>3. CASE Intercept(r) \/ Complete(r) \/ EnterWait(r)
  BY <1>3 DEF Intercept, Complete, EnterWait
<1>4. ASSUME NEW degraded \in BOOLEAN, NEW retry \in BOOLEAN, StreamHeader(r, degraded, retry)
      PROVE  FALSE
  BY <1>4 DEF StreamHeader, Give, TurnInv, CountInv, Typed
<1>5. ASSUME NEW degraded \in BOOLEAN, NEW retry \in BOOLEAN, WholeResponse(r, degraded, retry)
      PROVE  series'[r].at = "none"
  BY <1>5 DEF WholeResponse, Give, TurnInv, CountInv, Typed
<1>6. CASE StreamChunk(r)
  <2>1. ~HasSeries(r) /\ UNCHANGED series
    BY <1>6 DEF StreamChunk, Give, TurnInv, CountInv, Typed
  <2> QED  BY <2>1 DEF HasSeries
<1>7. CASE WaitOver(r)
  BY <1>7 DEF WaitOver, SeriesOver, Answer
<1> QED  BY <1>2, <1>3, <1>4, <1>5, <1>6, <1>7 DEF HostCall, WaitStep

(* A client is given its error only when the series is over, the timer fired, *)
(* a quiesce let it go, or there never was a series (waitForDegradedRetry).   *)
THEOREM ErrorsWait == Spec => ErrorWaitsForSeries
<1>1. TurnInv /\ [Next]_vars =>
        [\A r \in Requests :
            client'[r] # client[r] /\ client'[r] = "error" =>
                \/ series'[r].at \in {"none", "done"}
                \/ wait[r] = "stopped"
                \/ WaitTimedOut(r)]_vars
  BY ErrorStep
<1> QED  BY <1>1, TurnInvInit, TurnInvStep, PTL DEF Spec, ErrorWaitsForSeries
-----------------------------------------------------------------------------
(* The refinement: every step is one of the gate's, or leaves it alone.      *)

watched == {r \in Requests : pending[r] # "absent"}

LEMMA GateCall ==
    ASSUME TurnInv, NEW r \in Requests,
           \/ HostCall(r) \/ WaitStep(r) \/ WaitTimedOut(r)
    PROVE  [Gate!GateNext]_(Gate!gateVars)
<1> USE DEF Gate!GateNext, Gate!gateVars
<1>0. /\ client \in [Requests -> {"nothing", "mark", "body", "error"}]
      /\ pending \in [Requests -> {"absent", "sent", "passing", "rejecting", "erred"}]
      /\ ClientInv(r)
  BY DEF TurnInv, CountInv, Typed
<1>1. CASE Intercept(r)
  <2>1. watched' = watched \cup {r} /\ client[r] = "nothing" /\ UNCHANGED client
    BY <1>0, <1>1 DEF Intercept, watched, ClientInv
  <2> QED  BY <2>1 DEF watched, Gate!Watch
<1>2. ASSUME NEW degraded \in BOOLEAN, NEW retry \in BOOLEAN, StreamHeader(r, degraded, retry)
      PROVE  [Gate!GateNext]_(Gate!gateVars)
  <2>1. watched' = watched  BY <1>0, <1>2 DEF StreamHeader, Judge, watched
  <2>2. CASE UNCHANGED client  BY <2>1, <2>2 DEF watched
  <2>3. CASE ~UNCHANGED client
    <3>1. /\ client' = [client EXCEPT ![r] = "mark"]
          /\ client[r] = "nothing" /\ r \in watched
      BY <1>0, <1>2, <2>3 DEF StreamHeader, Give, ClientInv, watched
    <3> QED  BY <2>1, <3>1 DEF watched, Gate!Mark
  <2> QED  BY <2>2, <2>3
<1>3. ASSUME NEW degraded \in BOOLEAN, NEW retry \in BOOLEAN, WholeResponse(r, degraded, retry)
      PROVE  [Gate!GateNext]_(Gate!gateVars)
  <2>1. watched' = watched  BY <1>0, <1>3 DEF WholeResponse, Judge, watched
  <2>2. client[r] = "nothing"  BY <1>0, <1>3 DEF WholeResponse, ClientInv
  <2>3. \/ UNCHANGED client
        \/ client' = [client EXCEPT ![r] = "body"]
        \/ client' = [client EXCEPT ![r] = "error"]
    BY <1>3 DEF WholeResponse, Give
  <2> QED  BY <2>1, <2>2, <2>3 DEF watched, Gate!Pass, Gate!Fail
<1>4. CASE StreamChunk(r)
  <2>1. watched' = watched  BY <1>0, <1>4 DEF StreamChunk, watched
  <2>2. CASE UNCHANGED client  BY <2>1, <2>2 DEF watched
  <2>3. CASE pending[r] = "absent"
    <3>1. client' = [client EXCEPT ![r] = "body"] /\ r \notin watched
      BY <1>4, <2>3 DEF StreamChunk, Give, watched
    <3> QED  BY <2>1, <3>1 DEF watched, Gate!Unfiltered
  <2>4. CASE pending[r] = "passing"
    <3>1. client' = [client EXCEPT ![r] = "body"] /\ client[r] \in {"nothing", "body"}
      BY <1>0, <1>4, <2>4 DEF StreamChunk, Give, ClientInv
    <3> QED  BY <2>1, <3>1 DEF watched, Gate!Pass
  <2>5. CASE pending[r] = "rejecting" /\ ~UNCHANGED client
    <3>1. client' = [client EXCEPT ![r] = "error"] /\ client[r] = "mark"
      BY <1>0, <1>4, <2>5 DEF StreamChunk, Give, ClientInv
    <3> QED  BY <2>1, <3>1 DEF watched, Gate!Fail
  <2> QED  BY <1>4, <2>2, <2>3, <2>4, <2>5 DEF StreamChunk
<1>5. CASE Complete(r)
  <2>1. watched' = watched \ {r} /\ UNCHANGED client
    BY <1>0, <1>5 DEF Complete, watched
  <2>2. {r} \in SUBSET Requests  OBVIOUS
  <2> QED  BY <2>1, <2>2 DEF watched, Gate!Forget
<1>6. CASE EnterWait(r)
  BY <1>6 DEF EnterWait
<1>7. CASE WaitOver(r) \/ WaitTimedOut(r)
  <2>1. wait[r] # "none" /\ Give(r, "error") /\ UNCHANGED pending
    BY <1>7 DEF WaitOver, WaitTimedOut, Answer
  <2>2. watched' = watched  BY <2>1 DEF watched
  <2>3. CASE UNCHANGED client  BY <2>2, <2>3 DEF watched
  <2>4. CASE ~UNCHANGED client
    <3>1. client' = [client EXCEPT ![r] = "error"] /\ client[r] \in {"nothing", "mark"}
      BY <1>0, <2>1, <2>4 DEF Give, ClientInv
    <3> QED  BY <2>2, <3>1 DEF watched, Gate!Fail
  <2> QED  BY <2>3, <2>4
<1> QED  BY <1>1, <1>2, <1>3, <1>4, <1>5, <1>6, <1>7 DEF HostCall, WaitStep

LEMMA GateStep ==
    ASSUME TurnInv, [Next]_vars
    PROVE  [Gate!GateNext]_(Gate!gateVars)
<1>1. ASSUME NEW r \in Requests,
             SeriesStep(r) \/ \E outcome \in Outcomes : AttemptAnswered(r, outcome)
      PROVE  UNCHANGED Gate!gateVars
  BY <1>1 DEF SeriesStep, StartAttempt, GapOver, MintState, RecordSeries, FreeSlot, LeaveGroup,
              CloseDone, AttemptAnswered, Gate!gateVars
<1>2. CASE QuiesceBegin  BY <1>2 DEF QuiesceBegin, Gate!gateVars
<1>3. CASE QuiesceEnd \/ Configure
  <2>1. watched' = watched \ Requests /\ UNCHANGED client
    BY <1>3 DEF QuiesceEnd, Configure, watched
  <2> QED  BY <2>1 DEF watched, Gate!Forget, Gate!GateNext
<1>4. CASE UNCHANGED vars  BY <1>4 DEF vars, Gate!gateVars
<1> QED  BY <1>1, <1>2, <1>3, <1>4, GateCall DEF Next

(* Whatever the retry behind it does, the interception gives every client     *)
(* what ResponseGate allows, at every chunk, timeout, quiesce and reload.     *)
THEOREM GateImplemented == Spec => ImplementsGate
<1>1. Init => Gate!GateInit  BY DEF Init, Gate!GateInit
<1> QED  BY <1>1, TurnInvInit, TurnInvStep, GateStep, PTL DEF Spec, ImplementsGate, Gate!GateSpec
=============================================================================
