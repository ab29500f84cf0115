----------------------------- MODULE SessionJar -----------------------------
(***************************************************************************)
(* The sessions of one credential: the jar its live traffic fills, with    *)
(* the liveness clock in the same record; the jar of a stable proxy; and   *)
(* the cookie pool of sessions a verdict vouched for (cookiepool.go,       *)
(* probe.go, state.go).  The live path updates the jar under state.mu;     *)
(* probes and the panel read it, change the copy and write it back with no *)
(* lock around the two.                                                    *)
(*                                                                         *)
(* A cookie is its __oailb crumb: the backend it pins, and the way out     *)
(* (direct or through a proxy) of the response that issued it.             *)
(***************************************************************************)
EXTENDS Naturals, FiniteSets, Sequences

CONSTANTS
    Lives,        \* live requests; each is sent once, in some order
    Probes,       \* probe requests under way at once
    Hosts,        \* backends
    Setups,       \* <<cookie mode, egress>> of the probes
    MaxCookies,   \* bound on cookies ever issued
    MaxProbes,    \* bound on probe requests ever sent
    ForwardCookie \* the rule's inject_cookie, with the pool maintained

None == 0   \* no cookie, and no time

\* What probeCookieModeFor and probeEgress can give together.
AllSetups == {<<"credential", "direct">>, <<"pool", "direct">>} \cup
             {"credential", "pool", "static", "rotating"} \X {"proxy"}

ASSUME LivesAssumption == IsFiniteSet(Lives)
ASSUME SetupsAssumption == Setups \subseteq AllSetups
ASSUME BoundsAssumption == MaxCookies \in Nat /\ MaxProbes \in Nat /\ ForwardCookie \in BOOLEAN

VARIABLES
    issued,   \* cookies so far, oldest first: [host, via]
    live,     \* live requests: StartedAt, the cookie sent, what was injected
    clock,    \* live requests sent so far
    jar,      \* the record under the empty egress: [live, cookie]
    proxyJar, \* the cookie of the record under the proxy's egress
    pool,     \* the cookie pool: [cookie, rests] per backend
    slot,     \* the pooled state's session: {} when no state is pooled
    probe,    \* probe requests under way, with their copy of a record
    used,     \* probe requests sent so far
    hand,     \* useCookieForCredential between its read and its write
    passed,   \* history: sessions a probe's check vouched for
    byHand    \* history: [pooled, placed], cookies an operator put there

vars == <<issued, live, clock, jar, proxyJar, pool, slot, probe, used, hand, passed, byHand>>

Cookies == 0 .. MaxCookies
Ways    == {"direct", "proxy"}
Via(c)  == issued[c].via
Host(c) == issued[c].host

NoJar    == [live |-> None, cookie |-> None]
NoEntry  == [cookie |-> None, rests |-> FALSE]
NoProbe  == [at |-> "idle", mode |-> "credential", egress |-> "direct", sent |-> None,
             session |-> None, copy |-> NoJar]
Unsent   == [at |-> None, sent |-> None, chain |-> FALSE, ours |-> FALSE,
             done |-> FALSE, held |-> FALSE, session |-> None]
NoHand   == [host |-> "none", copy |-> NoJar]

Jar == [live : 0 .. Cardinality(Lives), cookie : Cookies]
Turn == [at : 0 .. Cardinality(Lives), sent : Cookies, chain : BOOLEAN, ours : BOOLEAN,
         done : BOOLEAN, held : BOOLEAN, session : Cookies]
ProbeRequest == [at : {"idle", "sent", "copied", "judging"},
                 mode : {"credential", "pool", "static", "rotating"},
                 egress : Ways, sent : Cookies, session : Cookies, copy : Jar]

TypeOK ==
    /\ issued \in Seq([host : Hosts, via : Ways]) /\ Len(issued) <= MaxCookies
    /\ live \in [Lives -> Turn]
    /\ clock \in 0 .. Cardinality(Lives)
    /\ jar \in Jar /\ proxyJar \in Cookies
    /\ pool \in [Hosts -> [cookie : Cookies, rests : BOOLEAN]]
    /\ slot \subseteq Cookies /\ Cardinality(slot) <= 1
    /\ probe \in [Probes -> ProbeRequest]
    /\ used \in 0 .. MaxProbes
    /\ hand \in [host : Hosts \cup {"none"}, copy : Jar]
    /\ passed \subseteq Cookies
    /\ byHand \in [pooled : SUBSET Cookies, placed : SUBSET Cookies]

Init ==
    /\ issued = <<>>
    /\ live = [l \in Lives |-> Unsent]
    /\ clock = 0
    /\ jar = NoJar /\ proxyJar = None
    /\ pool = [h \in Hosts |-> NoEntry]
    /\ slot = {}
    /\ probe = [p \in Probes |-> NoProbe]
    /\ used = 0
    /\ hand = NoHand
    /\ passed = {}
    /\ byHand = [pooled |-> {}, placed |-> {}]

-----------------------------------------------------------------------------
(* Helpers.                                                                 *)

\* applySetCookies: the response keeps what was sent, clears it, or issues a
\* cookie of its own.
Reply(sent, way, session) ==
    \/ session \in {sent, None} /\ UNCHANGED issued
    \/ /\ Len(issued) < MaxCookies
       /\ session = Len(issued) + 1
       /\ \E h \in Hosts : issued' = Append(issued, [host |-> h, via |-> way])

\* noteCookiePoolLocked: the cookie takes its backend's entry and its rest ends.
Note(c) ==
    pool' = IF c = None THEN pool
            ELSE [pool EXCEPT ![issued'[c].host] = [cookie |-> c, rests |-> FALSE]]

\* coolCookiePoolLocked: the entry of the backend the cookie names rests.
Cool(c) ==
    pool' = IF c = None THEN pool
            ELSE [pool EXCEPT ![Host(c)].rests = (pool[Host(c)].cookie # None)]

\* A record with another cookie in it, or the same when there is none.
WithCookie(record, c) == IF c = None THEN record ELSE [record EXCEPT !.cookie = c]

-----------------------------------------------------------------------------
(* Live traffic.                                                            *)

\* interceptRequest: StartedAt is taken, and the session of a pooled state may
\* go out over the client's own cookie.
SendLive(l, own, chain) ==
    /\ live[l].at = None
    /\ own # None => Via(own) = "direct"
    /\ chain => slot # {}
    /\ LET ours == ForwardCookie /\ slot \notin {{}, {None}}
           sent == IF ours THEN CHOOSE c \in slot : TRUE ELSE own
       IN  live' = [live EXCEPT ![l] = [Unsent EXCEPT !.at = clock + 1, !.sent = sent,
                                                      !.chain = chain, !.ours = ours]]
    /\ clock' = clock + 1
    /\ UNCHANGED <<issued, jar, proxyJar, pool, slot, probe, used, hand, passed, byHand>>

\* Mutant of LiveAnswers: any silent turn vouches for its session.
LiveAnswers_AnySilence(l, session, fresh) ==
    LET r == live[l]
        held == r.chain /\ ~fresh
    IN  /\ r.at # None /\ ~r.done
        /\ Reply(r.sent, "direct", session)
        /\ jar' = WithCookie([jar EXCEPT !.live = r.at], session)
        /\ live' = [live EXCEPT ![l] = [r EXCEPT !.done = TRUE, !.held = held, !.session = session]]
        /\ IF ~fresh THEN Note(session)
           ELSE IF r.chain /\ r.ours THEN Cool(r.sent) ELSE UNCHANGED pool
        /\ \/ UNCHANGED slot
           \/ r.chain /\ fresh /\ slot' = {}
        /\ UNCHANGED <<clock, proxyJar, probe, used, hand, passed, byHand>>

\* noteTurnStateMintLocked2 on an answer with a new state or none: the jar and
\* its clock, then the verdict.  Whether the state in the slot is still the one
\* that went out is for TurnStatePool to say.
LiveAnswers(l, session, fresh) ==
    LET r == live[l]
        held == r.chain /\ ~fresh
    IN  /\ r.at # None /\ ~r.done
        /\ Reply(r.sent, "direct", session)
        /\ jar' = WithCookie([jar EXCEPT !.live = r.at], session)
        /\ live' = [live EXCEPT ![l] = [r EXCEPT !.done = TRUE, !.held = held, !.session = session]]
        /\ IF held THEN Note(session)
           ELSE IF r.chain /\ r.ours THEN Cool(r.sent) ELSE UNCHANGED pool
        /\ \/ UNCHANGED slot
           \/ r.chain /\ fresh /\ slot' = {}
        /\ UNCHANGED <<clock, proxyJar, probe, used, hand, passed, byHand>>

\* Mutant of RetryPools: the state goes in beside the one it should replace.
RetryPools_Beside(l, way, session) ==
    /\ live[l].done /\ live[l].chain /\ ~live[l].held
    /\ Reply(live[l].session, way, session)
    /\ slot' = slot \cup {session}
    /\ UNCHANGED <<live, clock, jar, proxyJar, pool, probe, used, hand, passed, byHand>>

\* A retry after a rejection: it sends what the rejected turn left behind,
\* perhaps through the retry's proxy, and pools the state under its session.
RetryPools(l, way, session) ==
    /\ live[l].done /\ live[l].chain /\ ~live[l].held
    /\ Reply(live[l].session, way, session)
    /\ slot' = {session}
    /\ UNCHANGED <<live, clock, jar, proxyJar, pool, probe, used, hand, passed, byHand>>

-----------------------------------------------------------------------------
(* Probes.                                                                  *)

\* What a probe presents: the direct jar as its task loaded it, the proxy's own
\* jar, an entry that may still be sent, or what priming brought back.
Presents(mode, c) ==
    \/ mode = "credential" /\ c = jar.cookie /\ UNCHANGED issued
    \/ mode = "static" /\ c = proxyJar /\ UNCHANGED issued
    \/ mode = "rotating" /\ Reply(None, "proxy", c)
    \/ /\ mode = "pool" /\ UNCHANGED issued
       /\ \/ c = None
          \/ \E h \in Hosts : c = pool[h].cookie /\ ~pool[h].rests

\* A pool draw may come back empty: entries also expire.
SendProbe(p, setup, c) ==
    /\ probe[p].at = "idle" /\ used < MaxProbes
    /\ Presents(setup[1], c)
    /\ probe' = [probe EXCEPT ![p] = [NoProbe EXCEPT !.at = "sent", !.mode = setup[1],
                                                     !.egress = setup[2], !.sent = c]]
    /\ used' = used + 1
    /\ UNCHANGED <<live, clock, jar, proxyJar, pool, slot, hand, passed, byHand>>

\* Mutant of Keeps: the egress the answer came back through does not matter.
Keeps_AnyEgress(r, session) == session # None /\ r.mode \notin {"rotating", "pool"}

\* rememberSession's early returns.
Keeps(r, session) ==
    /\ session # None
    /\ r.mode \notin {"rotating", "pool"}
    /\ r.mode = "credential" => r.egress = "direct"

\* A 2xx answer to the probe; rememberSession reads the record of its egress.
ProbeAnswers(p, session) ==
    LET r == probe[p]
        own == IF r.mode = "static" THEN [live |-> None, cookie |-> proxyJar] ELSE jar
    IN  /\ r.at = "sent"
        /\ Reply(r.sent, r.egress, session)
        /\ probe' = [probe EXCEPT ![p] =
               [r EXCEPT !.at = IF Keeps(r, session) THEN "copied" ELSE "judging",
                         !.session = session, !.copy = own]]
        /\ UNCHANGED <<live, clock, jar, proxyJar, pool, slot, used, hand, passed, byHand>>

\* Mutant of SaveSession: a probe counts as life.
SaveSession_Stamps(p) ==
    LET r == probe[p]
    IN  /\ r.at = "copied"
        /\ IF r.mode = "static" THEN proxyJar' = r.session /\ UNCHANGED jar
           ELSE jar' = [live |-> clock, cookie |-> r.session] /\ UNCHANGED proxyJar
        /\ probe' = [probe EXCEPT ![p].at = "judging"]
        /\ UNCHANGED <<issued, live, clock, pool, slot, used, hand, passed, byHand>>

\* ... and writes its copy back with the new cookie in it.
SaveSession(p) ==
    LET r == probe[p]
    IN  /\ r.at = "copied"
        /\ IF r.mode = "static" THEN proxyJar' = r.session /\ UNCHANGED jar
           ELSE jar' = WithCookie(r.copy, r.session) /\ UNCHANGED proxyJar
        /\ probe' = [probe EXCEPT ![p].at = "judging"]
        /\ UNCHANGED <<issued, live, clock, pool, slot, used, hand, passed, byHand>>

\* The state in the answer is judged, by a second request when the rule asks
\* for one ("passed" or "degraded", under the session that one left behind) and
\* by length, now paused, when not ("unjudged": pooled all the same).
Verdict(p, verdict, session) ==
    LET r == probe[p]
    IN  /\ r.at = "judging"
        /\ IF verdict = "unjudged" THEN session = r.session /\ UNCHANGED issued
           ELSE Reply(r.session, r.egress, session)
        /\ \/ verdict = "passed" /\ Note(session) /\ passed' = passed \cup {session}
           \/ /\ verdict = "degraded" /\ UNCHANGED passed
              /\ IF r.mode = "pool" THEN Cool(r.sent) ELSE UNCHANGED pool
           \/ verdict = "unjudged" /\ UNCHANGED <<pool, passed>>
        /\ \/ verdict # "degraded" /\ slot' = {session}
           \/ UNCHANGED slot
        /\ probe' = [probe EXCEPT ![p] = NoProbe]
        /\ UNCHANGED <<live, clock, jar, proxyJar, used, hand, byHand>>

\* No answer, no 2xx, no state in it, or a check that said nothing.
ProbeFails(p) ==
    /\ probe[p].at \in {"sent", "judging"}
    /\ probe' = [probe EXCEPT ![p] = NoProbe]
    /\ UNCHANGED <<issued, live, clock, jar, proxyJar, pool, slot, used, hand, passed, byHand>>

-----------------------------------------------------------------------------
(* The panel, and time.                                                     *)

\* useCookieForCredential: the entry and the direct jar are read ...
UseReads(h) ==
    /\ hand = NoHand
    /\ pool[h].cookie # None
    /\ hand' = [host |-> h, copy |-> WithCookie(jar, pool[h].cookie)]
    /\ UNCHANGED <<issued, live, clock, jar, proxyJar, pool, slot, probe, used, passed, byHand>>

\* ... and the copy is written back.
UseSaves ==
    /\ hand # NoHand
    /\ jar' = hand.copy
    /\ hand' = NoHand
    /\ byHand' = [byHand EXCEPT !.placed = @ \cup {hand.copy.cookie}]
    /\ UNCHANGED <<issued, live, clock, proxyJar, pool, slot, probe, used, passed>>

\* poolCookieByHand: pasted, or from a recorded request.
PoolCookieByHand(c) ==
    /\ c # None
    /\ UNCHANGED issued /\ Note(c)
    /\ byHand' = [byHand EXCEPT !.pooled = @ \cup {c}]
    /\ UNCHANGED <<live, clock, jar, proxyJar, slot, probe, used, hand, passed>>

\* poolRecordedState, with the session of the recorded turn.
PoolStateByHand(l) ==
    /\ live[l].done /\ ~live[l].chain
    /\ slot' = {live[l].session}
    /\ UNCHANGED <<issued, live, clock, jar, proxyJar, pool, probe, used, hand, passed, byHand>>

CooldownEnds(h) ==
    /\ pool[h].rests
    /\ pool' = [pool EXCEPT ![h].rests = FALSE]
    /\ UNCHANGED <<issued, live, clock, jar, proxyJar, slot, probe, used, hand, passed, byHand>>

\* ClearHistory takes the credential's sessions, under every egress.
ClearHistory ==
    /\ jar' = NoJar /\ proxyJar' = None
    /\ UNCHANGED <<issued, live, clock, pool, slot, probe, used, hand, passed, byHand>>

\* cleanupOrphans takes the cookie pool and the states, not the sessions.
DeleteCredentialData ==
    /\ pool' = [h \in Hosts |-> NoEntry] /\ slot' = {}
    /\ UNCHANGED <<issued, live, clock, jar, proxyJar, probe, used, hand, passed, byHand>>

Session == 0 .. Len(issued) + 1

Next ==
    \/ \E l \in Lives :
          \/ \E own \in 0 .. Len(issued), chain \in BOOLEAN : SendLive(l, own, chain)
          \/ \E session \in Session, fresh \in BOOLEAN : LiveAnswers(l, session, fresh)
          \/ \E session \in Session, way \in Ways : RetryPools(l, way, session)
          \/ PoolStateByHand(l)
    \/ \E p \in Probes :
          \/ \E setup \in Setups, c \in Session : SendProbe(p, setup, c)
          \/ \E session \in Session : ProbeAnswers(p, session)
          \/ SaveSession(p)
          \/ \E session \in Session, verdict \in {"passed", "degraded", "unjudged"} :
                Verdict(p, verdict, session)
          \/ ProbeFails(p)
    \/ \E h \in Hosts : UseReads(h) \/ CooldownEnds(h)
    \/ UseSaves
    \/ \E c \in 1 .. Len(issued) : PoolCookieByHand(c)
    \/ ClearHistory \/ DeleteCredentialData

Spec == Init /\ [][Next]_vars

-----------------------------------------------------------------------------
(* Properties.                                                              *)

\* The liveness clock only ever shows when a live request that was answered
\* went out: no probe gives itself the licence to go on probing, whatever
\* stale copies of the record are written back (README.md:188).
ClockIsARealStart ==
    jar.live # None => \E l \in Lives : live[l].done /\ live[l].at = jar.live

\* Every pooled cookie is filed under its own backend, and answers for itself:
\* a live turn kept its injected state under it, a probe's check passed, or the
\* operator said so.
PooledOnEvidence ==
    \A h \in Hosts : LET c == pool[h].cookie IN
        c # None =>
            /\ Host(c) = h
            /\ \/ c \in passed \cup byHand.pooled
               \/ \E l \in Lives : live[l].held /\ live[l].session = c

\* Cookies are bound to the address they were issued to: what sits in the
\* direct jar came back directly, unless the operator put it there, and what
\* sits in a proxy's jar came back through the proxy (probe.go:571).
JarsKeepToTheirEgress ==
    /\ jar.cookie # None => Via(jar.cookie) = "direct" \/ jar.cookie \in byHand.placed
    /\ proxyJar # None => Via(proxyJar) = "proxy"

\* Documented (probe.go:576, cookiepool.go:280): neither a probe nor the use of
\* a pooled cookie touches the liveness clock; live answers and clearing do.
OnlyLifeMovesTheClock ==
    [][jar'.live # jar.live =>
        jar' = NoJar \/ \E l \in Lives : live'[l].done /\ ~live[l].done]_vars
=============================================================================
