------------------------- MODULE SessionJar_proofs -------------------------
(***************************************************************************)
(* Proofs about SessionJar, for any live requests, probes, backends and     *)
(* bounds: types, that a pooled cookie has its evidence, that the liveness  *)
(* clock only shows starts of answered requests, and, where the rule does   *)
(* not forward pooled cookies, that the jars keep to their egress.          *)
(***************************************************************************)
EXTENDS SessionJar, FiniteSetTheorems, TLAPS

USE LivesAssumption, SetupsAssumption, BoundsAssumption

-----------------------------------------------------------------------------
(* The inductive invariant.                                                  *)

Known == 0 .. Len(issued)

(* No cookie is anywhere that was not issued.                                 *)
KnownInv ==
    /\ \A l \in Lives : live[l].sent \in Known /\ live[l].session \in Known
    /\ jar.cookie \in Known /\ proxyJar \in Known
    /\ \A h \in Hosts : pool[h].cookie \in Known
    /\ slot \subseteq Known
    /\ \A p \in Probes : /\ probe[p].sent \in Known /\ probe[p].session \in Known
                         /\ probe[p].copy.cookie \in Known
    /\ hand.copy.cookie \in Known
    /\ passed \subseteq Known /\ byHand.pooled \subseteq Known /\ byHand.placed \subseteq Known

Sent == {l \in Lives : live[l].at # None}
Started(t) == t # None => \E l \in Lives : live[l].done /\ live[l].at = t

(* The clock of the record, and of every copy of it that may be written back. *)
ClockInv ==
    /\ clock = Cardinality(Sent)
    /\ \A l \in Lives : /\ live[l].done => live[l].at # None
                        /\ live[l].held => live[l].done
    /\ Started(jar.live) /\ Started(hand.copy.live)
    /\ \A p \in Probes : Started(probe[p].copy.live)

SessionInv == TypeOK /\ KnownInv /\ ClockInv /\ PooledOnEvidence

Direct(c) == c # None => Via(c) = "direct" \/ c \in byHand.placed
Proxied(c) == c # None => Via(c) = "proxy"

(* What a probe that can fill a jar carries came the way of that jar.         *)
ProbeWay(r) ==
    /\ r.mode = "static" => r.egress = "proxy" /\ Proxied(r.sent)
    /\ r.mode = "credential" /\ r.egress = "direct" => Direct(r.sent)
    /\ r.at = "copied" => /\ r.mode \in {"static", "credential"}
                          /\ r.session # None
                          /\ IF r.mode = "static" THEN Proxied(r.session) ELSE Direct(r.session)

EgressInv ==
    /\ Direct(jar.cookie) /\ Proxied(proxyJar)
    /\ \A l \in Lives : Direct(live[l].sent)
    /\ \A p \in Probes : ProbeWay(probe[p])

-----------------------------------------------------------------------------
(* The helpers.                                                              *)

LEMMA Member ==
    ASSUME NEW S, NEW s \in Seq(S), NEW c \in 0 .. Len(s), c # None
    PROVE  c \in 1 .. Len(s) /\ s[c] \in S
<1>1. Len(s) \in Nat  OBVIOUS
<1>2. c \in 1 .. Len(s)  BY <1>1 DEF None
<1> QED  BY <1>2

\* A response adds at most one cookie, and takes none away.
LEMMA Replied ==
    ASSUME TypeOK, NEW sent \in Known, NEW way \in Ways, NEW session, Reply(sent, way, session)
    PROVE  /\ issued' \in Seq([host : Hosts, via : Ways]) /\ Len(issued') <= MaxCookies
           /\ Len(issued) <= Len(issued')
           /\ \A c \in Known \ {None} : issued'[c] = issued[c]
           /\ session \in 0 .. Len(issued')
           /\ session # None =>
                 session = sent \/ issued'[session].via = way
<1>0. issued \in Seq([host : Hosts, via : Ways]) /\ Len(issued) \in Nat /\ Len(issued) <= MaxCookies
  BY DEF TypeOK
<1>1. CASE session \in {sent, None} /\ UNCHANGED issued
  <2>1. issued' = issued /\ Len(issued') = Len(issued)  BY <1>1
  <2>2. session \in 0 .. Len(issued)  BY <1>0, <1>1 DEF Known, None
  <2>3. Len(issued) <= Len(issued)  BY <1>0
  <2>4. session # None => session = sent  BY <1>1
  <2> QED  BY <1>0, <2>1, <2>2, <2>3, <2>4
<1>2. CASE /\ Len(issued) < MaxCookies /\ session = Len(issued) + 1
           /\ \E h \in Hosts : issued' = Append(issued, [host |-> h, via |-> way])
  <2>1. PICK h \in Hosts : issued' = Append(issued, [host |-> h, via |-> way])  BY <1>2
  <2> DEFINE cookie == [host |-> h, via |-> way]
  <2>2. cookie \in [host : Hosts, via : Ways] /\ cookie.via = way  OBVIOUS
  <2> HIDE DEF cookie
  <2>3. issued' = Append(issued, cookie)  BY <2>1 DEF cookie
  <2>4. /\ issued' \in Seq([host : Hosts, via : Ways]) /\ Len(issued') = Len(issued) + 1
        /\ issued'[Len(issued) + 1] = cookie
        /\ \A c \in 1 .. Len(issued) : issued'[c] = issued[c]
    BY <1>0, <2>2, <2>3
  <2>5. \A c \in Known \ {None} : c \in 1 .. Len(issued)  BY <1>0 DEF Known, None
  <2> QED  BY <1>0, <1>2, <2>2, <2>4, <2>5
<1> QED  BY <1>1, <1>2 DEF Reply

\* What every step leaves alone: cookies issued, answers given, evidence found.
Grows ==
    /\ issued' \in Seq([host : Hosts, via : Ways]) /\ Len(issued') <= MaxCookies
    /\ Len(issued) <= Len(issued')
    /\ \A c \in Known \ {None} : issued'[c] = issued[c]
    /\ \A l \in Lives : live[l].done => live'[l] = live[l]
    /\ passed \subseteq passed'
    /\ byHand.pooled \subseteq byHand'.pooled /\ byHand.placed \subseteq byHand'.placed

\* A backend's entry changes into one that is the backend's own.
LEMMA Noted ==
    ASSUME TypeOK, NEW c \in 0 .. Len(issued'), Note(c),
           issued' \in Seq([host : Hosts, via : Ways]), Len(issued') <= MaxCookies
    PROVE  /\ pool' \in [Hosts -> [cookie : Cookies, rests : BOOLEAN]]
           /\ \A h \in Hosts : \/ pool'[h] = pool[h]
                               \/ pool'[h].cookie = c /\ c # None /\ issued'[c].host = h
<1>0. pool \in [Hosts -> [cookie : Cookies, rests : BOOLEAN]]  BY DEF TypeOK
<1>1. CASE c = None  BY <1>0, <1>1 DEF Note
<1>2. CASE c # None
  <2>1. issued'[c] \in [host : Hosts, via : Ways]  BY <1>2, Member
  <2>2. c \in Cookies  BY DEF Cookies
  <2>3. pool' = [pool EXCEPT ![issued'[c].host] = [cookie |-> c, rests |-> FALSE]]
    BY <1>2 DEF Note
  <2> QED  BY <1>0, <1>2, <2>1, <2>2, <2>3
<1> QED  BY <1>1, <1>2

LEMMA Cooled ==
    ASSUME TypeOK, NEW c \in Known, Cool(c)
    PROVE  /\ pool' \in [Hosts -> [cookie : Cookies, rests : BOOLEAN]]
           /\ \A h \in Hosts : pool'[h].cookie = pool[h].cookie
<1>0. /\ pool \in [Hosts -> [cookie : Cookies, rests : BOOLEAN]]
      /\ issued \in Seq([host : Hosts, via : Ways])
  BY DEF TypeOK
<1>1. CASE c = None  BY <1>0, <1>1 DEF Cool
<1>2. CASE c # None
  <2>0. issued[c] \in [host : Hosts, via : Ways]  BY <1>0, <1>2, Member DEF Known
  <2>1. Host(c) \in Hosts  BY <2>0 DEF Host
  <2>2. pool' = [pool EXCEPT ![Host(c)].rests = (pool[Host(c)].cookie # None)]
    BY <1>2 DEF Cool
  <2> QED  BY <1>0, <2>1, <2>2
<1> QED  BY <1>1, <1>2

\* Evidence stays evidence.
LEMMA Vouched ==
    ASSUME TypeOK, KnownInv, PooledOnEvidence, Grows,
           \A h \in Hosts :
              \/ pool'[h].cookie = pool[h].cookie
              \/ pool'[h].cookie = None
              \/ /\ issued'[pool'[h].cookie].host = h
                 /\ \/ pool'[h].cookie \in passed' \cup byHand'.pooled
                    \/ \E l \in Lives : live'[l].held /\ live'[l].session = pool'[h].cookie,
           \A l \in Lives : live[l].held => live[l].done
    PROVE  PooledOnEvidence'
<1> SUFFICES ASSUME NEW h \in Hosts, pool'[h].cookie # None
             PROVE  LET c == pool'[h].cookie IN
                       /\ issued'[c].host = h
                       /\ \/ c \in passed' \cup byHand'.pooled
                          \/ \E l \in Lives : live'[l].held /\ live'[l].session = c
  BY DEF PooledOnEvidence, Host
<1>1. CASE pool'[h].cookie = pool[h].cookie
  <2>1. pool[h].cookie \in Known \ {None}  BY <1>1 DEF KnownInv
  <2>2. issued'[pool[h].cookie].host = h  BY <1>1, <2>1 DEF PooledOnEvidence, Host, Grows
  <2>3. \/ pool[h].cookie \in passed \cup byHand.pooled
        \/ \E l \in Lives : live[l].held /\ live[l].session = pool[h].cookie
    BY <2>1 DEF PooledOnEvidence
  <2> QED  BY <1>1, <2>2, <2>3 DEF Grows
<1> QED  BY <1>1

\* The clock of a record stays a start of an answered request.
LEMMA StartedStays ==
    ASSUME NEW t, Started(t), Grows  PROVE Started(t)'
BY DEF Started, Grows

-----------------------------------------------------------------------------
(* The steps that leave live requests and their clock alone.                 *)

\* What such a step has to show.
Beside ==
    /\ UNCHANGED <<live, clock>>
    /\ Grows
    /\ jar' \in Jar /\ proxyJar' \in Cookies
    /\ pool' \in [Hosts -> [cookie : Cookies, rests : BOOLEAN]]
    /\ \E c \in 0 .. Len(issued') : slot' \in {{}, {c}, slot}
    /\ probe' \in [Probes -> ProbeRequest]
    /\ used' \in 0 .. MaxProbes
    /\ hand' \in [host : Hosts \cup {"none"}, copy : Jar]
    /\ passed' \subseteq 0 .. Len(issued')
    /\ byHand' \in [pooled : SUBSET Cookies, placed : SUBSET Cookies]
    /\ byHand'.pooled \subseteq 0 .. Len(issued') /\ byHand'.placed \subseteq 0 .. Len(issued')
    /\ jar'.cookie \in 0 .. Len(issued') /\ proxyJar' \in 0 .. Len(issued')
    /\ \A p \in Probes : /\ probe'[p].sent \in 0 .. Len(issued')
                         /\ probe'[p].session \in 0 .. Len(issued')
                         /\ probe'[p].copy.cookie \in 0 .. Len(issued')
                         /\ Started(probe'[p].copy.live)
    /\ hand'.copy.cookie \in 0 .. Len(issued')
    /\ Started(jar'.live) /\ Started(hand'.copy.live)
    /\ \A h \in Hosts :
          \/ pool'[h].cookie = pool[h].cookie
          \/ pool'[h].cookie = None
          \/ /\ pool'[h].cookie \in 0 .. Len(issued')
             /\ issued'[pool'[h].cookie].host = h
             /\ pool'[h].cookie \in passed' \cup byHand'.pooled

LEMMA BesideKeeps ==
    ASSUME SessionInv, Beside
    PROVE  SessionInv'
<1>0. TypeOK /\ KnownInv /\ ClockInv /\ PooledOnEvidence  BY DEF SessionInv
<1>1. Len(issued) \in Nat /\ Len(issued') \in Nat /\ Known \subseteq 0 .. Len(issued')
      /\ 0 .. Len(issued') \subseteq Cookies
  <2>1. /\ Len(issued) \in Nat /\ Len(issued') \in Nat
        /\ Len(issued') <= MaxCookies /\ Len(issued) <= Len(issued')
    BY <1>0 DEF TypeOK, Beside, Grows
  <2> QED  BY <2>1, BoundsAssumption DEF Known, Cookies
<1>2. slot' \subseteq 0 .. Len(issued') /\ Cardinality(slot') <= 1
  <2>1. PICK c \in 0 .. Len(issued') : slot' \in {{}, {c}, slot}  BY DEF Beside
  <2>2. Cardinality({}) = 0 /\ Cardinality({c}) = 1  BY FS_EmptySet, FS_Singleton
  <2>3. slot \subseteq Known /\ Cardinality(slot) <= 1  BY <1>0 DEF TypeOK, KnownInv
  <2>4. CASE slot' = {}  BY <2>2, <2>4
  <2>5. CASE slot' = {c}  BY <2>2, <2>5
  <2>6. CASE slot' = slot  BY <1>1, <2>3, <2>6
  <2> QED  BY <2>1, <2>4, <2>5, <2>6
<1>3. TypeOK'
  <2>1. slot' \subseteq Cookies /\ passed' \subseteq Cookies  BY <1>1, <1>2 DEF Beside
  <2>2. live' \in [Lives -> Turn]
        /\ clock' \in 0 .. Cardinality(Lives)
    BY <1>0 DEF TypeOK, Beside
  <2> QED  BY <1>2, <2>1, <2>2 DEF TypeOK, Beside, Grows
<1>4. KnownInv'
  <2>1. \A h \in Hosts : pool'[h].cookie \in 0 .. Len(issued')
    <3>1. None \in 0 .. Len(issued')  BY <1>1 DEF None
    <3> QED  BY <1>0, <1>1, <3>1 DEF KnownInv, Beside
  <2>2. \A l \in Lives : live'[l].sent \in 0 .. Len(issued') /\ live'[l].session \in 0 .. Len(issued')
    BY <1>0, <1>1 DEF KnownInv, Beside
  <2> QED  BY <1>2, <2>1, <2>2 DEF KnownInv, Known, Beside
<1>5. ClockInv'
  <2>1. Sent' = Sent  BY DEF Sent, Beside
  <2>2. \A t : Started(t)' <=> Started(t)  BY DEF Started, Beside
  <2>3. Started(jar.live)' /\ Started(hand.copy.live)' /\ \A p \in Probes : Started(probe[p].copy.live)'
    BY DEF Started, Beside
  <2> QED  BY <1>0, <2>1, <2>3 DEF ClockInv, Beside
<1>6. PooledOnEvidence'
  <2>1. \A h \in Hosts :
          \/ pool'[h].cookie = pool[h].cookie
          \/ pool'[h].cookie = None
          \/ /\ issued'[pool'[h].cookie].host = h
             /\ \/ pool'[h].cookie \in passed' \cup byHand'.pooled
                \/ \E l \in Lives : live'[l].held /\ live'[l].session = pool'[h].cookie
    BY DEF Beside
  <2> QED  BY <1>0, <2>1, Vouched DEF Beside, ClockInv
<1> QED  BY <1>3, <1>4, <1>5, <1>6 DEF SessionInv

\* What a step that changes no cookie issued before leaves of the rest.
LEMMA Rest ==
    ASSUME SessionInv, Grows
    PROVE  /\ None \in 0 .. Len(issued') /\ 0 .. Len(issued') \subseteq Cookies
           /\ Known \subseteq 0 .. Len(issued')
           /\ jar \in Jar /\ proxyJar \in Cookies /\ NoJar \in Jar
           /\ pool \in [Hosts -> [cookie : Cookies, rests : BOOLEAN]]
           /\ probe \in [Probes -> ProbeRequest]
           /\ used \in 0 .. MaxProbes
           /\ hand \in [host : Hosts \cup {"none"}, copy : Jar]
           /\ passed \subseteq 0 .. Len(issued')
           /\ byHand \in [pooled : SUBSET Cookies, placed : SUBSET Cookies]
           /\ byHand.pooled \subseteq 0 .. Len(issued') /\ byHand.placed \subseteq 0 .. Len(issued')
           /\ jar.cookie \in 0 .. Len(issued') /\ proxyJar \in 0 .. Len(issued')
           /\ \A p \in Probes : /\ probe[p].sent \in 0 .. Len(issued')
                                /\ probe[p].session \in 0 .. Len(issued')
                                /\ probe[p].copy.cookie \in 0 .. Len(issued')
                                /\ Started(probe[p].copy.live)
           /\ hand.copy.cookie \in 0 .. Len(issued')
           /\ Started(jar.live) /\ Started(hand.copy.live) /\ Started(None)
<1>0. TypeOK /\ KnownInv /\ ClockInv  BY DEF SessionInv
<1>1. /\ None \in 0 .. Len(issued') /\ 0 .. Len(issued') \subseteq Cookies
      /\ Known \subseteq 0 .. Len(issued')
  BY <1>0 DEF TypeOK, Grows, Known, Cookies, None
<1>2. Cardinality(Lives) \in Nat  BY FS_CardinalityType
<1>3. NoJar \in Jar /\ Started(None)  BY <1>1, <1>2 DEF NoJar, Jar, None, Started
<1> QED  BY <1>0, <1>1, <1>3 DEF TypeOK, KnownInv, ClockInv

LEMMA Grown ==
    ASSUME SessionInv,
           \/ UNCHANGED issued
           \/ \E sent \in Known, way \in Ways : \E session : Reply(sent, way, session),
           \A l \in Lives : live[l].done => live'[l] = live[l],
           passed \subseteq passed',
           byHand.pooled \subseteq byHand'.pooled, byHand.placed \subseteq byHand'.placed
    PROVE  Grows
<1>0. TypeOK  BY DEF SessionInv
<1>1. CASE UNCHANGED issued
  <2>1. Len(issued) <= Len(issued)  BY <1>0 DEF TypeOK
  <2> QED  BY <1>0, <1>1, <2>1 DEF TypeOK, Grows
<1>2. CASE \E sent \in Known, way \in Ways : \E session : Reply(sent, way, session)
  <2>1. PICK sent \in Known, way \in Ways : \E session : Reply(sent, way, session)  BY <1>2
  <2>2. PICK session : Reply(sent, way, session)  BY <2>1
  <2> QED  BY <1>0, <2>2, Replied DEF Grows
<1> QED  BY <1>1, <1>2

LEMMA Recorded ==
    ASSUME NEW record \in Jar, NEW c \in Cookies
    PROVE  /\ WithCookie(record, c) \in Jar /\ WithCookie(record, c).live = record.live
           /\ WithCookie(record, c).cookie \in {c, record.cookie}
           /\ c # None => WithCookie(record, c).cookie = c
BY DEF WithCookie, Jar

\* The steps that change neither the pool, nor an issued cookie, nor a history.
LEMMA QuietSteps ==
    ASSUME SessionInv,
           \/ \E p \in Probes : SaveSession(p) \/ ProbeFails(p)
           \/ \E h \in Hosts : UseReads(h)
           \/ UseSaves
           \/ \E l \in Lives : PoolStateByHand(l)
           \/ \E h \in Hosts : CooldownEnds(h)
           \/ ClearHistory \/ DeleteCredentialData
    PROVE  Beside
<1>0. TypeOK /\ KnownInv  BY DEF SessionInv
<1>1. Grows /\ UNCHANGED <<issued, live, clock>>
  <2>1. UNCHANGED <<issued, live, clock, passed>>
    BY DEF SaveSession, ProbeFails, UseReads, UseSaves, PoolStateByHand, CooldownEnds,
           ClearHistory, DeleteCredentialData
  <2>2. byHand.pooled \subseteq byHand'.pooled /\ byHand.placed \subseteq byHand'.placed
    BY <1>0 DEF TypeOK, SaveSession, ProbeFails, UseReads, UseSaves, PoolStateByHand, CooldownEnds,
           ClearHistory, DeleteCredentialData
  <2> QED  BY <2>1, <2>2, Grown
<1>2. slot' = slot => \E c \in 0 .. Len(issued') : slot' \in {{}, {c}, slot}  BY <1>1, Rest
<1>3. ASSUME NEW p \in Probes, SaveSession(p)  PROVE Beside
  <2>1. /\ probe' = [probe EXCEPT ![p].at = "judging"]
        /\ UNCHANGED <<pool, slot, used, hand, passed, byHand>>
        /\ \/ proxyJar' = probe[p].session /\ UNCHANGED jar
           \/ jar' = WithCookie(probe[p].copy, probe[p].session) /\ UNCHANGED proxyJar
    BY <1>3 DEF SaveSession
  <2>2. probe[p].copy \in Jar /\ probe[p].session \in Cookies
    <3>1. probe[p] \in ProbeRequest  BY <1>1, Rest
    <3> QED  BY <3>1 DEF ProbeRequest
  <2>3. /\ jar' \in Jar /\ jar'.cookie \in 0 .. Len(issued') /\ Started(jar'.live)
        /\ proxyJar' \in Cookies /\ proxyJar' \in 0 .. Len(issued')
    <3>1. probe[p].session \in 0 .. Len(issued') /\ probe[p].copy.cookie \in 0 .. Len(issued')
          /\ Started(probe[p].copy.live)
      BY <1>1, Rest
    <3>2. CASE proxyJar' = probe[p].session /\ UNCHANGED jar  BY <1>1, <2>2, <3>1, <3>2, Rest
    <3>3. CASE jar' = WithCookie(probe[p].copy, probe[p].session) /\ UNCHANGED proxyJar
      BY <1>1, <2>2, <3>1, <3>3, Rest, Recorded
    <3> QED  BY <2>1, <3>2, <3>3
  <2>4. probe[p] \in ProbeRequest  BY <1>1, Rest
  <2>5. [probe[p] EXCEPT !.at = "judging"] \in ProbeRequest  BY <2>4 DEF ProbeRequest
  <2>6. /\ probe' \in [Probes -> ProbeRequest]
        /\ \A q \in Probes : /\ probe'[q].sent = probe[q].sent /\ probe'[q].session = probe[q].session
                              /\ probe'[q].copy = probe[q].copy
    <3>1. probe \in [Probes -> ProbeRequest]  BY <1>1, Rest
    <3>2. probe'[p] = [probe[p] EXCEPT !.at = "judging"] /\ \A q \in Probes : q # p => probe'[q] = probe[q]
      BY <2>1, <3>1
    <3>3. /\ probe'[p].sent = probe[p].sent /\ probe'[p].session = probe[p].session
          /\ probe'[p].copy = probe[p].copy
      BY <2>4, <3>2 DEF ProbeRequest
    <3> QED  BY <2>1, <2>5, <3>1, <3>2, <3>3
  <2> QED  BY <1>1, <1>2, <2>1, <2>3, <2>6, Rest DEF Beside
<1>4. ASSUME NEW p \in Probes, ProbeFails(p)  PROVE Beside
  <2>1. /\ probe' = [probe EXCEPT ![p] = NoProbe]
        /\ UNCHANGED <<jar, proxyJar, pool, slot, used, hand, passed, byHand>>
    BY <1>4 DEF ProbeFails
  <2>2. /\ NoProbe \in ProbeRequest
        /\ NoProbe.sent = None /\ NoProbe.session = None /\ NoProbe.copy = NoJar
        /\ NoJar.live = None /\ NoJar.cookie = None
    BY <1>1, Rest DEF NoProbe, Ways, NoJar, ProbeRequest
  <2> HIDE DEF NoProbe
  <2> QED  BY <1>1, <1>2, <2>1, <2>2, Rest DEF Beside
<1>5. ASSUME NEW h \in Hosts, UseReads(h)  PROVE Beside
  <2>1. /\ hand' = [host |-> h, copy |-> WithCookie(jar, pool[h].cookie)]
        /\ UNCHANGED <<jar, proxyJar, pool, slot, probe, used, passed, byHand>>
    BY <1>5 DEF UseReads
  <2>2. pool[h].cookie \in Cookies /\ pool[h].cookie \in 0 .. Len(issued')
    BY <1>0, <1>1, Rest DEF KnownInv
  <2>3. /\ hand' \in [host : Hosts \cup {"none"}, copy : Jar]
        /\ hand'.copy.cookie \in 0 .. Len(issued') /\ Started(hand'.copy.live)
    BY <1>1, <2>1, <2>2, Rest DEF WithCookie, Jar
  <2> QED  BY <1>1, <1>2, <2>1, <2>3, Rest DEF Beside
<1>6. CASE UseSaves
  <2>1. /\ jar' = hand.copy /\ hand' = NoHand
        /\ byHand' = [byHand EXCEPT !.placed = @ \cup {hand.copy.cookie}]
        /\ UNCHANGED <<proxyJar, pool, slot, probe, used, passed>>
    BY <1>6 DEF UseSaves
  <2>2. /\ hand' \in [host : Hosts \cup {"none"}, copy : Jar]
        /\ hand'.copy.cookie \in 0 .. Len(issued') /\ Started(hand'.copy.live)
    BY <1>1, <2>1, Rest DEF NoHand, NoJar
  <2>3. /\ byHand' \in [pooled : SUBSET Cookies, placed : SUBSET Cookies]
        /\ byHand'.pooled \subseteq 0 .. Len(issued') /\ byHand'.placed \subseteq 0 .. Len(issued')
    BY <1>1, <2>1, Rest
  <2> QED  BY <1>1, <1>2, <2>1, <2>2, <2>3, Rest DEF Beside
<1>7. ASSUME NEW l \in Lives, PoolStateByHand(l)  PROVE Beside
  <2>1. /\ slot' = {live[l].session}
        /\ UNCHANGED <<jar, proxyJar, pool, probe, used, hand, passed, byHand>>
    BY <1>7 DEF PoolStateByHand
  <2>2. live[l].session \in 0 .. Len(issued')  BY <1>0, <1>1, Rest DEF KnownInv
  <2> QED  BY <1>1, <2>1, <2>2, Rest DEF Beside
<1>8. ASSUME NEW h \in Hosts, CooldownEnds(h)  PROVE Beside
  <2>1. /\ pool' = [pool EXCEPT ![h].rests = FALSE]
        /\ UNCHANGED <<jar, proxyJar, slot, probe, used, hand, passed, byHand>>
    BY <1>8 DEF CooldownEnds
  <2>2. /\ pool' \in [Hosts -> [cookie : Cookies, rests : BOOLEAN]]
        /\ \A g \in Hosts : pool'[g].cookie = pool[g].cookie
    BY <1>1, <2>1, Rest
  <2> QED  BY <1>1, <1>2, <2>1, <2>2, Rest DEF Beside
<1>9. CASE ClearHistory
  <2>1. /\ jar' = NoJar /\ proxyJar' = None
        /\ UNCHANGED <<pool, slot, probe, used, hand, passed, byHand>>
    BY <1>9 DEF ClearHistory
  <2>2. NoJar.live = None /\ NoJar.cookie = None  BY DEF NoJar
  <2>3. None \in Cookies  BY <1>1, Rest
  <2> QED  BY <1>1, <1>2, <2>1, <2>2, <2>3, Rest DEF Beside
<1>10. CASE DeleteCredentialData
  <2>1. /\ pool' = [h \in Hosts |-> NoEntry] /\ slot' = {}
        /\ UNCHANGED <<jar, proxyJar, probe, used, hand, passed, byHand>>
    BY <1>10 DEF DeleteCredentialData
  <2>2. None \in Cookies  BY <1>1, Rest
  <2>3. /\ pool' \in [Hosts -> [cookie : Cookies, rests : BOOLEAN]]
        /\ \A g \in Hosts : pool'[g].cookie = None
    BY <2>1, <2>2 DEF NoEntry
  <2> QED  BY <1>1, <1>2, <2>1, <2>3, Rest DEF Beside
<1> QED  BY <1>3, <1>4, <1>5, <1>6, <1>7, <1>8, <1>9, <1>10

LEMMA RetryPoolsBeside ==
    ASSUME SessionInv, NEW l \in Lives, NEW way \in Ways, NEW session, RetryPools(l, way, session)
    PROVE  Beside
<1>0. TypeOK /\ KnownInv  BY DEF SessionInv
<1>1. /\ Reply(live[l].session, way, session) /\ slot' = {session}
      /\ UNCHANGED <<live, clock, jar, proxyJar, pool, probe, used, hand, passed, byHand>>
  BY DEF RetryPools
<1>2. live[l].session \in Known  BY <1>0 DEF KnownInv
<1>3. Grows  BY <1>1, <1>2, Grown
<1>4. session \in 0 .. Len(issued')  BY <1>0, <1>1, <1>2, Replied
<1> QED  BY <1>1, <1>3, <1>4, Rest DEF Beside

LEMMA SendProbeBeside ==
    ASSUME SessionInv, NEW p \in Probes, NEW setup \in Setups, NEW c, SendProbe(p, setup, c)
    PROVE  Beside
<1>0. TypeOK /\ KnownInv  BY DEF SessionInv
<1>1. /\ Presents(setup[1], c) /\ used < MaxProbes /\ used' = used + 1
      /\ probe' = [probe EXCEPT ![p] = [NoProbe EXCEPT !.at = "sent", !.mode = setup[1],
                                                       !.egress = setup[2], !.sent = c]]
      /\ UNCHANGED <<live, clock, jar, proxyJar, pool, slot, hand, passed, byHand>>
  BY DEF SendProbe
<1>2. None \in Known  BY <1>0 DEF TypeOK, Known, None
<1>3. Grows  BY <1>1, <1>2, Grown DEF Presents, Ways
<1>4. c \in 0 .. Len(issued')
  <2>1. CASE UNCHANGED issued /\ c \in {jar.cookie, proxyJar, None} \cup {pool[h].cookie : h \in Hosts}
    BY <1>0, <1>2, <2>1 DEF KnownInv, Known
  <2>2. CASE Reply(None, "proxy", c)  BY <1>0, <1>2, <2>2, Replied DEF Ways
  <2> QED  BY <1>1, <2>1, <2>2 DEF Presents
<1>5. setup[1] \in {"credential", "pool", "static", "rotating"} /\ setup[2] \in Ways
  BY DEF AllSetups, Ways
<1> DEFINE new == [NoProbe EXCEPT !.at = "sent", !.mode = setup[1], !.egress = setup[2], !.sent = c]
<1>6. c \in Cookies /\ None \in Cookies /\ NoJar \in Jar  BY <1>3, <1>4, Rest
<1>7. /\ new \in ProbeRequest /\ new.sent = c /\ new.session = None /\ new.copy = NoJar
      /\ NoJar.cookie = None /\ NoJar.live = None
  BY <1>5, <1>6 DEF NoProbe, NoJar, ProbeRequest
<1> HIDE DEF new
<1>8. probe' \in [Probes -> ProbeRequest] /\ probe'[p] = new /\ \A q \in Probes : q # p => probe'[q] = probe[q]
  BY <1>1, <1>3, <1>7, Rest DEF new
<1>9. used' \in 0 .. MaxProbes  BY <1>0, <1>1 DEF TypeOK
<1>10. \A q \in Probes : /\ probe'[q].sent \in 0 .. Len(issued') /\ probe'[q].session \in 0 .. Len(issued')
                         /\ probe'[q].copy.cookie \in 0 .. Len(issued') /\ Started(probe'[q].copy.live)
  BY <1>3, <1>4, <1>7, <1>8, Rest
<1> QED  BY <1>1, <1>2, <1>3, <1>8, <1>9, <1>10, Rest DEF Beside

LEMMA ProbeAnswersBeside ==
    ASSUME SessionInv, NEW p \in Probes, NEW session, ProbeAnswers(p, session)
    PROVE  Beside
<1>0. TypeOK /\ KnownInv  BY DEF SessionInv
<1> DEFINE r == probe[p]
           own == IF r.mode = "static" THEN [live |-> None, cookie |-> proxyJar] ELSE jar
           new == [r EXCEPT !.at = IF Keeps(r, session) THEN "copied" ELSE "judging",
                            !.session = session, !.copy = own]
<1>1. /\ Reply(r.sent, r.egress, session) /\ probe' = [probe EXCEPT ![p] = new]
      /\ UNCHANGED <<live, clock, jar, proxyJar, pool, slot, used, hand, passed, byHand>>
  BY DEF ProbeAnswers
<1>2. r \in ProbeRequest /\ r.sent \in Known /\ r.egress \in Ways
  BY <1>0 DEF TypeOK, KnownInv, ProbeRequest
<1>3. Grows  BY <1>1, <1>2, Grown
<1>4. session \in 0 .. Len(issued')  BY <1>0, <1>1, <1>2, Replied
<1>5. own \in Jar /\ own.cookie \in 0 .. Len(issued') /\ Started(own.live)
  <2>1. CASE r.mode = "static"
    <3>1. own = [live |-> None, cookie |-> proxyJar]  BY <2>1
    <3>2. None \in 0 .. Cardinality(Lives)  BY FS_CardinalityType DEF None
    <3> QED  BY <1>3, <3>1, <3>2, Rest DEF Jar
  <2>2. CASE r.mode # "static"  BY <1>3, <2>2, Rest
  <2> QED  BY <2>1, <2>2
<1>6. session \in Cookies  BY <1>3, <1>4, Rest
<1> HIDE DEF own
<1>7. new \in ProbeRequest /\ new.sent = r.sent /\ new.session = session /\ new.copy = own
  BY <1>2, <1>5, <1>6 DEF ProbeRequest
<1> HIDE DEF new, r
<1>8. probe' \in [Probes -> ProbeRequest] /\ probe'[p] = new /\ \A q \in Probes : q # p => probe'[q] = probe[q]
  BY <1>1, <1>3, <1>7, Rest
<1>9. \A q \in Probes : /\ probe'[q].sent \in 0 .. Len(issued') /\ probe'[q].session \in 0 .. Len(issued')
                        /\ probe'[q].copy.cookie \in 0 .. Len(issued') /\ Started(probe'[q].copy.live)
  <2>1. r.sent \in 0 .. Len(issued')  BY <1>2, <1>3, Rest
  <2> QED  BY <1>3, <1>4, <1>5, <1>7, <1>8, <2>1, Rest
<1> QED  BY <1>1, <1>3, <1>4, <1>8, <1>9, Rest DEF Beside

LEMMA VerdictBeside ==
    ASSUME SessionInv, NEW p \in Probes, NEW session,
           NEW verdict \in {"passed", "degraded", "unjudged"}, Verdict(p, verdict, session)
    PROVE  Beside
<1>0. TypeOK /\ KnownInv  BY DEF SessionInv
<1> DEFINE r == probe[p]
<1>1. /\ \/ session = r.session /\ UNCHANGED issued
         \/ Reply(r.session, r.egress, session)
      /\ slot' \in {{session}, slot}
      /\ probe' = [probe EXCEPT ![p] = NoProbe]
      /\ \/ Note(session) /\ passed' = passed \cup {session}
         \/ Cool(r.sent) /\ UNCHANGED passed
         \/ UNCHANGED <<pool, passed>>
      /\ UNCHANGED <<live, clock, jar, proxyJar, used, hand, byHand>>
  BY DEF Verdict
<1>2. r.sent \in Known /\ r.session \in Known /\ r.egress \in Ways
  BY <1>0 DEF TypeOK, KnownInv, ProbeRequest
<1> HIDE DEF r
<1>3. Grows  BY <1>1, <1>2, Grown
<1>4. session \in 0 .. Len(issued')  BY <1>0, <1>1, <1>2, <1>3, Replied, Rest
<1>5. /\ NoProbe \in ProbeRequest
      /\ NoProbe.sent = None /\ NoProbe.session = None /\ NoProbe.copy = NoJar
      /\ NoJar.live = None /\ NoJar.cookie = None
  BY <1>3, Rest DEF NoProbe, Ways, NoJar, ProbeRequest
<1> HIDE DEF NoProbe
<1>6. /\ probe' \in [Probes -> ProbeRequest]
      /\ \A q \in Probes : /\ probe'[q].sent \in 0 .. Len(issued') /\ probe'[q].session \in 0 .. Len(issued')
                           /\ probe'[q].copy.cookie \in 0 .. Len(issued') /\ Started(probe'[q].copy.live)
  BY <1>1, <1>3, <1>5, Rest
<1>7. \E c \in 0 .. Len(issued') : slot' \in {{}, {c}, slot}  BY <1>1, <1>4
<1>8. passed' \subseteq 0 .. Len(issued')  BY <1>1, <1>3, <1>4, Rest
<1>9. /\ pool' \in [Hosts -> [cookie : Cookies, rests : BOOLEAN]]
      /\ \A h \in Hosts :
            \/ pool'[h].cookie = pool[h].cookie
            \/ /\ pool'[h].cookie \in 0 .. Len(issued') /\ issued'[pool'[h].cookie].host = h
               /\ pool'[h].cookie \in passed'
  <2>1. CASE Note(session) /\ passed' = passed \cup {session}
    <3>1. /\ pool' \in [Hosts -> [cookie : Cookies, rests : BOOLEAN]]
          /\ \A h \in Hosts : \/ pool'[h] = pool[h]
                              \/ pool'[h].cookie = session /\ session # None /\ issued'[session].host = h
      BY <1>0, <1>3, <1>4, <2>1, Noted DEF Grows
    <3> QED  BY <1>4, <2>1, <3>1
  <2>2. CASE Cool(r.sent) /\ UNCHANGED passed  BY <1>0, <1>2, <2>2, Cooled
  <2>3. CASE UNCHANGED <<pool, passed>>  BY <1>3, <2>3, Rest
  <2> QED  BY <1>1, <2>1, <2>2, <2>3
<1> QED  BY <1>1, <1>3, <1>6, <1>7, <1>8, <1>9, Rest DEF Beside

LEMMA PoolCookieBeside ==
    ASSUME SessionInv, NEW c \in 1 .. Len(issued), PoolCookieByHand(c)
    PROVE  Beside
<1>0. TypeOK /\ KnownInv  BY DEF SessionInv
<1>1. /\ UNCHANGED issued /\ Note(c) /\ byHand' = [byHand EXCEPT !.pooled = @ \cup {c}]
      /\ UNCHANGED <<live, clock, jar, proxyJar, slot, probe, used, hand, passed>>
  BY DEF PoolCookieByHand
<1>2. /\ byHand \in [pooled : SUBSET Cookies, placed : SUBSET Cookies]
      /\ c \in 0 .. Len(issued) /\ c \in Cookies
  BY <1>0 DEF TypeOK, Cookies
<1>3. /\ byHand' \in [pooled : SUBSET Cookies, placed : SUBSET Cookies]
      /\ byHand'.pooled = byHand.pooled \cup {c} /\ byHand'.placed = byHand.placed
  BY <1>1, <1>2
<1>4. Grows  BY <1>1, <1>3, Grown
<1>5. byHand'.pooled \subseteq 0 .. Len(issued') /\ byHand'.placed \subseteq 0 .. Len(issued')
  BY <1>1, <1>2, <1>3, <1>4, Rest
<1>6. /\ pool' \in [Hosts -> [cookie : Cookies, rests : BOOLEAN]]
      /\ \A h \in Hosts :
            \/ pool'[h].cookie = pool[h].cookie
            \/ /\ pool'[h].cookie \in 0 .. Len(issued') /\ issued'[pool'[h].cookie].host = h
               /\ pool'[h].cookie \in byHand'.pooled
  <2>1. c \in 0 .. Len(issued')  BY <1>1, <1>2
  <2>2. /\ pool' \in [Hosts -> [cookie : Cookies, rests : BOOLEAN]]
        /\ \A h \in Hosts : \/ pool'[h] = pool[h]
                            \/ pool'[h].cookie = c /\ c # None /\ issued'[c].host = h
    BY <1>0, <1>1, <1>4, <2>1, Noted DEF Grows
  <2> QED  BY <1>3, <2>1, <2>2
<1>7. slot' \in {{}, {c}, slot}  BY <1>1
<1> QED  BY <1>1, <1>2, <1>3, <1>4, <1>5, <1>6, <1>7, Rest DEF Beside

-----------------------------------------------------------------------------
(* Live traffic.                                                             *)

LEMMA SendLiveKeeps ==
    ASSUME SessionInv, NEW l \in Lives, NEW own \in Known, NEW chain \in BOOLEAN,
           SendLive(l, own, chain)
    PROVE  SessionInv'
<1>0. TypeOK /\ KnownInv /\ ClockInv /\ PooledOnEvidence  BY DEF SessionInv
<1>1. PICK sent \in Known, ours \in BOOLEAN :
        /\ live[l].at = None /\ clock' = clock + 1
        /\ live' = [live EXCEPT ![l] = [Unsent EXCEPT !.at = clock + 1, !.sent = sent,
                                                      !.chain = chain, !.ours = ours]]
        /\ UNCHANGED <<issued, jar, proxyJar, pool, slot, probe, used, hand, passed, byHand>>
  <2> DEFINE ours == ForwardCookie /\ slot \notin {{}, {None}}
             sent == IF ours THEN CHOOSE c \in slot : TRUE ELSE own
  <2>1. ours \in BOOLEAN  OBVIOUS
  <2>2. sent \in Known
    <3>1. ours => (CHOOSE c \in slot : TRUE) \in slot  OBVIOUS
    <3> QED  BY <1>0, <3>1 DEF KnownInv
  <2>3. live' = [live EXCEPT ![l] = [Unsent EXCEPT !.at = clock + 1, !.sent = sent,
                                                   !.chain = chain, !.ours = ours]]
    BY DEF SendLive
  <2> HIDE DEF ours, sent
  <2> QED  BY <2>1, <2>2, <2>3 DEF SendLive
<1>2. sent \in Known  BY <1>1
<1>3. /\ live[l].done = FALSE /\ live[l].held = FALSE /\ live[l] \in Turn /\ live \in [Lives -> Turn]
  BY <1>0, <1>1 DEF TypeOK, ClockInv, Turn
<1>4. IsFiniteSet(Sent) /\ l \notin Sent /\ Cardinality(Lives) \in Nat
      /\ Cardinality(Sent \cup {l}) = clock + 1 /\ Cardinality(Sent \cup {l}) <= Cardinality(Lives)
      /\ clock \in Nat
  <2>1. Sent \subseteq Lives /\ l \notin Sent /\ Sent \cup {l} \subseteq Lives  BY <1>1 DEF Sent
  <2>2. IsFiniteSet(Sent)  BY <2>1, FS_Subset
  <2>3. Cardinality(Sent \cup {l}) = Cardinality(Sent) + 1  BY <2>1, <2>2, FS_AddElement
  <2>4. Cardinality(Sent \cup {l}) <= Cardinality(Lives)  BY <2>1, FS_Subset
  <2>5. Cardinality(Lives) \in Nat /\ Cardinality(Sent) \in Nat  BY <2>2, FS_CardinalityType
  <2> QED  BY <1>0, <2>1, <2>2, <2>3, <2>4, <2>5 DEF ClockInv
<1> DEFINE new == [Unsent EXCEPT !.at = clock + 1, !.sent = sent, !.chain = chain, !.ours = ours]
<1>5. None \in Known /\ Known \subseteq Cookies /\ sent \in Cookies
  BY <1>0, <1>2 DEF TypeOK, Known, Cookies, None
<1>6. /\ new \in Turn /\ new.at = clock + 1 /\ new.sent = sent /\ new.session = None
      /\ new.done = FALSE /\ new.held = FALSE
  <2>1. clock + 1 \in 0 .. Cardinality(Lives) /\ None \in 0 .. Cardinality(Lives)
    BY <1>4 DEF None
  <2>2. Unsent \in Turn /\ Unsent.session = None /\ Unsent.done = FALSE /\ Unsent.held = FALSE
    BY <1>5, <2>1 DEF Unsent, Turn
  <2> QED  BY <1>5, <2>1, <2>2 DEF Turn
<1> HIDE DEF new
<1>7. live' \in [Lives -> Turn] /\ live'[l] = new /\ \A m \in Lives : m # l => live'[m] = live[m]
  BY <1>1, <1>3, <1>6 DEF new
<1>8. Sent' = Sent \cup {l}
  <2>1. new.at # None  BY <1>4, <1>6 DEF None
  <2> QED  BY <1>7, <2>1 DEF Sent
<1>9. TypeOK'
  <2>1. clock' \in 0 .. Cardinality(Lives)  BY <1>1, <1>4
  <2> QED  BY <1>0, <1>1, <1>7, <2>1 DEF TypeOK
<1>10. KnownInv'
  <2>1. \A m \in Lives : live'[m].sent \in Known /\ live'[m].session \in Known
    BY <1>0, <1>2, <1>5, <1>6, <1>7 DEF KnownInv
  <2>2. Known' = Known  BY <1>1 DEF Known
  <2> QED  BY <1>0, <1>1, <2>1, <2>2 DEF KnownInv
<1>11. ClockInv'
  <2>1. \A t : Started(t) => Started(t)'  BY <1>3, <1>7 DEF Started
  <2>2. \A m \in Lives : (live'[m].done => live'[m].at # None) /\ (live'[m].held => live'[m].done)
    BY <1>0, <1>6, <1>7 DEF ClockInv
  <2>3. Started(jar.live)' /\ Started(hand.copy.live)' /\ \A p \in Probes : Started(probe[p].copy.live)'
    BY <1>0, <1>1, <1>3, <1>7 DEF ClockInv, Started
  <2> QED  BY <1>1, <1>4, <1>8, <2>2, <2>3 DEF ClockInv
<1>12. PooledOnEvidence'
  BY <1>0, <1>1, <1>3, <1>7 DEF PooledOnEvidence, Host
<1> QED  BY <1>9, <1>10, <1>11, <1>12 DEF SessionInv

LEMMA LiveAnswersKeeps ==
    ASSUME SessionInv, NEW l \in Lives, NEW session, NEW fresh \in BOOLEAN,
           LiveAnswers(l, session, fresh)
    PROVE  SessionInv'
<1>0. TypeOK /\ KnownInv /\ ClockInv /\ PooledOnEvidence  BY DEF SessionInv
<1> DEFINE r == live[l]
           held == r.chain /\ ~fresh
           new == [r EXCEPT !.done = TRUE, !.held = held, !.session = session]
<1>1. /\ r.at # None /\ ~r.done /\ Reply(r.sent, "direct", session)
      /\ jar' = WithCookie([jar EXCEPT !.live = r.at], session)
      /\ live' = [live EXCEPT ![l] = new]
      /\ (held /\ Note(session)) \/ Cool(r.sent) \/ UNCHANGED pool
      /\ slot' \in {{}, slot}
      /\ UNCHANGED <<clock, proxyJar, probe, used, hand, passed, byHand>>
  BY DEF LiveAnswers
<1>2. r \in Turn /\ r.sent \in Known /\ live \in [Lives -> Turn]
  BY <1>0 DEF TypeOK, KnownInv
<1>3. \A m \in Lives : live[m].done => live'[m] = live[m]  BY <1>1, <1>2
<1>4. Grows  BY <1>1, <1>2, <1>3, Grown DEF Ways
<1>5. session \in 0 .. Len(issued')  BY <1>0, <1>1, <1>2, Replied DEF Ways
<1>6. session \in Cookies  BY <1>4, <1>5, Rest
<1>7. held \in BOOLEAN  BY <1>2 DEF Turn
<1> HIDE DEF held
<1>8. /\ new \in Turn /\ new.at = r.at /\ new.sent = r.sent /\ new.session = session
      /\ new.done = TRUE /\ new.held = held
  BY <1>2, <1>6, <1>7 DEF Turn
<1> HIDE DEF new
<1>9. live' \in [Lives -> Turn] /\ live'[l] = new /\ \A m \in Lives : m # l => live'[m] = live[m]
  BY <1>1, <1>2, <1>8
<1>10. jar' \in Jar /\ jar'.cookie \in 0 .. Len(issued') /\ jar'.live = r.at
  <2>1. jar \in Jar /\ jar.cookie \in 0 .. Len(issued')  BY <1>4, Rest
  <2>2. /\ [jar EXCEPT !.live = r.at] \in Jar /\ [jar EXCEPT !.live = r.at].live = r.at
        /\ [jar EXCEPT !.live = r.at].cookie = jar.cookie
    BY <1>2, <2>1 DEF Jar, Turn
  <2> QED  BY <1>1, <1>5, <1>6, <2>1, <2>2, Recorded
<1> HIDE DEF r
<1>11. /\ pool' \in [Hosts -> [cookie : Cookies, rests : BOOLEAN]]
       /\ \A h \in Hosts :
             \/ pool'[h].cookie = pool[h].cookie
             \/ pool'[h].cookie = session /\ held /\ issued'[session].host = h
  <2>1. CASE held /\ Note(session)
    <3>1. /\ pool' \in [Hosts -> [cookie : Cookies, rests : BOOLEAN]]
          /\ \A h \in Hosts : \/ pool'[h] = pool[h]
                              \/ pool'[h].cookie = session /\ session # None /\ issued'[session].host = h
      BY <1>0, <1>4, <1>5, <2>1, Noted DEF Grows
    <3> QED  BY <2>1, <3>1
  <2>2. CASE Cool(r.sent)  BY <1>0, <1>2, <2>2, Cooled
  <2>3. CASE UNCHANGED pool  BY <1>4, <2>3, Rest
  <2> QED  BY <1>1, <2>1, <2>2, <2>3
<1>12. TypeOK'
  <2>1. slot' \subseteq Cookies /\ Cardinality(slot') <= 1
    <3>1. Cardinality({}) = 0  BY FS_EmptySet
    <3>2. CASE slot' = {}  BY <3>1, <3>2
    <3>3. CASE slot' = slot  BY <1>0, <3>3 DEF TypeOK
    <3> QED  BY <1>1, <3>2, <3>3
  <2>2. passed' \subseteq Cookies /\ clock' \in 0 .. Cardinality(Lives)  BY <1>0, <1>1 DEF TypeOK
  <2> QED  BY <1>0, <1>1, <1>4, <1>9, <1>10, <1>11, <2>1, <2>2 DEF TypeOK, Grows
<1>13. KnownInv'
  <2>1. \A m \in Lives : live'[m].sent \in 0 .. Len(issued') /\ live'[m].session \in 0 .. Len(issued')
    <3>1. r.sent \in 0 .. Len(issued')  BY <1>2, <1>4, Rest
    <3>2. ASSUME NEW m \in Lives, m # l
          PROVE  live'[m].sent \in 0 .. Len(issued') /\ live'[m].session \in 0 .. Len(issued')
      BY <1>0, <1>4, <1>9, <3>2, Rest DEF KnownInv
    <3> QED  BY <1>5, <1>8, <1>9, <3>1, <3>2
  <2>2. \A h \in Hosts : pool'[h].cookie \in 0 .. Len(issued')
    BY <1>0, <1>4, <1>5, <1>11, Rest DEF KnownInv
  <2>3. slot' \subseteq 0 .. Len(issued')  BY <1>0, <1>1, <1>4, Rest DEF KnownInv
  <2>4. /\ proxyJar' \in 0 .. Len(issued') /\ hand'.copy.cookie \in 0 .. Len(issued')
        /\ passed' \subseteq 0 .. Len(issued') /\ byHand'.pooled \subseteq 0 .. Len(issued')
        /\ byHand'.placed \subseteq 0 .. Len(issued')
        /\ \A p \in Probes : /\ probe'[p].sent \in 0 .. Len(issued')
                             /\ probe'[p].session \in 0 .. Len(issued')
                             /\ probe'[p].copy.cookie \in 0 .. Len(issued')
    BY <1>1, <1>4, Rest
  <2> QED  BY <1>10, <2>1, <2>2, <2>3, <2>4 DEF KnownInv, Known
<1>14. ClockInv'
  <2>1. Sent' = Sent  BY <1>8, <1>9 DEF Sent, r
  <2>2. \A m \in Lives : (live'[m].done => live'[m].at # None) /\ (live'[m].held => live'[m].done)
    BY <1>0, <1>1, <1>8, <1>9 DEF ClockInv
  <2>3. Started(jar.live)'  BY <1>8, <1>9, <1>10 DEF Started
  <2>4. Started(hand.copy.live)' /\ \A p \in Probes : Started(probe[p].copy.live)'
    BY <1>0, <1>1, <1>3 DEF ClockInv, Started
  <2> QED  BY <1>0, <1>1, <2>1, <2>2, <2>3, <2>4 DEF ClockInv
<1>15. PooledOnEvidence'
  <2>1. \A h \in Hosts :
          \/ pool'[h].cookie = pool[h].cookie
          \/ pool'[h].cookie = None
          \/ /\ issued'[pool'[h].cookie].host = h
             /\ \/ pool'[h].cookie \in passed' \cup byHand'.pooled
                \/ \E m \in Lives : live'[m].held /\ live'[m].session = pool'[h].cookie
    BY <1>8, <1>9, <1>11
  <2> QED  BY <1>0, <1>4, <2>1, Vouched DEF ClockInv
<1> QED  BY <1>12, <1>13, <1>14, <1>15 DEF SessionInv

-----------------------------------------------------------------------------
(* Together.                                                                 *)

LEMMA SessionInit == Init => SessionInv
<1> SUFFICES ASSUME Init PROVE SessionInv  OBVIOUS
<1>1. Cardinality(Lives) \in Nat /\ Cardinality({}) = 0  BY FS_CardinalityType, FS_EmptySet
<1>2. None \in 0 .. Cardinality(Lives) /\ None \in Cookies /\ NoJar \in Jar
      /\ NoJar.live = None /\ NoJar.cookie = None
  BY <1>1 DEF None, Cookies, Jar, NoJar
<1>3. Unsent \in Turn /\ Unsent.sent = None /\ Unsent.session = None /\ Unsent.at = None
      /\ Unsent.done = FALSE /\ Unsent.held = FALSE
  BY <1>2 DEF Unsent, Turn
<1>4. NoProbe \in ProbeRequest /\ NoProbe.sent = None /\ NoProbe.session = None /\ NoProbe.copy = NoJar
  BY <1>2 DEF NoProbe, ProbeRequest, Ways
<1>5. NoEntry \in [cookie : Cookies, rests : BOOLEAN] /\ NoEntry.cookie = None
  BY <1>2 DEF NoEntry
<1>6. NoHand \in [host : Hosts \cup {"none"}, copy : Jar] /\ NoHand.copy = NoJar
  BY <1>2 DEF NoHand
<1>7. issued \in Seq([host : Hosts, via : Ways]) /\ Len(issued) = 0  BY DEF Init
<1> HIDE DEF NoProbe, Unsent, NoEntry, NoHand, NoJar
<1>8. TypeOK
  <2>1. live \in [Lives -> Turn]  BY <1>3 DEF Init
  <2>2. probe \in [Probes -> ProbeRequest]  BY <1>4 DEF Init
  <2>3. pool \in [Hosts -> [cookie : Cookies, rests : BOOLEAN]]  BY <1>5 DEF Init
  <2>4. /\ clock \in 0 .. Cardinality(Lives) /\ used \in 0 .. MaxProbes /\ Len(issued) <= MaxCookies
    BY <1>1, <1>7 DEF Init
  <2>5. jar \in Jar /\ proxyJar \in Cookies /\ hand \in [host : Hosts \cup {"none"}, copy : Jar]
    BY <1>2, <1>6 DEF Init
  <2>6. slot \subseteq Cookies /\ Cardinality(slot) <= 1 /\ passed \subseteq Cookies
        /\ byHand \in [pooled : SUBSET Cookies, placed : SUBSET Cookies]
    BY <1>1 DEF Init
  <2> QED  BY <1>7, <2>1, <2>2, <2>3, <2>4, <2>5, <2>6 DEF TypeOK
<1>9. KnownInv
  <2>1. None \in Known  BY <1>7 DEF Known, None
  <2> QED  BY <1>2, <1>3, <1>4, <1>5, <1>6, <2>1 DEF Init, KnownInv
<1>10. ClockInv
  <2>1. Sent = {}  BY <1>3 DEF Init, Sent
  <2>2. Started(None)  BY DEF Started
  <2> QED  BY <1>1, <1>2, <1>3, <1>4, <1>6, <2>1, <2>2 DEF Init, ClockInv, None
<1>11. PooledOnEvidence  BY <1>5 DEF Init, PooledOnEvidence
<1> QED  BY <1>8, <1>9, <1>10, <1>11 DEF SessionInv

\* What every step but the two of live traffic shows.
LEMMA Aside ==
    ASSUME SessionInv, [Next]_vars
    PROVE  \/ \E l \in Lives, own \in Known, chain \in BOOLEAN : SendLive(l, own, chain)
           \/ \E l \in Lives, session \in Session, fresh \in BOOLEAN : LiveAnswers(l, session, fresh)
           \/ Beside
<1>1. CASE UNCHANGED vars
  <2>1. Grows  BY <1>1, Grown DEF vars
  <2>2. slot' \in {{}, {None}, slot}  BY <1>1 DEF vars
  <2> QED  BY <1>1, <2>1, <2>2, Rest DEF vars, Beside
<1>2. CASE Next
  BY <1>2, QuietSteps, RetryPoolsBeside, SendProbeBeside, ProbeAnswersBeside, VerdictBeside,
     PoolCookieBeside DEF Next, Known
<1> QED  BY <1>1, <1>2

LEMMA SessionNext == SessionInv /\ [Next]_vars => SessionInv'
BY Aside, BesideKeeps, SendLiveKeeps, LiveAnswersKeeps

-----------------------------------------------------------------------------
(* What follows.                                                             *)

THEOREM SessionHolds == Spec => []SessionInv
<1> QED  BY SessionInit, SessionNext, PTL DEF Spec

\* Every record, request and cookie stays a value of its kind, and a slot
\* never holds two sessions.
THEOREM SessionTypes == Spec => []TypeOK
<1>1. SessionInv => TypeOK  BY DEF SessionInv
<1> QED  BY <1>1, SessionHolds, PTL

\* A pooled cookie is its own backend's and has its evidence.
THEOREM PoolHasEvidence == Spec => []PooledOnEvidence
<1>1. SessionInv => PooledOnEvidence  BY DEF SessionInv
<1> QED  BY <1>1, SessionHolds, PTL

\* The clock shows when some answered live request went out.
THEOREM ClockIsTrue == Spec => []ClockIsARealStart
<1>1. SessionInv => ClockIsARealStart
  BY DEF SessionInv, ClockInv, Started, ClockIsARealStart
<1> QED  BY <1>1, SessionHolds, PTL

-----------------------------------------------------------------------------
(* Where pooled cookies are not forwarded.                                   *)

\* Direct, Proxied and ProbeWay of a value as the next state sees it.
DirectNow(c) == c # None => issued'[c].via = "direct" \/ c \in byHand'.placed
ProxiedNow(c) == c # None => issued'[c].via = "proxy"
ProbeWayNow(r) ==
    /\ r.mode = "static" => r.egress = "proxy" /\ ProxiedNow(r.sent)
    /\ r.mode = "credential" /\ r.egress = "direct" => DirectNow(r.sent)
    /\ r.at = "copied" => /\ r.mode \in {"static", "credential"}
                          /\ r.session # None
                          /\ IF r.mode = "static" THEN ProxiedNow(r.session) ELSE DirectNow(r.session)

\* A cookie keeps the way it came.
LEMMA WaysStay ==
    ASSUME SessionInv, EgressInv, Grows
    PROVE  /\ DirectNow(jar.cookie) /\ ProxiedNow(proxyJar)
           /\ \A l \in Lives : DirectNow(live[l].sent)
           /\ \A p \in Probes : ProbeWayNow(probe[p])
<1>0. KnownInv  BY DEF SessionInv
<1>1. \A c \in Known : (Direct(c) => DirectNow(c)) /\ (Proxied(c) => ProxiedNow(c))
  BY DEF Direct, DirectNow, Proxied, ProxiedNow, Via, Grows
<1>2. \A p \in Probes : ProbeWayNow(probe[p])
  BY <1>0, <1>1 DEF KnownInv, EgressInv, ProbeWay, ProbeWayNow
<1> QED  BY <1>0, <1>1, <1>2 DEF KnownInv, EgressInv

\* What a response leaves came the way of the response, or was sent.
LEMMA RepliedWay ==
    ASSUME SessionInv, NEW sent \in Known, NEW way \in Ways, NEW session, Reply(sent, way, session)
    PROVE  session # None => session = sent \/ issued'[session].via = way
BY Replied DEF SessionInv

LEMMA EgressNext ==
    ASSUME ~ForwardCookie, SessionInv, EgressInv, [Next]_vars
    PROVE  EgressInv'
<1>0. TypeOK /\ KnownInv  BY DEF SessionInv
<1>1. Grows
  <2>1. ASSUME NEW l \in Lives, NEW own, NEW chain, SendLive(l, own, chain)  PROVE Grows
    <3>1. \A m \in Lives : live[m].done => live'[m] = live[m]
      BY <1>0, <2>1 DEF SendLive, TypeOK, SessionInv, ClockInv
    <3> QED  BY <2>1, <3>1, Grown DEF SendLive
  <2>2. ASSUME NEW l \in Lives, NEW session, NEW fresh, LiveAnswers(l, session, fresh)  PROVE Grows
    <3>1. \A m \in Lives : live[m].done => live'[m] = live[m]
      BY <1>0, <2>2 DEF LiveAnswers, TypeOK
    <3>2. live[l].sent \in Known /\ Reply(live[l].sent, "direct", session) /\ UNCHANGED <<passed, byHand>>
      BY <1>0, <2>2 DEF LiveAnswers, KnownInv
    <3> QED  BY <3>1, <3>2, Grown DEF Ways
  <2> QED  BY <2>1, <2>2, Aside DEF Beside
<1>2. /\ DirectNow(jar.cookie) /\ ProxiedNow(proxyJar)
      /\ \A l \in Lives : DirectNow(live[l].sent)
      /\ \A p \in Probes : ProbeWayNow(probe[p])
  BY <1>1, WaysStay
<1> DEFINE Jars == DirectNow(jar'.cookie) /\ ProxiedNow(proxyJar')
           Turns == \A l \in Lives : DirectNow(live'[l].sent)
           Asks == \A p \in Probes : ProbeWayNow(probe'[p])
<1>3. SUFFICES Jars /\ Turns /\ Asks
  BY DEF EgressInv, Direct, DirectNow, Proxied, ProxiedNow, ProbeWay, ProbeWayNow, Via
<1>4. UNCHANGED <<jar, proxyJar>> => Jars  BY <1>2
<1>5. UNCHANGED live => Turns  BY <1>2
<1>6. UNCHANGED probe => Asks  BY <1>2
<1>7. /\ live \in [Lives -> Turn] /\ probe \in [Probes -> ProbeRequest] /\ jar \in Jar
      /\ NoProbe.at = "idle" /\ NoProbe.sent = None /\ NoProbe.mode = "credential"
  BY <1>0 DEF TypeOK, NoProbe
<1>8. ProbeWayNow(NoProbe)  BY <1>7 DEF ProbeWayNow, DirectNow
<1> HIDE DEF NoProbe
<1>9. ASSUME NEW l \in Lives, NEW own \in Known, NEW chain \in BOOLEAN, SendLive(l, own, chain)
      PROVE  Jars /\ Turns /\ Asks
  <2>1. /\ UNCHANGED <<issued, jar, proxyJar, probe>> /\ (own # None => Via(own) = "direct")
        /\ \E n, ours : live' = [live EXCEPT ![l] =
              [Unsent EXCEPT !.at = n, !.sent = own, !.chain = chain, !.ours = ours]]
    BY <1>9 DEF SendLive
  <2>2. live'[l].sent = own /\ \A m \in Lives : m # l => live'[m] = live[m]
    BY <1>7, <2>1 DEF Unsent
  <2>3. DirectNow(own)  BY <2>1 DEF DirectNow, Via
  <2>4. Turns  BY <1>2, <2>2, <2>3
  <2> QED  BY <1>4, <1>6, <2>1, <2>4
<1>10. ASSUME NEW l \in Lives, NEW session, NEW fresh, LiveAnswers(l, session, fresh)
       PROVE  Jars /\ Turns /\ Asks
  <2>1. /\ Reply(live[l].sent, "direct", session) /\ UNCHANGED <<proxyJar, probe>>
        /\ jar' = WithCookie([jar EXCEPT !.live = live[l].at], session)
        /\ \E held : live' = [live EXCEPT ![l] = [live[l] EXCEPT !.done = TRUE, !.held = held,
                                                                  !.session = session]]
    BY <1>10 DEF LiveAnswers
  <2>2. live[l].sent \in Known /\ live[l] \in Turn  BY <1>0, <1>7 DEF KnownInv
  <2>3. DirectNow(session)
    <3>1. session # None => session = live[l].sent \/ issued'[session].via = "direct"
      BY <2>1, <2>2, RepliedWay DEF Ways
    <3> QED  BY <1>2, <3>1 DEF DirectNow
  <2>4. jar'.cookie \in {session, jar.cookie}
    <3>1. [jar EXCEPT !.live = live[l].at].cookie = jar.cookie  BY <1>7 DEF Jar
    <3> QED  BY <1>7, <2>1, <3>1 DEF WithCookie, Jar
  <2>5. \A m \in Lives : live'[m].sent = live[m].sent
    <3>1. live'[l].sent = live[l].sent  BY <1>7, <2>1, <2>2 DEF Turn
    <3> QED  BY <1>7, <2>1, <3>1
  <2> QED  BY <1>2, <1>6, <2>1, <2>3, <2>4, <2>5
<1>11. ASSUME NEW p \in Probes, NEW setup \in Setups, NEW c, SendProbe(p, setup, c)
       PROVE  Jars /\ Turns /\ Asks
  <2> DEFINE new == [NoProbe EXCEPT !.at = "sent", !.mode = setup[1], !.egress = setup[2], !.sent = c]
  <2>1. Presents(setup[1], c) /\ probe' = [probe EXCEPT ![p] = new] /\ UNCHANGED <<live, jar, proxyJar>>
    BY <1>11 DEF SendProbe
  <2>2. new.at = "sent" /\ new.mode = setup[1] /\ new.egress = setup[2] /\ new.sent = c
    BY DEF NoProbe
  <2> HIDE DEF new
  <2>3. setup[1] = "static" => setup[2] = "proxy" /\ c = proxyJar
    BY <2>1 DEF Presents, AllSetups
  <2>4. setup[1] = "credential" => c = jar.cookie  BY <2>1 DEF Presents
  <2>5. ProbeWayNow(new)  BY <1>2, <2>2, <2>3, <2>4 DEF ProbeWayNow
  <2>6. Asks  BY <1>2, <1>7, <2>1, <2>5
  <2> QED  BY <1>4, <1>5, <2>1, <2>6
<1>12. ASSUME NEW p \in Probes, NEW session, ProbeAnswers(p, session)
       PROVE  Jars /\ Turns /\ Asks
  <2> DEFINE r == probe[p]
  <2>1. PICK own : /\ Reply(r.sent, r.egress, session) /\ UNCHANGED <<live, jar, proxyJar>>
                   /\ probe' = [probe EXCEPT ![p] =
                         [r EXCEPT !.at = IF Keeps(r, session) THEN "copied" ELSE "judging",
                                   !.session = session, !.copy = own]]
    BY <1>12 DEF ProbeAnswers
  <2> DEFINE new == [r EXCEPT !.at = IF Keeps(r, session) THEN "copied" ELSE "judging",
                              !.session = session, !.copy = own]
  <2>2. r \in ProbeRequest /\ r.sent \in Known /\ r.egress \in Ways
    BY <1>0, <1>7 DEF KnownInv, ProbeRequest
  <2>3. /\ new.at = "copied" <=> Keeps(r, session)
        /\ new.mode = r.mode /\ new.egress = r.egress /\ new.sent = r.sent /\ new.session = session
    BY <2>2 DEF ProbeRequest
  <2>4. session # None => session = r.sent \/ issued'[session].via = r.egress
    BY <2>1, <2>2, RepliedWay
  <2>5. ProbeWayNow(r)  BY <1>2
  <2>6. probe' = [probe EXCEPT ![p] = new]  BY <2>1
  <2>7. r.mode \in {"credential", "pool", "static", "rotating"}  BY <2>2 DEF ProbeRequest
  <2> HIDE DEF new, r
  <2>8. Keeps(r, session) =>
          /\ session # None /\ r.mode \in {"static", "credential"}
          /\ r.mode = "credential" => r.egress = "direct"
    BY <2>7 DEF Keeps
  <2>9. ProbeWayNow(new)
    <3>1. CASE ~Keeps(r, session)  BY <2>3, <2>5, <3>1 DEF ProbeWayNow
    <3>2. CASE Keeps(r, session) /\ r.mode = "static"
      <4>1. ProxiedNow(session)  BY <2>4, <2>5, <3>2 DEF ProbeWayNow, ProxiedNow
      <4> QED  BY <2>3, <2>5, <2>8, <3>2, <4>1 DEF ProbeWayNow
    <3>3. CASE Keeps(r, session) /\ r.mode = "credential"
      <4>1. DirectNow(session)  BY <2>4, <2>5, <2>8, <3>3 DEF ProbeWayNow, DirectNow
      <4> QED  BY <2>3, <2>5, <2>8, <3>3, <4>1 DEF ProbeWayNow
    <3> QED  BY <2>8, <3>1, <3>2, <3>3
  <2>10. Asks  BY <1>2, <1>7, <2>6, <2>9
  <2> QED  BY <1>4, <1>5, <2>1, <2>10
<1>13. ASSUME NEW p \in Probes, SaveSession(p)  PROVE Jars /\ Turns /\ Asks
  <2> DEFINE r == probe[p]
             new == [r EXCEPT !.at = "judging"]
  <2>1. /\ r.at = "copied" /\ UNCHANGED live /\ probe' = [probe EXCEPT ![p] = new]
        /\ \/ r.mode = "static" /\ proxyJar' = r.session /\ UNCHANGED jar
           \/ r.mode # "static" /\ jar' = WithCookie(r.copy, r.session) /\ UNCHANGED proxyJar
    BY <1>7, <1>13 DEF SaveSession
  <2>2. r \in ProbeRequest /\ r.copy \in Jar /\ r.session \in Cookies  BY <1>7 DEF ProbeRequest
  <2>3. new.at = "judging" /\ new.mode = r.mode /\ new.egress = r.egress /\ new.sent = r.sent
    BY <2>2 DEF ProbeRequest
  <2>4. ProbeWayNow(r)  BY <1>2
  <2> HIDE DEF new, r
  <2>5. ProbeWayNow(new)  BY <2>3, <2>4 DEF ProbeWayNow
  <2>6. Asks  BY <1>2, <1>7, <2>1, <2>5
  <2>7. r.session # None  BY <2>1, <2>4 DEF ProbeWayNow
  <2>8. r.mode # "static" => WithCookie(r.copy, r.session).cookie = r.session  BY <2>2, <2>7, Recorded
  <2>9. Jars  BY <1>2, <2>1, <2>4, <2>8 DEF ProbeWayNow
  <2> QED  BY <1>5, <2>1, <2>6, <2>9
<1>14. ASSUME NEW p \in Probes, UNCHANGED <<live, jar, proxyJar>>, probe' = [probe EXCEPT ![p] = NoProbe]
       PROVE  Jars /\ Turns /\ Asks
  BY <1>2, <1>4, <1>5, <1>7, <1>8, <1>14
<1>15. CASE UseSaves
  <2>1. jar' = hand.copy /\ hand.copy.cookie \in byHand'.placed /\ UNCHANGED <<live, proxyJar, probe>>
    BY <1>0, <1>15 DEF UseSaves, TypeOK
  <2> QED  BY <1>2, <1>5, <1>6, <2>1 DEF DirectNow
<1>16. CASE ClearHistory
  <2>1. jar'.cookie = None /\ proxyJar' = None /\ UNCHANGED <<live, probe>>
    BY <1>16 DEF ClearHistory, NoJar
  <2> QED  BY <1>5, <1>6, <2>1 DEF DirectNow, ProxiedNow
<1>17. CASE UNCHANGED <<live, jar, proxyJar, probe>>  BY <1>4, <1>5, <1>6, <1>17
<1> HIDE DEF Jars, Turns, Asks
<1>18. CASE Next
  <2>1. ASSUME NEW l \in Lives,
               \/ \E own \in 0 .. Len(issued), chain \in BOOLEAN : SendLive(l, own, chain)
               \/ \E session \in Session, fresh \in BOOLEAN : LiveAnswers(l, session, fresh)
               \/ \E session \in Session, way \in Ways : RetryPools(l, way, session)
               \/ PoolStateByHand(l)
        PROVE  Jars /\ Turns /\ Asks
    BY <1>9, <1>10, <1>17, <2>1 DEF RetryPools, PoolStateByHand, Known
  <2>2. ASSUME NEW p \in Probes,
               \/ \E setup \in Setups, c \in Session : SendProbe(p, setup, c)
               \/ \E session \in Session : ProbeAnswers(p, session)
               \/ SaveSession(p)
               \/ \E session \in Session, verdict \in {"passed", "degraded", "unjudged"} :
                     Verdict(p, verdict, session)
               \/ ProbeFails(p)
        PROVE  Jars /\ Turns /\ Asks
    <3>1. CASE (\E session \in Session, verdict \in {"passed", "degraded", "unjudged"} :
                   Verdict(p, verdict, session)) \/ ProbeFails(p)
      <4>1. UNCHANGED <<live, jar, proxyJar>> /\ probe' = [probe EXCEPT ![p] = NoProbe]
        BY <3>1 DEF Verdict, ProbeFails
      <4> QED  BY <1>14, <4>1
    <3> QED  BY <1>11, <1>12, <1>13, <2>2, <3>1
  <2>3. CASE \/ \E h \in Hosts : UseReads(h) \/ CooldownEnds(h)
             \/ \E c \in 1 .. Len(issued) : PoolCookieByHand(c)
             \/ DeleteCredentialData
    BY <1>17, <2>3 DEF UseReads, CooldownEnds, PoolCookieByHand, DeleteCredentialData
  <2> QED  BY <1>15, <1>16, <1>18, <2>1, <2>2, <2>3 DEF Next
<1>19. CASE UNCHANGED vars
  <2>1. UNCHANGED <<live, jar, proxyJar, probe>>  BY <1>19 DEF vars
  <2> QED  BY <1>17, <2>1
<1> QED  BY <1>18, <1>19

\* Where the rule does not forward pooled cookies, what sits in the direct jar
\* came back directly or was put there by hand, and what sits in a proxy's jar
\* came back through the proxy.
THEOREM JarsKeepApart == ~ForwardCookie => (Spec => []JarsKeepToTheirEgress)
<1> SUFFICES ASSUME ~ForwardCookie  PROVE Spec => []JarsKeepToTheirEgress  OBVIOUS
<1>1. Init => EgressInv
  BY DEF Init, EgressInv, Direct, Proxied, ProbeWay, NoJar, NoProbe, Unsent
<1>2. SessionInv /\ EgressInv /\ [Next]_vars => EgressInv'  BY EgressNext
<1>3. EgressInv => JarsKeepToTheirEgress
  BY DEF EgressInv, Direct, Proxied, JarsKeepToTheirEgress
<1> QED  BY <1>1, <1>2, <1>3, SessionHolds, PTL DEF Spec
=============================================================================
