------------------------ MODULE HistoryStore_proofs ------------------------
(***************************************************************************)
(* Proofs about HistoryStore, for any records, families' limits and sizes   *)
(* of queue and batch: types, the bounds, that a record is written once,    *)
(* that a close leaves nothing tracked behind, and that an evicted row      *)
(* takes its payload along.                                                 *)
(***************************************************************************)
EXTENDS HistoryStore, TLAPS

USE RecordsAssumption, SizesAssumption

-----------------------------------------------------------------------------
(* Sequences with no element twice.                                          *)

LEMMA Empty ==
    /\ \A S : <<>> \in Seq(S)
    /\ Len(<<>>) = 0 /\ ToSet(<<>>) = {} /\ IsInjective(<<>>)
<1>1. Len(<<>>) = 0 /\ DOMAIN <<>> = {}  OBVIOUS
<1>2. ToSet(<<>>) = {}  BY <1>1 DEF ToSet
<1>3. IsInjective(<<>>)  BY <1>1 DEF IsInjective
<1> QED  BY <1>1, <1>2, <1>3

LEMMA AppendOnce ==
    ASSUME NEW S, NEW s \in Seq(S), NEW e \in S
    PROVE  /\ Append(s, e) \in Seq(S) /\ Len(Append(s, e)) = Len(s) + 1
           /\ ToSet(Append(s, e)) = ToSet(s) \cup {e}
           /\ IsInjective(s) /\ e \notin ToSet(s) => IsInjective(Append(s, e))
<1>1. Append(s, e) \in Seq(S) /\ Len(Append(s, e)) = Len(s) + 1  OBVIOUS
<1>2. \A i \in 1 .. Len(s) + 1 : Append(s, e)[i] = IF i <= Len(s) THEN s[i] ELSE e  OBVIOUS
<1>3. DOMAIN Append(s, e) = 1 .. Len(s) + 1 /\ DOMAIN s = 1 .. Len(s) /\ Len(s) \in Nat  OBVIOUS
<1>4. ToSet(Append(s, e)) = ToSet(s) \cup {e}
  <2>1. \A x : x \in ToSet(Append(s, e)) <=> \E i \in 1 .. Len(s) + 1 : x = Append(s, e)[i]
    BY <1>3 DEF ToSet
  <2>2. \A x : x \in ToSet(s) <=> \E i \in 1 .. Len(s) : x = s[i]
    BY <1>3 DEF ToSet
  <2>3. Append(s, e)[Len(s) + 1] = e  BY <1>3
  <2> QED  BY <1>2, <1>3, <2>1, <2>2, <2>3
<1>5. IsInjective(s) /\ e \notin ToSet(s) => IsInjective(Append(s, e))
  BY <1>2, <1>3 DEF IsInjective, ToSet
<1> QED  BY <1>1, <1>4, <1>5

LEMMA TailOnce ==
    ASSUME NEW S, NEW s \in Seq(S), s # <<>>
    PROVE  /\ Tail(s) \in Seq(S) /\ Len(Tail(s)) = Len(s) - 1
           /\ Head(s) \in S /\ Head(s) \in ToSet(s)
           /\ ToSet(Tail(s)) \subseteq ToSet(s)
           /\ IsInjective(s) => IsInjective(Tail(s)) /\ Head(s) \notin ToSet(Tail(s))
<1>1. Tail(s) \in Seq(S) /\ Len(Tail(s)) = Len(s) - 1 /\ Len(s) \in Nat \ {0}  OBVIOUS
<1>2. \A i \in 1 .. Len(s) - 1 : Tail(s)[i] = s[i + 1]  OBVIOUS
<1>3. DOMAIN Tail(s) = 1 .. Len(s) - 1 /\ DOMAIN s = 1 .. Len(s) /\ Head(s) = s[1]  BY <1>1
<1>4. \A i \in 1 .. Len(s) - 1 : i + 1 \in 1 .. Len(s)  BY <1>1
<1>5. Head(s) \in S /\ Head(s) \in ToSet(s)  BY <1>1, <1>3 DEF ToSet
<1>6. ToSet(Tail(s)) \subseteq ToSet(s)  BY <1>2, <1>3, <1>4 DEF ToSet
<1>7. ASSUME IsInjective(s)  PROVE IsInjective(Tail(s)) /\ Head(s) \notin ToSet(Tail(s))
  <2>1. \A i, j \in 1 .. Len(s) : s[i] = s[j] => i = j  BY <1>3, <1>7 DEF IsInjective
  <2>2. IsInjective(Tail(s))  BY <1>1, <1>2, <1>3, <1>4, <2>1 DEF IsInjective
  <2>3. \A i \in 1 .. Len(s) - 1 : Tail(s)[i] # s[1]  BY <1>1, <1>2, <1>4, <2>1
  <2> QED  BY <1>3, <2>2, <2>3 DEF ToSet
<1> QED  BY <1>1, <1>5, <1>6, <1>7

LEMMA NewestOnce ==
    ASSUME NEW S, NEW s \in Seq(S), NEW n \in Nat
    PROVE  /\ Newest(s, n) \in Seq(S) /\ Len(Newest(s, n)) <= n
           /\ ToSet(Newest(s, n)) \subseteq ToSet(s)
           /\ IsInjective(s) => IsInjective(Newest(s, n))
<1>1. CASE Len(s) <= n  BY <1>1 DEF Newest
<1>2. CASE ~(Len(s) <= n)
  <2> DEFINE t == SubSeq(s, Len(s) - n + 1, Len(s))
             d == Len(s) - n
  <2>1. Newest(s, n) = t /\ Len(s) \in Nat /\ d \in Nat /\ d > 0 /\ DOMAIN s = 1 .. Len(s)
    BY <1>2 DEF Newest
  <2>2. \A i \in 1 .. n : d + i \in 1 .. Len(s)  BY <2>1
  <2>3. t \in Seq(S) /\ Len(t) = n /\ \A i \in 1 .. n : t[i] = s[d + i]  BY <2>1, <2>2
  <2>4. DOMAIN t = 1 .. n  BY <2>3
  <2>5. ToSet(t) \subseteq ToSet(s)  BY <2>1, <2>2, <2>3, <2>4 DEF ToSet
  <2>6. IsInjective(s) => IsInjective(t)
    <3> HIDE DEF t, d
    <3>1. SUFFICES ASSUME IsInjective(s), NEW i \in 1 .. n, NEW j \in 1 .. n, t[i] = t[j]
                   PROVE  i = j
      BY <2>4 DEF IsInjective
    <3>2. s[d + i] = s[d + j] /\ d + i \in DOMAIN s /\ d + j \in DOMAIN s  BY <2>1, <2>2, <2>3, <3>1
    <3>3. d + i = d + j  BY <3>1, <3>2 DEF IsInjective
    <3> QED  BY <2>1, <3>3
  <2>7. n <= n  OBVIOUS
  <2> QED  BY <2>1, <2>3, <2>5, <2>6, <2>7
<1> QED  BY <1>1, <1>2

LEMMA ConcatOnce ==
    ASSUME NEW S, NEW s \in Seq(S), NEW t \in Seq(S),
           IsInjective(s), IsInjective(t), ToSet(s) \cap ToSet(t) = {}
    PROVE  /\ s \o t \in Seq(S) /\ IsInjective(s \o t)
           /\ ToSet(s \o t) = ToSet(s) \cup ToSet(t)
<1>1. /\ s \o t \in Seq(S) /\ Len(s \o t) = Len(s) + Len(t)
      /\ Len(s) \in Nat /\ Len(t) \in Nat
      /\ DOMAIN s = 1 .. Len(s) /\ DOMAIN t = 1 .. Len(t) /\ DOMAIN (s \o t) = 1 .. Len(s) + Len(t)
  OBVIOUS
<1>2. \A i \in 1 .. Len(s) + Len(t) : (s \o t)[i] = IF i <= Len(s) THEN s[i] ELSE t[i - Len(s)]
  OBVIOUS
<1>3. \A i \in 1 .. Len(s) + Len(t) : i > Len(s) => i - Len(s) \in 1 .. Len(t)  BY <1>1
<1>4. ASSUME NEW i \in 1 .. Len(t)
      PROVE  /\ Len(s) + i \in 1 .. Len(s) + Len(t) /\ ~(Len(s) + i <= Len(s))
             /\ (Len(s) + i) - Len(s) = i
  BY <1>1
<1>5. \A i \in 1 .. Len(s), j \in 1 .. Len(t) : s[i] # t[j]  BY <1>1 DEF ToSet
<1>6. ASSUME NEW i \in 1 .. Len(s) + Len(t), NEW j \in 1 .. Len(s) + Len(t),
             (s \o t)[i] = (s \o t)[j]
      PROVE  i = j
  <2>1. CASE i <= Len(s) /\ j <= Len(s)
    <3>1. i \in DOMAIN s /\ j \in DOMAIN s /\ s[i] = s[j]  BY <1>1, <1>2, <1>6, <2>1
    <3> QED  BY <3>1 DEF IsInjective
  <2>2. CASE i > Len(s) /\ j > Len(s)
    <3>1. /\ i - Len(s) \in DOMAIN t /\ j - Len(s) \in DOMAIN t
          /\ t[i - Len(s)] = t[j - Len(s)]
      BY <1>1, <1>2, <1>3, <1>6, <2>2
    <3>2. i - Len(s) = j - Len(s)  BY <3>1 DEF IsInjective
    <3> QED  BY <1>1, <3>2
  <2>3. CASE (i <= Len(s) /\ j > Len(s)) \/ (j <= Len(s) /\ i > Len(s))
    BY <1>1, <1>2, <1>3, <1>5, <1>6, <2>3
  <2> QED  BY <1>1, <2>1, <2>2, <2>3
<1>7. IsInjective(s \o t)  BY <1>1, <1>6 DEF IsInjective
<1>8. ToSet(s \o t) \subseteq ToSet(s) \cup ToSet(t)
  BY <1>1, <1>2, <1>3 DEF ToSet
<1>9. \A i \in 1 .. Len(s) : i \in 1 .. Len(s) + Len(t) /\ (s \o t)[i] = s[i]  BY <1>1, <1>2
<1>10. ASSUME NEW i \in 1 .. Len(t)
       PROVE  (s \o t)[Len(s) + i] = t[i]
  <2> DEFINE k == Len(s) + i
  <2>1. (s \o t)[k] = IF k <= Len(s) THEN s[k] ELSE t[k - Len(s)]  BY <1>2, <1>4
  <2>2. ~(k <= Len(s)) /\ k - Len(s) = i  BY <1>4
  <2> HIDE DEF k
  <2>3. (s \o t)[k] = t[i]  BY <2>1, <2>2
  <2> QED  BY <2>3 DEF k
<1>11. ToSet(s) \subseteq ToSet(s \o t)  BY <1>1, <1>9 DEF ToSet
<1>12. ToSet(t) \subseteq ToSet(s \o t)
  <2>1. SUFFICES ASSUME NEW i \in 1 .. Len(t)  PROVE t[i] \in ToSet(s \o t)  BY <1>1 DEF ToSet
  <2>2. Len(s) + i \in DOMAIN (s \o t) /\ (s \o t)[Len(s) + i] = t[i]  BY <1>1, <1>4, <1>10
  <2> QED  BY <2>2 DEF ToSet
<1> QED  BY <1>1, <1>7, <1>8, <1>11, <1>12
-----------------------------------------------------------------------------
(* The inductive invariant.                                                  *)

\* Where records that were handed over can be.
Queued == ToSet(queue)
Batched == ToSet(batch)
Kept(f) == ToSet(rows[f])

(* A record is in one of the four places at most, and in none before it was   *)
(* handed over.                                                               *)
OnceInv ==
    /\ IsInjective(queue) /\ IsInjective(batch) /\ \A f \in Families : IsInjective(rows[f])
    /\ Queued \cap Batched = {}
    /\ \A f \in Families : Queued \cap Kept(f) = {} /\ Batched \cap Kept(f) = {}
    /\ Kept("request") \cap Kept("probe") = {}
    /\ \A r \in Records : at[r] \in {"new", "held"} =>
          r \notin Queued \cup Batched \cup Kept("request") \cup Kept("probe")

(* Past the drain the queue holds none that was handed over in time; only the *)
(* untracked hold the writer across its release.                              *)
DrainInv ==
    /\ \A r \in Records : at[r] = "held" => r \notin Tracked
    /\ phase \in {"last", "closed"} => Queued \cap Tracked = {}
    /\ phase = "closed" => batch = <<>>

HistoryInv == TypeOK /\ HistoryBounded /\ OnceInv /\ DrainInv

LEMMA HistoryInit == Init => HistoryInv
<1> SUFFICES ASSUME Init PROVE HistoryInv  OBVIOUS
<1>1. <<>> \in Seq(Records) /\ Len(<<>>) = 0 /\ ToSet(<<>>) = {} /\ IsInjective(<<>>)
  BY Empty
<1>2. \A f \in Families : rows[f] = <<>>  BY DEF Init
<1>3. TypeOK
  <2>1. rows \in [Families -> Seq(Records)]  BY <1>1 DEF Init
  <2>2. Len(queue) = 0 /\ 0 <= QueueCap  BY <1>1 DEF Init
  <2>3. queue \in Seq(Records) /\ batch \in Seq(Records)  BY <1>1 DEF Init
  <2> QED  BY <2>1, <2>2, <2>3 DEF Init, TypeOK
<1>4. HistoryBounded  BY <1>1, <1>2 DEF HistoryBounded
<1>5. OnceInv  BY <1>1, <1>2 DEF Init, OnceInv, Queued, Batched, Kept, Families
<1>6. DrainInv  BY <1>1 DEF Init, DrainInv, Queued
<1> QED  BY <1>3, <1>4, <1>5, <1>6 DEF HistoryInv

\* One transaction: the family keeps its newest, the new row among them or not.
LEMMA StoreKeeps ==
    ASSUME HistoryInv, NEW f \in Families, NEW r \in Records, Store(f, r)
    PROVE  /\ rows' \in [Families -> Seq(Records)] /\ bodies' \subseteq Records
           /\ HistoryBounded'
           /\ \A g \in Families : g # f => rows'[g] = rows[g]
           /\ Kept(f)' \subseteq Kept(f) \cup {r}
           /\ r \notin Kept(f) => IsInjective(rows'[f])
<1> DEFINE long == Append(rows[f], r)
           kept == Newest(long, Limit[f])
<1>0. rows \in [Families -> Seq(Records)] /\ rows[f] \in Seq(Records) /\ Limit[f] \in Nat
  BY DEF HistoryInv, TypeOK
<1>1. /\ long \in Seq(Records) /\ ToSet(long) = Kept(f) \cup {r}
      /\ r \notin Kept(f) => IsInjective(long)
  BY <1>0, AppendOnce DEF HistoryInv, OnceInv, Kept
<1>2. /\ kept \in Seq(Records) /\ Len(kept) <= Limit[f] /\ ToSet(kept) \subseteq ToSet(long)
      /\ IsInjective(long) => IsInjective(kept)
  BY <1>0, <1>1, NewestOnce
<1>3. rows' = [rows EXCEPT ![f] = kept] /\ bodies' \subseteq bodies \cup {r}  BY DEF Store
<1> HIDE DEF kept, long
<1>4. rows' \in [Families -> Seq(Records)] /\ rows'[f] = kept /\ \A g \in Families : g # f => rows'[g] = rows[g]
  BY <1>0, <1>2, <1>3
<1>5. HistoryBounded'  BY <1>2, <1>4 DEF HistoryInv, HistoryBounded
<1>6. Kept(f)' \subseteq Kept(f) \cup {r}  BY <1>1, <1>2, <1>4 DEF Kept
<1>7. bodies' \subseteq Records  BY <1>3 DEF HistoryInv, TypeOK
<1> QED  BY <1>1, <1>2, <1>4, <1>5, <1>6, <1>7

\* An append puts its record into its family or does nothing.
LEMMA TryKeeps ==
    ASSUME HistoryInv, NEW f \in Families, NEW r \in Records, TryStore(f, r),
           r \notin Kept(f)
    PROVE  /\ rows' \in [Families -> Seq(Records)] /\ bodies' \subseteq Records
           /\ HistoryBounded'
           /\ \A g \in Families : g # f => rows'[g] = rows[g]
           /\ Kept(f)' \subseteq Kept(f) \cup {r}
           /\ IsInjective(rows'[f])
<1>1. CASE Store(f, r)  BY <1>1, StoreKeeps
<1>2. CASE UNCHANGED <<rows, bodies>>
  BY <1>2 DEF HistoryInv, TypeOK, OnceInv, HistoryBounded, Kept
<1> QED  BY <1>1, <1>2 DEF TryStore

\* Kept rows that only get fewer, with everything else in place.
LEMMA Fewer ==
    ASSUME HistoryInv, UNCHANGED <<phase, at, queue, batch, flushing>>,
           rows' \in [Families -> Seq(Records)], bodies' \subseteq bodies,
           \A f \in Families : rows'[f] = rows[f] \/ rows'[f] = <<>>
    PROVE  HistoryInv'
<1>1. Len(<<>>) = 0 /\ ToSet(<<>>) = {} /\ IsInjective(<<>>)
  BY Empty
<1>2. \A f \in Families : Kept(f)' = Kept(f) \/ Kept(f)' = {}  BY <1>1 DEF Kept
<1>3. \A f \in Families : IsInjective(rows'[f]) /\ Len(rows'[f]) <= Limit[f]
  BY <1>1 DEF HistoryInv, OnceInv, HistoryBounded
<1>4. TypeOK'  BY DEF HistoryInv, TypeOK
<1>5. OnceInv'
  BY <1>2, <1>3 DEF HistoryInv, OnceInv, Queued, Batched, Families
<1>6. DrainInv'  BY DEF HistoryInv, DrainInv, Queued
<1> QED  BY <1>3, <1>4, <1>5, <1>6 DEF HistoryInv, HistoryBounded
-----------------------------------------------------------------------------
(* One step per action.                                                      *)

\* A record handed over goes into the queue, or around it into the history.
LEMMA EnqueueKeeps ==
    ASSUME HistoryInv, NEW r \in Records, at[r] \in {"new", "held"},
           phase = "open" \/ r \notin Tracked,
           at' = [at EXCEPT ![r] = "given"], Enqueue(r),
           UNCHANGED <<phase, batch, flushing>>
    PROVE  HistoryInv'
<1>0. TypeOK /\ HistoryBounded /\ OnceInv /\ DrainInv  BY DEF HistoryInv
<1>1. /\ at' \in [Records -> {"new", "held", "given", "gone"}] /\ at'[r] = "given"
      /\ \A q \in Records : q # r => at'[q] = at[q]
  BY <1>0 DEF TypeOK
<1>2. r \notin Queued /\ r \notin Batched /\ \A f \in Families : r \notin Kept(f)
  BY <1>0 DEF OnceInv, Families
<1>3. CASE Len(queue) < QueueCap
  <2>1. queue' = Append(queue, r) /\ UNCHANGED <<rows, bodies>>  BY <1>3 DEF Enqueue
  <2>2. /\ queue' \in Seq(Records) /\ Len(queue') = Len(queue) + 1
        /\ Queued' = Queued \cup {r} /\ IsInjective(queue')
    BY <1>0, <1>2, <2>1, AppendOnce DEF TypeOK, OnceInv, Queued
  <2>3. Len(queue) \in Nat /\ Len(queue) + 1 <= QueueCap  BY <1>0, <1>3 DEF TypeOK
  <2>4. TypeOK'  BY <1>0, <1>1, <2>1, <2>2, <2>3 DEF TypeOK
  <2>5. HistoryBounded'  BY <1>0, <2>1 DEF HistoryBounded
  <2>6. Batched' = Batched /\ \A f \in Families : Kept(f)' = Kept(f)  BY <2>1 DEF Batched, Kept
  <2>7. OnceInv'
    <3>1. \A q \in Records : at'[q] \in {"new", "held"} =>
             q \notin Queued' \cup Batched' \cup Kept("request")' \cup Kept("probe")'
      BY <1>0, <1>1, <2>2, <2>6 DEF OnceInv, Families
    <3>2. /\ Queued' \cap Batched' = {} /\ Kept("request")' \cap Kept("probe")' = {}
          /\ \A f \in Families : Queued' \cap Kept(f)' = {} /\ Batched' \cap Kept(f)' = {}
      BY <1>0, <1>2, <2>2, <2>6 DEF OnceInv, Families
    <3>3. IsInjective(batch') /\ \A f \in Families : IsInjective(rows'[f])
      BY <1>0, <2>1 DEF OnceInv
    <3> QED  BY <2>2, <3>1, <3>2, <3>3 DEF OnceInv
  <2>8. DrainInv'
    BY <1>0, <1>1, <2>2 DEF DrainInv
  <2> QED  BY <2>4, <2>5, <2>7, <2>8 DEF HistoryInv
<1>4. CASE ~(Len(queue) < QueueCap)
  <2>1. TryStore("request", r) /\ UNCHANGED queue  BY <1>4 DEF Enqueue
  <2>2. /\ rows' \in [Families -> Seq(Records)] /\ bodies' \subseteq Records
        /\ HistoryBounded'
        /\ \A g \in Families : g # "request" => rows'[g] = rows[g]
        /\ Kept("request")' \subseteq Kept("request") \cup {r}
        /\ IsInjective(rows'["request"])
    BY <1>2, <2>1, TryKeeps DEF Families
  <2>3. TypeOK'  BY <1>0, <1>1, <2>1, <2>2 DEF TypeOK
  <2>4. Queued' = Queued /\ Batched' = Batched /\ Kept("probe")' = Kept("probe")
    BY <2>1, <2>2 DEF Queued, Batched, Kept, Families
  <2>5. OnceInv'
    <3>1. \A q \in Records : at'[q] \in {"new", "held"} =>
             q \notin Queued' \cup Batched' \cup Kept("request")' \cup Kept("probe")'
      BY <1>0, <1>1, <2>2, <2>4 DEF OnceInv
    <3>2. /\ Queued' \cap Batched' = {} /\ Kept("request")' \cap Kept("probe")' = {}
          /\ \A f \in Families : Queued' \cap Kept(f)' = {} /\ Batched' \cap Kept(f)' = {}
      BY <1>0, <1>2, <2>2, <2>4 DEF OnceInv, Families
    <3>3. IsInjective(queue') /\ IsInjective(batch') /\ \A f \in Families : IsInjective(rows'[f])
      BY <1>0, <2>1, <2>2 DEF OnceInv, Families
    <3> QED  BY <3>1, <3>2, <3>3 DEF OnceInv
  <2>6. DrainInv'  BY <1>0, <1>1, <2>4 DEF DrainInv
  <2> QED  BY <2>2, <2>3, <2>5, <2>6 DEF HistoryInv
<1> QED  BY <1>3, <1>4

LEMMA ReceiveKeeps == HistoryInv /\ Receive => HistoryInv'
<1> SUFFICES ASSUME HistoryInv, Receive  PROVE HistoryInv'  OBVIOUS
<1>0. TypeOK /\ HistoryBounded /\ OnceInv /\ DrainInv  BY DEF HistoryInv
<1> DEFINE r == Head(queue)
<1>1. /\ queue' \in Seq(Records) /\ Len(queue') = Len(queue) - 1 /\ r \in Records
      /\ r \in Queued /\ Queued' \subseteq Queued /\ IsInjective(queue') /\ r \notin Queued'
  BY <1>0, TailOnce DEF TypeOK, OnceInv, Receive, Queued
<1>2. /\ batch' \in Seq(Records) /\ Batched' = Batched \cup {r} /\ IsInjective(batch')
  <2>1. r \notin ToSet(batch)  BY <1>0, <1>1 DEF OnceInv, Batched
  <2> QED  BY <1>0, <1>1, <2>1, AppendOnce DEF TypeOK, OnceInv, Receive, Batched
<1>3. /\ UNCHANGED <<phase, at, rows, bodies>> /\ flushing' \in BOOLEAN
      /\ phase \in {"open", "released", "draining"}
  BY DEF Receive, Looping
<1> HIDE DEF r
<1>4. TypeOK'
  <2>1. Len(queue) \in Nat /\ Len(queue) - 1 <= QueueCap  BY <1>0 DEF TypeOK
  <2> QED  BY <1>0, <1>1, <1>2, <1>3, <2>1 DEF TypeOK
<1>5. HistoryBounded'  BY <1>0, <1>3 DEF HistoryBounded
<1>6. OnceInv'
  <2>1. \A f \in Families : Kept(f)' = Kept(f) /\ rows'[f] = rows[f]  BY <1>3 DEF Kept
  <2>2. /\ Queued' \cap Batched' = {} /\ Kept("request")' \cap Kept("probe")' = {}
        /\ \A f \in Families : Queued' \cap Kept(f)' = {} /\ Batched' \cap Kept(f)' = {}
    BY <1>0, <1>1, <1>2, <2>1 DEF OnceInv, Families
  <2>3. \A q \in Records : at'[q] \in {"new", "held"} =>
           q \notin Queued' \cup Batched' \cup Kept("request")' \cup Kept("probe")'
    BY <1>0, <1>1, <1>2, <1>3, <2>1 DEF OnceInv, Families
  <2> QED  BY <1>0, <1>1, <1>2, <2>1, <2>2, <2>3 DEF OnceInv
<1>7. DrainInv'  BY <1>0, <1>3 DEF DrainInv
<1> QED  BY <1>4, <1>5, <1>6, <1>7 DEF HistoryInv

LEMMA FlushKeeps == HistoryInv /\ FlushOne => HistoryInv'
<1> SUFFICES ASSUME HistoryInv, FlushOne  PROVE HistoryInv'  OBVIOUS
<1>0. TypeOK /\ HistoryBounded /\ OnceInv /\ DrainInv  BY DEF HistoryInv
<1>1. batch # <<>> /\ batch' = Tail(batch) /\ Head(batch) \in Records
  BY <1>0, TailOnce DEF TypeOK, FlushOne
<1>2. PICK r \in Records, f \in Families : r = Head(batch) /\ TryStore(f, r)
  BY <1>1 DEF FlushOne
<1>3. /\ batch' \in Seq(Records) /\ r \in Batched
      /\ Batched' \subseteq Batched /\ IsInjective(batch') /\ r \notin Batched'
  BY <1>0, <1>1, <1>2, TailOnce DEF TypeOK, OnceInv, Batched
<1>4. \A g \in Families : r \notin Kept(g)  BY <1>0, <1>3 DEF OnceInv
<1>5. /\ rows' \in [Families -> Seq(Records)] /\ bodies' \subseteq Records
      /\ HistoryBounded'
      /\ \A g \in Families : g # f => rows'[g] = rows[g]
      /\ Kept(f)' \subseteq Kept(f) \cup {r}
      /\ IsInjective(rows'[f])
  BY <1>3, <1>2, <1>4, TryKeeps
<1>6. UNCHANGED <<phase, at, queue>> /\ flushing' \in BOOLEAN /\ batch # <<>>  BY DEF FlushOne
<1>7. TypeOK'  BY <1>0, <1>3, <1>5, <1>6 DEF TypeOK
<1>8. \A g \in Families : /\ Kept(g)' \subseteq Kept(g) \cup {r}
                          /\ g # f => Kept(g)' = Kept(g)
  BY <1>5 DEF Kept
<1>9. Queued' = Queued /\ r \notin Queued  BY <1>0, <1>3, <1>6 DEF OnceInv, Queued
<1>10. OnceInv'
  <2>1. Queued' \cap Batched' = {}  BY <1>0, <1>3, <1>9 DEF OnceInv
  <2>2. \A g \in Families : Queued' \cap Kept(g)' = {} /\ Batched' \cap Kept(g)' = {}
    BY <1>0, <1>3, <1>8, <1>9 DEF OnceInv
  <2>3. Kept("request")' \cap Kept("probe")' = {}
    BY <1>0, <1>2, <1>4, <1>8 DEF OnceInv, Families
  <2>4. \A q \in Records : at'[q] \in {"new", "held"} =>
           q \notin Queued' \cup Batched' \cup Kept("request")' \cup Kept("probe")'
    BY <1>0, <1>3, <1>6, <1>8, <1>9 DEF OnceInv, Families
  <2>5. IsInjective(queue') /\ \A g \in Families : IsInjective(rows'[g])
    BY <1>0, <1>5, <1>6 DEF OnceInv
  <2> QED  BY <1>3, <2>1, <2>2, <2>3, <2>4, <2>5 DEF OnceInv
<1>11. DrainInv'  BY <1>0, <1>6, <1>9 DEF DrainInv
<1> QED  BY <1>5, <1>7, <1>10, <1>11 DEF HistoryInv

\* What moves the phase, or marks the batch for its flush, moves no record.
LEMMA PhaseKeeps ==
    ASSUME HistoryInv, UNCHANGED <<at, queue, batch, rows, bodies>>,
           phase' \in {"open", "released", "draining", "last", "closed"}, flushing' \in BOOLEAN,
           phase' \in {"last", "closed"} => phase \in {"last", "closed"} \/ queue = <<>>,
           phase' = "closed" => batch = <<>>
    PROVE  HistoryInv'
<1>0. TypeOK /\ HistoryBounded /\ OnceInv /\ DrainInv  BY DEF HistoryInv
<1>1. Queued' = Queued /\ Batched' = Batched /\ \A f \in Families : Kept(f)' = Kept(f)
  BY DEF Queued, Batched, Kept
<1>2. TypeOK' /\ HistoryBounded'  BY <1>0 DEF TypeOK, HistoryBounded
<1>3. OnceInv'  BY <1>0, <1>1 DEF OnceInv, Families
<1>4. DrainInv'
  <2>1. queue = <<>> => Queued = {}  BY Empty DEF Queued
  <2> QED  BY <1>0, <1>1, <2>1 DEF DrainInv
<1> QED  BY <1>2, <1>3, <1>4 DEF HistoryInv

LEMMA HistoryNext == HistoryInv /\ [Next]_vars => HistoryInv'
<1> SUFFICES ASSUME HistoryInv, [Next]_vars  PROVE HistoryInv'  OBVIOUS
<1>0. TypeOK /\ OnceInv /\ DrainInv  BY DEF HistoryInv
<1>1. ASSUME NEW r \in Records, Record(r)  PROVE HistoryInv'
  BY <1>1, EnqueueKeeps DEF Record
<1>2. ASSUME NEW r \in Records, TakeWriter(r)  PROVE HistoryInv'
  <2>1. /\ r \notin Tracked /\ at[r] = "new"
        /\ at' = [at EXCEPT ![r] = "held"] /\ UNCHANGED <<phase, queue, batch, flushing, rows, bodies>>
    BY <1>2 DEF TakeWriter
  <2>2. TypeOK' /\ HistoryBounded'  BY <1>0, <2>1 DEF TypeOK, HistoryInv, HistoryBounded
  <2>3. \A q \in Records : /\ at'[q] \in {"new", "held"} => at[q] \in {"new", "held"}
                           /\ at'[q] = "held" => at[q] = "held" \/ q = r
    BY <1>0, <2>1 DEF TypeOK
  <2>4. Queued' = Queued /\ Batched' = Batched /\ \A f \in Families : Kept(f)' = Kept(f)
    BY <2>1 DEF Queued, Batched, Kept
  <2>5. OnceInv'  BY <1>0, <2>1, <2>3, <2>4 DEF OnceInv, Families
  <2>6. DrainInv'  BY <1>0, <2>1, <2>3, <2>4 DEF DrainInv
  <2> QED  BY <2>2, <2>5, <2>6 DEF HistoryInv
<1>3. ASSUME NEW r \in Records, UseWriter(r)  PROVE HistoryInv'
  <2>1. at[r] = "held" /\ r \notin Tracked  BY <1>0, <1>3 DEF UseWriter, DrainInv
  <2> QED  BY <1>3, <2>1, EnqueueKeeps DEF UseWriter
<1>4. CASE Tick
  BY <1>0, <1>4, PhaseKeeps DEF Tick, TypeOK, DrainInv
<1>5. CASE SeeStop
  BY <1>0, <1>5, PhaseKeeps DEF SeeStop, TypeOK
<1>6. CASE DrainDone
  BY <1>0, <1>6, PhaseKeeps DEF DrainDone, TypeOK
<1>7. CASE CloseStore
  BY <1>0, <1>7, PhaseKeeps DEF CloseStore, TypeOK
<1>8. CASE ReleaseWriter
  BY <1>0, <1>8, PhaseKeeps DEF ReleaseWriter, TypeOK
<1>9. CASE Reopen
  <2>1. /\ phase = "closed" /\ phase' = "open" /\ queue' = <<>>
        /\ at' = [r \in Records |-> IF at[r] = "held" THEN "gone" ELSE at[r]]
        /\ UNCHANGED <<batch, flushing, rows, bodies>>
    BY <1>9 DEF Reopen
  <2>2. queue' \in Seq(Records) /\ Len(queue') = 0 /\ Queued' = {} /\ IsInjective(queue')
    BY <2>1, Empty DEF Queued
  <2>3. /\ at' \in [Records -> {"new", "held", "given", "gone"}]
        /\ \A q \in Records : at'[q] # "held" /\ (at'[q] = "new" => at[q] = "new")
    BY <1>0, <2>1 DEF TypeOK
  <2>4. TypeOK' /\ HistoryBounded'
    BY <1>0, <2>1, <2>2, <2>3 DEF TypeOK, HistoryInv, HistoryBounded
  <2>5. Batched' = Batched /\ \A f \in Families : Kept(f)' = Kept(f)  BY <2>1 DEF Batched, Kept
  <2>6. OnceInv'  BY <1>0, <2>1, <2>2, <2>3, <2>5 DEF OnceInv, Families
  <2>7. DrainInv'  BY <2>1, <2>2, <2>3 DEF DrainInv
  <2> QED  BY <2>4, <2>6, <2>7 DEF HistoryInv
<1>10. CASE ClearProbeHistory \/ ClearHistory \/ DeleteCredentialData
  <2>1. /\ UNCHANGED <<phase, at, queue, batch, flushing>> /\ bodies' \subseteq bodies
        /\ rows' \in [Families -> Seq(Records)]
        /\ \A f \in Families : rows'[f] = rows[f] \/ rows'[f] = <<>>
    <3>1. rows \in [Families -> Seq(Records)] /\ <<>> \in Seq(Records)  BY <1>0, Empty DEF TypeOK
    <3>2. CASE ClearProbeHistory  BY <3>1, <3>2 DEF ClearProbeHistory
    <3>3. CASE ClearHistory  BY <3>1, <3>3 DEF ClearHistory
    <3>4. CASE DeleteCredentialData  BY <3>1, <3>4 DEF DeleteCredentialData
    <3> QED  BY <1>10, <3>2, <3>3, <3>4
  <2> QED  BY <2>1, Fewer
<1>11. CASE UNCHANGED vars
  BY <1>0, <1>11, PhaseKeeps DEF vars, TypeOK, DrainInv
<1> QED
  BY <1>1, <1>2, <1>3, <1>4, <1>5, <1>6, <1>7, <1>8, <1>9, <1>10, <1>11, ReceiveKeeps, FlushKeeps
  DEF Next, Writer

-----------------------------------------------------------------------------
(* What follows.                                                             *)

THEOREM HistoryHolds == Spec => []HistoryInv
<1> QED  BY HistoryInit, HistoryNext, PTL DEF Spec

\* Everything the writer and its store hold stays a value of its kind.
THEOREM HistoryTypes == Spec => []TypeOK
<1>1. HistoryInv => TypeOK  BY DEF HistoryInv
<1> QED  BY <1>1, HistoryHolds, PTL

\* No family outgrows its limit, through the queue or around it.
THEOREM FamiliesBounded == Spec => []HistoryBounded
<1>1. HistoryInv => HistoryBounded  BY DEF HistoryInv
<1> QED  BY <1>1, HistoryHolds, PTL

\* A record is in one place of its way to disk, and there once.
THEOREM WrittenOnce == Spec => []EachRecordOnce
<1>1. ASSUME HistoryInv  PROVE EachRecordOnce
  <2>0. TypeOK /\ OnceInv  BY <1>1 DEF HistoryInv
  <2> DEFINE one == queue \o batch
             two == one \o rows["request"]
  <2>1. /\ queue \in Seq(Records) /\ batch \in Seq(Records)
        /\ rows["request"] \in Seq(Records) /\ rows["probe"] \in Seq(Records)
    BY <2>0 DEF TypeOK, Families
  <2>2. one \in Seq(Records) /\ IsInjective(one) /\ ToSet(one) = Queued \cup Batched
    BY <2>0, <2>1, ConcatOnce DEF OnceInv, Queued, Batched
  <2> HIDE DEF one
  <2>3. IsInjective(rows["request"]) /\ ToSet(one) \cap ToSet(rows["request"]) = {}
    BY <2>0, <2>2 DEF OnceInv, Kept, Families
  <2>4. two \in Seq(Records) /\ IsInjective(two) /\ ToSet(two) = Queued \cup Batched \cup Kept("request")
    BY <2>1, <2>2, <2>3, ConcatOnce DEF Kept
  <2> HIDE DEF two
  <2>5. IsInjective(rows["probe"]) /\ ToSet(two) \cap ToSet(rows["probe"]) = {}
    BY <2>0, <2>4 DEF OnceInv, Kept, Families
  <2>6. IsInjective(two \o rows["probe"])  BY <2>1, <2>4, <2>5, ConcatOnce
  <2> QED  BY <2>6 DEF EachRecordOnce, two, one
<1>2. HistoryInv => EachRecordOnce  BY <1>1
<1> QED  BY <1>2, HistoryHolds, PTL

\* A store closes with nothing on its way that was handed over in time.
THEOREM NothingLeftBehind == Spec => []ClosesWithEverything
<1>1. HistoryInv => ClosesWithEverything
  BY DEF HistoryInv, DrainInv, ClosesWithEverything, Queued
<1> QED  BY <1>1, HistoryHolds, PTL

\* A row pushed out by a newer one takes its payload along.
THEOREM EvictedWithItsBody == Spec => EvictionTakesTheBody
<1> DEFINE Takes == \A f \in Families : \A r \in ToSet(rows[f]) \ ToSet(rows'[f]) :
                      ToSet(rows'[f]) \subseteq ToSet(rows[f]) \/ r \notin bodies'
<1>1. ASSUME HistoryInv, NEW g \in Families, NEW q \in Records, Store(g, q)  PROVE Takes
  <2>1. rows \in [Families -> Seq(Records)]  BY <1>1 DEF HistoryInv, TypeOK
  <2> DEFINE kept == Newest(Append(rows[g], q), Limit[g])
  <2>2. /\ rows' = [rows EXCEPT ![g] = kept]
        /\ bodies' = (bodies \cup {q}) \ (ToSet(rows[g]) \ ToSet(kept))
    BY <1>1 DEF Store
  <2> HIDE DEF kept
  <2>3. rows'[g] = kept /\ \A f \in Families : f # g => rows'[f] = rows[f]  BY <2>1, <2>2
  <2> QED  BY <2>2, <2>3
<1>2. ASSUME \A f \in Families : rows'[f] = rows[f] \/ rows'[f] = <<>>  PROVE Takes
  BY <1>2, Empty
<1>3. ASSUME HistoryInv, [Next]_vars  PROVE Takes \/ UNCHANGED vars
  <2>0. TypeOK  BY <1>3 DEF HistoryInv
  <2>1. ASSUME NEW r \in Records, Enqueue(r)  PROVE Takes
    <3>1. CASE UNCHANGED rows  BY <1>2, <3>1
    <3>2. CASE Store("request", r)  BY <1>1, <1>3, <3>2 DEF Families
    <3> QED  BY <2>1, <3>1, <3>2 DEF Enqueue, TryStore
  <2>2. CASE \E r \in Records : Record(r) \/ TakeWriter(r) \/ UseWriter(r)
    <3>1. CASE UNCHANGED rows  BY <1>2, <3>1
    <3> QED  BY <2>1, <2>2, <3>1 DEF Record, TakeWriter, UseWriter
  <2>3. CASE FlushOne
    <3>1. Head(batch) \in Records  BY <2>0, <2>3, TailOnce DEF FlushOne, TypeOK
    <3>2. Family[Head(batch)] \in Families  BY <3>1
    <3>3. CASE UNCHANGED rows  BY <1>2, <3>3
    <3> QED  BY <1>1, <1>3, <2>3, <3>1, <3>2, <3>3 DEF FlushOne, TryStore
  <2>4. CASE UNCHANGED rows  BY <1>2, <2>4
  <2>5. CASE ClearProbeHistory \/ ClearHistory \/ DeleteCredentialData
    <3>1. \A f \in Families : rows'[f] = rows[f] \/ rows'[f] = <<>>
      BY <2>0, <2>5 DEF ClearProbeHistory, ClearHistory, DeleteCredentialData, TypeOK
    <3> QED  BY <1>2, <3>1
  <2> QED
    BY <1>3, <2>2, <2>3, <2>4, <2>5
    DEF Next, Writer, Receive, Tick, SeeStop, DrainDone, CloseStore, ReleaseWriter, Reopen, vars
<1>4. HistoryInv /\ [Next]_vars => [Takes]_vars  BY <1>3
<1> QED  BY <1>4, HistoryHolds, PTL DEF Spec, EvictionTakesTheBody

-----------------------------------------------------------------------------
(* Rows and payloads.                                                        *)

\* Every row that is kept can be opened: its payload is there.
RowsHaveBodies == \A f \in Families : Kept(f) \subseteq bodies

\* The payloads that have outlived their row.
Orphans == {r \in bodies : \A f \in Families : r \notin Kept(f)}

\* The newest rows are never without the last one.
LEMMA NewestLast ==
    ASSUME NEW S, NEW s \in Seq(S), NEW e \in S, NEW n \in Nat \ {0}
    PROVE  e \in ToSet(Newest(Append(s, e), n))
<1> DEFINE t == Append(s, e)
           k == Len(t) - n + 1
<1>1. t \in Seq(S) /\ Len(t) \in Nat \ {0} /\ t[Len(t)] = e  OBVIOUS
<1> HIDE DEF t
<1>2. CASE Len(t) <= n
  <2>1. e \in ToSet(t)  BY <1>1 DEF ToSet
  <2> QED  BY <1>2, <2>1 DEF Newest, t
<1>3. CASE Len(t) > n
  <2>1. k \in 1 .. Len(t) /\ Len(t) - k + 1 = n  BY <1>1, <1>3
  <2> DEFINE u == SubSeq(t, k, Len(t))
  <2>2. Len(u) = n /\ u[n] = t[k + n - 1] /\ u \in Seq(S)  BY <1>1, <2>1
  <2>3. k + n - 1 = Len(t)  BY <1>1
  <2> HIDE DEF u, k
  <2>4. n \in DOMAIN u /\ u[n] = e  BY <1>1, <2>2, <2>3
  <2>5. e \in ToSet(u)  BY <2>4 DEF ToSet
  <2> QED  BY <1>1, <1>3, <2>5 DEF Newest, t, u, k
<1> QED  BY <1>1, <1>2, <1>3

\* A transaction of appendRecord leaves every row its payload and no payload alone.
LEMMA StoreLeavesNone ==
    ASSUME HistoryInv, RowsHaveBodies, NEW f \in Families, NEW r \in Records, Store(f, r)
    PROVE  RowsHaveBodies' /\ Orphans' \subseteq Orphans
<1> DEFINE kept == Newest(Append(rows[f], r), Limit[f])
<1>1. rows \in [Families -> Seq(Records)] /\ Limit[f] \in Nat \ {0}  BY DEF HistoryInv, TypeOK
<1>2. r \in ToSet(kept)  BY <1>1, NewestLast
<1>3. ToSet(kept) \subseteq Kept(f) \cup {r}
  <2>1. Append(rows[f], r) \in Seq(Records) /\ ToSet(Append(rows[f], r)) = Kept(f) \cup {r}
    BY <1>1, AppendOnce DEF Kept
  <2> QED  BY <1>1, <2>1, NewestOnce
<1>4. rows' = [rows EXCEPT ![f] = kept] /\ bodies' = (bodies \cup {r}) \ (Kept(f) \ ToSet(kept))
  BY DEF Store, Kept
<1> HIDE DEF kept
<1>5. Kept(f)' = ToSet(kept) /\ \A g \in Families : g # f => Kept(g)' = Kept(g)
  BY <1>1, <1>4 DEF Kept
<1>6. \A g \in Families : g # f => Kept(g) \cap Kept(f) = {}
  BY DEF HistoryInv, OnceInv, Families
<1>7. ASSUME NEW g \in Families PROVE Kept(g)' \subseteq bodies'
  <2>1. CASE g = f  BY <1>3, <1>4, <1>5, <2>1 DEF RowsHaveBodies
  <2>2. CASE g # f  BY <1>4, <1>5, <1>6, <2>2 DEF RowsHaveBodies
  <2> QED  BY <2>1, <2>2
<1>8. ASSUME NEW x \in Orphans' PROVE x \in Orphans
  <2>1. x \in bodies' /\ \A g \in Families : x \notin Kept(g)'  BY <1>8 DEF Orphans
  <2>2. x \notin ToSet(kept) /\ x # r  BY <1>2, <1>5, <2>1
  <2>3. x \in bodies /\ x \notin Kept(f)  BY <1>4, <2>1, <2>2
  <2> QED  BY <1>5, <2>1, <2>3 DEF Orphans
<1> QED  BY <1>7, <1>8 DEF RowsHaveBodies

LEMMA BodiesNext ==
    ASSUME HistoryInv, RowsHaveBodies, [Next]_vars
    PROVE  RowsHaveBodies' /\ (Orphans' \subseteq Orphans \/ ClearProbeHistory \/ DeleteCredentialData)
<1>0. TypeOK  BY DEF HistoryInv
<1>1. CASE UNCHANGED <<rows, bodies>>  BY <1>1 DEF RowsHaveBodies, Orphans, Kept
<1>2. ASSUME NEW r \in Records, Enqueue(r)  PROVE RowsHaveBodies' /\ Orphans' \subseteq Orphans
  <2>1. CASE UNCHANGED <<rows, bodies>>
    <3>1. Orphans' = Orphans /\ \A f \in Families : Kept(f)' = Kept(f)  BY <2>1 DEF Orphans, Kept
    <3> QED  BY <2>1, <3>1 DEF RowsHaveBodies
  <2>2. CASE Store("request", r)  BY <2>2, StoreLeavesNone DEF Families
  <2> QED  BY <1>2, <2>1, <2>2 DEF Enqueue, TryStore
<1>3. CASE \E r \in Records : Record(r) \/ TakeWriter(r) \/ UseWriter(r)
  <2>1. PICK r \in Records : Record(r) \/ TakeWriter(r) \/ UseWriter(r)  BY <1>3
  <2>2. CASE TakeWriter(r)  BY <1>1, <2>2 DEF TakeWriter
  <2>3. CASE Record(r) \/ UseWriter(r)  BY <1>2, <2>3 DEF Record, UseWriter
  <2> QED  BY <2>1, <2>2, <2>3
<1>4. CASE FlushOne
  <2>1. Head(batch) \in Records /\ TryStore(Family[Head(batch)], Head(batch))
    BY <1>0, <1>4, TailOnce DEF FlushOne, TypeOK
  <2>2. Family[Head(batch)] \in Families  BY <2>1
  <2>3. CASE Store(Family[Head(batch)], Head(batch))  BY <2>1, <2>2, <2>3, StoreLeavesNone
  <2> QED  BY <1>1, <2>1, <2>3 DEF TryStore
<1>5. CASE ClearHistory
  <2>1. bodies' = {} /\ \A f \in Families : rows'[f] = <<>>  BY <1>5 DEF ClearHistory
  <2>2. Orphans' = {}  BY <2>1 DEF Orphans
  <2>3. \A f \in Families : Kept(f)' = {}  BY <2>1, Empty DEF Kept
  <2> QED  BY <2>2, <2>3 DEF RowsHaveBodies
<1>6. CASE ClearProbeHistory \/ DeleteCredentialData
  <2>1. bodies' = bodies /\ \A f \in Families : rows'[f] = rows[f] \/ rows'[f] = <<>>
    BY <1>0, <1>6 DEF ClearProbeHistory, DeleteCredentialData, TypeOK
  <2>2. \A f \in Families : Kept(f)' \subseteq Kept(f)  BY <2>1, Empty DEF Kept
  <2> QED  BY <1>6, <2>1, <2>2 DEF RowsHaveBodies
<1> QED
  BY <1>1, <1>3, <1>4, <1>5, <1>6
  DEF Next, Writer, Receive, Tick, SeeStop, DrainDone, CloseStore, ReleaseWriter, Reopen, vars

\* Every row that is kept has its payload, whichever way its record came and however many
\* clears and reopenings there have been (appendRecord puts both in one transaction).
THEOREM RowsCanBeOpened == Spec => []RowsHaveBodies
<1>1. Init => RowsHaveBodies  BY Empty DEF Init, RowsHaveBodies, Kept
<1>2. HistoryInv /\ RowsHaveBodies /\ [Next]_vars => RowsHaveBodies'  BY BodiesNext
<1> QED  BY <1>1, <1>2, HistoryHolds, PTL DEF Spec

\* A payload is left without its row by two operations only, the clearing of the probe
\* history and the deletion of a credential's data (ClearProbeHistory and DeleteCredentialData of
\* store_bbolt.go): no append, eviction, flush, close or reopening adds one.
THEOREM OrphansByClearingOnly ==
    Spec => [][Orphans' \subseteq Orphans \/ ClearProbeHistory \/ DeleteCredentialData]_vars
<1> DEFINE Leaves == Orphans' \subseteq Orphans \/ ClearProbeHistory \/ DeleteCredentialData
<1>1. HistoryInv /\ RowsHaveBodies /\ [Next]_vars => [Leaves]_vars  BY BodiesNext
<1> QED  BY <1>1, HistoryHolds, RowsCanBeOpened, PTL DEF Spec
=============================================================================
