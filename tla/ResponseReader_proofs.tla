------------------------ MODULE ResponseReader_proofs ------------------------
(***************************************************************************)
(* Proofs about ResponseReader, for any exchanges, any streams that are     *)
(* well formed and any cuts of them, and any bounds of residual and buffer: *)
(* types, the cookie that goes out, the session a response leaves, the body *)
(* that is stored and what of the stream the observer has read.  The loops  *)
(* of the code are recursive functions in the model: the first lemmas say   *)
(* that a loop's function exists and has its type, and every other lemma    *)
(* about a loop is an invariant of it.                                      *)
(***************************************************************************)
EXTENDS ResponseReader, WellFoundedInduction, FiniteSetTheorems, SequenceTheorems, TLAPS

-----------------------------------------------------------------------------
(* Loops: the least number of a set, and recursive functions over 0 .. n.     *)
(* What a loop written as a function computes: its type, and that there is such*)
(* a function to begin with.                                                  *)

LEMMA Least ==
  ASSUME NEW T, T \subseteq Nat, T # {}
  PROVE  \E m \in T : \A k \in T : m <= k
<1> DEFINE R == OpToRel(<, Nat)
<1>1. IsWellFoundedOn(R, Nat)
  BY NatLessThanWellFounded
<1>2. \A k, m \in Nat : k < m => <<k, m>> \in R
  BY DEF OpToRel
<1> HIDE DEF R
<1>3. PICK m \in T : \A k \in T : ~(<<k, m>> \in R)
  BY <1>1, WFMin
<1>4. \A k \in T : ~(k < m)
  BY <1>2, <1>3
<1> QED  BY <1>3, <1>4

LEMMA UpTo ==
  ASSUME NEW n \in Nat, NEW T, 0 \in T, \A i \in 0 .. n - 1 : i \in T => i + 1 \in T
  PROVE  0 .. n \subseteq T
<1> DEFINE U == (0 .. n) \ T
<1> SUFFICES ASSUME U # {} PROVE FALSE
  OBVIOUS
<1>0. U \subseteq Nat
  OBVIOUS
<1>1. PICK m \in U : \A k \in U : m <= k
  <2> HIDE DEF U
  <2> QED  BY <1>0, Least
<1>2. m # 0 /\ m \in 0 .. n
  BY <1>1
<1>3. m - 1 \in T /\ m - 1 \in 0 .. n - 1
  BY <1>1, <1>2
<1> QED  BY <1>1, <1>2, <1>3

LEMMA LoopTyped ==
  ASSUME NEW n \in Nat, NEW S, NEW g, g[0] \in S, \A i \in 1 .. n : g[i - 1] \in S => g[i] \in S
  PROVE  \A i \in 0 .. n : g[i] \in S
<1> DEFINE T == {i \in 0 .. n : g[i] \in S}
<1>1. 0 \in T
  OBVIOUS
<1>2. \A i \in 0 .. n - 1 : i \in T => i + 1 \in T
  <2> SUFFICES ASSUME NEW i \in 0 .. n - 1, g[i] \in S PROVE g[i + 1] \in S
    OBVIOUS
  <2>1. i + 1 \in 1 .. n /\ (i + 1) - 1 = i
    OBVIOUS
  <2> QED  BY <2>1
<1> HIDE DEF T
<1>3. 0 .. n \subseteq T
  BY <1>1, <1>2, UpTo
<1> QED  BY <1>3 DEF T

\* f is the sequence of a loop's states.
Iterates(f, n, base, step) == f[0] = base /\ \A i \in 1 .. n : f[i] = step[i][f[i - 1]]

LEMMA LoopExists ==
  ASSUME NEW n \in Nat, NEW S, NEW base \in S, NEW step \in [1 .. n -> [S -> S]]
  PROVE  \E f \in [0 .. n -> S] : Iterates(f, n, base, step)
<1> DEFINE Runs(k, f) == f[0] = base /\ \A i \in 1 .. k : f[i] = step[i][f[i - 1]]
           T == {k \in 0 .. n : \E f \in [0 .. n -> S] : Runs(k, f)}
<1>1. 0 \in T
  <2> DEFINE f == [i \in 0 .. n |-> base]
  <2>1. f \in [0 .. n -> S] /\ f[0] = base
    OBVIOUS
  <2>2. Runs(0, f)
    <3> HIDE DEF f
    <3> QED  BY <2>1
  <2> HIDE DEF f, Runs
  <2> QED  BY <2>1, <2>2
<1>2. ASSUME NEW k \in 0 .. n - 1, k \in T
      PROVE  k + 1 \in T
  <2>1. PICK f \in [0 .. n -> S] : Runs(k, f)
    BY <1>2
  <2> DEFINE g == [f EXCEPT ![k + 1] = step[k + 1][f[k]]]
  <2>2. k + 1 \in 0 .. n /\ k \in 0 .. n /\ k + 1 \in 1 .. n /\ f[k] \in S
    OBVIOUS
  <2>3. step[k + 1][f[k]] \in S
    BY <2>2
  <2>4. g \in [0 .. n -> S]
    BY <2>3
  <2>5. \A i \in 0 .. k : g[i] = f[i]
    BY <2>2
  <2>6. g[k + 1] = step[k + 1][f[k]]
    BY <2>2
  <2> HIDE DEF g
  <2>7. g[0] = base
    BY <2>1, <2>5
  <2>8. ASSUME NEW i \in 1 .. k + 1
        PROVE  g[i] = step[i][g[i - 1]]
    <3>1. CASE i = k + 1
      <4>1. i - 1 = k /\ k \in 0 .. k
        BY <3>1
      <4> QED  BY <3>1, <4>1, <2>5, <2>6
    <3>2. CASE i # k + 1
      <4>1. i \in 1 .. k /\ i \in 0 .. k /\ i - 1 \in 0 .. k
        BY <3>2
      <4>2. f[i] = step[i][f[i - 1]]
        BY <4>1, <2>1
      <4> QED  BY <4>1, <4>2, <2>5
    <3> QED  BY <3>1, <3>2
  <2>9. Runs(k + 1, g)
    BY <2>7, <2>8
  <2> HIDE DEF Runs
  <2> QED  BY <2>2, <2>4, <2>9
<1>3. n \in T
  <2> HIDE DEF T
  <2>1. 0 .. n \subseteq T
    BY <1>1, <1>2, UpTo
  <2> QED  BY <2>1
<1>4. PICK f \in [0 .. n -> S] : Runs(n, f)
  BY <1>3
<1> QED  BY <1>4 DEF Iterates

-----------------------------------------------------------------------------
(* Cookies: the jars that Assign and Clear keep.                              *)

CrumbNames == STRING \ {""}
\* The jars of cookies; the empty name is never placed.
Jars == [order : Seq(CrumbNames), placed : SUBSET CrumbNames,
         values : UNION {[D -> STRING] : D \in SUBSET CrumbNames}]

LEMMA JarsAre ==
  ASSUME NEW o \in Seq(CrumbNames), NEW p \in SUBSET CrumbNames, NEW v, DOMAIN v \in SUBSET CrumbNames,
         v \in [DOMAIN v -> STRING]
  PROVE  [order |-> o, placed |-> p, values |-> v] \in Jars
  BY DEF Jars

LEMMA JarFields ==
  ASSUME NEW j \in Jars
  PROVE  /\ j = [order |-> j.order, placed |-> j.placed, values |-> j.values]
         /\ j.order \in Seq(CrumbNames) /\ j.placed \in SUBSET CrumbNames
         /\ j.values \in [DOMAIN j.values -> STRING] /\ DOMAIN j.values \in SUBSET CrumbNames
<1>1. PICK D \in SUBSET CrumbNames : j.values \in [D -> STRING]
  BY DEF Jars
<1> QED  BY <1>1 DEF Jars

LEMMA AssignJar ==
  ASSUME NEW j \in Jars, NEW c, c.name \in CrumbNames, c.value \in STRING
  PROVE  LET k == Assign(j, c)
         IN /\ k \in Jars
            /\ k.order = IF c.name \in j.placed THEN j.order ELSE Append(j.order, c.name)
            /\ k.placed = j.placed \cup {c.name}
            /\ DOMAIN k.values = DOMAIN j.values \cup {c.name}
            /\ k.values[c.name] = c.value
            /\ \A n \in DOMAIN j.values : n # c.name => k.values[n] = j.values[n]
<1> DEFINE v == [n \in DOMAIN j.values \cup {c.name} |-> IF n = c.name THEN c.value ELSE j.values[n]]
           o == IF c.name \in j.placed THEN j.order ELSE Append(j.order, c.name)
           p == j.placed \cup {c.name}
<1>1. /\ DOMAIN v = DOMAIN j.values \cup {c.name}
      /\ v[c.name] = c.value
      /\ \A n \in DOMAIN j.values : n # c.name => v[n] = j.values[n]
  OBVIOUS
<1>2. v = [n \in DOMAIN v |-> v[n]]
  OBVIOUS
<1>3. o \in Seq(CrumbNames) /\ p \in SUBSET CrumbNames
  BY JarFields
<1>4. Assign(j, c) = [order |-> o, placed |-> p, values |-> v]
  BY DEF Assign
<1> HIDE DEF v, o, p
<1>5. v \in [DOMAIN v -> STRING] /\ DOMAIN v \in SUBSET CrumbNames
  BY <1>1, <1>2, JarFields
<1>6. Assign(j, c) \in Jars
  BY <1>3, <1>4, <1>5, JarsAre
<1> QED  BY <1>1, <1>4, <1>6 DEF o, p

LEMMA ClearJar ==
  ASSUME NEW j \in Jars, NEW m \in CrumbNames
  PROVE  LET k == Clear(j, m)
         IN /\ k \in Jars
            /\ k.order = j.order
            /\ k.placed = j.placed \cup {m}
            /\ DOMAIN k.values = DOMAIN j.values \ {m}
            /\ \A n \in DOMAIN j.values : n # m => k.values[n] = j.values[n]
<1> DEFINE v == Restrict(j.values, DOMAIN j.values \ {m})
           p == j.placed \cup {m}
<1>1. /\ DOMAIN v = DOMAIN j.values \ {m}
      /\ \A n \in DOMAIN j.values : n # m => v[n] = j.values[n]
      /\ v = [n \in DOMAIN v |-> v[n]]
  BY DEF Restrict
<1>2. Clear(j, m) = [order |-> j.order, placed |-> p, values |-> v]
  BY JarFields DEF Clear
<1> HIDE DEF v
<1>3. v \in [DOMAIN v -> STRING] /\ DOMAIN v \in SUBSET CrumbNames
  BY <1>1, JarFields
<1>4. p \in SUBSET CrumbNames /\ j.order \in Seq(CrumbNames)
  BY JarFields
<1> HIDE DEF p
<1>5. Clear(j, m) \in Jars
  BY <1>2, <1>3, <1>4, JarsAre
<1> QED  BY <1>1, <1>2, <1>5 DEF p

LEMMA AssignAllLoop ==
  ASSUME NEW jar \in Jars, NEW crumbs \in Seq(Crumbs)
  PROVE  \E f \in [0 .. Len(crumbs) -> Jars] :
            /\ f[0] = jar /\ AssignAll(jar, crumbs) = f[Len(crumbs)]
            /\ \A i \in 1 .. Len(crumbs) : f[i] = Assign(f[i - 1], crumbs[i])
<1> DEFINE n == Len(crumbs)
           step == [i \in 1 .. n |-> [j \in Jars |-> Assign(j, crumbs[i])]]
           After(f) == f = [i \in 0 .. n |-> IF i = 0 THEN jar ELSE Assign(f[i - 1], crumbs[i])]
           after == CHOOSE f : After(f)
<1>1. ASSUME NEW j \in Jars, NEW i \in 1 .. n
      PROVE  Assign(j, crumbs[i]) \in Jars
  <2>1. crumbs[i] \in Crumbs
    OBVIOUS
  <2> QED  BY <2>1, AssignJar DEF Crumbs, CrumbNames
<1>2. step \in [1 .. n -> [Jars -> Jars]]
  BY <1>1
<1>3. PICK f \in [0 .. n -> Jars] : Iterates(f, n, jar, step)
  <2>1. n \in Nat
    OBVIOUS
  <2> HIDE DEF step, n
  <2> QED  BY <2>1, <1>2, LoopExists
<1>4. f[0] = jar /\ \A i \in 1 .. n : f[i] = Assign(f[i - 1], crumbs[i])
  BY <1>3 DEF Iterates
<1>5. After(f)
  <2>1. f = [i \in 0 .. n |-> f[i]]
    OBVIOUS
  <2>2. \A i \in 0 .. n : f[i] = IF i = 0 THEN jar ELSE Assign(f[i - 1], crumbs[i])
    BY <1>4
  <2> QED  BY <2>1, <2>2
<1>6. After(after)
  <2> HIDE DEF After
  <2> QED  BY <1>5
<1>7. AssignAll(jar, crumbs) = after[n]
  BY DEF AssignAll
<1> HIDE DEF after
<1>8. /\ after[0] = jar
      /\ \A i \in 1 .. n : after[i] = Assign(after[i - 1], crumbs[i])
      /\ after = [i \in 0 .. n |-> after[i]]
  BY <1>6
<1>9. \A i \in 0 .. n : after[i] \in Jars
  <2>1. \A i \in 1 .. n : after[i - 1] \in Jars => after[i] \in Jars
    BY <1>1, <1>8
  <2>2. n \in Nat
    OBVIOUS
  <2> HIDE DEF n
  <2> QED  BY <1>8, <2>1, <2>2, LoopTyped
<1> QED  BY <1>7, <1>8, <1>9

-----------------------------------------------------------------------------
(* AssignAll: a jar after the crumbs of a cookie were assigned to it.         *)

\* A jar's bookkeeping: names are placed once, and nothing has a value unplaced.
Sound(j) ==
    /\ \A p, q \in DOMAIN j.order : j.order[p] = j.order[q] => p = q
    /\ \A p \in DOMAIN j.order : j.order[p] \in j.placed
    /\ DOMAIN j.values \subseteq j.placed

\* The names of the first i crumbs; the places a jar gained.
NamesUpTo(crumbs, i) == {crumbs[k].name : k \in 1 .. i}
Added(j0, j) == Len(j0.order) + 1 .. Len(j.order)

\* What the jar j is after the first i crumbs were assigned to the jar j0.
Assigned(j0, crumbs, i, j) ==
    /\ Sound(j)
    /\ j.placed = j0.placed \cup NamesUpTo(crumbs, i)
    /\ DOMAIN j.values = DOMAIN j0.values \cup NamesUpTo(crumbs, i)
    /\ \A k \in 1 .. i : (\A l \in k + 1 .. i : crumbs[l].name # crumbs[k].name)
                            => j.values[crumbs[k].name] = crumbs[k].value
    /\ \A n \in DOMAIN j0.values : n \notin NamesUpTo(crumbs, i) => j.values[n] = j0.values[n]
    /\ Len(j0.order) <= Len(j.order) /\ \A p \in DOMAIN j0.order : j.order[p] = j0.order[p]
    /\ \A p \in Added(j0, j) : j.order[p] \in NamesUpTo(crumbs, i) \ j0.placed
    /\ \A n \in NamesUpTo(crumbs, i) \ j0.placed : \E p \in Added(j0, j) : j.order[p] = n
    /\ \A p, q \in Added(j0, j) : \A l \in 1 .. i :
          p < q /\ crumbs[l].name = j.order[q] => \E k \in 1 .. l - 1 : crumbs[k].name = j.order[p]

LEMMA AssignedStep ==
  ASSUME NEW j0 \in Jars, NEW crumbs \in Seq(Crumbs), NEW i \in 1 .. Len(crumbs), NEW j \in Jars,
         Assigned(j0, crumbs, i - 1, j)
  PROVE  Assigned(j0, crumbs, i, Assign(j, crumbs[i]))
<1> DEFINE c == crumbs[i]
           k == Assign(j, c)
<1>1. c \in Crumbs /\ c.name \in CrumbNames /\ c.value \in STRING
  <2>1. c \in Crumbs
    OBVIOUS
  <2> HIDE DEF c
  <2> QED  BY <2>1 DEF Crumbs, CrumbNames
<1>2. /\ k \in Jars
      /\ k.order = IF c.name \in j.placed THEN j.order ELSE Append(j.order, c.name)
      /\ k.placed = j.placed \cup {c.name}
      /\ DOMAIN k.values = DOMAIN j.values \cup {c.name}
      /\ k.values[c.name] = c.value
      /\ \A n \in DOMAIN j.values : n # c.name => k.values[n] = j.values[n]
  BY <1>1, AssignJar
<1>3. NamesUpTo(crumbs, i) = NamesUpTo(crumbs, i - 1) \cup {c.name}
  BY DEF NamesUpTo
<1>4. j0.order \in Seq(CrumbNames) /\ j.order \in Seq(CrumbNames)
  BY JarFields
<1>5. i - 1 \in Nat /\ i \in Nat /\ \A l \in 1 .. i : l = i \/ l \in 1 .. i - 1
  OBVIOUS
<1> HIDE DEF c, k
<1>6. Sound(k)
  <2>1. Sound(j)
    BY DEF Assigned
  <2>2. CASE c.name \in j.placed
    BY <2>1, <2>2, <1>2 DEF Sound
  <2>3. CASE c.name \notin j.placed
    <3>1. /\ DOMAIN k.order = 1 .. Len(j.order) + 1 /\ DOMAIN j.order = 1 .. Len(j.order)
          /\ Len(j.order) \in Nat /\ k.order[Len(j.order) + 1] = c.name
          /\ \A p \in 1 .. Len(j.order) : k.order[p] = j.order[p]
      BY <2>3, <1>2, <1>4
    <3>2. \A p \in DOMAIN k.order : p \in DOMAIN j.order \/ p = Len(j.order) + 1
      BY <3>1
    <3> QED  BY <2>1, <2>3, <3>1, <3>2, <1>2 DEF Sound
  <2> QED  BY <2>2, <2>3
<1>7. ASSUME NEW m \in 1 .. i, \A l \in m + 1 .. i : crumbs[l].name # crumbs[m].name
      PROVE  k.values[crumbs[m].name] = crumbs[m].value
  <2>1. CASE m = i
    BY <2>1, <1>2 DEF c
  <2>2. CASE m # i
    <3>1. m \in 1 .. i - 1 /\ i \in m + 1 .. i /\ \A l \in m + 1 .. i - 1 : l \in m + 1 .. i
      BY <2>2, <1>5
    <3>2. j.values[crumbs[m].name] = crumbs[m].value
      BY <3>1, <1>7 DEF Assigned
    <3>3. crumbs[m].name \in DOMAIN j.values
      BY <3>1 DEF Assigned, NamesUpTo
    <3>4. crumbs[m].name # c.name
      BY <3>1, <1>7 DEF c
    <3> QED  BY <3>2, <3>3, <3>4, <1>2
  <2> QED  BY <2>1, <2>2
<1>8. \A n \in DOMAIN j0.values : n \notin NamesUpTo(crumbs, i) => k.values[n] = j0.values[n]
  BY <1>2, <1>3 DEF Assigned
<1>9. Len(j0.order) <= Len(k.order) /\ \A p \in DOMAIN j0.order : k.order[p] = j0.order[p]
  BY <1>2, <1>4 DEF Assigned
<1>10. CASE c.name \in j.placed
  <2>1. k.order = j.order
    BY <1>10, <1>2
  <2>2. \A n \in NamesUpTo(crumbs, i) \ j0.placed : n \in NamesUpTo(crumbs, i - 1)
    BY <1>10, <1>3 DEF Assigned
  <2>3. ASSUME NEW p \in Added(j0, k), NEW q \in Added(j0, k), NEW l \in 1 .. i,
               p < q, crumbs[l].name = k.order[q]
        PROVE  \E m \in 1 .. l - 1 : crumbs[m].name = k.order[p]
    <3>0. p \in Added(j0, j) /\ q \in Added(j0, j)
      BY <2>1 DEF Added
    <3>1. CASE l = i
      <4>1. j.order[p] \in NamesUpTo(crumbs, i - 1)
        BY <3>0 DEF Assigned
      <4> QED  BY <4>1, <3>1, <2>1 DEF NamesUpTo
    <3>2. CASE l \in 1 .. i - 1
      BY <2>1, <2>3, <3>0, <3>2 DEF Assigned
    <3> QED  BY <3>1, <3>2, <1>5
  <2>4. \A p \in Added(j0, k) : k.order[p] \in NamesUpTo(crumbs, i) \ j0.placed
    BY <2>1, <1>3 DEF Assigned, Added
  <2>5. \A n \in NamesUpTo(crumbs, i) \ j0.placed : \E p \in Added(j0, k) : k.order[p] = n
    BY <2>1, <2>2 DEF Assigned, Added
  <2>6. k.placed = j0.placed \cup NamesUpTo(crumbs, i) /\ DOMAIN k.values = DOMAIN j0.values \cup NamesUpTo(crumbs, i)
    BY <1>2, <1>3 DEF Assigned
  <2>7. Assigned(j0, crumbs, i, k)
    BY <1>6, <1>7, <1>8, <1>9, <2>3, <2>4, <2>5, <2>6 DEF Assigned
  <2> QED  BY <2>7 DEF c, k
<1>11. CASE c.name \notin j.placed
  <2>1. /\ k.order = Append(j.order, c.name)
        /\ Len(k.order) = Len(j.order) + 1 /\ k.order[Len(j.order) + 1] = c.name
        /\ \A p \in DOMAIN j.order : k.order[p] = j.order[p]
    BY <1>11, <1>2, <1>4
  <2>2. c.name \notin NamesUpTo(crumbs, i - 1) /\ c.name \notin j0.placed
    BY <1>11 DEF Assigned
  <2>3. Len(j.order) + 1 \in Added(j0, k) /\ \A p \in Added(j0, k) : p \in Added(j0, j) \/ p = Len(j.order) + 1
    BY <2>1, <1>4 DEF Added, Assigned
  <2>4. \A p \in Added(j0, j) : p \in Added(j0, k) /\ p \in DOMAIN j.order /\ k.order[p] = j.order[p]
    BY <2>1, <1>4 DEF Added, Assigned
  <2>5. ASSUME NEW p \in Added(j0, k), NEW q \in Added(j0, k), NEW l \in 1 .. i,
               p < q, crumbs[l].name = k.order[q]
        PROVE  \E m \in 1 .. l - 1 : crumbs[m].name = k.order[p]
    <3>1. p \in Added(j0, j)
      BY <2>3, <2>5, <1>4, <2>1 DEF Added
    <3>2. CASE l = i
      <4>1. j.order[p] \in NamesUpTo(crumbs, i - 1) /\ k.order[p] = j.order[p]
        BY <3>1, <2>4 DEF Assigned
      <4> QED  BY <4>1, <3>2 DEF NamesUpTo
    <3>3. CASE l \in 1 .. i - 1
      <4>1. crumbs[l].name # c.name
        BY <3>3, <2>2 DEF NamesUpTo
      <4>2. q \in Added(j0, j)
        BY <4>1, <2>1, <2>3, <2>5
      <4>3. k.order[p] = j.order[p] /\ k.order[q] = j.order[q]
        BY <4>2, <3>1, <2>4
      <4> QED  BY <4>2, <4>3, <3>1, <3>3, <2>5 DEF Assigned
    <3> QED  BY <3>2, <3>3, <1>5
  <2>6. \A p \in Added(j0, k) : k.order[p] \in NamesUpTo(crumbs, i) \ j0.placed
    BY <2>1, <2>2, <2>3, <2>4, <1>3 DEF Assigned
  <2>7. \A n \in NamesUpTo(crumbs, i) \ j0.placed : \E p \in Added(j0, k) : k.order[p] = n
    <3> SUFFICES ASSUME NEW n \in NamesUpTo(crumbs, i) \ j0.placed
                 PROVE  \E p \in Added(j0, k) : k.order[p] = n
      OBVIOUS
    <3>1. CASE n = c.name
      BY <3>1, <2>1, <2>3
    <3>2. CASE n # c.name
      <4>1. PICK p \in Added(j0, j) : j.order[p] = n
        BY <3>2, <1>3 DEF Assigned
      <4> QED  BY <4>1, <2>4
    <3> QED  BY <3>1, <3>2
  <2>8. k.placed = j0.placed \cup NamesUpTo(crumbs, i) /\ DOMAIN k.values = DOMAIN j0.values \cup NamesUpTo(crumbs, i)
    BY <1>2, <1>3 DEF Assigned
  <2>9. Assigned(j0, crumbs, i, k)
    BY <1>6, <1>7, <1>8, <1>9, <2>5, <2>6, <2>7, <2>8 DEF Assigned
  <2> QED  BY <2>9 DEF c, k
<1> QED  BY <1>10, <1>11

LEMMA AssignedAll ==
  ASSUME NEW jar \in Jars, Sound(jar), NEW crumbs \in Seq(Crumbs)
  PROVE  AssignAll(jar, crumbs) \in Jars /\ Assigned(jar, crumbs, Len(crumbs), AssignAll(jar, crumbs))
<1> DEFINE n == Len(crumbs)
<1>1. PICK f \in [0 .. n -> Jars] :
         /\ f[0] = jar /\ AssignAll(jar, crumbs) = f[n]
         /\ \A i \in 1 .. n : f[i] = Assign(f[i - 1], crumbs[i])
  BY AssignAllLoop
<1> DEFINE T == {i \in 0 .. n : Assigned(jar, crumbs, i, f[i])}
<1>2. 0 \in T
  <2>1. NamesUpTo(crumbs, 0) = {} /\ Added(jar, jar) = {}
    BY JarFields DEF NamesUpTo, Added
  <2> QED  BY <2>1, <1>1, JarFields DEF Assigned
<1>3. ASSUME NEW i \in 0 .. n - 1, i \in T PROVE i + 1 \in T
  <2>1. i + 1 \in 1 .. n /\ (i + 1) - 1 = i /\ f[i] \in Jars
    OBVIOUS
  <2>2. Assigned(jar, crumbs, i + 1, Assign(f[i], crumbs[i + 1]))
    BY <2>1, <1>3, AssignedStep
  <2> QED  BY <2>1, <2>2, <1>1
<1>4. n \in Nat
  OBVIOUS
<1>5. n \in T
  <2> HIDE DEF T, n
  <2>1. 0 .. n \subseteq T
    BY <1>2, <1>3, <1>4, UpTo
  <2> QED  BY <2>1, <1>4
<1> QED  BY <1>1, <1>4, <1>5

-----------------------------------------------------------------------------
(* AnswerAll: a jar after the Set-Cookie headers of a response.               *)

\* What the jar j is after the first i headers were applied to the jar j0.
Adjusted(j0, sets, i, j) ==
    /\ Sound(j)
    /\ j.placed = j0.placed \cup (NamesUpTo(sets, i) \ {""})
    /\ \A k \in 1 .. i :
          sets[k].name # "" /\ (\A l \in k + 1 .. i : sets[l].name # sets[k].name) =>
              IF Clears(sets[k]) THEN sets[k].name \notin DOMAIN j.values
              ELSE sets[k].name \in DOMAIN j.values /\ j.values[sets[k].name] = sets[k].value
    /\ \A n \in CrumbNames \ NamesUpTo(sets, i) :
          /\ n \in DOMAIN j.values <=> n \in DOMAIN j0.values
          /\ n \in DOMAIN j0.values => j.values[n] = j0.values[n]
    /\ Len(j0.order) <= Len(j.order) /\ \A p \in DOMAIN j0.order : j.order[p] = j0.order[p]
    /\ \A p \in Added(j0, j) : j.order[p] \notin j0.placed
    /\ \A k \in 1 .. i :
          /\ sets[k].name \notin j0.placed \cup {""} /\ ~Clears(sets[k])
          /\ \A l \in 1 .. k - 1 : sets[l].name # sets[k].name
          => \E p \in DOMAIN j.order : j.order[p] = sets[k].name

LEMMA AnswerJar ==
  ASSUME NEW j \in Jars, NEW a \in Assignments
  PROVE  Answer(j, a) \in Jars
<1>1. a.name \in STRING /\ a.value \in STRING
  BY DEF Assignments
<1> QED  BY <1>1, AssignJar, ClearJar DEF Answer, CrumbNames

LEMMA AdjustedStep ==
  ASSUME NEW j0 \in Jars, NEW sets \in Seq(Assignments), NEW i \in 1 .. Len(sets), NEW j \in Jars,
         Adjusted(j0, sets, i - 1, j)
  PROVE  Adjusted(j0, sets, i, Answer(j, sets[i]))
<1> DEFINE a == sets[i]
           k == Answer(j, a)
<1>1. a \in Assignments
  OBVIOUS
<1>2. a.name \in STRING /\ a.value \in STRING /\ (a.name # "" => a.name \in CrumbNames)
  <2> HIDE DEF a
  <2> QED  BY <1>1 DEF Assignments, CrumbNames
<1>3. NamesUpTo(sets, i) = NamesUpTo(sets, i - 1) \cup {a.name}
  BY DEF NamesUpTo
<1>4. j0.order \in Seq(CrumbNames) /\ j.order \in Seq(CrumbNames)
  BY JarFields
<1>5. i - 1 \in Nat /\ i \in Nat /\ (\A l \in 1 .. i : l = i \/ l \in 1 .. i - 1)
        /\ \A l \in 1 .. i - 1 : l \in 1 .. i
  OBVIOUS
<1>6. \A m \in 1 .. i - 1 : (\A l \in m + 1 .. i : sets[l].name # sets[m].name) =>
          /\ \A l \in m + 1 .. i - 1 : sets[l].name # sets[m].name
          /\ a.name # sets[m].name
  <2> SUFFICES ASSUME NEW m \in 1 .. i - 1 PROVE i \in m + 1 .. i /\ \A l \in m + 1 .. i - 1 : l \in m + 1 .. i
    OBVIOUS
  <2> QED  OBVIOUS
<1> HIDE DEF a, k
<1>7. CASE a.name = ""
  <2>1. k = j
    BY <1>7 DEF k, Answer
  <2>2. Sound(j) /\ j.placed = j0.placed \cup (NamesUpTo(sets, i) \ {""})
    BY <1>3, <1>7 DEF Adjusted
  <2>3. \A m \in 1 .. i : sets[m].name # "" => m \in 1 .. i - 1
    BY <1>5, <1>7 DEF a
  <2>4. \A m \in 1 .. i :
          sets[m].name # "" /\ (\A l \in m + 1 .. i : sets[l].name # sets[m].name) =>
              IF Clears(sets[m]) THEN sets[m].name \notin DOMAIN j.values
              ELSE sets[m].name \in DOMAIN j.values /\ j.values[sets[m].name] = sets[m].value
    BY <1>6, <2>3 DEF Adjusted
  <2>5. \A n \in CrumbNames \ NamesUpTo(sets, i) : n \in CrumbNames \ NamesUpTo(sets, i - 1)
    BY <1>3
  <2>6. Adjusted(j0, sets, i, j)
    BY <2>2, <2>3, <2>4, <2>5 DEF Adjusted
  <2> QED  BY <2>1, <2>6 DEF a, k
<1>8. CASE a.name # "" /\ Clears(a)
  <2>1. /\ k.order = j.order
        /\ k.placed = j.placed \cup {a.name}
        /\ DOMAIN k.values = DOMAIN j.values \ {a.name}
        /\ \A n \in DOMAIN j.values : n # a.name => k.values[n] = j.values[n]
    <3>1. k = Clear(j, a.name)
      BY <1>8, Zenon DEF k, Answer
    <3>2. a.name \in CrumbNames
      BY <1>2, <1>8
    <3> HIDE DEF k
    <3> QED  BY <3>1, <3>2, ClearJar
  <2>2. Sound(k) /\ k.placed = j0.placed \cup (NamesUpTo(sets, i) \ {""})
    <3>1. Sound(j) /\ j.placed = j0.placed \cup (NamesUpTo(sets, i - 1) \ {""})
      BY DEF Adjusted
    <3>2. Sound(k)
      BY <3>1, <2>1 DEF Sound
    <3> QED  BY <3>1, <3>2, <2>1, <1>3, <1>8
  <2>3. ASSUME NEW m \in 1 .. i, sets[m].name # "", \A l \in m + 1 .. i : sets[l].name # sets[m].name
        PROVE  IF Clears(sets[m]) THEN sets[m].name \notin DOMAIN k.values
               ELSE sets[m].name \in DOMAIN k.values /\ k.values[sets[m].name] = sets[m].value
    <3>1. CASE m = i
      BY <3>1, <2>1, <1>8 DEF a
    <3>2. CASE m \in 1 .. i - 1
      BY <3>2, <2>1, <2>3, <1>6 DEF Adjusted
    <3> QED  BY <3>1, <3>2, <1>5
  <2>4. ASSUME NEW n \in CrumbNames \ NamesUpTo(sets, i)
        PROVE  /\ n \in DOMAIN k.values <=> n \in DOMAIN j0.values
               /\ n \in DOMAIN j0.values => k.values[n] = j0.values[n]
    BY <2>1, <1>3 DEF Adjusted
  <2>5. ASSUME NEW m \in 1 .. i, sets[m].name \notin j0.placed \cup {""}, ~Clears(sets[m]),
               \A l \in 1 .. m - 1 : sets[l].name # sets[m].name
        PROVE  \E p \in DOMAIN k.order : k.order[p] = sets[m].name
    <3>1. m \in 1 .. i - 1
      BY <2>5, <1>5, <1>8 DEF a
    <3>2. \E p \in DOMAIN j.order : j.order[p] = sets[m].name
      BY <3>1, <2>5 DEF Adjusted
    <3> QED  BY <3>2, <2>1
  <2>6. Added(j0, k) = Added(j0, j)
    BY <2>1 DEF Added
  <2>7. Adjusted(j0, sets, i, k)
    BY <2>1, <2>2, <2>3, <2>4, <2>5, <2>6 DEF Adjusted
  <2> QED  BY <2>7 DEF a, k
<1>9. CASE a.name # "" /\ ~Clears(a)
  <2>1. /\ k \in Jars
        /\ k.order = IF a.name \in j.placed THEN j.order ELSE Append(j.order, a.name)
        /\ k.placed = j.placed \cup {a.name}
        /\ DOMAIN k.values = DOMAIN j.values \cup {a.name}
        /\ k.values[a.name] = a.value
        /\ \A n \in DOMAIN j.values : n # a.name => k.values[n] = j.values[n]
    BY <1>2, <1>9, AssignJar DEF k, Answer
  <2>2. /\ DOMAIN j.order = 1 .. Len(j.order) /\ Len(j.order) \in Nat
        /\ \A p \in DOMAIN j.order : p \in DOMAIN k.order /\ k.order[p] = j.order[p]
        /\ a.name \notin j.placed =>
             /\ DOMAIN k.order = DOMAIN j.order \cup {Len(j.order) + 1} /\ Len(k.order) = Len(j.order) + 1
             /\ k.order[Len(j.order) + 1] = a.name
    BY <2>1, <1>4
  <2>3. Sound(k)
    <3>1. CASE a.name \in j.placed
      <4>1. Sound(j)
        BY DEF Adjusted
      <4> QED  BY <4>1, <3>1, <2>1 DEF Sound
    <3>2. CASE a.name \notin j.placed
      <4>1. Sound(j)
        BY DEF Adjusted
      <4> QED  BY <4>1, <3>2, <2>1, <2>2 DEF Sound
    <3> QED  BY <3>1, <3>2
  <2>4. k.placed = j0.placed \cup (NamesUpTo(sets, i) \ {""})
    BY <2>1, <1>3, <1>9 DEF Adjusted
  <2>5. ASSUME NEW m \in 1 .. i, sets[m].name # "", \A l \in m + 1 .. i : sets[l].name # sets[m].name
        PROVE  IF Clears(sets[m]) THEN sets[m].name \notin DOMAIN k.values
               ELSE sets[m].name \in DOMAIN k.values /\ k.values[sets[m].name] = sets[m].value
    <3>1. CASE m = i
      BY <3>1, <2>1, <1>9 DEF a
    <3>2. CASE m \in 1 .. i - 1
      <4>1. IF Clears(sets[m]) THEN sets[m].name \notin DOMAIN j.values
            ELSE sets[m].name \in DOMAIN j.values /\ j.values[sets[m].name] = sets[m].value
        BY <3>2, <2>5, <1>6 DEF Adjusted
      <4>2. a.name # sets[m].name
        BY <3>2, <2>5, <1>6
      <4> QED  BY <4>1, <4>2, <2>1
    <3> QED  BY <3>1, <3>2, <1>5
  <2>6. ASSUME NEW n \in CrumbNames \ NamesUpTo(sets, i)
        PROVE  /\ n \in DOMAIN k.values <=> n \in DOMAIN j0.values
               /\ n \in DOMAIN j0.values => k.values[n] = j0.values[n]
    BY <2>1, <1>3 DEF Adjusted
  <2>7. ASSUME NEW m \in 1 .. i, sets[m].name \notin j0.placed \cup {""}, ~Clears(sets[m]),
               \A l \in 1 .. m - 1 : sets[l].name # sets[m].name
        PROVE  \E p \in DOMAIN k.order : k.order[p] = sets[m].name
    <3>1. CASE m \in 1 .. i - 1
      <4>1. PICK p \in DOMAIN j.order : j.order[p] = sets[m].name
        BY <3>1, <2>7 DEF Adjusted
      <4> QED  BY <4>1, <2>2
    <3>2. CASE m = i
      <4>1. a.name \notin j.placed
        <5>1. a.name \notin NamesUpTo(sets, i - 1)
          BY <2>7, <3>2 DEF NamesUpTo, a
        <5> QED  BY <5>1, <2>7, <3>2 DEF Adjusted, a
      <4> QED  BY <4>1, <2>2, <3>2 DEF a
    <3> QED  BY <3>1, <3>2, <1>5
  <2>8. Len(j0.order) <= Len(k.order) /\ \A p \in DOMAIN j0.order : k.order[p] = j0.order[p]
    <3>1. Len(j0.order) <= Len(j.order) /\ \A p \in DOMAIN j0.order : j.order[p] = j0.order[p]
      BY DEF Adjusted
    <3>2. DOMAIN j0.order = 1 .. Len(j0.order) /\ Len(j0.order) \in Nat
      BY <1>4
    <3>3. \A p \in DOMAIN j0.order : p \in DOMAIN j.order
      BY <3>1, <3>2, <2>2
    <3>4. k.order = j.order \/ Len(k.order) = Len(j.order) + 1
      BY <2>1, <2>2
    <3> QED  BY <3>1, <3>2, <3>3, <3>4, <2>2
  <2>9. \A p \in Added(j0, k) : k.order[p] \notin j0.placed
    <3>1. CASE a.name \in j.placed
      BY <3>1, <2>1 DEF Adjusted, Added
    <3>2. CASE a.name \notin j.placed
      <4>1. \A p \in Added(j0, k) : p = Len(j.order) + 1 \/ (p \in Added(j0, j) /\ p \in DOMAIN j.order)
        BY <3>2, <2>2, <1>4 DEF Added
      <4>2. a.name \notin j0.placed
        BY <3>2 DEF Adjusted
      <4> QED  BY <3>2, <4>1, <4>2, <2>2 DEF Adjusted
    <3> QED  BY <3>1, <3>2
  <2>10. Adjusted(j0, sets, i, k)
    BY <2>3, <2>4, <2>5, <2>6, <2>7, <2>8, <2>9 DEF Adjusted
  <2> QED  BY <2>10 DEF a, k
<1> QED  BY <1>7, <1>8, <1>9

LEMMA AnswerAllLoop ==
  ASSUME NEW jar \in Jars, NEW sets \in Seq(Assignments)
  PROVE  \E f \in [0 .. Len(sets) -> Jars] :
            /\ f[0] = jar /\ AnswerAll(jar, sets) = f[Len(sets)]
            /\ \A i \in 1 .. Len(sets) : f[i] = Answer(f[i - 1], sets[i])
<1> DEFINE n == Len(sets)
           step == [i \in 1 .. n |-> [j \in Jars |-> Answer(j, sets[i])]]
           After(f) == f = [i \in 0 .. n |-> IF i = 0 THEN jar ELSE Answer(f[i - 1], sets[i])]
           after == CHOOSE f : After(f)
<1>1. ASSUME NEW j \in Jars, NEW i \in 1 .. n
      PROVE  Answer(j, sets[i]) \in Jars
  <2>1. sets[i] \in Assignments
    OBVIOUS
  <2> QED  BY <2>1, AnswerJar
<1>2. step \in [1 .. n -> [Jars -> Jars]]
  BY <1>1
<1>3. PICK f \in [0 .. n -> Jars] : Iterates(f, n, jar, step)
  <2>1. n \in Nat
    OBVIOUS
  <2> HIDE DEF step, n
  <2> QED  BY <2>1, <1>2, LoopExists
<1>4. f[0] = jar /\ \A i \in 1 .. n : f[i] = Answer(f[i - 1], sets[i])
  <2>1. \A i \in 1 .. n, j \in Jars : step[i][j] = Answer(j, sets[i])
    OBVIOUS
  <2>2. \A i \in 1 .. n : f[i - 1] \in Jars
    OBVIOUS
  <2> HIDE DEF step
  <2> QED  BY <2>1, <2>2, <1>3 DEF Iterates
<1>5. After(f)
  <2>1. f = [i \in 0 .. n |-> f[i]]
    OBVIOUS
  <2>2. \A i \in 0 .. n : f[i] = IF i = 0 THEN jar ELSE Answer(f[i - 1], sets[i])
    BY <1>4
  <2> QED  BY <2>1, <2>2
<1>6. After(after)
  <2> HIDE DEF After
  <2> QED  BY <1>5
<1>7. AnswerAll(jar, sets) = after[n]
  BY DEF AnswerAll
<1> HIDE DEF after
<1>8. /\ after[0] = jar
      /\ \A i \in 1 .. n : after[i] = Answer(after[i - 1], sets[i])
      /\ after = [i \in 0 .. n |-> after[i]]
  BY <1>6
<1>9. \A i \in 0 .. n : after[i] \in Jars
  <2>1. \A i \in 1 .. n : after[i - 1] \in Jars => after[i] \in Jars
    BY <1>1, <1>8
  <2>2. n \in Nat
    OBVIOUS
  <2> HIDE DEF n
  <2> QED  BY <1>8, <2>1, <2>2, LoopTyped
<1> QED  BY <1>7, <1>8, <1>9

LEMMA AdjustedAll ==
  ASSUME NEW jar \in Jars, Sound(jar), NEW sets \in Seq(Assignments)
  PROVE  AnswerAll(jar, sets) \in Jars /\ Adjusted(jar, sets, Len(sets), AnswerAll(jar, sets))
<1> DEFINE n == Len(sets)
<1>1. PICK f \in [0 .. n -> Jars] :
         /\ f[0] = jar /\ AnswerAll(jar, sets) = f[n]
         /\ \A i \in 1 .. n : f[i] = Answer(f[i - 1], sets[i])
  BY AnswerAllLoop
<1> DEFINE T == {i \in 0 .. n : Adjusted(jar, sets, i, f[i])}
<1>2. 0 \in T
  <2>1. NamesUpTo(sets, 0) = {} /\ Added(jar, jar) = {}
    BY JarFields DEF NamesUpTo, Added
  <2>2. jar.order \in Seq(CrumbNames) /\ DOMAIN jar.values \in SUBSET CrumbNames
    BY JarFields
  <2>3. Adjusted(jar, sets, 0, jar)
    <3>1. Len(jar.order) <= Len(jar.order) /\ (1 .. 0) = {}
      BY <2>2
    <3> QED  BY <2>1, <2>2, <3>1 DEF Adjusted
  <2> QED  BY <2>3, <1>1
<1>3. ASSUME NEW i \in 0 .. n - 1, i \in T PROVE i + 1 \in T
  <2>1. i + 1 \in 1 .. n /\ (i + 1) - 1 = i /\ f[i] \in Jars
    OBVIOUS
  <2>2. Adjusted(jar, sets, i + 1, Answer(f[i], sets[i + 1]))
    BY <2>1, <1>3, AdjustedStep
  <2> QED  BY <2>1, <2>2, <1>1
<1>4. n \in Nat
  OBVIOUS
<1>5. n \in T
  <2> HIDE DEF T, n
  <2>1. 0 .. n \subseteq T
    BY <1>2, <1>3, <1>4, UpTo
  <2> QED  BY <2>1, <1>4
<1> QED  BY <1>1, <1>4, <1>5

-----------------------------------------------------------------------------
(* Written: the cookie a jar is written as.                                   *)

\* What is written of the first i names of a jar's order.
WrittenUpTo(j, i, w) ==
    /\ \A p \in DOMAIN w :
          /\ w[p].name \in DOMAIN j.values /\ w[p].value = j.values[w[p].name]
          /\ \E q \in 1 .. i : j.order[q] = w[p].name
    /\ \A q \in 1 .. i : j.order[q] \in DOMAIN j.values => \E p \in DOMAIN w : w[p].name = j.order[q]
    /\ \A p1, p2 \in DOMAIN w : \A q1, q2 \in 1 .. i :
          p1 < p2 /\ j.order[q1] = w[p1].name /\ j.order[q2] = w[p2].name => q1 < q2

LEMMA WrittenStep ==
  ASSUME NEW j \in Jars, Sound(j), NEW i \in 1 .. Len(j.order), NEW w \in Seq(Crumbs),
         WrittenUpTo(j, i - 1, w), j.order[i] \in DOMAIN j.values,
         NEW c, c = [name |-> j.order[i], value |-> j.values[j.order[i]]]
  PROVE  Append(w, c) \in Seq(Crumbs) /\ WrittenUpTo(j, i, Append(w, c))
<1> DEFINE x == Append(w, c)
<1>1. j.order \in Seq(CrumbNames) /\ j.values \in [DOMAIN j.values -> STRING]
  BY JarFields
<1>2. c \in Crumbs
  <2>1. j.order[i] \in CrumbNames /\ j.values[j.order[i]] \in STRING
    BY <1>1
  <2> QED  BY <2>1 DEF Crumbs, CrumbNames
<1>3. /\ x \in Seq(Crumbs) /\ DOMAIN x = DOMAIN w \cup {Len(w) + 1} /\ DOMAIN w = 1 .. Len(w)
      /\ Len(w) \in Nat /\ x[Len(w) + 1] = c /\ \A p \in DOMAIN w : x[p] = w[p]
  BY <1>2
<1>4. /\ \A q \in 1 .. i : q = i \/ q \in 1 .. i - 1
      /\ \A q \in 1 .. i - 1 : q \in 1 .. i
      /\ \A q \in 1 .. i : q \in DOMAIN j.order
  BY <1>1
<1>5. \A q1, q2 \in 1 .. i : j.order[q1] = j.order[q2] => q1 = q2
  BY <1>4 DEF Sound
<1> HIDE DEF x
<1>6. ASSUME NEW p \in DOMAIN x
      PROVE  /\ x[p].name \in DOMAIN j.values /\ x[p].value = j.values[x[p].name]
             /\ \E q \in 1 .. i : j.order[q] = x[p].name
  <2>1. CASE p \in DOMAIN w
    <3>1. x[p] = w[p]
      BY <2>1, <1>3
    <3>2. w[p].name \in DOMAIN j.values /\ w[p].value = j.values[w[p].name]
      BY <2>1 DEF WrittenUpTo
    <3>3. PICK q \in 1 .. i - 1 : j.order[q] = w[p].name
      BY <2>1 DEF WrittenUpTo
    <3>4. q \in 1 .. i
      BY <1>4
    <3> QED  BY <3>1, <3>2, <3>3, <3>4
  <2>2. CASE p = Len(w) + 1
    <3>1. x[p] = c /\ i \in 1 .. i
      BY <2>2, <1>3
    <3> QED  BY <3>1
  <2> QED  BY <2>1, <2>2, <1>3
<1>7. ASSUME NEW q \in 1 .. i, j.order[q] \in DOMAIN j.values
      PROVE  \E p \in DOMAIN x : x[p].name = j.order[q]
  <2>1. CASE q = i
    BY <2>1, <1>3
  <2>2. CASE q \in 1 .. i - 1
    <3>1. PICK p \in DOMAIN w : w[p].name = j.order[q]
      BY <2>2, <1>7 DEF WrittenUpTo
    <3> QED  BY <3>1, <1>3
  <2> QED  BY <2>1, <2>2, <1>4
<1>8. ASSUME NEW p1 \in DOMAIN x, NEW p2 \in DOMAIN x, NEW q1 \in 1 .. i, NEW q2 \in 1 .. i,
             p1 < p2, j.order[q1] = x[p1].name, j.order[q2] = x[p2].name
      PROVE  q1 < q2
  <2>1. p1 \in DOMAIN w
    BY <1>8, <1>3
  <2>2. PICK r1 \in 1 .. i - 1 : j.order[r1] = w[p1].name
    BY <2>1 DEF WrittenUpTo
  <2>3. q1 = r1
    <3>1. x[p1] = w[p1] /\ r1 \in 1 .. i
      BY <2>1, <1>3, <1>4
    <3>2. j.order[q1] = j.order[r1]
      BY <2>2, <3>1, <1>8
    <3> QED  BY <3>1, <3>2, <1>5, <1>8
  <2>4. CASE p2 \in DOMAIN w
    <3>1. PICK r2 \in 1 .. i - 1 : j.order[r2] = w[p2].name
      BY <2>4 DEF WrittenUpTo
    <3>2. q2 = r2
      <4>1. x[p2] = w[p2] /\ r2 \in 1 .. i
        BY <2>4, <1>3, <1>4
      <4>2. j.order[q2] = j.order[r2]
        BY <3>1, <4>1, <1>8
      <4> QED  BY <4>1, <4>2, <1>5, <1>8
    <3> QED  BY <2>1, <2>3, <2>4, <3>2, <1>3, <1>8 DEF WrittenUpTo
  <2>5. CASE p2 = Len(w) + 1
    <3>1. q2 = i
      BY <2>5, <1>3, <1>5, <1>8
    <3> QED  BY <2>3, <3>1
  <2> QED  BY <2>4, <2>5, <1>3
<1>9. WrittenUpTo(j, i, x)
  BY <1>6, <1>7, <1>8 DEF WrittenUpTo
<1> QED  BY <1>3, <1>9 DEF x

LEMMA WrittenIs ==
  ASSUME NEW j \in Jars, Sound(j)
  PROVE  Written(j) \in Seq(Crumbs) /\ WrittenUpTo(j, Len(j.order), Written(j))
<1> DEFINE n == Len(j.order)
           Crumb(i) == [name |-> j.order[i], value |-> j.values[j.order[i]]]
           Put(w, i) == IF j.order[i] \in DOMAIN j.values THEN Append(w, Crumb(i)) ELSE w
           S == Seq(Crumbs)
           step == [i \in 1 .. n |-> [w \in S |-> Put(w, i)]]
           After(f) == f = [i \in 0 .. n |->
                               IF i = 0 THEN <<>>
                               ELSE IF j.order[i] \in DOMAIN j.values
                                    THEN Append(f[i - 1], [name |-> j.order[i], value |-> j.values[j.order[i]]])
                               ELSE f[i - 1]]
           after == CHOOSE f : After(f)
<1>1. j.order \in Seq(CrumbNames) /\ n \in Nat /\ j.values \in [DOMAIN j.values -> STRING]
  BY JarFields
<1>2. ASSUME NEW i \in 1 .. n, NEW w \in S
      PROVE  Put(w, i) \in S
  <2>1. j.order[i] \in CrumbNames
    BY <1>1
  <2>2. j.order[i] \in DOMAIN j.values => Crumb(i) \in Crumbs
    BY <2>1, <1>1 DEF Crumbs, CrumbNames
  <2> HIDE DEF Crumb
  <2> QED  BY <2>2
<1>3. \E f : After(f)
  <2>1. step \in [1 .. n -> [S -> S]]
    BY <1>2
  <2>2. \A i \in 1 .. n, w \in S : step[i][w] = Put(w, i)
    OBVIOUS
  <2>3. PICK f \in [0 .. n -> S] : Iterates(f, n, <<>>, step)
    <3>1. <<>> \in S
      OBVIOUS
    <3> HIDE DEF step, n, S
    <3> QED  BY <3>1, <2>1, <1>1, LoopExists
  <2>4. f[0] = <<>> /\ \A i \in 1 .. n : f[i] = Put(f[i - 1], i)
    <3>1. \A i \in 1 .. n : f[i - 1] \in S
      BY <1>1
    <3> HIDE DEF step, S, Put
    <3> QED  BY <3>1, <2>2, <2>3 DEF Iterates
  <2>5. f = [i \in 0 .. n |-> f[i]]
    OBVIOUS
  <2>6. After(f)
    <3>1. \A i \in 0 .. n : i = 0 \/ i \in 1 .. n
      BY <1>1
    <3>2. \A i \in 0 .. n : f[i] = IF i = 0 THEN <<>>
                                 ELSE IF j.order[i] \in DOMAIN j.values
                                      THEN Append(f[i - 1], [name |-> j.order[i], value |-> j.values[j.order[i]]])
                                 ELSE f[i - 1]
      BY <2>4, <3>1
    <3> QED  BY <2>5, <3>2
  <2> QED  BY <2>6
<1>4. After(after)
  <2> HIDE DEF After
  <2> QED  BY <1>3
<1>5. Written(j) = after[n]
  BY DEF Written
<1> HIDE DEF after
<1>6. after[0] = <<>> /\ \A i \in 1 .. n : after[i] = Put(after[i - 1], i)
  <2>1. 0 \in 0 .. n /\ \A i \in 1 .. n : i \in 0 .. n /\ i # 0
    BY <1>1
  <2> HIDE DEF n
  <2> QED  BY <1>4, <2>1
<1> DEFINE T == {i \in 0 .. n : after[i] \in S /\ WrittenUpTo(j, i, after[i])}
<1>7. 0 \in T
  <2>1. WrittenUpTo(j, 0, <<>>)
    BY DEF WrittenUpTo
  <2>2. 0 \in 0 .. n /\ <<>> \in S
    BY <1>1
  <2> QED  BY <2>1, <2>2, <1>6
<1>8. ASSUME NEW i \in 0 .. n - 1, i \in T PROVE i + 1 \in T
  <2>1. i + 1 \in 1 .. n /\ (i + 1) - 1 = i /\ i + 1 \in 0 .. n
    BY <1>1
  <2>2. after[i] \in S /\ WrittenUpTo(j, i, after[i]) /\ after[i + 1] = Put(after[i], i + 1)
    BY <2>1, <1>6, <1>8
  <2>3. CASE j.order[i + 1] \in DOMAIN j.values
    <3>1. after[i + 1] = Append(after[i], Crumb(i + 1))
      BY <2>2, <2>3
    <3>2. after[i + 1] \in S /\ WrittenUpTo(j, i + 1, after[i + 1])
      BY <2>1, <2>2, <2>3, <3>1, WrittenStep
    <3> QED  BY <2>1, <3>2
  <2>4. CASE j.order[i + 1] \notin DOMAIN j.values
    <3>1. after[i + 1] = after[i]
      BY <2>2, <2>4
    <3>2. \A q \in 1 .. i + 1 : q = i + 1 \/ q \in 1 .. i
      OBVIOUS
    <3>3. \A q \in 1 .. i : q \in 1 .. i + 1
      OBVIOUS
    <3>4. \A p \in DOMAIN after[i] : after[i][p].name # j.order[i + 1]
      BY <2>2, <2>4 DEF WrittenUpTo
    <3>5. WrittenUpTo(j, i + 1, after[i + 1])
      <4> DEFINE w == after[i]
      <4>1. WrittenUpTo(j, i, w)
        BY <2>2
      <4>2. \A p \in DOMAIN w, q \in 1 .. i + 1 : j.order[q] = w[p].name => q \in 1 .. i
        BY <3>2, <3>4
      <4>3. \A q \in 1 .. i + 1 : j.order[q] \in DOMAIN j.values => q \in 1 .. i
        BY <3>2, <2>4
      <4> HIDE DEF w
      <4>4. WrittenUpTo(j, i + 1, w)
        BY <4>1, <4>2, <4>3, <3>3 DEF WrittenUpTo
      <4> QED  BY <4>4, <3>1 DEF w
    <3> QED  BY <2>1, <2>2, <3>1, <3>5
  <2> QED  BY <2>3, <2>4
<1>9. n \in T
  <2> HIDE DEF T, n
  <2>1. 0 .. n \subseteq T
    BY <1>1, <1>7, <1>8, UpTo
  <2> QED  BY <2>1, <1>1
<1> QED  BY <1>5, <1>9

-----------------------------------------------------------------------------
(* Reading a cookie name by name.                                             *)

LEMMA EarliestIs ==
  ASSUME NEW C, NEW crumbs \in Seq(C), NEW n \in Names(crumbs)
  PROVE  LET m == Earliest(crumbs, n)
         IN /\ m \in DOMAIN crumbs /\ crumbs[m].name = n
            /\ \A k \in DOMAIN crumbs : crumbs[k].name = n => m <= k
<1>1. Places(crumbs, n) \subseteq Nat /\ Places(crumbs, n) # {}
  BY DEF Places, Names
<1>2. PICK m \in Places(crumbs, n) : \A k \in Places(crumbs, n) : m <= k
  BY <1>1, Least
<1>3. Earliest(crumbs, n) \in Places(crumbs, n)
        /\ \A k \in Places(crumbs, n) : Earliest(crumbs, n) <= k
  BY <1>2 DEF Earliest, Min
<1> QED  BY <1>3 DEF Places

LEMMA Greatest ==
  ASSUME NEW n \in Nat, NEW T, T \subseteq 1 .. n, T # {}
  PROVE  \E m \in T : \A k \in T : k <= m
<1> DEFINE U == {n - k : k \in T}
<1>1. U \subseteq Nat /\ U # {}
  <2>1. \A k \in T : n - k \in Nat
    OBVIOUS
  <2>2. PICK k \in T : TRUE
    OBVIOUS
  <2> QED  BY <2>1, <2>2
<1>2. PICK u \in U : \A v \in U : u <= v
  <2> HIDE DEF U
  <2> QED  BY <1>1, Least
<1>3. PICK m \in T : u = n - m
  OBVIOUS
<1>4. ASSUME NEW k \in T PROVE k <= m
  <2>1. n - k \in U
    OBVIOUS
  <2> QED  BY <2>1, <1>2, <1>3
<1> QED  BY <1>4

LEMMA LatestIs ==
  ASSUME NEW C, NEW crumbs \in Seq(C), NEW n \in Names(crumbs)
  PROVE  \E m \in DOMAIN crumbs :
            /\ Latest(crumbs, n) = crumbs[m] /\ crumbs[m].name = n
            /\ \A k \in DOMAIN crumbs : crumbs[k].name = n => k <= m
<1>1. Places(crumbs, n) \subseteq 1 .. Len(crumbs) /\ Len(crumbs) \in Nat /\ Places(crumbs, n) # {}
  BY DEF Places, Names
<1>2. PICK m \in Places(crumbs, n) : \A k \in Places(crumbs, n) : k <= m
  BY <1>1, Greatest
<1>3. Max(Places(crumbs, n)) \in Places(crumbs, n)
        /\ \A k \in Places(crumbs, n) : k <= Max(Places(crumbs, n))
  BY <1>1, <1>2 DEF Max
<1> QED  BY <1>3 DEF Places, Latest

LEMMA ValueOfDistinct ==
  ASSUME NEW w \in Seq(Crumbs), Distinct(w), NEW p \in DOMAIN w
  PROVE  ValueOf(w, w[p].name) = w[p].value
<1>1. w[p].name \in Names(w)
  BY DEF Names
<1>2. PICK m \in DOMAIN w : Latest(w, w[p].name) = w[m] /\ w[m].name = w[p].name
  BY <1>1, LatestIs
<1> QED  BY <1>2 DEF Distinct, ValueOf

LEMMA NoCrumbsJar == NoCrumbs \in Jars /\ Sound(NoCrumbs)
<1>1. <<>> \in Seq(CrumbNames) /\ DOMAIN <<>> = {} /\ <<>> \in [{} -> STRING]
  OBVIOUS
<1>2. NoCrumbs \in Jars
  BY <1>1, JarsAre DEF NoCrumbs
<1> QED  BY <1>1, <1>2 DEF NoCrumbs, Sound

\* The jar a cookie fills from nothing.
Filled(cookie, j) ==
    /\ j \in Jars /\ Sound(j)
    /\ j.placed = Names(cookie) /\ DOMAIN j.values = Names(cookie)
    /\ \A n \in Names(cookie) : j.values[n] = ValueOf(cookie, n)
    /\ \A n \in Names(cookie) : \E p \in DOMAIN j.order : j.order[p] = n
    /\ \A p, q \in DOMAIN j.order :
          p < q => Earliest(cookie, j.order[p]) < Earliest(cookie, j.order[q])

LEMMA FilledAll ==
  ASSUME NEW cookie \in Seq(Crumbs)
  PROVE  Filled(cookie, AssignAll(NoCrumbs, cookie))
<1> DEFINE j == AssignAll(NoCrumbs, cookie)
           n == Len(cookie)
<1>1. j \in Jars /\ Assigned(NoCrumbs, cookie, n, j)
  BY NoCrumbsJar, AssignedAll
<1>2. DOMAIN cookie = 1 .. n /\ n \in Nat
  OBVIOUS
<1>3. NamesUpTo(cookie, n) = Names(cookie)
  BY <1>2 DEF NamesUpTo, Names
<1> HIDE DEF j, n
<1>4. j.order \in Seq(CrumbNames)
  BY <1>1, JarFields
<1>5. /\ NoCrumbs.placed = {} /\ DOMAIN NoCrumbs.values = {} /\ Len(NoCrumbs.order) = 0
      /\ Added(NoCrumbs, j) = DOMAIN j.order
  BY <1>4 DEF NoCrumbs, Added
<1>6. Sound(j) /\ j.placed = Names(cookie) /\ DOMAIN j.values = Names(cookie)
  BY <1>1, <1>3, <1>5 DEF Assigned
<1>7. ASSUME NEW name \in Names(cookie)
      PROVE  j.values[name] = ValueOf(cookie, name)
  <2>1. PICK m \in DOMAIN cookie :
           /\ Latest(cookie, name) = cookie[m] /\ cookie[m].name = name
           /\ \A k \in DOMAIN cookie : cookie[k].name = name => k <= m
    BY LatestIs
  <2>2. \A l \in m + 1 .. n : l \in DOMAIN cookie /\ ~(l <= m)
    BY <1>2
  <2>3. \A l \in m + 1 .. n : cookie[l].name # cookie[m].name
    BY <2>1, <2>2
  <2>4. j.values[name] = cookie[m].value
    BY <2>1, <2>3, <1>1, <1>2 DEF Assigned
  <2> QED  BY <2>1, <2>4 DEF ValueOf
<1>8. \A name \in Names(cookie) : \E p \in DOMAIN j.order : j.order[p] = name
  BY <1>1, <1>3, <1>5 DEF Assigned
<1>9. ASSUME NEW p \in DOMAIN j.order, NEW q \in DOMAIN j.order, p < q
      PROVE  Earliest(cookie, j.order[p]) < Earliest(cookie, j.order[q])
  <2>1. j.order[p] \in Names(cookie) /\ j.order[q] \in Names(cookie)
    BY <1>6 DEF Sound
  <2>2. /\ Earliest(cookie, j.order[q]) \in DOMAIN cookie
        /\ cookie[Earliest(cookie, j.order[q])].name = j.order[q]
    BY <2>1, EarliestIs
  <2>3. PICK k \in 1 .. Earliest(cookie, j.order[q]) - 1 : cookie[k].name = j.order[p]
    BY <2>2, <1>1, <1>2, <1>5, <1>9 DEF Assigned
  <2>4. k \in DOMAIN cookie
    BY <2>2, <1>2
  <2>5. Earliest(cookie, j.order[p]) <= k /\ Earliest(cookie, j.order[p]) \in DOMAIN cookie
    BY <2>1, <2>3, <2>4, EarliestIs
  <2> QED  BY <2>2, <2>3, <2>5, <1>2
<1> QED  BY <1>1, <1>6, <1>7, <1>8, <1>9 DEF Filled, j

\* What is written of a jar whose order continues that of the jar a base filled.
LEMMA WrittenFollows ==
  ASSUME NEW base \in Seq(Crumbs), NEW j0, Filled(base, j0), NEW j \in Jars, Sound(j),
         Len(j0.order) <= Len(j.order), \A p \in DOMAIN j0.order : j.order[p] = j0.order[p],
         \A p \in Added(j0, j) : j.order[p] \notin j0.placed
  PROVE  LET w == Written(j)
         IN /\ w \in Seq(Crumbs) /\ Distinct(w) /\ Follows(w, base)
            /\ Names(w) \subseteq DOMAIN j.values
            /\ \A n \in Names(w) : ValueOf(w, n) = j.values[n]
            /\ \A p \in DOMAIN j.order : j.order[p] \in DOMAIN j.values => j.order[p] \in Names(w)
<1> DEFINE w == Written(j)
<1>1. w \in Seq(Crumbs) /\ WrittenUpTo(j, Len(j.order), w)
  BY WrittenIs
<1>2. /\ j.order \in Seq(CrumbNames) /\ j0.order \in Seq(CrumbNames)
      /\ DOMAIN j.order = 1 .. Len(j.order) /\ DOMAIN j0.order = 1 .. Len(j0.order)
      /\ Len(j.order) \in Nat /\ Len(j0.order) \in Nat
  BY JarFields DEF Filled
<1> HIDE DEF w
<1>3. DOMAIN w = 1 .. Len(w) /\ Len(w) \in Nat
  BY <1>1
<1>4. \A p \in DOMAIN w : \E q \in DOMAIN j.order : j.order[q] = w[p].name
  BY <1>1, <1>2 DEF WrittenUpTo
<1>5. \A p1, p2 \in DOMAIN w : \A q1, q2 \in DOMAIN j.order :
         p1 < p2 /\ j.order[q1] = w[p1].name /\ j.order[q2] = w[p2].name => q1 < q2
  BY <1>1, <1>2 DEF WrittenUpTo
<1>6. Distinct(w)
  <2> SUFFICES ASSUME NEW p1 \in DOMAIN w, NEW p2 \in DOMAIN w, w[p1].name = w[p2].name, p1 < p2
               PROVE  FALSE
    BY <1>3 DEF Distinct
  <2>1. PICK q \in DOMAIN j.order : j.order[q] = w[p1].name
    BY <1>4
  <2>2. q < q
    BY <2>1, <1>5
  <2> QED  BY <2>2, <1>2
<1>7. \A p \in DOMAIN w : w[p].name \in DOMAIN j.values /\ w[p].value = j.values[w[p].name]
  BY <1>1 DEF WrittenUpTo
<1>8. Names(w) \subseteq DOMAIN j.values
  BY <1>7 DEF Names
<1>9. \A n \in Names(w) : ValueOf(w, n) = j.values[n]
  BY <1>1, <1>6, <1>7, ValueOfDistinct DEF Names
<1>10. \A p \in DOMAIN j.order : j.order[p] \in DOMAIN j.values => j.order[p] \in Names(w)
  BY <1>1, <1>2 DEF WrittenUpTo, Names
<1>11. Follows(w, base)
  <2> SUFFICES ASSUME NEW p1 \in DOMAIN w, NEW p2 \in DOMAIN w, p1 < p2, w[p2].name \in Names(base)
               PROVE  /\ w[p1].name \in Names(base)
                      /\ Earliest(base, w[p1].name) < Earliest(base, w[p2].name)
    BY DEF Follows
  <2>1. PICK q1 \in DOMAIN j.order : j.order[q1] = w[p1].name
    BY <1>4
  <2>2. PICK q2 \in DOMAIN j.order : j.order[q2] = w[p2].name
    BY <1>4
  <2>3. q1 < q2
    BY <2>1, <2>2, <1>5
  <2>4. q2 \notin Added(j0, j)
    BY <2>2 DEF Filled
  <2>5. q2 \in DOMAIN j0.order /\ q1 \in DOMAIN j0.order
    BY <2>3, <2>4, <1>2 DEF Added
  <2>6. j0.order[q1] = w[p1].name /\ j0.order[q2] = w[p2].name
    BY <2>1, <2>2, <2>5
  <2>7. w[p1].name \in Names(base)
    BY <2>5, <2>6 DEF Filled, Sound
  <2>8. Earliest(base, j0.order[q1]) < Earliest(base, j0.order[q2])
    BY <2>3, <2>5 DEF Filled
  <2> QED  BY <2>6, <2>7, <2>8
<1> QED  BY <1>1, <1>6, <1>8, <1>9, <1>10, <1>11 DEF w

-----------------------------------------------------------------------------
(* The two cookies the plugin writes.                                         *)

(* A cookie laid over another: what InjectionCoversClient says of the cookie  *)
(* that goes out (mergeCookieHeader).                                         *)
LEMMA MergeIs ==
  ASSUME NEW base \in Seq(Crumbs), NEW overlay \in Seq(Crumbs)
  PROVE  LET w == MergeCookieHeader(base, overlay)
         IN /\ w \in Seq(Crumbs) /\ Distinct(w) /\ Follows(w, base)
            /\ Names(w) = Names(base) \cup Names(overlay)
            /\ \A n \in Names(w) : ValueOf(w, n) = IF n \in Names(overlay) THEN ValueOf(overlay, n)
                                                   ELSE ValueOf(base, n)
<1> DEFINE j0 == AssignAll(NoCrumbs, base)
           j == AssignAll(j0, overlay)
           w == MergeCookieHeader(base, overlay)
           n == Len(overlay)
<1>1. Filled(base, j0)
  BY FilledAll
<1>2. w = Written(j)
  BY DEF MergeCookieHeader
<1>3. DOMAIN overlay = 1 .. n /\ n \in Nat /\ NamesUpTo(overlay, n) = Names(overlay)
  BY DEF NamesUpTo, Names
<1> HIDE DEF j0, n, w
<1>4. j \in Jars /\ Assigned(j0, overlay, n, j)
  BY <1>1, AssignedAll DEF Filled, n
<1> HIDE DEF j
<1>5. /\ Len(j0.order) <= Len(j.order) /\ \A p \in DOMAIN j0.order : j.order[p] = j0.order[p]
      /\ \A p \in Added(j0, j) : j.order[p] \notin j0.placed
      /\ Sound(j) /\ DOMAIN j.values = Names(base) \cup Names(overlay)
  BY <1>1, <1>3, <1>4 DEF Assigned, Filled
<1>6. /\ w \in Seq(Crumbs) /\ Distinct(w) /\ Follows(w, base)
      /\ Names(w) \subseteq DOMAIN j.values
      /\ \A m \in Names(w) : ValueOf(w, m) = j.values[m]
      /\ \A p \in DOMAIN j.order : j.order[p] \in DOMAIN j.values => j.order[p] \in Names(w)
  BY <1>1, <1>2, <1>4, <1>5, WrittenFollows
<1>7. \A m \in DOMAIN j.values : \E p \in DOMAIN j.order : j.order[p] = m
  <2>1. /\ j.order \in Seq(CrumbNames) /\ j0.order \in Seq(CrumbNames)
    BY <1>1, <1>4, JarFields DEF Filled
  <2>2. DOMAIN j0.order \subseteq DOMAIN j.order /\ Added(j0, j) \subseteq DOMAIN j.order
    BY <2>1, <1>5 DEF Added
  <2> SUFFICES ASSUME NEW m \in DOMAIN j.values PROVE \E p \in DOMAIN j.order : j.order[p] = m
    OBVIOUS
  <2>3. CASE m \in Names(base)
    BY <2>2, <2>3, <1>1, <1>5 DEF Filled
  <2>4. CASE m \notin Names(base)
    <3>1. m \in NamesUpTo(overlay, n) \ j0.placed
      BY <2>4, <1>1, <1>3, <1>5 DEF Filled
    <3> QED  BY <3>1, <2>2, <1>4 DEF Assigned
  <2> QED  BY <2>3, <2>4
<1>8. Names(w) = Names(base) \cup Names(overlay)
  BY <1>5, <1>6, <1>7
<1>9. ASSUME NEW m \in Names(w)
      PROVE  ValueOf(w, m) = IF m \in Names(overlay) THEN ValueOf(overlay, m) ELSE ValueOf(base, m)
  <2>1. ValueOf(w, m) = j.values[m]
    BY <1>6
  <2>2. CASE m \in Names(overlay)
    <3>1. PICK x \in DOMAIN overlay :
             /\ Latest(overlay, m) = overlay[x] /\ overlay[x].name = m
             /\ \A k \in DOMAIN overlay : overlay[k].name = m => k <= x
      BY <2>2, LatestIs
    <3>2. \A l \in x + 1 .. n : l \in DOMAIN overlay /\ ~(l <= x)
      BY <1>3
    <3>3. \A l \in x + 1 .. n : overlay[l].name # overlay[x].name
      BY <3>1, <3>2
    <3>4. j.values[m] = overlay[x].value
      BY <3>1, <3>3, <1>3, <1>4 DEF Assigned
    <3> QED  BY <2>1, <2>2, <3>1, <3>4 DEF ValueOf
  <2>3. CASE m \notin Names(overlay)
    <3>1. m \in Names(base)
      BY <2>3, <1>8
    <3>2. j.values[m] = j0.values[m] /\ j0.values[m] = ValueOf(base, m)
      BY <2>3, <3>1, <1>1, <1>3, <1>4 DEF Assigned, Filled
    <3> QED  BY <2>1, <2>3, <3>2
  <2> QED  BY <2>2, <2>3
<1> QED  BY <1>6, <1>8, <1>9 DEF w

(* What a response's headers leave of a cookie: what SessionFollowsResponse   *)
(* says of the session (applySetCookies).                                     *)
LEMMA ApplyIs ==
  ASSUME NEW cookie \in Seq(Crumbs), NEW sets \in Seq(Assignments), sets # <<>>
  PROVE  LET w == ApplySetCookies(cookie, sets)
         IN /\ w \in Seq(Crumbs) /\ Distinct(w) /\ Follows(w, cookie)
            /\ Names(w) \subseteq Names(cookie) \cup (Names(sets) \ {""})
            /\ \A n \in Names(cookie) \ Names(sets) : n \in Names(w) /\ ValueOf(w, n) = ValueOf(cookie, n)
            /\ \A n \in Names(sets) \ {""} :
                  /\ Clears(Latest(sets, n)) => n \notin Names(w)
                  /\ /\ ~Clears(Latest(sets, n))
                     /\ n \in Names(cookie) \/ ~Clears(sets[Earliest(sets, n)])
                     => n \in Names(w) /\ ValueOf(w, n) = ValueOf(sets, n)
<1> DEFINE j0 == AssignAll(NoCrumbs, cookie)
           j == AnswerAll(j0, sets)
           w == ApplySetCookies(cookie, sets)
           n == Len(sets)
<1>1. Filled(cookie, j0)
  BY FilledAll
<1>2. w = Written(j)
  BY DEF ApplySetCookies
<1>3. DOMAIN sets = 1 .. n /\ n \in Nat /\ NamesUpTo(sets, n) = Names(sets)
  BY DEF NamesUpTo, Names
<1> HIDE DEF j0, n, w
<1>4. j \in Jars /\ Adjusted(j0, sets, n, j)
  BY <1>1, AdjustedAll DEF Filled, n
<1> HIDE DEF j
<1>5. /\ Len(j0.order) <= Len(j.order) /\ \A p \in DOMAIN j0.order : j.order[p] = j0.order[p]
      /\ \A p \in Added(j0, j) : j.order[p] \notin j0.placed
      /\ Sound(j) /\ j.placed = Names(cookie) \cup (Names(sets) \ {""})
  BY <1>1, <1>3, <1>4 DEF Adjusted, Filled
<1>6. /\ w \in Seq(Crumbs) /\ Distinct(w) /\ Follows(w, cookie)
      /\ Names(w) \subseteq DOMAIN j.values
      /\ \A m \in Names(w) : ValueOf(w, m) = j.values[m]
      /\ \A p \in DOMAIN j.order : j.order[p] \in DOMAIN j.values => j.order[p] \in Names(w)
  BY <1>1, <1>2, <1>4, <1>5, WrittenFollows
<1>7. Names(w) \subseteq Names(cookie) \cup (Names(sets) \ {""})
  BY <1>5, <1>6 DEF Sound
<1>8. \A m \in Names(cookie) : m \in CrumbNames /\ \E p \in DOMAIN j.order : j.order[p] = m
  <2>1. /\ j.order \in Seq(CrumbNames) /\ j0.order \in Seq(CrumbNames) /\ j0.placed \in SUBSET CrumbNames
    BY <1>1, <1>4, JarFields DEF Filled
  <2>2. DOMAIN j0.order \subseteq DOMAIN j.order
    <3>1. Len(j0.order) \in Nat /\ Len(j.order) \in Nat
      BY <2>1
    <3>2. DOMAIN j0.order = 1 .. Len(j0.order) /\ DOMAIN j.order = 1 .. Len(j.order)
      BY <2>1
    <3>3. Len(j0.order) <= Len(j.order)
      BY <1>5
    <3> QED  BY <3>1, <3>2, <3>3
  <2> SUFFICES ASSUME NEW m \in Names(cookie) PROVE m \in CrumbNames /\ \E p \in DOMAIN j.order : j.order[p] = m
    OBVIOUS
  <2>3. m \in CrumbNames
    BY <2>1, <1>1 DEF Filled
  <2>4. PICK p \in DOMAIN j0.order : j0.order[p] = m
    BY <1>1 DEF Filled
  <2> QED  BY <2>2, <2>3, <2>4, <1>5
<1>9. ASSUME NEW m \in Names(cookie) \ Names(sets)
      PROVE  m \in Names(w) /\ ValueOf(w, m) = ValueOf(cookie, m)
  <2>1. m \in DOMAIN j.values /\ j.values[m] = j0.values[m] /\ j0.values[m] = ValueOf(cookie, m)
    BY <1>1, <1>3, <1>4, <1>8 DEF Adjusted, Filled
  <2>2. m \in Names(w)
    BY <2>1, <1>6, <1>8
  <2> QED  BY <2>1, <2>2, <1>6
<1>10. \A x \in DOMAIN sets :
          /\ \A l \in x + 1 .. n : l \in DOMAIN sets /\ ~(l <= x)
          /\ \A l \in 1 .. x - 1 : l \in DOMAIN sets /\ ~(x <= l)
  <2> SUFFICES ASSUME NEW x \in 1 .. n
               PROVE  /\ \A l \in x + 1 .. n : l \in 1 .. n /\ ~(l <= x)
                      /\ \A l \in 1 .. x - 1 : l \in 1 .. n /\ ~(x <= l)
    BY <1>3
  <2> QED  BY <1>3
<1>11. ASSUME NEW m \in Names(sets) \ {""}
       PROVE  /\ Clears(Latest(sets, m)) => m \notin Names(w)
              /\ /\ ~Clears(Latest(sets, m))
                 /\ m \in Names(cookie) \/ ~Clears(sets[Earliest(sets, m)])
                 => m \in Names(w) /\ ValueOf(w, m) = ValueOf(sets, m)
  <2>0. m \in Names(sets) /\ m # ""
    OBVIOUS
  <2>1. PICK x \in DOMAIN sets :
           /\ Latest(sets, m) = sets[x] /\ sets[x].name = m
           /\ \A k \in DOMAIN sets : sets[k].name = m => k <= x
    BY <2>0, LatestIs
  <2>2. \A l \in x + 1 .. n : l \in DOMAIN sets /\ ~(l <= x)
    BY <1>10
  <2>3. \A l \in x + 1 .. n : sets[l].name # sets[x].name
    BY <2>1, <2>2
  <2>4. IF Clears(sets[x]) THEN m \notin DOMAIN j.values
        ELSE m \in DOMAIN j.values /\ j.values[m] = sets[x].value
    <3>1. x \in 1 .. n /\ sets[x].name # ""
      BY <2>0, <2>1, <1>3
    <3>2. IF Clears(sets[x]) THEN sets[x].name \notin DOMAIN j.values
          ELSE sets[x].name \in DOMAIN j.values /\ j.values[sets[x].name] = sets[x].value
      BY <2>3, <3>1, <1>4 DEF Adjusted
    <3> QED  BY <2>1, <3>2
  <2>5. CASE Clears(sets[x])
    BY <2>1, <2>4, <2>5, <1>6
  <2>6. CASE ~Clears(sets[x]) /\ (m \in Names(cookie) \/ ~Clears(sets[Earliest(sets, m)]))
    <3>1. \E p \in DOMAIN j.order : j.order[p] = m
      <4>1. CASE m \in Names(cookie)
        BY <4>1, <1>8
      <4>2. CASE m \notin Names(cookie)
        <5>1. PICK e \in DOMAIN sets :
                 /\ e = Earliest(sets, m) /\ sets[e].name = m
                 /\ \A k \in DOMAIN sets : sets[k].name = m => e <= k
          BY <2>0, EarliestIs
        <5>2. \A l \in 1 .. e - 1 : l \in DOMAIN sets /\ ~(e <= l)
          BY <1>10
        <5>3. \A l \in 1 .. e - 1 : sets[l].name # sets[e].name
          BY <5>1, <5>2
        <5>4. sets[e].name \notin j0.placed \cup {""}
          BY <2>0, <4>2, <5>1, <1>1 DEF Filled
        <5>5. ~Clears(sets[e]) /\ e \in 1 .. n
          BY <4>2, <2>6, <5>1, <1>3
        <5>6. \E p \in DOMAIN j.order : j.order[p] = sets[e].name
          BY <5>3, <5>4, <5>5, <1>4 DEF Adjusted
        <5> QED  BY <5>1, <5>6
      <4> QED  BY <4>1, <4>2
    <3>2. m \in Names(w)
      BY <3>1, <2>4, <2>6, <1>6
    <3> QED  BY <3>2, <2>1, <2>4, <2>6, <1>6 DEF ValueOf
  <2> QED  BY <2>1, <2>5, <2>6
<1> QED  BY <1>6, <1>7, <1>9, <1>11 DEF w

-----------------------------------------------------------------------------
(* The scanner's helpers on text (StreamText): what they return, of what type.*)

\* What arrives.
Texts == Seq(Tokens)

LEMMA NextMarkerIs ==
  ASSUME NEW s \in Texts, NEW from \in Nat
  PROVE  LET m == NextMarker(s, from)
         IN /\ m \in Nat
            /\ m # 0 => m \in from + 1 .. Len(s) /\ s[m] = Marker
                          /\ \A i \in from + 1 .. m - 1 : s[i] # Marker
            /\ m = 0 => \A i \in from + 1 .. Len(s) : s[i] # Marker
<1> DEFINE I == {i \in from + 1 .. Len(s) : s[i] = Marker}
<1>1. NextMarker(s, from) = IF I # {} THEN Min(I) ELSE 0
  BY DEF NextMarker, SelectInSubSeq
<1>2. Len(s) \in Nat
  BY DEF Texts
<1>3. I \subseteq Nat
  BY <1>2
<1>4. I # {} => Min(I) \in I /\ \A k \in I : Min(I) <= k
  <2> SUFFICES ASSUME I # {} PROVE Min(I) \in I /\ \A k \in I : Min(I) <= k
    OBVIOUS
  <2> HIDE DEF I
  <2>1. PICK m \in I : \A k \in I : m <= k
    BY <1>3, Least
  <2> QED  BY <2>1 DEF Min
<1> HIDE DEF I
<1>5. CASE I = {}
  BY <1>1, <1>5 DEF I
<1>6. CASE I # {}
  <2>1. PICK m \in I : m = NextMarker(s, from) /\ \A k \in I : m <= k
    BY <1>1, <1>4, <1>6
  <2>2. m \in from + 1 .. Len(s) /\ s[m] = Marker /\ m \in Nat /\ m # 0
    BY <2>1, <1>2 DEF I
  <2>3. ASSUME NEW i \in from + 1 .. m - 1 PROVE s[i] # Marker
    <3>1. i \in from + 1 .. Len(s) /\ ~(m <= i)
      BY <2>2, <1>2
    <3> QED  BY <3>1, <2>1 DEF I
  <2> QED  BY <2>1, <2>2, <2>3
<1> QED  BY <1>5, <1>6

LEMMA MinIs ==
  ASSUME NEW T, T \subseteq Nat, T # {}
  PROVE  Min(T) \in T /\ \A k \in T : Min(T) <= k
<1>1. PICK m \in T : \A k \in T : m <= k
  BY Least
<1> QED  BY <1>1 DEF Min

LEMMA FirstJSONValueAt ==
  ASSUME NEW s \in Texts
  PROVE  \E p \in 0 .. Len(s) :
            /\ FirstJSONValue(s) = ValueAt(s, p, Balanced(s, p))
            /\ \A i \in 1 .. p - 1 : s[i] = NL
            /\ IF p = 0 THEN \A i \in 1 .. Len(s) : s[i] = NL ELSE s[p] # NL
<1> DEFINE I == {i \in 1 .. Len(s) : s[i] # NL}
           p == IF I # {} THEN Min(I) ELSE 0
<1>1. Len(s) \in Nat
  BY DEF Texts
<1>2. FirstJSONValue(s) = ValueAt(s, p, Balanced(s, p))
  BY DEF FirstJSONValue, SelectInSeq
<1>3. I \subseteq Nat
  OBVIOUS
<1>4. I # {} => Min(I) \in I /\ \A k \in I : Min(I) <= k
  <2> HIDE DEF I
  <2> QED  BY <1>3, MinIs
<1>5. CASE I = {}
  <2>1. p = 0 /\ p \in 0 .. Len(s) /\ (\A i \in 1 .. p - 1 : FALSE) /\ \A i \in 1 .. Len(s) : s[i] = NL
    BY <1>1, <1>5
  <2> HIDE DEF p, I
  <2> QED  BY <1>2, <2>1
<1>6. CASE I # {}
  <2>1. p \in I /\ \A k \in I : p <= k
    BY <1>4, <1>6
  <2> HIDE DEF p
  <2>2. p \in 1 .. Len(s) /\ s[p] # NL
    BY <2>1
  <2>3. ASSUME NEW i \in 1 .. p - 1 PROVE s[i] = NL
    <3>1. i \in 1 .. Len(s) /\ ~(p <= i)
      BY <2>2, <1>1
    <3> QED  BY <3>1, <2>1
  <2> QED  BY <1>1, <1>2, <2>2, <2>3
<1> QED  BY <1>5, <1>6

LEMMA FirstJSONValueType ==
  ASSUME NEW s \in Texts
  PROVE  FirstJSONValue(s).payload \in Texts /\ FirstJSONValue(s).end \in 0 .. Len(s)
<1>1. PICK p \in 0 .. Len(s) : FirstJSONValue(s) = ValueAt(s, p, Balanced(s, p))
  BY FirstJSONValueAt
<1> DEFINE ends == Balanced(s, p)
<1>2. Len(s) \in Nat /\ DOMAIN s = 1 .. Len(s)
  BY DEF Texts
<1>3. ends \subseteq p .. Len(s) /\ ends \subseteq Nat
  BY <1>2 DEF Balanced
<1> HIDE DEF ends
<1>4. NoValue.payload \in Texts /\ NoValue.end \in 0 .. Len(s) /\ <<DoneMark>> \in Texts
  BY <1>2 DEF NoValue, Texts, Tokens
<1>5. CASE p # 0 /\ ends # {}
  <2>1. Min(ends) \in p .. Len(s) /\ Min(ends) \in 0 .. Len(s)
    <3>1. Min(ends) \in ends
      BY <1>3, <1>5, MinIs
    <3>2. Min(ends) \in p .. Len(s)
      BY <3>1, <1>3
    <3>3. \A y \in p .. Len(s) : y \in 0 .. Len(s)
      BY <1>2
    <3> QED  BY <3>2, <3>3
  <2>2. SubSeq(s, p, Min(ends)) \in Texts
    <3> SUFFICES ASSUME NEW y \in p .. Len(s) PROVE SubSeq(s, p, y) \in Texts
      BY <2>1
    <3> QED  BY <1>2, <1>5 DEF Texts
  <2> QED  BY <1>1, <1>4, <2>1, <2>2 DEF ValueAt, ends
<1>6. CASE p = 0 \/ ends = {}
  BY <1>1, <1>4, <1>6 DEF ValueAt, ends
<1> QED  BY <1>5, <1>6

LEMMA UnspacedLoop ==
  ASSUME NEW s \in Texts
  PROVE  \E f \in [0 .. Len(s) -> Texts] :
            /\ f[0] = <<>> /\ Unspaced(s) = f[Len(s)]
            /\ \A i \in 1 .. Len(s) : f[i] = IF s[i] = NL THEN f[i - 1] ELSE Append(f[i - 1], s[i])
<1> DEFINE n == Len(s)
           Turn(x, i) == IF s[i] = NL THEN x ELSE Append(x, s[i])
           step == [i \in 1 .. n |-> [x \in Texts |-> Turn(x, i)]]
           After(f) == f = [i \in 0 .. n |-> IF i = 0 THEN <<>> ELSE IF s[i] = NL THEN f[i - 1] ELSE Append(f[i - 1], s[i])]
           after == CHOOSE f : After(f)
<1>1. n \in Nat /\ <<>> \in Texts
  BY DEF Texts
<1>2. ASSUME NEW i \in 1 .. n, NEW x \in Texts PROVE Turn(x, i) \in Texts
  BY DEF Texts
<1>3. \E f : After(f)
  <2>1. step \in [1 .. n -> [Texts -> Texts]] /\ \A i \in 1 .. n, x \in Texts : step[i][x] = Turn(x, i)
    <3> HIDE DEF Turn
    <3> QED  BY <1>2
  <2>2. PICK f \in [0 .. n -> Texts] : Iterates(f, n, <<>>, step)
    <3> HIDE DEF step, n
    <3> QED  BY <2>1, <1>1, LoopExists
  <2>3. f[0] = <<>> /\ \A i \in 1 .. n : f[i] = Turn(f[i - 1], i)
    <3>1. \A i \in 1 .. n : f[i - 1] \in Texts
      BY <1>1
    <3> HIDE DEF step, Turn
    <3> QED  BY <3>1, <2>1, <2>2 DEF Iterates
  <2>4. \A i \in 0 .. n : f[i] = IF i = 0 THEN <<>> ELSE Turn(f[i - 1], i)
    <3> HIDE DEF Turn
    <3> QED  BY <2>3, <1>1
  <2>5. f = [i \in 0 .. n |-> f[i]]
    OBVIOUS
  <2>6. After(f)
    <3> HIDE DEF n
    <3> QED  BY <2>4, <2>5
  <2> QED  BY <2>6
<1>4. After(after)
  <2> HIDE DEF After
  <2> QED  BY <1>3
<1>5. Unspaced(s) = after[n]
  BY DEF Unspaced
<1> HIDE DEF after
<1>6. after = [i \in 0 .. n |-> after[i]] /\ after[0] = <<>>
        /\ \A i \in 1 .. n : after[i] = Turn(after[i - 1], i)
  <2>1. 0 \in 0 .. n /\ \A i \in 1 .. n : i \in 0 .. n /\ i # 0
    BY <1>1
  <2> HIDE DEF n
  <2> QED  BY <1>4, <2>1
<1>7. \A i \in 0 .. n : after[i] \in Texts
  <2>1. \A i \in 1 .. n : after[i - 1] \in Texts => after[i] \in Texts
    <3> HIDE DEF Turn
    <3> QED  BY <1>2, <1>6
  <2> HIDE DEF n
  <2> QED  BY <1>1, <1>6, <2>1, LoopTyped
<1>8. after \in [0 .. n -> Texts]
  <2> HIDE DEF n
  <2> QED  BY <1>6, <1>7
<1> QED  BY <1>5, <1>6, <1>8

-----------------------------------------------------------------------------
(* Lines, data lines and salvaged payloads.                                   *)

LEMMA UnspacedType ==
  ASSUME NEW s \in Texts
  PROVE  Unspaced(s) \in Texts
<1>1. Len(s) \in 0 .. Len(s)
  BY DEF Texts
<1> QED  BY <1>1, UnspacedLoop

\* What a split into lines yields; what salvaging yields.
ListsOfLines == {x \in Seq(Texts) : x # <<>>}

LEMMA SplitNextType ==
  ASSUME NEW x \in ListsOfLines, NEW t \in Tokens
  PROVE  SplitNext(x, t) \in ListsOfLines
<1>1. x \in Seq(Texts) /\ Len(x) \in Nat \ {0}
  BY DEF ListsOfLines
<1>2. CASE t = NL
  <2>1. <<>> \in Texts
    BY DEF Texts
  <2> QED  BY <1>1, <1>2, <2>1 DEF SplitNext, ListsOfLines
<1>3. CASE t # NL
  <2>1. x[Len(x)] \in Texts
    BY <1>1
  <2>2. Append(x[Len(x)], t) \in Texts
    BY <2>1 DEF Texts
  <2>3. SubSeq(x, 1, Len(x) - 1) \in Seq(Texts)
    BY <1>1
  <2>4. SplitNext(x, t) = SubSeq(x, 1, Len(x) - 1) \o <<Append(x[Len(x)], t)>>
    BY <1>3 DEF SplitNext, Front, Last
  <2> QED  BY <2>2, <2>3, <2>4 DEF ListsOfLines
<1> QED  BY <1>2, <1>3

LEMMA LinesLoop ==
  ASSUME NEW s \in Texts
  PROVE  \E f \in [0 .. Len(s) -> ListsOfLines] :
            /\ f[0] = << <<>> >> /\ Lines(s) = f[Len(s)]
            /\ \A i \in 1 .. Len(s) : f[i] = SplitNext(f[i - 1], s[i])
<1> DEFINE n == Len(s)
           Turn(x, i) == SplitNext(x, s[i])
           step == [i \in 1 .. n |-> [x \in ListsOfLines |-> Turn(x, i)]]
           After(f) == f = [i \in 0 .. n |-> IF i = 0 THEN << <<>> >> ELSE SplitNext(f[i - 1], s[i])]
           after == CHOOSE f : After(f)
<1>1. n \in Nat /\ << <<>> >> \in ListsOfLines
  BY DEF Texts, ListsOfLines
<1>2. ASSUME NEW i \in 1 .. n, NEW x \in ListsOfLines PROVE Turn(x, i) \in ListsOfLines
  BY <1>1, SplitNextType DEF Texts
<1>3. \E f : After(f)
  <2>1. step \in [1 .. n -> [ListsOfLines -> ListsOfLines]] /\ \A i \in 1 .. n, x \in ListsOfLines : step[i][x] = Turn(x, i)
    <3> HIDE DEF Turn
    <3> QED  BY <1>2
  <2>2. PICK f \in [0 .. n -> ListsOfLines] : Iterates(f, n, << <<>> >>, step)
    <3> HIDE DEF step, n
    <3> QED  BY <2>1, <1>1, LoopExists
  <2>3. f[0] = << <<>> >> /\ \A i \in 1 .. n : f[i] = Turn(f[i - 1], i)
    <3>1. \A i \in 1 .. n : f[i - 1] \in ListsOfLines
      BY <1>1
    <3> HIDE DEF step, Turn
    <3> QED  BY <3>1, <2>1, <2>2 DEF Iterates
  <2>4. \A i \in 0 .. n : f[i] = IF i = 0 THEN << <<>> >> ELSE Turn(f[i - 1], i)
    <3> HIDE DEF Turn
    <3> QED  BY <2>3, <1>1
  <2>5. f = [i \in 0 .. n |-> f[i]]
    OBVIOUS
  <2>6. After(f)
    <3> HIDE DEF n
    <3> QED  BY <2>4, <2>5
  <2> QED  BY <2>6
<1>4. After(after)
  <2> HIDE DEF After
  <2> QED  BY <1>3
<1>5. Lines(s) = after[n]
  BY DEF Lines
<1> HIDE DEF after
<1>6. after = [i \in 0 .. n |-> after[i]] /\ after[0] = << <<>> >>
        /\ \A i \in 1 .. n : after[i] = Turn(after[i - 1], i)
  <2>1. 0 \in 0 .. n /\ \A i \in 1 .. n : i \in 0 .. n /\ i # 0
    BY <1>1
  <2> HIDE DEF n
  <2> QED  BY <1>4, <2>1
<1>7. \A i \in 0 .. n : after[i] \in ListsOfLines
  <2>1. \A i \in 1 .. n : after[i - 1] \in ListsOfLines => after[i] \in ListsOfLines
    <3> HIDE DEF Turn
    <3> QED  BY <1>2, <1>6
  <2> HIDE DEF n
  <2> QED  BY <1>1, <1>6, <2>1, LoopTyped
<1>8. after \in [0 .. n -> ListsOfLines]
  <2> HIDE DEF n
  <2> QED  BY <1>6, <1>7
<1> QED  BY <1>5, <1>6, <1>8

LEMMA LinesType ==
  ASSUME NEW s \in Texts
  PROVE  Lines(s) \in Seq(Texts)
<1>1. Len(s) \in 0 .. Len(s)
  BY DEF Texts
<1>2. Lines(s) \in ListsOfLines
  BY <1>1, LinesLoop
<1> QED  BY <1>2 DEF ListsOfLines

LEMMA DataInLoop ==
  ASSUME NEW lines \in Seq(Texts)
  PROVE  \E f \in [0 .. Len(lines) -> Seq(Texts)] :
            /\ f[0] = <<>> /\ DataIn(lines) = f[Len(lines)]
            /\ \A i \in 1 .. Len(lines) : f[i] = IF lines[i] # <<>> /\ lines[i][1] = Marker THEN Append(f[i - 1], Tail(lines[i])) ELSE f[i - 1]
<1> DEFINE n == Len(lines)
           Turn(x, i) == IF lines[i] # <<>> /\ lines[i][1] = Marker THEN Append(x, Tail(lines[i])) ELSE x
           step == [i \in 1 .. n |-> [x \in Seq(Texts) |-> Turn(x, i)]]
           After(f) == f = [i \in 0 .. n |-> IF i = 0 THEN <<>> ELSE IF lines[i] # <<>> /\ lines[i][1] = Marker THEN Append(f[i - 1], Tail(lines[i]))
                               ELSE f[i - 1]]
           after == CHOOSE f : After(f)
<1>1. n \in Nat /\ <<>> \in Seq(Texts)
  OBVIOUS
<1>2. ASSUME NEW i \in 1 .. n, NEW x \in Seq(Texts) PROVE Turn(x, i) \in Seq(Texts)
  <2>1. lines[i] \in Texts
    OBVIOUS
  <2>2. lines[i] # <<>> => Tail(lines[i]) \in Texts
    BY <2>1 DEF Texts
  <2> QED  BY <2>1, <2>2
<1>3. \E f : After(f)
  <2>1. step \in [1 .. n -> [Seq(Texts) -> Seq(Texts)]] /\ \A i \in 1 .. n, x \in Seq(Texts) : step[i][x] = Turn(x, i)
    <3> HIDE DEF Turn
    <3> QED  BY <1>2
  <2>2. PICK f \in [0 .. n -> Seq(Texts)] : Iterates(f, n, <<>>, step)
    <3> HIDE DEF step, n
    <3> QED  BY <2>1, <1>1, LoopExists
  <2>3. f[0] = <<>> /\ \A i \in 1 .. n : f[i] = Turn(f[i - 1], i)
    <3>1. \A i \in 1 .. n : f[i - 1] \in Seq(Texts)
      BY <1>1
    <3> HIDE DEF step, Turn
    <3> QED  BY <3>1, <2>1, <2>2 DEF Iterates
  <2>4. \A i \in 0 .. n : f[i] = IF i = 0 THEN <<>> ELSE Turn(f[i - 1], i)
    <3> HIDE DEF Turn
    <3> QED  BY <2>3, <1>1
  <2>5. f = [i \in 0 .. n |-> f[i]]
    OBVIOUS
  <2>6. After(f)
    <3> HIDE DEF n
    <3> QED  BY <2>4, <2>5
  <2> QED  BY <2>6
<1>4. After(after)
  <2> HIDE DEF After
  <2> QED  BY <1>3
<1>5. DataIn(lines) = after[n]
  BY DEF DataIn
<1> HIDE DEF after
<1>6. after = [i \in 0 .. n |-> after[i]] /\ after[0] = <<>>
        /\ \A i \in 1 .. n : after[i] = Turn(after[i - 1], i)
  <2>1. 0 \in 0 .. n /\ \A i \in 1 .. n : i \in 0 .. n /\ i # 0
    BY <1>1
  <2> HIDE DEF n
  <2> QED  BY <1>4, <2>1
<1>7. \A i \in 0 .. n : after[i] \in Seq(Texts)
  <2>1. \A i \in 1 .. n : after[i - 1] \in Seq(Texts) => after[i] \in Seq(Texts)
    <3> HIDE DEF Turn
    <3> QED  BY <1>2, <1>6
  <2> HIDE DEF n
  <2> QED  BY <1>1, <1>6, <2>1, LoopTyped
<1>8. after \in [0 .. n -> Seq(Texts)]
  <2> HIDE DEF n
  <2> QED  BY <1>6, <1>7
<1> QED  BY <1>5, <1>6, <1>8

LEMMA DataInType ==
  ASSUME NEW lines \in Seq(Texts)
  PROVE  DataIn(lines) \in Seq(Texts)
<1>1. Len(lines) \in 0 .. Len(lines)
  OBVIOUS
<1> QED  BY <1>1, DataInLoop

Salvages == [found : Seq([payload : Texts, end : Nat]), offset : Nat]

LEMMA SalvageNextType ==
  ASSUME NEW s \in Texts, NEW f \in Salvages
  PROVE  SalvageNext(s, f) \in Salvages
<1> DEFINE start == NextMarker(s, f.offset)
           value == FirstJSONValue(SubSeq(s, start + 1, Len(s)))
<1>1. f.offset \in Nat /\ f.found \in Seq([payload : Texts, end : Nat])
  BY DEF Salvages
<1>2. start \in Nat
  BY <1>1, NextMarkerIs
<1>3. SalvageNext(s, f) = SalvageAt(f, start, value)
  BY DEF SalvageNext
<1> HIDE DEF start
<1>4. SubSeq(s, start + 1, Len(s)) \in Texts
  BY <1>2 DEF Texts
<1>5. value.payload \in Texts /\ value.end \in Nat
  <2>1. \A x \in Texts : FirstJSONValue(x).payload \in Texts /\ FirstJSONValue(x).end \in Nat
    <3> SUFFICES ASSUME NEW x \in Texts PROVE FirstJSONValue(x).payload \in Texts /\ FirstJSONValue(x).end \in Nat
      OBVIOUS
    <3>1. Len(x) \in Nat /\ FirstJSONValue(x).end \in 0 .. Len(x)
      BY FirstJSONValueType DEF Texts
    <3> QED  BY <3>1, FirstJSONValueType
  <2> QED  BY <2>1, <1>4
<1> HIDE DEF value
<1>6. [payload |-> value.payload, end |-> start + value.end] \in [payload : Texts, end : Nat]
  BY <1>2, <1>5
<1>7. Append(f.found, [payload |-> value.payload, end |-> start + value.end])
        \in Seq([payload : Texts, end : Nat])
  BY <1>1, <1>6
<1>8. start + value.end \in Nat
  BY <1>2, <1>5
<1> QED  BY <1>1, <1>2, <1>3, <1>7, <1>8 DEF SalvageAt, Salvages

LEMMA SalvagedLoop ==
  ASSUME NEW s \in Texts
  PROVE  \E f \in [0 .. Len(s) -> Salvages] :
            /\ f[0] = NothingFound /\ Salvaged(s) = f[Len(s)].found
            /\ \A i \in 1 .. Len(s) : f[i] = SalvageNext(s, f[i - 1])
<1> DEFINE n == Len(s)
           Turn(x, i) == SalvageNext(s, x)
           step == [i \in 1 .. n |-> [x \in Salvages |-> Turn(x, i)]]
           After(f) == f = [i \in 0 .. n |-> IF i = 0 THEN NothingFound ELSE SalvageNext(s, f[i - 1])]
           after == CHOOSE f : After(f)
<1>1. n \in Nat /\ NothingFound \in Salvages
  BY DEF Texts, Salvages, NothingFound
<1>2. ASSUME NEW i \in 1 .. n, NEW x \in Salvages PROVE Turn(x, i) \in Salvages
  BY SalvageNextType
<1>3. \E f : After(f)
  <2>1. step \in [1 .. n -> [Salvages -> Salvages]] /\ \A i \in 1 .. n, x \in Salvages : step[i][x] = Turn(x, i)
    <3> HIDE DEF Turn
    <3> QED  BY <1>2
  <2>2. PICK f \in [0 .. n -> Salvages] : Iterates(f, n, NothingFound, step)
    <3> HIDE DEF step, n
    <3> QED  BY <2>1, <1>1, LoopExists
  <2>3. f[0] = NothingFound /\ \A i \in 1 .. n : f[i] = Turn(f[i - 1], i)
    <3>1. \A i \in 1 .. n : f[i - 1] \in Salvages
      BY <1>1
    <3> HIDE DEF step, Turn
    <3> QED  BY <3>1, <2>1, <2>2 DEF Iterates
  <2>4. \A i \in 0 .. n : f[i] = IF i = 0 THEN NothingFound ELSE Turn(f[i - 1], i)
    <3> HIDE DEF Turn
    <3> QED  BY <2>3, <1>1
  <2>5. f = [i \in 0 .. n |-> f[i]]
    OBVIOUS
  <2>6. After(f)
    <3> HIDE DEF n
    <3> QED  BY <2>4, <2>5
  <2> QED  BY <2>6
<1>4. After(after)
  <2> HIDE DEF After
  <2> QED  BY <1>3
<1>5. Salvaged(s) = after[n].found
  BY DEF Salvaged
<1> HIDE DEF after
<1>6. after = [i \in 0 .. n |-> after[i]] /\ after[0] = NothingFound
        /\ \A i \in 1 .. n : after[i] = Turn(after[i - 1], i)
  <2>1. 0 \in 0 .. n /\ \A i \in 1 .. n : i \in 0 .. n /\ i # 0
    BY <1>1
  <2> HIDE DEF n
  <2> QED  BY <1>4, <2>1
<1>7. \A i \in 0 .. n : after[i] \in Salvages
  <2>1. \A i \in 1 .. n : after[i - 1] \in Salvages => after[i] \in Salvages
    <3> HIDE DEF Turn
    <3> QED  BY <1>2, <1>6
  <2> HIDE DEF n
  <2> QED  BY <1>1, <1>6, <2>1, LoopTyped
<1>8. after \in [0 .. n -> Salvages]
  <2> HIDE DEF n
  <2> QED  BY <1>6, <1>7
<1> QED  BY <1>5, <1>6, <1>8

LEMMA SalvagedType ==
  ASSUME NEW s \in Texts
  PROVE  Salvaged(s) \in Seq([payload : Texts, end : Nat])
<1>1. Len(s) \in 0 .. Len(s)
  BY DEF Texts
<1>2. PICK f \in [0 .. Len(s) -> Salvages] : Salvaged(s) = f[Len(s)].found
  BY SalvagedLoop
<1>3. f[Len(s)] \in Salvages
  BY <1>1
<1> QED  BY <1>2, <1>3 DEF Salvages

-----------------------------------------------------------------------------
(* The observer (ModelObserver): one payload, one frame, all frames.          *)

LEMMA FlattenLoop ==
  ASSUME NEW T, NEW seqs \in Seq(Seq(T))
  PROVE  \E F \in [0 .. Len(seqs) -> Seq(T)] :
            /\ F[0] = <<>> /\ FlattenSeq(seqs) = F[Len(seqs)]
            /\ \A i \in 1 .. Len(seqs) : F[i] = F[i - 1] \o seqs[i]
<1> DEFINE n == Len(seqs)
           S == Seq(T)
           Turn(x, i) == x \o seqs[i]
           step == [i \in 1 .. n |-> [x \in S |-> Turn(x, i)]]
           After(f) == f = [i \in 1 .. n |-> IF i = 1 THEN seqs[i] ELSE f[i - 1] \o seqs[i]]
           after == CHOOSE f : After(f)
<1>1. n \in Nat /\ <<>> \in S /\ \A i \in 1 .. n : seqs[i] \in S
  OBVIOUS
<1>2. \A x \in S, y \in S : x \o y \in S
  OBVIOUS
<1>3. \A x \in S : <<>> \o x = x
  OBVIOUS
<1>4. step \in [1 .. n -> [S -> S]] /\ \A i \in 1 .. n, x \in S : step[i][x] = Turn(x, i)
  <2>1. \A i \in 1 .. n, x \in S : Turn(x, i) \in S
    BY <1>1, <1>2
  <2> HIDE DEF S, n, Turn
  <2> QED  BY <2>1
<1>5. PICK F \in [0 .. n -> S] : Iterates(F, n, <<>>, step)
  <2> HIDE DEF step, n, S
  <2> QED  BY <1>1, <1>4, LoopExists
<1>6. F[0] = <<>> /\ \A i \in 1 .. n : F[i] = Turn(F[i - 1], i)
  <2>1. \A i \in 1 .. n : F[i - 1] \in S
    <3>1. n \in Nat
      BY <1>1
    <3> HIDE DEF S, n
    <3> QED  BY <3>1
  <2> HIDE DEF step, S, Turn
  <2> QED  BY <2>1, <1>4, <1>5 DEF Iterates
<1>7. CASE n = 0
  <2>1. seqs = <<>>
    BY <1>7
  <2> QED  BY <2>1, <1>6, <1>7 DEF FlattenSeq
<1>8. CASE n # 0
  <2> DEFINE g == [i \in 1 .. n |-> F[i]]
  <2>1. F[1] = seqs[1] /\ 1 \in 1 .. n
    <3>1. 1 \in 1 .. n /\ 1 - 1 = 0
      BY <1>1, <1>8
    <3>2. F[1] = F[0] \o seqs[1] /\ seqs[1] \in S
      BY <3>1, <1>1, <1>6
    <3> HIDE DEF n, S
    <3> QED  BY <3>1, <3>2, <1>3, <1>6
  <2>2. \A i \in 1 .. n : i # 1 => i - 1 \in 1 .. n
    BY <1>1
  <2>3. \A i \in 1 .. n : g[i] = IF i = 1 THEN seqs[i] ELSE g[i - 1] \o seqs[i]
    <3> HIDE DEF n, S
    <3> QED  BY <2>1, <2>2, <1>6
  <2>4. After(g)
    <3>1. g = [i \in 1 .. n |-> g[i]]
      OBVIOUS
    <3> HIDE DEF g, n
    <3> QED  BY <3>1, <2>3
  <2>5. After(after)
    <3> HIDE DEF After, g
    <3> QED  BY <2>4
  <2>6. FlattenSeq(seqs) = after[n]
    BY <1>8 DEF FlattenSeq
  <2> HIDE DEF after
  <2>7. after[1] = seqs[1] /\ \A i \in 1 .. n : i # 1 => after[i] = after[i - 1] \o seqs[i]
    <3> HIDE DEF n
    <3> QED  BY <2>1, <2>5
  <2> DEFINE I == {i \in 0 .. n : i # 0 => after[i] = F[i]}
  <2>8. 0 \in I
    BY <1>1
  <2>9. ASSUME NEW i \in 0 .. n - 1, i \in I PROVE i + 1 \in I
    <3>1. i + 1 \in 1 .. n /\ i + 1 \in 0 .. n /\ (i + 1) - 1 = i
      BY <1>1
    <3>2. CASE i = 0
      BY <3>1, <3>2, <2>1, <2>7
    <3>3. CASE i # 0
      <4>1. after[i + 1] = after[i] \o seqs[i + 1] /\ F[i + 1] = F[i] \o seqs[i + 1] /\ after[i] = F[i]
        <5>1. i + 1 # 1
          BY <3>3
        <5> HIDE DEF n
        <5> QED  BY <5>1, <3>1, <3>3, <2>7, <2>9, <1>6
      <4> QED  BY <3>1, <4>1
    <3> QED  BY <3>2, <3>3
  <2>10. n \in I
    <3>1. 0 .. n \subseteq I
      <4> HIDE DEF I, n
      <4> QED  BY <2>8, <2>9, <1>1, UpTo
    <3> QED  BY <3>1, <1>1
  <2> QED  BY <2>6, <2>10, <1>6, <1>8
<1> QED  BY <1>7, <1>8

LEMMA FlattenType ==
  ASSUME NEW T, NEW seqs \in Seq(Seq(T))
  PROVE  FlattenSeq(seqs) \in Seq(T)
<1>1. Len(seqs) \in 0 .. Len(seqs)
  OBVIOUS
<1>2. PICK F \in [0 .. Len(seqs) -> Seq(T)] : FlattenSeq(seqs) = F[Len(seqs)]
  BY FlattenLoop
<1> QED  BY <1>1, <1>2

\* What a payload declares.
Declarations == [model : Models, type : STRING]

LEMMA DeclaresType ==
  ASSUME NEW e \in Events
  PROVE  Declares(e) \in Seq(Declarations)
<1> DEFINE d == Declares(e)
           R == [model : STRING, type : STRING]
<1>1. d \in Seq(R)
  BY EventsAssumption
<1>2. \A i \in DOMAIN d : d[i].model \in Models
  BY DEF Models
<1>3. \A x \in R : x.model \in Models => x \in Declarations
  BY DEF Declarations
<1> HIDE DEF d, R
<1>4. \A i \in 1 .. Len(d) : d[i] \in R
  BY <1>1
<1>5. \A i \in 1 .. Len(d) : d[i] \in Declarations
  BY <1>1, <1>2, <1>3, <1>4
<1>6. d \in Seq(Declarations)
  BY <1>1, <1>5
<1> QED  BY <1>6 DEF d

\* The observers with a given residual, which reading a payload leaves alone.
Holding(r) == {o \in Observers : o.residual = r}

LEMMA ObserveType ==
  ASSUME NEW r, NEW o \in Holding(r), NEW model \in Models, NEW terminal
  PROVE  Observe(o, model, terminal) \in Holding(r)
  BY DEF Observe, Holding, Observers, NoModel

LEMMA ObserveDeclaredLoop ==
  ASSUME NEW r, NEW o \in Holding(r), NEW declared \in Seq(Declarations), NEW type
  PROVE  \E f \in [0 .. Len(declared) -> Holding(r)] :
            /\ f[0] = o /\ ObserveDeclared(o, declared, type) = f[Len(declared)]
            /\ \A i \in 1 .. Len(declared) : f[i] = Observe(f[i - 1], declared[i].model, TerminalType(TypeOf(declared[i], type)))
<1> DEFINE n == Len(declared)
           Turn(x, i) == Observe(x, declared[i].model, TerminalType(TypeOf(declared[i], type)))
           step == [i \in 1 .. n |-> [x \in Holding(r) |-> Turn(x, i)]]
           After(f) == f = [i \in 0 .. n |-> IF i = 0 THEN o ELSE Observe(f[i - 1], declared[i].model, TerminalType(TypeOf(declared[i], type)))]
           after == CHOOSE f : After(f)
<1>1. n \in Nat /\ o \in Holding(r)
  OBVIOUS
<1>2. ASSUME NEW i \in 1 .. n, NEW x \in Holding(r) PROVE Turn(x, i) \in Holding(r)
  <2>1. declared[i] \in Declarations
    OBVIOUS
  <2>2. declared[i].model \in Models
    BY <2>1 DEF Declarations
  <2> HIDE DEF n
  <2> QED  BY <2>2, ObserveType
<1>3. \E f : After(f)
  <2>1. step \in [1 .. n -> [Holding(r) -> Holding(r)]] /\ \A i \in 1 .. n, x \in Holding(r) : step[i][x] = Turn(x, i)
    <3> HIDE DEF Turn
    <3> QED  BY <1>2
  <2>2. PICK f \in [0 .. n -> Holding(r)] : Iterates(f, n, o, step)
    <3> HIDE DEF step, n
    <3> QED  BY <2>1, <1>1, LoopExists
  <2>3. f[0] = o /\ \A i \in 1 .. n : f[i] = Turn(f[i - 1], i)
    <3>1. \A i \in 1 .. n : f[i - 1] \in Holding(r)
      BY <1>1
    <3> HIDE DEF step, Turn
    <3> QED  BY <3>1, <2>1, <2>2 DEF Iterates
  <2>4. \A i \in 0 .. n : f[i] = IF i = 0 THEN o ELSE Turn(f[i - 1], i)
    <3> HIDE DEF Turn
    <3> QED  BY <2>3, <1>1
  <2>5. f = [i \in 0 .. n |-> f[i]]
    OBVIOUS
  <2>6. After(f)
    <3> HIDE DEF n
    <3> QED  BY <2>4, <2>5
  <2> QED  BY <2>6
<1>4. After(after)
  <2> HIDE DEF After
  <2> QED  BY <1>3
<1>5. ObserveDeclared(o, declared, type) = after[n]
  BY DEF ObserveDeclared
<1> HIDE DEF after
<1>6. after = [i \in 0 .. n |-> after[i]] /\ after[0] = o
        /\ \A i \in 1 .. n : after[i] = Turn(after[i - 1], i)
  <2>1. 0 \in 0 .. n /\ \A i \in 1 .. n : i \in 0 .. n /\ i # 0
    BY <1>1
  <2> HIDE DEF n
  <2> QED  BY <1>4, <2>1
<1>7. \A i \in 0 .. n : after[i] \in Holding(r)
  <2>1. \A i \in 1 .. n : after[i - 1] \in Holding(r) => after[i] \in Holding(r)
    <3> HIDE DEF Turn
    <3> QED  BY <1>2, <1>6
  <2>2. after[0] \in Holding(r)
    BY <1>1, <1>6
  <2> HIDE DEF n
  <2> QED  BY <1>1, <2>1, <2>2, LoopTyped
<1>8. after \in [0 .. n -> Holding(r)]
  <2> HIDE DEF n
  <2> QED  BY <1>6, <1>7
<1> QED  BY <1>5, <1>6, <1>8

LEMMA ObservePayloadType ==
  ASSUME NEW r, NEW o \in Holding(r), NEW payload \in Texts, ValidPayload(payload), NEW type
  PROVE  ObservePayload(o, payload, type) \in Holding(r)
<1>1. Unspaced(payload) \in Texts /\ Unspaced(payload) # <<>> /\ Unspaced(payload)[1].k = "open"
  BY UnspacedType DEF ValidPayload, Blank
<1>2. Unspaced(payload)[1] \in Tokens
  BY <1>1 DEF Texts
<1>3. Unspaced(payload)[1].e \in Events
  <2>1. NL.k = "nl" /\ Marker.k = "data" /\ DoneMark.k = "done"
    BY DEF NL, Marker, DoneMark, Token
  <2>2. Unspaced(payload)[1] \in [k : {"event", "open", "piece", "close"}, e : Events]
    BY <1>1, <1>2, <2>1 DEF Tokens
  <2> QED  BY <2>2
<1>4. Declares(Unspaced(payload)[1].e) \in Seq(Declarations)
  BY <1>3, DeclaresType
<1> DEFINE d == Declares(Unspaced(payload)[1].e)
<1>5. ObservePayload(o, payload, type) = ObserveDeclared(o, d, type)
  BY DEF ObservePayload
<1> HIDE DEF d
<1>6. d \in Seq(Declarations) /\ Len(d) \in 0 .. Len(d)
  BY <1>4 DEF d
<1> QED  BY <1>5, <1>6, ObserveDeclaredLoop

LEMMA ObserveAllLoop ==
  ASSUME NEW r, NEW o \in Holding(r), NEW payloads \in Seq(Texts), NEW type
  PROVE  \E f \in [0 .. Len(payloads) -> Holding(r)] :
            /\ f[0] = o /\ ObserveAll(o, payloads, type) = f[Len(payloads)]
            /\ \A i \in 1 .. Len(payloads) : f[i] = ObserveIfValid(f[i - 1], payloads[i], type)
<1> DEFINE n == Len(payloads)
           Turn(x, i) == ObserveIfValid(x, payloads[i], type)
           step == [i \in 1 .. n |-> [x \in Holding(r) |-> Turn(x, i)]]
           After(f) == f = [i \in 0 .. n |-> IF i = 0 THEN o ELSE ObserveIfValid(f[i - 1], payloads[i], type)]
           after == CHOOSE f : After(f)
<1>1. n \in Nat /\ o \in Holding(r)
  OBVIOUS
<1>2. ASSUME NEW i \in 1 .. n, NEW x \in Holding(r) PROVE Turn(x, i) \in Holding(r)
  <2>1. payloads[i] \in Texts
    OBVIOUS
  <2> HIDE DEF n
  <2> QED  BY <2>1, ObservePayloadType DEF ObserveIfValid
<1>3. \E f : After(f)
  <2>1. step \in [1 .. n -> [Holding(r) -> Holding(r)]] /\ \A i \in 1 .. n, x \in Holding(r) : step[i][x] = Turn(x, i)
    <3> HIDE DEF Turn
    <3> QED  BY <1>2
  <2>2. PICK f \in [0 .. n -> Holding(r)] : Iterates(f, n, o, step)
    <3> HIDE DEF step, n
    <3> QED  BY <2>1, <1>1, LoopExists
  <2>3. f[0] = o /\ \A i \in 1 .. n : f[i] = Turn(f[i - 1], i)
    <3>1. \A i \in 1 .. n : f[i - 1] \in Holding(r)
      BY <1>1
    <3> HIDE DEF step, Turn
    <3> QED  BY <3>1, <2>1, <2>2 DEF Iterates
  <2>4. \A i \in 0 .. n : f[i] = IF i = 0 THEN o ELSE Turn(f[i - 1], i)
    <3> HIDE DEF Turn
    <3> QED  BY <2>3, <1>1
  <2>5. f = [i \in 0 .. n |-> f[i]]
    OBVIOUS
  <2>6. After(f)
    <3> HIDE DEF n
    <3> QED  BY <2>4, <2>5
  <2> QED  BY <2>6
<1>4. After(after)
  <2> HIDE DEF After
  <2> QED  BY <1>3
<1>5. ObserveAll(o, payloads, type) = after[n]
  BY DEF ObserveAll
<1> HIDE DEF after
<1>6. after = [i \in 0 .. n |-> after[i]] /\ after[0] = o
        /\ \A i \in 1 .. n : after[i] = Turn(after[i - 1], i)
  <2>1. 0 \in 0 .. n /\ \A i \in 1 .. n : i \in 0 .. n /\ i # 0
    BY <1>1
  <2> HIDE DEF n
  <2> QED  BY <1>4, <2>1
<1>7. \A i \in 0 .. n : after[i] \in Holding(r)
  <2>1. \A i \in 1 .. n : after[i - 1] \in Holding(r) => after[i] \in Holding(r)
    <3> HIDE DEF Turn
    <3> QED  BY <1>2, <1>6
  <2>2. after[0] \in Holding(r)
    BY <1>1, <1>6
  <2> HIDE DEF n
  <2> QED  BY <1>1, <2>1, <2>2, LoopTyped
<1>8. after \in [0 .. n -> Holding(r)]
  <2> HIDE DEF n
  <2> QED  BY <1>6, <1>7
<1> QED  BY <1>5, <1>6, <1>8

LEMMA ObserveAllType ==
  ASSUME NEW r, NEW o \in Holding(r), NEW payloads \in Seq(Texts), NEW type
  PROVE  ObserveAll(o, payloads, type) \in Holding(r)
<1>1. Len(payloads) \in 0 .. Len(payloads)
  OBVIOUS
<1> QED  BY <1>1, ObserveAllLoop

LEMMA FramePartsType ==
  ASSUME NEW r, NEW o \in Holding(r), NEW frame \in Texts
  PROVE  FrameParts(o, frame).o \in Holding(r)
<1> DEFINE lines == Lines(frame)
           data == DataIn(lines)
           joined == FlattenSeq(data)
           type == OrChunk(EventTypeIn(lines))
<1>1. data \in Seq(Texts) /\ joined \in Texts
  BY LinesType, DataInType, FlattenType DEF Texts
<1>2. FrameParts(o, frame) = ObserveFrameParts(o, type, joined, data)
  BY DEF FrameParts, PartsOf
<1> HIDE DEF lines, data, joined, type
<1> QED  BY <1>1, <1>2, ObservePayloadType, ObserveAllType DEF ObserveFrameParts

Findings == [payload : Texts, end : Nat]

LEMMA PayloadsType ==
  ASSUME NEW x \in Seq(Findings)
  PROVE  Payloads(x) \in Seq(Texts)
<1>1. \A v \in Findings : v.payload \in Texts
  BY DEF Findings
<1>2. \A i \in 1 .. Len(x) : x[i] \in Findings
  OBVIOUS
<1>3. \A i \in 1 .. Len(x) : x[i].payload \in Texts
  BY <1>1, <1>2
<1>4. Payloads(x) = [i \in 1 .. Len(x) |-> x[i].payload] /\ Len(x) \in Nat
  BY DEF Payloads
<1> QED  BY <1>3, <1>4

LEMMA ObserveFrameType ==
  ASSUME NEW r, NEW o \in Holding(r), NEW frame \in Texts
  PROVE  ObserveFrame(o, frame) \in Holding(r)
<1>1. Salvaged(frame) \in Seq(Findings)
  BY SalvagedType DEF Findings
<1>2. Payloads(Salvaged(frame)) \in Seq(Texts)
  BY <1>1, PayloadsType
<1> QED  BY <1>2, FramePartsType, ObserveAllType DEF ObserveFrame, OrSalvaged

\* A frame that is being read, and what is left of the data.
Readings(r) == [o : Holding(r), rest : Texts]

LEMMA ObserveNextType ==
  ASSUME NEW r, NEW f \in Readings(r)
  PROVE  ObserveNext(f) \in Readings(r)
<1> DEFINE ends == {i \in 1 .. Len(f.rest) - 1 : f.rest[i] = NL /\ f.rest[i + 1] = NL}
<1>1. f.o \in Holding(r) /\ f.rest \in Texts /\ Len(f.rest) \in Nat
  BY DEF Readings, Texts
<1>2. CASE ends = {}
  BY <1>2 DEF ObserveNext
<1>3. CASE ends # {}
  <2>1. ends \subseteq Nat /\ ends \subseteq 1 .. Len(f.rest) - 1
    OBVIOUS
  <2>2. Min(ends) \in ends
    <3> HIDE DEF ends
    <3> QED  BY <2>1, <1>3, MinIs
  <2>3. Min(ends) \in 1 .. Len(f.rest) - 1
    <3> HIDE DEF ends
    <3> QED  BY <2>1, <2>2
  <2>4. ObserveNext(f) = [o    |-> ObserveFrame(f.o, SubSeq(f.rest, 1, Min(ends) - 1)),
                          rest |-> SubSeq(f.rest, Min(ends) + 2, Len(f.rest))]
    BY <1>3 DEF ObserveNext
  <2> HIDE DEF ends
  <2>5. SubSeq(f.rest, 1, Min(ends) - 1) \in Texts /\ SubSeq(f.rest, Min(ends) + 2, Len(f.rest)) \in Texts
    <3> SUFFICES ASSUME NEW m \in 1 .. Len(f.rest) - 1
                 PROVE  SubSeq(f.rest, 1, m - 1) \in Texts /\ SubSeq(f.rest, m + 2, Len(f.rest)) \in Texts
      BY <2>3
    <3> QED  BY <1>1 DEF Texts
  <2> QED  BY <1>1, <2>4, <2>5, ObserveFrameType DEF Readings
<1> QED  BY <1>2, <1>3

LEMMA ObserveFramesLoop ==
  ASSUME NEW r, NEW o \in Holding(r), NEW data \in Texts
  PROVE  \E f \in [0 .. Len(data) -> Readings(r)] :
            /\ f[0] = [o |-> o, rest |-> data] /\ ObserveFrames(o, data) = f[Len(data)]
            /\ \A i \in 1 .. Len(data) : f[i] = ObserveNext(f[i - 1])
<1> DEFINE n == Len(data)
           Turn(x, i) == ObserveNext(x)
           step == [i \in 1 .. n |-> [x \in Readings(r) |-> Turn(x, i)]]
           After(f) == f = [i \in 0 .. n |-> IF i = 0 THEN [o |-> o, rest |-> data] ELSE ObserveNext(f[i - 1])]
           after == CHOOSE f : After(f)
<1>1. n \in Nat /\ [o |-> o, rest |-> data] \in Readings(r)
  BY DEF Texts, Readings
<1>2. ASSUME NEW i \in 1 .. n, NEW x \in Readings(r) PROVE Turn(x, i) \in Readings(r)
  BY ObserveNextType
<1>3. \E f : After(f)
  <2>1. step \in [1 .. n -> [Readings(r) -> Readings(r)]] /\ \A i \in 1 .. n, x \in Readings(r) : step[i][x] = Turn(x, i)
    <3> HIDE DEF Turn
    <3> QED  BY <1>2
  <2>2. PICK f \in [0 .. n -> Readings(r)] : Iterates(f, n, [o |-> o, rest |-> data], step)
    <3> HIDE DEF step, n
    <3> QED  BY <2>1, <1>1, LoopExists
  <2>3. f[0] = [o |-> o, rest |-> data] /\ \A i \in 1 .. n : f[i] = Turn(f[i - 1], i)
    <3>1. \A i \in 1 .. n : f[i - 1] \in Readings(r)
      BY <1>1
    <3> HIDE DEF step, Turn
    <3> QED  BY <3>1, <2>1, <2>2 DEF Iterates
  <2>4. \A i \in 0 .. n : f[i] = IF i = 0 THEN [o |-> o, rest |-> data] ELSE Turn(f[i - 1], i)
    <3> HIDE DEF Turn
    <3> QED  BY <2>3, <1>1
  <2>5. f = [i \in 0 .. n |-> f[i]]
    OBVIOUS
  <2>6. After(f)
    <3> HIDE DEF n
    <3> QED  BY <2>4, <2>5
  <2> QED  BY <2>6
<1>4. After(after)
  <2> HIDE DEF After
  <2> QED  BY <1>3
<1>5. ObserveFrames(o, data) = after[n]
  BY DEF ObserveFrames
<1> HIDE DEF after
<1>6. after = [i \in 0 .. n |-> after[i]] /\ after[0] = [o |-> o, rest |-> data]
        /\ \A i \in 1 .. n : after[i] = Turn(after[i - 1], i)
  <2>1. 0 \in 0 .. n /\ \A i \in 1 .. n : i \in 0 .. n /\ i # 0
    BY <1>1
  <2> HIDE DEF n
  <2> QED  BY <1>4, <2>1
<1>7. \A i \in 0 .. n : after[i] \in Readings(r)
  <2>1. \A i \in 1 .. n : after[i - 1] \in Readings(r) => after[i] \in Readings(r)
    <3> HIDE DEF Turn
    <3> QED  BY <1>2, <1>6
  <2>2. after[0] \in Readings(r)
    BY <1>1, <1>6
  <2> HIDE DEF n
  <2> QED  BY <1>1, <2>1, <2>2, LoopTyped
<1>8. after \in [0 .. n -> Readings(r)]
  <2> HIDE DEF n
  <2> QED  BY <1>6, <1>7
<1> QED  BY <1>5, <1>6, <1>8

-----------------------------------------------------------------------------
(* The observer: one chunk, one body, the flush.                              *)

\* The observers between two chunks.
ObserversIn == {o \in Observers : Len(o.residual) <= MaxResidual}

LEMMA ObserveFramesType ==
  ASSUME NEW r, NEW o \in Holding(r), NEW data \in Texts
  PROVE  ObserveFrames(o, data) \in Readings(r)
<1> DEFINE n == Len(data)
           R == Readings(r)
           base == [o |-> o, rest |-> data]
<1>1. n \in 0 .. n
  BY DEF Texts
<1>2. \E f \in [0 .. n -> R] :
            /\ f[0] = base /\ ObserveFrames(o, data) = f[n]
            /\ \A i \in 1 .. n : f[i] = ObserveNext(f[i - 1])
  BY ObserveFramesLoop
<1> HIDE DEF n, R, base
<1>3. ObserveFrames(o, data) \in R
  BY <1>1, <1>2
<1> QED  BY <1>3 DEF R

LEMMA HeldType ==
  ASSUME NEW o \in Observers, NEW r \in Texts
  PROVE  [o EXCEPT !.residual = r] \in Holding(r)
<1>1. [o EXCEPT !.residual = r] \in Observers
  BY DEF Observers, Texts
<1>2. [o EXCEPT !.residual = r].residual = r
  BY DEF Observers
<1> QED  BY <1>1, <1>2 DEF Holding

LEMMA Emptied == <<>> \in Texts /\ Holding(<<>>) \subseteq ObserversIn
<1>1. <<>> \in Texts /\ Len(<<>>) <= MaxResidual
  BY ResidualAssumption DEF Texts
<1> QED  BY <1>1 DEF Holding, ObserversIn

LEMMA ObserveStreamType ==
  ASSUME NEW o \in Observers, NEW chunk \in Texts
  PROVE  ObserveStream(o, chunk) \in ObserversIn
<1> DEFINE bare == [o EXCEPT !.residual = <<>>]
           data == o.residual \o chunk
           framed == ObserveFrames(bare, data)
<1>1. bare \in Holding(<<>>) /\ data \in Texts
  <2>1. bare \in Holding(<<>>)
    BY HeldType, Emptied
  <2>2. o.residual \in Seq(Tokens)
    BY DEF Observers
  <2>3. \A x \in Seq(Tokens), y \in Seq(Tokens) : x \o y \in Seq(Tokens)
    OBVIOUS
  <2> QED  BY <2>1, <2>2, <2>3 DEF Texts
<1>2. ObserveStream(o, chunk) = ObserveTail(framed.o, framed.rest)
  BY DEF ObserveStream, AfterFrames
<1> HIDE DEF bare, data
<1>3. framed \in Readings(<<>>)
  BY <1>1, ObserveFramesType
<1> HIDE DEF framed
<1>4. framed.o \in Holding(<<>>) /\ framed.rest \in Texts
  BY <1>3 DEF Readings
<1> SUFFICES ASSUME NEW p \in Holding(<<>>), NEW d \in Texts
             PROVE  ObserveTail(p, d) \in ObserversIn
  BY <1>2, <1>4
<1>5. Holding(<<>>) \subseteq ObserversIn
  BY Emptied
<1> DEFINE left == SubSeq(d, TailEnd(p, d) + 1, Len(d))
<1>6. TailEnd(p, d) \in Nat
  <2>1. Salvaged(d) \in Seq(Findings)
    BY SalvagedType DEF Findings
  <2>2. SalvagedEnd(Salvaged(d)) \in Nat
    <3> SUFFICES ASSUME NEW x \in Seq(Findings) PROVE SalvagedEnd(x) \in Nat
      BY <2>1
    <3>1. CASE x = <<>>
      BY <3>1 DEF SalvagedEnd
    <3>2. CASE x # <<>>
      <4>1. x[Len(x)] \in Findings
        BY <3>2
      <4>2. x[Len(x)].end \in Nat
        BY <4>1 DEF Findings
      <4> QED  BY <3>2, <4>2 DEF SalvagedEnd, Last
    <3> QED  BY <3>1, <3>2
  <2> QED  BY <2>2 DEF TailEnd, Texts
<1>7. left \in Texts
  <2> SUFFICES ASSUME NEW m \in Nat PROVE SubSeq(d, m + 1, Len(d)) \in Texts
    BY <1>6
  <2> QED  BY DEF Texts
<1> HIDE DEF left
<1>8. ObserveFrame(p, d) \in Holding(<<>>)
  BY ObserveFrameType
<1>9. Buffered(ObserveFrame(p, d), left) \in ObserversIn
  <2> SUFFICES ASSUME NEW q \in Holding(<<>>) PROVE Buffered(q, left) \in ObserversIn
    BY <1>8
  <2>1. CASE Blank(left) \/ Len(left) > MaxResidual
    BY <2>1, <1>5 DEF Buffered
  <2>2. CASE ~(Blank(left) \/ Len(left) > MaxResidual)
    <3>1. Buffered(q, left) = [q EXCEPT !.residual = left]
      BY <2>2 DEF Buffered
    <3>2. Len(left) \in Nat /\ Len(left) <= MaxResidual
      BY <2>2, <1>7, ResidualAssumption DEF Texts
    <3> QED  BY <3>1, <3>2, <1>7 DEF ObserversIn, Holding, Observers, Texts
  <2> QED  BY <2>1, <2>2
<1> QED  BY <1>5, <1>9 DEF ObserveTail, left

LEMMA TrimmedType ==
  ASSUME NEW s \in Texts
  PROVE  Trimmed(s) \in Texts
<1> DEFINE kept == {i \in DOMAIN s : s[i] # NL}
<1>1. DOMAIN s = 1 .. Len(s) /\ Len(s) \in Nat
  BY DEF Texts
<1>2. CASE kept = {}
  BY <1>2 DEF Trimmed, Texts
<1>3. CASE kept # {}
  <2>1. kept \subseteq Nat /\ kept \subseteq 1 .. Len(s)
    BY <1>1
  <2>2. Trimmed(s) = SubSeq(s, Min(kept), Max(kept))
    BY <1>3 DEF Trimmed
  <2> HIDE DEF kept
  <2>3. Min(kept) \in kept
    BY <2>1, <1>3, MinIs
  <2>4. Max(kept) \in kept
    <3>1. PICK m \in kept : \A k \in kept : k <= m
      BY <2>1, <1>1, <1>3, Greatest
    <3>2. \A k \in kept : k \in Nat
      BY <2>1
    <3> QED  BY <3>1, <3>2 DEF Max
  <2> SUFFICES ASSUME NEW a \in 1 .. Len(s), NEW b \in 1 .. Len(s) PROVE SubSeq(s, a, b) \in Texts
    BY <2>1, <2>2, <2>3, <2>4
  <2> QED  BY DEF Texts
<1> QED  BY <1>2, <1>3

LEMMA ObserveCallbackType ==
  ASSUME NEW o \in ObserversIn, NEW chunk \in Texts
  PROVE  ObserveCallback(o, chunk) \in ObserversIn
<1> DEFINE payload == Unmarked(Trimmed(chunk))
           bare == [o EXCEPT !.residual = <<>>]
<1>1. payload \in Texts
  <2>1. \A t \in Texts : t # <<>> => Tail(t) \in Texts
    BY DEF Texts
  <2>2. Trimmed(chunk) \in Texts
    BY TrimmedType
  <2>3. \A t \in Texts : Unmarked(t) \in Texts
    BY <2>1, TrimmedType DEF Unmarked
  <2> QED  BY <2>2, <2>3
<1>2. bare \in Holding(<<>>) /\ bare \in ObserversIn
  BY HeldType, Emptied DEF ObserversIn
<1>3. Holding(<<>>) \subseteq ObserversIn
  BY Emptied
<1>4. ObserveCallback(o, chunk) = CallbackWith(o, chunk, payload)
  BY DEF ObserveCallback
<1> HIDE DEF payload
<1>5. ObserveStream(o, chunk) \in ObserversIn
  BY ObserveStreamType DEF ObserversIn
<1>6. ValidPayload(payload) => ObservePayload(bare, payload, "chunk") \in ObserversIn
  BY <1>1, <1>2, <1>3, ObservePayloadType
<1> QED  BY <1>2, <1>4, <1>5, <1>6 DEF CallbackWith

LEMMA FlushType ==
  ASSUME NEW o \in ObserversIn
  PROVE  Flush(o) \in ObserversIn
<1>1. o \in Holding(o.residual) /\ o.residual \in Texts
  BY DEF Holding, ObserversIn, Observers, Texts
<1> DEFINE p == ObserveFrame(o, o.residual)
<1>2. p \in Holding(o.residual)
  BY <1>1, ObserveFrameType
<1>3. Flush(o) = [p EXCEPT !.residual = <<>>]
  BY DEF Flush
<1> HIDE DEF p
<1>4. p \in Observers
  BY <1>2 DEF Holding
<1> QED  BY <1>3, <1>4, HeldType, Emptied

LEMMA ObserveBodyType ==
  ASSUME NEW o \in ObserversIn, NEW body \in Texts
  PROVE  ObserveBody(o, body) \in ObserversIn
<1>1. Flush(ObserveStream(o, body)) \in ObserversIn
  <2>1. o \in Observers
    BY DEF ObserversIn
  <2> QED  BY <2>1, ObserveStreamType, FlushType
<1>2. o \in Holding(o.residual) /\ Holding(o.residual) \subseteq ObserversIn
  BY DEF Holding, ObserversIn
<1>3. ValidPayload(body) => ObservePayload(o, body, "") \in ObserversIn
  BY <1>2, ObservePayloadType
<1> QED  BY <1>1, <1>3 DEF ObserveBody

-----------------------------------------------------------------------------
(* Types.                                                                     *)

LEMMA AppendedType ==
  ASSUME NEW body \in Texts, NEW chunk \in Texts
  PROVE  /\ Appended(body, chunk) \in Texts
         /\ Len(Appended(body, chunk)) <= MaxBuffer
         /\ Appended(body, chunk) = IF Len(body \o chunk) <= MaxBuffer THEN body \o chunk
                                    ELSE SubSeq(body \o chunk, 1, MaxBuffer)
<1> DEFINE all == body \o chunk
           cap == {Len(all), MaxBuffer}
<1>1. all \in Texts /\ Len(all) \in Nat
  BY DEF Texts
<1>2. Appended(body, chunk) = SubSeq(all, 1, Min(cap))
  BY DEF Appended
<1> HIDE DEF all
<1>3. cap \subseteq Nat /\ cap # {}
  BY <1>1, BufferAssumption
<1>4. Min(cap) \in cap /\ \A k \in cap : Min(cap) <= k
  BY <1>3, MinIs
<1>5. Min(cap) = IF Len(all) <= MaxBuffer THEN Len(all) ELSE MaxBuffer
  BY <1>1, <1>4, BufferAssumption
<1>6. CASE Len(all) <= MaxBuffer
  <2>1. Appended(body, chunk) = SubSeq(all, 1, Len(all))
    BY <1>2, <1>5, <1>6
  <2> QED  BY <2>1, <1>1, <1>6 DEF Texts, all
<1>7. CASE ~(Len(all) <= MaxBuffer)
  <2>1. Appended(body, chunk) = SubSeq(all, 1, MaxBuffer)
    BY <1>2, <1>5, <1>7
  <2>2. SubSeq(all, 1, MaxBuffer) \in Seq(Tokens) /\ Len(SubSeq(all, 1, MaxBuffer)) = MaxBuffer
    BY <1>1, <1>7, BufferAssumption DEF Texts
  <2> QED  BY <2>1, <2>2, <1>7, BufferAssumption DEF Texts, all
<1> QED  BY <1>6, <1>7

LEMMA ExchangeType ==
  ASSUME exchange \in Exchanges
  PROVE  /\ exchange.client \in Seq(Crumbs) /\ exchange.pooled \in Seq(Crumbs)
         /\ exchange.sets \in Seq(Assignments)
         /\ stream.text \in Texts /\ Len(stream.text) \in Nat
         /\ stream.next \in [0 .. Len(stream.text) -> SUBSET (1 .. Len(stream.text))]
<1>1. /\ exchange.client \in Seq(Crumbs) /\ exchange.pooled \in Seq(Crumbs) /\ exchange.sets \in Seq(Assignments)
      /\ exchange.stream.text \in Seq(Tokens)
      /\ exchange.stream.next \in [0 .. Len(exchange.stream.text) -> SUBSET (1 .. Len(exchange.stream.text))]
  BY ExchangesAssumption
<1>2. Len(exchange.stream.text) \in Nat
  BY <1>1
<1> QED  BY <1>1, <1>2 DEF stream, Texts

\* ApplySetCookies without Set-Cookie headers leaves the cookie as it is.
LEMMA AppliedType ==
  ASSUME NEW cookie \in Seq(Crumbs), NEW sets \in Seq(Assignments)
  PROVE  ApplySetCookies(cookie, sets) \in Seq(Crumbs)
<1>1. CASE sets = <<>>
  BY <1>1 DEF ApplySetCookies
<1>2. CASE sets # <<>>
  BY <1>2, ApplyIs
<1> QED  BY <1>1, <1>2

\* TypeOK, in the names of the lemmas.
Typed ==
    /\ exchange \in Exchanges
    /\ at \in {"new", "out", "reading", "whole", "done"}
    /\ sent \in Seq(Crumbs) /\ session \in Seq(Crumbs)
    /\ pos \in 0 .. Len(stream.text)
    /\ seen \in ObserversIn
    /\ buffer \in Texts /\ Len(buffer) <= MaxBuffer
    /\ row.model \in Models /\ row.conflict \in BOOLEAN

LEMMA TypedIs == TypeOK <=> Typed
  BY DEF TypeOK, Typed, ObserversIn, Texts

LEMMA InitTyped == Init => Typed
<1> SUFFICES ASSUME Init PROVE Typed
  OBVIOUS
<1> USE DEF Init
<1>1. pos \in 0 .. Len(stream.text)
  BY ExchangeType
<1>2. NewObserver \in ObserversIn
  <2>1. NewObserver \in Observers /\ NewObserver.residual = <<>>
    <3>1. NoModel \in Models
      BY DEF Models
    <3>2. <<>> \in Seq(Tokens) /\ FALSE \in BOOLEAN
      OBVIOUS
    <3> QED  BY <3>1, <3>2 DEF NewObserver, Observers
  <2> QED  BY <2>1, Emptied DEF Holding
<1>3. buffer \in Texts /\ Len(buffer) <= MaxBuffer
  BY BufferAssumption DEF Texts
<1>4. row.model \in Models /\ row.conflict \in BOOLEAN
  <2>1. NoModel \in Models
    BY DEF Models
  <2> QED  BY <2>1 DEF NoRow
<1>5. sent \in Seq(Crumbs) /\ session \in Seq(Crumbs)
  OBVIOUS
<1> QED  BY <1>1, <1>2, <1>3, <1>4, <1>5 DEF Typed

LEMMA StepTyped == Typed /\ [Next]_vars => Typed'
<1> SUFFICES ASSUME Typed, [Next]_vars PROVE Typed'
  OBVIOUS
<1>0. /\ exchange.client \in Seq(Crumbs) /\ exchange.pooled \in Seq(Crumbs)
      /\ exchange.sets \in Seq(Assignments)
      /\ stream.text \in Texts /\ Len(stream.text) \in Nat
  BY ExchangeType DEF Typed
<1>1. CASE Intercept
  <2>1. sent' \in Seq(Crumbs)
    BY <1>0, <1>1, MergeIs DEF Intercept
  <2> QED  BY <2>1, <1>1 DEF Intercept, Typed, stream
<1>2. CASE Headers
  <2>1. session' \in Seq(Crumbs)
    BY <1>0, <1>2, AppliedType DEF Headers, Typed
  <2> QED  BY <2>1, <1>2 DEF Headers, Typed, stream
<1>3. CASE WholeBody
  <2>1. session' \in Seq(Crumbs)
    BY <1>0, <1>3, AppliedType DEF WholeBody, Typed
  <2>2. seen' \in ObserversIn
    BY <1>0, <1>3, ObserveBodyType DEF WholeBody, Typed
  <2>3. buffer' \in Texts /\ Len(buffer') <= MaxBuffer
    BY <1>0, <1>3, AppendedType DEF WholeBody, Typed
  <2>4. stream' = stream /\ pos' \in 0 .. Len(stream.text)
    BY <1>0, <1>3 DEF WholeBody, stream
  <2> QED  BY <2>1, <2>2, <2>3, <2>4, <1>3 DEF WholeBody, Typed
<1>4. CASE Finalize
  <2>1. seen' \in ObserversIn
    BY <1>4, FlushType DEF Finalize, Typed
  <2>2. row'.model \in Models /\ row'.conflict \in BOOLEAN
    <3>1. \A o \in Observers : Verdict(o) \in Models /\ o.conflict \in BOOLEAN
      BY DEF Observers, Verdict
    <3>2. row'.model = Verdict(seen') /\ row'.conflict = seen'.conflict
      BY <1>4 DEF Finalize
    <3> QED  BY <2>1, <3>1, <3>2 DEF ObserversIn
  <2> QED  BY <2>1, <2>2, <1>4 DEF Finalize, Typed, stream
<1>5. ASSUME NEW end \in 1 .. Len(stream.text), Chunk(end) PROVE Typed'
  <2> DEFINE chunk == SubSeq(stream.text, pos + 1, end)
  <2>1. chunk \in Texts
    BY <1>0 DEF Typed, Texts
  <2>2. seen' = ObserveCallback(seen, chunk) /\ buffer' = Appended(buffer, chunk)
    BY <1>5 DEF Chunk
  <2> HIDE DEF chunk
  <2>3. seen' \in ObserversIn
    BY <2>1, <2>2, ObserveCallbackType DEF Typed
  <2>4. buffer' \in Texts /\ Len(buffer') <= MaxBuffer
    BY <2>1, <2>2, AppendedType DEF Typed
  <2>5. stream' = stream /\ pos' \in 0 .. Len(stream.text)
    BY <1>0, <1>5 DEF Chunk, stream
  <2> QED  BY <2>3, <2>4, <2>5, <1>5 DEF Chunk, Typed
<1>6. CASE UNCHANGED vars
  BY <1>6 DEF vars, Typed, stream
<1> QED  BY <1>1, <1>2, <1>3, <1>4, <1>5, <1>6 DEF Next

\* Whatever the streams and wherever the host cuts them: the observer's state and
\* the buffer are well formed, the residual and the buffer within their bounds, and
\* the row's model is one that some event declares (observeStream, appendBody,
\* finalizeLocked).
THEOREM TypeCorrect == Spec => []TypeOK
<1>1. Init => Typed
  BY InitTyped
<1>2. Typed /\ [Next]_vars => Typed'
  BY StepTyped
<1>3. Typed => TypeOK
  BY TypedIs
<1> QED  BY <1>1, <1>2, <1>3, PTL DEF Spec

-----------------------------------------------------------------------------
(* The cookies of a request.                                                  *)

\* What the two cookies are, from the moment each is there.
CookiesAre ==
    /\ at # "new" => sent = IF exchange.pooled = <<>> THEN exchange.client
                            ELSE MergeCookieHeader(exchange.client, exchange.pooled)
    /\ Answered => session = ApplySetCookies(sent, exchange.sets)

LEMMA StepCookies == CookiesAre /\ [Next]_vars => CookiesAre'
<1> SUFFICES ASSUME CookiesAre, [Next]_vars PROVE CookiesAre'
  OBVIOUS
<1>1. CASE Intercept
  BY <1>1 DEF Intercept, CookiesAre, Answered
<1>2. CASE Headers
  BY <1>2 DEF Headers, CookiesAre, Answered
<1>3. CASE WholeBody
  BY <1>3 DEF WholeBody, CookiesAre, Answered
<1>4. CASE Finalize
  BY <1>4 DEF Finalize, CookiesAre, Answered
<1>5. ASSUME NEW end \in 1 .. Len(stream.text), Chunk(end) PROVE CookiesAre'
  BY <1>5 DEF Chunk, CookiesAre, Answered
<1>6. CASE UNCHANGED vars
  BY <1>6 DEF vars, CookiesAre, Answered
<1> QED  BY <1>1, <1>2, <1>3, <1>4, <1>5, <1>6 DEF Next

LEMMA CookiesCorrect == Spec => [](Typed /\ CookiesAre)
<1>1. Init => Typed /\ CookiesAre
  BY InitTyped DEF Init, CookiesAre, Answered
<1>2. Typed /\ CookiesAre /\ [Next]_vars => (Typed /\ CookiesAre)'
  BY StepTyped, StepCookies
<1> QED  BY <1>1, <1>2, PTL DEF Spec

\* The cookie that goes out is the pool's laid over the client's, for any two
\* cookies (mergeCookieHeader).
THEOREM InjectionCorrect == Spec => []InjectionCoversClient
<1>1. Typed /\ CookiesAre => InjectionCoversClient
  <2> SUFFICES ASSUME Typed, CookiesAre, at # "new", exchange.pooled # <<>>
               PROVE  /\ Names(sent) = Names(exchange.client) \cup Names(exchange.pooled)
                      /\ \A n \in Names(sent) :
                            ValueOf(sent, n) = IF n \in Names(exchange.pooled) THEN ValueOf(exchange.pooled, n)
                                               ELSE ValueOf(exchange.client, n)
                      /\ Distinct(sent) /\ Follows(sent, exchange.client)
    BY DEF InjectionCoversClient
  <2>1. exchange.client \in Seq(Crumbs) /\ exchange.pooled \in Seq(Crumbs)
    BY ExchangeType DEF Typed
  <2>2. sent = MergeCookieHeader(exchange.client, exchange.pooled)
    BY DEF CookiesAre
  <2> QED  BY <2>1, <2>2, MergeIs
<1> QED  BY <1>1, CookiesCorrect, PTL

\* A response's Set-Cookie headers leave the session at what they said last of each
\* name, for any request cookie and any headers (applySetCookies).
THEOREM SessionCorrect == Spec => []SessionFollowsResponse
<1>1. Typed /\ CookiesAre => SessionFollowsResponse
  <2> SUFFICES ASSUME Typed, CookiesAre, Answered, exchange.sets # <<>>
               PROVE  /\ \A n \in Names(sent) \cup SetNames : ~Reissued(n) => LeftWith(n)
                      /\ Names(session) \subseteq Names(sent) \cup SetNames
                      /\ Distinct(session) /\ Follows(session, sent)
    BY DEF SessionFollowsResponse
  <2> DEFINE sets == exchange.sets
             w == ApplySetCookies(sent, sets)
  <2>1. sent \in Seq(Crumbs) /\ sets \in Seq(Assignments) /\ sets # <<>>
    BY ExchangeType DEF Typed
  <2>2. session = w
    BY DEF CookiesAre
  <2>3. /\ Distinct(session) /\ Follows(session, sent)
        /\ Names(session) \subseteq Names(sent) \cup (Names(sets) \ {""})
        /\ \A n \in Names(sent) \ Names(sets) : n \in Names(session) /\ ValueOf(session, n) = ValueOf(sent, n)
        /\ \A n \in Names(sets) \ {""} :
              /\ Clears(Latest(sets, n)) => n \notin Names(session)
              /\ /\ ~Clears(Latest(sets, n))
                 /\ n \in Names(sent) \/ ~Clears(sets[Earliest(sets, n)])
                 => n \in Names(session) /\ ValueOf(session, n) = ValueOf(sets, n)
    <3> HIDE DEF sets
    <3>1. /\ Distinct(w) /\ Follows(w, sent)
          /\ Names(w) \subseteq Names(sent) \cup (Names(sets) \ {""})
          /\ \A n \in Names(sent) \ Names(sets) : n \in Names(w) /\ ValueOf(w, n) = ValueOf(sent, n)
          /\ \A n \in Names(sets) \ {""} :
                /\ Clears(Latest(sets, n)) => n \notin Names(w)
                /\ /\ ~Clears(Latest(sets, n))
                   /\ n \in Names(sent) \/ ~Clears(sets[Earliest(sets, n)])
                   => n \in Names(w) /\ ValueOf(w, n) = ValueOf(sets, n)
      BY <2>1, ApplyIs, Zenon
    <3> HIDE DEF w
    <3> QED  BY <3>1, <2>2, Zenon
  <2>4. "" \notin Names(sent)
    <3>1. \A c \in Crumbs : c.name # ""
      BY DEF Crumbs
    <3>2. \A i \in DOMAIN sent : sent[i] \in Crumbs
      BY <2>1
    <3> QED  BY <3>1, <3>2 DEF Names
  <2>5. ASSUME NEW n \in Names(sent) \cup SetNames, ~Reissued(n) PROVE LeftWith(n)
    <3>1. CASE n \notin Names(sets)
      BY <3>1, <2>3, <2>5 DEF LeftWith, SetNames
    <3>2. CASE n \in Names(sets)
      <4>1. n \in Names(sets) \ {""}
        BY <3>2, <2>4 DEF SetNames
      <4>2. Clears(Latest(sets, n)) \/ n \in Names(sent) \/ ~Clears(sets[Earliest(sets, n)])
        BY <3>2, <2>5, Zenon DEF Reissued
      <4>3. CASE Clears(Latest(sets, n))
        BY <4>1, <4>3, <3>2, <2>3, Zenon DEF LeftWith
      <4>4. CASE ~Clears(Latest(sets, n))
        BY <4>1, <4>2, <4>4, <3>2, <2>3, Zenon DEF LeftWith
      <4> QED  BY <4>3, <4>4
    <3> QED  BY <3>1, <3>2
  <2> QED  BY <2>3, <2>5 DEF SetNames
<1> QED  BY <1>1, CookiesCorrect, PTL

-----------------------------------------------------------------------------
(* What a body is made of: payloads, each on one line or the last one begun.  *)

\* What the assumptions on streams and OneLined make of a body.
DoneMarked(body) == \A i \in 1 .. Len(body) : body[i] = DoneMark => i > 1 /\ body[i - 1] = Marker
Readable(body) ==
    /\ body \in Texts /\ OneLined(body) /\ DoneMarked(body)
    /\ \A a, b \in 1 .. Len(body) :
          a < b /\ body[a].k = "open" /\ body[b].k = "open" => \E c \in a .. b : body[c].k = "close"
    /\ \A a, b \in 1 .. Len(body) : Run(body, a, b) => SubSeq(body, a, b) = Payload(body[a].e)

LEMMA Kinds ==
    /\ NL.k = "nl" /\ Marker.k = "data" /\ DoneMark.k = "done"
    /\ \A t \in Tokens : t.k \in {"event", "open", "piece", "close"} => t.e \in Events
<1>1. NL.k = "nl" /\ Marker.k = "data" /\ DoneMark.k = "done"
  BY DEF NL, Marker, DoneMark, Token
<1> QED  BY <1>1 DEF Tokens

LEMMA ReadableFields ==
  ASSUME NEW body, Readable(body)
  PROVE  /\ body \in Texts /\ Len(body) \in Nat /\ DOMAIN body = 1 .. Len(body)
         /\ \A i \in 1 .. Len(body) : body[i] \in Tokens
         /\ \A i \in 1 .. Len(body) : body[i].k = "open" => i > 1 /\ body[i - 1] = Marker
         /\ \A i \in 1 .. Len(body) : body[i].k \in {"piece", "close"} => i > 1 /\ body[i - 1].k \in {"open", "piece"}
<1>1. body \in Texts /\ OneLined(body)
  BY DEF Readable
<1>2. Len(body) \in Nat /\ DOMAIN body = 1 .. Len(body) /\ \A i \in 1 .. Len(body) : body[i] \in Tokens
  BY <1>1 DEF Texts
<1> QED  BY <1>1, <1>2 DEF OneLined

\* Every closing token ends a payload on one line.
LEMMA RunOf ==
  ASSUME NEW body, Readable(body), NEW b \in 1 .. Len(body), body[b].k = "close"
  PROVE  \E a \in 2 .. b - 1 : Run(body, a, b)
<1> DEFINE T == {i \in 1 .. b : \A x \in i .. b - 1 : body[x].k = "piece"}
<1>0. Len(body) \in Nat /\ b \in Nat
  BY ReadableFields
<1>1. b \in T /\ T \subseteq Nat
  BY <1>0
<1>2. PICK m \in T : \A k \in T : m <= k
  BY <1>1, Least
<1>3. m \in 1 .. b /\ m \in 1 .. Len(body) /\ \A x \in m .. b - 1 : body[x].k = "piece"
  BY <1>0, <1>2
<1>4. body[m].k \in {"piece", "close"}
  BY <1>0, <1>3
<1>5. m > 1 /\ body[m - 1].k \in {"open", "piece"}
  BY <1>3, <1>4, ReadableFields
<1>6. body[m - 1].k = "open"
  <2> SUFFICES ASSUME body[m - 1].k = "piece" PROVE FALSE
    BY <1>5
  <2>1. \A x \in m - 1 .. b - 1 : x = m - 1 \/ x \in m .. b - 1
    BY <1>0, <1>3
  <2>2. m - 1 \in T
    <3>1. m - 1 \in 1 .. b
      BY <1>0, <1>3, <1>5
    <3>2. \A x \in m - 1 .. b - 1 : body[x].k = "piece"
      BY <2>1, <1>3
    <3> QED  BY <3>1, <3>2
  <2> QED  BY <2>2, <1>0, <1>2, <1>3
<1>7. m - 1 \in 1 .. Len(body) /\ m - 1 \in 1 .. b - 1
  BY <1>0, <1>3, <1>5
<1>8. m - 1 > 1
  BY <1>6, <1>7, ReadableFields
<1>9. Run(body, m - 1, b)
  <2>1. \A x \in (m - 1) + 1 .. b - 1 : body[x].k = "piece"
    BY <1>0, <1>3
  <2> QED  BY <2>1, <1>6, <1>0, <1>3, <1>5 DEF Run
<1> QED  BY <1>7, <1>8, <1>9, <1>0

LEMMA RunKinds ==
  ASSUME NEW body, NEW a \in Nat, NEW b \in Nat, Run(body, a, b), NEW i \in a .. b
  PROVE  /\ body[i].k \in {"open", "piece", "close"}
         /\ body[i].k = "open" <=> i = a
         /\ body[i].k = "close" <=> i = b
<1>1. i = a \/ i = b \/ i \in a + 1 .. b - 1
  OBVIOUS
<1>2. a < b /\ body[a].k = "open" /\ body[b].k = "close"
  BY DEF Run
<1>3. i \in a + 1 .. b - 1 => body[i].k = "piece" /\ i # a /\ i # b
  BY DEF Run
<1> QED  BY <1>1, <1>2, <1>3

LEMMA RunUnique ==
  ASSUME NEW body, NEW a \in Nat, NEW b \in Nat, Run(body, a, b),
         NEW c \in Nat, NEW d \in Nat, Run(body, c, d), NEW i \in a .. b, i \in c .. d
  PROVE  c = a /\ d = b
<1>1. a < b /\ c < d
  BY DEF Run
<1>2. c = a
  <2>1. CASE c < a
    <3>1. a \in c .. d /\ a \in a .. b
      BY <2>1, <1>1
    <3>2. body[a].k = "open" /\ c = a
      BY <3>1, RunKinds
    <3> QED  BY <3>2
  <2>2. CASE a < c
    <3>1. c \in a .. b /\ c \in c .. d
      BY <2>2, <1>1
    <3> QED  BY <3>1, RunKinds
  <2> QED  BY <2>1, <2>2
<1>3. d = b
  <2>1. CASE d < b
    <3>1. d \in a .. b /\ d \in c .. d
      BY <2>1, <1>1
    <3> QED  BY <3>1, RunKinds
  <2>2. CASE b < d
    <3>1. b \in c .. d /\ b \in a .. b
      BY <2>2, <1>1
    <3> QED  BY <3>1, RunKinds
  <2> QED  BY <2>1, <2>2
<1> QED  BY <1>2, <1>3

\* A payload that is not on one line to its end is the last thing begun.
LEMMA LastBegun ==
  ASSUME NEW body, Readable(body), NEW a \in 1 .. Len(body), body[a].k = "open",
         \A b \in 1 .. Len(body) : ~Run(body, a, b)
  PROVE  \A j \in a .. Len(body) : body[j].k # "close"
<1> DEFINE T == {j \in a .. Len(body) : body[j].k = "close"}
<1>0. Len(body) \in Nat
  BY ReadableFields
<1> SUFFICES ASSUME T # {} PROVE FALSE
  OBVIOUS
<1>1. T \subseteq Nat
  BY <1>0
<1>2. PICK j \in T : \A k \in T : j <= k
  BY <1>1, Least
<1>3. j \in 1 .. Len(body) /\ j \in a .. Len(body) /\ body[j].k = "close"
  BY <1>0, <1>2
<1>4. PICK r \in 2 .. j - 1 : Run(body, r, j)
  BY <1>3, RunOf
<1>5. r \in 1 .. Len(body) /\ r # a /\ body[r].k = "open" /\ r < j
  BY <1>0, <1>3, <1>4 DEF Run
<1>6. CASE r < a
  <2>1. a \in r .. j /\ r \in Nat /\ j \in Nat
    BY <1>3, <1>4, <1>6, <1>0
  <2>2. body[a].k = "open" <=> a = r
    BY <2>1, <1>4, RunKinds
  <2> QED  BY <2>2, <1>5
<1>7. CASE a < r
  <2>1. PICK c \in a .. r : body[c].k = "close"
    BY <1>5, <1>7 DEF Readable
  <2>2. c \in T /\ c < j
    BY <2>1, <1>3, <1>5, <1>7, <1>0
  <2> QED  BY <2>2, <1>2, <1>1
<1> QED  BY <1>0, <1>5, <1>6, <1>7

-----------------------------------------------------------------------------
(* The value behind a marker.                                                 *)

LEMMA OneOpened ==
  ASSUME NEW q, NEW a \in Nat, NEW b \in Nat, Run(q, a, b)
  PROVE  Opened(q, a, b) = 1 /\ Closed(q, a, b) = 1
<1>1. a \in a .. b /\ b \in a .. b
  BY DEF Run
<1>2. {x \in a .. b : q[x].k = "open"} = {a}
  BY <1>1, RunKinds
<1>3. {x \in a .. b : q[x].k = "close"} = {b}
  BY <1>1, RunKinds
<1> QED  BY <1>2, <1>3, FS_Singleton DEF Opened, Closed

\* The value behind a marker: the payload that starts there on one line, the mark,
\* or nothing.
LEMMA ValueHere ==
  ASSUME NEW body, Readable(body), NEW s \in 1 .. Len(body), body[s] = Marker
  PROVE  LET v == FirstJSONValue(SubSeq(body, s + 1, Len(body)))
         IN \/ \E b \in s + 2 .. Len(body) :
                  Run(body, s + 1, b) /\ v = [payload |-> SubSeq(body, s + 1, b), end |-> b - s]
            \/ /\ \A b \in 1 .. Len(body) : ~Run(body, s + 1, b)
               /\ \/ v = NoValue
                  \/ \E p \in 1 .. Len(body) - s :
                        /\ v = [payload |-> <<DoneMark>>, end |-> p]
                        /\ \A i \in s + 1 .. s + p : body[i] \in {NL, DoneMark}
<1> DEFINE q == SubSeq(body, s + 1, Len(body))
           v == FirstJSONValue(q)
           n == Len(body)
<1>0. n \in Nat /\ s \in Nat /\ s <= n /\ body \in Texts
  BY ReadableFields
<1>1. q \in Texts /\ Len(q) = n - s /\ \A i \in 1 .. n - s : q[i] = body[s + i]
  BY <1>0 DEF Texts
<1>2. PICK p \in 0 .. n - s :
         /\ v = ValueAt(q, p, Balanced(q, p))
         /\ \A i \in 1 .. p - 1 : q[i] = NL
         /\ IF p = 0 THEN \A i \in 1 .. n - s : q[i] = NL ELSE q[p] # NL
  BY <1>1, FirstJSONValueAt
<1>3. \A b \in 1 .. n : Run(body, s + 1, b) => p = 1 /\ s + 1 < b /\ body[s + 1].k = "open"
  <2> SUFFICES ASSUME NEW b \in 1 .. n, Run(body, s + 1, b) PROVE p = 1 /\ s + 1 < b /\ body[s + 1].k = "open"
    OBVIOUS
  <2>1. s + 1 < b /\ body[s + 1].k = "open"
    BY DEF Run
  <2>2. 1 \in 1 .. n - s /\ q[1] = body[s + 1]
    BY <1>0, <1>1, <2>1
  <2>3. q[1] # NL
    BY <2>1, <2>2, Kinds
  <2>4. p = 1
    <3>1. p # 0
      BY <1>2, <2>2, <2>3
    <3>2. ~(1 \in 1 .. p - 1)
      BY <1>2, <2>3
    <3> QED  BY <3>1, <3>2, <1>0, <1>2
  <2> QED  BY <2>1, <2>4
<1> HIDE DEF q, v
<1>4. ASSUME NEW b \in 1 .. n, Run(body, s + 1, b)
      PROVE  v = [payload |-> SubSeq(body, s + 1, b), end |-> b - s] /\ b \in s + 2 .. n
  <2> DEFINE m == b - s
             ends == Balanced(q, 1)
  <2>1. p = 1 /\ s + 1 < b /\ m \in 1 .. n - s /\ 1 < m /\ m \in Nat /\ body[s + 1].k = "open"
    BY <1>0, <1>3, <1>4
  <2>2. Run(q, 1, m)
    <3>1. q[1] = body[s + 1] /\ q[m] = body[b]
      BY <2>1, <1>0, <1>1
    <3>2. ASSUME NEW i \in 1 + 1 .. m - 1 PROVE q[i].k = "piece"
      <4>1. s + i \in (s + 1) + 1 .. b - 1 /\ q[i] = body[s + i]
        BY <2>1, <1>0, <1>1
      <4> QED  BY <4>1, <1>4 DEF Run
    <3>3. q[1].k = "open" /\ q[m].k = "close"
      BY <3>1, <1>4 DEF Run
    <3> QED  BY <3>2, <3>3, <2>1 DEF Run
  <2>3. m \in ends
    <3>1. Opened(q, 1, m) = Closed(q, 1, m) /\ q[m].k = "close"
      BY <2>1, <2>2, OneOpened DEF Run
    <3> QED  BY <3>1, <2>1, <1>1 DEF Balanced
  <2>4. \A k \in ends : m <= k
    <3> SUFFICES ASSUME NEW k \in ends, k < m PROVE FALSE
      BY <2>1, <1>1 DEF Balanced
    <3>1. k \in 1 .. m /\ q[k].k = "close"
      BY <2>1, <1>1 DEF Balanced
    <3> QED  BY <3>1, <2>1, <2>2, RunKinds
  <2>5. ends \subseteq Nat
    BY <1>1, <1>0 DEF Balanced
  <2> HIDE DEF ends
  <2>6. Min(ends) = m
    <3>1. Min(ends) \in ends /\ \A k \in ends : Min(ends) <= k
      BY <2>3, <2>5, MinIs
    <3>2. Min(ends) \in Nat /\ m \in Nat /\ m <= Min(ends) /\ Min(ends) <= m
      BY <3>1, <2>1, <2>3, <2>4, <2>5
    <3> HIDE DEF m
    <3> QED  BY <3>2
  <2>7. q[1].k = "open" /\ q[1] # DoneMark
    BY <2>2, Kinds DEF Run
  <2>8. v = [payload |-> SubSeq(q, 1, m), end |-> m]
    <3>1. v = ValueAt(q, 1, ends)
      BY <1>2, <2>1 DEF ends
    <3>2. ends # {}
      BY <2>3
    <3> HIDE DEF m
    <3> QED  BY <3>1, <3>2, <2>6, <2>7 DEF ValueAt
  <2>9. SubSeq(q, 1, m) = SubSeq(body, s + 1, b)
    <3>1. Len(SubSeq(q, 1, m)) = m /\ Len(SubSeq(body, s + 1, b)) = m
      BY <2>1, <1>0, <1>1 DEF Texts
    <3>2. \A i \in 1 .. m : SubSeq(q, 1, m)[i] = q[i] /\ SubSeq(body, s + 1, b)[i] = body[s + i]
      BY <2>1, <1>0, <1>1 DEF Texts
    <3>3. \A i \in 1 .. m : q[i] = body[s + i]
      BY <2>1, <1>0, <1>1
    <3>4. SubSeq(q, 1, m) \in Texts /\ SubSeq(body, s + 1, b) \in Texts
      BY <2>1, <1>0, <1>1 DEF Texts
    <3> QED  BY <3>1, <3>2, <3>3, <3>4, <2>1 DEF Texts
  <2>10. b \in s + 2 .. n
    BY <2>1, <1>0
  <2> QED  BY <2>8, <2>9, <2>10
<1>5. CASE \E b \in 1 .. n : Run(body, s + 1, b)
  <2>1. PICK b \in 1 .. n : Run(body, s + 1, b)
    BY <1>5
  <2>2. v = [payload |-> SubSeq(body, s + 1, b), end |-> b - s] /\ b \in s + 2 .. n
    BY <2>1, <1>4
  <2> QED  BY <2>1, <2>2 DEF v, q
<1>6. CASE \A b \in 1 .. n : ~Run(body, s + 1, b)
  <2>1. CASE p = 0
    <3>1. v = NoValue
      BY <1>2, <2>1 DEF ValueAt
    <3> QED  BY <3>1, <1>6 DEF v, q
  <2>2. CASE p # 0 /\ q[p] = DoneMark
    <3>1. v = [payload |-> <<DoneMark>>, end |-> p]
      BY <1>2, <2>2 DEF ValueAt
    <3>2. ASSUME NEW i \in s + 1 .. s + p PROVE body[i] \in {NL, DoneMark}
      <4>1. i - s \in 1 .. p /\ q[i - s] = body[s + (i - s)] /\ s + (i - s) = i
        BY <1>0, <1>1, <1>2
      <4>2. CASE i - s = p
        BY <4>1, <4>2, <2>2
      <4>3. CASE i - s # p
        <5>1. i - s \in 1 .. p - 1
          BY <4>1, <4>3
        <5> QED  BY <5>1, <4>1, <1>2
      <4> QED  BY <4>2, <4>3
    <3>3. p \in 1 .. n - s
      BY <2>2, <1>2, <1>0
    <3> QED  BY <3>1, <3>2, <3>3, <1>6 DEF v, q
  <2>3. CASE p # 0 /\ q[p] # DoneMark
    <3>1. v = NoValue
      <4>1. CASE q[p].k # "open"
        BY <1>2, <2>3, <4>1 DEF ValueAt
      <4>2. CASE q[p].k = "open"
        <5>0. p \in 1 .. n - s /\ q[p] = body[s + p] /\ s + p \in 1 .. n
          BY <2>3, <1>0, <1>1, <1>2
        <5>1. p = 1
          <6> SUFFICES ASSUME p # 1 PROVE FALSE
            OBVIOUS
          <6>0. p - 1 \in 1 .. n - s /\ p - 1 \in 1 .. p - 1
            BY <5>0, <1>0
          <6>1. q[p - 1] = body[s + (p - 1)] /\ s + (p - 1) = (s + p) - 1
            BY <6>0, <5>0, <1>0, <1>1
          <6>2. body[(s + p) - 1] = Marker
            BY <5>0, <4>2, ReadableFields
          <6> QED  BY <6>0, <6>1, <6>2, <1>2, Kinds
        <5>2. \A j \in s + 1 .. n : body[j].k # "close"
          <6>1. s + 1 \in 1 .. n /\ body[s + 1].k = "open"
            BY <5>0, <5>1, <4>2
          <6> QED  BY <6>1, <1>6, LastBegun
        <5>3. Balanced(q, p) = {}
          <6> SUFFICES ASSUME NEW j \in Balanced(q, p) PROVE FALSE
            OBVIOUS
          <6>1. j \in 1 .. n - s /\ q[j].k = "close"
            BY <5>1, <1>1 DEF Balanced
          <6>2. s + j \in s + 1 .. n /\ q[j] = body[s + j]
            BY <6>1, <1>0, <1>1
          <6> QED  BY <6>1, <6>2, <5>2
        <5> QED  BY <1>2, <2>3, <5>3 DEF ValueAt
      <4> QED  BY <4>1, <4>2
    <3> QED  BY <3>1, <1>6 DEF v, q
  <2> QED  BY <2>1, <2>2, <2>3
<1> QED  BY <1>5, <1>6

-----------------------------------------------------------------------------
(* A payload and what is to be stored of it.                                  *)

LEMMA UnspacedSame ==
  ASSUME NEW s \in Texts, \A i \in 1 .. Len(s) : s[i] # NL
  PROVE  Unspaced(s) = s
<1> DEFINE n == Len(s)
<1>0. n \in Nat
  BY DEF Texts
<1>1. PICK f \in [0 .. n -> Texts] :
            /\ f[0] = <<>> /\ Unspaced(s) = f[n]
            /\ \A i \in 1 .. n : f[i] = IF s[i] = NL THEN f[i - 1] ELSE Append(f[i - 1], s[i])
  BY UnspacedLoop
<1> DEFINE I == {i \in 0 .. n : f[i] = SubSeq(s, 1, i)}
<1>2. 0 \in I
  BY <1>0, <1>1 DEF Texts
<1>3. ASSUME NEW i \in 0 .. n - 1, i \in I PROVE i + 1 \in I
  <2>1. i + 1 \in 1 .. n /\ i + 1 \in 0 .. n /\ (i + 1) - 1 = i
    BY <1>0
  <2>2. f[i + 1] = Append(SubSeq(s, 1, i), s[i + 1])
    BY <1>1, <1>3, <2>1
  <2>3. Append(SubSeq(s, 1, i), s[i + 1]) = SubSeq(s, 1, i + 1)
    BY <2>1, <1>0 DEF Texts
  <2> QED  BY <2>1, <2>2, <2>3
<1>4. 0 .. n \subseteq I
  <2> HIDE DEF I, n
  <2> QED  BY <1>0, <1>2, <1>3, UpTo
<1>5. f[n] = SubSeq(s, 1, n)
  BY <1>0, <1>4
<1> QED  BY <1>1, <1>5 DEF Texts

LEMMA RunPayload ==
  ASSUME NEW body, Readable(body), NEW a \in 1 .. Len(body), NEW b \in 1 .. Len(body), Run(body, a, b)
  PROVE  LET p == SubSeq(body, a, b)
         IN /\ p \in Texts /\ Len(p) = b - a + 1 /\ p[1] = body[a] /\ Unspaced(p) = p
            /\ body[a].e \in Events /\ body[b].e = body[a].e
            /\ ValidPayload(p) /\ p # <<DoneMark>>
<1> DEFINE p == SubSeq(body, a, b)
           n == b - a + 1
           e == body[a].e
<1>0. Len(body) \in Nat /\ a \in Nat /\ b \in Nat /\ a < b /\ body \in Texts
  BY ReadableFields DEF Run
<1>1. p \in Texts /\ Len(p) = n /\ n \in Nat /\ n > 1 /\ \A i \in 1 .. n : p[i] = body[a + i - 1]
  BY <1>0 DEF Texts
<1>2. p[1] = body[a] /\ p[n] = body[b]
  BY <1>0, <1>1
<1>3. body[a] \in Tokens /\ body[b] \in Tokens /\ body[a].k = "open" /\ body[b].k = "close"
  BY ReadableFields DEF Run
<1>4. e \in Events
  BY <1>3, Kinds
<1>5. p = Payload(e)
  BY DEF Readable
<1>6. body[b] = Token("close", e)
  <2> DEFINE pieces == [i \in 1 .. Pieces(e) |-> Token("piece", e)]
             u == Token("open", e)
             w == Token("close", e)
             x == <<u>> \o pieces \o <<w>>
  <2>0. Pieces(e) \in Nat
    BY <1>4, EventsAssumption
  <2>1. x = p
    BY <1>5 DEF Payload
  <2>2. x[Len(x)] = w
    <3> DEFINE S == {u, w, Token("piece", e)}
    <3>1. <<u>> \in Seq(S) /\ pieces \in Seq(S) /\ w \in S
      BY <2>0
    <3> HIDE DEF u, w, pieces, S
    <3> SUFFICES ASSUME NEW y \in Seq(S), NEW z \in Seq(S), NEW t \in S
                 PROVE  (y \o z \o <<t>>)[Len(y \o z \o <<t>>)] = t
      BY <3>1
    <3> QED  OBVIOUS
  <2> HIDE DEF x
  <2> QED  BY <2>1, <2>2, <1>1, <1>2
<1>7. \A i \in 1 .. Len(p) : p[i] # NL
  <2> SUFFICES ASSUME NEW i \in 1 .. n PROVE p[i] # NL
    BY <1>1
  <2>1. a + i - 1 \in a .. b /\ p[i] = body[a + i - 1]
    BY <1>0, <1>1
  <2>2. body[a + i - 1].k \in {"open", "piece", "close"}
    BY <2>1, <1>0, RunKinds
  <2> QED  BY <2>1, <2>2, Kinds
<1>8. Unspaced(p) = p
  BY <1>1, <1>7, UnspacedSame
<1>9. ValidPayload(p)
  <2>1. p # <<>> /\ p[1].k = "open" /\ p = Payload(p[1].e)
    BY <1>1, <1>2, <1>3, <1>5
  <2> HIDE DEF p
  <2> QED  BY <2>1, <1>8 DEF ValidPayload, Blank
<1>10. p # <<DoneMark>>
  BY <1>1, <1>2, <1>3, Kinds
<1>11. body[b].e = e
  BY <1>6 DEF Token
<1> HIDE DEF p
<1> QED  BY <1>1, <1>2, <1>4, <1>8, <1>9, <1>10, <1>11 DEF p

\* What becomes of a payload of e.
Kept(e) ==
    LET type == IF BodyType(e) # "" THEN BodyType(e) ELSE IF stream.names THEN LineType(e) ELSE ""
    IN IF type \in {"created", "completed", ""} THEN <<Token("fields", e)>> ELSE <<Token("masked", e)>>

\* What may stand in a stored body.
StoredTokens == Tokens \cup [k : {"fields", "masked"}, e : Events]

LEMMA KeptType ==
  ASSUME NEW e \in Events
  PROVE  Kept(e) \in Seq(StoredTokens)
<1>1. Token("fields", e) \in StoredTokens /\ Token("masked", e) \in StoredTokens
  BY DEF Token, StoredTokens
<1>2. Kept(e) \in {<<Token("fields", e)>>, <<Token("masked", e)>>}
  BY DEF Kept
<1>3. <<Token("fields", e)>> \in Seq(StoredTokens) /\ <<Token("masked", e)>> \in Seq(StoredTokens)
  BY <1>1
<1> QED  BY <1>2, <1>3

LEMMA StoredInRun ==
  ASSUME NEW body, Readable(body), NEW a \in 1 .. Len(body), NEW b \in 1 .. Len(body), Run(body, a, b),
         NEW i \in a .. b
  PROVE  Stored(body, i) = IF i = b THEN Kept(body[a].e) ELSE <<>>
<1> DEFINE whole == \E j \in i .. Len(body) : body[j].k = "close" /\ Opened(body, i + 1, j) = 0
<1>0. Len(body) \in Nat /\ a < b /\ a \in Nat /\ b \in Nat
  BY ReadableFields DEF Run
<1>1. whole
  <2>1. b \in i .. Len(body) /\ body[b].k = "close"
    BY <1>0 DEF Run
  <2>2. {x \in i + 1 .. b : body[x].k = "open"} = {}
    <3> SUFFICES ASSUME NEW x \in i + 1 .. b PROVE body[x].k # "open"
      OBVIOUS
    <3>1. x \in a .. b /\ x # a
      BY <1>0
    <3> QED  BY <3>1, <1>0, RunKinds
  <2>3. Opened(body, i + 1, b) = 0
    BY <2>2, FS_EmptySet DEF Opened
  <2> QED  BY <2>1, <2>3
<1>2. body[i].k \in {"open", "piece", "close"} /\ (body[i].k = "close" <=> i = b)
  BY <1>0, RunKinds
<1>3. body[b].e = body[a].e
  BY RunPayload
<1> HIDE DEF whole
<1>4. CASE i # b
  BY <1>1, <1>2, <1>4 DEF Stored, whole
<1>5. CASE i = b
  <2>1. Stored(body, i) = Kept(body[i].e)
    BY <1>1, <1>2, <1>5 DEF Stored, Kept, whole
  <2> QED  BY <2>1, <1>3, <1>5
<1> QED  BY <1>4, <1>5

LEMMA StoredAsIs ==
  ASSUME NEW body, Readable(body), NEW i \in 1 .. Len(body),
         \A a, b \in 1 .. Len(body) : Run(body, a, b) => i \notin a .. b
  PROVE  Stored(body, i) = <<body[i]>>
<1> DEFINE whole == \E j \in i .. Len(body) : body[j].k = "close" /\ Opened(body, i + 1, j) = 0
<1>0. Len(body) \in Nat
  BY ReadableFields
<1>1. ~whole
  <2> SUFFICES ASSUME NEW j \in i .. Len(body), body[j].k = "close", Opened(body, i + 1, j) = 0 PROVE FALSE
    OBVIOUS
  <2>1. PICK a \in 2 .. j - 1 : Run(body, a, j)
    <3>1. j \in 1 .. Len(body)
      BY <1>0
    <3> QED  BY <3>1, RunOf
  <2>2. a \in 1 .. Len(body) /\ j \in 1 .. Len(body) /\ a < j /\ body[a].k = "open"
    BY <1>0, <2>1 DEF Run
  <2>3. a \in i + 1 .. j
    <3>1. i \notin a .. j
      BY <2>1, <2>2
    <3> QED  BY <3>1, <2>2, <1>0
  <2> DEFINE O == {x \in i + 1 .. j : body[x].k = "open"}
  <2>4. a \in O
    BY <2>2, <2>3
  <2>5. IsFiniteSet(O)
    <3>1. IsFiniteSet(i + 1 .. j)
      BY <1>0, FS_Interval
    <3>2. O \in SUBSET (i + 1 .. j)
      OBVIOUS
    <3> HIDE DEF O
    <3> QED  BY <3>1, <3>2, FS_Subset
  <2>6. Cardinality(O) = 0
    BY DEF Opened
  <2> HIDE DEF O
  <2> QED  BY <2>4, <2>5, <2>6, FS_EmptySet
<1> HIDE DEF whole
<1> QED  BY <1>1 DEF Stored, whole

LEMMA StoredType ==
  ASSUME NEW body, Readable(body), NEW i \in 1 .. Len(body)
  PROVE  Stored(body, i) \in Seq(StoredTokens)
<1>0. body[i] \in StoredTokens /\ <<>> \in Seq(StoredTokens)
  BY ReadableFields DEF StoredTokens
<1>1. CASE \A a, b \in 1 .. Len(body) : Run(body, a, b) => i \notin a .. b
  <2>1. <<body[i]>> \in Seq(StoredTokens)
    BY <1>0
  <2> QED  BY <2>1, <1>1, StoredAsIs
<1>2. ASSUME NEW a \in 1 .. Len(body), NEW b \in 1 .. Len(body), Run(body, a, b), i \in a .. b
      PROVE  Stored(body, i) \in Seq(StoredTokens)
  <2>1. Kept(body[a].e) \in Seq(StoredTokens)
    BY <1>2, RunPayload, KeptType
  <2>2. Stored(body, i) = IF i = b THEN Kept(body[a].e) ELSE <<>>
    BY <1>2, StoredInRun
  <2> QED  BY <2>1, <2>2, <1>0
<1> QED  BY <1>1, <1>2

-----------------------------------------------------------------------------
(* The stored text, token by token.                                           *)

\* F is the flattened text of what is to be stored, up to each token.
Flattens(body, F) ==
    /\ F \in [0 .. Len(body) -> Seq(StoredTokens)] /\ F[0] = <<>>
    /\ \A i \in 1 .. Len(body) : F[i] = F[i - 1] \o Stored(body, i)

LEMMA FlattensExists ==
  ASSUME NEW body, Readable(body)
  PROVE  \E F : Flattens(body, F) /\ FlattenSeq([i \in DOMAIN body |-> Stored(body, i)]) = F[Len(body)]
<1> DEFINE parts == [i \in DOMAIN body |-> Stored(body, i)]
           T == StoredTokens
           n == Len(body)
<1>0. n \in Nat /\ DOMAIN body = 1 .. n
  BY ReadableFields
<1>1. \A i \in 1 .. n : Stored(body, i) \in Seq(T)
  BY StoredType
<1>2. parts = [i \in 1 .. n |-> Stored(body, i)]
  BY <1>0
<1>3. parts \in Seq(Seq(T)) /\ Len(parts) = n /\ \A i \in 1 .. n : parts[i] = Stored(body, i)
  <2> HIDE DEF T
  <2> QED  BY <1>0, <1>1, <1>2
<1> HIDE DEF parts, n, T
<1>4. PICK F \in [0 .. n -> Seq(T)] :
            /\ F[0] = <<>> /\ FlattenSeq(parts) = F[n]
            /\ \A i \in 1 .. n : F[i] = F[i - 1] \o parts[i]
  BY <1>3, FlattenLoop
<1>5. \A i \in 1 .. n : F[i] = F[i - 1] \o Stored(body, i)
  BY <1>3, <1>4
<1>6. Flattens(body, F)
  BY <1>4, <1>5 DEF Flattens, n, T
<1> QED  BY <1>4, <1>6 DEF parts, n

LEMMA CopiedOne ==
  ASSUME NEW T, NEW x \in Seq(T), NEW body \in Seq(T), NEW c \in 0 .. Len(body), NEW k \in c .. Len(body) - 1
  PROVE  (x \o SubSeq(body, c + 1, k)) \o <<body[k + 1]>> = x \o SubSeq(body, c + 1, k + 1)
<1> DEFINE u == SubSeq(body, c + 1, k)
           w == <<body[k + 1]>>
<1>0. Len(body) \in Nat /\ c \in Nat /\ k \in Nat /\ k + 1 \in 1 .. Len(body) /\ (k + 1) - 1 = k
  OBVIOUS
<1>1. u \in Seq(T) /\ w \in Seq(T)
  BY <1>0
<1>2. SubSeq(body, c + 1, k + 1) = u \o w
  <2>1. c + 1 \in 1 .. Len(body) /\ k + 1 \in c + 1 .. Len(body)
    BY <1>0
  <2>2. SubSeq(body, c + 1, k + 1) = SubSeq(body, c + 1, (k + 1) - 1) \o <<body[k + 1]>>
    BY <2>1, SubSeqRecursiveSecond
  <2> QED  BY <2>2, <1>0
<1> HIDE DEF u, w
<1>3. (x \o u) \o w = x \o (u \o w)
  BY <1>1
<1> QED  BY <1>2, <1>3 DEF u, w

\* Tokens stored as they are are copied, tokens stored as nothing are skipped.
LEMMA FlatCopied ==
  ASSUME NEW body, Readable(body), NEW F, Flattens(body, F),
         NEW c \in 0 .. Len(body), NEW d \in c .. Len(body),
         \A i \in c + 1 .. d : Stored(body, i) = <<body[i]>>
  PROVE  F[d] = F[c] \o SubSeq(body, c + 1, d)
<1> DEFINE n == d - c
           T == StoredTokens
           I == {i \in 0 .. n : F[c + i] = F[c] \o SubSeq(body, c + 1, c + i)}
<1>0. Len(body) \in Nat /\ c \in Nat /\ d \in Nat /\ n \in Nat /\ c + n = d
  BY ReadableFields
<1>1. /\ \A i \in 0 .. n : c + i \in 0 .. Len(body) /\ F[c + i] \in Seq(T)
      /\ body \in Seq(T)
  <2>1. \A i \in 0 .. n : c + i \in 0 .. Len(body)
    BY <1>0
  <2>2. body \in Seq(T)
    <3>1. body \in Seq(Tokens) /\ Tokens \subseteq T
      BY ReadableFields DEF Texts, StoredTokens
    <3> HIDE DEF T
    <3> QED  BY <3>1
  <2> QED  BY <2>1, <2>2 DEF Flattens
<1>2. 0 \in I
  <2>0. F[c] \in Seq(T)
    BY DEF Flattens
  <2>1. c + 0 = c
    BY <1>0
  <2>2. SubSeq(body, c + 1, c) = <<>>
    BY <1>0, SubSeqEmpty
  <2>3. F[c] \o <<>> = F[c]
    <3> HIDE DEF T
    <3> QED  BY <2>0, ConcatEmptySeq
  <2>4. F[c + 0] = F[c] \o SubSeq(body, c + 1, c + 0)
    BY <2>1, <2>2, <2>3
  <2>5. 0 \in 0 .. n
    BY <1>0
  <2> HIDE DEF n
  <2> QED  BY <2>4, <2>5, Zenon
<1>3. ASSUME NEW i \in 0 .. n - 1, i \in I PROVE i + 1 \in I
  <2> DEFINE k == c + i
  <2>1. i + 1 \in 0 .. n /\ i \in 0 .. n /\ k \in Nat /\ k + 1 \in c + 1 .. d /\ k + 1 \in 1 .. Len(body) /\ (k + 1) - 1 = k /\ c + (i + 1) = k + 1
    BY <1>0
  <2>2. F[k + 1] = F[k] \o <<body[k + 1]>>
    BY <2>1 DEF Flattens
  <2>3. F[k] = F[c] \o SubSeq(body, c + 1, k)
    BY <1>3
  <2>4. F[k + 1] = F[c] \o SubSeq(body, c + 1, k + 1)
    <3>1. F[c] \in Seq(T)
      BY DEF Flattens
    <3>2. k \in c .. Len(body) - 1
      BY <2>1, <1>0
    <3> DEFINE x == F[c]
    <3>3. F[k + 1] = (x \o SubSeq(body, c + 1, k)) \o <<body[k + 1]>> /\ x \in Seq(T)
      BY <2>2, <2>3, <3>1
    <3> HIDE DEF T, k, x
    <3>4. F[k + 1] = x \o SubSeq(body, c + 1, k + 1)
      BY <3>2, <3>3, <1>1, CopiedOne
    <3> QED  BY <3>4 DEF x
  <2> QED  BY <2>1, <2>4
<1>4. 0 .. n \subseteq I
  <2> HIDE DEF I, n
  <2> QED  BY <1>0, <1>2, <1>3, UpTo
<1>5. n \in I
  <2> HIDE DEF I
  <2> QED  BY <1>0, <1>4
<1> QED  BY <1>0, <1>5

LEMMA FlatSkipped ==
  ASSUME NEW body, Readable(body), NEW F, Flattens(body, F),
         NEW c \in 0 .. Len(body), NEW d \in c .. Len(body),
         \A i \in c + 1 .. d : Stored(body, i) = <<>>
  PROVE  F[d] = F[c]
<1> DEFINE n == d - c
           T == StoredTokens
           I == {i \in 0 .. n : F[c + i] = F[c]}
<1>0. Len(body) \in Nat /\ c \in Nat /\ d \in Nat /\ n \in Nat /\ c + n = d
  BY ReadableFields
<1>1. 0 \in I
  BY <1>0
<1>2. ASSUME NEW i \in 0 .. n - 1, i \in I PROVE i + 1 \in I
  <2> DEFINE k == c + i
  <2>1. i + 1 \in 0 .. n /\ k \in 0 .. Len(body) /\ k + 1 \in c + 1 .. d /\ k + 1 \in 1 .. Len(body) /\ (k + 1) - 1 = k /\ c + (i + 1) = k + 1
    BY <1>0
  <2>2. F[k + 1] = F[k] \o <<>> /\ F[k] \in Seq(T)
    BY <2>1 DEF Flattens
  <2>3. F[k + 1] = F[k]
    <3> HIDE DEF T
    <3> QED  BY <2>2
  <2> QED  BY <2>1, <2>3, <1>2
<1>3. 0 .. n \subseteq I
  <2> HIDE DEF I, n
  <2> QED  BY <1>0, <1>1, <1>2, UpTo
<1> QED  BY <1>0, <1>3

-----------------------------------------------------------------------------
(* One payload rewritten.                                                     *)

\* What the assumptions on streams say of the event lines of a body.
NamedLines(body) ==
    /\ stream.names \in BOOLEAN
    /\ stream.names =>
          \A a \in 1 .. Len(body) : body[a].k = "open" =>
             \E j \in 1 .. a - 1 :
                /\ body[j] = Token("event", body[a].e)
                /\ \A i \in j + 1 .. a - 1 : body[i].k \notin {"event", "close"}
    /\ ~stream.names => \A i \in 1 .. Len(body) : body[i].k # "event"

LEMMA LastEventIs ==
  ASSUME NEW body, Readable(body), NamedLines(body),
         NEW c \in 0 .. Len(body), NEW s \in 1 .. Len(body), c <= s, c = 0 \/ body[c].k = "close",
         s + 1 \in 1 .. Len(body), body[s + 1].k = "open"
  PROVE  LastEventName(SubSeq(body, c + 1, s)) = IF stream.names THEN LineType(body[s + 1].e) ELSE ""
<1> DEFINE lead == SubSeq(body, c + 1, s)
           I == {i \in 1 .. Len(lead) : lead[i].k = "event"}
           at_ == IF I # {} THEN Max(I) ELSE 0
<1>0. Len(body) \in Nat /\ c \in Nat /\ s \in Nat /\ body \in Texts
  BY ReadableFields
<1>1. Len(lead) = s - c /\ \A i \in 1 .. s - c : lead[i] = body[c + i]
  BY <1>0 DEF Texts
<1>2. LastEventName(lead) = IF at_ = 0 THEN "" ELSE LineType(lead[at_].e)
  BY DEF LastEventName, SelectLastInSeq
<1> HIDE DEF lead
<1>3. I = {i \in 1 .. s - c : body[c + i].k = "event"}
  BY <1>1
<1>4. CASE stream.names
  <2>1. PICK j \in 1 .. (s + 1) - 1 :
           /\ body[j] = Token("event", body[s + 1].e)
           /\ \A i \in j + 1 .. (s + 1) - 1 : body[i].k \notin {"event", "close"}
    BY <1>4 DEF NamedLines
  <2>2. j \in 1 .. s /\ body[j].k = "event" /\ body[j].e = body[s + 1].e
    BY <2>1, <1>0 DEF Token
  <2>3. \A i \in j + 1 .. s : body[i].k # "event" /\ body[i].k # "close"
    BY <2>1, <1>0
  <2>4. c < j
    <3>1. CASE c = 0
      BY <3>1, <2>2, <1>0
    <3>2. CASE body[c].k = "close"
      <4>1. c # j /\ c \notin j + 1 .. s
        BY <3>2, <2>2, <2>3
      <4> QED  BY <4>1, <2>2, <1>0
    <3> QED  BY <3>1, <3>2
  <2> DEFINE m == j - c
  <2>5. m \in 1 .. s - c /\ c + m = j
    BY <2>2, <2>4, <1>0
  <2>6. m \in I
    BY <2>2, <2>5, <1>3
  <2>7. \A k \in I : k <= m
    <3> SUFFICES ASSUME NEW k \in I, m < k PROVE FALSE
      BY <2>5, <1>3, <1>0
    <3>1. k \in 1 .. s - c /\ body[c + k].k = "event"
      BY <1>3
    <3>2. c + k \in j + 1 .. s
      BY <3>1, <2>5, <1>0
    <3> QED  BY <3>1, <3>2, <2>3
  <2> HIDE DEF I, m
  <2>8. Max(I) = m
    <3>1. \E x \in I : \A y \in I : x >= y
      BY <2>6, <2>7, <2>5, <1>3
    <3>2. Max(I) \in I /\ \A y \in I : Max(I) >= y
      BY <3>1 DEF Max
    <3>3. Max(I) \in Nat /\ m \in Nat
      BY <3>2, <2>5, <1>3
    <3> QED  BY <3>2, <3>3, <2>6, <2>7
  <2>9. at_ = m /\ m # 0
    BY <2>5, <2>6, <2>8
  <2>10. lead[m].e = body[s + 1].e
    BY <2>2, <2>5, <1>1
  <2> HIDE DEF at_
  <2> QED  BY <1>2, <1>4, <2>9, <2>10 DEF lead
<1>5. CASE ~stream.names
  <2>1. I = {}
    <3> SUFFICES ASSUME NEW k \in I PROVE FALSE
      OBVIOUS
    <3>1. k \in 1 .. s - c /\ body[c + k].k = "event"
      BY <1>3
    <3>2. c + k \in 1 .. Len(body)
      BY <3>1, <1>0
    <3> QED  BY <3>1, <3>2, <1>5 DEF NamedLines
  <2> HIDE DEF I
  <2> QED  BY <1>2, <1>5, <2>1 DEF lead
<1> QED  BY <1>4, <1>5 DEF NamedLines

\* The payload behind a marker is rewritten to what is to be kept of it.
LEMMA RewrittenIs ==
  ASSUME NEW body, Readable(body), NEW a \in 1 .. Len(body), NEW b \in 1 .. Len(body), Run(body, a, b),
         NEW named, named = IF stream.names THEN LineType(body[a].e) ELSE ""
  PROVE  LET p == SubSeq(body, a, b)
             type == PayloadEventType(p, named)
         IN Masks(p, type) /\ Rewritten(p, type) = Kept(body[a].e)
<1> DEFINE p == SubSeq(body, a, b)
           type == PayloadEventType(p, named)
           e == body[a].e
<1>1. ValidPayload(p) /\ p # <<DoneMark>> /\ p[1].e = e
  BY RunPayload
<1> HIDE DEF p, e
<1>2. type = IF BodyType(e) # "" THEN BodyType(e) ELSE named
  BY <1>1 DEF PayloadEventType
<1>3. Masks(p, type)
  BY <1>1 DEF Masks
<1>4. Rewritten(p, type) = IF type \in {"created", "completed", ""} THEN <<Token("fields", e)>>
                           ELSE <<Token("masked", e)>>
  BY <1>1 DEF Rewritten, KeepsFrame
<1>5. type = IF BodyType(e) # "" THEN BodyType(e) ELSE IF stream.names THEN LineType(e) ELSE ""
  BY <1>2 DEF e
<1> HIDE DEF type
<1>6. Rewritten(p, type) = Kept(e)
  BY <1>4, <1>5 DEF Kept
<1> QED  BY <1>3, <1>6 DEF p, e, type

-----------------------------------------------------------------------------
(* maskSSEBody: the invariant of its loop.                                    *)

\* How far maskSSEBody has come: what it has written is what is to be stored of what
\* it has copied, and no payload that is still to be found begins before where it looks.
Maskings == [out : Seq(StoredTokens), cursor : Nat, scan : Nat]
Masked(body, F) ==
    {m \in Maskings :
        /\ m.cursor <= m.scan /\ m.scan <= Len(body)
        /\ m.cursor = 0 \/ body[m.cursor].k = "close"
        /\ m.out = F[m.cursor]
        /\ \A i \in m.cursor + 1 .. m.scan : Stored(body, i) = <<body[i]>>
        /\ \A a, b \in 1 .. Len(body) : Run(body, a, b) /\ m.scan < b => m.scan < a - 1}

LEMMA UnmaskedType ==
  ASSUME NEW body, Readable(body), NEW F, Flattens(body, F)
  PROVE  Unmasked \in Masked(body, F)
<1>0. Len(body) \in Nat
  BY ReadableFields
<1>1. Unmasked.out = <<>> /\ Unmasked.cursor = 0 /\ Unmasked.scan = 0 /\ Unmasked \in Maskings
  BY DEF Unmasked, Maskings
<1>2. F[0] = <<>>
  BY DEF Flattens
<1>3. ASSUME NEW a \in 1 .. Len(body), NEW b \in 1 .. Len(body), Run(body, a, b) PROVE 0 < a - 1
  <2>1. body[a].k = "open"
    BY <1>3 DEF Run
  <2>2. a > 1
    BY <2>1, ReadableFields
  <2> QED  BY <2>2, <1>0
<1>4. \A i \in 0 + 1 .. 0 : FALSE
  OBVIOUS
<1> QED  BY <1>0, <1>1, <1>2, <1>3, <1>4 DEF Masked

\* Nothing up to the next marker belongs to a payload that is still to be found.
LEMMA UpToMarker ==
  ASSUME NEW body, Readable(body), NEW from \in Nat, NEW upto \in from .. Len(body),
         \A a, b \in 1 .. Len(body) : Run(body, a, b) /\ from < b => from < a - 1,
         \A i \in from + 1 .. upto - 1 : body[i] # Marker
  PROVE  \A i \in from + 1 .. upto : Stored(body, i) = <<body[i]>>
<1>0. Len(body) \in Nat /\ upto \in Nat
  BY ReadableFields
<1> SUFFICES ASSUME NEW i \in from + 1 .. upto PROVE Stored(body, i) = <<body[i]>>
  OBVIOUS
<1>1. i \in 1 .. Len(body)
  BY <1>0
<1>2. ASSUME NEW a \in 1 .. Len(body), NEW b \in 1 .. Len(body), Run(body, a, b), i \in a .. b PROVE FALSE
  <2>1. from < b /\ a <= i
    BY <1>0, <1>2
  <2>2. from < a - 1
    BY <1>2, <2>1
  <2>3. body[a - 1] = Marker
    BY <1>2, ReadableFields DEF Run
  <2>4. a - 1 \in from + 1 .. upto - 1
    BY <1>0, <2>1, <2>2
  <2> QED  BY <2>3, <2>4
<1> QED  BY <1>1, <1>2, StoredAsIs

LEMMA MaskStep ==
  ASSUME NEW body, Readable(body), NamedLines(body), NEW F, Flattens(body, F), NEW m \in Masked(body, F)
  PROVE  /\ MaskNext(m, body) \in Masked(body, F)
         /\ IF NextMarker(body, m.scan) = 0 THEN MaskNext(m, body) = m ELSE m.scan < MaskNext(m, body).scan
<1> DEFINE s == NextMarker(body, m.scan)
           n == Len(body)
           v == FirstJSONValue(SubSeq(body, s + 1, n))
           r == MaskNext(m, body)
<1>0. n \in Nat /\ body \in Texts
  BY ReadableFields
<1>1. /\ m \in Maskings /\ m.cursor \in Nat /\ m.scan \in Nat
      /\ m.cursor <= m.scan /\ m.scan <= n
      /\ m.cursor = 0 \/ body[m.cursor].k = "close"
      /\ m.out = F[m.cursor]
      /\ \A i \in m.cursor + 1 .. m.scan : Stored(body, i) = <<body[i]>>
      /\ \A a, b \in 1 .. n : Run(body, a, b) /\ m.scan < b => m.scan < a - 1
  BY DEF Masked, Maskings
<1>2. /\ s \in Nat
      /\ s # 0 => s \in m.scan + 1 .. n /\ body[s] = Marker /\ \A i \in m.scan + 1 .. s - 1 : body[i] # Marker
  BY <1>0, <1>1, NextMarkerIs
<1>3. r = MaskAt(m, body, s, v)
  BY DEF MaskNext
<1> HIDE DEF s, v, r
<1>4. CASE s = 0
  <2>1. r = m
    BY <1>3, <1>4 DEF MaskAt
  <2> QED  BY <2>1, <1>4 DEF r, s
<1>5. CASE s # 0
  <2>0. s \in 1 .. n /\ m.scan < s /\ body[s] = Marker
    BY <1>0, <1>1, <1>2, <1>5
  <2>1. \A i \in m.cursor + 1 .. s : Stored(body, i) = <<body[i]>>
    <3>1. \A i \in m.scan + 1 .. s : Stored(body, i) = <<body[i]>>
      <4>1. s \in m.scan .. n
        BY <1>0, <1>1, <2>0
      <4> QED  BY <4>1, <1>1, <1>2, <1>5, UpToMarker
    <3>2. \A i \in m.cursor + 1 .. s : i \in m.cursor + 1 .. m.scan \/ i \in m.scan + 1 .. s
      BY <1>0, <1>1, <2>0
    <3> QED  BY <3>1, <3>2, <1>1
  <2>2. ASSUME NEW a \in 1 .. n, NEW b \in 1 .. n, Run(body, a, b), s < b PROVE s <= a - 1
    <3>1. m.scan < a - 1 /\ a - 1 \in Nat
      <4>1. m.scan < b
        BY <1>1, <2>0, <2>2
      <4> QED  BY <4>1, <2>2, <1>1
    <3>2. body[a - 1] = Marker
      BY <2>2, ReadableFields DEF Run
    <3>3. a - 1 \notin m.scan + 1 .. s - 1
      BY <3>2, <1>2, <1>5
    <3> QED  BY <3>1, <3>3, <1>1, <2>0
  <2>3. CASE \E b \in s + 2 .. n : Run(body, s + 1, b) /\ v = [payload |-> SubSeq(body, s + 1, b), end |-> b - s]
    <3>1. PICK b \in s + 2 .. n : Run(body, s + 1, b) /\ v = [payload |-> SubSeq(body, s + 1, b), end |-> b - s]
      BY <2>3
    <3> DEFINE p == SubSeq(body, s + 1, b)
               type == PayloadEventType(p, LastEventName(SubSeq(body, m.cursor + 1, s)))
               e == body[s + 1].e
    <3>2. s + 1 \in 1 .. n /\ b \in 1 .. n /\ s + 1 < b /\ b - s \in Nat /\ s + (b - s) = b /\ body[s + 1].k = "open"
      BY <3>1, <2>0, <1>0 DEF Run
    <3>3. LastEventName(SubSeq(body, m.cursor + 1, s)) = IF stream.names THEN LineType(e) ELSE ""
      <4>1. m.cursor \in 0 .. n /\ m.cursor <= s
        BY <1>0, <1>1, <2>0
      <4> QED  BY <4>1, <2>0, <3>2, <1>1, LastEventIs
    <3>4. Masks(p, type) /\ Rewritten(p, type) = Kept(e)
      BY <3>1, <3>2, <3>3, RewrittenIs
    <3>5. Len(p) = b - s /\ e \in Events
      <4>1. Run(body, s + 1, b) /\ s + 1 \in 1 .. Len(body) /\ b \in 1 .. Len(body)
        BY <3>1, <3>2
      <4>2. Len(SubSeq(body, s + 1, b)) = b - (s + 1) + 1 /\ body[s + 1].e \in Events
        BY ONLY <4>1, Readable(body), RunPayload
      <4>3. b - (s + 1) + 1 = b - s
        BY <3>2, <2>0, <1>0
      <4> QED  BY <4>2, <4>3
    <3>6. v # NoValue /\ v.payload = p /\ v.end = b - s
      <4>1. v.payload = p /\ v.end = b - s
        BY <3>1
      <4>2. NoValue.end = 0
        BY DEF NoValue
      <4>3. b - s # 0
        BY <3>2, <2>0
      <4> QED  BY ONLY <4>1, <4>2, <4>3
    <3> DEFINE copied == m.out \o SubSeq(body, m.cursor + 1, s)
    <3>7. r = [out |-> copied \o Kept(e), cursor |-> b, scan |-> b]
      <4>1. r = MaskPayload(m, body, b, p, type)
        BY <1>3, <1>5, <3>2, <3>6 DEF MaskAt
      <4>2. b - Len(p) = s
        BY <3>2, <3>5, <2>0
      <4> HIDE DEF p, type, e
      <4> QED  BY <4>1, <4>2, <3>4 DEF MaskPayload
    <3>8. F[b] = copied \o Kept(e)
      <4>1. F[s] = copied
        <5>1. m.cursor \in 0 .. n /\ s \in m.cursor .. n
          BY <1>0, <1>1, <2>0
        <5>2. F[s] = F[m.cursor] \o SubSeq(body, m.cursor + 1, s)
          <6> DEFINE c == m.cursor
          <6>1. c \in 0 .. n /\ s \in c .. n /\ \A i \in c + 1 .. s : Stored(body, i) = <<body[i]>>
            BY <5>1, <2>1
          <6> HIDE DEF c
          <6>2. F[s] = F[c] \o SubSeq(body, c + 1, s)
            BY <6>1, FlatCopied
          <6> QED  BY <6>2 DEF c
        <5> QED  BY <5>2, <1>1
      <4>2. F[b - 1] = F[s]
        <5>1. s \in 0 .. n /\ b - 1 \in s .. n
          BY <1>0, <2>0, <3>2
        <5>2. ASSUME NEW i \in s + 1 .. b - 1 PROVE Stored(body, i) = <<>>
          <6>1. i \in s + 1 .. b /\ i # b
            BY <3>2, <2>0
          <6> QED  BY <6>1, <3>1, <3>2, StoredInRun
        <5> QED  BY <5>1, <5>2, FlatSkipped
      <4>3. Stored(body, b) = Kept(e)
        <5>1. b \in s + 1 .. b
          BY <3>2, <2>0
        <5> QED  BY <5>1, <3>1, <3>2, StoredInRun
      <4>4. F[b] = F[b - 1] \o Stored(body, b)
        BY <3>2 DEF Flattens
      <4> QED  BY <4>1, <4>2, <4>3, <4>4
    <3>9. r \in Maskings /\ r.cursor = b /\ r.scan = b /\ r.out = F[b]
      <4>1. F[b] \in Seq(StoredTokens) /\ b \in Nat
        <5>1. b \in 0 .. n /\ b \in Nat
          BY <3>2, <1>0
        <5> QED  BY <5>1 DEF Flattens
      <4>2. r = [out |-> F[b], cursor |-> b, scan |-> b]
        BY <3>7, <3>8
      <4> QED  BY <4>1, <4>2 DEF Maskings
    <3>10. ASSUME NEW c \in 1 .. n, NEW d \in 1 .. n, Run(body, c, d), b < d PROVE b < c - 1
      <4>1. b < c
        <5> SUFFICES ASSUME c <= b PROVE FALSE
          BY <1>0
        <5>0. c \in Nat /\ d \in Nat /\ s + 1 \in Nat /\ b \in Nat /\ s + 1 < b /\ b < d
          BY <3>2, <3>10, <2>0, <1>0
        <5>1. b \in c .. d /\ body[b].k = "close"
          BY <5>0, <3>1 DEF Run
        <5>2. body[b].k = "close" <=> b = d
          <6>1. c \in Nat /\ d \in Nat /\ Run(body, c, d) /\ b \in c .. d
            BY <5>0, <5>1, <3>10
          <6> QED  BY ONLY <6>1, RunKinds
        <5> QED  BY <5>0, <5>1, <5>2
      <4>2. body[c - 1] = Marker
        BY <3>10, ReadableFields DEF Run
      <4>3. body[b].k = "close"
        BY <3>1 DEF Run
      <4>4. c - 1 # b
        BY <4>2, <4>3, Kinds
      <4> QED  BY <4>1, <4>4, <3>2, <1>0
    <3>11. body[b].k = "close"
      BY <3>1 DEF Run
    <3>12. r \in Masked(body, F)
      <4>1. \A i \in b + 1 .. b : FALSE
        BY <3>2, <1>0
      <4>2. b <= b /\ b <= n
        BY <3>2, <1>0
      <4> QED  BY <3>9, <3>10, <3>11, <4>1, <4>2 DEF Masked
    <3>13. m.scan < b
      BY <1>0, <1>1, <2>0, <3>2
    <3> QED  BY <3>9, <3>12, <3>13, <1>5 DEF r, s
  <2>4. ASSUME \A b \in 1 .. n : ~Run(body, s + 1, b),
               NEW t \in s .. n, r = [m EXCEPT !.scan = t], \A i \in s + 1 .. t : body[i] \in {NL, DoneMark}
        PROVE  r \in Masked(body, F) /\ m.scan < r.scan
    <3>0. t \in Nat /\ m.scan < t /\ t <= n /\ m.cursor <= t
      BY <1>0, <1>1, <2>0
    <3>1. r \in Maskings /\ r.out = m.out /\ r.cursor = m.cursor /\ r.scan = t
      BY <1>1, <2>4, <3>0 DEF Maskings
    <3>2. ASSUME NEW i \in m.cursor + 1 .. t PROVE Stored(body, i) = <<body[i]>>
      <4>1. CASE i <= s
        BY <4>1, <2>1, <1>1, <2>0
      <4>2. CASE s < i
        <5>1. i \in 1 .. n /\ body[i].k \in {"nl", "done"}
          BY <4>2, <2>4, <2>0, <3>0, <1>1, Kinds
        <5> QED  BY <5>1 DEF Stored
      <4> QED  BY <4>1, <4>2, <2>0, <1>1
    <3>3. ASSUME NEW a \in 1 .. n, NEW b \in 1 .. n, Run(body, a, b), t < b PROVE t < a - 1
      <4>1. s <= a - 1 /\ a - 1 \in Nat
        BY <2>2, <3>3, <2>0, <3>0
      <4>2. a - 1 # s
        <5> SUFFICES ASSUME a - 1 = s PROVE FALSE
          OBVIOUS
        <5>1. a = s + 1
          BY <2>0
        <5> QED  BY <5>1, <3>3, <2>4
      <4>3. body[a - 1] = Marker
        BY <3>3, ReadableFields DEF Run
      <4>4. a - 1 \notin s + 1 .. t
        BY <4>3, <2>4, Kinds
      <4> QED  BY <4>1, <4>2, <4>4, <2>0, <3>0
    <3> QED  BY <3>0, <3>1, <3>2, <3>3, <1>1 DEF Masked
  <2>5. CASE /\ \A b \in 1 .. n : ~Run(body, s + 1, b)
             /\ \/ v = NoValue
                \/ \E p \in 1 .. n - s :
                      /\ v = [payload |-> <<DoneMark>>, end |-> p]
                      /\ \A i \in s + 1 .. s + p : body[i] \in {NL, DoneMark}
    <3>1. CASE v = NoValue
      <4>1. r = [m EXCEPT !.scan = s]
        BY <1>3, <1>5, <3>1 DEF MaskAt
      <4>2. s \in s .. n /\ \A i \in s + 1 .. s : FALSE
        BY <2>0, <1>0
      <4>3. r \in Masked(body, F) /\ m.scan < r.scan
        BY <4>1, <4>2, <2>4, <2>5
      <4> QED  BY <4>3, <1>5 DEF r, s
    <3>2. ASSUME NEW p \in 1 .. n - s, v = [payload |-> <<DoneMark>>, end |-> p],
                 \A i \in s + 1 .. s + p : body[i] \in {NL, DoneMark}
          PROVE  r \in Masked(body, F) /\ m.scan < r.scan
      <4> DEFINE type == PayloadEventType(<<DoneMark>>, LastEventName(SubSeq(body, m.cursor + 1, s)))
      <4>1. v # NoValue /\ v.payload = <<DoneMark>> /\ v.end = p
        BY <3>2 DEF NoValue
      <4>2. r = MaskPayload(m, body, s + p, <<DoneMark>>, type)
        BY <1>3, <1>5, <4>1 DEF MaskAt
      <4> HIDE DEF type
      <4>3. r = [m EXCEPT !.scan = s + p]
        BY <4>2 DEF MaskPayload, Masks
      <4>4. s + p \in s .. n
        BY <2>0, <1>0
      <4> QED  BY <4>3, <4>4, <3>2, <2>4, <2>5
    <3> QED  BY <3>1, <3>2, <2>5, <1>5 DEF r, s
  <2> QED  BY <2>0, <2>3, <2>5, ValueHere DEF v
<1> QED  BY <1>4, <1>5

-----------------------------------------------------------------------------
(* maskSSEBody: the loop's end.                                               *)

LEMMA MaskLoop ==
  ASSUME NEW body, Readable(body), NamedLines(body), NEW F, Flattens(body, F)
  PROVE  \E f \in [0 .. Len(body) -> Masked(body, F)] :
            /\ f[0] = Unmasked /\ MaskSSEBody(body) = MaskTail(f[Len(body)], body)
            /\ \A i \in 1 .. Len(body) : f[i] = MaskNext(f[i - 1], body)
<1> DEFINE n == Len(body)
           Turn(x, i) == MaskNext(x, body)
           step == [i \in 1 .. n |-> [x \in Masked(body, F) |-> Turn(x, i)]]
           After(f) == f = [i \in 0 .. n |-> IF i = 0 THEN Unmasked ELSE MaskNext(f[i - 1], body)]
           after == CHOOSE f : After(f)
<1>1. n \in Nat /\ Unmasked \in Masked(body, F)
  BY UnmaskedType, ReadableFields
<1>2. ASSUME NEW i \in 1 .. n, NEW x \in Masked(body, F) PROVE Turn(x, i) \in Masked(body, F)
  BY MaskStep
<1>3. \E f : After(f)
  <2>1. step \in [1 .. n -> [Masked(body, F) -> Masked(body, F)]] /\ \A i \in 1 .. n, x \in Masked(body, F) : step[i][x] = Turn(x, i)
    <3> HIDE DEF Turn
    <3> QED  BY <1>2
  <2>2. PICK f \in [0 .. n -> Masked(body, F)] : Iterates(f, n, Unmasked, step)
    <3> HIDE DEF step, n
    <3> QED  BY <2>1, <1>1, LoopExists
  <2>3. f[0] = Unmasked /\ \A i \in 1 .. n : f[i] = Turn(f[i - 1], i)
    <3>1. \A i \in 1 .. n : f[i - 1] \in Masked(body, F)
      BY <1>1
    <3> HIDE DEF step, Turn
    <3> QED  BY <3>1, <2>1, <2>2 DEF Iterates
  <2>4. \A i \in 0 .. n : f[i] = IF i = 0 THEN Unmasked ELSE Turn(f[i - 1], i)
    <3> HIDE DEF Turn
    <3> QED  BY <2>3, <1>1
  <2>5. f = [i \in 0 .. n |-> f[i]]
    OBVIOUS
  <2>6. After(f)
    <3> HIDE DEF n
    <3> QED  BY <2>4, <2>5
  <2> QED  BY <2>6
<1>4. After(after)
  <2> HIDE DEF After
  <2> QED  BY <1>3
<1>5. MaskSSEBody(body) = MaskTail(after[n], body)
  BY DEF MaskSSEBody
<1> HIDE DEF after
<1>6. after = [i \in 0 .. n |-> after[i]] /\ after[0] = Unmasked
        /\ \A i \in 1 .. n : after[i] = Turn(after[i - 1], i)
  <2>1. 0 \in 0 .. n /\ \A i \in 1 .. n : i \in 0 .. n /\ i # 0
    BY <1>1
  <2> HIDE DEF n
  <2> QED  BY <1>4, <2>1
<1>7. \A i \in 0 .. n : after[i] \in Masked(body, F)
  <2>1. \A i \in 1 .. n : after[i - 1] \in Masked(body, F) => after[i] \in Masked(body, F)
    <3> HIDE DEF Turn
    <3> QED  BY <1>2, <1>6
  <2>2. after[0] \in Masked(body, F)
    BY <1>1, <1>6
  <2> HIDE DEF n
  <2> QED  BY <1>1, <2>1, <2>2, LoopTyped
<1>8. after \in [0 .. n -> Masked(body, F)]
  <2> HIDE DEF n
  <2> QED  BY <1>6, <1>7
<1> QED  BY <1>5, <1>6, <1>8


LEMMA MaskSSEIs ==
  ASSUME NEW body, Readable(body), NamedLines(body)
  PROVE  MaskSSEBody(body) = FlattenSeq([i \in DOMAIN body |-> Stored(body, i)])
<1> DEFINE n == Len(body)
<1>0. n \in Nat /\ body \in Texts
  BY ReadableFields
<1>1. PICK F : Flattens(body, F) /\ FlattenSeq([i \in DOMAIN body |-> Stored(body, i)]) = F[n]
  BY FlattensExists
<1>2. PICK f \in [0 .. n -> Masked(body, F)] :
            /\ f[0] = Unmasked /\ MaskSSEBody(body) = MaskTail(f[n], body)
            /\ \A i \in 1 .. n : f[i] = MaskNext(f[i - 1], body)
  BY <1>1, MaskLoop
<1> HIDE DEF n
<1>3. \A i \in 0 .. n : f[i] \in Masked(body, F) /\ f[i].scan \in Nat /\ f[i].cursor \in Nat
  <2>1. \A m \in Masked(body, F) : m.scan \in Nat /\ m.cursor \in Nat
    BY DEF Masked, Maskings
  <2> QED  BY <1>2, <2>1
<1> DEFINE I == {i \in 0 .. n : NextMarker(body, f[i].scan) = 0 \/ i <= f[i].scan}
<1>4. 0 \in I
  <2>1. 0 \in 0 .. n
    BY <1>0
  <2> QED  BY <1>3, <2>1
<1>5. ASSUME NEW i \in 0 .. n - 1, i \in I PROVE i + 1 \in I
  <2>1. i \in 0 .. n /\ i + 1 \in 0 .. n /\ i + 1 \in 1 .. n /\ (i + 1) - 1 = i
    BY <1>0
  <2> DEFINE m == f[i]
  <2>2. f[i + 1] = MaskNext(m, body) /\ m \in Masked(body, F) /\ m.scan \in Nat /\ f[i + 1].scan \in Nat
    BY <1>2, <1>3, <2>1
  <2>3. NextMarker(body, m.scan) = 0 \/ i <= m.scan
    BY <1>5
  <2> HIDE DEF m
  <2>4. IF NextMarker(body, m.scan) = 0 THEN f[i + 1] = m ELSE m.scan < f[i + 1].scan
    BY <1>1, <2>2, MaskStep
  <2>5. NextMarker(body, f[i + 1].scan) = 0 \/ i + 1 <= f[i + 1].scan
    <3>1. CASE NextMarker(body, m.scan) = 0
      BY <3>1, <2>4
    <3>2. CASE NextMarker(body, m.scan) # 0
      BY <3>2, <2>2, <2>3, <2>4, <2>1
    <3> QED  BY <3>1, <3>2
  <2> QED  BY <2>1, <2>5
<1>6. 0 .. n \subseteq I
  <2> HIDE DEF I
  <2> QED  BY <1>0, <1>4, <1>5, UpTo
<1> DEFINE m == f[n]
<1>7. m \in Masked(body, F) /\ (NextMarker(body, m.scan) = 0 \/ n <= m.scan)
  BY <1>0, <1>3, <1>6
<1>8. MaskSSEBody(body) = MaskTail(m, body)
  BY <1>2
<1> HIDE DEF m
<1>9. /\ m.cursor \in Nat /\ m.scan \in Nat /\ m.cursor <= m.scan /\ m.scan <= n /\ m.out = F[m.cursor]
      /\ \A i \in m.cursor + 1 .. m.scan : Stored(body, i) = <<body[i]>>
      /\ \A a, b \in 1 .. n : Run(body, a, b) /\ m.scan < b => m.scan < a - 1
  BY <1>7 DEF Masked, Maskings, n
<1>10. \A i \in m.scan + 1 .. n : body[i] # Marker
  <2>1. CASE NextMarker(body, m.scan) = 0
    BY <2>1, <1>0, <1>9, NextMarkerIs DEF n
  <2>2. CASE n <= m.scan
    BY <2>2, <1>0, <1>9
  <2> QED  BY <2>1, <2>2, <1>7
<1>11. \A i \in m.scan + 1 .. n : Stored(body, i) = <<body[i]>>
  <2> DEFINE from == m.scan
  <2>1. /\ from \in Nat /\ n \in from .. n
        /\ \A a, b \in 1 .. n : Run(body, a, b) /\ from < b => from < a - 1
        /\ \A i \in from + 1 .. n - 1 : body[i] # Marker
    BY <1>0, <1>9, <1>10
  <2> HIDE DEF from
  <2>2. \A i \in from + 1 .. n : Stored(body, i) = <<body[i]>>
    BY <2>1, UpToMarker DEF n
  <2> QED  BY <2>2 DEF from
<1> DEFINE c == m.cursor
<1>12. c \in 0 .. n /\ n \in c .. n /\ \A i \in c + 1 .. n : Stored(body, i) = <<body[i]>>
  <2>1. \A i \in c + 1 .. n : i \in c + 1 .. m.scan \/ i \in m.scan + 1 .. n
    BY <1>0, <1>9
  <2> QED  BY <1>0, <1>9, <1>11, <2>1
<1>13. MaskSSEBody(body) = F[c] \o SubSeq(body, c + 1, n)
  BY <1>8, <1>9 DEF MaskTail, n
<1> HIDE DEF c
<1>14. F[n] = F[c] \o SubSeq(body, c + 1, n)
  BY <1>1, <1>12, FlatCopied DEF n
<1> QED  BY <1>1, <1>13, <1>14 DEF n

\* The first token that is not a line end, if there is one, leads the text without them.
LEMMA FirstUnspaced ==
  ASSUME NEW s \in Texts
  PROVE  \/ Unspaced(s) = <<>> /\ \A i \in 1 .. Len(s) : s[i] = NL
         \/ \E p \in 1 .. Len(s) :
               /\ Unspaced(s) # <<>> /\ Unspaced(s)[1] = s[p] /\ s[p] # NL
               /\ \A i \in 1 .. p - 1 : s[i] = NL
<1> DEFINE n == Len(s)
           Leads(x, i) == \/ x = <<>> /\ \A k \in 1 .. i : s[k] = NL
                          \/ \E p \in 1 .. i : /\ x # <<>> /\ x[1] = s[p] /\ s[p] # NL
                                               /\ \A k \in 1 .. p - 1 : s[k] = NL
<1>0. n \in Nat
  BY DEF Texts
<1>1. PICK f \in [0 .. n -> Texts] :
            /\ f[0] = <<>> /\ Unspaced(s) = f[n]
            /\ \A i \in 1 .. n : f[i] = IF s[i] = NL THEN f[i - 1] ELSE Append(f[i - 1], s[i])
  BY UnspacedLoop
<1> DEFINE I == {i \in 0 .. n : Leads(f[i], i)}
<1>2. 0 \in I
  BY <1>0, <1>1
<1>3. ASSUME NEW i \in 0 .. n - 1, i \in I PROVE i + 1 \in I
  <2> DEFINE j == i + 1
             x == f[i]
  <2>1. i \in Nat /\ i \in 0 .. n /\ j \in 1 .. n /\ j \in 0 .. n /\ j - 1 = i
    BY <1>0
  <2>2. f[j] = (IF s[j] = NL THEN x ELSE Append(x, s[j])) /\ Leads(x, i)
    BY <1>1, <1>3, <2>1
  <2>3. x \in Seq(Tokens) /\ s[j] \in Tokens
    BY <1>1, <2>1 DEF Texts
  <2>4. \A k \in 1 .. j : k = j \/ k \in 1 .. i
    BY <2>1
  <2>5. \A k \in 1 .. i : k \in 1 .. j
    BY <2>1
  <2>6. CASE s[j] = NL
    <3>1. f[j] = x
      BY <2>2, <2>6
    <3> HIDE DEF x
    <3>2. Leads(x, j)
      <4> HIDE DEF j
      <4> QED  BY <2>2, <2>4, <2>5, <2>6
    <3> QED  BY <3>1, <3>2, <2>1
  <2>7. CASE s[j] # NL
    <3>1. f[j] = Append(x, s[j])
      BY <2>2, <2>7
    <3>2. CASE x = <<>> /\ \A k \in 1 .. i : s[k] = NL
      <4>1. f[j] # <<>> /\ f[j][1] = s[j]
        <5> HIDE DEF x, j
        <5> QED  BY <3>1, <3>2
      <4>2. j \in 1 .. j /\ \A k \in 1 .. j - 1 : s[k] = NL
        BY <3>2, <2>1
      <4>3. Leads(f[j], j)
        <5> HIDE DEF j
        <5> QED  BY <4>1, <4>2, <2>7
      <4> QED  BY <4>3, <2>1
    <3>3. ASSUME NEW p \in 1 .. i, x # <<>>, x[1] = s[p], s[p] # NL, \A k \in 1 .. p - 1 : s[k] = NL
          PROVE  Leads(f[j], j)
      <4>1. f[j] # <<>> /\ f[j][1] = x[1]
        <5>1. \A y \in Seq(Tokens), t \in Tokens : y # <<>> => Append(y, t) # <<>> /\ Append(y, t)[1] = y[1]
          OBVIOUS
        <5> HIDE DEF x, j
        <5> QED  BY <3>1, <3>3, <2>3, <5>1
      <4>2. p \in 1 .. j
        BY <2>5
      <4> HIDE DEF x, j
      <4> QED  BY <4>1, <4>2, <3>3
    <3> HIDE DEF x
    <3> QED  BY <3>2, <3>3, <2>1, <2>2
  <2> QED  BY <2>6, <2>7
<1>4. n \in I
  <2>1. 0 .. n \subseteq I
    <3> HIDE DEF I, n
    <3> QED  BY <1>0, <1>2, <1>3, UpTo
  <2> QED  BY <1>0, <2>1
<1>5. Leads(Unspaced(s), n)
  BY <1>1, <1>4
<1> QED  BY <1>5

\* A body whose [DONE] marks are marked does not begin with one.
LEMMA NotDoneFirst ==
  ASSUME NEW s \in Texts, DoneMarked(s), ~Blank(s)
  PROVE  Unspaced(s)[1].k # "done"
<1>1. PICK p \in 1 .. Len(s) : /\ Unspaced(s)[1] = s[p] /\ s[p] # NL
                                /\ \A i \in 1 .. p - 1 : s[i] = NL
  BY FirstUnspaced DEF Blank
<1>2. s[p] \in Tokens /\ Len(s) \in Nat
  BY DEF Texts
<1>3. SUFFICES ASSUME s[p].k = "done" PROVE FALSE
  BY <1>1
<1>4. s[p] = DoneMark
  <2>1. s[p].k \in {"event", "open", "piece", "close"} \/ s[p] \in {NL, Marker, DoneMark}
    BY <1>2 DEF Tokens
  <2>2. s[p].k \notin {"event", "open", "piece", "close"}
    BY <1>3
  <2> QED  BY <1>3, <2>1, <2>2, Kinds
<1>5. p > 1 /\ s[p - 1] = Marker
  BY <1>4 DEF DoneMarked
<1>6. p - 1 \in 1 .. p - 1
  BY <1>2, <1>5
<1>7. s[p - 1] = NL
  BY <1>1, <1>6
<1> QED  BY <1>5, <1>7, Kinds

-----------------------------------------------------------------------------
(* MaskBody, and the buffer it is given.                                      *)

LEMMA MaskBodyIs ==
  ASSUME NEW body, Readable(body), NamedLines(body)
  PROVE  MaskBody(body) = FlattenSeq([i \in DOMAIN body |-> Stored(body, i)])
<1> DEFINE n == Len(body)
<1>0. n \in Nat /\ body \in Texts
  BY ReadableFields
<1>1. CASE Blank(body)
  <2>1. PICK F : Flattens(body, F) /\ FlattenSeq([i \in DOMAIN body |-> Stored(body, i)]) = F[n]
    BY FlattensExists
  <2>2. \A i \in 1 .. n : body[i] = NL
    BY <1>0, <1>1, FirstUnspaced DEF Blank
  <2>3. \A i \in 0 + 1 .. n : Stored(body, i) = <<body[i]>>
    <3> SUFFICES ASSUME NEW i \in 1 .. n PROVE Stored(body, i) = <<body[i]>>
      OBVIOUS
    <3>1. body[i].k \notin {"open", "piece", "close"}
      BY <2>2, Kinds
    <3> QED  BY <3>1 DEF Stored
  <2>4. F[n] = F[0] \o SubSeq(body, 0 + 1, n)
    <3>1. 0 \in 0 .. n /\ n \in 0 .. n
      BY <1>0
    <3> QED  BY <2>1, <2>3, <3>1, FlatCopied
  <2>5. F[0] = <<>> /\ SubSeq(body, 0 + 1, n) = body
    <3>1. SubSeq(body, 1, n) = body
      BY <1>0, SubSeqFull DEF Texts
    <3> QED  BY <2>1, <3>1 DEF Flattens
  <2>6. <<>> \o body = body
    BY <1>0, ConcatEmptySeq DEF Texts
  <2> QED  BY <1>1, <2>1, <2>4, <2>5, <2>6 DEF MaskBody
<1>2. CASE ~Blank(body)
  <2>1. PICK p \in 1 .. n : /\ Unspaced(body)[1] = body[p] /\ body[p] # NL
                            /\ \A i \in 1 .. p - 1 : body[i] = NL
    BY <1>0, <1>2, FirstUnspaced DEF Blank
  <2>2. body[p].k # "open"
    <3> SUFFICES ASSUME body[p].k = "open" PROVE FALSE
      OBVIOUS
    <3>1. p > 1 /\ body[p - 1] = Marker
      BY ReadableFields
    <3>2. p - 1 \in 1 .. p - 1
      BY <3>1, <1>0
    <3> QED  BY <3>1, <3>2, <2>1, Kinds
  <2>3. MaskBody(body) = MaskSSEBody(body)
    <3>1. DoneMarked(body)
      BY DEF Readable
    <3>2. Unspaced(body)[1].k # "done"
      BY <1>0, <1>2, <3>1, NotDoneFirst
    <3>3. ~Bracketed(body)
      BY <2>1, <2>2, <3>2 DEF Bracketed
    <3> QED  BY <1>2, <3>3 DEF MaskBody
  <2> QED  BY <2>3, MaskSSEIs
<1> QED  BY <1>1, <1>2

\* The body is the stream's beginning.
Prefix(body, text) == Len(body) <= Len(text) /\ \A i \in 1 .. Len(body) : body[i] = text[i]

LEMMA PrefixReadable ==
  ASSUME exchange \in Exchanges, NEW body \in Texts, Prefix(body, stream.text), OneLined(body)
  PROVE  Readable(body) /\ NamedLines(body)
<1> DEFINE text == stream.text
           n == Len(body)
           opens == {i \in DOMAIN text : text[i].k = "open"}
           marked == {a \in opens : a > 1 /\ text[a - 1] = Marker}
<1>0. n \in Nat /\ Len(text) \in Nat /\ n <= Len(text) /\ DOMAIN text = 1 .. Len(text) /\ text \in Texts
      /\ DOMAIN body = 1 .. n
  BY ExchangeType DEF Texts, Prefix
<1>1. \A i \in 1 .. n : i \in DOMAIN text /\ body[i] = text[i]
  BY <1>0 DEF Prefix
<1>2. /\ stream.names \in BOOLEAN
      /\ \A a, b \in opens : a < b => \E c \in a .. b : text[c].k = "close"
      /\ \A a, b \in DOMAIN text : Run(text, a, b) => SubSeq(text, a, b) = Payload(text[a].e)
      /\ stream.names =>
            \A a \in marked : \E j \in 1 .. a - 1 :
               /\ text[j] = Token("event", text[a].e)
               /\ \A i \in j + 1 .. a - 1 : text[i].k \notin {"event", "close"}
      /\ ~stream.names => \A i \in DOMAIN text : text[i].k # "event"
  BY StreamsAssumption, ExchangesAssumption DEF stream
<1>9. \A i \in DOMAIN text : text[i] = DoneMark => i > 1 /\ text[i - 1] = Marker
  BY StreamsAssumption DEF stream
<1> HIDE DEF text, n
<1>3. ASSUME NEW a \in 1 .. n, NEW b \in 1 .. n, a < b, body[a].k = "open", body[b].k = "open"
      PROVE  \E c \in a .. b : body[c].k = "close"
  <2>1. a \in opens /\ b \in opens
    BY <1>1, <1>3
  <2>2. PICK c \in a .. b : text[c].k = "close"
    BY <1>2, <1>3, <2>1
  <2>3. c \in 1 .. n
    BY <1>0
  <2> QED  BY <1>1, <2>2, <2>3
<1>4. ASSUME NEW a \in 1 .. n, NEW b \in 1 .. n, Run(body, a, b)
      PROVE  SubSeq(body, a, b) = Payload(body[a].e)
  <2>1. a < b /\ body[a].k = "open" /\ body[b].k = "close" /\ \A i \in a + 1 .. b - 1 : body[i].k = "piece"
    BY <1>4 DEF Run
  <2>2. \A i \in a .. b : i \in 1 .. n
    BY <1>0
  <2>3. \A i \in a + 1 .. b - 1 : i \in a .. b
    BY <1>0
  <2>4. Run(text, a, b)
    BY <2>1, <2>2, <2>3, <1>1 DEF Run
  <2>5. SubSeq(text, a, b) = Payload(text[a].e) /\ text[a] = body[a]
    BY <2>4, <1>1, <1>2
  <2>6. SubSeq(text, a, b) = SubSeq(body, a, b)
    <3> DEFINE x == SubSeq(text, a, b)
               y == SubSeq(body, a, b)
               k == b - a + 1
    <3>1. x \in Seq(Tokens) /\ y \in Seq(Tokens) /\ Len(x) = k /\ Len(y) = k
      BY <1>0, <2>1 DEF Texts, n
    <3>2. \A i \in 1 .. k : x[i] = text[a + i - 1] /\ y[i] = body[a + i - 1]
      BY <1>0, <2>1 DEF Texts, n
    <3>3. \A i \in 1 .. k : a + i - 1 \in a .. b
      BY <1>0
    <3>4. \A i \in 1 .. Len(x) : x[i] = y[i]
      BY <1>1, <2>2, <3>1, <3>2, <3>3
    <3> HIDE DEF x, y
    <3>5. x = y
      BY <3>1, <3>4, SeqEqual
    <3> QED  BY <3>5 DEF x, y
  <2> QED  BY <2>5, <2>6
<1>10. \A i \in 1 .. n : body[i] = DoneMark => i > 1 /\ body[i - 1] = Marker
  <2> SUFFICES ASSUME NEW i \in 1 .. n, body[i] = DoneMark PROVE i > 1 /\ body[i - 1] = Marker
    OBVIOUS
  <2>1. i > 1 /\ text[i - 1] = Marker
    BY <1>1, <1>9
  <2>2. i - 1 \in 1 .. n
    BY <1>0, <2>1
  <2> QED  BY <1>1, <2>1, <2>2
<1>5. Readable(body)
  BY <1>3, <1>4, <1>10 DEF Readable, DoneMarked, n
<1>6. ASSUME stream.names, NEW a \in 1 .. n, body[a].k = "open"
      PROVE  \E j \in 1 .. a - 1 :
                /\ body[j] = Token("event", body[a].e)
                /\ \A i \in j + 1 .. a - 1 : body[i].k \notin {"event", "close"}
  <2>1. a > 1 /\ body[a - 1] = Marker
    BY <1>5, <1>6, ReadableFields DEF n
  <2>2. \A i \in 1 .. a : i \in 1 .. n
    BY <1>0
  <2>3. a - 1 \in 1 .. a
    BY <2>1, <1>0
  <2>4. a \in marked
    <3>1. text[a].k = "open" /\ text[a - 1] = Marker
      BY <1>1, <1>6, <2>1, <2>2, <2>3
    <3> QED  BY <3>1, <2>1, <1>1
  <2>5. PICK j \in 1 .. a - 1 :
               /\ text[j] = Token("event", text[a].e)
               /\ \A i \in j + 1 .. a - 1 : text[i].k \notin {"event", "close"}
    BY <1>2, <1>6, <2>4
  <2>6. j \in 1 .. a /\ \A i \in j + 1 .. a - 1 : i \in 1 .. a
    BY <1>0
  <2>7. body[j] = Token("event", body[a].e) /\ \A i \in j + 1 .. a - 1 : body[i].k \notin {"event", "close"}
    BY <1>1, <2>2, <2>5, <2>6
  <2> QED  BY <2>7
<1>7. ~stream.names => \A i \in 1 .. n : body[i].k # "event"
  BY <1>1, <1>2
<1>8. NamedLines(body)
  BY <1>2, <1>6, <1>7 DEF NamedLines, n
<1> QED  BY <1>5, <1>8

\* The buffer is what has arrived, as far as it goes.
Holds(body, text, p) ==
    /\ Len(body) = IF p <= MaxBuffer THEN p ELSE MaxBuffer
    /\ \A i \in 1 .. Len(body) : body[i] = text[i]

LEMMA AppendedHolds ==
  ASSUME NEW text \in Texts, NEW body \in Texts, NEW p \in 0 .. Len(text), Holds(body, text, p),
         NEW end \in p .. Len(text)
  PROVE  Holds(Appended(body, SubSeq(text, p + 1, end)), text, end)
<1> DEFINE chunk == SubSeq(text, p + 1, end)
           all == body \o chunk
           kept == Appended(body, chunk)
<1>0. Len(text) \in Nat /\ p \in Nat /\ end \in Nat /\ p <= end /\ end <= Len(text) /\ Len(body) \in Nat /\ MaxBuffer \in Nat
  BY BufferAssumption DEF Texts
<1>1. chunk \in Texts /\ Len(chunk) = end - p /\ \A i \in 1 .. end - p : chunk[i] = text[p + i]
  BY <1>0 DEF Texts
<1>2. Len(body) = (IF p <= MaxBuffer THEN p ELSE MaxBuffer) /\ \A i \in 1 .. Len(body) : body[i] = text[i]
  BY DEF Holds
<1> HIDE DEF chunk
<1>3. /\ all \in Texts /\ Len(all) = Len(body) + (end - p)
      /\ \A i \in 1 .. Len(all) : all[i] = IF i <= Len(body) THEN body[i] ELSE chunk[i - Len(body)]
  <2>1. all \in Seq(Tokens) /\ Len(all) = Len(body) + Len(chunk)
        /\ \A i \in 1 .. Len(body) + Len(chunk) : all[i] = IF i <= Len(body) THEN body[i] ELSE chunk[i - Len(body)]
    BY <1>1, ConcatProperties DEF Texts
  <2> QED  BY <2>1, <1>1 DEF Texts
<1>4. kept = IF Len(all) <= MaxBuffer THEN all ELSE SubSeq(all, 1, MaxBuffer)
  BY <1>1, AppendedType
<1> HIDE DEF all, kept
<1>5. CASE p <= MaxBuffer
  <2>1. Len(body) = p /\ Len(all) = end
    BY <1>0, <1>2, <1>3, <1>5
  <2>2. \A i \in 1 .. end : all[i] = text[i]
    <3> SUFFICES ASSUME NEW i \in 1 .. end PROVE all[i] = text[i]
      OBVIOUS
    <3>1. CASE i <= p
      BY <3>1, <1>0, <1>2, <1>3, <2>1
    <3>2. CASE ~(i <= p)
      <4>1. i - p \in 1 .. end - p /\ p + (i - p) = i
        BY <3>2, <1>0
      <4>2. all[i] = chunk[i - p] /\ chunk[i - p] = text[p + (i - p)]
        BY <3>2, <4>1, <1>1, <1>3, <2>1
      <4> QED  BY <4>1, <4>2
    <3> QED  BY <3>1, <3>2
  <2>3. CASE end <= MaxBuffer
    BY <2>1, <2>2, <2>3, <1>4 DEF Holds, kept, chunk
  <2>4. CASE ~(end <= MaxBuffer)
    <3>1. kept = SubSeq(all, 1, MaxBuffer)
      BY <1>4, <2>1, <2>4
    <3>2. Len(kept) = MaxBuffer /\ \A i \in 1 .. MaxBuffer : kept[i] = all[i]
      BY <3>1, <1>0, <1>3, <2>1, <2>4 DEF Texts
    <3>3. \A i \in 1 .. MaxBuffer : i \in 1 .. end
      BY <1>0, <2>4
    <3>4. \A i \in 1 .. MaxBuffer : kept[i] = text[i]
      BY <2>2, <3>2, <3>3
    <3> QED  BY <3>2, <3>4, <2>4 DEF Holds, kept, chunk
  <2> QED  BY <2>3, <2>4
<1>6. CASE ~(p <= MaxBuffer)
  <2>1. Len(body) = MaxBuffer /\ Len(all) = MaxBuffer + (end - p) /\ ~(end <= MaxBuffer)
    BY <1>0, <1>2, <1>3, <1>6
  <2>2. Len(kept) = MaxBuffer /\ \A i \in 1 .. MaxBuffer : kept[i] = all[i]
    <3>1. CASE Len(all) <= MaxBuffer
      <4>1. Len(all) = MaxBuffer /\ kept = all
        BY <3>1, <2>1, <1>0, <1>4
      <4> QED  BY <4>1
    <3>2. CASE ~(Len(all) <= MaxBuffer)
      <4>1. kept = SubSeq(all, 1, MaxBuffer)
        BY <3>2, <1>4
      <4> QED  BY <4>1, <3>2, <1>0, <1>3, <2>1 DEF Texts
    <3> QED  BY <3>1, <3>2
  <2>3. \A i \in 1 .. MaxBuffer : all[i] = body[i] /\ body[i] = text[i]
    BY <2>1, <1>0, <1>2, <1>3
  <2>4. \A i \in 1 .. MaxBuffer : kept[i] = text[i]
    BY <2>2, <2>3
  <2> QED  BY <2>1, <2>2, <2>4 DEF Holds, kept, chunk
<1> QED  BY <1>5, <1>6

-----------------------------------------------------------------------------
(* The stored body.                                                           *)

\* The buffer holds what has arrived, and the row what was made of it.
BufferIs ==
    /\ Holds(buffer, stream.text, pos)
    /\ at \in {"new", "out"} => pos = 0
    /\ at = "done" => row.body = MaskBody(buffer)

LEMMA StepBuffer == Typed /\ BufferIs /\ [Next]_vars => BufferIs'
<1> SUFFICES ASSUME Typed, BufferIs, [Next]_vars PROVE BufferIs'
  OBVIOUS
<1>0. /\ stream.text \in Texts /\ Len(stream.text) \in Nat /\ pos \in 0 .. Len(stream.text) /\ buffer \in Texts
      /\ Holds(buffer, stream.text, pos)
  BY ExchangeType DEF Typed, BufferIs
<1>1. CASE Intercept
  BY <1>1 DEF Intercept, BufferIs, stream
<1>2. CASE Headers
  BY <1>2 DEF Headers, BufferIs, stream
<1>3. CASE WholeBody
  <2> DEFINE text == stream.text
  <2>1. pos = 0 /\ at' = "whole" /\ stream' = stream /\ pos' = Len(text) /\ buffer' = Appended(buffer, text)
    BY <1>3 DEF WholeBody, BufferIs, stream
  <2>2. SubSeq(text, 0 + 1, Len(text)) = text
    <3>1. SubSeq(text, 1, Len(text)) = text
      BY <1>0, SubSeqFull DEF Texts
    <3> QED  BY <3>1
  <2>3. Len(text) \in 0 .. Len(text) /\ 0 \in 0 .. Len(text)
    BY <1>0
  <2> HIDE DEF text
  <2>4. text \in Texts /\ Holds(buffer, text, 0)
    BY <1>0, <2>1 DEF text
  <2>5. Holds(Appended(buffer, SubSeq(text, 0 + 1, Len(text))), text, Len(text))
    BY <1>0, <2>3, <2>4, AppendedHolds
  <2>6. Holds(buffer', stream'.text, pos')
    BY <2>1, <2>2, <2>5 DEF text
  <2> QED  BY <2>1, <2>6 DEF BufferIs
<1>4. CASE Finalize
  BY <1>4 DEF Finalize, BufferIs, stream
<1>5. ASSUME NEW end \in 1 .. Len(stream.text), Chunk(end) PROVE BufferIs'
  <2> DEFINE text == stream.text
  <2>1. at = "reading" /\ at' = at /\ stream' = stream /\ pos' = end /\ end \in stream.next[pos]
        /\ buffer' = Appended(buffer, SubSeq(text, pos + 1, end))
    BY <1>5 DEF Chunk, stream
  <2>2. pos < end
    BY <1>0, <2>1, ExchangesAssumption DEF Typed, stream
  <2>3. end \in pos .. Len(text)
    BY <1>0, <2>2
  <2>4. Holds(buffer', text, end)
    BY <1>0, <2>1, <2>3, AppendedHolds
  <2> QED  BY <2>1, <2>4 DEF BufferIs
<1>6. CASE UNCHANGED vars
  BY <1>6 DEF vars, BufferIs, stream
<1> QED  BY <1>1, <1>2, <1>3, <1>4, <1>5, <1>6 DEF Next

LEMMA BufferStored ==
  ASSUME Typed, BufferIs
  PROVE  StoredAsPromised
<1> SUFFICES ASSUME at = "done", OneLined(buffer)
             PROVE  row.body = FlattenSeq([i \in DOMAIN buffer |-> Stored(buffer, i)])
  BY DEF StoredAsPromised
<1>1. row.body = MaskBody(buffer)
  BY DEF BufferIs
<1>2. Prefix(buffer, stream.text)
  <2>1. Len(stream.text) \in Nat /\ pos \in 0 .. Len(stream.text) /\ MaxBuffer \in Nat
    BY ExchangeType, BufferAssumption DEF Typed
  <2>2. Holds(buffer, stream.text, pos)
    BY DEF BufferIs
  <2>3. Len(buffer) <= Len(stream.text)
    BY <2>1, <2>2 DEF Holds
  <2> QED  BY <2>2, <2>3 DEF Prefix, Holds
<1>3. Readable(buffer) /\ NamedLines(buffer)
  BY <1>2, PrefixReadable DEF Typed
<1>4. MaskBody(buffer) = FlattenSeq([i \in DOMAIN buffer |-> Stored(buffer, i)])
  BY <1>3, MaskBodyIs
<1> QED  BY <1>1, <1>4

\* The stored body keeps the framing and of each payload only what its event's type
\* allows, for every stream, every cut and every size of the buffer (maskSSEBody).
THEOREM StoredCorrect == Spec => []StoredAsPromised
<1>1. Init => Typed /\ BufferIs
  <2> SUFFICES ASSUME Init PROVE Typed /\ BufferIs
    OBVIOUS
  <2>1. buffer = <<>> /\ pos = 0 /\ at = "new"
    BY DEF Init
  <2>2. Holds(buffer, stream.text, pos)
    BY <2>1, BufferAssumption DEF Holds
  <2> QED  BY <2>1, <2>2, InitTyped DEF BufferIs
<1>2. Typed /\ BufferIs /\ [Next]_vars => (Typed /\ BufferIs)'
  BY StepTyped, StepBuffer
<1>3. Typed /\ BufferIs => StoredAsPromised
  BY BufferStored
<1> QED  BY <1>1, <1>2, <1>3, PTL DEF Spec

-----------------------------------------------------------------------------
(* Reading between two places of a text: one payload.                         *)

\* What stands between two places of a text.
Within(text, a, b) == {text[i] : i \in a + 1 .. b}

\* A family of observers, one set for each place of a text: whatever is read at a later
\* place belongs to a later set, and so does what reading an event makes of an observer
\* that has come to its end.  Residuals do not matter to it.
Chain(text, O) ==
    /\ text \in Texts
    /\ \A p \in 0 .. Len(text) : O[p] \subseteq Observers
    /\ \A p, q \in 0 .. Len(text) : p <= q => O[p] \subseteq O[q]
    /\ \A p \in 1 .. Len(text) : text[p].k = "close" =>
          \A o \in O[p - 1] : \A type : ObserveDeclared(o, Declares(text[p].e), type) \in O[p]
    /\ \A p \in 0 .. Len(text) : \A o \in O[p] : \A r \in Texts : [o EXCEPT !.residual = r] \in O[p]

LEMMA WithinTokens ==
  ASSUME NEW text \in Texts, NEW a \in 0 .. Len(text), NEW b \in 0 .. Len(text)
  PROVE  Within(text, a, b) \subseteq Tokens
<1>1. \A i \in a + 1 .. b : i \in 1 .. Len(text)
  BY DEF Texts
<1> QED  BY <1>1 DEF Within, Texts

LEMMA WithinGrows ==
  ASSUME NEW text \in Texts, NEW a \in Nat, NEW b \in Nat, NEW c \in Nat, NEW d \in Nat, c <= a, b <= d
  PROVE  Within(text, a, b) \subseteq Within(text, c, d)
<1>1. \A i \in a + 1 .. b : i \in c + 1 .. d
  OBVIOUS
<1> QED  BY <1>1 DEF Within

LEMMA UnspacedWithin ==
  ASSUME NEW T, T \subseteq Tokens, NEW s \in Seq(T)
  PROVE  s \in Texts /\ Unspaced(s) \in Seq(T)
<1>1. s \in Texts
  BY DEF Texts
<1> DEFINE n == Len(s)
           S == Seq(T)
<1>2. n \in Nat /\ <<>> \in S /\ \A i \in 1 .. n : s[i] \in T
  OBVIOUS
<1>3. PICK f \in [0 .. n -> Texts] :
            /\ f[0] = <<>> /\ Unspaced(s) = f[n]
            /\ \A i \in 1 .. n : f[i] = IF s[i] = NL THEN f[i - 1] ELSE Append(f[i - 1], s[i])
  BY <1>1, UnspacedLoop
<1>4. \A i \in 1 .. n : f[i - 1] \in S => f[i] \in S
  <2>1. \A x \in S, t \in T : Append(x, t) \in S
    OBVIOUS
  <2> HIDE DEF S, n
  <2> QED  BY <2>1, <1>2, <1>3
<1> HIDE DEF S, n
<1>5. \A i \in 0 .. n : f[i] \in S
  BY <1>2, <1>3, <1>4, LoopTyped
<1>6. n \in 0 .. n
  BY <1>2
<1> QED  BY <1>1, <1>3, <1>5, <1>6 DEF S

LEMMA PayloadEnds ==
  ASSUME NEW e \in Events
  PROVE  /\ Len(Payload(e)) = Pieces(e) + 2 /\ Pieces(e) \in Nat
         /\ Payload(e)[Pieces(e) + 2] = Token("close", e)
<1>1. Pieces(e) \in Nat
  BY EventsAssumption
<1> DEFINE q == [i \in 1 .. Pieces(e) |-> Token("piece", e)]
           x == <<Token("open", e)>>
           y == <<Token("close", e)>>
           U == {Token("open", e), Token("piece", e), Token("close", e)}
<1>2. q \in Seq(U) /\ Len(q) = Pieces(e)
  BY <1>1
<1>3. x \in Seq(U) /\ Len(x) = 1 /\ y \in Seq(U) /\ Len(y) = 1 /\ y[1] = Token("close", e)
  OBVIOUS
<1>4. Payload(e) = (x \o q) \o y
  BY DEF Payload
<1> HIDE DEF x, q, y, U
<1>5. x \o q \in Seq(U) /\ Len(x \o q) = Len(x) + Len(q)
  BY <1>2, <1>3, ConcatProperties
<1> DEFINE z == x \o q
<1>6. /\ Len(z \o y) = Len(z) + Len(y)
      /\ \A i \in 1 .. Len(z) + Len(y) : (z \o y)[i] = IF i <= Len(z) THEN z[i] ELSE y[i - Len(z)]
  BY <1>3, <1>5, ConcatProperties
<1> HIDE DEF z
<1>7. Len(z) = Pieces(e) + 1 /\ Payload(e) = z \o y
  BY <1>1, <1>2, <1>3, <1>4, <1>5 DEF z
<1>8. Len(Payload(e)) = Pieces(e) + 2 /\ Payload(e)[Pieces(e) + 2] = y[1]
  BY <1>1, <1>3, <1>6, <1>7
<1> QED  BY <1>1, <1>3, <1>8

\* A payload that parses ends with the closing token of its event.
LEMMA ClosedBy ==
  ASSUME NEW T, T \subseteq Tokens, NEW s \in Seq(T), ValidPayload(s)
  PROVE  Unspaced(s)[1].e \in Events /\ Token("close", Unspaced(s)[1].e) \in T
<1> DEFINE u == Unspaced(s)
<1>1. u \in Seq(T) /\ u # <<>> /\ u[1].k = "open" /\ u = Payload(u[1].e)
  BY UnspacedWithin DEF ValidPayload, Blank
<1> HIDE DEF u
<1>2. u[1] \in T
  BY <1>1
<1>3. u[1].e \in Events
  <2>1. NL.k = "nl" /\ Marker.k = "data" /\ DoneMark.k = "done"
    BY DEF NL, Marker, DoneMark, Token
  <2>2. u[1] \in [k : {"event", "open", "piece", "close"}, e : Events]
    BY <1>1, <1>2, <2>1 DEF Tokens
  <2> QED  BY <2>2
<1> DEFINE e == u[1].e
<1>4. Len(u) = Pieces(e) + 2 /\ Pieces(e) \in Nat /\ u[Pieces(e) + 2] = Token("close", e)
  BY <1>1, <1>3, PayloadEnds
<1> HIDE DEF e
<1>5. u[Pieces(e) + 2] \in T
  BY <1>1, <1>4
<1> QED  BY <1>3, <1>4, <1>5 DEF e, u

\* Reading a payload of what stands between two places goes from one to the other.
LEMMA PayloadRead ==
  ASSUME NEW text, NEW O, Chain(text, O), NEW a \in 0 .. Len(text), NEW b \in 0 .. Len(text), a <= b,
         NEW o \in O[a], NEW x \in Seq(Within(text, a, b)), ValidPayload(x), NEW type
  PROVE  ObservePayload(o, x, type) \in O[b]
<1> DEFINE e == Unspaced(x)[1].e
           T == Within(text, a, b)
<1>0. Len(text) \in Nat /\ text \in Texts
  BY DEF Chain, Texts
<1>1. Token("close", e) \in T
  <2>1. T \subseteq Tokens
    BY <1>0, WithinTokens
  <2> HIDE DEF T
  <2> QED  BY <2>1, ClosedBy DEF T
<1>2. PICK i \in a + 1 .. b : text[i] = Token("close", e)
  BY <1>1 DEF Within
<1>3. text[i].k = "close" /\ text[i].e = e
  BY <1>2 DEF Token
<1>4. i \in 1 .. Len(text) /\ i - 1 \in 0 .. Len(text) /\ i \in 0 .. Len(text) /\ a <= i - 1 /\ i <= b
  BY <1>0
<1> HIDE DEF e
<1>5. o \in O[i - 1]
  BY <1>4 DEF Chain
<1>6. ObserveDeclared(o, Declares(e), type) \in O[i]
  BY <1>3, <1>4, <1>5 DEF Chain
<1>7. ObserveDeclared(o, Declares(e), type) \in O[b]
  BY <1>4, <1>6 DEF Chain
<1> QED  BY <1>7 DEF ObservePayload, e

LEMMA IfValidRead ==
  ASSUME NEW text, NEW O, Chain(text, O), NEW a \in 0 .. Len(text), NEW b \in 0 .. Len(text), a <= b,
         NEW o \in O[a], NEW x \in Seq(Within(text, a, b)), NEW type
  PROVE  ObserveIfValid(o, x, type) \in O[b]
<1>1. CASE ValidPayload(x)
  BY <1>1, PayloadRead DEF ObserveIfValid
<1>2. CASE ~ValidPayload(x)
  BY <1>2 DEF ObserveIfValid, Chain
<1> QED  BY <1>1, <1>2

-----------------------------------------------------------------------------
(* Lines, one after another in a piece of text.                               *)

\* Texts that stand one after another between two places.
Spread(text, a, b, s) ==
    /\ s \in Seq(Texts)
    /\ \E c \in [0 .. Len(s) -> a .. b] :
          /\ c[0] = a
          /\ \A i \in 1 .. Len(s) : c[i - 1] <= c[i] /\ s[i] \in Seq(Within(text, c[i - 1], c[i]))

LEMMA SpreadEmpty ==
  ASSUME NEW text, NEW a \in Nat, NEW b \in Nat, a <= b
  PROVE  Spread(text, a, b, <<>>)
<1> DEFINE c == [i \in 0 .. 0 |-> a]
<1>1. c \in [0 .. Len(<<>>) -> a .. b] /\ c[0] = a
  OBVIOUS
<1>2. <<>> \in Seq(Texts) /\ 1 .. Len(<<>>) = {}
  OBVIOUS
<1> HIDE DEF c
<1> QED  BY <1>1, <1>2 DEF Spread

LEMMA SpreadAppend ==
  ASSUME NEW text, NEW a \in Nat, NEW b \in Nat, NEW d \in Nat, b <= d, NEW s, Spread(text, a, b, s),
         NEW y \in Texts, y \in Seq(Within(text, b, d))
  PROVE  Spread(text, a, d, Append(s, y))
<1> DEFINE n == Len(s)
           z == Append(s, y)
<1>1. s \in Seq(Texts) /\ n \in Nat
  BY DEF Spread
<1>2. PICK c \in [0 .. n -> a .. b] :
          c[0] = a /\ \A i \in 1 .. n : c[i - 1] <= c[i] /\ s[i] \in Seq(Within(text, c[i - 1], c[i]))
  BY DEF Spread
<1> DEFINE k == [i \in 0 .. n + 1 |-> IF i <= n THEN c[i] ELSE d]
<1>3. z \in Seq(Texts) /\ Len(z) = n + 1 /\ z[n + 1] = y /\ \A i \in 1 .. n : z[i] = s[i]
  BY <1>1, AppendProperties
<1> HIDE DEF n, z
<1>4. k \in [0 .. n + 1 -> a .. d] /\ k[0] = a
  BY <1>1, <1>2
<1>5. \A i \in 1 .. n : k[i - 1] = c[i - 1] /\ k[i] = c[i]
  BY <1>1
<1>6. k[n] = c[n] /\ k[n + 1] = d /\ c[n] \in Nat /\ c[n] <= b
  BY <1>1, <1>2
<1> HIDE DEF k
<1>7. y \in Seq(Within(text, c[n], d))
  <2> DEFINE m == c[n]
  <2>0. m \in Nat /\ b \in Nat /\ d \in Nat /\ m <= b /\ d <= d
    BY <1>6
  <2> HIDE DEF m
  <2>1. Within(text, b, d) \subseteq Within(text, m, d)
    <3>1. \A i \in b + 1 .. d : i \in m + 1 .. d
      BY <2>0
    <3> QED  BY <3>1 DEF Within
  <2>2. y \in Seq(Within(text, m, d))
    BY <2>1, SeqMonotonic
  <2> QED  BY <2>2 DEF m
<1>8. ASSUME NEW i \in 1 .. n + 1 PROVE k[i - 1] <= k[i] /\ z[i] \in Seq(Within(text, k[i - 1], k[i]))
  <2>1. CASE i = n + 1
    <3>1. i - 1 = n
      BY <1>1, <2>1
    <3>2. z[i] = y /\ k[i - 1] = c[n] /\ k[i] = d /\ c[n] <= d
      BY <1>3, <1>6, <2>1, <3>1
    <3> QED  BY <1>7, <3>2
  <2>2. CASE i # n + 1
    <3>1. i \in 1 .. n
      BY <1>1, <2>2
    <3> QED  BY <1>2, <1>3, <1>5, <3>1
  <2> QED  BY <2>1, <2>2
<1>9. \E w \in [0 .. Len(z) -> a .. d] :
          w[0] = a /\ \A i \in 1 .. Len(z) : w[i - 1] <= w[i] /\ z[i] \in Seq(Within(text, w[i - 1], w[i]))
  BY <1>3, <1>4, <1>8
<1> QED  BY <1>3, <1>9 DEF Spread, z

\* A list whose last text goes on.
LEMMA SpreadExtend ==
  ASSUME NEW text \in Texts, NEW a \in Nat, NEW b \in Nat, b + 1 <= Len(text), NEW s, Spread(text, a, b, s),
         s # <<>>, NEW z \in Seq(Texts), Len(z) = Len(s),
         \A i \in 1 .. Len(s) - 1 : z[i] = s[i], z[Len(s)] = Append(s[Len(s)], text[b + 1])
  PROVE  Spread(text, a, b + 1, z)
<1> DEFINE n == Len(s)
           d == b + 1
           t == text[d]
<1>1. s \in Seq(Texts) /\ n \in Nat /\ n \in 1 .. n /\ d \in Nat /\ Len(text) \in Nat
  BY DEF Spread, Texts
<1>2. PICK c \in [0 .. n -> a .. b] :
          c[0] = a /\ \A i \in 1 .. n : c[i - 1] <= c[i] /\ s[i] \in Seq(Within(text, c[i - 1], c[i]))
  BY DEF Spread
<1> DEFINE k == [i \in 0 .. n |-> IF i < n THEN c[i] ELSE d]
<1> HIDE DEF n
<1>3. k \in [0 .. n -> a .. d] /\ k[0] = a
  <2>1. a .. b \subseteq a .. d /\ d \in a .. d /\ 0 < n /\ 0 \in 0 .. n
    <3>1. a <= b
      BY <1>1, <1>2
    <3> QED  BY <1>1, <3>1
  <2>2. \A i \in 0 .. n : c[i] \in a .. d
    BY <1>2, <2>1
  <2> HIDE DEF d
  <2> QED  BY <1>2, <2>1, <2>2
<1>4. \A i \in 1 .. n - 1 : k[i - 1] = c[i - 1] /\ k[i] = c[i]
  BY <1>1
<1>5. n - 1 \in 0 .. n /\ k[n - 1] = c[n - 1] /\ k[n] = d /\ c[n - 1] \in Nat /\ c[n - 1] <= b /\ c[n] \in Nat /\ c[n] <= d
  <2>1. n - 1 \in 0 .. n /\ n \in 0 .. n /\ n - 1 < n
    BY <1>1
  <2>2. \A i \in 0 .. n : c[i] \in Nat /\ c[i] <= b
    <3>1. \A x \in a .. b : x \in Nat /\ x <= b
      OBVIOUS
    <3> QED  BY <1>2, <3>1
  <2>3. b <= d
    OBVIOUS
  <2> QED  BY <2>1, <2>2, <2>3, <1>1
<1> HIDE DEF k
<1> DEFINE W == Within(text, c[n - 1], d)
<1>6. Append(s[n], t) \in Seq(W)
  <2>1. Within(text, c[n - 1], c[n]) \subseteq W
    <3> DEFINE l == c[n - 1]
               m == c[n]
    <3>1. l \in Nat /\ m \in Nat /\ d \in Nat /\ l <= l /\ m <= d
      BY <1>1, <1>5
    <3> HIDE DEF l, m, d
    <3>2. Within(text, l, m) \subseteq Within(text, l, d)
      BY <3>1, WithinGrows
    <3> QED  BY <3>2 DEF l, m
  <2>2. s[n] \in Seq(Within(text, c[n - 1], c[n]))
    BY <1>1, <1>2
  <2>3. s[n] \in Seq(W)
    BY <2>1, <2>2, SeqMonotonic
  <2>4. t \in W
    <3>1. d \in c[n - 1] + 1 .. d
      BY <1>1, <1>5
    <3> QED  BY <3>1 DEF Within
  <2> HIDE DEF W, t
  <2> QED  BY <2>3, <2>4, AppendProperties
<1>7. ASSUME NEW i \in 1 .. n PROVE k[i - 1] <= k[i] /\ z[i] \in Seq(Within(text, k[i - 1], k[i]))
  <2>1. CASE i = n
    <3>1. z[i] = Append(s[n], t) /\ k[i - 1] = c[n - 1] /\ k[i] = d /\ c[n - 1] <= d
      BY <1>1, <1>5, <2>1 DEF n
    <3> QED  BY <1>6, <3>1
  <2>2. CASE i # n
    <3>1. i \in 1 .. n /\ i \in 1 .. n - 1
      BY <1>1, <2>2
    <3>2. z[i] = s[i]
      BY <3>1 DEF n
    <3> QED  BY <1>2, <1>4, <3>1, <3>2
  <2> QED  BY <2>1, <2>2
<1>8. Len(z) = n
  BY DEF n
<1>9. \E w \in [0 .. Len(z) -> a .. d] :
          w[0] = a /\ \A i \in 1 .. Len(z) : w[i - 1] <= w[i] /\ z[i] \in Seq(Within(text, w[i - 1], w[i]))
  BY <1>3, <1>7, <1>8
<1> QED  BY <1>9 DEF Spread

LEMMA SpreadSplit ==
  ASSUME NEW text \in Texts, NEW a \in Nat, NEW b \in Nat, b + 1 <= Len(text), NEW s \in ListsOfLines,
         Spread(text, a, b, s)
  PROVE  Spread(text, a, b + 1, SplitNext(s, text[b + 1]))
<1> DEFINE n == Len(s)
           t == text[b + 1]
<1>0. s \in Seq(Texts) /\ s # <<>> /\ n \in Nat /\ n \in 1 .. n /\ s[n] \in Texts
  BY DEF ListsOfLines
<1>1. t \in Tokens
  <2>1. b + 1 \in 1 .. Len(text)
    BY DEF Texts
  <2> QED  BY <2>1 DEF Texts
<1>2. CASE t = NL
  <2>1. SplitNext(s, t) = Append(s, <<>>)
    BY <1>2 DEF SplitNext
  <2>2. <<>> \in Texts /\ <<>> \in Seq(Within(text, b, b + 1))
    BY DEF Texts
  <2>3. b + 1 \in Nat /\ b <= b + 1
    OBVIOUS
  <2> HIDE DEF t
  <2>4. Spread(text, a, b + 1, Append(s, <<>>))
    BY <2>2, <2>3, SpreadAppend
  <2> QED  BY <2>1, <2>4 DEF t
<1>3. CASE t # NL
  <2> DEFINE x == SubSeq(s, 1, n - 1)
             y == <<Append(s[n], t)>>
             z == x \o y
  <2>1. SplitNext(s, t) = z
    BY <1>3 DEF SplitNext, Front, Last
  <2>2. Append(s[n], t) \in Texts
    BY <1>0, <1>1, AppendProperties DEF Texts
  <2> HIDE DEF t
  <2> HIDE DEF n
  <2>3. x \in Seq(Texts) /\ Len(x) = n - 1 /\ \A i \in 1 .. n - 1 : x[i] = s[i]
    <3>1. \A i \in 1 .. n - 1 : s[i] \in Texts
      BY <1>0 DEF n
    <3>2. 1 \in Int /\ n - 1 \in Int /\ 1 <= n /\ (n - 1) - 1 + 1 = n - 1
      BY <1>0
    <3> DEFINE m == n - 1
    <3>3. /\ x \in Seq(Texts) /\ Len(x) = IF 1 <= m THEN m - 1 + 1 ELSE 0
          /\ \A i \in 1 .. m - 1 + 1 : x[i] = s[1 + i - 1]
      BY <3>1, <3>2, SubSeqProperties
    <3> QED  BY <1>0, <3>2, <3>3
  <2>4. y \in Seq(Texts) /\ Len(y) = 1 /\ y[1] = Append(s[n], t)
    BY <2>2
  <2> HIDE DEF x, y
  <2>5. z \in Seq(Texts) /\ Len(z) = n /\ \A i \in 1 .. n : z[i] = IF i <= n - 1 THEN x[i] ELSE y[i - (n - 1)]
    <3>1. /\ z \in Seq(Texts) /\ Len(z) = Len(x) + Len(y)
          /\ \A i \in 1 .. Len(x) + Len(y) : z[i] = IF i <= Len(x) THEN x[i] ELSE y[i - Len(x)]
      BY <2>3, <2>4, ConcatProperties
    <3>2. Len(x) + Len(y) = n
      BY <1>0, <2>3, <2>4
    <3> HIDE DEF z
    <3> QED  BY <2>3, <3>1, <3>2
  <2> HIDE DEF z
  <2>6. z[n] = Append(s[n], t) /\ \A i \in 1 .. n - 1 : z[i] = s[i]
    <3>1. n \in 1 .. n /\ ~(n <= n - 1) /\ n - (n - 1) = 1
      BY <1>0
    <3>2. \A i \in 1 .. n - 1 : i \in 1 .. n /\ i <= n - 1
      BY <1>0
    <3> QED  BY <2>3, <2>4, <2>5, <3>1, <3>2
  <2>7. Spread(text, a, b + 1, z)
    BY <1>0, <2>5, <2>6, SpreadExtend DEF t, n
  <2> QED  BY <2>1, <2>7 DEF t
<1> QED  BY <1>2, <1>3

\* The lines of a segment stand one after another in it.
LEMMA LinesSpread ==
  ASSUME NEW text \in Texts, NEW a \in 0 .. Len(text), NEW b \in 0 .. Len(text), a <= b
  PROVE  SubSeq(text, a + 1, b) \in Texts /\ Spread(text, a, b, Lines(SubSeq(text, a + 1, b)))
<1> DEFINE s == SubSeq(text, a + 1, b)
           n == Len(s)
<1>0. Len(text) \in Nat /\ a \in Nat /\ b \in Nat
  BY DEF Texts
<1>1. s \in Texts /\ n = b - a /\ \A i \in 1 .. b - a : s[i] = text[a + i]
  BY <1>0 DEF Texts
<1> HIDE DEF s
<1>2. PICK f \in [0 .. n -> ListsOfLines] :
            /\ f[0] = << <<>> >> /\ Lines(s) = f[n]
            /\ \A i \in 1 .. n : f[i] = SplitNext(f[i - 1], s[i])
  BY <1>1, LinesLoop
<1>3. n \in Nat /\ n = b - a
  BY <1>0, <1>1
<1> HIDE DEF n
<1> DEFINE T == {i \in 0 .. n : Spread(text, a, a + i, f[i])}
<1>4. 0 \in T
  <2>1. Spread(text, a, a, <<>>) /\ a + 0 = a
    BY <1>0, SpreadEmpty
  <2>2. <<>> \in Texts /\ <<>> \in Seq(Within(text, a, a))
    BY DEF Texts
  <2>3. Spread(text, a, a, Append(<<>>, <<>>))
    <3> DEFINE e == <<>>
    <3>1. a <= a /\ e \in Texts /\ e \in Seq(Within(text, a, a)) /\ Spread(text, a, a, e)
      BY <1>0, <2>1, <2>2
    <3> HIDE DEF e
    <3>2. Spread(text, a, a, Append(e, e))
      BY <1>0, <3>1, SpreadAppend
    <3> QED  BY <3>2 DEF e
  <2>4. Append(<<>>, <<>>) = << <<>> >>
    OBVIOUS
  <2> QED  BY <1>2, <1>3, <2>1, <2>3, <2>4
<1>5. ASSUME NEW i \in 0 .. n - 1, i \in T PROVE i + 1 \in T
  <2>1. i \in 0 .. n /\ i + 1 \in 1 .. n /\ i + 1 \in 0 .. n /\ (i + 1) - 1 = i
    BY <1>3
  <2>2. f[i + 1] = SplitNext(f[i], s[i + 1]) /\ f[i] \in ListsOfLines
    BY <1>2, <2>1
  <2>3. s[i + 1] = text[(a + i) + 1] /\ a + i \in Nat /\ (a + i) + 1 <= Len(text) /\ a + (i + 1) = (a + i) + 1
    BY <1>0, <1>1, <1>3, <2>1
  <2>4. Spread(text, a, a + i, f[i])
    BY <1>5
  <2>5. Spread(text, a, (a + i) + 1, SplitNext(f[i], text[(a + i) + 1]))
    BY <1>0, <2>2, <2>3, <2>4, SpreadSplit
  <2> QED  BY <2>1, <2>2, <2>3, <2>5
<1> HIDE DEF T
<1>6. 0 .. n \subseteq T
  BY <1>3, <1>4, <1>5, UpTo
<1>7. n \in T
  BY <1>3, <1>6
<1>8. Spread(text, a, a + n, f[n]) /\ a + n = b
  BY <1>0, <1>3, <1>7 DEF T
<1> QED  BY <1>1, <1>2, <1>8 DEF s

-----------------------------------------------------------------------------
(* Data lines, and texts read one after another.                              *)

LEMMA SpreadCuts ==
  ASSUME NEW text, NEW a \in Nat, NEW b \in Nat, NEW s, Spread(text, a, b, s)
  PROVE  /\ s \in Seq(Texts) /\ Len(s) \in Nat /\ a <= b
         /\ \E c \in [0 .. Len(s) -> Nat] :
               /\ c[0] = a /\ \A i \in 0 .. Len(s) : a <= c[i] /\ c[i] <= b
               /\ \A i \in 1 .. Len(s) : c[i - 1] <= c[i] /\ s[i] \in Seq(Within(text, c[i - 1], c[i]))
<1> DEFINE n == Len(s)
<1>1. s \in Seq(Texts) /\ n \in Nat
  BY DEF Spread
<1>2. PICK c \in [0 .. n -> a .. b] :
          c[0] = a /\ \A i \in 1 .. n : c[i - 1] <= c[i] /\ s[i] \in Seq(Within(text, c[i - 1], c[i]))
  BY DEF Spread
<1> HIDE DEF n
<1>3. \A x \in a .. b : x \in Nat /\ a <= x /\ x <= b
  OBVIOUS
<1>4. \A i \in 0 .. n : c[i] \in Nat /\ a <= c[i] /\ c[i] <= b
  BY <1>2, <1>3
<1>5. c \in [0 .. n -> Nat]
  BY <1>2, <1>3
<1>6. 0 \in 0 .. n
  BY <1>1
<1>7. a <= b
  BY <1>2, <1>3, <1>4, <1>6
<1> QED  BY <1>1, <1>2, <1>4, <1>5, <1>7 DEF n

LEMMA SpreadGrows ==
  ASSUME NEW text, NEW a \in Nat, NEW b \in Nat, NEW d \in Nat, b <= d, NEW s, Spread(text, a, b, s)
  PROVE  Spread(text, a, d, s)
<1> DEFINE n == Len(s)
           P(c) == c[0] = a /\ \A i \in 1 .. n : c[i - 1] <= c[i] /\ s[i] \in Seq(Within(text, c[i - 1], c[i]))
<1>1. PICK c \in [0 .. n -> a .. b] : P(c)
  BY DEF Spread
<1>2. a .. b \subseteq a .. d
  OBVIOUS
<1> HIDE DEF n, P
<1>3. c \in [0 .. n -> a .. d]
  BY <1>1, <1>2
<1>4. \E w \in [0 .. n -> a .. d] : P(w)
  BY <1>1, <1>3
<1> QED  BY <1>4 DEF Spread, n, P

\* The data lines among lines that stand one after another, each without its marker.
LEMMA DataSpread ==
  ASSUME NEW text, NEW a \in Nat, NEW b \in Nat, NEW s, Spread(text, a, b, s)
  PROVE  Spread(text, a, b, DataIn(s))
<1> DEFINE n == Len(s)
<1>1. s \in Seq(Texts) /\ n \in Nat /\ a <= b
  BY SpreadCuts
<1>2. PICK c \in [0 .. n -> Nat] :
               /\ c[0] = a /\ \A i \in 0 .. n : a <= c[i] /\ c[i] <= b
               /\ \A i \in 1 .. n : c[i - 1] <= c[i] /\ s[i] \in Seq(Within(text, c[i - 1], c[i]))
  BY SpreadCuts
<1>3. PICK f \in [0 .. n -> Seq(Texts)] :
            /\ f[0] = <<>> /\ DataIn(s) = f[n]
            /\ \A i \in 1 .. n : f[i] = IF s[i] # <<>> /\ s[i][1] = Marker THEN Append(f[i - 1], Tail(s[i])) ELSE f[i - 1]
  BY <1>1, DataInLoop
<1> DEFINE T == {i \in 0 .. n : Spread(text, a, c[i], f[i])}
<1>4. 0 \in T
  <2>1. Spread(text, a, a, <<>>) /\ 0 \in 0 .. n
    BY <1>1, SpreadEmpty
  <2> QED  BY <1>2, <1>3, <2>1
<1> HIDE DEF n
<1>5. ASSUME NEW i \in 0 .. n - 1, i \in T PROVE i + 1 \in T
  <2> DEFINE j == i + 1
             p == c[i]
             q == c[j]
             l == s[j]
             W == Within(text, p, q)
  <2>1. i \in 0 .. n /\ j \in 1 .. n /\ j \in 0 .. n /\ j - 1 = i
    BY <1>1
  <2>2. p \in Nat /\ q \in Nat /\ p <= q /\ l \in Seq(W) /\ l \in Texts
    <3>1. p \in Nat /\ q \in Nat
      BY <1>2, <2>1
    <3>2. c[j - 1] <= c[j] /\ s[j] \in Seq(Within(text, c[j - 1], c[j]))
      BY <1>2, <2>1
    <3>3. l \in Texts
      BY <1>1, <2>1 DEF n
    <3> QED  BY <2>1, <3>1, <3>2, <3>3
  <2>3. Spread(text, a, p, f[i])
    BY <1>5
  <2>4. f[j] = IF l # <<>> /\ l[1] = Marker THEN Append(f[i], Tail(l)) ELSE f[i]
    BY <1>3, <2>1
  <2> HIDE DEF j, p, q, l
  <2>5. CASE l # <<>> /\ l[1] = Marker
    <3>1. Tail(l) \in Texts /\ Tail(l) \in Seq(W)
      <4> HIDE DEF W
      <4> QED  BY <2>2, <2>5, HeadTailProperties DEF Texts
    <3>2. Spread(text, a, q, Append(f[i], Tail(l)))
      BY <2>2, <2>3, <3>1, SpreadAppend
    <3> QED  BY <2>1, <2>4, <2>5, <3>2 DEF j, q
  <2>6. CASE ~(l # <<>> /\ l[1] = Marker)
    <3>1. Spread(text, a, q, f[i])
      BY <2>2, <2>3, SpreadGrows
    <3> QED  BY <2>1, <2>4, <2>6, <3>1 DEF j, q
  <2> QED  BY <2>5, <2>6
<1> HIDE DEF T
<1>6. n \in T
  <2>1. 0 .. n \subseteq T
    BY <1>1, <1>4, <1>5, UpTo
  <2> QED  BY <1>1, <2>1
<1>7. Spread(text, a, c[n], f[n]) /\ c[n] \in Nat /\ c[n] <= b
  BY <1>1, <1>2, <1>6 DEF T
<1>8. Spread(text, a, b, f[n])
  <2> DEFINE p == c[n]
  <2>1. p \in Nat /\ p <= b /\ Spread(text, a, p, f[n])
    BY <1>7
  <2> HIDE DEF p
  <2> QED  BY <2>1, SpreadGrows
<1> QED  BY <1>3, <1>8

LEMMA FlatWithin ==
  ASSUME NEW text, NEW a \in Nat, NEW b \in Nat, NEW s, Spread(text, a, b, s)
  PROVE  FlattenSeq(s) \in Seq(Within(text, a, b))
<1> DEFINE n == Len(s)
           W == Within(text, a, b)
<1>1. s \in Seq(Texts) /\ n \in Nat /\ a <= b
  BY SpreadCuts
<1>2. PICK c \in [0 .. n -> Nat] :
               /\ c[0] = a /\ \A i \in 0 .. n : a <= c[i] /\ c[i] <= b
               /\ \A i \in 1 .. n : c[i - 1] <= c[i] /\ s[i] \in Seq(Within(text, c[i - 1], c[i]))
  BY SpreadCuts
<1>3. ASSUME NEW i \in 1 .. n PROVE s[i] \in Seq(W)
  <2> DEFINE p == c[i - 1]
             q == c[i]
  <2>1. i - 1 \in 0 .. n /\ i \in 0 .. n
    BY <1>1
  <2>2. p \in Nat /\ q \in Nat /\ a <= p /\ q <= b /\ s[i] \in Seq(Within(text, p, q))
    BY <1>2, <2>1
  <2> HIDE DEF p, q, n
  <2>3. Within(text, p, q) \subseteq W
    <3>1. \A k \in p + 1 .. q : k \in a + 1 .. b
      BY <2>2
    <3> QED  BY <3>1 DEF Within
  <2> HIDE DEF W
  <2> QED  BY <2>2, <2>3, SeqMonotonic
<1> HIDE DEF W
<1>4. s \in Seq(Seq(W))
  <2> DEFINE Q == Seq(W)
             R == Texts
  <2>1. s \in Seq(R) /\ \A i \in 1 .. Len(s) : s[i] \in Q
    BY <1>1, <1>3
  <2> HIDE DEF Q, R
  <2>2. s \in Seq(Q)
    BY <2>1
  <2> QED  BY <2>2 DEF Q
<1>5. FlattenSeq(s) \in Seq(W)
  BY <1>4, FlattenType
<1> QED  BY <1>5 DEF W

\* Reading texts one after another goes from the first place to the last.
LEMMA AllRead ==
  ASSUME NEW text, NEW O, Chain(text, O), NEW a \in 0 .. Len(text), NEW b \in 0 .. Len(text),
         NEW s, Spread(text, a, b, s), NEW o \in O[a], NEW type
  PROVE  ObserveAll(o, s, type) \in O[b]
<1> DEFINE n == Len(s)
<1>0. Len(text) \in Nat /\ a \in Nat /\ b \in Nat /\ text \in Texts
  BY DEF Chain, Texts
<1>1. s \in Seq(Texts) /\ n \in Nat /\ a <= b
  BY <1>0, SpreadCuts
<1>2. PICK c \in [0 .. n -> Nat] :
               /\ c[0] = a /\ \A i \in 0 .. n : a <= c[i] /\ c[i] <= b
               /\ \A i \in 1 .. n : c[i - 1] <= c[i] /\ s[i] \in Seq(Within(text, c[i - 1], c[i]))
  BY <1>0, SpreadCuts
<1> DEFINE r == o.residual
           H == Holding(r)
<1>3. o \in Holding(r)
  BY DEF Chain, Holding
<1> HIDE DEF r
<1>4. PICK f \in [0 .. n -> H] :
            /\ f[0] = o /\ ObserveAll(o, s, type) = f[n]
            /\ \A i \in 1 .. n : f[i] = ObserveIfValid(f[i - 1], s[i], type)
  BY <1>1, <1>3, ObserveAllLoop
<1> DEFINE T == {i \in 0 .. n : f[i] \in O[c[i]]}
<1> HIDE DEF n, H
<1>5. 0 \in T
  BY <1>1, <1>2, <1>4
<1>6. ASSUME NEW i \in 0 .. n - 1, i \in T PROVE i + 1 \in T
  <2> DEFINE j == i + 1
             p == c[i]
             q == c[j]
             l == s[j]
             g == f[i]
  <2>1. i \in 0 .. n /\ j \in 1 .. n /\ j \in 0 .. n /\ j - 1 = i
    BY <1>1
  <2>2. c[j - 1] <= c[j] /\ s[j] \in Seq(Within(text, c[j - 1], c[j])) /\ f[j] = ObserveIfValid(f[j - 1], s[j], type)
    BY <1>2, <1>4, <2>1
  <2>3. p \in Nat /\ q \in Nat /\ p <= b /\ q <= b
    BY <1>2, <2>1
  <2>4. p <= q /\ l \in Seq(Within(text, p, q)) /\ f[j] = ObserveIfValid(g, l, type) /\ g \in O[p]
    BY <1>6, <2>1, <2>2
  <2> HIDE DEF j, p, q, l, g
  <2>5. p \in 0 .. Len(text) /\ q \in 0 .. Len(text)
    BY <1>0, <2>3
  <2>6. ObserveIfValid(g, l, type) \in O[q]
    BY <2>4, <2>5, IfValidRead
  <2> QED  BY <2>1, <2>4, <2>6 DEF j, q
<1> HIDE DEF T
<1>7. n \in T
  <2>1. 0 .. n \subseteq T
    BY <1>1, <1>5, <1>6, UpTo
  <2> QED  BY <1>1, <2>1
<1>8. f[n] \in O[c[n]] /\ c[n] \in Nat /\ c[n] <= b
  BY <1>1, <1>2, <1>7 DEF T
<1>9. c[n] \in 0 .. Len(text)
  BY <1>0, <1>8
<1>10. O[c[n]] \subseteq O[b]
  BY <1>8, <1>9 DEF Chain
<1> QED  BY <1>4, <1>8, <1>10

-----------------------------------------------------------------------------
(* One frame as it stands, and the value behind a marker.                     *)

LEMMA NoneRead ==
  ASSUME NEW o \in Observers, NEW s \in Seq(Texts), \A i \in DOMAIN s : ~ValidPayload(s[i]), NEW type
  PROVE  ObserveAll(o, s, type) = o
<1> DEFINE n == Len(s)
           r == o.residual
           H == Holding(r)
<1>1. n \in Nat /\ o \in Holding(r) /\ \A i \in 1 .. n : ~ValidPayload(s[i])
  BY DEF Holding
<1> HIDE DEF r
<1>2. PICK f \in [0 .. n -> H] :
            /\ f[0] = o /\ ObserveAll(o, s, type) = f[n]
            /\ \A i \in 1 .. n : f[i] = ObserveIfValid(f[i - 1], s[i], type)
  BY <1>1, ObserveAllLoop
<1> DEFINE S == {o}
<1> HIDE DEF n
<1>3. \A i \in 1 .. n : f[i - 1] \in S => f[i] \in S
  <2>1. \A i \in 1 .. n : f[i] = f[i - 1]
    BY <1>1, <1>2 DEF ObserveIfValid
  <2> QED  BY <2>1
<1>4. f[0] \in S
  BY <1>2
<1> HIDE DEF S
<1>5. \A i \in 0 .. n : f[i] \in S
  BY <1>1, <1>3, <1>4, LoopTyped
<1> QED  BY <1>1, <1>2, <1>5 DEF S

\* A frame whose data lines parse has been read to its end; any other one not at all.
LEMMA PartsRead ==
  ASSUME NEW text, NEW O, Chain(text, O), NEW a \in 0 .. Len(text), NEW b \in 0 .. Len(text), a <= b,
         NEW o \in O[a]
  PROVE  LET parts == FrameParts(o, SubSeq(text, a + 1, b))
         IN parts.o \in O[b] /\ (~parts.parsed => parts.o = o)
<1> DEFINE s == SubSeq(text, a + 1, b)
           data == DataIn(Lines(s))
           type == OrChunk(EventTypeIn(Lines(s)))
           joined == FlattenSeq(data)
           parts == ObserveFrameParts(o, type, joined, data)
<1>0. Len(text) \in Nat /\ a \in Nat /\ b \in Nat /\ text \in Texts
  BY DEF Chain, Texts
<1>1. FrameParts(o, s) = parts
  BY DEF FrameParts, PartsOf
<1>2. Spread(text, a, b, Lines(s))
  BY <1>0, LinesSpread
<1>3. Spread(text, a, b, data)
  BY <1>0, <1>2, DataSpread
<1> HIDE DEF data, s, type
<1>4. joined \in Seq(Within(text, a, b)) /\ data \in Seq(Texts)
  BY <1>0, <1>3, FlatWithin DEF Spread
<1>5. o \in O[b] /\ o \in Observers
  BY DEF Chain
<1> HIDE DEF joined
<1>6. ValidPayload(joined) => ObservePayload(o, joined, type) \in O[b]
  BY <1>4, PayloadRead
<1>7. ObserveAll(o, data, type) \in O[b]
  BY <1>3, AllRead
<1>8. (\A i \in DOMAIN data : ~ValidPayload(data[i])) => ObserveAll(o, data, type) = o
  BY <1>4, <1>5, NoneRead
<1>9. parts.o \in O[b] /\ (~parts.parsed => parts.o = o)
  BY <1>5, <1>6, <1>7, <1>8 DEF ObserveFrameParts
<1> QED  BY <1>1, <1>9 DEF s

LEMMA ValueWithin ==
  ASSUME NEW s \in Texts
  PROVE  LET v == FirstJSONValue(s)
         IN v.end \in 0 .. Len(s) /\ v.payload \in Texts /\ v.payload \in Seq(Within(s, 0, v.end))
<1> DEFINE n == Len(s)
<1>0. n \in Nat /\ \A i \in 1 .. n : s[i] \in Tokens
  BY DEF Texts
<1>1. PICK p \in 0 .. n : FirstJSONValue(s) = ValueAt(s, p, Balanced(s, p))
  BY FirstJSONValueAt
<1>2. FirstJSONValue(s).end \in 0 .. n /\ FirstJSONValue(s).payload \in Texts
  BY FirstJSONValueType
<1> DEFINE v == ValueAt(s, p, Balanced(s, p))
           ends == Balanced(s, p)
<1> SUFFICES v.payload \in Seq(Within(s, 0, v.end))
  BY <1>1, <1>2
<1>3. CASE v = NoValue
  <2>1. v.payload = <<>>
    BY <1>3 DEF NoValue
  <2> HIDE DEF v
  <2> QED  BY <2>1
<1>4. CASE p # 0 /\ s[p] = DoneMark
  <2>1. v.payload = <<s[p]>> /\ v.end = p
    BY <1>4 DEF ValueAt
  <2>2. s[p] \in Within(s, 0, p)
    <3>1. p \in 0 + 1 .. p
      BY <1>0, <1>4
    <3> QED  BY <3>1 DEF Within
  <2> DEFINE W == Within(s, 0, p)
  <2>3. <<s[p]>> \in Seq(W)
    <3> HIDE DEF W
    <3> QED  BY <2>2 DEF W
  <2> HIDE DEF v
  <2> QED  BY <2>1, <2>3
<1>5. CASE p # 0 /\ s[p] # DoneMark /\ s[p].k = "open" /\ ends # {}
  <2> DEFINE m == Min(ends)
  <2>1. v.payload = SubSeq(s, p, m) /\ v.end = m
    BY <1>5 DEF ValueAt
  <2>2. ends \subseteq p .. n /\ ends \subseteq Nat
    BY <1>0 DEF Balanced
  <2> HIDE DEF ends
  <2>3. m \in p .. n
    BY <1>5, <2>2, MinIs
  <2> HIDE DEF m
  <2>4. \A i \in p .. m : s[i] \in Within(s, 0, m)
    <3>1. \A i \in p .. m : i \in 0 + 1 .. m
      BY <1>0, <1>5, <2>3
    <3> QED  BY <3>1 DEF Within
  <2> DEFINE W == Within(s, 0, m)
  <2>5. p \in Int /\ m \in Int
    BY <1>0, <2>3
  <2>6. SubSeq(s, p, m) \in Seq(W)
    <3> HIDE DEF W, n
    <3> QED  BY <2>4, <2>5, SubSeqProperties DEF W
  <2> HIDE DEF v
  <2> QED  BY <2>1, <2>6
<1>6. v = NoValue \/ (p # 0 /\ s[p] = DoneMark) \/ (p # 0 /\ s[p] # DoneMark /\ s[p].k = "open" /\ ends # {})
  BY DEF ValueAt
<1> HIDE DEF v, ends
<1> QED  BY <1>3, <1>4, <1>5, <1>6

-----------------------------------------------------------------------------
(* One frame salvaged.                                                        *)

LEMMA PayloadsAppend ==
  ASSUME NEW x \in Seq(Findings), NEW r \in Findings
  PROVE  /\ Payloads(Append(x, r)) = Append(Payloads(x), r.payload)
         /\ SalvagedEnd(Append(x, r)) = r.end
<1> DEFINE n == Len(x)
           y == Append(x, r)
           p == Payloads(x)
           q == Payloads(y)
<1>1. n \in Nat /\ y \in Seq(Findings) /\ y # <<>> /\ Len(y) = n + 1 /\ y[n + 1] = r /\ \A i \in 1 .. n : y[i] = x[i]
  BY AppendProperties
<1>2. y[Len(y)].end = r.end
  BY <1>1
<1>3. SalvagedEnd(y) = r.end
  <2> HIDE DEF y
  <2> QED  BY <1>1, <1>2 DEF SalvagedEnd, Last
<1>4. p \in Seq(Texts) /\ q \in Seq(Texts)
  BY <1>1, PayloadsType
<1>5. r.payload \in Texts
  BY DEF Findings
<1> HIDE DEF y, n
<1>6. Len(p) = n /\ \A i \in 1 .. n : p[i] = x[i].payload
  BY <1>1 DEF Payloads, n
<1>7. Len(q) = n + 1 /\ \A i \in 1 .. n + 1 : q[i] = y[i].payload
  <2>1. DOMAIN y = 1 .. n + 1
    BY <1>1
  <2> QED  BY <1>1, <2>1 DEF Payloads
<1> DEFINE z == Append(p, r.payload)
<1> HIDE DEF p, q
<1>8. z \in Seq(Texts) /\ Len(z) = n + 1 /\ z[n + 1] = r.payload /\ \A i \in 1 .. n : z[i] = p[i]
  BY <1>4, <1>5, <1>6, AppendProperties
<1> HIDE DEF z
<1>9. \A i \in 1 .. n + 1 : q[i] = z[i]
  <2> SUFFICES ASSUME NEW i \in 1 .. n + 1 PROVE q[i] = z[i]
    OBVIOUS
  <2>1. CASE i = n + 1
    BY <1>1, <1>7, <1>8, <2>1
  <2>2. CASE i # n + 1
    <3>1. i \in 1 .. n
      BY <1>1, <2>2
    <3> QED  BY <1>1, <1>6, <1>7, <1>8, <3>1
  <2> QED  BY <2>1, <2>2
<1>10. q = z
  BY <1>4, <1>7, <1>8, <1>9, SeqEqual
<1> QED  BY <1>3, <1>10 DEF z, p, q, y

\* What a salvage has found so far stands one after another in the segment.
SalvageSpread(text, a, b, f) ==
    LET end == SalvagedEnd(f.found)
    IN /\ f.found \in Seq(Findings) /\ f.offset \in 0 .. b - a
       /\ end \in 0 .. f.offset
       /\ Spread(text, a, a + end, Payloads(f.found))

LEMMA SalvageStep ==
  ASSUME NEW text \in Texts, NEW a \in 0 .. Len(text), NEW b \in 0 .. Len(text), a <= b,
         NEW f, SalvageSpread(text, a, b, f)
  PROVE  LET g == SalvageNext(SubSeq(text, a + 1, b), f)
         IN g = f \/ SalvageSpread(text, a, b, g)
<1> DEFINE s == SubSeq(text, a + 1, b)
           n == b - a
           end == SalvagedEnd(f.found)
           start == NextMarker(s, f.offset)
           r == SubSeq(s, start + 1, Len(s))
           v == FirstJSONValue(r)
<1>0. Len(text) \in Nat /\ a \in Nat /\ b \in Nat /\ n \in Nat /\ a + n = b
  BY DEF Texts
<1>1. s \in Texts /\ Len(s) = n /\ \A i \in 1 .. n : s[i] = text[a + i]
  BY <1>0 DEF Texts
<1>2. /\ f.found \in Seq(Findings) /\ f.offset \in Nat /\ f.offset <= n
      /\ end \in Nat /\ end <= f.offset /\ Spread(text, a, a + end, Payloads(f.found))
  BY <1>0 DEF SalvageSpread
<1>3. SalvageNext(s, f) = SalvageAt(f, start, v)
  BY DEF SalvageNext
<1> HIDE DEF s, end, n
<1>4. start \in Nat /\ (start # 0 => start > f.offset /\ start <= n)
  <2> DEFINE from == f.offset
  <2>1. start \in Nat /\ (start # 0 => start \in from + 1 .. Len(s))
    BY <1>1, <1>2, NextMarkerIs
  <2> HIDE DEF start, from
  <2>2. from \in Nat /\ Len(s) = n
    BY <1>1, <1>2 DEF from
  <2>3. \A i \in from + 1 .. n : i > from /\ i <= n
    BY <1>0, <2>2
  <2> QED  BY <2>1, <2>2, <2>3 DEF from
<1> HIDE DEF start
<1>5. CASE start = 0
  BY <1>3, <1>5 DEF SalvageAt, s
<1>6. CASE start # 0
  <2>1. r \in Texts /\ Len(r) = n - start /\ \A i \in 1 .. n - start : r[i] = s[start + i]
    BY <1>0, <1>1, <1>4, <1>6 DEF Texts
  <2>2. \A i \in 1 .. n - start : start + i \in 1 .. n
    BY <1>0, <1>4
  <2>3. \A i \in 1 .. n - start : r[i] = text[a + (start + i)]
    BY <1>1, <2>1, <2>2
  <2> HIDE DEF r
  <2>4. v.end \in 0 .. n - start /\ v.payload \in Texts /\ v.payload \in Seq(Within(r, 0, v.end))
    BY <2>1, ValueWithin
  <2> DEFINE k == v.end
             t == start + k
  <2>5. k \in Nat /\ k <= n - start /\ t \in Nat /\ t <= n /\ f.offset < t /\ end <= t
    <3> DEFINE from == f.offset
    <3>1. from \in Nat /\ start \in Nat /\ start > from /\ start <= n /\ end \in Nat /\ end <= from /\ k \in 0 .. n - start
      BY <1>2, <1>4, <1>6, <2>4
    <3> HIDE DEF k, from
    <3>2. k \in Nat /\ k <= n - start /\ t \in Nat /\ t <= n /\ from < t /\ end <= t
      BY <1>0, <3>1
    <3> QED  BY <3>2 DEF from
  <2>6. Within(r, 0, k) \subseteq Within(text, a + end, a + t)
    <3> SUFFICES ASSUME NEW i \in 0 + 1 .. k PROVE r[i] \in Within(text, a + end, a + t)
      BY DEF Within
    <3>1. i \in 1 .. n - start
      <4> HIDE DEF k
      <4> QED  BY <1>0, <1>4, <2>5
    <3>2. a + (start + i) \in (a + end) + 1 .. a + t
      <4> DEFINE from == f.offset
      <4>1. from \in Nat /\ start \in Nat /\ start > from /\ end \in Nat /\ end <= from /\ k \in Nat /\ i \in 1 .. k
        BY <1>2, <1>4, <1>6, <2>5
      <4> HIDE DEF k, from
      <4> QED  BY <1>0, <4>1
    <3> QED  BY <2>3, <3>1, <3>2 DEF Within
  <2>7. CASE v = NoValue
    <3> DEFINE g == [f EXCEPT !.offset = start]
    <3>1. SalvageNext(s, f) = g
      BY <1>3, <1>6, <2>7 DEF SalvageAt
    <3>2. g = f \/ (g.found = f.found /\ g.offset = start)
      OBVIOUS
    <3>3. start \in 0 .. n /\ end \in 0 .. start
      BY <1>0, <1>2, <1>4, <1>6
    <3> HIDE DEF g
    <3>4. g = f \/ SalvageSpread(text, a, b, g)
      BY <1>2, <3>2, <3>3 DEF SalvageSpread, end, n
    <3> QED  BY <3>1, <3>4 DEF s
  <2>8. CASE v # NoValue
    <3> DEFINE found == [payload |-> v.payload, end |-> t]
               x == Append(f.found, found)
               g == [found |-> x, offset |-> t]
    <3>1. SalvageNext(s, f) = g
      BY <1>3, <1>6, <2>8 DEF SalvageAt
    <3>2. found \in Findings /\ found.payload = v.payload /\ found.end = t
      BY <2>4, <2>5 DEF Findings
    <3> HIDE DEF found
    <3>3. x \in Seq(Findings) /\ Payloads(x) = Append(Payloads(f.found), v.payload) /\ SalvagedEnd(x) = t
      BY <1>2, <3>2, PayloadsAppend, AppendProperties
    <3> HIDE DEF x
    <3>4. v.payload \in Seq(Within(text, a + end, a + t))
      <4> DEFINE W == Within(r, 0, k)
                 Z == Within(text, a + end, a + t)
      <4>1. W \subseteq Z /\ v.payload \in Seq(W)
        BY <2>4, <2>6
      <4> HIDE DEF W, Z
      <4>2. v.payload \in Seq(Z)
        BY <4>1, SeqMonotonic
      <4> QED  BY <4>2 DEF Z
    <3>5. Spread(text, a, a + t, Payloads(x))
      <4> DEFINE p == a + end
                 q == a + t
                 y == v.payload
                 w == Payloads(f.found)
      <4>1. p \in Nat /\ q \in Nat /\ p <= q /\ y \in Texts /\ y \in Seq(Within(text, p, q)) /\ Spread(text, a, p, w)
        BY <1>0, <1>2, <2>4, <2>5, <3>4
      <4> HIDE DEF p, q, y, w
      <4>2. Spread(text, a, q, Append(w, y))
        BY <1>0, <4>1, SpreadAppend
      <4> QED  BY <3>3, <4>2 DEF q, w, y
    <3>6. t \in 0 .. n /\ t \in 0 .. t
      BY <1>0, <2>5
    <3>7. SalvageSpread(text, a, b, g)
      BY <3>3, <3>5, <3>6 DEF SalvageSpread, n
    <3> QED  BY <3>1, <3>7 DEF s
  <2> QED  BY <2>7, <2>8
<1> QED  BY <1>5, <1>6

LEMMA SalvagedSpread ==
  ASSUME NEW text \in Texts, NEW a \in 0 .. Len(text), NEW b \in 0 .. Len(text), a <= b
  PROVE  LET found == Salvaged(SubSeq(text, a + 1, b))
         IN /\ SalvagedEnd(found) \in 0 .. b - a
            /\ Spread(text, a, a + SalvagedEnd(found), Payloads(found))
<1> DEFINE s == SubSeq(text, a + 1, b)
           n == Len(s)
<1>0. Len(text) \in Nat /\ a \in Nat /\ b \in Nat
  BY DEF Texts
<1>1. s \in Texts /\ n \in Nat
  BY <1>0, LinesSpread DEF Texts
<1> HIDE DEF s
<1>2. PICK f \in [0 .. n -> Salvages] :
            /\ f[0] = NothingFound /\ Salvaged(s) = f[n].found
            /\ \A i \in 1 .. n : f[i] = SalvageNext(s, f[i - 1])
  BY <1>1, SalvagedLoop
<1> DEFINE S == {g \in Salvages : SalvageSpread(text, a, b, g)}
<1> HIDE DEF n
<1>3. f[0] \in S
  <2> DEFINE g == NothingFound
  <2>1. g.found = <<>> /\ g.offset = 0
    BY DEF NothingFound
  <2>2. Payloads(<<>>) = <<>> /\ SalvagedEnd(<<>>) = 0
    BY DEF Payloads, SalvagedEnd
  <2>3. Spread(text, a, a + 0, <<>>)
    BY <1>0, SpreadEmpty
  <2>4. 0 \in 0 .. b - a /\ 0 \in 0 .. 0 /\ <<>> \in Seq(Findings)
    BY <1>0
  <2> HIDE DEF g
  <2>5. SalvageSpread(text, a, b, g)
    BY <2>1, <2>2, <2>3, <2>4 DEF SalvageSpread
  <2>6. 0 \in 0 .. n
    BY <1>1
  <2> QED  BY <1>2, <2>5, <2>6 DEF g
<1>4. \A i \in 1 .. n : f[i - 1] \in S => f[i] \in S
  <2> SUFFICES ASSUME NEW i \in 1 .. n, f[i - 1] \in S PROVE f[i] \in S
    OBVIOUS
  <2> DEFINE h == f[i - 1]
             g == SalvageNext(s, h)
  <2>1. f[i] = g /\ f[i] \in Salvages
    <3>1. i \in 0 .. n
      BY <1>1
    <3> QED  BY <1>2, <3>1
  <2>2. SalvageSpread(text, a, b, h)
    OBVIOUS
  <2> HIDE DEF h
  <2>3. g = h \/ SalvageSpread(text, a, b, g)
    BY <2>2, SalvageStep DEF s
  <2> HIDE DEF g
  <2> QED  BY <2>1, <2>2, <2>3
<1>5. f[n] \in S
  <2> HIDE DEF S
  <2>1. \A i \in 0 .. n : f[i] \in S
    BY <1>1, <1>3, <1>4, LoopTyped
  <2> QED  BY <1>1, <2>1
<1>6. SalvageSpread(text, a, b, f[n])
  BY <1>5
<1>7. SalvagedEnd(f[n].found) \in 0 .. b - a /\ Spread(text, a, a + SalvagedEnd(f[n].found), Payloads(f[n].found))
  <2>1. \A x \in 0 .. b - a : 0 .. x \subseteq 0 .. b - a
    BY <1>0
  <2> QED  BY <1>6, <2>1 DEF SalvageSpread
<1> QED  BY <1>2, <1>7 DEF s

-----------------------------------------------------------------------------
(* One frame, and all the frames that separators end.                         *)

LEMMA Segment ==
  ASSUME NEW text \in Texts, NEW a \in 0 .. Len(text), NEW b \in 0 .. Len(text), a <= b
  PROVE  /\ SubSeq(text, a + 1, b) \in Texts /\ Len(SubSeq(text, a + 1, b)) = b - a
         /\ \A i \in 1 .. b - a : SubSeq(text, a + 1, b)[i] = text[a + i]
<1>1. Len(text) \in Nat
  BY DEF Texts
<1> QED  BY <1>1 DEF Texts

LEMMA SegmentOf ==
  ASSUME NEW text \in Texts, NEW a \in 0 .. Len(text), NEW b \in 0 .. Len(text), a <= b,
         NEW i \in 0 .. b - a, NEW j \in 0 .. b - a, i <= j
  PROVE  /\ a + i \in 0 .. b /\ a + j \in 0 .. b /\ a + i <= a + j
         /\ SubSeq(SubSeq(text, a + 1, b), i + 1, j) = SubSeq(text, (a + i) + 1, a + j)
<1> DEFINE s == SubSeq(text, a + 1, b)
           x == SubSeq(s, i + 1, j)
           y == SubSeq(text, (a + i) + 1, a + j)
           n == b - a
<1>0. Len(text) \in Nat /\ a \in Nat /\ b \in Nat /\ i \in Nat /\ j \in Nat /\ n \in Nat /\ b = a + n /\ b <= Len(text)
  BY DEF Texts
<1>1. s \in Texts /\ Len(s) = n /\ \A k \in 1 .. n : s[k] = text[a + k]
  BY Segment
<1>2. i \in 0 .. Len(s) /\ j \in 0 .. Len(s)
  BY <1>0, <1>1
<1> HIDE DEF s
<1>3. x \in Texts /\ Len(x) = j - i /\ \A k \in 1 .. j - i : x[k] = s[i + k]
  BY <1>1, <1>2, Segment
<1>4. a + i \in 0 .. Len(text) /\ a + j \in 0 .. Len(text) /\ a + i <= a + j
  BY <1>0
<1>5. y \in Texts /\ Len(y) = (a + j) - (a + i) /\ \A k \in 1 .. (a + j) - (a + i) : y[k] = text[(a + i) + k]
  BY <1>4, Segment
<1> HIDE DEF x, y
<1>6. Len(x) = Len(y) /\ \A k \in 1 .. Len(x) : x[k] = y[k]
  <2>1. (a + j) - (a + i) = j - i
    BY <1>0
  <2>2. \A k \in 1 .. j - i : i + k \in 1 .. n /\ a + (i + k) = (a + i) + k
    BY <1>0
  <2> HIDE DEF n
  <2>3. ASSUME NEW k \in 1 .. j - i PROVE x[k] = y[k]
    <3>1. x[k] = s[i + k] /\ s[i + k] = text[a + (i + k)]
      BY <1>1, <1>3, <2>2
    <3>2. y[k] = text[(a + i) + k] /\ a + (i + k) = (a + i) + k
      BY <1>5, <2>1, <2>2
    <3> QED  BY <3>1, <3>2
  <2>4. Len(x) = j - i /\ Len(y) = j - i
    BY <1>3, <1>5, <2>1
  <2> QED  BY <2>3, <2>4
<1>7. x = y
  BY <1>3, <1>5, <1>6, SeqEqual DEF Texts
<1>8. a + i \in 0 .. b /\ a + j \in 0 .. b /\ a + i <= a + j
  BY <1>0
<1> QED  BY <1>7, <1>8 DEF x, y, s

\* A frame has been read as far as its tail ends.
LEMMA FrameRead ==
  ASSUME NEW text, NEW O, Chain(text, O), NEW a \in 0 .. Len(text), NEW b \in 0 .. Len(text), a <= b,
         NEW o \in O[a]
  PROVE  LET s == SubSeq(text, a + 1, b)
         IN TailEnd(o, s) \in 0 .. b - a /\ ObserveFrame(o, s) \in O[a + TailEnd(o, s)]
<1> DEFINE s == SubSeq(text, a + 1, b)
           parts == FrameParts(o, s)
           found == Salvaged(s)
           end == SalvagedEnd(found)
<1>0. Len(text) \in Nat /\ a \in Nat /\ b \in Nat /\ text \in Texts /\ b - a \in Nat /\ a + (b - a) = b
  BY DEF Chain, Texts
<1>1. parts.o \in O[b] /\ (~parts.parsed => parts.o = o)
  BY PartsRead
<1>2. end \in 0 .. b - a /\ Spread(text, a, a + end, Payloads(found))
  BY <1>0, SalvagedSpread
<1>3. s \in Texts /\ Len(s) = b - a
  BY <1>0, Segment
<1> HIDE DEF s, parts, found
<1>4. CASE parts.parsed
  <2>1. TailEnd(o, s) = b - a /\ ObserveFrame(o, s) = parts.o
    BY <1>3, <1>4 DEF TailEnd, ObserveFrame, OrSalvaged, parts
  <2>2. b - a \in 0 .. b - a
    BY <1>0
  <2> QED  BY <1>0, <1>1, <2>1, <2>2 DEF s
<1>5. CASE ~parts.parsed
  <2>1. TailEnd(o, s) = end /\ ObserveFrame(o, s) = ObserveAll(o, Payloads(found), "chunk")
    BY <1>1, <1>5 DEF TailEnd, ObserveFrame, OrSalvaged, parts, found
  <2> DEFINE c == a + end
  <2>2. c \in 0 .. Len(text)
    BY <1>0, <1>2
  <2> HIDE DEF end, c
  <2>3. Spread(text, a, c, Payloads(found))
    BY <1>2 DEF c
  <2>4. ObserveAll(o, Payloads(found), "chunk") \in O[c]
    BY <2>2, <2>3, AllRead
  <2> QED  BY <1>2, <2>1, <2>4 DEF s, c
<1> QED  BY <1>4, <1>5

\* How far an observer has come in the text that has arrived, and what it still holds.
Reading(text, O, p, o) ==
    \E c \in 0 .. p : o \in O[c] /\ o.residual = SubSeq(text, c + 1, p)

Framing(text, O, p, f) ==
    \E c \in 0 .. p : f.o \in O[c] /\ f.rest = SubSeq(text, c + 1, p)

LEMMA NextRead ==
  ASSUME NEW text, NEW O, Chain(text, O), NEW p \in 0 .. Len(text), NEW f, Framing(text, O, p, f)
  PROVE  Framing(text, O, p, ObserveNext(f))
<1> DEFINE rest == f.rest
           ends == {i \in 1 .. Len(rest) - 1 : rest[i] = NL /\ rest[i + 1] = NL}
           m == Min(ends)
           frame == SubSeq(rest, 1, m - 1)
           g == [o |-> ObserveFrame(f.o, frame), rest |-> SubSeq(rest, m + 2, Len(rest))]
<1>0. Len(text) \in Nat /\ text \in Texts /\ p \in Nat /\ p <= Len(text)
  BY DEF Chain, Texts
<1>1. PICK c \in 0 .. p : f.o \in O[c] /\ rest = SubSeq(text, c + 1, p)
  BY DEF Framing
<1>2. c \in Nat /\ c <= p /\ c \in 0 .. Len(text)
  BY <1>0
<1> DEFINE n == p - c
<1>3. n \in Nat /\ c + n = p /\ Len(rest) = n
  BY <1>0, <1>1, <1>2, Segment
<1>4. ObserveNext(f) = IF ends = {} THEN f ELSE g
  BY DEF ObserveNext
<1>5. CASE ends = {}
  BY <1>4, <1>5
<1>6. CASE ends # {}
  <2> HIDE DEF n
  <2>1. ends \subseteq Nat /\ ends \subseteq 1 .. n - 1
    BY <1>3
  <2> HIDE DEF ends
  <2>2. m \in 1 .. n - 1
    BY <1>6, <2>1, MinIs
  <2> HIDE DEF m, rest
  <2> DEFINE j == m - 1
             k == m + 1
             d == c + j
             q == c + k
  <2>3. j \in Nat /\ j <= n /\ k \in Nat /\ k <= n /\ 0 <= j /\ j <= k /\ m \in Nat /\ (m + 2 = k + 1)
    BY <1>3, <2>2
  <2>4. d \in Nat /\ d <= p /\ q \in Nat /\ q <= p /\ c <= d /\ d <= q
    BY <1>2, <1>3, <2>3
  <2>5. frame = SubSeq(text, c + 1, d)
    <3>1. 0 \in 0 .. p - c /\ j \in 0 .. p - c
      BY <1>2, <1>3, <2>3 DEF n
    <3> HIDE DEF j
    <3>2. SubSeq(SubSeq(text, c + 1, p), 0 + 1, j) = SubSeq(text, (c + 0) + 1, c + j)
      BY <1>0, <1>2, <2>3, <3>1, SegmentOf
    <3>3. 0 + 1 = 1 /\ (c + 0) + 1 = c + 1
      BY <1>2
    <3> QED  BY <1>1, <3>2, <3>3 DEF j
  <2>6. g.rest = SubSeq(text, q + 1, p)
    <3>1. k \in 0 .. p - c /\ n \in 0 .. p - c
      BY <1>2, <1>3, <2>3 DEF n
    <3> HIDE DEF k
    <3>2. SubSeq(SubSeq(text, c + 1, p), k + 1, n) = SubSeq(text, (c + k) + 1, c + n)
      BY <1>0, <1>2, <2>3, <3>1, SegmentOf
    <3>3. g.rest = SubSeq(rest, k + 1, n)
      BY <1>3, <2>3
    <3> QED  BY <1>1, <1>3, <3>2, <3>3
  <2> DEFINE z == ObserveFrame(f.o, frame)
             t == TailEnd(f.o, frame)
             e == c + t
  <2> HIDE DEF frame, d, q
  <2>7. t \in 0 .. d - c /\ z \in O[c + t]
    <3>1. d \in 0 .. Len(text)
      BY <1>0, <2>4
    <3>2. frame = SubSeq(text, c + 1, d) /\ c <= d
      BY <2>4, <2>5
    <3> QED  BY <1>1, <1>2, <3>1, <3>2, FrameRead
  <2> HIDE DEF z, t
  <2>8. e \in 0 .. Len(text) /\ q \in 0 .. Len(text) /\ e <= q
    BY <1>0, <1>2, <2>4, <2>7
  <2>9. z \in O[q]
    <3> HIDE DEF e
    <3>1. z \in O[e]
      BY <2>7 DEF e
    <3> QED  BY <2>8, <3>1 DEF Chain
  <2>10. q \in 0 .. p
    BY <1>0, <2>4
  <2>11. g.o = z
    BY DEF z
  <2> HIDE DEF g
  <2>12. Framing(text, O, p, g)
    BY <2>6, <2>9, <2>10, <2>11 DEF Framing
  <2> QED  BY <1>4, <1>6, <2>12
<1> QED  BY <1>5, <1>6

LEMMA FramesRead ==
  ASSUME NEW text, NEW O, Chain(text, O), NEW p \in 0 .. Len(text), NEW c \in 0 .. p, NEW o \in O[c]
  PROVE  Framing(text, O, p, ObserveFrames(o, SubSeq(text, c + 1, p)))
<1> DEFINE data == SubSeq(text, c + 1, p)
           n == Len(data)
           r == o.residual
           R == Readings(r)
           S == {f \in R : Framing(text, O, p, f)}
<1>0. Len(text) \in Nat /\ text \in Texts /\ p \in Nat /\ c \in 0 .. Len(text) /\ c <= p
  BY DEF Chain, Texts
<1>1. data \in Texts /\ n \in Nat
  BY <1>0, Segment DEF Texts
<1>2. o \in Holding(r)
  BY <1>0 DEF Chain, Holding
<1>3. Framing(text, O, p, [o |-> o, rest |-> data])
  BY DEF Framing
<1> HIDE DEF data, r
<1>4. PICK f \in [0 .. n -> R] :
            /\ f[0] = [o |-> o, rest |-> data] /\ ObserveFrames(o, data) = f[n]
            /\ \A i \in 1 .. n : f[i] = ObserveNext(f[i - 1])
  BY <1>1, <1>2, ObserveFramesLoop
<1> HIDE DEF n, R
<1>5. f[0] \in S
  <2>1. 0 \in 0 .. n
    BY <1>1
  <2> QED  BY <1>3, <1>4, <2>1
<1>6. \A i \in 1 .. n : f[i - 1] \in S => f[i] \in S
  <2> SUFFICES ASSUME NEW i \in 1 .. n, f[i - 1] \in S PROVE f[i] \in S
    OBVIOUS
  <2>1. f[i] = ObserveNext(f[i - 1]) /\ f[i] \in R
    <3>1. i \in 0 .. n
      BY <1>1
    <3> QED  BY <1>4, <3>1
  <2> DEFINE h == f[i - 1]
  <2>2. Framing(text, O, p, h)
    OBVIOUS
  <2> HIDE DEF h
  <2>3. Framing(text, O, p, ObserveNext(h))
    BY <2>2, NextRead
  <2> QED  BY <2>1, <2>3 DEF h
<1> HIDE DEF S
<1>7. f[n] \in S
  <2>1. \A i \in 0 .. n : f[i] \in S
    BY <1>1, <1>5, <1>6, LoopTyped
  <2> QED  BY <1>1, <2>1
<1> QED  BY <1>4, <1>7 DEF S, data

-----------------------------------------------------------------------------
(* One chunk, one body, the flush.                                            *)

LEMMA ReadAll ==
  ASSUME NEW text, NEW O, Chain(text, O), NEW p \in 0 .. Len(text), NEW o \in O[p], o.residual = <<>>
  PROVE  Reading(text, O, p, o)
<1>1. p \in Nat /\ p \in 0 .. p
  OBVIOUS
<1>2. SubSeq(text, p + 1, p) = <<>>
  BY <1>1, SubSeqEmpty
<1> QED  BY <1>1, <1>2 DEF Reading

LEMMA Forgets ==
  ASSUME NEW text, NEW O, Chain(text, O), NEW p \in 0 .. Len(text), NEW o \in O[p], NEW r \in Texts
  PROVE  [o EXCEPT !.residual = r] \in O[p] /\ [o EXCEPT !.residual = r].residual = r
<1>1. o \in Observers
  BY DEF Chain
<1>2. [o EXCEPT !.residual = r].residual = r
  BY <1>1 DEF Observers
<1> QED  BY <1>2 DEF Chain

\* What no separator ended: read as far as it parses, the rest kept or dropped.
LEMMA TailRead ==
  ASSUME NEW text, NEW O, Chain(text, O), NEW p \in 0 .. Len(text), NEW c \in 0 .. p, NEW o \in O[c],
         o.residual = <<>>
  PROVE  Reading(text, O, p, ObserveTail(o, SubSeq(text, c + 1, p)))
<1> DEFINE data == SubSeq(text, c + 1, p)
           t == TailEnd(o, data)
           d == c + t
           g == ObserveFrame(o, data)
           left == SubSeq(data, t + 1, Len(data))
<1>0. Len(text) \in Nat /\ text \in Texts /\ p \in Nat /\ c \in Nat /\ c \in 0 .. Len(text) /\ c <= p
  BY DEF Chain, Texts
<1>1. data \in Texts /\ Len(data) = p - c
  BY <1>0, Segment
<1>2. t \in 0 .. p - c /\ g \in O[d]
  BY <1>0, FrameRead
<1>3. g \in Holding(<<>>)
  <2>1. o \in Holding(<<>>)
    BY <1>0 DEF Chain, Holding
  <2> HIDE DEF data
  <2> QED  BY <1>1, <2>1, ObserveFrameType
<1> HIDE DEF g, t
<1>4. d \in 0 .. p /\ d \in 0 .. Len(text) /\ left = SubSeq(text, d + 1, p)
  <2> DEFINE n == p - c
  <2>1. t \in 0 .. n /\ n \in 0 .. n /\ t <= n /\ n \in Nat /\ c + n = p
    BY <1>0, <1>2
  <2>2. SubSeq(data, t + 1, n) = SubSeq(text, (c + t) + 1, c + n) /\ c + t \in 0 .. p
    BY <1>0, <2>1, SegmentOf
  <2>3. d \in 0 .. Len(text)
    BY <1>0, <2>1
  <2> QED  BY <1>1, <2>1, <2>2, <2>3
<1>5. left \in Texts
  <2>1. d <= p
    BY <1>0, <1>4
  <2> HIDE DEF d, left
  <2> QED  BY <1>0, <1>4, <2>1, Segment
<1>6. ObserveTail(o, data) = IF Blank(data) THEN o ELSE Buffered(g, left)
  BY DEF ObserveTail, g, t
<1> HIDE DEF left, d
<1>7. \A q \in 0 .. p : \A x : x \in O[q] /\ x.residual = <<>> => Reading(text, O, p, x)
  <2> SUFFICES ASSUME NEW q \in 0 .. p, NEW x, x \in O[q], x.residual = <<>> PROVE Reading(text, O, p, x)
    OBVIOUS
  <2>1. q \in 0 .. Len(text) /\ q <= p
    BY <1>0
  <2>2. x \in O[p]
    BY <2>1 DEF Chain
  <2> QED  BY <2>2, ReadAll
<1>8. CASE Blank(data)
  BY <1>6, <1>7, <1>8
<1>9. CASE ~Blank(data) /\ (Blank(left) \/ Len(left) > MaxResidual)
  <2>1. ObserveTail(o, data) = g
    BY <1>6, <1>9 DEF Buffered
  <2>2. g.residual = <<>>
    BY <1>3 DEF Holding
  <2> QED  BY <1>2, <1>4, <1>7, <2>1, <2>2
<1>10. CASE ~Blank(data) /\ ~(Blank(left) \/ Len(left) > MaxResidual)
  <2> DEFINE k == [g EXCEPT !.residual = left]
  <2>1. ObserveTail(o, data) = k
    BY <1>6, <1>10 DEF Buffered
  <2>2. k \in O[d] /\ k.residual = left
    <3>1. d \in 0 .. Len(text) /\ g \in O[d]
      BY <1>2, <1>4
    <3>2. g \in Observers /\ k \in O[d]
      BY <1>5, <3>1 DEF Chain
    <3>3. k.residual = left
      BY <3>2 DEF Observers
    <3> QED  BY <3>2, <3>3
  <2> HIDE DEF k
  <2> QED  BY <1>4, <2>1, <2>2 DEF Reading
<1> QED  BY <1>8, <1>9, <1>10 DEF data

\* One more chunk: what was held and what arrives are one piece of the text.
LEMMA StreamRead ==
  ASSUME NEW text, NEW O, Chain(text, O), NEW p \in 0 .. Len(text), NEW q \in 0 .. Len(text), p <= q,
         NEW o, Reading(text, O, p, o)
  PROVE  Reading(text, O, q, ObserveStream(o, SubSeq(text, p + 1, q)))
<1> DEFINE chunk == SubSeq(text, p + 1, q)
           bare == [o EXCEPT !.residual = <<>>]
<1>0. Len(text) \in Nat /\ text \in Texts /\ p \in Nat /\ q \in Nat
  BY DEF Chain, Texts
<1>1. PICK c \in 0 .. p : o \in O[c] /\ o.residual = SubSeq(text, c + 1, p)
  BY DEF Reading
<1>2. c \in Nat /\ c \in 0 .. Len(text) /\ c \in 0 .. q /\ c <= p
  BY <1>0
<1>3. o.residual \o chunk = SubSeq(text, c + 1, q)
  <2> DEFINE m == c + 1
  <2>1. m \in 1 .. Len(text) + 1 /\ p \in m - 1 .. Len(text) /\ q \in p .. Len(text)
    BY <1>0, <1>2
  <2> HIDE DEF m
  <2>2. SubSeq(text, m, p) \o SubSeq(text, p + 1, q) = SubSeq(text, m, q)
    BY <1>0, <2>1, ConcatAdjacentSubSeq DEF Texts
  <2> QED  BY <1>1, <2>2 DEF m
<1> DEFINE data == SubSeq(text, c + 1, q)
           framed == ObserveFrames(bare, data)
<1>4. ObserveStream(o, chunk) = ObserveTail(framed.o, framed.rest)
  BY <1>3 DEF ObserveStream, AfterFrames
<1>5. bare \in O[c] /\ bare.residual = <<>>
  BY <1>1, <1>2, Emptied, Forgets
<1>6. bare \in Holding(<<>>)
  BY <1>2, <1>5 DEF Chain, Holding
<1> HIDE DEF bare
<1>7. Framing(text, O, q, framed)
  BY <1>2, <1>5, FramesRead
<1>8. framed.o \in Holding(<<>>)
  <2>1. data \in Texts
    BY <1>0, <1>2, Segment
  <2> HIDE DEF data
  <2>2. framed \in Readings(<<>>)
    BY <1>6, <2>1, ObserveFramesType
  <2> QED  BY <2>2 DEF Readings
<1> HIDE DEF framed
<1>9. PICK d \in 0 .. q : framed.o \in O[d] /\ framed.rest = SubSeq(text, d + 1, q)
  BY <1>7 DEF Framing
<1> DEFINE g == framed.o
<1>10. g \in O[d] /\ g.residual = <<>>
  BY <1>8, <1>9 DEF Holding
<1> HIDE DEF g, chunk
<1>11. Reading(text, O, q, ObserveTail(g, SubSeq(text, d + 1, q)))
  BY <1>10, TailRead
<1> QED  BY <1>4, <1>9, <1>11 DEF g, chunk

LEMMA FlushRead ==
  ASSUME NEW text, NEW O, Chain(text, O), NEW p \in 0 .. Len(text), NEW o, Reading(text, O, p, o)
  PROVE  Flush(o) \in O[p] /\ Flush(o).residual = <<>>
<1>0. Len(text) \in Nat /\ text \in Texts /\ p \in Nat
  BY DEF Chain, Texts
<1>1. PICK c \in 0 .. p : o \in O[c] /\ o.residual = SubSeq(text, c + 1, p)
  BY DEF Reading
<1>2. c \in Nat /\ c \in 0 .. Len(text) /\ c <= p
  BY <1>0
<1> DEFINE t == TailEnd(o, o.residual)
           d == c + t
           g == ObserveFrame(o, o.residual)
<1>3. t \in 0 .. p - c /\ g \in O[d]
  <2> DEFINE s == SubSeq(text, c + 1, p)
  <2>1. TailEnd(o, s) \in 0 .. p - c /\ ObserveFrame(o, s) \in O[c + TailEnd(o, s)]
    BY <1>1, <1>2, FrameRead
  <2> QED  BY <1>1, <2>1
<1> HIDE DEF g, t
<1>4. d \in 0 .. Len(text) /\ d <= p
  BY <1>0, <1>2, <1>3
<1> HIDE DEF d
<1>5. g \in O[p]
  BY <1>3, <1>4 DEF Chain
<1>6. Flush(o) = [g EXCEPT !.residual = <<>>]
  BY DEF Flush, g
<1> QED  BY <1>5, <1>6, Emptied, Forgets

LEMMA TrimmedWithin ==
  ASSUME NEW T, T \subseteq Tokens, NEW s \in Seq(T)
  PROVE  Trimmed(s) \in Seq(T) /\ Unmarked(s) \in Seq(T)
<1>1. ASSUME NEW x \in Seq(T) PROVE Trimmed(x) \in Seq(T)
  <2> DEFINE kept == {i \in DOMAIN x : x[i] # NL}
             n == Len(x)
  <2>0. DOMAIN x = 1 .. n /\ n \in Nat /\ \A i \in 1 .. n : x[i] \in T
    OBVIOUS
  <2>1. kept \subseteq 1 .. n /\ kept \subseteq Nat
    BY <2>0
  <2>2. Trimmed(x) = IF kept = {} THEN <<>> ELSE SubSeq(x, Min(kept), Max(kept))
    BY DEF Trimmed
  <2> HIDE DEF kept, n
  <2>3. CASE kept = {}
    BY <2>2, <2>3
  <2>4. CASE kept # {}
    <3>1. Min(kept) \in kept
      BY <2>1, <2>4, MinIs
    <3>2. Max(kept) \in kept
      <4>1. PICK m \in kept : \A k \in kept : k <= m
        BY <2>0, <2>1, <2>4, Greatest
      <4>2. \A k \in kept : k \in Nat
        BY <2>1
      <4> QED  BY <4>1, <4>2 DEF Max
    <3> DEFINE l == Min(kept)
               h == Max(kept)
    <3>3. l \in 1 .. n /\ h \in 1 .. n /\ Trimmed(x) = SubSeq(x, l, h)
      BY <2>1, <2>2, <2>4, <3>1, <3>2
    <3> HIDE DEF l, h
    <3>4. l \in Int /\ h \in Int /\ \A i \in l .. h : x[i] \in T
      BY <2>0, <3>3
    <3> QED  BY <3>3, <3>4, SubSeqProperties
  <2> QED  BY <2>3, <2>4
<1>2. s # <<>> => Tail(s) \in Seq(T)
  BY HeadTailProperties
<1>3. s # <<>> => Trimmed(Tail(s)) \in Seq(T)
  BY <1>1, <1>2
<1> DEFINE Q == Seq(T)
<1> HIDE DEF Q
<1>4. Unmarked(s) \in Q
  BY <1>3 DEF Unmarked, Q
<1> QED  BY <1>1, <1>4 DEF Q

LEMMA CallbackRead ==
  ASSUME NEW text, NEW O, Chain(text, O), NEW p \in 0 .. Len(text), NEW q \in 0 .. Len(text), p <= q,
         NEW o, Reading(text, O, p, o)
  PROVE  Reading(text, O, q, ObserveCallback(o, SubSeq(text, p + 1, q)))
<1> DEFINE chunk == SubSeq(text, p + 1, q)
           payload == Unmarked(Trimmed(chunk))
           bare == [o EXCEPT !.residual = <<>>]
           W == Within(text, p, q)
<1>0. Len(text) \in Nat /\ text \in Texts /\ p \in Nat /\ q \in Nat
  BY DEF Chain, Texts
<1>1. bare \in O[p] /\ bare.residual = <<>> /\ bare \in O[q]
  <2>1. PICK c \in 0 .. p : o \in O[c]
    BY DEF Reading
  <2>2. c \in 0 .. Len(text) /\ c <= p
    BY <1>0
  <2>3. o \in O[p] /\ o \in O[q]
    BY <2>1, <2>2 DEF Chain
  <2> QED  BY <2>3, Emptied, Forgets
<1>2. payload \in Seq(W)
  <2>1. W \subseteq Tokens
    BY <1>0, WithinTokens
  <2>2. chunk \in Seq(W)
    <3>1. \A i \in p + 1 .. q : text[i] \in W
      BY DEF Within
    <3>2. p + 1 \in Int /\ q \in Int
      BY <1>0
    <3> HIDE DEF W
    <3> QED  BY <3>1, <3>2, SubSeqProperties
  <2> HIDE DEF W, chunk
  <2>3. Trimmed(chunk) \in Seq(W)
    BY <2>1, <2>2, TrimmedWithin
  <2> QED  BY <2>1, <2>3, TrimmedWithin
<1>3. ObserveCallback(o, chunk) = CallbackWith(o, chunk, payload)
  BY DEF ObserveCallback
<1>4. ValidPayload(payload) => Reading(text, O, q, ObservePayload(bare, payload, "chunk"))
  <2> SUFFICES ASSUME ValidPayload(payload) PROVE Reading(text, O, q, ObservePayload(bare, payload, "chunk"))
    OBVIOUS
  <2> HIDE DEF bare, payload
  <2>1. ObservePayload(bare, payload, "chunk") \in O[q]
    BY <1>1, <1>2, PayloadRead
  <2>2. bare \in Holding(<<>>)
    BY <1>1 DEF Chain, Holding
  <2>3. payload \in Texts
    <3>1. W \subseteq Tokens
      BY <1>0, WithinTokens
    <3> HIDE DEF W
    <3> QED  BY <1>2, <3>1, SeqMonotonic DEF Texts
  <2>4. ObservePayload(bare, payload, "chunk") \in Holding(<<>>)
    BY <2>2, <2>3, ObservePayloadType
  <2> DEFINE g == ObservePayload(bare, payload, "chunk")
  <2>5. g \in O[q] /\ g.residual = <<>>
    BY <2>1, <2>4 DEF Holding
  <2> HIDE DEF g
  <2>6. Reading(text, O, q, g)
    BY <2>5, ReadAll
  <2> QED  BY <2>6 DEF g
<1>5. Reading(text, O, q, bare)
  <2> HIDE DEF bare
  <2> QED  BY <1>1, ReadAll
<1>6. Reading(text, O, q, ObserveStream(o, chunk))
  BY StreamRead
<1> HIDE DEF payload, chunk
<1> QED  BY <1>3, <1>4, <1>5, <1>6 DEF CallbackWith, chunk

\* A body that comes in one piece.
LEMMA BodyRead ==
  ASSUME NEW text, NEW O, Chain(text, O), NEW o \in O[0], o.residual = <<>>
  PROVE  ObserveBody(o, text) \in O[Len(text)] /\ ObserveBody(o, text).residual = <<>>
<1> DEFINE n == Len(text)
<1>0. n \in Nat /\ text \in Texts /\ 0 \in 0 .. n /\ n \in 0 .. n /\ 0 <= n
  BY DEF Chain, Texts
<1>1. SubSeq(text, 0 + 1, n) = text
  <2>1. SubSeq(text, 1, Len(text)) = text
    BY <1>0, SubSeqFull DEF Texts
  <2> QED  BY <2>1
<1>2. o \in O[n] /\ o \in Holding(<<>>)
  BY <1>0 DEF Chain, Holding
<1>3. Reading(text, O, 0, o)
  BY <1>0, ReadAll
<1>4. Reading(text, O, n, ObserveStream(o, text))
  BY <1>0, <1>1, <1>3, StreamRead
<1>5. Flush(ObserveStream(o, text)) \in O[n] /\ Flush(ObserveStream(o, text)).residual = <<>>
  BY <1>0, <1>4, FlushRead
<1>6. ValidPayload(text) => ObservePayload(o, text, "") \in O[n] /\ ObservePayload(o, text, "").residual = <<>>
  <2> SUFFICES ASSUME ValidPayload(text)
               PROVE  ObservePayload(o, text, "") \in O[n] /\ ObservePayload(o, text, "").residual = <<>>
    OBVIOUS
  <2>1. text \in Seq(Within(text, 0, n))
    <3>1. \A i \in 1 .. n : text[i] \in Within(text, 0, n)
      <4>1. \A i \in 1 .. n : i \in 0 + 1 .. n
        OBVIOUS
      <4> QED  BY <4>1 DEF Within
    <3> DEFINE W == Within(text, 0, n)
    <3> HIDE DEF W
    <3> QED  BY <1>0, <3>1 DEF Texts, W
  <2>2. ObservePayload(o, text, "") \in O[n]
    BY <1>0, <2>1, PayloadRead
  <2>3. ObservePayload(o, text, "") \in Holding(<<>>)
    BY <1>0, <1>2, ObservePayloadType
  <2> QED  BY <2>2, <2>3 DEF Holding
<1> HIDE DEF n
<1>7. ObserveBody(o, text) \in O[n] /\ ObserveBody(o, text).residual = <<>>
  BY <1>2, <1>5, <1>6 DEF ObserveBody
<1> QED  BY <1>7 DEF n

-----------------------------------------------------------------------------
(* What an observer has read: one declaration more.                           *)

\* What an observer has read: of the event whose payload ends at a place of the text, one
\* declaration, its model and whether it was taken for a terminal one.
Items(p) == [place : 1 .. p, item : Nat \ {0}, model : Models \ {NoModel}, terminal : BOOLEAN]

\* It is what the event declares, and terminal by its own type if it has one.
AsDeclared(text, r) ==
    LET declared == Declares(text[r.place].e)
    IN /\ text[r.place].k = "close" /\ r.item \in DOMAIN declared
       /\ r.model = declared[r.item].model
       /\ declared[r.item].type # "" => r.terminal = Terminal(declared[r.item].type)

\* One after the other, none twice.
Before(r, s) == r.place < s.place \/ (r.place = s.place /\ r.item < s.item)
Ordered(read) == \A i, j \in DOMAIN read : i < j => Before(read[i], read[j])

\* Of an event all that names a model.
WholeAt(text, read, q, last) ==
    \A m \in 1 .. last : Declares(text[q].e)[m].model # NoModel =>
        \E j \in DOMAIN read : read[j].place = q /\ read[j].item = m
Whole(text, read) ==
    \A i \in DOMAIN read : WholeAt(text, read, read[i].place, Len(Declares(text[read[i].place].e)))

\* The observer says of it what it should.
Tells(o, read) == Verdict(o) = Wins(read) /\ o.conflict = Disagree(read)
Told(o, read) ==
    /\ Tells(o, read)
    /\ o.terminal = NoModel <=> \A i \in DOMAIN read : ~read[i].terminal

LEMMA MaxIs ==
  ASSUME NEW n \in Nat, NEW T, T \subseteq 1 .. n, T # {}
  PROVE  Max(T) \in T /\ \A k \in T : k <= Max(T)
<1>1. PICK m \in T : \A k \in T : k <= m
  BY Greatest
<1>2. \A k \in T : k \in Nat
  OBVIOUS
<1> QED  BY <1>1, <1>2 DEF Max

LEMMA MaxUnique ==
  ASSUME NEW n \in Nat, NEW T, T \subseteq 1 .. n, NEW m \in T, \A k \in T : k <= m
  PROVE  Max(T) = m
<1>1. Max(T) \in T /\ \A k \in T : k <= Max(T)
  BY MaxIs
<1> DEFINE x == Max(T)
<1> HIDE DEF x
<1>2. x \in 1 .. n /\ m \in 1 .. n /\ x <= m /\ m <= x
  BY <1>1 DEF x
<1>3. x = m
  BY <1>2
<1> QED  BY <1>3 DEF x

\* One more declaration read.
LEMMA ToldAppend ==
  ASSUME NEW o \in Observers, NEW C, NEW read \in Seq(C), NEW r \in C,
         \A x \in C : x.model \in Models /\ x.model # NoModel /\ x.terminal \in BOOLEAN,
         Told(o, read)
  PROVE  Told(Observe(o, r.model, r.terminal), Append(read, r))
<1> DEFINE n == Len(read)
           y == Append(read, r)
           g == Observe(o, r.model, r.terminal)
           ends == {i \in DOMAIN read : read[i].terminal}
           last == {i \in DOMAIN y : y[i].terminal}
<1>1. /\ n \in Nat /\ DOMAIN read = 1 .. n /\ \A i \in 1 .. n : read[i] \in C
      /\ read = <<>> <=> n = 0
  OBVIOUS
<1>2. /\ y \in Seq(C) /\ y # <<>> /\ Len(y) = n + 1 /\ DOMAIN y = 1 .. n + 1
      /\ y[n + 1] = r /\ \A i \in 1 .. n : y[i] = read[i]
  BY AppendProperties
<1>3. r.model # NoModel /\ r.terminal \in BOOLEAN
  OBVIOUS
<1>4. /\ g.conflict = (o.conflict \/ (Verdict(o) # NoModel /\ Verdict(o) # r.model))
      /\ g.terminal = IF r.terminal THEN r.model ELSE o.terminal
      /\ g.first = IF ~r.terminal /\ o.first = NoModel THEN r.model ELSE o.first
  BY <1>3 DEF Observe, Observers
<1>5. Verdict(o) = Wins(read) /\ o.conflict = Disagree(read)
      /\ (o.terminal = NoModel <=> ends = {})
  BY DEF Told, Tells
<1>6. Wins(read) = IF read = <<>> THEN NoModel ELSE IF ends # {} THEN read[Max(ends)].model ELSE read[1].model
  BY DEF Wins
<1>7. Wins(y) = IF last # {} THEN y[Max(last)].model ELSE y[1].model
  BY <1>2 DEF Wins
<1> HIDE DEF n, y, g
<1>8. ends \subseteq 1 .. n /\ last \subseteq 1 .. n + 1 /\ n + 1 \in Nat /\ n + 1 \in 1 .. n + 1
  BY <1>1, <1>2
<1>9. \A i \in 1 .. n : i \in 1 .. n + 1 /\ i # n + 1 /\ i <= n + 1
  BY <1>1
<1>10. last = IF r.terminal THEN ends \cup {n + 1} ELSE ends
  <2>1. \A i \in 1 .. n + 1 : i \in 1 .. n \/ i = n + 1
    BY <1>1
  <2> QED  BY <1>1, <1>2, <1>9, <2>1
<1> HIDE DEF ends, last
<1>11. g.terminal = NoModel <=> last = {}
  BY <1>3, <1>4, <1>5, <1>10
<1>12. Verdict(g) = Wins(y)
  <2>1. CASE r.terminal
    <3>1. n + 1 \in last /\ \A k \in last : k <= n + 1
      BY <1>8, <1>9, <1>10, <2>1
    <3>2. Max(last) = n + 1
      BY <1>8, <3>1, MaxUnique
    <3>3. Wins(y) = r.model
      BY <1>2, <1>7, <3>1, <3>2
    <3> QED  BY <1>3, <1>4, <2>1, <3>3 DEF Verdict
  <2>2. CASE ~r.terminal /\ ends # {}
    <3>1. Max(ends) \in ends
      BY <1>1, <1>8, <2>2, MaxIs
    <3>2. read # <<>> /\ y[Max(ends)] = read[Max(ends)]
      <4>1. Max(ends) \in 1 .. n
        BY <1>8, <3>1
      <4>2. n # 0
        BY <1>1, <4>1
      <4> QED  BY <1>1, <1>2, <4>1, <4>2
    <3>3. Wins(y) = Wins(read)
      BY <1>6, <1>7, <1>10, <2>2, <3>2
    <3> QED  BY <1>4, <1>5, <2>2, <3>3 DEF Verdict
  <2>3. CASE ~r.terminal /\ ends = {} /\ n = 0
    <3>1. Wins(read) = NoModel /\ y[1] = r
      BY <1>1, <1>2, <1>6, <2>3
    <3>2. Wins(y) = r.model
      BY <1>7, <1>10, <2>3, <3>1
    <3>3. o.first = NoModel
      BY <1>5, <2>3, <3>1 DEF Verdict
    <3> QED  BY <1>4, <1>5, <2>3, <3>2, <3>3 DEF Verdict
  <2>4. CASE ~r.terminal /\ ends = {} /\ n # 0
    <3>1. 1 \in 1 .. n
      BY <1>1, <2>4
    <3>2. y[1] = read[1] /\ read[1].model # NoModel
      BY <1>1, <1>2, <3>1
    <3>3. Wins(read) = read[1].model /\ Wins(y) = read[1].model
      BY <1>1, <1>6, <1>7, <1>10, <2>4, <3>2
    <3>4. o.first = read[1].model
      BY <1>5, <2>4, <3>3 DEF Verdict
    <3> QED  BY <1>4, <1>5, <2>4, <3>2, <3>3, <3>4 DEF Verdict
  <2> QED  BY <2>1, <2>2, <2>3, <2>4
<1>13. g.conflict = Disagree(y)
  <2> DEFINE A == Verdict(o) # NoModel /\ Verdict(o) # r.model
  <2>9. g.conflict = (Disagree(read) \/ A)
    BY <1>4, <1>5
  <2> SUFFICES Disagree(read) \/ A <=> Disagree(y)
    <3>1. \A x : Disagree(x) \in BOOLEAN
      BY DEF Disagree
    <3>2. \A x, z \in BOOLEAN : (x <=> z) => x = z
      OBVIOUS
    <3>3. (Disagree(read) \/ A) \in BOOLEAN /\ Disagree(y) \in BOOLEAN
      BY <3>1
    <3> HIDE DEF A
    <3> QED  BY <2>9, <3>2, <3>3
  <2>0. /\ Disagree(read) <=> \E i, j \in 1 .. n : read[i].model # read[j].model
        /\ Disagree(y) <=> \E i, j \in 1 .. n + 1 : y[i].model # y[j].model
    BY <1>1, <1>2 DEF Disagree
  <2>1. n # 0 => \E k \in 1 .. n : Wins(read) = read[k].model
    <3> SUFFICES ASSUME n # 0 PROVE \E k \in 1 .. n : Wins(read) = read[k].model
      OBVIOUS
    <3>1. 1 \in 1 .. n
      BY <1>1
    <3>2. ends # {} => Max(ends) \in 1 .. n
      BY <1>1, <1>8, MaxIs
    <3> QED  BY <1>1, <1>6, <3>1, <3>2
  <2>2. n = 0 => Wins(read) = NoModel
    BY <1>1, <1>6
  <2>3. CASE Disagree(read)
    <3>1. Disagree(y)
      BY <1>2, <1>9, <2>0, <2>3
    <3> QED  BY <2>3, <3>1
  <2>4. CASE ~Disagree(read) /\ n = 0
    <3>1. \A i \in 1 .. n + 1 : y[i] = r
      BY <1>2, <2>4
    <3>2. ~Disagree(y)
      BY <2>0, <3>1
    <3> QED  BY <1>5, <2>2, <2>4, <3>2
  <2>5. CASE ~Disagree(read) /\ n # 0
    <3>1. PICK k \in 1 .. n : Wins(read) = read[k].model
      BY <2>1, <2>5
    <3>2. \A i \in 1 .. n : y[i].model = Wins(read)
      BY <1>2, <2>0, <2>5, <3>1
    <3>3. Wins(read) # NoModel
      BY <1>1, <3>1
    <3>4. Disagree(y) <=> Wins(read) # r.model
      <4>1. \A i \in 1 .. n + 1 : i \in 1 .. n \/ i = n + 1
        BY <1>1
      <4>2. y[n + 1].model = r.model /\ y[k].model = Wins(read) /\ k \in 1 .. n + 1
        BY <1>2, <1>9, <3>2
      <4>3. CASE Wins(read) # r.model
        BY <1>8, <2>0, <4>2, <4>3
      <4>4. CASE Wins(read) = r.model
        <5>1. \A i \in 1 .. n + 1 : y[i].model = r.model
          BY <3>2, <4>1, <4>2, <4>4
        <5> QED  BY <2>0, <4>4, <5>1
      <4> QED  BY <4>3, <4>4
    <3> QED  BY <1>5, <2>5, <3>3, <3>4
  <2> QED  BY <2>3, <2>4, <2>5
<1>14. last = {} <=> \A i \in DOMAIN y : ~y[i].terminal
  BY DEF last
<1>15. Told(g, y)
  BY <1>11, <1>12, <1>13, <1>14 DEF Told, Tells
<1> QED  BY <1>15 DEF g, y

-----------------------------------------------------------------------------
(* What an observer has read: one event more.                                 *)

InOrder(text, read) ==
    (\A i \in DOMAIN read : AsDeclared(text, read[i])) /\ Ordered(read) /\ Whole(text, read)

\* The observers that have read, up to each place of a text, events that have arrived.
Knowing(text) ==
    [p \in 0 .. Len(text) |->
        {o \in Observers : \E read \in Seq(Items(p)) : InOrder(text, read) /\ Told(o, read)}]

\* The same in the middle of the event that ends at p, its first k declarations read.
Halfway(text, p, k, read) ==
    /\ read \in Seq(Items(p))
    /\ \A i \in DOMAIN read : AsDeclared(text, read[i])
    /\ Ordered(read)
    /\ \A i \in DOMAIN read :
          /\ read[i].place = p => read[i].item <= k
          /\ read[i].place # p => WholeAt(text, read, read[i].place, Len(Declares(text[read[i].place].e)))
    /\ WholeAt(text, read, p, k)

LEMMA ClosesEvent ==
  ASSUME NEW text \in Texts, NEW p \in 1 .. Len(text), text[p].k = "close"
  PROVE  text[p].e \in Events /\ Declares(text[p].e) \in Seq(Declarations)
<1>1. text[p] \in Tokens
  BY DEF Texts
<1>2. NL.k = "nl" /\ Marker.k = "data" /\ DoneMark.k = "done"
  BY DEF NL, Marker, DoneMark, Token
<1>3. text[p] \in [k : {"event", "open", "piece", "close"}, e : Events]
  BY <1>1, <1>2 DEF Tokens
<1> QED  BY <1>3, DeclaresType

LEMMA HalfwayNone ==
  ASSUME NEW text \in Texts, NEW p \in 1 .. Len(text), NEW read \in Seq(Items(p - 1)), InOrder(text, read)
  PROVE  Halfway(text, p, 0, read)
<1>0. p \in Nat /\ p - 1 \in Nat
  BY DEF Texts
<1>1. 1 .. p - 1 \subseteq 1 .. p /\ p \notin 1 .. p - 1
  BY <1>0
<1>2. Items(p - 1) \subseteq Items(p)
  BY <1>1 DEF Items
<1> DEFINE C == Items(p - 1)
           D == Items(p)
<1>3. \A x \in C : x.place # p
  BY <1>1 DEF Items
<1> HIDE DEF C, D
<1>4. read \in Seq(C) /\ C \subseteq D
  BY <1>2 DEF C, D
<1>5. read \in Seq(D)
  BY <1>4, SeqMonotonic
<1>6. \A i \in DOMAIN read : read[i].place # p
  BY <1>3, <1>4
<1>7. 1 .. 0 = {}
  OBVIOUS
<1>8. WholeAt(text, read, p, 0)
  BY <1>7 DEF WholeAt
<1> QED  BY <1>5, <1>6, <1>8 DEF Halfway, InOrder, Whole, D

LEMMA HalfwayAll ==
  ASSUME NEW text \in Texts, NEW p \in 1 .. Len(text), NEW read,
         Halfway(text, p, Len(Declares(text[p].e)), read)
  PROVE  read \in Seq(Items(p)) /\ InOrder(text, read)
<1>1. \A i \in DOMAIN read : WholeAt(text, read, read[i].place, Len(Declares(text[read[i].place].e)))
  BY DEF Halfway
<1> QED  BY <1>1 DEF Halfway, InOrder, Whole

\* A declaration that names no model is passed over.
LEMMA HalfwaySkip ==
  ASSUME NEW text \in Texts, NEW p \in 1 .. Len(text), NEW k \in Nat, NEW read, Halfway(text, p, k, read),
         Declares(text[p].e)[k + 1].model = NoModel
  PROVE  Halfway(text, p, k + 1, read)
<1> DEFINE D == Items(p)
<1>1. \A i \in DOMAIN read : read[i].place = p => read[i].item <= k + 1
  <2>1. \A x \in D : x.item \in Nat
    BY DEF Items
  <2> HIDE DEF D
  <2>2. \A i \in DOMAIN read : read[i] \in D
    BY DEF Halfway, D
  <2>3. \A m \in Nat : m <= k => m <= k + 1
    OBVIOUS
  <2> QED  BY <2>1, <2>2, <2>3 DEF Halfway
<1>2. WholeAt(text, read, p, k + 1)
  <2>1. \A m \in 1 .. k + 1 : m \in 1 .. k \/ m = k + 1
    OBVIOUS
  <2>2. WholeAt(text, read, p, k)
    BY DEF Halfway
  <2> QED  BY <2>1, <2>2 DEF WholeAt
<1> QED  BY <1>1, <1>2 DEF Halfway

LEMMA HalfwayAppend ==
  ASSUME NEW text \in Texts, NEW p \in 1 .. Len(text), NEW k \in Nat, NEW read, Halfway(text, p, k, read),
         NEW r \in Items(p), r.place = p, r.item = k + 1, AsDeclared(text, r)
  PROVE  Halfway(text, p, k + 1, Append(read, r))
<1> DEFINE C == Items(p)
           n == Len(read)
           y == Append(read, r)
<1>0. \A x \in C : x.item \in Nat /\ x.place \in Nat /\ x.place <= p
  BY DEF Items, Texts
<1> HIDE DEF C
<1>1. read \in Seq(C) /\ n \in Nat /\ DOMAIN read = 1 .. n /\ \A i \in 1 .. n : read[i] \in C
  BY DEF Halfway, C
<1>2. /\ y \in Seq(C) /\ Len(y) = n + 1 /\ DOMAIN y = 1 .. n + 1
      /\ y[n + 1] = r /\ \A i \in 1 .. n : y[i] = read[i]
  <2>1. r \in C
    BY DEF C
  <2> QED  BY <1>1, <2>1, AppendProperties
<1> HIDE DEF n, y
<1>3. /\ \A i \in 1 .. n : i \in 1 .. n + 1 /\ i < n + 1
      /\ \A i \in 1 .. n + 1 : i \in 1 .. n \/ i = n + 1
      /\ n + 1 \in 1 .. n + 1
  BY <1>1
<1>4. \A i \in DOMAIN y : AsDeclared(text, y[i])
  BY <1>1, <1>2, <1>3 DEF Halfway
<1>5. Ordered(y)
  <2> SUFFICES ASSUME NEW i \in 1 .. n + 1, NEW j \in 1 .. n + 1, i < j PROVE Before(y[i], y[j])
    BY <1>2 DEF Ordered
  <2>1. i \in 1 .. n
    BY <1>1
  <2>2. CASE j \in 1 .. n
    BY <1>1, <1>2, <2>1, <2>2 DEF Halfway, Ordered
  <2>3. CASE j = n + 1
    <3>1. y[i] = read[i] /\ read[i] \in C /\ y[j] = r
      BY <1>1, <1>2, <2>1, <2>3
    <3>2. read[i].place \in Nat /\ read[i].place <= p /\ read[i].item \in Nat
      BY <1>0, <3>1
    <3>3. read[i].place = p => read[i].item <= k
      BY <1>1, <2>1 DEF Halfway
    <3>4. p \in Nat
      BY DEF Texts
    <3> DEFINE a == read[i].place
               b == read[i].item
    <3> HIDE DEF a, b
    <3>5. a < p \/ (a = p /\ b < k + 1)
      BY <3>2, <3>3, <3>4 DEF a, b
    <3> QED  BY <3>1, <3>5 DEF Before, a, b
  <2> QED  BY <1>3, <2>2, <2>3
<1>6. \A q, last : WholeAt(text, read, q, last) => WholeAt(text, y, q, last)
  <2>1. \A j \in DOMAIN read : j \in DOMAIN y /\ y[j] = read[j]
    BY <1>1, <1>2, <1>3
  <2> QED  BY <2>1 DEF WholeAt
<1>7. ASSUME NEW i \in DOMAIN y
      PROVE  /\ y[i].place = p => y[i].item <= k + 1
             /\ y[i].place # p => WholeAt(text, y, y[i].place, Len(Declares(text[y[i].place].e)))
  <2>1. CASE i = n + 1
    BY <1>2, <2>1
  <2>2. CASE i \in 1 .. n
    <3>1. y[i] = read[i] /\ read[i] \in C /\ i \in DOMAIN read
      BY <1>1, <1>2, <2>2
    <3>2. read[i].place # p => WholeAt(text, y, read[i].place, Len(Declares(text[read[i].place].e)))
      BY <1>6, <3>1 DEF Halfway
    <3>3. read[i].place = p => read[i].item <= k
      BY <3>1 DEF Halfway
    <3> DEFINE b == read[i].item
    <3>4. b \in Nat
      BY <1>0, <3>1
    <3> HIDE DEF b
    <3>5. b <= k => b <= k + 1
      BY <3>4
    <3> QED  BY <3>1, <3>2, <3>3, <3>5 DEF b
  <2> QED  BY <1>2, <1>3, <2>1, <2>2
<1>8. WholeAt(text, y, p, k + 1)
  <2>1. \A m \in 1 .. k + 1 : m \in 1 .. k \/ m = k + 1
    OBVIOUS
  <2>2. WholeAt(text, y, p, k)
    BY <1>6 DEF Halfway
  <2>3. n + 1 \in DOMAIN y /\ y[n + 1].place = p /\ y[n + 1].item = k + 1
    BY <1>2, <1>3
  <2> QED  BY <2>1, <2>2, <2>3 DEF WholeAt
<1> QED  BY <1>2, <1>4, <1>5, <1>7, <1>8 DEF Halfway, C, y

-----------------------------------------------------------------------------
(* The observers that have read what has arrived.                             *)

\* Reading one declaration at its place.
LEMMA DeclarationTold ==
  ASSUME NEW text \in Texts, NEW p \in 1 .. Len(text), text[p].k = "close",
         NEW k \in Nat, k + 1 \in DOMAIN Declares(text[p].e), NEW type, NEW o \in Observers,
         NEW read, Halfway(text, p, k, read), Told(o, read)
  PROVE  LET d == Declares(text[p].e)[k + 1]
             g == Observe(o, d.model, TerminalType(TypeOf(d, type)))
         IN \E next : Halfway(text, p, k + 1, next) /\ Told(g, next)
<1> DEFINE D == Declares(text[p].e)
           d == D[k + 1]
           t == TerminalType(TypeOf(d, type))
           g == Observe(o, d.model, t)
<1>0. d \in Declarations /\ p \in 1 .. p
  <2>1. D \in Seq(Declarations)
    BY ClosesEvent
  <2>2. p \in 1 .. p
    BY DEF Texts
  <2> HIDE DEF D
  <2> QED  BY <2>1, <2>2 DEF D
<1>1. d.model \in Models /\ t \in BOOLEAN
  BY <1>0 DEF Declarations, TerminalType, Terminal
<1>2. d.type # "" => t = Terminal(d.type)
  BY DEF TypeOf, TerminalType, Terminal
<1> HIDE DEF t
<1>3. CASE d.model = NoModel
  <2>1. g = o
    BY <1>3 DEF Observe
  <2>2. Halfway(text, p, k + 1, read)
    BY <1>3, HalfwaySkip
  <2> QED  BY <2>1, <2>2 DEF t
<1>4. CASE d.model # NoModel
  <2> DEFINE r == [place |-> p, item |-> k + 1, model |-> d.model, terminal |-> t]
             C == Items(p)
  <2>1. r \in C
    <3>1. k + 1 \in Nat \ {0}
      OBVIOUS
    <3> QED  BY <1>0, <1>1, <1>4, <3>1 DEF Items
  <2>2. AsDeclared(text, r)
    BY <1>2 DEF AsDeclared
  <2>3. r.place = p /\ r.item = k + 1 /\ r.model = d.model /\ r.terminal = t
    OBVIOUS
  <2> HIDE DEF r
  <2>4. Halfway(text, p, k + 1, Append(read, r))
    BY <2>1, <2>2, <2>3, HalfwayAppend
  <2>5. \A x \in C : x.model \in Models /\ x.model # NoModel /\ x.terminal \in BOOLEAN
    BY DEF Items
  <2>6. read \in Seq(C)
    BY DEF Halfway
  <2> HIDE DEF C
  <2>7. Told(Observe(o, r.model, r.terminal), Append(read, r))
    BY <2>1, <2>5, <2>6, ToldAppend
  <2> QED  BY <2>3, <2>4, <2>7 DEF t
<1> QED  BY <1>3, <1>4

LEMMA EventTold ==
  ASSUME NEW text \in Texts, NEW p \in 1 .. Len(text), text[p].k = "close", NEW type,
         NEW o \in Knowing(text)[p - 1]
  PROVE  ObserveDeclared(o, Declares(text[p].e), type) \in Knowing(text)[p]
<1> DEFINE D == Declares(text[p].e)
           n == Len(D)
           r == o.residual
           H == Holding(r)
<1>0. Len(text) \in Nat /\ p - 1 \in 0 .. Len(text) /\ p \in 0 .. Len(text)
  BY DEF Texts
<1>1. o \in Observers /\ \E read \in Seq(Items(p - 1)) : InOrder(text, read) /\ Told(o, read)
  BY <1>0 DEF Knowing
<1>2. PICK start : Halfway(text, p, 0, start) /\ Told(o, start)
  BY <1>1, HalfwayNone
<1>3. D \in Seq(Declarations) /\ n \in Nat /\ DOMAIN D = 1 .. n
  <2>1. D \in Seq(Declarations)
    BY ClosesEvent
  <2> HIDE DEF D
  <2> QED  BY <2>1
<1>4. o \in H
  BY <1>1 DEF Holding
<1> DEFINE Turn(x, i) == Observe(x, D[i].model, TerminalType(TypeOf(D[i], type)))
<1>5. PICK f \in [0 .. n -> H] :
            /\ f[0] = o /\ ObserveDeclared(o, D, type) = f[n]
            /\ \A i \in 1 .. n : f[i] = Turn(f[i - 1], i)
  <2> HIDE DEF D, r
  <2>1. D \in Seq(Declarations) /\ o \in Holding(r)
    BY <1>3, <1>4
  <2>2. \E f \in [0 .. Len(D) -> Holding(r)] :
            /\ f[0] = o /\ ObserveDeclared(o, D, type) = f[Len(D)]
            /\ \A i \in 1 .. Len(D) : f[i] = Observe(f[i - 1], D[i].model, TerminalType(TypeOf(D[i], type)))
    BY <2>1, ObserveDeclaredLoop, Z3
  <2> QED  BY <2>2
<1>6. H \subseteq Observers
  BY DEF Holding
<1> DEFINE T == {k \in 0 .. n : \E read : Halfway(text, p, k, read) /\ Told(f[k], read)}
<1> HIDE DEF H, r
<1>7. 0 \in T
  BY <1>2, <1>3, <1>5
<1>8. ASSUME NEW k \in 0 .. n - 1, k \in T PROVE k + 1 \in T
  <2>1. k \in Nat /\ k \in 0 .. n /\ k + 1 \in 1 .. n /\ k + 1 \in 0 .. n /\ (k + 1) - 1 = k
    BY <1>3
  <2>2. PICK read : Halfway(text, p, k, read) /\ Told(f[k], read)
    BY <1>8
  <2> DEFINE x == f[k]
             g == Turn(x, k + 1)
  <2>3. f[k + 1] = g
    BY <1>5, <2>1
  <2>4. x \in Observers /\ k + 1 \in DOMAIN D
    BY <1>3, <1>5, <1>6, <2>1
  <2> HIDE DEF x
  <2>5. \E next : Halfway(text, p, k + 1, next) /\ Told(g, next)
    BY <2>1, <2>2, <2>4, DeclarationTold DEF x
  <2> HIDE DEF g
  <2> QED  BY <2>1, <2>3, <2>5
<1> HIDE DEF T
<1>9. n \in T
  <2> HIDE DEF n
  <2>1. 0 .. n \subseteq T
    BY <1>3, <1>7, <1>8, UpTo
  <2> QED  BY <1>3, <2>1
<1> DEFINE g == f[n]
<1>10. g \in Observers
  <2> HIDE DEF n
  <2> QED  BY <1>3, <1>5, <1>6
<1>11. PICK read : Halfway(text, p, n, read) /\ Told(g, read)
  BY <1>9 DEF T
<1> HIDE DEF g
<1>12. read \in Seq(Items(p)) /\ InOrder(text, read)
  BY <1>11, HalfwayAll
<1>13. g \in Knowing(text)[p]
  BY <1>0, <1>10, <1>11, <1>12 DEF Knowing
<1> QED  BY <1>5, <1>13 DEF g

LEMMA KnowingChain ==
  ASSUME NEW text \in Texts
  PROVE  Chain(text, Knowing(text))
<1> DEFINE O == Knowing(text)
           N == Len(text)
           Knows(p, o) == \E read \in Seq(Items(p)) : InOrder(text, read) /\ Told(o, read)
<1>0. N \in Nat /\ \A p \in 0 .. N : O[p] = {o \in Observers : Knows(p, o)}
  BY DEF Knowing, Texts
<1>1. \A p \in 0 .. N : O[p] \subseteq Observers
  <2> HIDE DEF Knows, O
  <2> QED  BY <1>0
<1>2. ASSUME NEW p \in 0 .. N, NEW q \in 0 .. N, p <= q PROVE O[p] \subseteq O[q]
  <2>1. Items(p) \subseteq Items(q)
    <3>1. 1 .. p \subseteq 1 .. q
      BY <1>0, <1>2
    <3> QED  BY <3>1 DEF Items
  <2> DEFINE C == Items(p)
             D == Items(q)
  <2>2. \A read \in Seq(C) : read \in Seq(D)
    <3> HIDE DEF C, D
    <3> QED  BY <2>1, SeqMonotonic DEF C, D
  <2>3. \A o : Knows(p, o) => Knows(q, o)
    BY <2>2
  <2> HIDE DEF Knows, O
  <2> QED  BY <1>0, <2>3
<1>3. \A p \in 1 .. N : text[p].k = "close" =>
          \A o \in O[p - 1] : \A type : ObserveDeclared(o, Declares(text[p].e), type) \in O[p]
  BY EventTold
<1>4. ASSUME NEW p \in 0 .. N, NEW o \in O[p], NEW r \in Texts PROVE [o EXCEPT !.residual = r] \in O[p]
  <2> DEFINE g == [o EXCEPT !.residual = r]
  <2>1. o \in Observers /\ Knows(p, o)
    <3> HIDE DEF Knows, O
    <3> QED  BY <1>0
  <2>2. g \in Observers /\ g.first = o.first /\ g.terminal = o.terminal /\ g.conflict = o.conflict
    BY <2>1 DEF Observers, Texts
  <2> HIDE DEF g
  <2>3. \A read : Told(o, read) => Told(g, read)
    BY <2>2 DEF Told, Tells, Verdict
  <2>4. Knows(p, g)
    BY <2>1, <2>3
  <2>5. g \in O[p]
    <3> HIDE DEF Knows, O
    <3> QED  BY <1>0, <2>2, <2>4
  <2> QED  BY <2>5 DEF g
<1> HIDE DEF O
<1> QED  BY <1>1, <1>2, <1>3, <1>4 DEF Chain, O

-----------------------------------------------------------------------------
(* A step reads on; a verdict is not taken back.                              *)

\* Nothing is read before the response begins.
Begun == at \in {"new", "out"} => pos = 0 /\ seen = NewObserver

\* Whatever the observers one asks for: a step reads on.
LEMMA StepRead ==
  ASSUME Typed, Begun, [Next]_vars, NEW text, text = stream.text, NEW O, Chain(text, O),
         Reading(text, O, pos, seen)
  PROVE  stream' = stream /\ Reading(text, O, pos', seen')
<1>0. text \in Texts /\ Len(text) \in Nat /\ pos \in 0 .. Len(text)
  BY ExchangeType DEF Typed
<1>1. CASE Intercept
  BY <1>1 DEF Intercept, stream
<1>2. CASE Headers
  BY <1>2 DEF Headers, stream
<1>3. CASE WholeBody
  <2>1. pos = 0 /\ seen = NewObserver /\ stream' = stream
    BY <1>3 DEF WholeBody, Begun, stream
  <2>2. PICK c \in 0 .. 0 : seen \in O[c]
    BY <2>1 DEF Reading
  <2>3. c = 0
    BY <2>2
  <2>4. seen \in O[0] /\ seen.residual = <<>>
    BY <2>1, <2>2, <2>3 DEF NewObserver
  <2> DEFINE g == ObserveBody(seen, text)
  <2>5. g \in O[Len(text)] /\ g.residual = <<>>
    BY <2>4, BodyRead
  <2>6. seen' = g /\ pos' = Len(text)
    BY <1>3 DEF WholeBody
  <2> HIDE DEF g
  <2>7. Len(text) \in 0 .. Len(text)
    BY <1>0
  <2> DEFINE n == Len(text)
  <2>8. Reading(text, O, n, g)
    BY <2>5, <2>7, ReadAll
  <2> QED  BY <2>1, <2>6, <2>8
<1>4. CASE Finalize
  <2> DEFINE g == Flush(seen)
  <2>1. seen' = g /\ pos' = pos /\ stream' = stream
    BY <1>4 DEF Finalize, stream
  <2>2. g \in O[pos] /\ g.residual = <<>>
    BY <1>0, FlushRead
  <2> HIDE DEF g
  <2>3. Reading(text, O, pos, g)
    BY <1>0, <2>2, ReadAll
  <2> QED  BY <2>1, <2>3
<1>5. ASSUME NEW end \in 1 .. Len(stream.text), Chunk(end) PROVE stream' = stream /\ Reading(text, O, pos', seen')
  <2>1. seen' = ObserveCallback(seen, SubSeq(text, pos + 1, end)) /\ pos' = end /\ stream' = stream
    BY <1>5 DEF Chunk, stream
  <2>2. pos < end
    <3>1. exchange \in Exchanges /\ end \in exchange.stream.next[pos] /\ pos \in 0 .. Len(exchange.stream.text)
      BY <1>0, <1>5 DEF Chunk, stream, Typed
    <3> QED  BY <3>1, ExchangesAssumption
  <2>3. end \in 0 .. Len(text) /\ pos <= end
    BY <1>0, <1>5, <2>2
  <2>4. Reading(text, O, end, ObserveCallback(seen, SubSeq(text, pos + 1, end)))
    BY <1>0, <2>3, CallbackRead
  <2> QED  BY <2>1, <2>4
<1>6. CASE UNCHANGED vars
  BY <1>6 DEF vars, stream
<1> QED  BY <1>1, <1>2, <1>3, <1>4, <1>5, <1>6 DEF Next

LEMMA StepBegun == Begun /\ [Next]_vars => Begun'
<1> SUFFICES ASSUME Begun, [Next]_vars PROVE Begun'
  OBVIOUS
<1>1. CASE UNCHANGED vars
  BY <1>1 DEF vars, Begun
<1>2. CASE Intercept
  BY <1>2 DEF Intercept, Begun
<1>3. CASE Headers \/ WholeBody \/ Finalize
  BY <1>3 DEF Headers, WholeBody, Finalize, Begun
<1>4. CASE \E end \in 1 .. Len(stream.text) : Chunk(end)
  BY <1>4 DEF Chunk, Begun
<1> QED  BY <1>1, <1>2, <1>3, <1>4 DEF Next

\* An observer that has read on from another: it has taken back neither a verdict nor a
\* conflict, and has changed a verdict only by recording a conflict.
Since(before, o) ==
    /\ before.conflict => o.conflict
    /\ Verdict(before) # NoModel =>
          Verdict(o) # NoModel /\ (Verdict(o) # Verdict(before) => o.conflict)

Later(text, before) == [p \in 0 .. Len(text) |-> {o \in Observers : Since(before, o)}]

LEMMA SinceObserve ==
  ASSUME NEW before, NEW o \in Observers, Since(before, o), NEW model, NEW terminal
  PROVE  Since(before, Observe(o, model, terminal))
<1> DEFINE g == Observe(o, model, terminal)
<1>1. CASE model = NoModel
  BY <1>1 DEF Observe
<1>2. CASE model # NoModel
  <2>1. /\ g.conflict = (o.conflict \/ (Verdict(o) # NoModel /\ Verdict(o) # model))
        /\ g.terminal = IF terminal THEN model ELSE o.terminal
        /\ g.first = IF ~terminal /\ o.first = NoModel THEN model ELSE o.first
    BY <1>2 DEF Observe, Observers
  <2> HIDE DEF g
  <2>2. Verdict(g) \in {Verdict(o), model} /\ (Verdict(o) # NoModel => Verdict(g) # NoModel)
    BY <1>2, <2>1 DEF Verdict
  <2>3. o.conflict => g.conflict
    BY <2>1
  <2>4. Verdict(o) # NoModel /\ Verdict(g) # Verdict(o) => g.conflict
    BY <2>1, <2>2
  <2>5. Since(before, g)
    BY <2>2, <2>3, <2>4 DEF Since
  <2> QED  BY <2>5 DEF g
<1> QED  BY <1>1, <1>2

LEMMA SinceDeclared ==
  ASSUME NEW before, NEW o \in Observers, Since(before, o), NEW D \in Seq(Declarations), NEW type
  PROVE  ObserveDeclared(o, D, type) \in Observers /\ Since(before, ObserveDeclared(o, D, type))
<1> DEFINE n == Len(D)
           r == o.residual
           S == {x \in Observers : Since(before, x)}
<1>1. o \in Holding(r) /\ n \in Nat
  BY DEF Holding
<1> HIDE DEF r
<1>2. PICK f \in [0 .. n -> Holding(r)] :
            /\ f[0] = o /\ ObserveDeclared(o, D, type) = f[n]
            /\ \A i \in 1 .. n : f[i] = Observe(f[i - 1], D[i].model, TerminalType(TypeOf(D[i], type)))
  <2>1. o \in Holding(r)
    BY <1>1
  <2>2. \E f \in [0 .. Len(D) -> Holding(r)] :
            /\ f[0] = o /\ ObserveDeclared(o, D, type) = f[Len(D)]
            /\ \A i \in 1 .. Len(D) : f[i] = Observe(f[i - 1], D[i].model, TerminalType(TypeOf(D[i], type)))
    BY <2>1, ObserveDeclaredLoop, Z3
  <2> QED  BY <2>2
<1>3. \A i \in 0 .. n : f[i] \in Observers
  BY <1>2 DEF Holding
<1> HIDE DEF n
<1>4. \A i \in 1 .. n : f[i - 1] \in S => f[i] \in S
  <2> SUFFICES ASSUME NEW i \in 1 .. n, f[i - 1] \in S PROVE f[i] \in S
    OBVIOUS
  <2>1. i \in 0 .. n
    BY <1>1
  <2>2. f[i] = Observe(f[i - 1], D[i].model, TerminalType(TypeOf(D[i], type))) /\ f[i] \in Observers
    BY <1>2, <1>3, <2>1
  <2> DEFINE x == f[i - 1]
             m == D[i].model
             t == TerminalType(TypeOf(D[i], type))
  <2>3. x \in Observers /\ Since(before, x)
    OBVIOUS
  <2> HIDE DEF x, m, t
  <2>4. Since(before, Observe(x, m, t))
    BY <2>3, SinceObserve
  <2> QED  BY <2>2, <2>4 DEF x, m, t
<1>5. f[0] \in S
  BY <1>2
<1> HIDE DEF S
<1>6. f[n] \in S
  <2>1. \A i \in 0 .. n : f[i] \in S
    BY <1>1, <1>4, <1>5, LoopTyped
  <2> QED  BY <1>1, <2>1
<1> QED  BY <1>2, <1>6 DEF S

LEMMA LaterChain ==
  ASSUME NEW text \in Texts, NEW before
  PROVE  Chain(text, Later(text, before))
<1> DEFINE O == Later(text, before)
           N == Len(text)
           S == {o \in Observers : Since(before, o)}
<1>0. N \in Nat /\ \A p \in 0 .. N : O[p] = S
  BY DEF Later, Texts
<1>1. S \subseteq Observers
  OBVIOUS
<1>2. ASSUME NEW p \in 1 .. N, text[p].k = "close", NEW o \in O[p - 1], NEW type
      PROVE  ObserveDeclared(o, Declares(text[p].e), type) \in O[p]
  <2>1. p \in 0 .. N /\ p - 1 \in 0 .. N
    BY <1>0
  <2>2. o \in S
    BY <1>0, <2>1
  <2> DEFINE D == Declares(text[p].e)
  <2>3. D \in Seq(Declarations)
    BY <1>2, ClosesEvent
  <2> HIDE DEF D
  <2>4. ObserveDeclared(o, D, type) \in S
    BY <2>2, <2>3, SinceDeclared
  <2> QED  BY <1>0, <2>1, <2>4 DEF D
<1>3. ASSUME NEW o \in S, NEW r \in Texts PROVE [o EXCEPT !.residual = r] \in S
  BY DEF Observers, Texts, Since, Verdict
<1> HIDE DEF O, S
<1> QED  BY <1>0, <1>1, <1>2, <1>3 DEF Chain, O

-----------------------------------------------------------------------------
(* What is read of a response.                                                *)

\* What ReadsWhatArrived says for any framing: the model and the conflict that the observer
\* has, and that the row then keeps, are those of a list of declarations, each of an event
\* whose payload has arrived to its end, with all that event declares, in the order of the
\* text and none twice.
ReadsInOrder ==
    /\ \E read \in Seq(Items(pos)) : InOrder(stream.text, read) /\ Tells(seen, read)
    /\ at = "done" => row.model = Verdict(seen) /\ row.conflict = seen.conflict

Arriving ==
    /\ Typed /\ Begun
    /\ Reading(stream.text, Knowing(stream.text), pos, seen)
    /\ at = "done" => row.model = Verdict(seen) /\ row.conflict = seen.conflict

LEMMA InitArriving == Init => Arriving
<1> SUFFICES ASSUME Init PROVE Arriving
  OBVIOUS
<1>1. Typed
  BY InitTyped
<1>2. seen = NewObserver /\ pos = 0 /\ at = "new"
  BY DEF Init
<1> DEFINE text == stream.text
           O == Knowing(text)
           o == NewObserver
<1>3. text \in Texts /\ 0 \in 0 .. Len(text) /\ o \in Observers
  <2>1. o \in Observers
    BY <1>1, <1>2 DEF Typed, ObserversIn
  <2> QED  BY <1>1, <1>2, <2>1, ExchangeType DEF Typed
<1>4. o \in O[0]
  <2> DEFINE read == <<>>
  <2>1. read \in Seq(Items(0)) /\ DOMAIN read = {}
    OBVIOUS
  <2>2. InOrder(text, read)
    BY <2>1 DEF InOrder, Ordered, Whole
  <2>3. Verdict(o) = NoModel /\ o.conflict = FALSE /\ o.terminal = NoModel
    BY DEF NewObserver, Verdict
  <2>4. Wins(read) = NoModel
    BY DEF Wins
  <2>5. Disagree(read) = FALSE
    BY <2>1 DEF Disagree
  <2> HIDE DEF read
  <2>6. Told(o, read)
    BY <2>1, <2>3, <2>4, <2>5 DEF Told, Tells
  <2> QED  BY <1>3, <2>1, <2>2, <2>6 DEF Knowing
<1>5. Chain(text, O)
  BY <1>3, KnowingChain
<1>6. o.residual = <<>>
  BY DEF NewObserver
<1> HIDE DEF o, O
<1>7. Reading(text, O, 0, o)
  BY <1>3, <1>4, <1>5, <1>6, ReadAll
<1> QED  BY <1>1, <1>2, <1>7 DEF Arriving, Begun, O, o

LEMMA StepArriving == Arriving /\ [Next]_vars => Arriving'
<1> SUFFICES ASSUME Arriving, [Next]_vars PROVE Arriving'
  OBVIOUS
<1>0. Typed /\ Begun /\ Reading(stream.text, Knowing(stream.text), pos, seen)
  BY DEF Arriving
<1>1. Typed' /\ Begun'
  BY <1>0, StepTyped, StepBegun
<1>2. PICK text : text = stream.text
  OBVIOUS
<1>3. text \in Texts
  BY <1>0, <1>2, ExchangeType DEF Typed
<1> DEFINE O == Knowing(text)
<1>4. Chain(text, O)
  BY <1>3, KnowingChain
<1>5. Reading(text, O, pos, seen)
  BY <1>0, <1>2
<1> HIDE DEF O
<1>6. stream' = stream /\ Reading(text, O, pos', seen')
  BY <1>0, <1>2, <1>4, <1>5, StepRead
<1>7. (at = "done" => row.model = Verdict(seen) /\ row.conflict = seen.conflict)'
  <2>1. CASE UNCHANGED vars
    BY <2>1 DEF vars, Arriving
  <2>2. CASE Intercept \/ Headers \/ WholeBody
    BY <2>2 DEF Intercept, Headers, WholeBody
  <2>3. CASE Finalize
    BY <2>3 DEF Finalize
  <2>4. CASE \E end \in 1 .. Len(stream.text) : Chunk(end)
    BY <2>4 DEF Chunk
  <2> QED  BY <2>1, <2>2, <2>3, <2>4 DEF Next
<1> QED  BY <1>1, <1>2, <1>6, <1>7 DEF Arriving, O

LEMMA ArrivingTells == Arriving => ReadsInOrder
<1> SUFFICES ASSUME Arriving PROVE ReadsInOrder
  OBVIOUS
<1> DEFINE text == stream.text
           O == Knowing(text)
<1>1. text \in Texts /\ Len(text) \in Nat /\ pos \in 0 .. Len(text)
  BY ExchangeType DEF Arriving, Typed
<1>2. Chain(text, O)
  BY <1>1, KnowingChain
<1>3. PICK c \in 0 .. pos : seen \in O[c]
  BY DEF Arriving, Reading
<1>4. c \in 0 .. Len(text) /\ c <= pos
  BY <1>1
<1>5. seen \in O[pos]
  <2> HIDE DEF O, text
  <2> QED  BY <1>1, <1>2, <1>3, <1>4 DEF Chain
<1>6. \E read \in Seq(Items(pos)) : InOrder(text, read) /\ Told(seen, read)
  BY <1>1, <1>5 DEF Knowing
<1> QED  BY <1>6 DEF ReadsInOrder, Arriving, Told

\* Whatever the framing and wherever the host cuts the stream, the observer's and the
\* row's model are what a list of arrived events declares, in order, each event whole
\* and once: no payload is read by half, twice or out of turn (observeCallback,
\* observeStream, observeTail, flushStream).
THEOREM ReadingCorrect == Spec => []ReadsInOrder
<1>1. Init => Arriving
  BY InitArriving
<1>2. Arriving /\ [Next]_vars => Arriving'
  BY StepArriving
<1>3. Arriving => ReadsInOrder
  BY ArrivingTells
<1> QED  BY <1>1, <1>2, <1>3, PTL DEF Spec

\* From one step to the next no verdict or conflict is taken back, and no verdict
\* changes unless the conflict is recorded.
VerdictStands == [][Since(seen, seen')]_vars

LEMMA StepStands == Arriving /\ [Next]_vars => Since(seen, seen')
<1> SUFFICES ASSUME Arriving, [Next]_vars PROVE Since(seen, seen')
  OBVIOUS
<1>0. Typed /\ Begun /\ Reading(stream.text, Knowing(stream.text), pos, seen)
  BY DEF Arriving
<1>1. PICK text, before : text = stream.text /\ before = seen
  OBVIOUS
<1>2. text \in Texts /\ Len(text) \in Nat /\ pos \in 0 .. Len(text) /\ seen \in Observers
  BY <1>0, <1>1, ExchangeType DEF Typed, ObserversIn
<1> DEFINE O == Later(text, before)
<1>3. Chain(text, O)
  BY <1>2, LaterChain
<1>4. \A p \in 0 .. Len(text) : O[p] = {o \in Observers : Since(before, o)}
  BY DEF Later
<1>5. Since(before, seen)
  BY <1>1 DEF Since
<1>6. PICK c \in 0 .. pos : seen.residual = SubSeq(text, c + 1, pos)
  BY <1>0, <1>1 DEF Reading
<1>7. c \in 0 .. Len(text)
  BY <1>2
<1> HIDE DEF O
<1>8. seen \in O[c]
  BY <1>2, <1>4, <1>5, <1>7
<1>9. Reading(text, O, pos, seen)
  BY <1>6, <1>8 DEF Reading
<1>10. stream' = stream /\ Reading(text, O, pos', seen')
  BY <1>0, <1>1, <1>3, <1>9, StepRead
<1>11. pos' \in 0 .. Len(text)
  BY <1>0, <1>1, <1>10, StepTyped DEF Typed
<1>12. PICK d \in 0 .. pos' : seen' \in O[d]
  BY <1>10 DEF Reading
<1>13. d \in 0 .. Len(text)
  BY <1>2, <1>11
<1>14. Since(before, seen')
  BY <1>4, <1>12, <1>13
<1> QED  BY <1>1, <1>14

\* No step takes a verdict or a recorded conflict back, and a verdict changes only
\* with the conflict recorded (observe): a later chunk can not clear what an earlier
\* one raised.
THEOREM VerdictCorrect == Spec => VerdictStands
<1>1. Init => Arriving
  BY InitArriving
<1>2. Arriving /\ [Next]_vars => Arriving'
  BY StepArriving
<1>3. Arriving /\ [Next]_vars => [Since(seen, seen')]_vars
  BY StepStands
<1> QED  BY <1>1, <1>2, <1>3, PTL DEF Spec, VerdictStands

=============================================================================
