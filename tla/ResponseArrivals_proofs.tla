---------------------- MODULE ResponseArrivals_proofs ----------------------
(***************************************************************************)
(* What the observer of ResponseReader has read of a stream whose frames    *)
(* have kept their separators, for any events, any number of them, any cuts *)
(* of the stream and any residual that can hold the lines above a payload,  *)
(* and of a stream without separators that is handed over an event at a     *)
(* time: just the events that have arrived whole.  What the loops of the    *)
(* observer return is ResponseReader_proofs; here they meet the frames.     *)
(***************************************************************************)
EXTENDS ResponseReader_proofs

-----------------------------------------------------------------------------
(* What the events of a stream declare, as a list.                            *)

\* A declaration that names a model, and what it adds to the list.
Named == [model : Models \ {NoModel}, terminal : BOOLEAN]
TypeBy(s, e, d) == IF d.type # "" THEN d.type ELSE IF s.lines THEN LineType(e) ELSE ""
NamedBy(s, e, d) == [model |-> d.model, terminal |-> Terminal(TypeBy(s, e, d))]
Listed(s, e, y, d) == IF d.model = NoModel THEN y ELSE Append(y, NamedBy(s, e, d))

LEMMA ListedType ==
  ASSUME NEW s, NEW e, NEW y \in Seq(Named), NEW d \in Declarations
  PROVE  /\ Listed(s, e, y, d) \in Seq(Named)
         /\ d.model # NoModel => NamedBy(s, e, d) \in Named
<1>1. d.model \in Models /\ Terminal(TypeBy(s, e, d)) \in BOOLEAN
  BY DEF Declarations, Terminal
<1>2. d.model # NoModel => NamedBy(s, e, d) \in Named
  BY <1>1 DEF Named, NamedBy
<1>3. CASE d.model = NoModel
  BY <1>3 DEF Listed
<1>4. CASE d.model # NoModel
  <2> DEFINE C == Named
             r == NamedBy(s, e, d)
  <2>1. r \in C
    BY <1>2, <1>4
  <2> HIDE DEF C, r
  <2>2. Append(y, r) \in Seq(C)
    BY <2>1 DEF C
  <2> QED  BY <1>2, <1>4, <2>2 DEF Listed, C, r
<1> QED  BY <1>3, <1>4

LEMMA DeclaredLoop ==
  ASSUME NEW s, NEW e \in Events
  PROVE  \E f \in [0 .. Len(Declares(e)) -> Seq(Named)] :
            /\ f[0] = <<>> /\ Declared(s, e) = f[Len(Declares(e))]
            /\ \A i \in 1 .. Len(Declares(e)) : f[i] = Listed(s, e, f[i - 1], Declares(e)[i])
<1> DEFINE D == Declares(e)
           n == Len(D)
           S == Seq(Named)
           Turn(x, i) == Listed(s, e, x, D[i])
           step == [i \in 1 .. n |-> [x \in S |-> Turn(x, i)]]
           After(f) == f = [i \in 0 .. n |-> IF i = 0 THEN <<>> ELSE Turn(f[i - 1], i)]
           after == CHOOSE f : After(f)
<1>0. D \in Seq(Declarations)
  BY DeclaresType
<1>1. n \in Nat /\ <<>> \in S
  <2> HIDE DEF D
  <2> QED  BY <1>0
<1>2. ASSUME NEW i \in 1 .. n, NEW x \in S PROVE Turn(x, i) \in S
  <2>1. D[i] \in Declarations
    <3> HIDE DEF D
    <3> QED  BY <1>0
  <2> HIDE DEF D
  <2> QED  BY <2>1, ListedType
<1>3. \E f : After(f)
  <2>1. step \in [1 .. n -> [S -> S]] /\ \A i \in 1 .. n, x \in S : step[i][x] = Turn(x, i)
    <3> HIDE DEF Turn
    <3> QED  BY <1>2
  <2>2. PICK f \in [0 .. n -> S] : Iterates(f, n, <<>>, step)
    <3> HIDE DEF step, n, S
    <3> QED  BY <2>1, <1>1, LoopExists
  <2>3. f[0] = <<>> /\ \A i \in 1 .. n : f[i] = Turn(f[i - 1], i)
    <3>1. \A i \in 1 .. n : f[i - 1] \in S
      <4> HIDE DEF S
      <4> QED  BY <1>1
    <3> HIDE DEF step, Turn, S
    <3> QED  BY <3>1, <2>1, <2>2 DEF Iterates
  <2>4. \A i \in 0 .. n : f[i] = IF i = 0 THEN <<>> ELSE Turn(f[i - 1], i)
    <3> HIDE DEF Turn
    <3> QED  BY <2>3, <1>1
  <2>5. f = [i \in 0 .. n |-> f[i]]
    OBVIOUS
  <2>6. After(f)
    <3> HIDE DEF n, Turn
    <3> QED  BY <2>4, <2>5
  <2> QED  BY <2>6
<1>4. After(after)
  <2> HIDE DEF After
  <2> QED  BY <1>3
<1>5. Declared(s, e) = after[n]
  BY DEF Declared, Listed, NamedBy, TypeBy
<1> HIDE DEF after
<1>6. after = [i \in 0 .. n |-> after[i]] /\ after[0] = <<>>
        /\ \A i \in 1 .. n : after[i] = Turn(after[i - 1], i)
  <2>1. 0 \in 0 .. n /\ \A i \in 1 .. n : i \in 0 .. n /\ i # 0
    BY <1>1
  <2> HIDE DEF n, Turn
  <2> QED  BY <1>4, <2>1
<1>7. \A i \in 0 .. n : after[i] \in S
  <2>1. \A i \in 1 .. n : after[i - 1] \in S => after[i] \in S
    <3> HIDE DEF Turn
    <3> QED  BY <1>2, <1>6
  <2> HIDE DEF n, S
  <2> QED  BY <1>1, <1>6, <2>1, LoopTyped
<1>8. after \in [0 .. n -> S]
  <2> HIDE DEF n
  <2> QED  BY <1>6, <1>7
<1> QED  BY <1>5, <1>6, <1>8

\* The list grows at the end of an event's payload, unless the event is lost.
LEMMA DeclaredByIs ==
  ASSUME NEW s, s.text \in Texts, NEW lost
  PROVE  LET f == DeclaredBy(s, lost)
         IN /\ f \in [0 .. Len(s.text) -> Seq(Named)] /\ f[0] = <<>>
            /\ \A i \in 1 .. Len(s.text) :
                  f[i] = IF s.text[i].k = "close" /\ i \notin lost
                         THEN f[i - 1] \o Declared(s, s.text[i].e) ELSE f[i - 1]
<1> DEFINE n == Len(s.text)
           S == Seq(Named)
           Turn(x, i) == IF s.text[i].k = "close" /\ i \notin lost
                         THEN x \o Declared(s, s.text[i].e) ELSE x
           step == [i \in 1 .. n |-> [x \in S |-> Turn(x, i)]]
           After(f) == f = [i \in 0 .. n |->
              IF i = 0 THEN <<>>
              ELSE IF s.text[i].k = "close" /\ i \notin lost
                   THEN f[i - 1] \o Declared(s, s.text[i].e)
              ELSE f[i - 1]]
           after == CHOOSE f : After(f)
<1>1. n \in Nat /\ <<>> \in S
  BY DEF Texts
<1>2. ASSUME NEW i \in 1 .. n, NEW x \in S PROVE Turn(x, i) \in S
  <2>1. CASE s.text[i].k = "close"
    <3> DEFINE y == Declared(s, s.text[i].e)
               D == Declares(s.text[i].e)
               C == Named
    <3>1. s.text[i].e \in Events
      BY <2>1, ClosesEvent
    <3>2. D \in Seq(Declarations)
      BY <3>1, DeclaresType
    <3>3. Len(D) \in 0 .. Len(D)
      <4> HIDE DEF D
      <4> QED  BY <3>2
    <3>4. y \in Seq(C)
      BY <3>1, <3>3, DeclaredLoop
    <3> HIDE DEF y, C
    <3>5. x \o y \in Seq(C)
      BY <3>4 DEF C
    <3> QED  BY <3>5 DEF y, C
  <2> QED  BY <2>1
<1>3. \E f : After(f)
  <2>1. step \in [1 .. n -> [S -> S]] /\ \A i \in 1 .. n, x \in S : step[i][x] = Turn(x, i)
    <3> HIDE DEF Turn
    <3> QED  BY <1>2
  <2>2. PICK f \in [0 .. n -> S] : Iterates(f, n, <<>>, step)
    <3> HIDE DEF step, n, S
    <3> QED  BY <2>1, <1>1, LoopExists
  <2>3. f[0] = <<>> /\ \A i \in 1 .. n : f[i] = Turn(f[i - 1], i)
    <3>1. \A i \in 1 .. n : f[i - 1] \in S
      <4> HIDE DEF S
      <4> QED  BY <1>1
    <3> HIDE DEF step, Turn, S
    <3> QED  BY <3>1, <2>1, <2>2 DEF Iterates
  <2>4. \A i \in 0 .. n : f[i] = IF i = 0 THEN <<>> ELSE Turn(f[i - 1], i)
    <3> HIDE DEF Turn
    <3> QED  BY <2>3, <1>1
  <2>5. f = [i \in 0 .. n |-> f[i]]
    OBVIOUS
  <2>6. After(f)
    <3> HIDE DEF n
    <3> QED  BY <2>4, <2>5
  <2> QED  BY <2>6
<1>4. After(after)
  <2> HIDE DEF After
  <2> QED  BY <1>3
<1>5. DeclaredBy(s, lost) = after
  BY DEF DeclaredBy
<1> HIDE DEF after
<1>6. after = [i \in 0 .. n |-> after[i]] /\ after[0] = <<>>
        /\ \A i \in 1 .. n : after[i] = Turn(after[i - 1], i)
  <2>1. 0 \in 0 .. n /\ \A i \in 1 .. n : i \in 0 .. n /\ i # 0
    BY <1>1
  <2> HIDE DEF n
  <2> QED  BY <1>4, <2>1
<1>7. \A i \in 0 .. n : after[i] \in S
  <2>1. \A i \in 1 .. n : after[i - 1] \in S => after[i] \in S
    <3> HIDE DEF Turn, S
    <3> QED  BY <1>2, <1>6
  <2> HIDE DEF n, S
  <2> QED  BY <1>1, <1>6, <2>1, LoopTyped
<1>8. after \in [0 .. n -> S]
  <2> HIDE DEF n
  <2> QED  BY <1>6, <1>7
<1> QED  BY <1>5, <1>6, <1>8

\* The type a frame's or a chunk's payload is read with.
TypeGiven(s, e) == OrChunk(IF s.lines THEN LineType(e) ELSE "")

\* That type is the declaration's own, or its event line's, and terminal when that is.
LEMMA TerminalGiven ==
  ASSUME NEW s, NEW e, NEW d
  PROVE  TerminalType(TypeOf(d, TypeGiven(s, e))) = Terminal(TypeBy(s, e, d))
<1>1. CASE d.type # ""
  BY <1>1 DEF TypeOf, TypeBy, TerminalType, Terminal
<1>2. CASE d.type = ""
  <2> DEFINE t == IF s.lines THEN LineType(e) ELSE ""
  <2>1. TypeOf(d, TypeGiven(s, e)) = OrChunk(t) /\ TypeBy(s, e, d) = t
    BY <1>2 DEF TypeOf, TypeBy, TypeGiven
  <2> HIDE DEF t
  <2>2. "chunk" # "" /\ "chunk" # "completed" /\ "" # "completed"
    OBVIOUS
  <2>3. TerminalType(OrChunk(t)) = Terminal(t)
    <3>1. CASE t = ""
      BY <2>2, <3>1 DEF OrChunk, TerminalType, Terminal
    <3>2. CASE t # ""
      BY <3>2 DEF OrChunk, TerminalType, Terminal
    <3> QED  BY <3>1, <3>2
  <2> QED  BY <2>1, <2>3
<1> QED  BY <1>1, <1>2

LEMMA DeclaredRuns ==
  ASSUME NEW o \in Observers, NEW e \in Events, NEW type
  PROVE  /\ ObserveDeclared(o, Declares(e), type) \in Observers
         /\ \E f \in [0 .. Len(Declares(e)) -> Observers] :
              /\ f[0] = o /\ ObserveDeclared(o, Declares(e), type) = f[Len(Declares(e))]
              /\ \A i \in 1 .. Len(Declares(e)) :
                    f[i] = Observe(f[i - 1], Declares(e)[i].model, TerminalType(TypeOf(Declares(e)[i], type)))
<1> DEFINE D == Declares(e)
           r == o.residual
<1>1. D \in Seq(Declarations) /\ o \in Holding(r)
  BY DeclaresType DEF Holding
<1>2. Len(D) \in 0 .. Len(D)
  <2> HIDE DEF D
  <2> QED  BY <1>1
<1> HIDE DEF D, r
<1>3. PICK f \in [0 .. Len(D) -> Holding(r)] :
            /\ f[0] = o /\ ObserveDeclared(o, D, type) = f[Len(D)]
            /\ \A i \in 1 .. Len(D) : f[i] = Observe(f[i - 1], D[i].model, TerminalType(TypeOf(D[i], type)))
  BY <1>1, ObserveDeclaredLoop, Z3
<1>4. Holding(r) \subseteq Observers
  BY DEF Holding
<1>5. f[Len(D)] \in Observers /\ f \in [0 .. Len(D) -> Observers]
  BY <1>2, <1>4
<1> QED  BY <1>3, <1>5 DEF D

\* An event read with that type adds to what the observer tells just what it declares.
LEMMA EventListed ==
  ASSUME NEW s, NEW e \in Events, NEW o \in Observers, NEW y \in Seq(Named), Told(o, y)
  PROVE  Told(ObserveDeclared(o, Declares(e), TypeGiven(s, e)), y \o Declared(s, e))
<1> DEFINE D == Declares(e)
           n == Len(D)
           C == Named
           type == TypeGiven(s, e)
<1>1. D \in Seq(Declarations) /\ n \in Nat /\ DOMAIN D = 1 .. n
  <2>1. D \in Seq(Declarations)
    BY DeclaresType
  <2> HIDE DEF D
  <2> QED  BY <2>1
<1>3. PICK f \in [0 .. n -> Observers] :
            /\ f[0] = o /\ ObserveDeclared(o, D, type) = f[n]
            /\ \A i \in 1 .. n : f[i] = Observe(f[i - 1], D[i].model, TerminalType(TypeOf(D[i], type)))
  BY DeclaredRuns
<1>4. PICK g \in [0 .. n -> Seq(C)] :
            /\ g[0] = <<>> /\ Declared(s, e) = g[n]
            /\ \A i \in 1 .. n : g[i] = Listed(s, e, g[i - 1], D[i])
  BY DeclaredLoop
<1> DEFINE T == {k \in 0 .. n : Told(f[k], y \o g[k])}
<1>6. 0 \in T
  <2>1. y \o <<>> = y
    BY ConcatEmptySeq
  <2>2. 0 \in 0 .. n
    BY <1>1
  <2>3. f[0] = o /\ g[0] = <<>>
    BY <1>3, <1>4
  <2>4. Told(f[0], y \o g[0])
    BY <2>1, <2>3
  <2> HIDE DEF n
  <2> QED  BY <2>2, <2>4
<1>7. ASSUME NEW k \in 0 .. n - 1, k \in T PROVE k + 1 \in T
  <2>1. k \in Nat /\ k \in 0 .. n /\ k + 1 \in 1 .. n /\ k + 1 \in 0 .. n /\ (k + 1) - 1 = k
    BY <1>1
  <2> DEFINE d == D[k + 1]
             x == f[k]
             z == g[k]
             m == NamedBy(s, e, d)
  <2>2. d \in Declarations
    <3> HIDE DEF D, n
    <3> QED  BY <1>1, <2>1
  <2>3. x \in Observers /\ z \in Seq(C) /\ Told(x, y \o z)
    <3>1. Told(x, y \o z)
      BY <1>7
    <3> HIDE DEF n, C
    <3> QED  BY <1>3, <1>4, <2>1, <3>1
  <2>4. f[k + 1] = Observe(x, d.model, TerminalType(TypeOf(d, type))) /\ g[k + 1] = Listed(s, e, z, d)
    <3> HIDE DEF n, C, D
    <3> QED  BY <1>3, <1>4, <2>1
  <2>5. f[k + 1] = Observe(x, d.model, Terminal(TypeBy(s, e, d)))
    <3> HIDE DEF d, x
    <3> QED  BY <2>4, TerminalGiven
  <2>6. CASE d.model = NoModel
    <3>1. f[k + 1] = x /\ g[k + 1] = z
      <4> HIDE DEF d, x, z
      <4> QED  BY <2>4, <2>5, <2>6 DEF Observe, Listed
    <3> HIDE DEF x, z, n
    <3> QED  BY <2>1, <2>3, <3>1
  <2>7. CASE d.model # NoModel
    <3>1. m \in C
      <4> HIDE DEF d
      <4> QED  BY <2>2, <2>7, ListedType
    <3>2. m.model = d.model /\ m.terminal = Terminal(TypeBy(s, e, d))
      BY DEF NamedBy
    <3>3. g[k + 1] = Append(z, m)
      <4> HIDE DEF d, x, z
      <4> QED  BY <2>4, <2>7 DEF Listed
    <3>4. f[k + 1] = Observe(x, m.model, m.terminal)
      BY <2>5, <3>2
    <3>5. \A w \in C : w.model \in Models /\ w.model # NoModel /\ w.terminal \in BOOLEAN
      BY DEF Named
    <3> HIDE DEF m, d, x, z, C
    <3>6. y \o z \in Seq(C)
      BY <2>3 DEF C
    <3>7. Append(y \o z, m) = y \o Append(z, m)
      <4>1. y \in Seq(C) /\ z \in Seq(C) /\ <<m>> \in Seq(C)
        BY <2>3, <3>1 DEF C
      <4>2. Append(y \o z, m) = (y \o z) \o <<m>> /\ Append(z, m) = z \o <<m>>
        BY <3>1, <3>6, <4>1, AppendIsConcat
      <4>3. (y \o z) \o <<m>> = y \o (z \o <<m>>)
        BY <4>1, ConcatAssociative
      <4> QED  BY <4>2, <4>3
    <3>8. Told(Observe(x, m.model, m.terminal), Append(y \o z, m))
      <4> DEFINE w == y \o z
      <4>1. w \in Seq(C) /\ Told(x, w)
        BY <2>3, <3>6
      <4> HIDE DEF w
      <4>2. Told(Observe(x, m.model, m.terminal), Append(w, m))
        BY <2>3, <3>1, <3>5, <4>1, ToldAppend
      <4> QED  BY <4>2 DEF w
    <3>9. Told(f[k + 1], y \o g[k + 1])
      BY <3>3, <3>4, <3>7, <3>8
    <3> HIDE DEF n
    <3> QED  BY <2>1, <3>9
  <2> QED  BY <2>6, <2>7
<1>8. n \in T
  <2> HIDE DEF T, n
  <2>1. 0 .. n \subseteq T
    BY <1>1, <1>6, <1>7, UpTo
  <2> QED  BY <1>1, <2>1
<1>9. Told(f[n], y \o g[n])
  BY <1>8
<1> QED  BY <1>3, <1>4, <1>9

-----------------------------------------------------------------------------
(* The observers that have read, by each place of a stream, just the events   *)
(* that have ended there, but for some of the oversize ones.                  *)

Knowers(s) ==
    [p \in 0 .. Len(s.text) |->
        {o \in Observers : \E lost \in SUBSET Oversize(s.text) : Told(o, DeclaredBy(s, lost)[p])}]

\* What the scanner needs to know of it: a place that ends no payload changes nothing, at one
\* that does the event is read, or may be lost if it is oversize, and the residual is free.
Counting(s, O) ==
    /\ s.text \in Texts
    /\ \A p \in 0 .. Len(s.text) : O[p] \subseteq Observers
    /\ \A p \in 1 .. Len(s.text) : s.text[p].k # "close" => O[p] = O[p - 1]
    /\ \A p \in 1 .. Len(s.text) : s.text[p].k = "close" =>
          LET e == s.text[p].e
          IN /\ \A o \in O[p - 1] : ObserveDeclared(o, Declares(e), TypeGiven(s, e)) \in O[p]
             /\ p \in Oversize(s.text) => O[p - 1] \subseteq O[p]
    /\ \A p \in 0 .. Len(s.text) : \A o \in O[p] : \A r \in Texts : [o EXCEPT !.residual = r] \in O[p]

\* What is lost later changes nothing before.
LEMMA DeclaredAgrees ==
  ASSUME NEW s, s.text \in Texts, NEW lost, NEW other, NEW p \in 0 .. Len(s.text),
         \A i \in 1 .. p : i \in lost <=> i \in other
  PROVE  DeclaredBy(s, lost)[p] = DeclaredBy(s, other)[p]
<1> DEFINE n == Len(s.text)
           f == DeclaredBy(s, lost)
           g == DeclaredBy(s, other)
           T == {k \in 0 .. p : f[k] = g[k]}
           Turn(x, i, L) == IF s.text[i].k = "close" /\ i \notin L THEN x \o Declared(s, s.text[i].e) ELSE x
<1>1. n \in Nat /\ p \in Nat
  BY DEF Texts
<1>2. /\ f[0] = <<>> /\ g[0] = <<>>
      /\ \A i \in 1 .. n : f[i] = Turn(f[i - 1], i, lost)
      /\ \A i \in 1 .. n : g[i] = Turn(g[i - 1], i, other)
  BY DeclaredByIs
<1>3. \A i \in 1 .. p : \A x : Turn(x, i, lost) = Turn(x, i, other)
  OBVIOUS
<1> HIDE DEF f, g, Turn, n
<1>4. 0 \in T
  BY <1>1, <1>2
<1>5. ASSUME NEW k \in 0 .. p - 1, k \in T PROVE k + 1 \in T
  <2>1. k + 1 \in 1 .. p /\ k + 1 \in 1 .. n /\ k + 1 \in 0 .. p /\ (k + 1) - 1 = k
    BY <1>1 DEF n
  <2>2. f[k] = g[k]
    BY <1>5
  <2> QED  BY <1>2, <1>3, <2>1, <2>2
<1> HIDE DEF T
<1>6. 0 .. p \subseteq T
  BY <1>1, <1>4, <1>5, UpTo
<1>7. p \in T
  BY <1>1, <1>6
<1> QED  BY <1>7 DEF T, f, g

\* The Knowers count, because a lost set differs from another only where it has got to.
LEMMA KnowersCount ==
  ASSUME NEW s, s.text \in Texts
  PROVE  Counting(s, Knowers(s))
<1> DEFINE text == s.text
           N == Len(text)
           L == SUBSET Oversize(text)
           O == Knowers(s)
           By(lost, p) == DeclaredBy(s, lost)[p]
           Knows(p, o) == \E lost \in L : Told(o, By(lost, p))
<1>0. N \in Nat /\ \A p \in 0 .. N : O[p] = {o \in Observers : Knows(p, o)}
  BY DEF Knowers, Texts
<1>1. \A p \in 0 .. N : O[p] \subseteq Observers
  <2> HIDE DEF Knows, O
  <2> QED  BY <1>0
<1>2. \A lost : \A p \in 1 .. N :
        By(lost, p) = IF text[p].k = "close" /\ p \notin lost
                      THEN By(lost, p - 1) \o Declared(s, text[p].e) ELSE By(lost, p - 1)
  <2> SUFFICES ASSUME NEW lost, NEW p \in 1 .. N
               PROVE  By(lost, p) = IF text[p].k = "close" /\ p \notin lost
                                    THEN By(lost, p - 1) \o Declared(s, text[p].e) ELSE By(lost, p - 1)
    OBVIOUS
  <2> DEFINE f == DeclaredBy(s, lost)
  <2>1. \A i \in 1 .. Len(s.text) :
                  f[i] = IF s.text[i].k = "close" /\ i \notin lost
                         THEN f[i - 1] \o Declared(s, s.text[i].e) ELSE f[i - 1]
    BY DeclaredByIs
  <2> HIDE DEF f
  <2>2. f[p] = IF s.text[p].k = "close" /\ p \notin lost
                         THEN f[p - 1] \o Declared(s, s.text[p].e) ELSE f[p - 1]
    BY <2>1
  <2> QED  BY <2>2 DEF f
<1>3. \A lost : \A p \in 0 .. N : By(lost, p) \in Seq(Named)
  <2> SUFFICES ASSUME NEW lost, NEW p \in 0 .. N PROVE By(lost, p) \in Seq(Named)
    OBVIOUS
  <2> DEFINE f == DeclaredBy(s, lost)
             S == Seq(Named)
  <2>1. f \in [0 .. N -> S]
    BY DeclaredByIs
  <2> HIDE DEF f, S, N
  <2> QED  BY <2>1 DEF f, S
<1>4. ASSUME NEW p \in 1 .. N, text[p].k # "close" PROVE O[p] = O[p - 1]
  <2>1. p \in 0 .. N /\ p - 1 \in 0 .. N
    BY <1>0
  <2>2. \A o : Knows(p, o) <=> Knows(p - 1, o)
    <3>1. \A lost : By(lost, p) = By(lost, p - 1)
      BY <1>2, <1>4
    <3> HIDE DEF By, L
    <3> QED  BY <3>1
  <2> HIDE DEF Knows, O
  <2> QED  BY <1>0, <2>1, <2>2
<1>5. ASSUME NEW p \in 1 .. N, text[p].k = "close", NEW o \in O[p - 1]
      PROVE  /\ ObserveDeclared(o, Declares(text[p].e), TypeGiven(s, text[p].e)) \in O[p]
             /\ p \in Oversize(text) => o \in O[p]
  <2>1. p \in 0 .. N /\ p - 1 \in 0 .. N /\ p \notin 1 .. p - 1
    BY <1>0
  <2>2. o \in Observers /\ Knows(p - 1, o)
    <3> HIDE DEF Knows, O
    <3> QED  BY <1>0, <1>5, <2>1
  <2>3. PICK lost \in L : Told(o, By(lost, p - 1))
    BY <2>2
  <2> DEFINE e == text[p].e
             g == ObserveDeclared(o, Declares(e), TypeGiven(s, e))
  <2>4. e \in Events
    BY <1>5, ClosesEvent
  <2>5. \A other : (\A i \in 1 .. p - 1 : i \in lost <=> i \in other) => By(other, p - 1) = By(lost, p - 1)
    <3> DEFINE q == p - 1
    <3>1. q \in 0 .. N
      BY <2>1
    <3> HIDE DEF q
    <3>2. \A other : (\A i \in 1 .. q : i \in lost <=> i \in other) => By(other, q) = By(lost, q)
      <4> SUFFICES ASSUME NEW other, \A i \in 1 .. q : i \in lost <=> i \in other
                   PROVE  By(other, q) = By(lost, q)
        OBVIOUS
      <4>1. DeclaredBy(s, lost)[q] = DeclaredBy(s, other)[q]
        BY <3>1, DeclaredAgrees
      <4> QED  BY <4>1
    <3> QED  BY <3>2 DEF q
  <2>6. g \in O[p]
    <3> DEFINE other == lost \ {p}
    <3>1. other \in L /\ p \notin other /\ \A i \in 1 .. p - 1 : i \in lost <=> i \in other
      BY <2>1
    <3> HIDE DEF other
    <3>2. By(other, p) = By(lost, p - 1) \o Declared(s, e)
      <4>1. By(other, p) = By(other, p - 1) \o Declared(s, e)
        BY <1>2, <1>5, <3>1
      <4>2. By(other, p - 1) = By(lost, p - 1)
        BY <2>5, <3>1
      <4> QED  BY <4>1, <4>2
    <3>3. Told(g, By(lost, p - 1) \o Declared(s, e))
      <4> DEFINE y == By(lost, p - 1)
      <4>1. y \in Seq(Named) /\ Told(o, y)
        BY <1>3, <2>1, <2>3
      <4> HIDE DEF y, e
      <4>2. Told(g, y \o Declared(s, e))
        BY <2>2, <2>4, <4>1, EventListed
      <4> QED  BY <4>2 DEF y
    <3>4. Knows(p, g)
      BY <3>1, <3>2, <3>3
    <3>5. g \in Observers
      BY <2>2, <2>4, DeclaredRuns
    <3> HIDE DEF Knows, O, g
    <3> QED  BY <1>0, <2>1, <3>4, <3>5
  <2>7. ASSUME p \in Oversize(text) PROVE o \in O[p]
    <3> DEFINE other == lost \cup {p}
    <3>1. other \in L /\ p \in other /\ \A i \in 1 .. p - 1 : i \in lost <=> i \in other
      BY <2>1, <2>7
    <3> HIDE DEF other
    <3>2. By(other, p) = By(lost, p - 1)
      <4>1. By(other, p) = By(other, p - 1)
        BY <1>2, <3>1
      <4>2. By(other, p - 1) = By(lost, p - 1)
        BY <2>5, <3>1
      <4> QED  BY <4>1, <4>2
    <3>3. Knows(p, o)
      BY <2>3, <3>1, <3>2
    <3> HIDE DEF Knows, O
    <3> QED  BY <1>0, <2>1, <2>2, <3>3
  <2> QED  BY <2>6, <2>7
<1>6. ASSUME NEW p \in 0 .. N, NEW o \in O[p], NEW r \in Texts PROVE [o EXCEPT !.residual = r] \in O[p]
  <2> DEFINE g == [o EXCEPT !.residual = r]
  <2>1. o \in Observers /\ Knows(p, o)
    <3> HIDE DEF Knows, O
    <3> QED  BY <1>0
  <2>2. g \in Observers /\ g.first = o.first /\ g.terminal = o.terminal /\ g.conflict = o.conflict
    BY <2>1 DEF Observers, Texts
  <2> HIDE DEF g
  <2>3. \A read : Told(o, read) => Told(g, read)
    BY <2>2 DEF Told, Tells, Verdict
  <2>4. Knows(p, g)
    BY <2>1, <2>3
  <2>5. g \in O[p]
    <3> HIDE DEF Knows, O
    <3> QED  BY <1>0, <2>2, <2>4
  <2> QED  BY <2>5 DEF g
<1> HIDE DEF O
<1>7. \A p \in 1 .. N : text[p].k = "close" =>
          LET e == text[p].e
          IN /\ \A o \in O[p - 1] : ObserveDeclared(o, Declares(e), TypeGiven(s, e)) \in O[p]
             /\ p \in Oversize(text) => O[p - 1] \subseteq O[p]
  BY <1>5
<1> QED  BY <1>1, <1>4, <1>6, <1>7 DEF Counting, O

-----------------------------------------------------------------------------
(* Text in which no payload is whole: the scanner reads nothing of it, and    *)
(* salvages nothing.                                                          *)

Quiet(T) == (\A t \in T : t.k # "close") \/ (\A t \in T : t.k # "open")

LEMMA QuietInvalid ==
  ASSUME NEW T, T \subseteq Tokens, Quiet(T), NEW x \in Seq(T)
  PROVE  ~ValidPayload(x)
<1> SUFFICES ASSUME ValidPayload(x) PROVE FALSE
  OBVIOUS
<1> DEFINE u == Unspaced(x)
<1>1. Token("close", u[1].e) \in T
  BY ClosedBy
<1>2. u \in Seq(T) /\ u # <<>> /\ u[1].k = "open"
  BY UnspacedWithin DEF ValidPayload, Blank
<1> HIDE DEF u
<1>3. u[1] \in T
  BY <1>2
<1>4. Token("close", u[1].e).k = "close"
  BY DEF Token
<1> QED  BY <1>1, <1>2, <1>3, <1>4 DEF Quiet

LEMMA QuietSpread ==
  ASSUME NEW text \in Texts, NEW a \in 0 .. Len(text), NEW b \in 0 .. Len(text), a <= b,
         Quiet(Within(text, a, b)), NEW d \in Nat, d <= b, NEW x, Spread(text, a, d, x)
  PROVE  x \in Seq(Texts) /\ ~ValidPayload(FlattenSeq(x)) /\ \A i \in DOMAIN x : ~ValidPayload(x[i])
<1>0. Len(text) \in Nat /\ a \in Nat /\ b \in Nat
  BY DEF Texts
<1> DEFINE T == Within(text, a, b)
<1>1. T \subseteq Tokens
  BY WithinTokens
<1>2. PICK c \in [0 .. Len(x) -> Nat] :
         /\ \A i \in 0 .. Len(x) : a <= c[i] /\ c[i] <= d
         /\ \A i \in 1 .. Len(x) : c[i - 1] <= c[i] /\ x[i] \in Seq(Within(text, c[i - 1], c[i]))
  BY <1>0, SpreadCuts
<1>3. x \in Seq(Texts) /\ Len(x) \in Nat /\ a <= d /\ DOMAIN x = 1 .. Len(x)
  <2>1. x \in Seq(Texts) /\ Len(x) \in Nat /\ a <= d
    BY <1>0, SpreadCuts
  <2> QED  BY <2>1
<1>4. ~ValidPayload(FlattenSeq(x))
  <2>1. FlattenSeq(x) \in Seq(Within(text, a, d))
    BY <1>0, FlatWithin
  <2>2. Within(text, a, d) \subseteq T
    BY <1>0, WithinGrows
  <2> DEFINE y == FlattenSeq(x)
             V == Within(text, a, d)
  <2>3. y \in Seq(V) /\ V \subseteq T
    BY <2>1, <2>2
  <2> HIDE DEF y, V, T
  <2>4. y \in Seq(T)
    BY <2>3, SeqMonotonic
  <2> QED  BY <1>1, <2>4, QuietInvalid DEF y, T
<1>5. ASSUME NEW i \in 1 .. Len(x) PROVE ~ValidPayload(x[i])
  <2>1. i - 1 \in 0 .. Len(x) /\ i \in 0 .. Len(x)
    BY <1>3
  <2> DEFINE u == c[i - 1]
             v == c[i]
             V == Within(text, u, v)
             y == x[i]
  <2>2. u \in Nat /\ v \in Nat /\ a <= u /\ v <= b /\ y \in Seq(V)
    <3>1. a <= c[i - 1] /\ c[i] <= d /\ c[i - 1] \in Nat /\ c[i] \in Nat
      BY <1>2, <2>1
    <3> QED  BY <1>0, <1>2, <3>1
  <2> HIDE DEF u, v, y
  <2>3. V \subseteq T
    BY <1>0, <2>2, WithinGrows
  <2> HIDE DEF V, T
  <2>4. y \in Seq(T)
    BY <2>2, <2>3, SeqMonotonic
  <2> QED  BY <1>1, <2>4, QuietInvalid DEF y, T
<1> QED  BY <1>3, <1>4, <1>5

\* Such text is read without effect, and its tail ends where what can be salvaged of it does.
LEMMA QuietFrame ==
  ASSUME NEW text \in Texts, NEW a \in 0 .. Len(text), NEW b \in 0 .. Len(text), a <= b,
         Quiet(Within(text, a, b)), NEW o \in Observers
  PROVE  LET s == SubSeq(text, a + 1, b)
         IN /\ ObserveFrame(o, s) = o
            /\ TailEnd(o, s) = SalvagedEnd(Salvaged(s)) /\ TailEnd(o, s) \in 0 .. b - a
<1> DEFINE s == SubSeq(text, a + 1, b)
           data == DataIn(Lines(s))
           type == OrChunk(EventTypeIn(Lines(s)))
           joined == FlattenSeq(data)
           parts == ObserveFrameParts(o, type, joined, data)
           found == Salvaged(s)
<1>0. Len(text) \in Nat /\ a \in Nat /\ b \in Nat
  BY DEF Texts
<1>1. FrameParts(o, s) = parts
  BY DEF FrameParts, PartsOf
<1>2. Spread(text, a, b, Lines(s))
  BY <1>0, LinesSpread
<1>3. Spread(text, a, b, data)
  BY <1>0, <1>2, DataSpread
<1>4. data \in Seq(Texts) /\ ~ValidPayload(joined) /\ \A i \in DOMAIN data : ~ValidPayload(data[i])
  <2> HIDE DEF data
  <2> QED  BY <1>0, <1>3, QuietSpread
<1>5. SalvagedEnd(found) \in 0 .. b - a /\ Spread(text, a, a + SalvagedEnd(found), Payloads(found))
  BY SalvagedSpread
<1> HIDE DEF data, joined, found, type
<1>6. ObserveAll(o, data, type) = o
  BY <1>4, NoneRead
<1>7. parts.o = o /\ ~parts.parsed
  BY <1>4, <1>6 DEF ObserveFrameParts
<1>8. Payloads(found) \in Seq(Texts) /\ \A i \in DOMAIN Payloads(found) : ~ValidPayload(Payloads(found)[i])
  <2> DEFINE x == Payloads(found)
             d == a + SalvagedEnd(found)
  <2>1. d \in Nat /\ d <= b /\ Spread(text, a, d, x)
    BY <1>0, <1>5
  <2> HIDE DEF x, d
  <2>2. x \in Seq(Texts) /\ \A i \in DOMAIN x : ~ValidPayload(x[i])
    BY <2>1, QuietSpread
  <2> QED  BY <2>2 DEF x
<1>9. ObserveAll(o, Payloads(found), "chunk") = o
  BY <1>8, NoneRead
<1>10. ObserveFrame(o, s) = o
  BY <1>1, <1>7, <1>9 DEF ObserveFrame, OrSalvaged, found
<1>11. TailEnd(o, s) = SalvagedEnd(found)
  BY <1>1, <1>7 DEF TailEnd, found
<1> QED  BY <1>5, <1>10, <1>11 DEF s, found

\* Without a marker, or without a payload's end and the [DONE] mark, nothing is salvaged.
LEMMA NoValueIn ==
  ASSUME NEW x \in Texts, \A i \in 1 .. Len(x) : x[i].k # "close" /\ x[i] # DoneMark
  PROVE  FirstJSONValue(x) = NoValue
<1>1. PICK p \in 0 .. Len(x) : FirstJSONValue(x) = ValueAt(x, p, Balanced(x, p))
  BY FirstJSONValueAt
<1>2. Len(x) \in Nat
  BY DEF Texts
<1>3. CASE p = 0
  BY <1>1, <1>3 DEF ValueAt
<1>4. CASE p # 0
  <2>1. p \in 1 .. Len(x)
    BY <1>2, <1>4
  <2>2. Balanced(x, p) = {}
    <3>1. \A j \in p .. Len(x) : x[j].k # "close"
      BY <1>2, <2>1
    <3> QED  BY <3>1 DEF Balanced
  <2> QED  BY <1>1, <2>1, <2>2 DEF ValueAt
<1> QED  BY <1>3, <1>4

LEMMA NothingSalvaged ==
  ASSUME NEW s \in Texts,
         (\A i \in 1 .. Len(s) : s[i] # Marker) \/ (\A i \in 1 .. Len(s) : s[i].k # "close" /\ s[i] # DoneMark)
  PROVE  SalvagedEnd(Salvaged(s)) = 0
<1> DEFINE n == Len(s)
           S == {f \in Salvages : f.found = <<>>}
<1>1. n \in Nat
  BY DEF Texts
<1>2. PICK f \in [0 .. n -> Salvages] :
            /\ f[0] = NothingFound /\ Salvaged(s) = f[n].found
            /\ \A i \in 1 .. n : f[i] = SalvageNext(s, f[i - 1])
  BY SalvagedLoop
<1>3. f[0] \in S
  <2>1. NothingFound.found = <<>>
    BY DEF NothingFound
  <2>2. f[0] \in Salvages
    <3> HIDE DEF n
    <3> QED  BY <1>1, <1>2
  <2> QED  BY <1>2, <2>1, <2>2
<1>4. ASSUME NEW i \in 1 .. n, f[i - 1] \in S PROVE f[i] \in S
  <2> DEFINE h == f[i - 1]
             start == NextMarker(s, h.offset)
             rest == SubSeq(s, start + 1, Len(s))
  <2>1. i \in 0 .. n /\ i - 1 \in 0 .. n
    BY <1>1
  <2>2. f[i] \in Salvages /\ h \in Salvages /\ h.found = <<>>
    <3> HIDE DEF n
    <3> QED  BY <1>2, <1>4, <2>1
  <2>3. f[i] = SalvageAt(h, start, FirstJSONValue(rest))
    BY <1>2 DEF SalvageNext
  <2> HIDE DEF h
  <2>4. h.offset \in Nat
    BY <2>2 DEF Salvages
  <2>5. start \in Nat /\ (start # 0 => start \in 1 .. n /\ s[start] = Marker)
    <3>1. /\ start \in Nat
          /\ start # 0 => start \in h.offset + 1 .. Len(s) /\ s[start] = Marker
      BY <2>4, NextMarkerIs
    <3> HIDE DEF start
    <3> QED  BY <1>1, <2>4, <3>1
  <2> HIDE DEF start
  <2>6. CASE start = 0
    BY <2>2, <2>3, <2>6 DEF SalvageAt
  <2>7. CASE start # 0
    <3>1. \A j \in 1 .. n : s[j].k # "close" /\ s[j] # DoneMark
      BY <2>5, <2>7
    <3>2. rest \in Texts /\ \A j \in 1 .. Len(rest) : rest[j].k # "close" /\ rest[j] # DoneMark
      <4>1. start \in 0 .. Len(s) /\ Len(s) \in 0 .. Len(s) /\ start <= Len(s)
        BY <1>1, <2>5, <2>7
      <4>2. rest \in Texts /\ Len(rest) = n - start /\ \A j \in 1 .. n - start : rest[j] = s[start + j]
        BY <4>1, Segment
      <4>3. \A j \in 1 .. n - start : start + j \in 1 .. n
        BY <1>1, <4>1
      <4> HIDE DEF rest
      <4> QED  BY <3>1, <4>2, <4>3
    <3> HIDE DEF rest
    <3>3. FirstJSONValue(rest) = NoValue
      BY <3>2, NoValueIn
    <3>4. f[i] = [h EXCEPT !.offset = start]
      BY <2>3, <2>7, <3>3 DEF SalvageAt
    <3> QED  BY <2>2, <3>4 DEF Salvages
  <2> QED  BY <2>6, <2>7
<1>5. f[n] \in S
  <2> HIDE DEF S, n
  <2>1. \A i \in 0 .. n : f[i] \in S
    BY <1>1, <1>3, <1>4, LoopTyped
  <2> QED  BY <1>1, <2>1
<1> QED  BY <1>2, <1>5 DEF SalvagedEnd

-----------------------------------------------------------------------------
(* Streams whose frames have kept their separators.                           *)

\* A frame as the upstream sends it: the event line, in a stream that has them, the payload
\* on its data line, and the separator.
Opening(s, e) == IF s.lines THEN <<Token("event", e), NL, Marker>> ELSE <<Marker>>
Frame(s, e) == (Opening(s, e) \o Payload(e)) \o <<NL, NL>>

\* Frames that end where ends says, one after the other, and the [DONE] mark or nothing.
Frames(s, events, ends) ==
    /\ events \in Seq(Events) /\ ends \in [0 .. Len(events) -> 0 .. Len(s.text)] /\ ends[0] = 0
    /\ \A i \in 1 .. Len(events) :
          /\ ends[i] = ends[i - 1] + Len(Frame(s, events[i]))
          /\ SubSeq(s.text, ends[i - 1] + 1, ends[i]) = Frame(s, events[i])
    /\ SubSeq(s.text, ends[Len(events)] + 1, Len(s.text)) \in {<<>>, <<Marker, DoneMark>>}

\* The stream has kept its separators.
Separated(s) == \E events, ends : Frames(s, events, ends)

\* A payload is its two ends and the pieces between them, and nothing else.
LEMMA PayloadTokens ==
  ASSUME NEW e \in Events
  PROVE  /\ Payload(e) \in Texts /\ Len(Payload(e)) = Pieces(e) + 2 /\ Pieces(e) \in Nat
         /\ Payload(e)[1] = Token("open", e) /\ Payload(e)[Pieces(e) + 2] = Token("close", e)
         /\ \A j \in 2 .. Pieces(e) + 1 : Payload(e)[j] = Token("piece", e)
<1>1. Pieces(e) \in Nat /\ Len(Payload(e)) = Pieces(e) + 2 /\ Payload(e)[Pieces(e) + 2] = Token("close", e)
  BY PayloadEnds
<1> DEFINE q == [i \in 1 .. Pieces(e) |-> Token("piece", e)]
           x == <<Token("open", e)>>
           y == <<Token("close", e)>>
<1>2. q \in Texts /\ Len(q) = Pieces(e) /\ \A i \in 1 .. Pieces(e) : q[i] = Token("piece", e)
  BY <1>1 DEF Texts, Tokens, Token
<1>3. x \in Texts /\ Len(x) = 1 /\ y \in Texts /\ Len(y) = 1 /\ x[1] = Token("open", e)
  BY DEF Texts, Tokens, Token
<1>4. Payload(e) = (x \o q) \o y
  BY DEF Payload
<1> HIDE DEF x, q, y
<1> DEFINE z == x \o q
<1>5. /\ z \in Texts /\ Len(z) = Pieces(e) + 1
      /\ \A i \in 1 .. Pieces(e) + 1 : z[i] = IF i <= 1 THEN x[i] ELSE q[i - 1]
  <2>1. /\ x \o q \in Seq(Tokens) /\ Len(x \o q) = Len(x) + Len(q)
        /\ \A i \in 1 .. Len(x) + Len(q) : (x \o q)[i] = IF i <= Len(x) THEN x[i] ELSE q[i - Len(x)]
    BY <1>2, <1>3, ConcatProperties DEF Texts
  <2> QED  BY <1>1, <1>2, <1>3, <2>1 DEF Texts
<1> HIDE DEF z
<1>6. /\ z \o y \in Texts
      /\ \A i \in 1 .. Pieces(e) + 1 : (z \o y)[i] = z[i]
  <2>1. /\ z \o y \in Seq(Tokens)
        /\ \A i \in 1 .. Len(z) + Len(y) : (z \o y)[i] = IF i <= Len(z) THEN z[i] ELSE y[i - Len(z)]
    BY <1>3, <1>5, ConcatProperties DEF Texts
  <2> QED  BY <1>1, <1>3, <1>5, <2>1 DEF Texts
<1>7. Payload(e) = z \o y
  BY <1>4 DEF z
<1>8. Payload(e)[1] = Token("open", e)
  BY <1>1, <1>3, <1>5, <1>6, <1>7
<1>9. ASSUME NEW j \in 2 .. Pieces(e) + 1 PROVE Payload(e)[j] = Token("piece", e)
  <2>1. j \in 1 .. Pieces(e) + 1 /\ ~(j <= 1) /\ j - 1 \in 1 .. Pieces(e)
    BY <1>1
  <2> QED  BY <1>2, <1>5, <1>6, <1>7, <2>1
<1> QED  BY <1>1, <1>6, <1>7, <1>8, <1>9

\* The frame of e that begins after b, whose payload ends at c, token by token.
Ahead(s) == IF s.lines THEN 3 ELSE 1
FrameIn(s, e, b, c) ==
    /\ e \in Events /\ b \in Nat /\ c = b + Ahead(s) + Pieces(e) + 2 /\ c + 2 <= Len(s.text)
    /\ s.lines => s.text[b + 1] = Token("event", e) /\ s.text[b + 2] = NL
    /\ s.text[b + Ahead(s)] = Marker
    /\ \A j \in 1 .. Pieces(e) + 2 : s.text[b + Ahead(s) + j] = Payload(e)[j]
    /\ s.text[c + 1] = NL /\ s.text[c + 2] = NL

\* A frame of Frames stands in the stream token by token.
LEMMA FrameThere ==
  ASSUME NEW s, s.text \in Texts, NEW events, NEW ends, Frames(s, events, ends), NEW i \in 1 .. Len(events)
  PROVE  FrameIn(s, events[i], ends[i - 1], ends[i] - 2)
<1> DEFINE e == events[i]
           b == ends[i - 1]
           d == ends[i]
           h == Ahead(s)
           H == Opening(s, e)
           P == Payload(e)
           w == Pieces(e) + 2
           N == <<NL, NL>>
           F == Frame(s, e)
           text == s.text
<1>0. Len(events) \in Nat /\ Len(text) \in Nat
  BY DEF Frames, Texts
<1>1. /\ e \in Events /\ b \in 0 .. Len(text) /\ d \in 0 .. Len(text)
      /\ d = b + Len(F) /\ SubSeq(text, b + 1, d) = F
  <2>1. i - 1 \in 0 .. Len(events) /\ i \in 0 .. Len(events)
    BY <1>0
  <2>2. events \in Seq(Events) /\ ends \in [0 .. Len(events) -> 0 .. Len(text)]
    BY DEF Frames
  <2>3. d = b + Len(F) /\ SubSeq(text, b + 1, d) = F
    BY DEF Frames
  <2>4. e \in Events
    BY <2>2
  <2> HIDE DEF F, text
  <2>5. b \in 0 .. Len(text) /\ d \in 0 .. Len(text)
    BY <2>1, <2>2
  <2> QED  BY <2>3, <2>4, <2>5
<1>2. h \in Nat /\ H \in Texts /\ Len(H) = h /\ H[h] = Marker /\ h \in 1 .. 3
      /\ (s.lines => h = 3 /\ H[1] = Token("event", e) /\ H[2] = NL)
  <2>0. Token("event", e) \in Tokens /\ NL \in Tokens /\ Marker \in Tokens
    BY <1>1 DEF Tokens, Token
  <2>1. CASE s.lines
    <3> DEFINE t == Token("event", e)
    <3>1. H = <<t, NL, Marker>> /\ h = 3 /\ t \in Tokens
      BY <2>0, <2>1 DEF Opening, Ahead
    <3> HIDE DEF t, H, h
    <3>2. H \in Texts /\ Len(H) = 3 /\ H[1] = t /\ H[2] = NL /\ H[3] = Marker
      BY <2>0, <3>1 DEF Texts
    <3> QED  BY <2>1, <3>1, <3>2 DEF t
  <2>2. CASE ~s.lines
    <3>1. H = <<Marker>> /\ h = 1
      BY <2>2 DEF Opening, Ahead
    <3> HIDE DEF H, h
    <3>2. H \in Texts /\ Len(H) = 1 /\ H[1] = Marker
      BY <2>0, <3>1 DEF Texts
    <3> QED  BY <2>2, <3>1, <3>2
  <2> QED  BY <2>1, <2>2
<1>3. P \in Texts /\ Len(P) = w /\ w \in Nat /\ w >= 2
  BY <1>1, PayloadTokens
<1>4. N \in Texts /\ Len(N) = 2 /\ N[1] = NL /\ N[2] = NL
  BY DEF Texts, Tokens
<1>5. F = (H \o P) \o N
  BY DEF Frame
<1> HIDE DEF e, b, d, h, H, P, w, N, F
<1> DEFINE z == H \o P
<1>6. /\ z \in Texts /\ Len(z) = h + w
      /\ \A j \in 1 .. h + w : z[j] = IF j <= h THEN H[j] ELSE P[j - h]
  <2>1. /\ H \o P \in Seq(Tokens) /\ Len(H \o P) = Len(H) + Len(P)
        /\ \A j \in 1 .. Len(H) + Len(P) : (H \o P)[j] = IF j <= Len(H) THEN H[j] ELSE P[j - Len(H)]
    BY <1>2, <1>3, ConcatProperties DEF Texts
  <2> QED  BY <1>2, <1>3, <2>1 DEF Texts
<1> HIDE DEF z
<1>7. /\ Len(F) = h + w + 2
      /\ \A j \in 1 .. h + w + 2 : F[j] = IF j <= h + w THEN z[j] ELSE N[j - (h + w)]
  <2>1. /\ z \o N \in Seq(Tokens) /\ Len(z \o N) = Len(z) + Len(N)
        /\ \A j \in 1 .. Len(z) + Len(N) : (z \o N)[j] = IF j <= Len(z) THEN z[j] ELSE N[j - Len(z)]
    BY <1>4, <1>6, ConcatProperties DEF Texts
  <2> QED  BY <1>4, <1>5, <1>6, <2>1 DEF z, Texts
<1>8. /\ d = b + h + w + 2 /\ b \in Nat
      /\ \A j \in 1 .. h + w + 2 : text[b + j] = F[j]
  <2>1. b <= d
    BY <1>1, <1>2, <1>3, <1>7
  <2>2. \A j \in 1 .. d - b : SubSeq(text, b + 1, d)[j] = text[b + j]
    BY <1>1, <2>1, Segment
  <2>3. d = b + h + w + 2 /\ d - b = h + w + 2
    BY <1>0, <1>1, <1>2, <1>3, <1>7
  <2> QED  BY <1>1, <2>2, <2>3
<1>9. \A j \in 1 .. h : text[b + j] = H[j]
  <2> SUFFICES ASSUME NEW j \in 1 .. h PROVE text[b + j] = H[j]
    OBVIOUS
  <2>1. j \in 1 .. h + w + 2 /\ j \in 1 .. h + w /\ j <= h /\ j <= h + w
    BY <1>2, <1>3
  <2> QED  BY <1>6, <1>7, <1>8, <2>1
<1>10. ASSUME NEW j \in 1 .. w PROVE text[b + h + j] = P[j]
  <2> DEFINE k == h + j
  <2>0. j \in Nat /\ j >= 1 /\ j <= w /\ b \in Nat
    BY <1>3, <1>8
  <2>1. k \in 1 .. h + w + 2 /\ k \in 1 .. h + w /\ ~(k <= h) /\ k <= h + w /\ k - h = j /\ b + h + j = b + k
    BY <1>2, <1>3, <2>0
  <2> HIDE DEF k
  <2> QED  BY <1>6, <1>7, <1>8, <2>1
<1>11. ASSUME NEW j \in 1 .. 2 PROVE text[(d - 2) + j] = NL
  <2> DEFINE k == h + w + j
  <2>1. k \in 1 .. h + w + 2 /\ ~(k <= h + w) /\ k - (h + w) = j /\ (d - 2) + j = b + k
    BY <1>2, <1>3, <1>8
  <2> HIDE DEF k
  <2>2. text[b + k] = N[j]
    BY <1>7, <1>8, <2>1
  <2> QED  BY <1>4, <2>1, <2>2
<1>12. text[b + h] = Marker /\ (s.lines => text[b + 1] = Token("event", e) /\ text[b + 2] = NL)
  <2>1. h \in 1 .. h
    BY <1>2
  <2>2. text[b + h] = H[h] /\ (h = 3 => text[b + 1] = H[1] /\ text[b + 2] = H[2])
    BY <1>9, <2>1
  <2> QED  BY <1>2, <2>2
<1>13. d - 2 = b + h + w /\ (d - 2) + 2 <= Len(text)
  <2>1. d = b + h + w + 2 /\ b \in Nat /\ d <= Len(text)
    BY <1>0, <1>1, <1>8
  <2> QED  BY <1>0, <1>2, <1>3, <2>1
<1>14. text[(d - 2) + 1] = NL /\ text[(d - 2) + 2] = NL
  BY <1>11
<1>15. d - 2 = b + h + Pieces(e) + 2
  BY <1>1, <1>2, <1>8, <1>13, PayloadEnds DEF w
<1> QED  BY <1>1, <1>8, <1>10, <1>12, <1>13, <1>14, <1>15 DEF FrameIn, e, b, d, h, w, P

\* What stands where in a frame.
LEMMA FrameKinds ==
  ASSUME NEW s, s.text \in Texts, NEW e, NEW b, NEW c, FrameIn(s, e, b, c)
  PROVE  LET text == s.text
             a == b + Ahead(s) + 1
         IN /\ Len(text) \in Nat /\ b \in Nat /\ c \in Nat /\ a \in Nat /\ a < c /\ b < a /\ c = a + Pieces(e) + 1
            /\ Pieces(e) \in Nat /\ Ahead(s) \in {1, 3} /\ c + 2 <= Len(text)
            /\ text[c] = Token("close", e) /\ text[a] = Token("open", e) /\ text[a - 1] = Marker
            /\ \A j \in a + 1 .. c - 1 : text[j] = Token("piece", e)
            /\ text[b + 1] = (IF s.lines THEN Token("event", e) ELSE Marker)
            /\ \A j \in b + 1 .. a - 1 : text[j] \in {Token("event", e), NL, Marker}
            /\ \A j \in b + 1 .. c : ~(text[j] = NL /\ text[j + 1] = NL)
<1> DEFINE text == s.text
           h == Ahead(s)
           a == b + h + 1
           w == Pieces(e) + 2
<1>1. /\ e \in Events /\ b \in Nat /\ c = b + h + w /\ c + 2 <= Len(text) /\ Len(text) \in Nat
      /\ \A j \in 1 .. w : text[b + h + j] = Payload(e)[j]
      /\ text[b + h] = Marker /\ (s.lines => text[b + 1] = Token("event", e) /\ text[b + 2] = NL)
  <2>1. e \in Events /\ Pieces(e) \in Nat /\ h \in Nat
    BY PayloadTokens DEF FrameIn, Ahead
  <2>2. b \in Nat /\ c = b + h + Pieces(e) + 2 /\ c + 2 <= Len(text)
    BY DEF FrameIn
  <2>3. c = b + h + w
    <3> HIDE DEF h
    <3> QED  BY <2>1, <2>2
  <2>4. Len(text) \in Nat
    BY DEF Texts
  <2>5. \A j \in 1 .. w : text[b + h + j] = Payload(e)[j]
    BY DEF FrameIn
  <2>6. text[b + h] = Marker /\ (s.lines => text[b + 1] = Token("event", e) /\ text[b + 2] = NL)
    BY DEF FrameIn
  <2> QED  BY <2>1, <2>2, <2>3, <2>4, <2>5, <2>6
<1>2. h \in {1, 3} /\ (s.lines => h = 3) /\ (~s.lines => h = 1)
  BY DEF Ahead
<1>3. Pieces(e) \in Nat /\ w \in Nat /\ w >= 2
  BY <1>1, PayloadTokens
<1>4. /\ Payload(e)[1] = Token("open", e) /\ Payload(e)[w] = Token("close", e)
      /\ \A j \in 2 .. w - 1 : Payload(e)[j] = Token("piece", e)
  BY <1>1, <1>3, PayloadTokens
<1> HIDE DEF h, text
<1>5. a \in Nat /\ c \in Nat /\ a < c /\ b < a /\ c = a + Pieces(e) + 1 /\ a - 1 = b + h /\ c = b + h + w
  <2> DEFINE p == Pieces(e)
  <2>1. b \in Nat /\ c = b + h + p + 2 /\ p \in Nat /\ h \in Nat /\ w = p + 2
    BY <1>1, <1>2, <1>3
  <2> HIDE DEF p, w
  <2> QED  BY <2>1 DEF p
<1>6. text[a] = Token("open", e) /\ text[c] = Token("close", e) /\ text[a - 1] = Marker
  <2>1. 1 \in 1 .. w /\ w \in 1 .. w
    BY <1>3
  <2> QED  BY <1>1, <1>4, <1>5, <2>1
<1>7. ASSUME NEW j \in a + 1 .. c - 1 PROVE text[j] = Token("piece", e)
  <2> DEFINE k == j - (b + h)
  <2>0. j \in Nat /\ a + 1 <= j /\ j <= c - 1
    BY <1>5
  <2>1. k \in 1 .. w /\ k \in 2 .. w - 1 /\ j = b + h + k
    <3>1. a = b + h + 1 /\ c = b + h + w /\ b \in Nat /\ h \in Nat
      BY <1>1, <1>2, <1>5
    <3> HIDE DEF a, w
    <3> QED  BY <1>3, <2>0, <3>1
  <2> HIDE DEF k
  <2> QED  BY <1>1, <1>4, <2>1
<1>8. text[b + 1] = (IF s.lines THEN Token("event", e) ELSE Marker)
  BY <1>1, <1>2
<1>9. ASSUME NEW j \in b + 1 .. a - 1
      PROVE  text[j] \in {Token("event", e), NL, Marker} /\ (text[j] = NL => j + 1 = a - 1)
  <2>0. Token("event", e) # NL /\ Marker # NL
    BY DEF Token, NL, Marker
  <2>1. CASE s.lines
    <3>1. j = b + 1 \/ j = b + 2 \/ j = b + 3
      BY <1>1, <1>2, <1>5, <2>1
    <3>2. h = 3 /\ b + 2 + 1 = a - 1 /\ text[b + 3] = Marker
      BY <1>1, <1>2, <1>5, <2>1
    <3> QED  BY <1>1, <2>0, <2>1, <3>1, <3>2
  <2>2. CASE ~s.lines
    <3>1. j = b + h
      BY <1>1, <1>2, <1>5, <2>2
    <3> QED  BY <1>1, <2>0, <3>1
  <2> QED  BY <2>1, <2>2
<1>10. ASSUME NEW j \in b + 1 .. c PROVE ~(text[j] = NL /\ text[j + 1] = NL)
  <2>1. Token("open", e) # NL /\ Token("piece", e) # NL /\ Token("close", e) # NL /\ Marker # NL
    BY DEF Token, NL, Marker
  <2>2. CASE j \in b + 1 .. a - 1
    BY <1>6, <1>9, <2>1, <2>2
  <2>3. CASE j \notin b + 1 .. a - 1
    <3>1. j = a \/ j = c \/ j \in a + 1 .. c - 1
      BY <1>1, <1>5, <2>3
    <3> QED  BY <1>6, <1>7, <2>1, <3>1
  <2> QED  BY <2>2, <2>3
<1> QED  BY <1>1, <1>2, <1>3, <1>5, <1>6, <1>7, <1>8, <1>9, <1>10 DEF text, h

-----------------------------------------------------------------------------
(* A frame read.                                                              *)

LEMMA OneMore ==
  ASSUME NEW C, NEW x \in Seq(C), NEW a \in Nat, NEW k \in Nat, 1 <= a, a <= k + 1, k + 1 <= Len(x)
  PROVE  SubSeq(x, a, k + 1) = Append(SubSeq(x, a, k), x[k + 1])
<1> DEFINE p == SubSeq(x, a, k)
           q == SubSeq(x, a, k + 1)
           n == (k + 1) - a
<1>1. n \in Nat /\ \A i \in 1 .. n + 1 : a + i - 1 \in 1 .. Len(x)
  OBVIOUS
<1>2. p \in Seq(C) /\ Len(p) = n /\ \A i \in 1 .. n : p[i] = x[a + i - 1]
  OBVIOUS
<1>3. q \in Seq(C) /\ Len(q) = n + 1 /\ \A i \in 1 .. n + 1 : q[i] = x[a + i - 1]
  OBVIOUS
<1>4. x[k + 1] \in C /\ a + (n + 1) - 1 = k + 1
  OBVIOUS
<1> HIDE DEF p, q, n
<1>5. q[n + 1] = x[k + 1]
  BY <1>1, <1>3, <1>4
<1>6. \A i \in 1 .. n : q[i] = p[i]
  <2>1. \A i \in 1 .. n : i \in 1 .. n + 1
    BY <1>1
  <2> QED  BY <1>2, <1>3, <2>1
<1>7. q = Append(p, x[k + 1])
  <2>1. Append(p, x[k + 1]) \in Seq(C) /\ Len(Append(p, x[k + 1])) = n + 1
    BY <1>2, <1>4
  <2>2. \A i \in 1 .. n + 1 : Append(p, x[k + 1])[i] = q[i]
    BY <1>1, <1>2, <1>4, <1>5, <1>6
  <2> DEFINE r == Append(p, x[k + 1])
  <2>3. r \in Seq(C) /\ Len(r) = Len(q) /\ \A i \in 1 .. Len(q) : r[i] = q[i]
    BY <1>3, <2>1, <2>2
  <2> HIDE DEF r
  <2>4. r = q
    BY <1>3, <2>3
  <2> QED  BY <2>4 DEF r
<1> QED  BY <1>7 DEF p, q

LEMMA SplitIs ==
  ASSUME NEW x \in ListsOfLines, NEW t \in Tokens
  PROVE  LET y == SplitNext(x, t)
             n == Len(x)
         IN /\ n \in Nat \ {0} /\ y \in ListsOfLines
            /\ t = NL => Len(y) = n + 1 /\ y[n + 1] = <<>> /\ \A i \in 1 .. n : y[i] = x[i]
            /\ t # NL => Len(y) = n /\ y[n] = Append(x[n], t) /\ \A i \in 1 .. n - 1 : y[i] = x[i]
<1>1. x \in Seq(Texts) /\ Len(x) \in Nat \ {0}
  BY DEF ListsOfLines
<1>2. SplitNext(x, t) \in ListsOfLines
  BY SplitNextType
<1>3. CASE t = NL
  BY <1>1, <1>2, <1>3 DEF SplitNext
<1>4. CASE t # NL
  <2> DEFINE q == SubSeq(x, 1, Len(x) - 1)
             l == Append(x[Len(x)], t)
  <2>1. SplitNext(x, t) = q \o <<l>>
    BY <1>4 DEF SplitNext, Front, Last
  <2>2. q \in Seq(Texts) /\ Len(q) = Len(x) - 1 /\ \A i \in 1 .. Len(x) - 1 : q[i] = x[i]
    <3> DEFINE m == Len(x) - 1
    <3>1. m \in Nat /\ m <= Len(x)
      BY <1>1
    <3> HIDE DEF m
    <3>2. SubSeq(x, 1, m) \in Seq(Texts) /\ Len(SubSeq(x, 1, m)) = m
      BY <1>1, <3>1
    <3>3. \A i \in 1 .. m : SubSeq(x, 1, m)[i] = x[i]
      BY <1>1, <3>1
    <3> QED  BY <3>2, <3>3 DEF m
  <2>3. x[Len(x)] \in Texts
    BY <1>1
  <2>4. l \in Texts
    BY <2>3 DEF Texts
  <2>5. Len(<<l>>) = 1 /\ <<l>> \in Seq(Texts) /\ <<l>>[1] = l
    BY <2>4
  <2> HIDE DEF q, l
  <2>6. /\ Len(q \o <<l>>) = Len(x)
        /\ \A i \in 1 .. Len(x) : (q \o <<l>>)[i] = IF i <= Len(x) - 1 THEN q[i] ELSE <<l>>[i - (Len(x) - 1)]
    <3>1. /\ Len(q \o <<l>>) = Len(q) + Len(<<l>>)
          /\ \A i \in 1 .. Len(q) + Len(<<l>>) : (q \o <<l>>)[i] = IF i <= Len(q) THEN q[i] ELSE <<l>>[i - Len(q)]
      BY <2>2, <2>5, ConcatProperties
    <3> QED  BY <1>1, <2>2, <2>5, <3>1
  <2>7. (q \o <<l>>)[Len(x)] = l
    BY <1>1, <2>5, <2>6
  <2>8. \A i \in 1 .. Len(x) - 1 : (q \o <<l>>)[i] = x[i]
    BY <1>1, <2>2, <2>6
  <2> QED  BY <1>1, <1>2, <1>4, <2>1, <2>6, <2>7, <2>8 DEF l
<1> QED  BY <1>3, <1>4

\* What can stand on the lines above the data line of a frame, and the lines of one of which
\* all before the place k is read.
Above(s, e, y) == y = <<>> \/ (s.lines /\ y = <<Token("event", e)>>)
LinesTo(s, e, b, k, x) ==
    LET a == b + Ahead(s) + 1
        n == Len(x)
    IN /\ x \in ListsOfLines
       /\ \A i \in 1 .. n - 1 : Above(s, e, x[i])
       /\ k <= b => x[n] = <<>>
       /\ s.lines /\ k = b + 1 => x[n] = <<Token("event", e)>>
       /\ s.lines /\ k = b + 2 => x[n] = <<>>
       /\ s.lines /\ k >= b + 2 => \E i \in 1 .. n - 1 : x[i] = <<Token("event", e)>>
       /\ k >= a - 1 => x[n] = SubSeq(s.text, a - 1, k)

LEMMA LinesToNext ==
  ASSUME NEW s, s.text \in Texts, NEW e, NEW b, NEW c, FrameIn(s, e, b, c),
         b >= 1 => s.text[b] = NL,
         NEW k \in Nat, b - 1 <= k, k < c, NEW x, LinesTo(s, e, b, k, x)
  PROVE  LinesTo(s, e, b, k + 1, SplitNext(x, s.text[k + 1]))
<1> DEFINE text == s.text
           a == b + Ahead(s) + 1
           E == <<Token("event", e)>>
           t == text[k + 1]
           y == SplitNext(x, t)
           n == Len(x)
           above(z) == Above(s, e, z)
<1>1. /\ Len(text) \in Nat /\ b \in Nat /\ c \in Nat /\ a \in Nat /\ a < c /\ b < a
      /\ Ahead(s) \in {1, 3} /\ c + 2 <= Len(text)
      /\ text[c] = Token("close", e) /\ text[a] = Token("open", e) /\ text[a - 1] = Marker
      /\ \A j \in a + 1 .. c - 1 : text[j] = Token("piece", e)
  BY FrameKinds
<1>2. (s.lines => a = b + 4 /\ text[b + 1] = Token("event", e) /\ text[b + 2] = NL) /\ (~s.lines => a = b + 2)
  BY <1>1 DEF FrameIn, Ahead
<1>3. k + 1 \in 1 .. Len(text)
  BY <1>1
<1>4. t \in Tokens /\ x \in ListsOfLines
  BY <1>3 DEF Texts, LinesTo
<1>5. /\ n \in Nat \ {0} /\ y \in ListsOfLines
      /\ t = NL => Len(y) = n + 1 /\ y[n + 1] = <<>> /\ \A i \in 1 .. n : y[i] = x[i]
      /\ t # NL => Len(y) = n /\ y[n] = Append(x[n], t) /\ \A i \in 1 .. n - 1 : y[i] = x[i]
  BY <1>4, SplitIs
<1>6. /\ \A i \in 1 .. n - 1 : above(x[i])
      /\ k <= b => x[n] = <<>>
      /\ s.lines /\ k = b + 1 => x[n] = E
      /\ s.lines /\ k = b + 2 => x[n] = <<>>
      /\ s.lines /\ k >= b + 2 => \E i \in 1 .. n - 1 : x[i] = E
      /\ k >= a - 1 => x[n] = SubSeq(text, a - 1, k)
  BY DEF LinesTo
<1>7. Token("event", e) # NL /\ Token("open", e) # NL /\ Token("piece", e) # NL /\ Token("close", e) # NL /\ Marker # NL
  BY DEF Token, NL, Marker
<1>8. above(<<>>) /\ (s.lines => above(E))
  BY DEF Above
<1>9. LinesTo(s, e, b, k + 1, y) <=>
        /\ \A i \in 1 .. Len(y) - 1 : above(y[i])
        /\ k + 1 <= b => y[Len(y)] = <<>>
        /\ s.lines /\ k + 1 = b + 1 => y[Len(y)] = E
        /\ s.lines /\ k + 1 = b + 2 => y[Len(y)] = <<>>
        /\ s.lines /\ k + 1 >= b + 2 => \E i \in 1 .. Len(y) - 1 : y[i] = E
        /\ k + 1 >= a - 1 => y[Len(y)] = SubSeq(text, a - 1, k + 1)
  BY <1>5 DEF LinesTo
<1>0. b >= 1 => text[b] = NL
  OBVIOUS
<1> SUFFICES LinesTo(s, e, b, k + 1, y)
  OBVIOUS
<1> HIDE DEF text, y, t, n, above, E
<1>10. CASE k + 1 = b
  <2>1. t = NL
    BY <1>0, <1>1, <1>10 DEF t
  <2>2. Len(y) = n + 1 /\ y[n + 1] = <<>> /\ \A i \in 1 .. n : y[i] = x[i] /\ above(x[i])
    BY <1>1, <1>5, <1>6, <1>8, <1>10, <2>1
  <2>3. ~(k + 1 >= a - 1) /\ ~(k + 1 >= b + 2)
    BY <1>1, <1>2, <1>10
  <2>4. Len(y) - 1 = n /\ Len(y) = n + 1
    BY <1>5, <2>2
  <2>5. \A i \in 1 .. Len(y) - 1 : above(y[i])
    BY <2>2, <2>4
  <2>6. y[Len(y)] = <<>> /\ k + 1 # b + 1 /\ k + 1 # b + 2
    BY <1>1, <1>10, <2>2, <2>4
  <2> QED  BY <1>9, <2>3, <2>5, <2>6
<1>11. CASE k = b /\ s.lines
  <2>1. t = Token("event", e)
    BY <1>2, <1>11 DEF t
  <2>2. x[n] = <<>> /\ Append(<<>>, t) = E
    BY <1>6, <1>11, <2>1, <1>1 DEF E
  <2>3. Len(y) = n /\ y[n] = E /\ \A i \in 1 .. n - 1 : above(y[i])
    BY <1>5, <1>6, <1>7, <2>1, <2>2
  <2>4. ~(k + 1 >= a - 1) /\ ~(k + 1 >= b + 2) /\ ~(k + 1 <= b) /\ k + 1 # b + 2
    BY <1>1, <1>2, <1>11
  <2> QED  BY <1>9, <1>11, <2>3, <2>4
<1>12. CASE k = b + 1 /\ s.lines
  <2>1. t = NL
    BY <1>2, <1>12, <1>1 DEF t
  <2>2. Len(y) = n + 1 /\ y[n + 1] = <<>> /\ \A i \in 1 .. n : y[i] = x[i] /\ above(x[i])
    BY <1>5, <1>6, <1>8, <1>12, <2>1
  <2>3. y[n] = E /\ n \in 1 .. Len(y) - 1
    BY <1>5, <1>6, <1>12, <2>2
  <2>4. ~(k + 1 >= a - 1) /\ ~(k + 1 <= b) /\ k + 1 # b + 1
    BY <1>1, <1>2, <1>12
  <2>5. y[Len(y)] = <<>> /\ \A i \in 1 .. Len(y) - 1 : above(y[i])
    BY <1>5, <2>2
  <2> QED  BY <1>9, <2>3, <2>4, <2>5
<1>13. CASE k + 1 = a - 1
  <2>1. t = Marker /\ t # NL
    BY <1>1, <1>7, <1>13 DEF t
  <2>2. x[n] = <<>> /\ (s.lines => k = b + 2)
    BY <1>1, <1>2, <1>6, <1>13
  <2>3. Len(y) = n /\ y[n] = <<t>> /\ \A i \in 1 .. n - 1 : y[i] = x[i]
    BY <1>5, <2>1, <2>2
  <2>4. SubSeq(text, a - 1, k + 1) = <<t>>
    <3>1. a - 1 \in 1 .. Len(text) /\ text \in Seq(Tokens)
      BY <1>1 DEF text, Texts
    <3>2. k + 1 \in 1 .. Len(text)
      BY <1>13, <3>1
    <3> DEFINE z == k + 1
    <3> HIDE DEF z
    <3>3. SubSeq(text, z, z) = <<text[z]>>
      <4>1. z \in 1 .. Len(text)
        BY <3>2 DEF z
      <4>2. Len(SubSeq(text, z, z)) = 1 /\ SubSeq(text, z, z)[1] = text[z] /\ SubSeq(text, z, z) \in Seq(Tokens)
        BY <3>1, <4>1
      <4> DEFINE u == SubSeq(text, z, z)
                 v == text[z]
      <4>3. u \in Seq(Tokens) /\ Len(u) = 1 /\ u[1] = v /\ v \in Tokens
        BY <3>1, <4>1, <4>2
      <4> HIDE DEF u, v
      <4>4. <<v>> \in Seq(Tokens) /\ Len(<<v>>) = 1 /\ <<v>>[1] = v
        BY <4>3
      <4> DEFINE w == <<v>>
      <4>5. w \in Seq(Tokens) /\ Len(w) = Len(u) /\ \A i \in 1 .. Len(u) : w[i] = u[i]
        BY <4>3, <4>4
      <4> HIDE DEF w
      <4>6. w = u
        BY <4>3, <4>5
      <4> QED  BY <4>6 DEF u, v, w
    <3> QED  BY <1>13, <3>3 DEF t, z
  <2>5. ~(k + 1 <= b) /\ (s.lines => k + 1 # b + 1 /\ k + 1 # b + 2)
    BY <1>1, <1>2, <1>13
  <2>6. s.lines => k + 1 >= b + 2 /\ \E i \in 1 .. n - 1 : x[i] = E
    BY <1>1, <1>2, <1>6, <1>13
  <2>7. (\A i \in 1 .. Len(y) - 1 : above(y[i])) /\ (s.lines => \E i \in 1 .. Len(y) - 1 : y[i] = E)
    BY <1>6, <2>3, <2>6
  <2> QED  BY <1>9, <2>3, <2>4, <2>5, <2>7
<1>14. CASE k + 1 >= a
  <2>1. t # NL
    <3>1. k + 1 = a \/ k + 1 = c \/ k + 1 \in a + 1 .. c - 1
      BY <1>1, <1>14
    <3> QED  BY <1>1, <1>7, <3>1 DEF t
  <2>2. x[n] = SubSeq(text, a - 1, k) /\ (s.lines => \E i \in 1 .. n - 1 : x[i] = E)
    BY <1>1, <1>2, <1>6, <1>14
  <2>3. Len(y) = n /\ y[n] = Append(SubSeq(text, a - 1, k), t) /\ \A i \in 1 .. n - 1 : y[i] = x[i]
    BY <1>5, <2>1, <2>2
  <2>4. SubSeq(text, a - 1, k + 1) = Append(SubSeq(text, a - 1, k), t)
    <3>1. a - 1 \in 1 .. Len(text) /\ a - 1 <= k /\ k + 1 <= Len(text) /\ text \in Seq(Tokens)
      BY <1>1, <1>14, <1>3 DEF text, Texts
    <3> DEFINE z == a - 1
    <3>2. z \in Nat /\ 1 <= z /\ z <= k + 1 /\ k + 1 <= Len(text) /\ text \in Seq(Tokens)
      BY <3>1, <1>1
    <3> HIDE DEF z
    <3>3. SubSeq(text, z, k + 1) = Append(SubSeq(text, z, k), text[k + 1])
      BY <3>2, OneMore
    <3> QED  BY <3>3 DEF t, z
  <2>5. ~(k + 1 <= b) /\ (s.lines => k + 1 # b + 1 /\ k + 1 # b + 2)
    <3>1. k \in Nat /\ b \in Nat /\ a \in Nat /\ b < a /\ k + 1 >= a
      BY <1>1, <1>14
    <3>2. s.lines => a = b + 4
      BY <1>2
    <3> HIDE DEF a
    <3> QED  BY <3>1, <3>2
  <2> QED  BY <1>6, <1>9, <2>2, <2>3, <2>4, <2>5
<1>15. k + 1 = b \/ (k = b /\ s.lines) \/ (k = b + 1 /\ s.lines) \/ k + 1 = a - 1 \/ k + 1 >= a
  BY <1>1, <1>2
<1> QED  BY <1>10, <1>11, <1>12, <1>13, <1>14, <1>15

\* The lines of a frame: one is the payload's, the others stand above it or are empty.
FrameLined(s, e, l, x) ==
    /\ x \in ListsOfLines
    /\ \E m \in 1 .. Len(x) :
          /\ x[m] = l
          /\ \A i \in 1 .. Len(x) : i # m => Above(s, e, x[i])
          /\ s.lines => \E i \in 1 .. Len(x) : i # m /\ x[i] = <<Token("event", e)>>

\* The scanner splits a frame, with the blank lines before and behind it, into such lines.
LEMMA FrameLines ==
  ASSUME NEW s, s.text \in Texts, NEW e, NEW b, NEW c, FrameIn(s, e, b, c),
         b >= 1 => s.text[b] = NL,
         NEW L \in Nat, L = b \/ L = b - 1, NEW r, r = c \/ r = c + 1
  PROVE  FrameLined(s, e, SubSeq(s.text, b + Ahead(s), c), Lines(SubSeq(s.text, L + 1, r)))
<1> DEFINE text == s.text
           a == b + Ahead(s) + 1
           E == <<Token("event", e)>>
           S == SubSeq(text, L + 1, r)
           n == Len(S)
<1>1. /\ Len(text) \in Nat /\ b \in Nat /\ c \in Nat /\ a \in Nat /\ a < c /\ b < a
      /\ Ahead(s) \in {1, 3} /\ c + 2 <= Len(text) /\ text \in Texts
  BY FrameKinds
<1>2. (s.lines => a = b + 4) /\ (~s.lines => a = b + 2)
  BY <1>1 DEF FrameIn, Ahead
<1>3. text[c + 1] = NL
  BY DEF FrameIn
<1>4. L \in 0 .. Len(text) /\ r \in 0 .. Len(text) /\ L <= c /\ L <= r /\ r \in Nat
  BY <1>1
<1>5. S \in Texts /\ n = r - L /\ \A i \in 1 .. r - L : S[i] = text[L + i]
  BY <1>1, <1>4, Segment
<1> HIDE DEF S
<1>6. PICK f \in [0 .. n -> ListsOfLines] :
            /\ f[0] = << <<>> >> /\ Lines(S) = f[n]
            /\ \A i \in 1 .. n : f[i] = SplitNext(f[i - 1], S[i])
  BY <1>5, LinesLoop
<1>7. n = r - L /\ n \in Nat
  BY <1>1, <1>4, <1>5
<1> DEFINE w == c - L
           T == {i \in 0 .. w : LinesTo(s, e, b, L + i, f[i])}
<1>8. w \in Nat /\ w <= n /\ L + w = c /\ (r = c => n = w) /\ (r = c + 1 => n = w + 1)
  BY <1>1, <1>4, <1>7
<1> HIDE DEF n, w, text
<1>9. 0 \in T
  <2> DEFINE x == << <<>> >>
  <2>1. x \in ListsOfLines /\ Len(x) = 1 /\ x[1] = <<>>
    BY DEF ListsOfLines, Texts
  <2> HIDE DEF x
  <2>2. L + 0 = L /\ L <= b /\ ~(L = b + 1) /\ ~(L = b + 2) /\ ~(L >= b + 2) /\ ~(L >= a - 1) /\ 0 \in 0 .. w
    <3>1. L \in Nat /\ b \in Nat /\ a \in Nat /\ L <= b /\ 0 \in 0 .. w
      BY <1>1, <1>4, <1>8
    <3>2. a = b + 4 \/ a = b + 2
      BY <1>2
    <3> HIDE DEF a
    <3> QED  BY <3>1, <3>2
  <2>3. \A i \in 1 .. Len(x) - 1 : Above(s, e, x[i])
    BY <2>1
  <2>4. LinesTo(s, e, b, L, x)
    BY <2>1, <2>2, <2>3 DEF LinesTo
  <2> QED  BY <1>6, <2>2, <2>4 DEF x
<1>10. ASSUME NEW i \in 0 .. w - 1, i \in T PROVE i + 1 \in T
  <2> DEFINE k == L + i
  <2>1. i \in Nat /\ i + 1 \in 0 .. w /\ i + 1 \in 1 .. n /\ (i + 1) - 1 = i /\ L + (i + 1) = k + 1 /\ i + 1 \in 1 .. r - L
    BY <1>7, <1>8
  <2>2. k \in Nat /\ b - 1 <= k /\ k < c
    BY <1>1, <1>8, <2>1
  <2>3. S[i + 1] = text[k + 1]
    BY <1>5, <2>1
  <2>4. f[i + 1] = SplitNext(f[i], text[k + 1])
    BY <1>6, <2>1, <2>3
  <2>5. LinesTo(s, e, b, k, f[i])
    BY <1>10
  <2> HIDE DEF k
  <2>6. LinesTo(s, e, b, k + 1, SplitNext(f[i], s.text[k + 1]))
    BY <2>2, <2>5, LinesToNext
  <2>7. LinesTo(s, e, b, L + (i + 1), f[i + 1])
    BY <2>1, <2>4, <2>6 DEF text
  <2> QED  BY <2>1, <2>7
<1> HIDE DEF T
<1>11. w \in T
  <2>1. 0 .. w \subseteq T
    BY <1>8, <1>9, <1>10, UpTo
  <2> QED  BY <1>8, <2>1
<1> DEFINE x == f[w]
           m == Len(x)
           l == SubSeq(text, a - 1, c)
           Given(y, k) == /\ y[k] = l /\ k \in 1 .. Len(y)
                          /\ \A i \in 1 .. Len(y) : i # k => Above(s, e, y[i])
                          /\ s.lines => \E i \in 1 .. Len(y) : i # k /\ y[i] = E
<1>12. LinesTo(s, e, b, c, x)
  BY <1>8, <1>11 DEF T
<1> HIDE DEF x
<1>13. /\ x \in ListsOfLines /\ m \in Nat \ {0} /\ x[m] = l
       /\ \A i \in 1 .. m - 1 : Above(s, e, x[i])
       /\ s.lines => \E i \in 1 .. m - 1 : x[i] = E
  <2>1. c >= a - 1 /\ (s.lines => c >= b + 2)
    BY <1>1, <1>2
  <2> QED  BY <1>12, <2>1 DEF LinesTo, ListsOfLines, text
<1> HIDE DEF l, E, m
<1>14. \E k : Lines(S) \in ListsOfLines /\ Given(Lines(S), k)
  <2>1. CASE r = c
    <3>1. Lines(S) = x
      BY <1>6, <1>8, <2>1 DEF x
    <3>2. Given(x, m)
      BY <1>13 DEF m
    <3> QED  BY <1>13, <3>1, <3>2
  <2>2. CASE r = c + 1
    <3> DEFINE y == SplitNext(x, NL)
    <3>1. Lines(S) = y
      <4>1. n = w + 1 /\ n \in 1 .. n /\ n - 1 = w /\ n \in 1 .. r - L /\ L + n = c + 1
        BY <1>1, <1>4, <1>7, <1>8, <2>2
      <4>2. S[n] = NL
        BY <1>3, <1>5, <4>1 DEF text
      <4> QED  BY <1>6, <4>1, <4>2 DEF x
    <3>2. y \in ListsOfLines /\ Len(y) = m + 1 /\ y[m + 1] = <<>> /\ \A i \in 1 .. m : y[i] = x[i]
      <4>1. NL \in Tokens
        BY DEF Tokens
      <4> QED  BY <1>13, <4>1, SplitIs DEF m
    <3> HIDE DEF y
    <3>3. Above(s, e, <<>>)
      BY DEF Above
    <3>4. \A i \in 1 .. m + 1 : i # m => i = m + 1 \/ i \in 1 .. m - 1
      BY <1>13
    <3>5. \A i \in 1 .. m + 1 : i # m => Above(s, e, y[i])
      BY <1>13, <3>2, <3>3, <3>4
    <3>6. s.lines => \E i \in 1 .. m + 1 : i # m /\ y[i] = E
      BY <1>13, <3>2
    <3>7. Given(y, m)
      BY <1>13, <3>2, <3>5, <3>6
    <3> QED  BY <3>1, <3>2, <3>7
  <2> QED  BY <2>1, <2>2
<1>15. a - 1 = b + Ahead(s)
  BY <1>1
<1>16. FrameLined(s, e, l, Lines(S))
  BY <1>14 DEF FrameLined, E
<1> QED  BY <1>15, <1>16 DEF l, S, text

LEMMA FlattenOne ==
  ASSUME NEW T, NEW p \in Seq(T)
  PROVE  FlattenSeq(<<p>>) = p
<1> DEFINE x == <<p>>
<1>1. x \in Seq(Seq(T)) /\ Len(x) = 1 /\ x[1] = p
  OBVIOUS
<1> HIDE DEF x
<1>2. PICK F \in [0 .. Len(x) -> Seq(T)] :
         /\ F[0] = <<>> /\ FlattenSeq(x) = F[Len(x)]
         /\ \A i \in 1 .. Len(x) : F[i] = F[i - 1] \o x[i]
  BY <1>1, FlattenLoop
<1>3. 1 \in 1 .. Len(x) /\ 1 - 1 = 0
  BY <1>1
<1>4. FlattenSeq(x) = F[1] /\ F[1] = <<>> \o p
  BY <1>1, <1>2, <1>3
<1>5. <<>> \o p = p
  BY ConcatEmptySeq
<1> QED  BY <1>4, <1>5 DEF x

\* A payload is valid JSON, whole.
LEMMA PayloadValid ==
  ASSUME NEW e \in Events
  PROVE  LET p == Payload(e)
         IN /\ p \in Texts /\ Unspaced(p) = p /\ p # <<>> /\ p # <<DoneMark>> /\ p[1].e = e /\ ValidPayload(p)
<1> DEFINE p == Payload(e)
           n == Pieces(e)
<1>1. p \in Texts /\ Len(p) = n + 2 /\ n \in Nat /\ p[1] = Token("open", e) /\ p[n + 2] = Token("close", e)
      /\ \A j \in 2 .. n + 1 : p[j] = Token("piece", e)
  BY PayloadTokens
<1>2. Token("open", e) # NL /\ Token("piece", e) # NL /\ Token("close", e) # NL /\ Token("open", e) # DoneMark
  BY DEF Token, NL, DoneMark
<1>3. Token("open", e).k = "open" /\ Token("open", e).e = e
  BY DEF Token
<1> HIDE DEF p, n
<1>4. \A i \in 1 .. Len(p) : p[i] # NL
  <2> SUFFICES ASSUME NEW i \in 1 .. Len(p) PROVE p[i] # NL
    OBVIOUS
  <2>1. i = 1 \/ i = n + 2 \/ i \in 2 .. n + 1
    BY <1>1
  <2> QED  BY <1>1, <1>2, <2>1
<1>5. Unspaced(p) = p
  BY <1>1, <1>4, UnspacedSame
<1>6. p # <<>> /\ p # <<DoneMark>> /\ p[1].e = e /\ p[1].k = "open"
  BY <1>1, <1>2, <1>3
<1>7. ValidPayload(p)
  BY <1>5, <1>6 DEF ValidPayload, Blank, p
<1> QED  BY <1>1, <1>5, <1>6, <1>7 DEF p

\* The one data line of a frame's lines, and the type they give.
LEMMA LinedData ==
  ASSUME NEW s, NEW e, NEW l \in Texts, l # <<>>, l[1] = Marker, NEW x, FrameLined(s, e, l, x)
  PROVE  DataIn(x) = <<Tail(l)>>
<1> DEFINE n == Len(x)
<1>1. x \in Seq(Texts) /\ n \in Nat
  BY DEF FrameLined, ListsOfLines
<1>2. PICK m \in 1 .. n : x[m] = l /\ \A i \in 1 .. n : i # m => Above(s, e, x[i])
  BY DEF FrameLined
<1>3. PICK f \in [0 .. n -> Seq(Texts)] :
            /\ f[0] = <<>> /\ DataIn(x) = f[n]
            /\ \A i \in 1 .. n : f[i] = IF x[i] # <<>> /\ x[i][1] = Marker THEN Append(f[i - 1], Tail(x[i])) ELSE f[i - 1]
  BY <1>1, DataInLoop
<1>4. \A i \in 1 .. n : i # m => f[i] = f[i - 1]
  <2> SUFFICES ASSUME NEW i \in 1 .. n, i # m PROVE f[i] = f[i - 1]
    OBVIOUS
  <2>1. x[i] = <<>> \/ x[i] = <<Token("event", e)>>
    BY <1>2 DEF Above
  <2>2. <<Token("event", e)>>[1] # Marker
    BY DEF Token, Marker
  <2>3. ~(x[i] # <<>> /\ x[i][1] = Marker)
    BY <2>1, <2>2
  <2> QED  BY <1>3, <2>3
<1>5. f[m] = Append(f[m - 1], Tail(l))
  BY <1>2, <1>3
<1> HIDE DEF n
<1> DEFINE T == {i \in 0 .. n : f[i] = IF i < m THEN <<>> ELSE <<Tail(l)>>}
<1>6. m \in Nat /\ m >= 1 /\ m <= n
  BY <1>1, <1>2
<1>7. 0 \in T
  BY <1>1, <1>3, <1>6
<1>8. ASSUME NEW i \in 0 .. n - 1, i \in T PROVE i + 1 \in T
  <2>1. i \in Nat /\ i + 1 \in 1 .. n /\ i + 1 \in 0 .. n /\ (i + 1) - 1 = i
    BY <1>1
  <2>2. f[i] = IF i < m THEN <<>> ELSE <<Tail(l)>>
    BY <1>8
  <2>3. CASE i + 1 = m
    <3>1. i < m /\ m - 1 = i
      BY <2>1, <2>3, <1>6
    <3>2. f[i + 1] = Append(<<>>, Tail(l))
      BY <1>5, <2>2, <2>3, <3>1
    <3>3. ~(i + 1 < m)
      BY <2>1, <2>3
    <3> QED  BY <2>1, <3>2, <3>3
  <2>4. CASE i + 1 # m
    <3>1. f[i + 1] = f[i] /\ (i + 1 < m <=> i < m)
      BY <1>4, <1>6, <2>1, <2>4
    <3> QED  BY <2>1, <2>2, <3>1
  <2> QED  BY <2>3, <2>4
<1> HIDE DEF T
<1>9. n \in T
  <2>1. 0 .. n \subseteq T
    BY <1>1, <1>7, <1>8, UpTo
  <2> QED  BY <1>1, <2>1
<1> QED  BY <1>3, <1>6, <1>9 DEF T

\* The event type found in such lines is that of the event line, if there is one.
LEMMA LinedType ==
  ASSUME NEW s, NEW e, NEW l \in Texts, l # <<>>, l[1] = Marker, NEW x, FrameLined(s, e, l, x)
  PROVE  OrChunk(EventTypeIn(x)) = TypeGiven(s, e)
<1> DEFINE n == Len(x)
           E == <<Token("event", e)>>
           I == {i \in 1 .. n : x[i] # <<>> /\ x[i][1].k = "event"}
           last == IF I # {} THEN Max(I) ELSE 0
<1>1. x \in Seq(Texts) /\ n \in Nat
  BY DEF FrameLined, ListsOfLines
<1>2. PICK m \in 1 .. n : /\ x[m] = l /\ \A i \in 1 .. n : i # m => Above(s, e, x[i])
                          /\ s.lines => \E i \in 1 .. n : i # m /\ x[i] = E
  BY DEF FrameLined
<1>3. EventTypeIn(x) = IF last = 0 THEN "" ELSE NamedType(x[last])
  BY DEF EventTypeIn, SelectLastInSeq
<1>4. E # <<>> /\ E[1].k = "event" /\ Marker.k # "event" /\ Len(E) = 1 /\ E[1].e = e
  BY DEF Token, Marker
<1>5. \A i \in I : s.lines /\ x[i] = E
  <2> SUFFICES ASSUME NEW i \in I PROVE s.lines /\ x[i] = E
    OBVIOUS
  <2>1. i \in 1 .. n /\ x[i] # <<>> /\ x[i][1].k = "event"
    OBVIOUS
  <2>2. i # m
    BY <1>2, <1>4, <2>1
  <2>3. Above(s, e, x[i])
    BY <1>2, <2>1, <2>2
  <2> QED  BY <2>1, <2>3 DEF Above
<1>6. CASE s.lines
  <2>1. I # {} /\ I \subseteq 1 .. n
    BY <1>2, <1>4, <1>6
  <2>2. Max(I) \in I
    <3> HIDE DEF I
    <3> QED  BY <1>1, <2>1, MaxIs
  <2>3. last = Max(I) /\ last \in 1 .. n
    BY <2>1, <2>2
  <2>4. last # 0 /\ x[last] = E
    <3> HIDE DEF I
    <3> QED  BY <1>1, <1>5, <2>2, <2>3
  <2>5. EventTypeIn(x) = LineType(e)
    <3> HIDE DEF last, E
    <3> QED  BY <1>3, <1>4, <2>4 DEF NamedType
  <2> QED  BY <1>6, <2>5 DEF TypeGiven
<1>7. CASE ~s.lines
  <2>1. I = {}
    BY <1>5, <1>7
  <2>2. EventTypeIn(x) = ""
    BY <1>3, <2>1
  <2> QED  BY <1>7, <2>2 DEF TypeGiven
<1> QED  BY <1>6, <1>7

\* A frame that is whole but for its separator is read as it stands, once.
\* What is read of S is the event, and S is used up.
ReadsWhole(s, e, o, S) ==
    ObserveFrame(o, S) = ObserveDeclared(o, Declares(e), TypeGiven(s, e)) /\ TailEnd(o, S) = Len(S)

\* A frame, after at most one blank line and before at most one, is read as its one event.
LEMMA FrameObserved ==
  ASSUME NEW s, s.text \in Texts, NEW e, NEW b, NEW c, FrameIn(s, e, b, c),
         b >= 1 => s.text[b] = NL,
         NEW L \in Nat, L = b \/ L = b - 1, NEW r, r = c \/ r = c + 1,
         NEW o \in Observers
  PROVE  ReadsWhole(s, e, o, SubSeq(s.text, L + 1, r))
<1> DEFINE text == s.text
           h == b + Ahead(s)
           l == SubSeq(text, h, c)
           p == Payload(e)
           S == SubSeq(text, L + 1, r)
           x == Lines(S)
           w == Pieces(e) + 2
<1>1. FrameLined(s, e, l, x)
  BY FrameLines
<1>2. /\ e \in Events /\ h \in Nat /\ h >= 1 /\ c = h + w /\ c <= Len(text) /\ Len(text) \in Nat /\ text \in Texts
      /\ text[h] = Marker /\ \A j \in 1 .. w : text[h + j] = p[j]
  <2>1. e \in Events /\ b \in Nat /\ Ahead(s) \in {1, 3} /\ Pieces(e) \in Nat
    BY PayloadTokens DEF FrameIn, Ahead
  <2>2. c = b + Ahead(s) + Pieces(e) + 2 /\ c + 2 <= Len(text) /\ Len(text) \in Nat
    BY DEF FrameIn, Texts
  <2>3. text[h] = Marker /\ (\A j \in 1 .. w : text[h + j] = p[j]) /\ text \in Texts
    BY DEF FrameIn
  <2> DEFINE u == Ahead(s)
             v == Pieces(e)
  <2>4. h = b + u /\ w = v + 2
    OBVIOUS
  <2> HIDE DEF u, v, h, w, text
  <2>5. h \in Nat /\ h >= 1 /\ c = h + w /\ c <= Len(text)
    BY <2>1, <2>2, <2>4 DEF u, v
  <2> QED  BY <2>1, <2>2, <2>3, <2>5
<1>3. p \in Texts /\ Unspaced(p) = p /\ p # <<>> /\ p # <<DoneMark>> /\ p[1].e = e /\ ValidPayload(p) /\ Len(p) = w /\ w \in Nat
  BY <1>2, PayloadValid, PayloadTokens
<1> HIDE DEF p, w, h, text
<1>4. l \in Texts /\ Len(l) = w + 1 /\ l[1] = Marker /\ \A j \in 1 .. w : l[j + 1] = p[j]
  <2>1. l \in Texts /\ Len(l) = w + 1 /\ \A i \in 1 .. w + 1 : l[i] = text[h + i - 1]
    <3> DEFINE g == h - 1
    <3>1. g \in 0 .. Len(text) /\ c \in 0 .. Len(text) /\ g <= c /\ g + 1 = h /\ c - g = w + 1
      BY <1>2, <1>3
    <3>2. \A i \in 1 .. w + 1 : g + i = h + i - 1
      BY <1>2, <1>3
    <3> HIDE DEF g
    <3>3. /\ SubSeq(text, g + 1, c) \in Texts /\ Len(SubSeq(text, g + 1, c)) = c - g
          /\ \A i \in 1 .. c - g : SubSeq(text, g + 1, c)[i] = text[g + i]
      BY <1>2, <3>1, Segment
    <3> QED  BY <3>1, <3>2, <3>3 DEF l
  <2> HIDE DEF l
  <2>2. l[1] = Marker
    <3>1. 1 \in 1 .. w + 1 /\ h + 1 - 1 = h
      BY <1>2, <1>3
    <3> QED  BY <1>2, <2>1, <3>1
  <2>3. ASSUME NEW j \in 1 .. w PROVE l[j + 1] = p[j]
    <3>1. j + 1 \in 1 .. w + 1 /\ h + (j + 1) - 1 = h + j
      BY <1>2, <1>3
    <3> QED  BY <1>2, <2>1, <3>1
  <2> QED  BY <2>1, <2>2, <2>3
<1> HIDE DEF l
<1>5. l # <<>> /\ Tail(l) = p
  <2>1. l # <<>>
    BY <1>3, <1>4
  <2> DEFINE q == Tail(l)
  <2>2. q \in Seq(Tokens) /\ Len(q) = w /\ \A j \in 1 .. w : q[j] = l[j + 1]
    BY <1>3, <1>4, <2>1 DEF Texts
  <2> HIDE DEF q
  <2>3. q = p
    BY <1>3, <1>4, <2>2 DEF Texts
  <2> QED  BY <2>1, <2>3 DEF q
<1>6. DataIn(x) = <<p>> /\ OrChunk(EventTypeIn(x)) = TypeGiven(s, e)
  <2> HIDE DEF x
  <2> QED  BY <1>1, <1>4, <1>5, LinedData, LinedType
<1>7. FlattenSeq(<<p>>) = p
  BY <1>3, FlattenOne DEF Texts
<1> DEFINE type == TypeGiven(s, e)
           parts == ObserveFrameParts(o, type, p, <<p>>)
<1>8. FrameParts(o, S) = parts
  BY <1>6, <1>7 DEF FrameParts, PartsOf
<1>9. parts = [o |-> ObservePayload(o, p, type), parsed |-> TRUE]
  <2> HIDE DEF type
  <2> QED  BY <1>3 DEF ObserveFrameParts
<1>10. ObservePayload(o, p, type) = ObserveDeclared(o, Declares(e), type)
  <2> HIDE DEF type
  <2> QED  BY <1>3 DEF ObservePayload
<1> HIDE DEF parts, x, S
<1>11. ObserveFrame(o, S) = parts.o /\ TailEnd(o, S) = Len(S)
  <2>1. parts.parsed /\ parts.o = ObservePayload(o, p, type)
    BY <1>9
  <2> QED  BY <1>8, <2>1 DEF ObserveFrame, OrSalvaged, TailEnd
<1>12. parts.o = ObserveDeclared(o, Declares(e), type)
  <2>1. parts.o = ObservePayload(o, p, type)
    BY <1>9
  <2> QED  BY <1>10, <2>1
<1> QED  BY <1>11, <1>12 DEF ReadsWhole, S, text

-----------------------------------------------------------------------------
(* Where the reader of a stream with separators can stand.                    *)

\* Where no payload ends nothing is counted.
LEMMA LevelTo ==
  ASSUME NEW s, NEW O, Counting(s, O), NEW a \in Nat, NEW b \in 0 .. Len(s.text), a <= b,
         \A j \in a + 1 .. b : s.text[j].k # "close"
  PROVE  O[a] = O[b]
<1> DEFINE n == b - a
           T == {k \in 0 .. n : O[a + k] = O[a]}
<1>1. n \in Nat /\ a + n = b /\ Len(s.text) \in Nat /\ b \in Nat /\ b <= Len(s.text)
  BY DEF Counting, Texts
<1>2. \A p \in 1 .. Len(s.text) : s.text[p].k # "close" => O[p] = O[p - 1]
  BY DEF Counting
<1> HIDE DEF n
<1>3. 0 \in T
  BY <1>1
<1>4. ASSUME NEW k \in 0 .. n - 1, k \in T PROVE k + 1 \in T
  <2> DEFINE p == a + (k + 1)
  <2>1. p \in 1 .. Len(s.text) /\ p \in a + 1 .. b /\ p - 1 = a + k /\ k + 1 \in 0 .. n
    BY <1>1
  <2> HIDE DEF p
  <2>2. O[p] = O[p - 1]
    BY <1>2, <2>1
  <2>3. O[a + (k + 1)] = O[a]
    BY <1>4, <2>1, <2>2 DEF p
  <2> QED  BY <2>1, <2>3
<1> HIDE DEF T
<1>5. n \in T
  <2>1. 0 .. n \subseteq T
    BY <1>1, <1>3, <1>4, UpTo
  <2> QED  BY <1>1, <2>1
<1> QED  BY <1>1, <1>5 DEF T

\* The frame of the i-th event, and what stands before and after it.
LEMMA Layout ==
  ASSUME NEW s, s.text \in Texts, NEW events, NEW ends, Frames(s, events, ends), NEW i \in 1 .. Len(events)
  PROVE  LET b == ends[i - 1]
             c == ends[i] - 2
         IN /\ FrameIn(s, events[i], b, c) /\ Len(events) \in Nat /\ ends[i] = c + 2 /\ b \in Nat /\ c \in Nat
            /\ b = 0 \/ (b >= 2 /\ s.text[b - 1] = NL /\ s.text[b] = NL)
            /\ c + 3 <= Len(s.text) => s.text[c + 3].k \in {"event", "data"}
<1> DEFINE n == Len(events)
           text == s.text
<1>1. n \in Nat /\ Len(text) \in Nat /\ ends \in [0 .. n -> 0 .. Len(text)] /\ ends[0] = 0
  BY DEF Frames, Texts
<1>2. \A j \in 1 .. n : FrameIn(s, events[j], ends[j - 1], ends[j] - 2)
  BY FrameThere
<1>3. \A j \in 1 .. n : /\ ends[j] \in Nat /\ ends[j] - 2 \in Nat /\ ends[j - 1] \in Nat /\ ends[j] <= Len(text)
                        /\ text[ends[j] - 1] = NL /\ text[ends[j]] = NL
                        /\ text[ends[j - 1] + 1].k \in {"event", "data"}
  <2> SUFFICES ASSUME NEW j \in 1 .. n
               PROVE  /\ ends[j] \in Nat /\ ends[j] - 2 \in Nat /\ ends[j - 1] \in Nat /\ ends[j] <= Len(text)
                      /\ text[ends[j] - 1] = NL /\ text[ends[j]] = NL
                      /\ text[ends[j - 1] + 1].k \in {"event", "data"}
    OBVIOUS
  <2> DEFINE b == ends[j - 1]
             d == ends[j]
             e == events[j]
  <2>1. FrameIn(s, e, b, d - 2)
    BY <1>2
  <2>2. d \in 0 .. Len(text)
    BY <1>1
  <2> HIDE DEF b, d, e
  <2>3. /\ b \in Nat /\ d - 2 \in Nat
        /\ text[b + 1] = (IF s.lines THEN Token("event", e) ELSE Marker)
    BY <2>1, FrameKinds
  <2>4. text[(d - 2) + 1] = NL /\ text[(d - 2) + 2] = NL /\ (d - 2) + 1 = d - 1 /\ (d - 2) + 2 = d
    BY <1>1, <2>1, <2>2 DEF FrameIn
  <2>5. text[b + 1].k \in {"event", "data"}
    <3>1. Token("event", e).k = "event" /\ Marker.k = "data"
      BY DEF Token, Marker
    <3>2. CASE s.lines
      BY <2>3, <3>1, <3>2
    <3>3. CASE ~s.lines
      BY <2>3, <3>1, <3>3
    <3> QED  BY <3>2, <3>3
  <2>6. d \in Nat /\ d <= Len(text) /\ text[d - 1] = NL /\ text[d] = NL
    BY <1>1, <2>2, <2>4
  <2> QED  BY <2>3, <2>5, <2>6 DEF b, d
<1>4. SubSeq(text, ends[n] + 1, Len(text)) \in {<<>>, <<Marker, DoneMark>>}
  BY DEF Frames
<1> DEFINE b == ends[i - 1]
           d == ends[i]
           c == d - 2
<1>5. FrameIn(s, events[i], b, c) /\ d = c + 2 /\ b \in Nat /\ c \in Nat /\ d <= Len(text) /\ d \in Nat
  <2>1. FrameIn(s, events[i], b, c) /\ d \in Nat /\ c \in Nat /\ b \in Nat /\ d <= Len(text)
    BY <1>2, <1>3
  <2> HIDE DEF d, b
  <2> QED  BY <2>1
<1>6. b = 0 \/ (b >= 2 /\ text[b - 1] = NL /\ text[b] = NL)
  <2>1. CASE i = 1
    BY <1>1, <2>1
  <2>2. CASE i # 1
    <3>1. i - 1 \in 1 .. n
      BY <1>1, <2>2
    <3>2. b \in Nat /\ b - 2 \in Nat /\ text[b - 1] = NL /\ text[b] = NL
      BY <1>3, <3>1
    <3> HIDE DEF b
    <3> QED  BY <3>2
  <2> QED  BY <2>1, <2>2
<1>7. ASSUME c + 3 <= Len(text) PROVE text[c + 3].k \in {"event", "data"}
  <2>0. c + 3 = d + 1
    BY <1>5
  <2>1. CASE i = n
    <3> DEFINE r == SubSeq(text, d + 1, Len(text))
    <3>1. r \in {<<>>, <<Marker, DoneMark>>}
      BY <1>4, <2>1
    <3>2. Len(r) = Len(text) - d /\ r[1] = text[d + 1]
      <4>1. d \in 0 .. Len(text) /\ Len(text) \in 0 .. Len(text) /\ d <= Len(text) /\ 1 \in 1 .. Len(text) - d
        BY <1>1, <1>5, <1>7, <2>0
      <4> HIDE DEF d
      <4>2. Len(r) = Len(text) - d /\ \A j \in 1 .. Len(text) - d : r[j] = text[d + j]
        BY <4>1, Segment
      <4> QED  BY <4>1, <4>2
    <3> HIDE DEF r
    <3>3. r # <<>>
      BY <1>1, <1>5, <1>7, <2>0, <3>2
    <3>4. text[d + 1] = Marker
      BY <3>1, <3>2, <3>3
    <3>5. Marker.k = "data"
      BY DEF Marker, Token
    <3> QED  BY <2>0, <3>4, <3>5
  <2>2. CASE i # n
    <3>1. i + 1 \in 1 .. n /\ (i + 1) - 1 = i
      BY <1>1, <2>2
    <3>2. text[d + 1].k \in {"event", "data"}
      BY <1>3, <3>1
    <3> QED  BY <2>0, <3>2
  <2> QED  BY <2>1, <2>2
<1> QED  BY <1>1, <1>5, <1>6, <1>7

\* After the last frame no payload ends.
LEMMA LayoutEnd ==
  ASSUME NEW s, s.text \in Texts, NEW events, NEW ends, Frames(s, events, ends)
  PROVE  LET d == ends[Len(events)]
         IN /\ d \in 0 .. Len(s.text) /\ Len(events) \in Nat
            /\ d = 0 \/ d >= 2
            /\ \A j \in d - 1 .. Len(s.text) : j >= 1 => s.text[j] \in {NL, Marker, DoneMark}
<1> DEFINE n == Len(events)
           text == s.text
           d == ends[n]
           r == SubSeq(text, d + 1, Len(text))
<1>1. n \in Nat /\ Len(text) \in Nat /\ ends \in [0 .. n -> 0 .. Len(text)] /\ ends[0] = 0
  BY DEF Frames, Texts
<1>2. r \in {<<>>, <<Marker, DoneMark>>}
  BY DEF Frames
<1>3. d \in 0 .. Len(text) /\ Len(text) \in 0 .. Len(text) /\ d <= Len(text)
  BY <1>1
<1>4. d = 0 \/ (d >= 2 /\ text[d - 1] = NL /\ text[d] = NL)
  <2>1. CASE n = 0
    BY <1>1, <2>1
  <2>2. CASE n # 0
    <3>1. n \in 1 .. n
      BY <1>1, <2>2
    <3>2. FrameIn(s, events[n], ends[n - 1], d - 2) /\ d = (d - 2) + 2 /\ d - 2 \in Nat
      BY <3>1, Layout
    <3>3. text[(d - 2) + 1] = NL /\ text[(d - 2) + 2] = NL
      BY <3>2 DEF FrameIn
    <3> HIDE DEF d
    <3>4. d >= 2 /\ (d - 2) + 1 = d - 1 /\ (d - 2) + 2 = d
      BY <1>3, <3>2
    <3> QED  BY <3>3, <3>4
  <2> QED  BY <2>1, <2>2
<1> HIDE DEF d
<1>5. Len(r) = Len(text) - d /\ \A j \in 1 .. Len(text) - d : r[j] = text[d + j]
  BY <1>3, Segment
<1> HIDE DEF r
<1>6. \A j \in 1 .. Len(text) - d : r[j] \in {Marker, DoneMark}
  <2>1. CASE r = <<>>
    BY <1>3, <1>5, <2>1
  <2>2. CASE r = <<Marker, DoneMark>>
    <3>1. Len(r) = 2 /\ r[1] = Marker /\ r[2] = DoneMark
      BY <2>2
    <3>2. \A j \in 1 .. Len(text) - d : j = 1 \/ j = 2
      <4>1. Len(text) - d = 2
        BY <1>5, <3>1
      <4> QED  BY <4>1
    <3> QED  BY <3>1, <3>2
  <2> QED  BY <1>2, <2>1, <2>2
<1>7. ASSUME NEW j \in d - 1 .. Len(text), j >= 1 PROVE text[j] \in {NL, Marker, DoneMark}
  <2>1. j \in Int /\ d \in Nat
    BY <1>3
  <2>2. CASE j <= d
    <3>1. d >= 2 /\ (j = d - 1 \/ j = d)
      BY <1>4, <1>7, <2>1, <2>2
    <3> QED  BY <1>4, <3>1
  <2>3. CASE d < j
    <3> DEFINE k == j - d
    <3>1. k \in 1 .. Len(text) - d /\ d + k = j
      BY <1>3, <2>1, <2>3
    <3> HIDE DEF k
    <3> QED  BY <1>5, <1>6, <3>1
  <2> QED  BY <2>1, <2>2, <2>3
<1> QED  BY <1>1, <1>3, <1>4, <1>7 DEF d

\* The reader is about to read the i-th frame, is amid the payload of one it has given up, or has
\* read the last.
Awaits(ends, i, L) == ends[i - 1] - 2 <= L /\ L <= ends[i - 1]
Midst(s, ends, i, L) == ends[i - 1] + Ahead(s) + 1 <= L /\ L < ends[i] - 2 /\ ends[i] - 2 \in Oversize(s.text)
Past(events, ends, L) == ends[Len(events)] - 2 <= L
Spot(s, events, ends, L) ==
    /\ L \in Nat
    /\ Past(events, ends, L) \/ \E i \in 1 .. Len(events) : Awaits(ends, i, L) \/ Midst(s, ends, i, L)

\* And what has arrived by p beyond it is not a frame yet.
Settled(s, events, ends, L, p) ==
    /\ L \in Nat
    /\ \/ Past(events, ends, L)
       \/ \E i \in 1 .. Len(events) : \/ Awaits(ends, i, L) /\ p < ends[i] - 2
                                      \/ Midst(s, ends, i, L) /\ p < ends[i]

\* Everything before a frame's payload has ended is one level, the separator behind it another.
LEMMA FrameLevels ==
  ASSUME NEW s, NEW O, Counting(s, O), NEW events, NEW ends, Frames(s, events, ends), NEW i \in 1 .. Len(events)
  PROVE  LET text == s.text
             e == events[i]
             b == ends[i - 1]
             c == ends[i] - 2
             a == b + Ahead(s) + 1
         IN /\ b \in Nat /\ c \in Nat /\ a \in Nat /\ b < a /\ a < c /\ ends[i] = c + 2 /\ c + 2 <= Len(text) /\ Len(text) \in Nat
            /\ text[c].k = "close" /\ text[c].e = e /\ e \in Events /\ c = a + Pieces(e) + 1 /\ Pieces(e) \in Nat
            /\ Ahead(s) \in {1, 3}
            /\ \A L \in Nat : b - 2 <= L /\ L < c => O[L] = O[c - 1]
            /\ O[c + 1] = O[c] /\ O[c + 2] = O[c]
            /\ \A o \in O[c - 1] : ObserveDeclared(o, Declares(e), TypeGiven(s, e)) \in O[c]
            /\ c \in Oversize(text) => O[c - 1] \subseteq O[c]
<1> DEFINE text == s.text
           e == events[i]
           b == ends[i - 1]
           d == ends[i]
           c == d - 2
           a == b + Ahead(s) + 1
<1>1. text \in Texts
  BY DEF Counting
<1>2. /\ FrameIn(s, e, b, c) /\ Len(events) \in Nat /\ d = c + 2 /\ b \in Nat /\ c \in Nat
      /\ b = 0 \/ (b >= 2 /\ text[b - 1] = NL /\ text[b] = NL)
  BY <1>1, Layout
<1> HIDE DEF b, d, e, c
<1>3. /\ Len(text) \in Nat /\ a \in Nat /\ a < c /\ b < a /\ c = a + Pieces(e) + 1
      /\ Pieces(e) \in Nat /\ c + 2 <= Len(text) /\ Ahead(s) \in {1, 3}
      /\ text[c] = Token("close", e) /\ text[a] = Token("open", e)
      /\ \A j \in a + 1 .. c - 1 : text[j] = Token("piece", e)
      /\ \A j \in b + 1 .. a - 1 : text[j] \in {Token("event", e), NL, Marker}
  <2>1. FrameIn(s, e, b, c)
    BY <1>2
  <2>2. /\ Len(text) \in Nat /\ a \in Nat /\ a < c /\ b < a /\ c = a + Pieces(e) + 1
        /\ Pieces(e) \in Nat /\ c + 2 <= Len(text) /\ Ahead(s) \in {1, 3}
    BY <1>1, <2>1, FrameKinds
  <2>3. text[c] = Token("close", e) /\ text[a] = Token("open", e)
    BY <1>1, <2>1, FrameKinds
  <2>4. \A j \in a + 1 .. c - 1 : text[j] = Token("piece", e)
    BY <1>1, <2>1, FrameKinds
  <2>5. \A j \in b + 1 .. a - 1 : text[j] \in {Token("event", e), NL, Marker}
    BY <1>1, <2>1, FrameKinds
  <2> QED  BY <2>2, <2>3, <2>4, <2>5
<1>0. c \in Nat /\ c >= 1 /\ c + 2 <= Len(text) /\ Len(text) \in Nat
  <2>1. b \in Nat /\ a \in Nat /\ c \in Nat /\ b < a /\ a < c /\ c + 2 <= Len(text) /\ Len(text) \in Nat
    BY <1>2, <1>3
  <2> HIDE DEF a
  <2> QED  BY <2>1
<1> HIDE DEF a
<1>4. text[c + 1] = NL /\ text[c + 2] = NL /\ e \in Events
  BY <1>2 DEF FrameIn
<1>5. /\ Token("close", e).k = "close" /\ Token("close", e).e = e /\ Token("open", e).k = "open"
      /\ Token("piece", e).k = "piece" /\ Token("event", e).k = "event" /\ NL.k = "nl" /\ Marker.k = "data"
  BY DEF Token, NL, Marker
<1>6. \A p \in 1 .. Len(text) : text[p].k = "close" =>
          LET g == text[p].e
          IN /\ \A o \in O[p - 1] : ObserveDeclared(o, Declares(g), TypeGiven(s, g)) \in O[p]
             /\ p \in Oversize(text) => O[p - 1] \subseteq O[p]
  BY DEF Counting
<1>7. ASSUME NEW L \in Nat, b - 2 <= L, L < c PROVE O[L] = O[c - 1]
  <2>1. c - 1 \in 0 .. Len(text) /\ L <= c - 1
    BY <1>0, <1>7
  <2>2. \A j \in L + 1 .. c - 1 : text[j].k # "close"
    <3> SUFFICES ASSUME NEW j \in L + 1 .. c - 1 PROVE text[j].k # "close"
      OBVIOUS
    <3>1. j \in Nat /\ j >= 1 /\ b - 1 <= j /\ j <= c - 1
      BY <1>2, <1>7, <2>1
    <3>2. CASE j <= b
      <4>1. j = b - 1 \/ j = b
        BY <1>2, <3>1, <3>2
      <4> QED  BY <1>2, <1>5, <3>1, <4>1
    <3>3. CASE b < j /\ j < a
      <4>1. j \in b + 1 .. a - 1
        BY <1>2, <1>3, <3>1, <3>3
      <4>2. text[j] = Token("event", e) \/ text[j] = NL \/ text[j] = Marker
        BY <1>3, <4>1
      <4> HIDE DEF text
      <4> QED  BY <1>5, <4>2
    <3>4. CASE a <= j
      <4>1. j = a \/ j \in a + 1 .. c - 1
        BY <1>2, <1>3, <3>1, <3>4
      <4> QED  BY <1>3, <1>5, <4>1
    <3> QED  BY <1>2, <1>3, <3>1, <3>2, <3>3, <3>4
  <2> DEFINE q == c - 1
  <2>3. q \in 0 .. Len(s.text) /\ L <= q /\ \A j \in L + 1 .. q : s.text[j].k # "close"
    BY <2>1, <2>2
  <2> HIDE DEF q
  <2>4. O[L] = O[q]
    BY <2>3, LevelTo
  <2> QED  BY <2>4 DEF q
<1>8. O[c + 1] = O[c] /\ O[c + 2] = O[c]
  <2>1. \A p \in 1 .. Len(text) : text[p].k # "close" => O[p] = O[p - 1]
    BY DEF Counting
  <2>2. c + 1 \in 1 .. Len(text) /\ c + 2 \in 1 .. Len(text) /\ (c + 1) - 1 = c /\ (c + 2) - 1 = c + 1
    BY <1>0
  <2>3. text[c + 1].k # "close" /\ text[c + 2].k # "close"
    BY <1>4, <1>5
  <2> HIDE DEF text
  <2>4. O[c + 1] = O[(c + 1) - 1] /\ O[c + 2] = O[(c + 2) - 1]
    BY <2>1, <2>2, <2>3
  <2> QED  BY <2>2, <2>4
<1>9. /\ \A o \in O[c - 1] : ObserveDeclared(o, Declares(e), TypeGiven(s, e)) \in O[c]
      /\ c \in Oversize(text) => O[c - 1] \subseteq O[c]
  <2>1. c \in 1 .. Len(text) /\ text[c].k = "close" /\ text[c].e = e
    BY <1>2, <1>3, <1>5
  <2> QED  BY <1>6, <2>1
<1>10. text[c].k = "close" /\ text[c].e = e
  BY <1>3, <1>5
<1> QED  BY <1>2, <1>3, <1>4, <1>7, <1>8, <1>9, <1>10 DEF a, b, c, d, e

\* Up to the end of a payload the observers are those of the end of the frame before.
Level(O, ends, i) == \A K \in Nat : ends[i - 1] - 2 <= K /\ K < ends[i] - 2 => O[K] = O[(ends[i] - 2) - 1]

LEMMA FrameLevel ==
  ASSUME NEW s, NEW O, Counting(s, O), NEW events, NEW ends, Frames(s, events, ends), NEW i \in 1 .. Len(events)
  PROVE  Level(O, ends, i)
<1>1. \A K \in Nat : ends[i - 1] - 2 <= K /\ K < ends[i] - 2 => O[K] = O[(ends[i] - 2) - 1]
  BY FrameLevels
<1> QED  BY <1>1 DEF Level

\* Nothing is read behind the last frame.
LEMMA PastLevels ==
  ASSUME NEW s, NEW O, Counting(s, O), NEW events, NEW ends, Frames(s, events, ends),
         NEW L \in Nat, Past(events, ends, L), NEW p \in 0 .. Len(s.text), L <= p
  PROVE  O[L] = O[p] /\ (\A j \in L + 1 .. p : s.text[j].k # "close" /\ s.text[j] \in {NL, Marker, DoneMark})
<1> DEFINE d == ends[Len(events)]
<1>1. s.text \in Texts
  BY DEF Counting
<1>2. /\ d \in 0 .. Len(s.text)
      /\ \A j \in d - 1 .. Len(s.text) : j >= 1 => s.text[j] \in {NL, Marker, DoneMark}
  BY <1>1, LayoutEnd
<1>3. d - 2 <= L /\ Len(s.text) \in Nat
  BY <1>1 DEF Past, Texts
<1> HIDE DEF d
<1>4. NL.k # "close" /\ Marker.k # "close" /\ DoneMark.k # "close"
  BY DEF NL, Marker, DoneMark, Token
<1>5. \A j \in L + 1 .. p : s.text[j] \in {NL, Marker, DoneMark}
  <2> SUFFICES ASSUME NEW j \in L + 1 .. p PROVE s.text[j] \in {NL, Marker, DoneMark}
    OBVIOUS
  <2>1. j \in d - 1 .. Len(s.text) /\ j >= 1
    BY <1>2, <1>3
  <2> QED  BY <1>2, <2>1
<1>6. \A j \in L + 1 .. p : s.text[j].k # "close"
  BY <1>4, <1>5
<1>7. O[L] = O[p]
  BY <1>6, LevelTo
<1> QED  BY <1>5, <1>6, <1>7

\* Where a frame's payload has ended, and after it, the next is awaited.
LEMMA EndSpot ==
  ASSUME NEW s, s.text \in Texts, NEW events, NEW ends, Frames(s, events, ends), NEW i \in 1 .. Len(events),
         NEW M \in Nat, ends[i] - 2 <= M, M <= ends[i]
  PROVE  Spot(s, events, ends, M) /\ Settled(s, events, ends, M, M)
<1> DEFINE n == Len(events)
<1>1. n \in Nat
  BY Layout
<1>2. CASE i = n
  BY <1>2 DEF Spot, Settled, Past
<1>3. CASE i # n
  <2>1. i + 1 \in 1 .. n /\ (i + 1) - 1 = i
    BY <1>1, <1>3
  <2>2. Awaits(ends, i + 1, M)
    BY <2>1 DEF Awaits
  <2>3. M < ends[i + 1] - 2
    <3> DEFINE b == ends[(i + 1) - 1]
               d == ends[i + 1]
    <3>1. FrameIn(s, events[i + 1], b, d - 2) /\ b \in Nat /\ d - 2 \in Nat /\ d = (d - 2) + 2
      BY <2>1, Layout
    <3>2. b < d - 2
      <4> HIDE DEF b, d
      <4> DEFINE a == b + Ahead(s) + 1
      <4>1. a \in Nat /\ b < a /\ a < d - 2
        BY <3>1, FrameKinds
      <4> QED  BY <3>1, <4>1
    <3>3. b = ends[i] /\ M <= b
      BY <2>1
    <3> HIDE DEF b, d
    <3>4. M < d - 2 /\ d \in Nat
      BY <3>1, <3>2, <3>3
    <3> QED  BY <3>4 DEF d
  <2> QED  BY <2>1, <2>2, <2>3 DEF Spot, Settled
<1> QED  BY <1>2, <1>3

\* A separator stands at j.
Apart(text, j) == text[j] = NL /\ text[j + 1] = NL

\* The scanner's next turn takes all up to the first separator, or nothing if there is none.
LEMMA NextSeparator ==
  ASSUME NEW text \in Texts, NEW p \in 0 .. Len(text), NEW L \in 0 .. p, NEW o
  PROVE  LET f == [o |-> o, rest |-> SubSeq(text, L + 1, p)]
         IN \/ ObserveNext(f) = f /\ \A j \in L + 1 .. p - 1 : ~Apart(text, j)
            \/ \E d \in L + 1 .. p - 1 :
                  /\ Apart(text, d) /\ \A j \in L + 1 .. d - 1 : ~Apart(text, j)
                  /\ ObserveNext(f) = [o    |-> ObserveFrame(o, SubSeq(text, L + 1, d - 1)),
                                       rest |-> SubSeq(text, (d + 1) + 1, p)]
<1> DEFINE rest == SubSeq(text, L + 1, p)
           f == [o |-> o, rest |-> rest]
           ends == {i \in 1 .. Len(rest) - 1 : rest[i] = NL /\ rest[i + 1] = NL}
           m == Min(ends)
           g == [o |-> ObserveFrame(o, SubSeq(rest, 1, m - 1)), rest |-> SubSeq(rest, m + 2, Len(rest))]
           n == p - L
<1>0. Len(text) \in Nat /\ p \in Nat /\ L \in Nat /\ L <= p /\ p <= Len(text) /\ L \in 0 .. Len(text)
  BY DEF Texts
<1>1. n \in Nat /\ L + n = p /\ Len(rest) = n /\ \A i \in 1 .. n : rest[i] = text[L + i]
  BY <1>0, Segment
<1>2. ObserveNext(f) = IF ends = {} THEN f ELSE g
  BY DEF ObserveNext
<1> HIDE DEF rest, n
<1>3. \A i \in 1 .. n - 1 : i \in ends <=> Apart(text, L + i)
  <2> SUFFICES ASSUME NEW i \in 1 .. n - 1 PROVE i \in ends <=> Apart(text, L + i)
    OBVIOUS
  <2>1. i \in 1 .. n /\ i + 1 \in 1 .. n /\ L + (i + 1) = (L + i) + 1
    BY <1>0, <1>1
  <2>2. rest[i] = text[L + i] /\ rest[i + 1] = text[(L + i) + 1]
    BY <1>1, <2>1
  <2> QED  BY <1>1, <2>2 DEF Apart
<1>4. ends \subseteq 1 .. n - 1
  BY <1>1
<1> HIDE DEF ends
<1>5. CASE ends = {}
  <2>1. ASSUME NEW j \in L + 1 .. p - 1 PROVE ~Apart(text, j)
    <3> DEFINE i == j - L
    <3>1. i \in 1 .. n - 1 /\ L + i = j
      BY <1>0, <1>1
    <3> HIDE DEF i
    <3>2. i \notin ends
      BY <1>5
    <3> QED  BY <1>3, <3>1, <3>2
  <2> QED  BY <1>2, <1>5, <2>1 DEF rest
<1>6. CASE ends # {}
  <2>1. m \in ends /\ m \in 1 .. n - 1 /\ \A k \in ends : m <= k
    <3>1. ends \subseteq Nat
      BY <1>4
    <3> QED  BY <1>4, <1>6, <3>1, MinIs
  <2> HIDE DEF m
  <2> DEFINE d == L + m
  <2>2. d \in L + 1 .. p - 1 /\ Apart(text, d)
    BY <1>0, <1>1, <1>3, <2>1
  <2>3. ASSUME NEW j \in L + 1 .. d - 1 PROVE ~Apart(text, j)
    <3> DEFINE i == j - L
    <3>1. i \in 1 .. n - 1 /\ L + i = j /\ ~(m <= i)
      BY <1>0, <1>1, <2>1
    <3> HIDE DEF i
    <3> QED  BY <1>3, <2>1, <3>1
  <2>4. SubSeq(rest, 1, m - 1) = SubSeq(text, L + 1, d - 1)
    <3> DEFINE j == m - 1
    <3>1. 0 \in 0 .. p - L /\ j \in 0 .. p - L /\ 0 <= j /\ 0 + 1 = 1 /\ (L + 0) + 1 = L + 1 /\ L + j = d - 1
      BY <1>0, <1>1, <2>1
    <3> HIDE DEF j, d
    <3>2. SubSeq(SubSeq(text, L + 1, p), 0 + 1, j) = SubSeq(text, (L + 0) + 1, L + j)
      BY <1>0, <3>1, SegmentOf
    <3> QED  BY <3>1, <3>2 DEF rest, j
  <2>5. SubSeq(rest, m + 2, Len(rest)) = SubSeq(text, (d + 1) + 1, p)
    <3> DEFINE k == m + 1
    <3>1. k \in 0 .. p - L /\ n \in 0 .. p - L /\ k <= n /\ k + 1 = m + 2 /\ (L + k) + 1 = (d + 1) + 1 /\ L + n = p
      BY <1>0, <1>1, <2>1
    <3> HIDE DEF k, d
    <3>2. SubSeq(SubSeq(text, L + 1, p), k + 1, n) = SubSeq(text, (L + k) + 1, L + n)
      BY <1>0, <3>1, SegmentOf
    <3> QED  BY <1>1, <3>1, <3>2 DEF rest
  <2>6. ObserveNext(f) = [o    |-> ObserveFrame(o, SubSeq(text, L + 1, d - 1)),
                          rest |-> SubSeq(text, (d + 1) + 1, p)]
    BY <1>2, <1>6, <2>4, <2>5
  <2> HIDE DEF d
  <2> QED  BY <2>2, <2>3, <2>6 DEF rest
<1> QED  BY <1>5, <1>6

\* Within a frame there is none before its payload has ended.
LEMMA FrameApart ==
  ASSUME NEW s, s.text \in Texts, NEW events, NEW ends, Frames(s, events, ends), NEW i \in 1 .. Len(events)
  PROVE  LET b == ends[i - 1]
             c == ends[i] - 2
             a == b + Ahead(s) + 1
         IN /\ \A j \in b .. c : j >= 1 => ~Apart(s.text, j)
            /\ Apart(s.text, c + 1) /\ (b >= 1 => b >= 2 /\ s.text[b] = NL /\ Apart(s.text, b - 1))
            /\ s.text[b + 1] # NL
            /\ \A j \in a + 1 .. c : s.text[j].k # "open" /\ s.text[j] # NL /\ s.text[j] # Marker /\ s.text[j] # DoneMark
<1> DEFINE text == s.text
           e == events[i]
           b == ends[i - 1]
           c == ends[i] - 2
           a == b + Ahead(s) + 1
<1>2. /\ FrameIn(s, e, b, c) /\ b \in Nat /\ c \in Nat
      /\ b = 0 \/ (b >= 2 /\ text[b - 1] = NL /\ text[b] = NL)
  BY Layout
<1> HIDE DEF b, c, e
<1>3. FrameIn(s, e, b, c)
  BY <1>2
<1>4. a \in Nat /\ a < c /\ b < a
  BY <1>3, FrameKinds
<1>5. text[c] = Token("close", e) /\ text[b + 1] = (IF s.lines THEN Token("event", e) ELSE Marker)
  BY <1>3, FrameKinds
<1>6. \A j \in a + 1 .. c - 1 : text[j] = Token("piece", e)
  BY <1>3, FrameKinds
<1>7. \A j \in b + 1 .. c : ~(text[j] = NL /\ text[j + 1] = NL)
  BY <1>3, FrameKinds
<1> HIDE DEF a
<1>8. /\ Token("close", e) # NL /\ Token("close", e) # Marker /\ Token("close", e) # DoneMark /\ Token("close", e).k # "open"
      /\ Token("piece", e) # NL /\ Token("piece", e) # Marker /\ Token("piece", e) # DoneMark /\ Token("piece", e).k # "open"
      /\ Token("event", e) # NL /\ Marker # NL
  BY DEF Token, NL, Marker, DoneMark
<1>9. text[b + 1] # NL
  <2>1. CASE s.lines
    BY <1>5, <1>8, <2>1
  <2>2. CASE ~s.lines
    BY <1>5, <1>8, <2>2
  <2> QED  BY <2>1, <2>2
<1>10. \A j \in b .. c : j >= 1 => ~Apart(text, j)
  <2> SUFFICES ASSUME NEW j \in b .. c PROVE ~Apart(text, j)
    OBVIOUS
  <2>1. j = b \/ j \in b + 1 .. c
    BY <1>2
  <2> QED  BY <1>7, <1>9, <2>1 DEF Apart
<1>11. Apart(text, c + 1) /\ (b >= 1 => b >= 2 /\ text[b] = NL /\ Apart(text, b - 1))
  <2>1. text[c + 1] = NL /\ text[c + 2] = NL /\ (c + 1) + 1 = c + 2 /\ (b - 1) + 1 = b
    BY <1>2 DEF FrameIn
  <2> QED  BY <1>2, <2>1 DEF Apart
<1>12. \A j \in a + 1 .. c : text[j].k # "open" /\ text[j] # NL /\ text[j] # Marker /\ text[j] # DoneMark
  <2> SUFFICES ASSUME NEW j \in a + 1 .. c
               PROVE  text[j].k # "open" /\ text[j] # NL /\ text[j] # Marker /\ text[j] # DoneMark
    OBVIOUS
  <2>1. j = c \/ j \in a + 1 .. c - 1
    BY <1>2, <1>4
  <2> QED  BY <1>5, <1>6, <1>8, <2>1
<1> QED  BY <1>9, <1>10, <1>11, <1>12 DEF a, b, c, e

\* Text without a whole payload is read without effect.
LEMMA QuietRead ==
  ASSUME NEW text \in Texts, NEW a \in 0 .. Len(text), NEW b \in 0 .. Len(text), a <= b, NEW o \in Observers,
         (\A j \in a + 1 .. b : text[j].k # "close") \/ (\A j \in a + 1 .. b : text[j].k # "open")
  PROVE  LET S == SubSeq(text, a + 1, b)
         IN /\ ObserveFrame(o, S) = o
            /\ TailEnd(o, S) = SalvagedEnd(Salvaged(S)) /\ TailEnd(o, S) \in 0 .. b - a
<1>1. Quiet(Within(text, a, b))
  BY DEF Quiet, Within
<1> QED  BY <1>1, QuietFrame

\* A frame between b and its payload's end c is read whole.
ReadsFrame(s, e, b, c) ==
    \A L \in Nat, r \in {c, c + 1}, o \in Observers :
        L = b \/ L = b - 1 => ReadsWhole(s, e, o, SubSeq(s.text, L + 1, r))

\* A frame is read whole from where its separator or a blank line lets it begin.
LEMMA FrameReads ==
  ASSUME NEW s, s.text \in Texts, NEW e, NEW b, NEW c, FrameIn(s, e, b, c), b >= 1 => s.text[b] = NL
  PROVE  ReadsFrame(s, e, b, c)
<1> SUFFICES ASSUME NEW L \in Nat, NEW r, r = c \/ r = c + 1, NEW o \in Observers, L = b \/ L = b - 1
             PROVE  ReadsWhole(s, e, o, SubSeq(s.text, L + 1, r))
  BY DEF ReadsFrame
<1> QED  BY FrameObserved

LEMMA FrameReadAt ==
  ASSUME NEW s, s.text \in Texts, NEW events, NEW ends, Frames(s, events, ends), NEW i \in 1 .. Len(events)
  PROVE  ReadsFrame(s, events[i], ends[i - 1], ends[i] - 2)
<1> DEFINE e == events[i]
           b == ends[i - 1]
           c == ends[i] - 2
<1>1. FrameIn(s, e, b, c) /\ (b = 0 \/ (b >= 2 /\ s.text[b - 1] = NL /\ s.text[b] = NL))
  BY Layout
<1> SUFFICES ReadsFrame(s, e, b, c)
  OBVIOUS
<1> HIDE DEF e, b, c
<1>3. b >= 1 => s.text[b] = NL
  BY <1>1
<1> QED  BY <1>1, <1>3, FrameReads

\* One turn of the scanner: no separator is left, or it stands further on.
Turns(s, O, events, ends, p, L, f, g) ==
    \/ g = f /\ \A j \in L + 1 .. p - 1 : ~Apart(s.text, j)
    \/ \E M \in L + 2 .. p :
          Spot(s, events, ends, M) /\ g.o \in O[M] /\ g.rest = SubSeq(s.text, M + 1, p)

\* A turn of the scanner leads from a spot to the next, whatever the separator ends.
LEMMA NextSpot ==
  ASSUME NEW s, NEW O, Counting(s, O), NEW events, NEW ends, Frames(s, events, ends),
         NEW p \in 0 .. Len(s.text), NEW L \in 0 .. p, Spot(s, events, ends, L), NEW o \in O[L]
  PROVE  LET f == [o |-> o, rest |-> SubSeq(s.text, L + 1, p)]
         IN Turns(s, O, events, ends, p, L, f, ObserveNext(f))
<1> DEFINE text == s.text
           f == [o |-> o, rest |-> SubSeq(text, L + 1, p)]
           g == ObserveNext(f)
           spot(M) == Spot(s, events, ends, M)
<1>0. /\ text \in Texts /\ Len(text) \in Nat /\ p \in Nat /\ L \in Nat /\ L <= p /\ p <= Len(text)
      /\ L \in 0 .. Len(text)
  BY DEF Counting, Texts
<1>1. o \in Observers
  BY <1>0 DEF Counting
<1>4. \/ g = f /\ \A j \in L + 1 .. p - 1 : ~Apart(text, j)
      \/ \E d \in L + 1 .. p - 1 :
            /\ Apart(text, d) /\ \A j \in L + 1 .. d - 1 : ~Apart(text, j)
            /\ g = [o |-> ObserveFrame(o, SubSeq(text, L + 1, d - 1)), rest |-> SubSeq(text, (d + 1) + 1, p)]
  BY <1>0, NextSeparator
<1> SUFFICES \/ g = f /\ \A j \in L + 1 .. p - 1 : ~Apart(text, j)
             \/ \E M \in L + 2 .. p : spot(M) /\ g.o \in O[M] /\ g.rest = SubSeq(text, M + 1, p)
  BY DEF Turns
<1> HIDE DEF g
<1>2. CASE g = f /\ \A j \in L + 1 .. p - 1 : ~Apart(text, j)
  BY <1>2
<1>3. ASSUME NEW d \in L + 1 .. p - 1,
             Apart(text, d), \A j \in L + 1 .. d - 1 : ~Apart(text, j),
             g = [o |-> ObserveFrame(o, SubSeq(text, L + 1, d - 1)), rest |-> SubSeq(text, (d + 1) + 1, p)]
      PROVE  \E M \in L + 2 .. p : spot(M) /\ g.o \in O[M] /\ g.rest = SubSeq(text, M + 1, p)
  <2> DEFINE q == d - 1
             M == d + 1
             S == SubSeq(text, L + 1, q)
  <2>1. /\ q \in Nat /\ M \in Nat /\ L <= q /\ M = q + 2 /\ M <= p /\ q \in 0 .. Len(text) /\ M \in 0 .. Len(text)
        /\ M \in L + 2 .. p /\ d \in Nat /\ L < d
        /\ q = d - 1 /\ M = d + 1
    BY <1>0
  <2>2. g.o = ObserveFrame(o, S) /\ g.rest = SubSeq(text, M + 1, p)
    BY <1>3
  <2> HIDE DEF q, M, S, text
  <2>3. SUFFICES spot(M) /\ ObserveFrame(o, S) \in O[M]
    BY <2>1, <2>2
  <2>4. ((\A j \in L + 1 .. q : text[j].k # "close") \/ (\A j \in L + 1 .. q : text[j].k # "open"))
           => ObserveFrame(o, S) = o
    BY <1>0, <1>1, <2>1, QuietRead DEF S
  <2>5. CASE Past(events, ends, L)
    <3>1. O[L] = O[M] /\ \A j \in L + 1 .. M : text[j].k # "close"
      BY <1>0, <2>1, <2>5, PastLevels DEF text
    <3>2. ObserveFrame(o, S) = o
      <4>1. \A j \in L + 1 .. q : j \in L + 1 .. M
        BY <1>0, <2>1
      <4> QED  BY <2>4, <3>1, <4>1
    <3>3. spot(M)
      <4> DEFINE z == ends[Len(events)]
      <4>1. z \in 0 .. Len(text) /\ z - 2 <= L
        BY <1>0, <2>5, LayoutEnd DEF Past, text
      <4> HIDE DEF z
      <4>2. z - 2 <= M
        BY <1>0, <2>1, <4>1
      <4> QED  BY <2>1, <4>2 DEF Spot, Past, z
    <3> QED  BY <3>1, <3>2, <3>3
  <2>6. ASSUME NEW i \in 1 .. Len(events), Awaits(ends, i, L) \/ Midst(s, ends, i, L)
        PROVE  spot(M) /\ ObserveFrame(o, S) \in O[M]
    <3> DEFINE e == events[i]
               b == ends[i - 1]
               c == ends[i] - 2
               a == b + Ahead(s) + 1
    <3>1. /\ b \in Nat /\ c \in Nat /\ a \in Nat /\ b < a /\ a < c /\ ends[i] = c + 2 /\ c + 2 <= Len(text)
          /\ \A K \in Nat : b - 2 <= K /\ K < c => O[K] = O[c - 1]
          /\ O[c + 1] = O[c] /\ O[c + 2] = O[c]
          /\ \A x \in O[c - 1] : ObserveDeclared(x, Declares(e), TypeGiven(s, e)) \in O[c]
          /\ c \in Oversize(text) => O[c - 1] \subseteq O[c]
      <4>1. /\ b \in Nat /\ c \in Nat /\ a \in Nat /\ b < a /\ a < c /\ ends[i] = c + 2 /\ c + 2 <= Len(text)
        BY FrameLevels DEF text
      <4>2. \A K \in Nat : b - 2 <= K /\ K < c => O[K] = O[c - 1]
        <5>1. Level(O, ends, i)
          BY FrameLevel
        <5> QED  BY <5>1 DEF Level
      <4>3. O[c + 1] = O[c] /\ O[c + 2] = O[c]
        BY FrameLevels
      <4>4. \A x \in O[c - 1] : ObserveDeclared(x, Declares(e), TypeGiven(s, e)) \in O[c]
        BY FrameLevels
      <4>5. c \in Oversize(text) => O[c - 1] \subseteq O[c]
        BY FrameLevels DEF text
      <4> QED  BY <4>1, <4>2, <4>3, <4>4, <4>5
    <3>2. /\ \A j \in b .. c : j >= 1 => ~Apart(text, j)
          /\ Apart(text, c + 1) /\ (b >= 1 => b >= 2 /\ text[b] = NL /\ Apart(text, b - 1))
          /\ \A j \in a + 1 .. c : text[j].k # "open"
      <4>0. s.text \in Texts
        BY <1>0 DEF text
      <4>1. \A j \in b .. c : j >= 1 => ~Apart(s.text, j)
        BY <4>0, FrameApart
      <4>2. Apart(s.text, c + 1) /\ (b >= 1 => b >= 2 /\ s.text[b] = NL /\ Apart(s.text, b - 1))
        BY <4>0, FrameApart
      <4>3. \A j \in a + 1 .. c : s.text[j].k # "open"
        BY <4>0, FrameApart
      <4> QED  BY <4>1, <4>2, <4>3 DEF text
    <3>3. (b - 2 <= L /\ L <= b) \/ (a <= L /\ L < c /\ c \in Oversize(text))
      BY <2>6 DEF Awaits, Midst, text
    <3>4. FrameIn(s, e, b, c)
      BY <1>0, Layout DEF text
    <3>5. \A K \in Nat : c <= K /\ K <= c + 2 => spot(K)
      BY <1>0, <3>1, EndSpot DEF text
    <3>6. Awaits(ends, i, b)
      BY <3>1 DEF Awaits
    <3> HIDE DEF a, b, c, e, spot
    <3>7. CASE L < b - 1
      <4>1. L = b - 2 /\ b >= 2 /\ Apart(text, b - 1)
        BY <1>0, <3>1, <3>2, <3>3, <3>7
      <4>2. d = b - 1
        <5>1. ~(b - 1 \in L + 1 .. d - 1)
          BY <1>3, <4>1
        <5> QED  BY <1>0, <2>1, <3>1, <4>1, <5>1
      <4>3. q = L /\ M = b
        BY <1>0, <2>1, <3>1, <4>1, <4>2
      <4>4. ObserveFrame(o, S) = o
        <5>1. \A j \in L + 1 .. q : FALSE
          BY <1>0, <4>3
        <5> QED  BY <2>4, <5>1
      <4>5. O[L] = O[c - 1] /\ O[M] = O[c - 1]
        <5>1. b - 2 <= L /\ L < c /\ b - 2 <= b /\ b < c /\ b \in Nat
          BY <1>0, <3>1, <4>1
        <5> QED  BY <1>0, <3>1, <4>3, <5>1
      <4>6. spot(M)
        <5>1. Awaits(ends, i, M)
          BY <3>1, <3>6, <4>3
        <5> QED  BY <2>1, <5>1 DEF spot, Spot
      <4> QED  BY <4>4, <4>5, <4>6
    <3>8. CASE b - 1 <= L
      <4>1. L < c
        BY <1>0, <3>1, <3>3, <3>8
      <4>2. \A j \in L + 1 .. c : ~Apart(text, j)
        BY <1>0, <3>1, <3>2, <3>8
      <4>3. d = c + 1
        <5>1. ~(d \in L + 1 .. c) /\ ~(c + 1 \in L + 1 .. d - 1)
          BY <1>3, <3>2, <4>2
        <5> QED  BY <1>0, <2>1, <3>1, <4>1, <5>1
      <4>4. q = c /\ M = c + 2
        BY <2>1, <3>1, <4>3
      <4>5. spot(M) /\ O[M] = O[c] /\ O[L] = O[c - 1]
        BY <1>0, <3>1, <3>5, <3>8, <4>1, <4>4
      <4>6. CASE a <= L
        <5>1. c \in Oversize(text)
          BY <1>0, <3>1, <3>3, <4>6
        <5>2. \A j \in L + 1 .. q : text[j].k # "open"
          <6>1. \A j \in L + 1 .. q : j \in a + 1 .. c
            BY <1>0, <3>1, <4>4, <4>6
          <6> QED  BY <3>2, <6>1
        <5>3. ObserveFrame(o, S) = o
          BY <2>4, <5>2
        <5> QED  BY <3>1, <4>5, <5>1, <5>3
      <4>7. CASE L < a
        <5>1. L = b \/ L = b - 1
          <6>1. L \in Nat /\ b \in Nat /\ a \in Nat
            BY <1>0, <3>1
          <6>2. L <= b
            BY <3>3, <4>7, <6>1
          <6> QED  BY <3>8, <6>1, <6>2
        <5>2. S = SubSeq(s.text, L + 1, c)
          BY <4>4 DEF S, text
        <5>3. ObserveFrame(o, S) = ObserveDeclared(o, Declares(e), TypeGiven(s, e))
          <6>1. L = ends[i - 1] \/ L = ends[i - 1] - 1
            BY <5>1 DEF b
          <6>2. s.text \in Texts /\ c = ends[i] - 2
            BY <1>0 DEF text, c
          <6>4. ReadsFrame(s, events[i], ends[i - 1], ends[i] - 2)
            BY <6>2, FrameReadAt
          <6>3. ObserveFrame(o, SubSeq(s.text, L + 1, c)) = ObserveDeclared(o, Declares(events[i]), TypeGiven(s, events[i]))
            BY <1>0, <1>1, <6>1, <6>2, <6>4 DEF ReadsFrame, ReadsWhole
          <6> QED  BY <5>2, <6>3 DEF e
        <5> QED  BY <3>1, <4>5, <5>3
      <4> QED  BY <1>0, <3>1, <4>6, <4>7
    <3> QED  BY <1>0, <3>1, <3>7, <3>8
  <2> QED  BY <2>5, <2>6 DEF Spot
<1> QED  BY <1>2, <1>3, <1>4

-----------------------------------------------------------------------------
(* What no separator ended.                                                   *)

LEMMA BlankIs ==
  ASSUME NEW s \in Texts
  PROVE  Blank(s) <=> \A i \in 1 .. Len(s) : s[i] = NL
<1>1. Unspaced(s) = <<>> \/ Unspaced(s) # <<>>
  OBVIOUS
<1> QED  BY <1>1, FirstUnspaced DEF Blank

\* The scanner holds what has arrived beyond M, which is no frame yet.
Standing(s, O, events, ends, p, o) ==
    \E M \in 0 .. p : /\ o \in O[M] /\ o.residual = SubSeq(s.text, M + 1, p)
                      /\ Settled(s, events, ends, M, p)

LEMMA StandsAt ==
  ASSUME NEW s, NEW O, NEW events, NEW ends, NEW p \in Nat, NEW M \in 0 .. p, NEW o \in O[M],
         o.residual = SubSeq(s.text, M + 1, p), Settled(s, events, ends, M, p)
  PROVE  Standing(s, O, events, ends, p, o)
BY DEF Standing

LEMMA StandsAll ==
  ASSUME NEW s, NEW O, NEW events, NEW ends, NEW p \in Nat, NEW o \in O[p],
         o.residual = <<>>, Settled(s, events, ends, p, p)
  PROVE  Standing(s, O, events, ends, p, o)
<1>1. SubSeq(s.text, p + 1, p) = <<>>
  BY SubSeqEmpty
<1>2. p \in 0 .. p
  OBVIOUS
<1> QED  BY <1>1, <1>2 DEF Standing

\* The residual is free.
LEMMA Keeps ==
  ASSUME NEW s, NEW O, Counting(s, O), NEW p \in 0 .. Len(s.text), NEW o \in O[p], NEW r \in Texts
  PROVE  /\ o \in Observers /\ [o EXCEPT !.residual = r] \in O[p]
         /\ [o EXCEPT !.residual = r].residual = r
<1>1. o \in Observers
  BY DEF Counting
<1>2. [o EXCEPT !.residual = r].residual = r
  BY <1>1 DEF Observers
<1> QED  BY <1>1, <1>2 DEF Counting

\* Blank text is left alone; else what the tail leaves beyond t is dropped, blank or too long, or kept.
Tailed(text, L, p, o, h, t, g) ==
    \/ g = o /\ \A j \in L + 1 .. p : text[j] = NL
    \/ /\ g = h /\ h.residual = <<>>
       /\ (\A j \in L + t + 1 .. p : text[j] = NL) \/ p - (L + t) > MaxResidual
       /\ \E j \in L + 1 .. p : text[j] # NL
    \/ /\ g = [h EXCEPT !.residual = SubSeq(text, (L + t) + 1, p)]
       /\ ~(\A j \in L + t + 1 .. p : text[j] = NL)
       /\ \E j \in L + 1 .. p : text[j] # NL

LEMMA TailAt ==
  ASSUME NEW text \in Texts, NEW p \in 0 .. Len(text), NEW L \in 0 .. p,
         NEW o \in Observers, o.residual = <<>>, TailEnd(o, SubSeq(text, L + 1, p)) \in 0 .. p - L
  PROVE  LET data == SubSeq(text, L + 1, p)
         IN Tailed(text, L, p, o, ObserveFrame(o, data), TailEnd(o, data), ObserveTail(o, data))
<1> DEFINE data == SubSeq(text, L + 1, p)
           n == p - L
           t == TailEnd(o, data)
           D == L + t
           left == SubSeq(data, t + 1, Len(data))
           h == ObserveFrame(o, data)
           g == ObserveTail(o, data)
<1>00. t \in 0 .. p - L
  OBVIOUS
<1> HIDE DEF t
<1>0. /\ Len(text) \in Nat /\ p \in Nat /\ L \in Nat /\ L <= p /\ L \in 0 .. Len(text) /\ p <= Len(text) /\ n \in Nat /\ t \in Nat
      /\ D \in 0 .. Len(text) /\ D <= p /\ D \in Nat /\ L + n = p /\ t \in 0 .. n /\ n \in 0 .. n /\ t <= n /\ L <= D
  BY <1>00 DEF Texts
<1>1. data \in Texts /\ Len(data) = n /\ \A i \in 1 .. n : data[i] = text[L + i]
  BY <1>0, Segment
<1>2. left = SubSeq(text, D + 1, p)
  <2>1. SubSeq(data, t + 1, n) = SubSeq(text, (L + t) + 1, L + n)
    BY <1>0, SegmentOf
  <2> QED  BY <1>0, <1>1, <2>1
<1>3. h.residual = <<>>
  <2> HIDE DEF data
  <2>1. o \in Holding(<<>>)
    BY DEF Holding
  <2> QED  BY <1>1, <2>1, ObserveFrameType DEF Holding
<1>4. g = IF Blank(data) THEN o ELSE Buffered(h, left)
  BY DEF ObserveTail, t
<1> HIDE DEF data, h, n, left, g
<1>5. ASSUME Blank(data) PROVE \A j \in L + 1 .. p : text[j] = NL
  <2> SUFFICES ASSUME NEW j \in L + 1 .. p PROVE text[j] = NL
    OBVIOUS
  <2>1. j - L \in 1 .. n /\ L + (j - L) = j
    BY <1>0
  <2> QED  BY <1>1, <1>5, <2>1, BlankIs
<1>6. ASSUME ~Blank(data) PROVE \E j \in L + 1 .. p : text[j] # NL
  <2>1. PICK i \in 1 .. n : data[i] # NL
    BY <1>1, <1>6, BlankIs
  <2>2. L + i \in L + 1 .. p
    BY <1>0
  <2> QED  BY <1>1, <2>1, <2>2
<1> HIDE DEF D
<1>7. left \in Texts /\ Len(left) = p - D /\ \A i \in 1 .. p - D : left[i] = text[D + i]
  BY <1>0, <1>2, Segment
<1>8. ASSUME Blank(left) PROVE \A j \in D + 1 .. p : text[j] = NL
  <2> SUFFICES ASSUME NEW j \in D + 1 .. p PROVE text[j] = NL
    OBVIOUS
  <2>1. j - D \in 1 .. p - D /\ D + (j - D) = j
    BY <1>0
  <2> QED  BY <1>7, <1>8, <2>1, BlankIs
<1>12. ASSUME ~Blank(left) PROVE ~(\A j \in D + 1 .. p : text[j] = NL)
  <2>1. PICK i \in 1 .. p - D : left[i] # NL
    BY <1>7, <1>12, BlankIs
  <2>2. D + i \in D + 1 .. p
    BY <1>0
  <2> QED  BY <1>7, <2>1, <2>2
<1>9. CASE Blank(data)
  BY <1>4, <1>5, <1>9 DEF Tailed, g, data
<1>10. CASE ~Blank(data) /\ (Blank(left) \/ Len(left) > MaxResidual)
  <2>1. g = h
    BY <1>4, <1>10 DEF Buffered
  <2>2. (\A j \in D + 1 .. p : text[j] = NL) \/ p - D > MaxResidual
    BY <1>7, <1>8, <1>10
  <2> QED  BY <1>3, <1>6, <1>10, <2>1, <2>2 DEF Tailed, g, data, D, h, t
<1>11. CASE ~Blank(data) /\ ~(Blank(left) \/ Len(left) > MaxResidual)
  <2>1. g = [h EXCEPT !.residual = SubSeq(text, D + 1, p)]
    BY <1>2, <1>4, <1>11 DEF Buffered
  <2> QED  BY <1>6, <1>11, <1>12, <2>1 DEF Tailed, g, data, D, h, t
<1> QED  BY <1>9, <1>10, <1>11

\* Behind the last frame the tail holds nothing to read.
LEMMA TailPast ==
  ASSUME NEW s, NEW O, Counting(s, O), NEW events, NEW ends, Frames(s, events, ends),
         NEW p \in 0 .. Len(s.text), NEW L \in 0 .. p, Past(events, ends, L), NEW o \in O[L], o.residual = <<>>
  PROVE  Standing(s, O, events, ends, p, ObserveTail(o, SubSeq(s.text, L + 1, p)))
<1> DEFINE text == s.text
           data == SubSeq(text, L + 1, p)
           t == TailEnd(o, data)
           D == L + t
           g == ObserveTail(o, data)
           z == ends[Len(events)]
<1>0. text \in Texts /\ Len(text) \in Nat /\ p \in Nat /\ L \in Nat /\ L <= p /\ p <= Len(text) /\ L \in 0 .. Len(text)
  BY DEF Counting, Texts
<1>1. o \in Observers
  BY <1>0 DEF Counting
<1>2. O[L] = O[p] /\ \A j \in L + 1 .. p : text[j].k # "close"
  BY <1>0, PastLevels
<1>3. ObserveFrame(o, data) = o /\ t \in 0 .. p - L
  BY <1>0, <1>1, <1>2, QuietRead
<1>4. z \in Nat /\ z - 2 <= L
  BY <1>0, LayoutEnd DEF Past
<1> HIDE DEF t, z
<1>5. \A M \in L .. p : M \in Nat /\ M \in 0 .. p /\ z - 2 <= M /\ M \in 0 .. Len(text) /\ M <= p
  BY <1>0, <1>4
<1>6. \A M \in L .. p : Settled(s, events, ends, M, p)
  BY <1>5 DEF Settled, Past, z
<1>7. D \in L .. p /\ p \in L .. p
  BY <1>0, <1>3
<1>8. O[D] = O[p]
  <2>1. D \in Nat /\ Past(events, ends, D) /\ D <= p
    BY <1>5, <1>7 DEF Past, z
  <2> HIDE DEF D
  <2> QED  BY <2>1, PastLevels
<1>9. \/ g = o
      \/ g = [o EXCEPT !.residual = SubSeq(text, D + 1, p)]
  <2>1. Tailed(text, L, p, o, ObserveFrame(o, data), t, g)
    BY <1>0, <1>1, <1>3, TailAt DEF t
  <2> QED  BY <1>3, <2>1 DEF Tailed
<1> SUFFICES Standing(s, O, events, ends, p, g)
  OBVIOUS
<1> HIDE DEF g, data, D, text
<1>10. CASE g = o
  BY <1>0, <1>2, <1>6, <1>7, <1>10, StandsAll
<1>11. CASE g = [o EXCEPT !.residual = SubSeq(text, D + 1, p)]
  <2> DEFINE r == SubSeq(text, D + 1, p)
  <2>1. r \in Texts /\ D \in 0 .. Len(text) /\ o \in O[D]
    <3>1. D \in 0 .. Len(text) /\ p \in 0 .. Len(text) /\ D <= p
      BY <1>0, <1>5, <1>7
    <3> QED  BY <1>0, <1>2, <1>8, <3>1, Segment
  <2> HIDE DEF r
  <2> DEFINE k == [o EXCEPT !.residual = r]
  <2>4. k \in O[D] /\ k.residual = r
    BY <2>1, Keeps DEF text
  <2> HIDE DEF k
  <2>2. g \in O[D] /\ g.residual = r
    BY <1>11, <2>4 DEF r, k
  <2>3. D \in 0 .. p /\ Settled(s, events, ends, D, p)
    BY <1>5, <1>6, <1>7
  <2> QED  BY <1>0, <2>2, <2>3, StandsAt DEF r, text
<1> QED  BY <1>9, <1>10, <1>11

\* Whatever is left of a payload that was given up is given up too, or waits to be.
LEMMA TailMidst ==
  ASSUME NEW s, NEW O, Counting(s, O), NEW events, NEW ends, Frames(s, events, ends), NEW i \in 1 .. Len(events),
         NEW p \in 0 .. Len(s.text), NEW L \in 0 .. p, Midst(s, ends, i, L), NEW o \in O[L], o.residual = <<>>,
         \A j \in L + 1 .. p - 1 : ~Apart(s.text, j)
  PROVE  Standing(s, O, events, ends, p, ObserveTail(o, SubSeq(s.text, L + 1, p)))
<1> DEFINE text == s.text
           data == SubSeq(text, L + 1, p)
           t == TailEnd(o, data)
           g == ObserveTail(o, data)
           b == ends[i - 1]
           c == ends[i] - 2
           a == b + Ahead(s) + 1
<1>0. text \in Texts /\ Len(text) \in Nat /\ p \in Nat /\ L \in Nat /\ L <= p /\ p <= Len(text) /\ L \in 0 .. Len(text)
  BY DEF Counting, Texts
<1>1. o \in Observers
  BY <1>0 DEF Counting
<1>2. a \in Nat /\ b \in Nat /\ b < a /\ a < c /\ c \in Nat /\ ends[i] = c + 2
  BY FrameLevels
<1>3. \A K \in Nat : b - 2 <= K /\ K < c => O[K] = O[c - 1]
  <2>1. Level(O, ends, i)
    BY FrameLevel
  <2> QED  BY <2>1 DEF Level
<1>4. (c \in Oversize(text) => O[c - 1] \subseteq O[c]) /\ O[c + 1] = O[c]
  BY FrameLevels
<1>5. a <= L /\ L < c /\ c \in Oversize(text)
  BY DEF Midst
<1>6. Apart(text, c + 1) /\ \A j \in a + 1 .. c : text[j].k # "open" /\ text[j] # NL /\ text[j] # Marker
  <2>1. Apart(text, c + 1)
    BY <1>0, FrameApart
  <2>2. \A j \in a + 1 .. c : text[j].k # "open" /\ text[j] # NL /\ text[j] # Marker
    BY <1>0, FrameApart
  <2> QED  BY <2>1, <2>2
<1> HIDE DEF a, b, c
<1>7. p <= c + 1
  <2>1. ~(c + 1 \in L + 1 .. p - 1)
    BY <1>6
  <2> QED  BY <1>0, <1>2, <1>5, <2>1
<1>8. \A j \in L + 1 .. p : text[j].k # "open" /\ text[j] # Marker
  <2> SUFFICES ASSUME NEW j \in L + 1 .. p PROVE text[j].k # "open" /\ text[j] # Marker
    OBVIOUS
  <2>1. j \in a + 1 .. c \/ j = c + 1
    BY <1>0, <1>2, <1>5, <1>7
  <2>2. text[c + 1] = NL /\ NL.k # "open" /\ NL # Marker
    BY <1>6 DEF Apart, NL, Marker, Token
  <2> QED  BY <1>6, <2>1, <2>2
<1>9. ObserveFrame(o, data) = o /\ t = SalvagedEnd(Salvaged(data))
  BY <1>0, <1>1, <1>8, QuietRead
<1>10. t = 0
  <2>1. data \in Texts /\ \A k \in 1 .. Len(data) : data[k] # Marker
    <3>1. data \in Texts /\ Len(data) = p - L /\ \A k \in 1 .. p - L : data[k] = text[L + k]
      BY <1>0, Segment
    <3>2. \A k \in 1 .. p - L : L + k \in L + 1 .. p
      BY <1>0
    <3> HIDE DEF data
    <3> QED  BY <1>8, <3>1, <3>2
  <2> HIDE DEF data
  <2> QED  BY <1>9, <2>1, NothingSalvaged
<1>11. /\ L + t = L /\ t \in 0 .. p - L
  BY <1>0, <1>10
<1>12. \/ g = o /\ (\A j \in L + 1 .. p : text[j] = NL)
       \/ g = o
       \/ g = [o EXCEPT !.residual = SubSeq(text, L + 1, p)]
  <2>1. Tailed(text, L, p, o, ObserveFrame(o, data), t, g)
    BY <1>0, <1>1, <1>11, TailAt
  <2> QED  BY <1>9, <1>11, <2>1 DEF Tailed
<1> SUFFICES Standing(s, O, events, ends, p, g)
  OBVIOUS
<1> HIDE DEF g, data, t, text
<1>13. CASE g = o
  <2>1. O[L] = O[c - 1]
    BY <1>0, <1>2, <1>3, <1>5
  <2>2. CASE p < c
    <3>1. O[p] = O[c - 1]
      BY <1>0, <1>2, <1>3, <1>5, <2>2
    <3>2. Midst(s, ends, i, p) /\ p < ends[i]
      <4>1. a <= p /\ p < c + 2
        BY <1>0, <1>2, <1>5, <2>2
      <4> QED  BY <1>2, <1>5, <2>2, <4>1 DEF Midst, a, b, c, text
    <3>3. Settled(s, events, ends, p, p)
      BY <1>0, <3>2 DEF Settled
    <3> QED  BY <1>0, <1>13, <2>1, <3>1, <3>3, StandsAll
  <2>3. CASE c <= p
    <3>1. p = c \/ p = c + 1
      BY <1>0, <1>2, <1>7, <2>3
    <3>2. o \in O[p]
      BY <1>4, <1>5, <2>1, <3>1
    <3>3. Settled(s, events, ends, p, p)
      <4>1. ends[i] - 2 <= p /\ p <= ends[i]
        BY <1>0, <1>2, <3>1
      <4> QED  BY <1>0, <4>1, EndSpot DEF text
    <3> QED  BY <1>0, <1>13, <3>2, <3>3, StandsAll
  <2> QED  BY <1>0, <1>2, <2>2, <2>3
<1>14. CASE g = [o EXCEPT !.residual = SubSeq(text, L + 1, p)]
  <2> DEFINE r == SubSeq(text, L + 1, p)
  <2>1. r \in Texts
    BY <1>0, Segment
  <2> HIDE DEF r
  <2> DEFINE k == [o EXCEPT !.residual = r]
  <2>4. k \in O[L] /\ k.residual = r
    BY <1>0, <2>1, Keeps DEF text
  <2> HIDE DEF k
  <2>2. g \in O[L] /\ g.residual = r
    BY <1>14, <2>4 DEF r, k
  <2>3. Settled(s, events, ends, L, p)
    <3>1. p < ends[i]
      BY <1>0, <1>2, <1>7
    <3> QED  BY <1>0, <3>1 DEF Settled
  <2> QED  BY <1>0, <2>2, <2>3, StandsAt DEF r, text
<1> QED  BY <1>12, <1>13, <1>14

\* A frame, its place, and the levels around it.
FrameAt(s, O, e, a, b, c) ==
    /\ b \in Nat /\ a \in Nat /\ c \in Nat /\ b < a /\ a < c /\ c + 2 <= Len(s.text)
    /\ a = b + Ahead(s) + 1 /\ c = a + Pieces(e) + 1 /\ Pieces(e) \in Nat /\ Ahead(s) \in {1, 3}
    /\ s.text[a] = Token("open", e) /\ s.text[c] = Token("close", e)
    /\ \A j \in a + 1 .. c - 1 : s.text[j] = Token("piece", e)
    /\ \A j \in b + 1 .. a - 1 : s.text[j] \in {Token("event", e), NL, Marker}
    /\ s.text[b + 1] # NL /\ s.text[c + 1] = NL /\ s.text[c + 2] = NL
    /\ b = 0 \/ (b >= 2 /\ s.text[b - 1] = NL /\ s.text[b] = NL)
    /\ \A K \in Nat : b - 2 <= K /\ K < c => O[K] = O[c - 1]
    /\ O[c + 1] = O[c] /\ O[c + 2] = O[c]
    /\ \A x \in O[c - 1] : ObserveDeclared(x, Declares(e), TypeGiven(s, e)) \in O[c]
    /\ c \in Oversize(s.text) => O[c - 1] \subseteq O[c]

LEMMA FrameAll ==
  ASSUME NEW s, NEW O, Counting(s, O), NEW events, NEW ends, Frames(s, events, ends), NEW i \in 1 .. Len(events)
  PROVE  /\ FrameAt(s, O, events[i], ends[i - 1] + Ahead(s) + 1, ends[i - 1], ends[i] - 2)
         /\ ends[i] = (ends[i] - 2) + 2
<1> DEFINE e == events[i]
           b == ends[i - 1]
           c == ends[i] - 2
           a == b + Ahead(s) + 1
<1>0. s.text \in Texts
  BY DEF Counting
<1>1. /\ FrameIn(s, e, b, c) /\ ends[i] = c + 2 /\ b \in Nat /\ c \in Nat
      /\ b = 0 \/ (b >= 2 /\ s.text[b - 1] = NL /\ s.text[b] = NL)
  BY <1>0, Layout
<1>2. \A K \in Nat : b - 2 <= K /\ K < c => O[K] = O[c - 1]
  <2>1. Level(O, ends, i)
    BY FrameLevel
  <2> QED  BY <2>1 DEF Level
<1>3. O[c + 1] = O[c] /\ O[c + 2] = O[c]
  BY FrameLevels
<1>4. \A x \in O[c - 1] : ObserveDeclared(x, Declares(e), TypeGiven(s, e)) \in O[c]
  BY FrameLevels
<1>5. c \in Oversize(s.text) => O[c - 1] \subseteq O[c]
  BY FrameLevels
<1>6. s.text[b + 1] # NL
  BY <1>0, FrameApart
<1>7. a = b + Ahead(s) + 1 /\ ends[i] = c + 2
  BY <1>1
<1> HIDE DEF b, c, e
<1>8. /\ a \in Nat /\ a < c /\ b < a /\ c = a + Pieces(e) + 1
      /\ Pieces(e) \in Nat /\ c + 2 <= Len(s.text) /\ Ahead(s) \in {1, 3}
  BY <1>0, <1>1, FrameKinds
<1>14. FrameIn(s, e, b, c)
  BY <1>1
<1>9. s.text[c] = Token("close", e) /\ s.text[a] = Token("open", e)
  BY <1>0, <1>14, FrameKinds
<1>10. \A j \in a + 1 .. c - 1 : s.text[j] = Token("piece", e)
  BY <1>0, <1>1, FrameKinds
<1>11. \A j \in b + 1 .. a - 1 : s.text[j] \in {Token("event", e), NL, Marker}
  BY <1>0, <1>1, FrameKinds
<1>12. s.text[c + 1] = NL /\ s.text[c + 2] = NL
  BY <1>1 DEF FrameIn
<1> HIDE DEF a
<1>13. FrameAt(s, O, e, a, b, c)
  BY <1>1, <1>2, <1>3, <1>4, <1>5, <1>6, <1>7, <1>8, <1>9, <1>10, <1>11, <1>12 DEF FrameAt
<1> QED  BY <1>7, <1>13 DEF a, b, c, e

\* A frame that has begun waits whole for its end, or is given up; one whose payload has ended
\* is read.
LEMMA TailAwaits ==
  ASSUME NEW s, NEW O, Counting(s, O), NEW events, NEW ends, Frames(s, events, ends), NEW i \in 1 .. Len(events),
         MaxResidual >= 4,
         NEW p \in 0 .. Len(s.text), NEW L \in 0 .. p, Awaits(ends, i, L), NEW o \in O[L], o.residual = <<>>,
         \A j \in L + 1 .. p - 1 : ~Apart(s.text, j)
  PROVE  Standing(s, O, events, ends, p, ObserveTail(o, SubSeq(s.text, L + 1, p)))
<1> DEFINE text == s.text
           data == SubSeq(text, L + 1, p)
           t == TailEnd(o, data)
           g == ObserveTail(o, data)
           h == ObserveFrame(o, data)
           e == events[i]
           b == ends[i - 1]
           c == ends[i] - 2
           a == b + Ahead(s) + 1
<1>0. text \in Texts /\ Len(text) \in Nat /\ p \in Nat /\ L \in Nat /\ L <= p /\ p <= Len(text) /\ L \in 0 .. Len(text)
  BY DEF Counting, Texts
<1>1. o \in Observers /\ MaxResidual \in Nat
  BY <1>0, ResidualAssumption DEF Counting
<1>20. FrameAt(s, O, e, a, b, c) /\ ends[i] = c + 2
  BY FrameAll
<1>5. b - 2 <= L /\ L <= b
  BY DEF Awaits
<1>17. ReadsFrame(s, e, b, c)
  BY <1>0, FrameReadAt
<1> SUFFICES Standing(s, O, events, ends, p, g)
  OBVIOUS
<1> HIDE DEF a, b, c, e
<1>2. b \in Nat /\ a \in Nat /\ c \in Nat /\ b < a /\ a < c /\ c + 2 <= Len(text)
  BY <1>20 DEF FrameAt
<1>3. \A K \in Nat : b - 2 <= K /\ K < c => O[K] = O[c - 1]
  BY <1>20 DEF FrameAt
<1>4. (\A x \in O[c - 1] : ObserveDeclared(x, Declares(e), TypeGiven(s, e)) \in O[c]) /\ O[c + 1] = O[c]
  BY <1>20 DEF FrameAt
<1>6. text[b + 1] # NL /\ text[c + 1] = NL /\ text[c + 2] = NL /\ (b >= 1 => b >= 2 /\ text[b - 1] = NL /\ text[b] = NL)
  BY <1>2, <1>20 DEF FrameAt
<1>7. p <= c + 1
  <2>1. ~(c + 1 \in L + 1 .. p - 1)
    BY <1>2, <1>6 DEF Apart
  <2> QED  BY <1>0, <1>2, <1>5, <2>1
<1>8. p > b => L = b \/ L = b - 1
  <2>1. ~(b - 1 \in L + 1 .. p - 1) \/ ~(b >= 1)
    BY <1>2, <1>6 DEF Apart
  <2> QED  BY <1>0, <1>2, <1>5, <2>1
<1>9. ASSUME \A j \in L + 1 .. p : text[j] = NL PROVE p <= b
  <2>1. ~(b + 1 \in L + 1 .. p)
    BY <1>6, <1>9
  <2> QED  BY <1>0, <1>2, <1>5, <2>1
<1>10. CASE p < c
  <2>1. \A j \in L + 1 .. p : text[j].k # "close" /\ text[j] # DoneMark
    <3> SUFFICES ASSUME NEW j \in L + 1 .. p PROVE text[j].k # "close" /\ text[j] # DoneMark
      OBVIOUS
    <3>1. j \in b - 1 .. b \/ j \in b + 1 .. c - 1
      BY <1>0, <1>2, <1>5, <1>10
    <3>2. CASE j \in b - 1 .. b
      <4>1. b >= 1
        BY <1>0, <1>2, <3>2
      <4>2. text[b - 1] = NL /\ text[b] = NL
        BY <1>6, <4>1
      <4>3. j = b - 1 \/ j = b
        BY <1>2, <3>2
      <4>4. NL.k # "close" /\ NL # DoneMark
        BY DEF NL, DoneMark, Token
      <4> QED  BY <4>2, <4>3, <4>4
    <3>3. CASE j \in b + 1 .. c - 1
      <4>1. /\ text[a] = Token("open", e)
            /\ \A k \in a + 1 .. c - 1 : text[k] = Token("piece", e)
            /\ \A k \in b + 1 .. a - 1 : text[k] \in {Token("event", e), NL, Marker}
        BY <1>20 DEF FrameAt
      <4>2. j \in b + 1 .. a - 1 \/ j = a \/ j \in a + 1 .. c - 1
        BY <1>2, <3>3
      <4>3. text[j] \in {Token("open", e), Token("piece", e), Token("event", e), NL, Marker}
        BY <4>1, <4>2
      <4>4. \A x \in {Token("open", e), Token("piece", e), Token("event", e), NL, Marker} : x.k # "close" /\ x # DoneMark
        <5>1. /\ Token("open", e).k = "open" /\ Token("piece", e).k = "piece" /\ Token("event", e).k = "event"
              /\ NL.k = "nl" /\ Marker.k = "data" /\ DoneMark.k = "done"
          BY DEF NL, Marker, DoneMark, Token
        <5> QED  BY <5>1
      <4> QED  BY <4>3, <4>4
    <3> QED  BY <3>1, <3>2, <3>3
  <2>2. h = o /\ t = SalvagedEnd(Salvaged(data))
    BY <1>0, <1>1, <2>1, QuietRead
  <2>3. t = 0
    <3>1. data \in Texts /\ \A k \in 1 .. Len(data) : data[k].k # "close" /\ data[k] # DoneMark
      <4>1. data \in Texts /\ Len(data) = p - L /\ \A k \in 1 .. p - L : data[k] = text[L + k]
        BY <1>0, Segment
      <4>2. \A k \in 1 .. p - L : L + k \in L + 1 .. p
        BY <1>0
      <4> HIDE DEF data
      <4> QED  BY <2>1, <4>1, <4>2
    <3> HIDE DEF data
    <3> QED  BY <2>2, <3>1, NothingSalvaged
  <2>4. L + t = L /\ t \in 0 .. p - L
    BY <1>0, <2>3
  <2>5. Tailed(text, L, p, o, h, t, g)
    BY <1>0, <1>1, <2>4, TailAt
  <2> HIDE DEF g, data, t, h, text
  <2>6. \/ g = o /\ \A j \in L + 1 .. p : text[j] = NL
        \/ g = o /\ p - L > MaxResidual
        \/ g = [o EXCEPT !.residual = SubSeq(text, L + 1, p)]
    BY <2>2, <2>4, <2>5 DEF Tailed
  <2>7. O[L] = O[c - 1] /\ O[p] = O[c - 1]
    BY <1>0, <1>2, <1>3, <1>5, <1>10
  <2>8. CASE g = o /\ \A j \in L + 1 .. p : text[j] = NL
    <3>1. b - 2 <= p /\ p <= b /\ p < c + 2
      BY <1>0, <1>2, <1>5, <1>9, <2>8
    <3>2. Settled(s, events, ends, p, p)
      <4>1. Awaits(ends, i, p) /\ p < ends[i] - 2
        BY <1>10, <3>1 DEF Awaits, b, c
      <4> QED  BY <1>0, <4>1 DEF Settled
    <3> QED  BY <1>0, <2>7, <2>8, <3>2, StandsAll
  <2>9. CASE g = o /\ p - L > MaxResidual
    <3> DEFINE n == Pieces(e)
    <3>0. a = b + Ahead(s) + 1 /\ c = a + n + 1 /\ n \in Nat /\ Ahead(s) \in {1, 3} /\ text[c] = Token("close", e)
      BY <1>20 DEF FrameAt, text
    <3> DEFINE u == Ahead(s)
    <3>9. a = b + u + 1 /\ u <= 3 /\ u \in Nat
      BY <3>0
    <3>10. c = a + n + 1 /\ n \in Nat
      BY <3>0
    <3> HIDE DEF n, u
    <3>1. p > b
      BY <1>0, <1>1, <1>2, <1>5, <2>9
    <3>2. a <= p /\ n + 5 > MaxResidual
      <4>1. L >= b - 1
        BY <1>0, <1>2, <1>8, <3>1
      <4>2. p > L + 4 /\ p - L > MaxResidual /\ p <= c - 1 /\ c - 1 = a + n /\ a <= b + 4
        BY <1>0, <1>1, <1>2, <1>10, <2>9, <3>9, <3>10
      <4>3. p >= b + 4
        BY <1>0, <1>2, <4>1, <4>2
      <4>4. p - L <= n + 5
        BY <1>0, <1>2, <3>10, <4>1, <4>2
      <4> QED  BY <1>0, <1>1, <1>2, <3>10, <4>2, <4>3, <4>4
    <3>3. c \in Oversize(text)
      <4>0. text[c].k = "close" /\ text[c].e = e
        BY <3>0 DEF Token
      <4>1. c \in DOMAIN text /\ Pieces(text[c].e) + 5 > MaxResidual
        BY <1>0, <1>2, <4>0, <3>2 DEF n, Texts
      <4> QED  BY <4>0, <4>1 DEF Oversize
    <3>4. Midst(s, ends, i, p) /\ p < ends[i]
      <4>1. p < c + 2
        BY <1>0, <1>2, <1>10
      <4> QED  BY <1>20, <1>10, <3>2, <3>3, <4>1 DEF Midst, a, b, c, text
    <3>5. Settled(s, events, ends, p, p)
      BY <1>0, <3>4 DEF Settled
    <3> QED  BY <1>0, <2>7, <2>9, <3>5, StandsAll
  <2>10. CASE g = [o EXCEPT !.residual = SubSeq(text, L + 1, p)]
    <3> DEFINE r == SubSeq(text, L + 1, p)
               k == [o EXCEPT !.residual = r]
    <3>1. r \in Texts
      <4>1. p \in 0 .. Len(text)
        BY <1>0
      <4> QED  BY <1>0, <4>1, Segment
    <3> HIDE DEF r
    <3>2. k \in O[L] /\ k.residual = r
      BY <1>0, <3>1, Keeps DEF text
    <3> HIDE DEF k
    <3>3. g \in O[L] /\ g.residual = r
      BY <2>10, <3>2 DEF r, k
    <3>4. Settled(s, events, ends, L, p)
      BY <1>0, <1>10 DEF Settled, c
    <3> QED  BY <1>0, <3>3, <3>4, StandsAt DEF r, text
  <2> QED  BY <2>6, <2>8, <2>9, <2>10
<1>11. CASE c <= p
  <2>1. (p = c \/ p = c + 1) /\ (L = b \/ L = b - 1) /\ p > b
    BY <1>0, <1>2, <1>5, <1>7, <1>8, <1>11
  <2>2. h = ObserveDeclared(o, Declares(e), TypeGiven(s, e)) /\ t = Len(data)
    BY <1>0, <1>1, <1>17, <2>1 DEF ReadsFrame, ReadsWhole
  <2>3. Len(data) = p - L
    BY <1>0, Segment
  <2>4. t = p - L /\ t \in 0 .. p - L /\ L + t = p
    BY <1>0, <2>2, <2>3
  <2>11. p \in 0 .. Len(text)
    BY <1>0
  <2>5. Tailed(text, L, p, o, h, t, g)
    <3>1. t \in 0 .. p - L
      BY <2>4
    <3> QED  BY <1>0, <1>1, <2>11, <3>1, TailAt
  <2> HIDE DEF g, data, t, h, text
  <2>6. ~(\A j \in L + 1 .. p : text[j] = NL)
    BY <1>0, <1>2, <1>9, <2>1
  <2>7. \A j \in p + 1 .. p : text[j] = NL
    BY <1>0
  <2>8. g = h /\ h.residual = <<>>
    BY <2>4, <2>5, <2>6, <2>7 DEF Tailed
  <2>9. h \in O[p]
    <3>1. O[L] = O[c - 1]
      BY <1>0, <1>2, <1>3, <1>5
    <3> QED  BY <1>4, <2>1, <2>2, <3>1
  <2>10. Settled(s, events, ends, p, p)
    <3>1. ends[i] - 2 <= p /\ p <= ends[i]
      BY <1>0, <1>2, <1>20, <2>1
    <3> QED  BY <1>0, <3>1, EndSpot DEF text
  <2> QED  BY <1>0, <2>8, <2>9, <2>10, StandsAll
<1> QED  BY <1>0, <1>2, <1>10, <1>11

\* What the last separator leaves is salvaged if its payload is whole, and waits if it is not.
LEMMA TailStands ==
  ASSUME NEW s, NEW O, Counting(s, O), NEW events, NEW ends, Frames(s, events, ends), MaxResidual >= 4,
         NEW p \in 0 .. Len(s.text), NEW L \in 0 .. p, Spot(s, events, ends, L), NEW o \in O[L], o.residual = <<>>,
         \A j \in L + 1 .. p - 1 : ~Apart(s.text, j)
  PROVE  Standing(s, O, events, ends, p, ObserveTail(o, SubSeq(s.text, L + 1, p)))
<1> DEFINE g == ObserveTail(o, SubSeq(s.text, L + 1, p))
<1>1. CASE Past(events, ends, L)
  BY <1>1, TailPast
<1>2. ASSUME NEW i \in 1 .. Len(events), Awaits(ends, i, L) PROVE Standing(s, O, events, ends, p, g)
  BY <1>2, TailAwaits
<1>3. ASSUME NEW i \in 1 .. Len(events), Midst(s, ends, i, L) PROVE Standing(s, O, events, ends, p, g)
  BY <1>3, TailMidst
<1> QED  BY <1>1, <1>2, <1>3 DEF Spot

\* The scanner after i turns: as far as it has got, and no separator beyond, or one at most for
\* every turn that is left.
Turned(s, O, events, ends, p, k, f) ==
    \E M \in 0 .. p :
        /\ Spot(s, events, ends, M) /\ f.o \in O[M] /\ f.rest = SubSeq(s.text, M + 1, p)
        /\ k <= M \/ \A j \in M + 1 .. p - 1 : ~Apart(s.text, j)

LEMMA TurnedOnce ==
  ASSUME NEW s, NEW O, Counting(s, O), NEW events, NEW ends, Frames(s, events, ends),
         NEW p \in 0 .. Len(s.text), NEW k \in Nat, NEW r, NEW f \in Readings(r), Turned(s, O, events, ends, p, k, f)
  PROVE  Turned(s, O, events, ends, p, k + 1, ObserveNext(f))
<1> DEFINE text == s.text
           g == ObserveNext(f)
<1>0. text \in Texts /\ Len(text) \in Nat /\ p \in Nat /\ p <= Len(text)
  BY DEF Counting, Texts
<1>1. PICK L \in 0 .. p :
        /\ Spot(s, events, ends, L) /\ f.o \in O[L] /\ f.rest = SubSeq(text, L + 1, p)
        /\ k <= L \/ \A j \in L + 1 .. p - 1 : ~Apart(text, j)
  BY DEF Turned
<1> DEFINE o == f.o
           h == [o |-> o, rest |-> SubSeq(text, L + 1, p)]
<1>2. f = h
  BY <1>1 DEF Readings
<1>3. Turns(s, O, events, ends, p, L, h, ObserveNext(h))
  <2>1. o \in O[L] /\ Spot(s, events, ends, L)
    BY <1>1
  <2> HIDE DEF o
  <2> QED  BY <2>1, NextSpot
<1> HIDE DEF h
<1>4. CASE g = f /\ \A j \in L + 1 .. p - 1 : ~Apart(text, j)
  BY <1>1, <1>4 DEF Turned
<1>5. ASSUME NEW M \in L + 2 .. p,
             Spot(s, events, ends, M), g.o \in O[M], g.rest = SubSeq(text, M + 1, p)
      PROVE  Turned(s, O, events, ends, p, k + 1, g)
  <2>1. M \in 0 .. p /\ (k <= L => k + 1 <= M) /\ \A j \in M + 1 .. p - 1 : j \in L + 1 .. p - 1
    BY <1>0
  <2>2. k + 1 <= M \/ \A j \in M + 1 .. p - 1 : ~Apart(text, j)
    BY <1>1, <2>1
  <2> HIDE DEF g
  <2> QED  BY <1>5, <2>1, <2>2 DEF Turned
<1> QED  BY <1>2, <1>3, <1>4, <1>5 DEF Turns

\* By its last turn the scanner has passed every separator of the chunk.
LEMMA FramesTurned ==
  ASSUME NEW s, NEW O, Counting(s, O), NEW events, NEW ends, Frames(s, events, ends),
         NEW p \in 0 .. Len(s.text), NEW L \in 0 .. p, Spot(s, events, ends, L), NEW o \in O[L]
  PROVE  LET f == ObserveFrames(o, SubSeq(s.text, L + 1, p))
         IN /\ f \in Readings(o.residual)
            /\ \E M \in 0 .. p :
                  /\ Spot(s, events, ends, M) /\ f.o \in O[M] /\ f.rest = SubSeq(s.text, M + 1, p)
                  /\ \A j \in M + 1 .. p - 1 : ~Apart(s.text, j)
<1> DEFINE text == s.text
           data == SubSeq(text, L + 1, p)
           n == Len(data)
           r == o.residual
           R == Readings(r)
<1>0. /\ text \in Texts /\ Len(text) \in Nat /\ p \in Nat /\ L \in Nat /\ p <= Len(text) /\ L <= p
      /\ L \in 0 .. Len(text) /\ o \in Observers
  BY DEF Counting, Texts
<1>11. data \in Texts
  BY <1>0, Segment
<1>1. data \in Texts /\ n = p - L /\ n \in Nat
  BY <1>0, Segment
<1>2. o \in Holding(r)
  BY <1>0 DEF Holding
<1>3. Turned(s, O, events, ends, p, L, [o |-> o, rest |-> data])
  <2>1. L <= L
    BY <1>0
  <2> QED  BY <2>1 DEF Turned
<1> HIDE DEF data, r
<1>4. PICK f \in [0 .. n -> R] :
            /\ f[0] = [o |-> o, rest |-> data] /\ ObserveFrames(o, data) = f[n]
            /\ \A i \in 1 .. n : f[i] = ObserveNext(f[i - 1])
  BY <1>11, <1>2, ObserveFramesLoop
<1> DEFINE I == {i \in 0 .. n : Turned(s, O, events, ends, p, L + i, f[i])}
<1> HIDE DEF n
<1>5. 0 \in I
  BY <1>0, <1>1, <1>3, <1>4
<1>6. ASSUME NEW i \in 0 .. n - 1, i \in I PROVE i + 1 \in I
  <2>1. i + 1 \in 1 .. n /\ i + 1 \in 0 .. n /\ (i + 1) - 1 = i /\ i \in 0 .. n /\ L + i \in Nat /\ L + (i + 1) = (L + i) + 1
    BY <1>0, <1>1
  <2>2. f[i + 1] = ObserveNext(f[i]) /\ f[i] \in Readings(r)
    BY <1>4, <2>1
  <2>3. Turned(s, O, events, ends, p, L + i, f[i])
    BY <1>6
  <2> DEFINE k == L + i
             x == f[i]
  <2>4. k \in Nat /\ x \in Readings(r) /\ Turned(s, O, events, ends, p, k, x)
    BY <2>1, <2>2, <2>3
  <2> HIDE DEF k, x
  <2>5. Turned(s, O, events, ends, p, k + 1, ObserveNext(x))
    BY <2>4, TurnedOnce
  <2> QED  BY <2>1, <2>2, <2>5 DEF k, x
<1>7. n \in I
  <2> HIDE DEF I
  <2>1. \A i \in 0 .. n : i \in I
    BY <1>1, <1>5, <1>6, UpTo
  <2> QED  BY <1>1, <2>1
<1>8. Turned(s, O, events, ends, p, p, f[n]) /\ f[n] \in R
  <2>1. L + n = p /\ n \in 0 .. n
    BY <1>0, <1>1
  <2> QED  BY <1>4, <1>7, <2>1
<1>9. PICK M \in 0 .. p :
        /\ Spot(s, events, ends, M) /\ f[n].o \in O[M] /\ f[n].rest = SubSeq(text, M + 1, p)
        /\ p <= M \/ \A j \in M + 1 .. p - 1 : ~Apart(text, j)
  BY <1>8 DEF Turned
<1>10. \A j \in M + 1 .. p - 1 : ~Apart(text, j)
  BY <1>0, <1>9
<1> QED  BY <1>4, <1>8, <1>9, <1>10 DEF data, r

\* One more chunk: what was held and what arrives are one piece of the text.
LEMMA StreamStands ==
  ASSUME NEW s, NEW O, Counting(s, O), NEW events, NEW ends, Frames(s, events, ends), MaxResidual >= 4,
         NEW p \in 0 .. Len(s.text), NEW q \in 0 .. Len(s.text), p <= q,
         NEW o, Standing(s, O, events, ends, p, o)
  PROVE  Standing(s, O, events, ends, q, ObserveStream(o, SubSeq(s.text, p + 1, q)))
<1> DEFINE text == s.text
           chunk == SubSeq(text, p + 1, q)
           bare == [o EXCEPT !.residual = <<>>]
<1>0. Len(text) \in Nat /\ text \in Texts /\ p \in Nat /\ q \in Nat
  BY DEF Counting, Texts
<1>1. PICK c \in 0 .. p : o \in O[c] /\ o.residual = SubSeq(text, c + 1, p) /\ Settled(s, events, ends, c, p)
  BY DEF Standing
<1>2. c \in Nat /\ c \in 0 .. Len(text) /\ c \in 0 .. q /\ c <= p
  BY <1>0
<1>3. o.residual \o chunk = SubSeq(text, c + 1, q)
  <2> DEFINE m == c + 1
  <2>1. m \in 1 .. Len(text) + 1 /\ p \in m - 1 .. Len(text) /\ q \in p .. Len(text)
    BY <1>0, <1>2
  <2> HIDE DEF m
  <2>2. SubSeq(text, m, p) \o SubSeq(text, p + 1, q) = SubSeq(text, m, q)
    BY <1>0, <2>1, ConcatAdjacentSubSeq DEF Texts
  <2> QED  BY <1>1, <2>2 DEF m
<1> DEFINE data == SubSeq(text, c + 1, q)
           framed == ObserveFrames(bare, data)
<1>4. ObserveStream(o, chunk) = ObserveTail(framed.o, framed.rest)
  BY <1>3 DEF ObserveStream, AfterFrames
<1>5. bare \in O[c] /\ bare.residual = <<>>
  BY <1>1, <1>2, Emptied, Keeps
<1>6. Spot(s, events, ends, c)
  BY <1>1 DEF Settled, Spot
<1> HIDE DEF bare
<1>7. /\ framed \in Readings(bare.residual)
      /\ \E M \in 0 .. q :
            /\ Spot(s, events, ends, M) /\ framed.o \in O[M] /\ framed.rest = SubSeq(text, M + 1, q)
            /\ \A j \in M + 1 .. q - 1 : ~Apart(text, j)
  BY <1>2, <1>5, <1>6, FramesTurned
<1> HIDE DEF framed
<1>8. PICK M \in 0 .. q :
            /\ Spot(s, events, ends, M) /\ framed.o \in O[M] /\ framed.rest = SubSeq(text, M + 1, q)
            /\ \A j \in M + 1 .. q - 1 : ~Apart(text, j)
  BY <1>7
<1> DEFINE g == framed.o
<1>9. g \in O[M] /\ g.residual = <<>>
  BY <1>5, <1>7, <1>8 DEF Readings, Holding
<1> HIDE DEF g, chunk
<1>10. Standing(s, O, events, ends, q, ObserveTail(g, SubSeq(text, M + 1, q)))
  BY <1>8, <1>9, TailStands
<1> QED  BY <1>4, <1>8, <1>10 DEF g, chunk

-----------------------------------------------------------------------------
(* What a chunk that is one payload holds.                                    *)

LEMMA UnspacedHas ==
  ASSUME NEW s \in Texts, NEW j \in 1 .. Len(s), s[j] # NL
  PROVE  \E k \in 1 .. Len(Unspaced(s)) : Unspaced(s)[k] = s[j]
<1> DEFINE n == Len(s)
<1>0. n \in Nat /\ j \in Nat
  BY DEF Texts
<1>1. PICK f \in [0 .. n -> Texts] :
            /\ f[0] = <<>> /\ Unspaced(s) = f[n]
            /\ \A i \in 1 .. n : f[i] = IF s[i] = NL THEN f[i - 1] ELSE Append(f[i - 1], s[i])
  BY UnspacedLoop
<1> DEFINE has(x) == \E k \in 1 .. Len(x) : x[k] = s[j]
           I == {i \in 0 .. n : j <= i => has(f[i])}
<1> HIDE DEF n
<1>2. 0 \in I
  BY <1>0
<1>3. ASSUME NEW i \in 0 .. n - 1, i \in I PROVE i + 1 \in I
  <2>1. i + 1 \in 1 .. n /\ i + 1 \in 0 .. n /\ (i + 1) - 1 = i /\ i \in Nat
    BY <1>0
  <2> DEFINE x == f[i]
             t == s[i + 1]
  <2>2. x \in Texts /\ (j <= i => has(x))
    BY <1>1, <1>3
  <2>3. f[i + 1] = IF t = NL THEN x ELSE Append(x, t)
    BY <1>1, <2>1
  <2> SUFFICES ASSUME j <= i + 1 PROVE has(f[i + 1])
    BY <2>1
  <2>4. t = NL => j <= i
    BY <1>0, <2>1
  <2>5. j <= i \/ t = s[j]
    BY <1>0, <2>1
  <2> HIDE DEF x, t
  <2>6. CASE t = NL
    BY <2>2, <2>3, <2>4, <2>6
  <2>7. CASE t # NL
    <3> DEFINE y == Append(x, t)
    <3>1. /\ Len(x) \in Nat /\ Len(y) = Len(x) + 1 /\ y[Len(x) + 1] = t
          /\ \A k \in 1 .. Len(x) : y[k] = x[k]
      BY <2>2 DEF Texts
    <3>2. f[i + 1] = y
      BY <2>3, <2>7
    <3> HIDE DEF y
    <3>3. has(y)
      <4>1. CASE j <= i
        <5>1. PICK k \in 1 .. Len(x) : x[k] = s[j]
          BY <2>2, <4>1
        <5>2. k \in 1 .. Len(y) /\ y[k] = s[j]
          BY <3>1, <5>1
        <5> QED  BY <5>2
      <4>2. CASE t = s[j]
        <5>1. Len(x) + 1 \in 1 .. Len(y)
          BY <3>1
        <5> QED  BY <3>1, <4>2, <5>1
      <4> QED  BY <2>5, <4>1, <4>2
    <3> QED  BY <3>2, <3>3
  <2> QED  BY <2>6, <2>7
<1>4. n \in I
  <2> HIDE DEF I
  <2>1. 0 .. n \subseteq I
    BY <1>0, <1>2, <1>3, UpTo
  <2> QED  BY <1>0, <2>1
<1>5. j <= n
  BY <1>0 DEF n
<1> QED  BY <1>1, <1>4, <1>5

\* Trimming takes nothing but line ends, and keeps the order.
LEMMA TrimmedHas ==
  ASSUME NEW x \in Texts, NEW i \in 1 .. Len(x), x[i] # NL
  PROVE  LET y == Trimmed(x)
         IN /\ y \in Texts
            /\ \E k \in 1 .. Len(y) : y[k] = x[i] /\ ((\E j \in 1 .. i - 1 : x[j] # NL) => k >= 2)
            /\ x[1] # NL => y # <<>> /\ y[1] = x[1]
<1> DEFINE n == Len(x)
           kept == {j \in DOMAIN x : x[j] # NL}
           l == Min(kept)
           h == Max(kept)
           y == SubSeq(x, l, h)
<1>0. n \in Nat /\ DOMAIN x = 1 .. n
  BY DEF Texts
<1>1. kept \subseteq Nat /\ kept \subseteq 1 .. n /\ i \in kept
  BY <1>0
<1>2. Trimmed(x) = y
  BY <1>1 DEF Trimmed
<1>3. l \in kept /\ \A j \in kept : l <= j
  <2> HIDE DEF kept
  <2> QED  BY <1>1, MinIs
<1>4. h \in kept /\ \A j \in kept : j <= h
  <2> HIDE DEF kept, n
  <2> QED  BY <1>0, <1>1, MaxIs
<1>5. \A j \in 1 .. n : x[j] # NL => l <= j /\ j <= h
  BY <1>0, <1>3, <1>4
<1>6. l \in 1 .. n /\ h \in 1 .. n /\ l <= h /\ i \in 1 .. n /\ l <= i /\ i <= h
  BY <1>1, <1>3, <1>4
<1> HIDE DEF l, h, kept
<1> DEFINE a == l - 1
<1>7. a \in 0 .. n /\ h \in 0 .. n /\ a <= h /\ a + 1 = l /\ a \in Nat /\ h \in Nat
  BY <1>0, <1>6
<1> HIDE DEF a
<1>8. y \in Texts /\ Len(y) = h - a /\ \A k \in 1 .. h - a : y[k] = x[a + k]
  BY <1>7, Segment DEF n
<1> HIDE DEF y, n
<1>9. \E k \in 1 .. Len(y) : y[k] = x[i] /\ ((\E j \in 1 .. i - 1 : x[j] # NL) => k >= 2)
  <2> DEFINE k == i - a
  <2>1. k \in 1 .. h - a /\ a + k = i
    BY <1>6, <1>7
  <2>2. (\E j \in 1 .. i - 1 : x[j] # NL) => k >= 2
    <3> SUFFICES ASSUME NEW j \in 1 .. i - 1, x[j] # NL PROVE k >= 2
      OBVIOUS
    <3>1. j \in 1 .. n /\ j < i
      BY <1>0, <1>6
    <3> QED  BY <1>5, <1>6, <1>7, <3>1
  <2> HIDE DEF k
  <2> QED  BY <1>8, <2>1, <2>2
<1>10. x[1] # NL => y # <<>> /\ y[1] = x[1]
  <2> SUFFICES ASSUME x[1] # NL PROVE y # <<>> /\ y[1] = x[1]
    OBVIOUS
  <2>1. a = 0 /\ h - a >= 1
    BY <1>0, <1>5, <1>6, <1>7
  <2> QED  BY <1>7, <1>8, <2>1
<1> QED  BY <1>2, <1>8, <1>9, <1>10

\* Only a data line's own marker, and line ends, are not of the payload.
LEMMA PayloadHas ==
  ASSUME NEW x \in Texts, NEW i \in 1 .. Len(x), x[i] # NL, x[i] # Marker \/ \E j \in 1 .. i - 1 : x[j] # NL
  PROVE  LET y == Unmarked(Trimmed(x))
         IN /\ y \in Texts
            /\ \E k \in 1 .. Len(y) : y[k] = x[i]
            /\ x[1] # NL /\ x[1] # Marker => y # <<>> /\ y[1] = x[1]
<1> DEFINE t == Trimmed(x)
           r == Tail(t)
           y == Unmarked(t)
<1>1. t \in Texts
  BY TrimmedHas
<1>2. PICK k \in 1 .. Len(t) : t[k] = x[i] /\ ((\E j \in 1 .. i - 1 : x[j] # NL) => k >= 2)
  BY TrimmedHas
<1>3. x[1] # NL => t # <<>> /\ t[1] = x[1]
  BY TrimmedHas
<1> HIDE DEF t
<1>4. CASE t[1] # Marker
  <2>1. t # <<>> /\ y = t
    BY <1>2, <1>4 DEF Unmarked
  <2> QED  BY <1>1, <1>2, <1>3, <2>1 DEF t
<1>5. CASE t[1] = Marker
  <2>1. Len(t) \in Nat /\ t # <<>> /\ k \in Nat
    BY <1>1, <1>2 DEF Texts
  <2>2. y = Trimmed(r)
    BY <1>5, <2>1 DEF Unmarked
  <2>3. k >= 2
    <3>1. k # 1
      BY <1>2, <1>5
    <3> QED  BY <2>1, <3>1
  <2>4. r \in Texts /\ Len(r) = Len(t) - 1 /\ \A m \in 1 .. Len(r) : r[m] = t[m + 1]
    BY <1>1, <2>1 DEF Texts
  <2> HIDE DEF r
  <2> DEFINE m == k - 1
  <2>5. m \in 1 .. Len(r) /\ r[m] = x[i] /\ r[m] # NL
    <3>1. m \in 1 .. Len(r) /\ m + 1 = k
      BY <2>1, <2>3, <2>4
    <3> HIDE DEF m
    <3> QED  BY <1>2, <2>4, <3>1
  <2> HIDE DEF m
  <2>6. Trimmed(r) \in Texts /\ \E j \in 1 .. Len(Trimmed(r)) : Trimmed(r)[j] = r[m]
    BY <2>4, <2>5, TrimmedHas
  <2>7. ~(x[1] # NL /\ x[1] # Marker)
    BY <1>3, <1>5
  <2> HIDE DEF y
  <2> QED  BY <2>2, <2>5, <2>6, <2>7 DEF y, t
<1> QED  BY <1>4, <1>5

\* A valid payload is line ends and one event's tokens.
LEMMA ValidTokens ==
  ASSUME NEW y \in Texts, ValidPayload(y)
  PROVE  LET e == Unspaced(y)[1].e
         IN /\ e \in Events
            /\ \A k \in 1 .. Len(y) : y[k] # NL => y[k] \in {Token("open", e), Token("piece", e), Token("close", e)}
            /\ y # <<>> /\ y[1] # NL => y[1].k = "open"
<1> DEFINE u == Unspaced(y)
           e == u[1].e
<1>1. u = Payload(e) /\ u # <<>> /\ u[1].k = "open"
  BY DEF ValidPayload, Blank
<1>2. e \in Events
  <2>1. y \in Seq(Tokens) /\ Tokens \subseteq Tokens
    BY DEF Texts
  <2> QED  BY <2>1, ClosedBy
<1>3. ASSUME NEW k \in 1 .. Len(y), y[k] # NL
      PROVE  y[k] \in {Token("open", e), Token("piece", e), Token("close", e)}
  <2>1. PICK j \in 1 .. Len(u) : u[j] = y[k]
    BY <1>3, UnspacedHas
  <2> HIDE DEF u, e
  <2>2. /\ Payload(e) \in Texts /\ Len(Payload(e)) = Pieces(e) + 2 /\ Pieces(e) \in Nat
        /\ Payload(e)[1] = Token("open", e) /\ Payload(e)[Pieces(e) + 2] = Token("close", e)
        /\ \A m \in 2 .. Pieces(e) + 1 : Payload(e)[m] = Token("piece", e)
    BY <1>2, PayloadTokens
  <2>3. j = 1 \/ j \in 2 .. Pieces(e) + 1 \/ j = Pieces(e) + 2
    BY <1>1, <2>2
  <2> QED  BY <1>1, <2>1, <2>2, <2>3
<1>4. ASSUME y # <<>>, y[1] # NL PROVE y[1].k = "open"
  <2>1. PICK p \in 1 .. Len(y) : u[1] = y[p] /\ y[p] # NL /\ \A i \in 1 .. p - 1 : y[i] = NL
    BY <1>1, FirstUnspaced
  <2>2. p = 1
    <3>1. ~(1 \in 1 .. p - 1)
      BY <1>4, <2>1
    <3> QED  BY <2>1, <3>1
  <2> QED  BY <1>1, <2>1, <2>2
<1> QED  BY <1>2, <1>3, <1>4

\* Around a frame: none ends before it, none begins within it.
LEMMA FrameTokens ==
  ASSUME NEW s, NEW O, NEW e, NEW a, NEW b, NEW c, FrameAt(s, O, e, a, b, c)
  PROVE  /\ \A j \in b - 1 .. c - 1 : j >= 1 => s.text[j].k # "close" /\ s.text[j] # DoneMark
         /\ \A j \in a + 1 .. c + 2 : s.text[j].k # "open" /\ s.text[j] # DoneMark
         /\ \A j \in a + 1 .. c : s.text[j] # NL /\ s.text[j] # Marker
<1> DEFINE text == s.text
<1>1. b \in Nat /\ a \in Nat /\ c \in Nat /\ b < a /\ a < c
  BY DEF FrameAt
<1>2. /\ Token("open", e).k = "open" /\ Token("piece", e).k = "piece" /\ Token("event", e).k = "event"
      /\ Token("close", e).k = "close" /\ NL.k = "nl" /\ Marker.k = "data" /\ DoneMark.k = "done"
  BY DEF NL, Marker, DoneMark, Token
<1>3. text[a] = Token("open", e) /\ text[c] = Token("close", e) /\ text[c + 1] = NL /\ text[c + 2] = NL
  BY DEF FrameAt
<1>4. \A j \in a + 1 .. c - 1 : text[j] = Token("piece", e)
  BY DEF FrameAt
<1>5. \A j \in b + 1 .. a - 1 : text[j] \in {Token("event", e), NL, Marker}
  BY DEF FrameAt
<1>6. b = 0 \/ (b >= 2 /\ text[b - 1] = NL /\ text[b] = NL)
  BY DEF FrameAt
<1> HIDE DEF text
<1>7. ASSUME NEW j \in b - 1 .. c - 1, j >= 1 PROVE text[j].k # "close" /\ text[j] # DoneMark
  <2>1. \/ b >= 1 /\ (j = b - 1 \/ j = b)
        \/ j \in b + 1 .. a - 1 \/ j = a \/ j \in a + 1 .. c - 1
    BY <1>1, <1>7
  <2>2. CASE b >= 1 /\ (j = b - 1 \/ j = b)
    BY <1>1, <1>2, <1>6, <2>2
  <2>3. CASE j \in b + 1 .. a - 1
    <3>1. text[j] \in {Token("event", e), NL, Marker}
      BY <1>5, <2>3
    <3> QED  BY <1>2, <3>1
  <2>4. CASE j = a \/ j \in a + 1 .. c - 1
    BY <1>2, <1>3, <1>4, <2>4
  <2> QED  BY <2>1, <2>2, <2>3, <2>4
<1>8. ASSUME NEW j \in a + 1 .. c + 2 PROVE text[j].k # "open" /\ text[j] # DoneMark /\ (j <= c => text[j] # NL /\ text[j] # Marker)
  <2>1. j \in a + 1 .. c - 1 \/ j = c \/ (j > c /\ (j = c + 1 \/ j = c + 2))
    BY <1>1
  <2>2. CASE j \in a + 1 .. c - 1 \/ j = c
    BY <1>2, <1>3, <1>4, <2>2
  <2>3. CASE j > c /\ (j = c + 1 \/ j = c + 2)
    <3>1. ~(j <= c)
      BY <1>1, <2>3
    <3> QED  BY <1>2, <1>3, <2>3, <3>1
  <2> QED  BY <2>1, <2>2, <2>3
<1>9. \A j \in a + 1 .. c : j \in a + 1 .. c + 2 /\ j <= c
  BY <1>1
<1> QED  BY <1>7, <1>8, <1>9 DEF text

\* What is held beyond L says nothing: no frame ends in it, or none begins in it.
LEMMA SettledQuiet ==
  ASSUME NEW s, NEW O, Counting(s, O), NEW events, NEW ends, Frames(s, events, ends),
         NEW p \in 0 .. Len(s.text), NEW L \in 0 .. p, Settled(s, events, ends, L, p)
  PROVE  /\ O[L] \subseteq O[p]
         /\ (\A j \in L + 1 .. p : s.text[j].k # "close") \/ (\A j \in L + 1 .. p : s.text[j].k # "open")
<1> DEFINE text == s.text
<1>0. text \in Texts /\ Len(text) \in Nat /\ p \in Nat /\ L \in Nat /\ L <= p /\ p <= Len(text) /\ L \in 0 .. Len(text)
  BY DEF Counting, Texts
<1>1. CASE Past(events, ends, L)
  <2>1. O[L] = O[p] /\ \A j \in L + 1 .. p : text[j].k # "close"
    BY <1>0, <1>1, PastLevels
  <2> QED  BY <2>1
<1>2. ASSUME NEW i \in 1 .. Len(events),
             \/ Awaits(ends, i, L) /\ p < ends[i] - 2
             \/ Midst(s, ends, i, L) /\ p < ends[i]
      PROVE  /\ O[L] \subseteq O[p]
             /\ (\A j \in L + 1 .. p : text[j].k # "close") \/ (\A j \in L + 1 .. p : text[j].k # "open")
  <2> DEFINE e == events[i]
             b == ends[i - 1]
             c == ends[i] - 2
             a == b + Ahead(s) + 1
  <2>1. FrameAt(s, O, e, a, b, c) /\ ends[i] = c + 2
    BY FrameAll
  <2>2. \/ b - 2 <= L /\ L <= b /\ p < c
        \/ a <= L /\ L < c /\ c \in Oversize(text) /\ p < c + 2
    BY <1>2, <2>1 DEF Awaits, Midst
  <2> HIDE DEF a, b, c, e
  <2>3. b \in Nat /\ a \in Nat /\ c \in Nat /\ b < a /\ a < c /\ c + 2 <= Len(text)
    BY <2>1 DEF FrameAt
  <2>4. \A K \in Nat : b - 2 <= K /\ K < c => O[K] = O[c - 1]
    BY <2>1 DEF FrameAt
  <2>5. (c \in Oversize(text) => O[c - 1] \subseteq O[c]) /\ O[c + 1] = O[c]
    BY <2>1 DEF FrameAt
  <2>6. \A j \in b - 1 .. c - 1 : j >= 1 => text[j].k # "close"
    BY <2>1, FrameTokens
  <2>7. \A j \in a + 1 .. c + 2 : text[j].k # "open"
    BY <2>1, FrameTokens
  <2> HIDE DEF text
  <2>8. CASE b - 2 <= L /\ L <= b /\ p < c
    <3>1. O[L] = O[c - 1] /\ O[p] = O[c - 1]
      BY <1>0, <2>3, <2>4, <2>8
    <3>2. \A j \in L + 1 .. p : j \in b - 1 .. c - 1 /\ j >= 1
      BY <1>0, <2>3, <2>8
    <3> QED  BY <2>6, <3>1, <3>2
  <2>9. CASE a <= L /\ L < c /\ c \in Oversize(text) /\ p < c + 2
    <3>1. O[L] = O[c - 1]
      BY <1>0, <2>3, <2>4, <2>9
    <3>2. O[L] \subseteq O[p]
      <4>1. CASE p < c
        <5>1. O[p] = O[c - 1]
          BY <1>0, <2>3, <2>4, <2>9, <4>1
        <5> QED  BY <3>1, <5>1
      <4>2. CASE p >= c
        <5>1. p = c \/ p = c + 1
          BY <1>0, <2>3, <2>9, <4>2
        <5> QED  BY <2>5, <2>9, <3>1, <5>1
      <4> QED  BY <1>0, <2>3, <4>1, <4>2
    <3>3. \A j \in L + 1 .. p : j \in a + 1 .. c + 2
      BY <1>0, <2>3, <2>9
    <3> QED  BY <2>7, <3>2, <3>3
  <2> QED  BY <2>2, <2>8, <2>9
<1> QED  BY <1>1, <1>2 DEF Settled

\* Where the reader stands it has read what has arrived, and a flush adds nothing to that.
LEMMA StandsKnows ==
  ASSUME NEW s, NEW O, Counting(s, O), NEW events, NEW ends, Frames(s, events, ends),
         NEW p \in 0 .. Len(s.text), NEW o, Standing(s, O, events, ends, p, o)
  PROVE  o \in O[p] /\ Flush(o) \in O[p] /\ Flush(o).residual = <<>>
<1> DEFINE text == s.text
<1>0. text \in Texts /\ Len(text) \in Nat /\ p \in Nat /\ p <= Len(text)
  BY DEF Counting, Texts
<1>1. PICK L \in 0 .. p : o \in O[L] /\ o.residual = SubSeq(text, L + 1, p) /\ Settled(s, events, ends, L, p)
  BY DEF Standing
<1>2. L \in 0 .. Len(text) /\ L <= p
  BY <1>0
<1>3. o \in Observers
  BY <1>1, <1>2 DEF Counting
<1>4. /\ O[L] \subseteq O[p]
      /\ (\A j \in L + 1 .. p : text[j].k # "close") \/ (\A j \in L + 1 .. p : text[j].k # "open")
  BY <1>1, SettledQuiet
<1>5. ObserveFrame(o, o.residual) = o
  <2> DEFINE S == SubSeq(text, L + 1, p)
  <2>1. ObserveFrame(o, S) = o
    BY <1>0, <1>2, <1>3, <1>4, QuietRead
  <2> QED  BY <1>1, <2>1
<1>6. Flush(o) = [o EXCEPT !.residual = <<>>]
  BY <1>5 DEF Flush
<1>7. o \in O[p]
  BY <1>1, <1>4
<1>8. [o EXCEPT !.residual = <<>>] \in O[p] /\ [o EXCEPT !.residual = <<>>].residual = <<>>
  BY <1>7, Emptied, Keeps
<1> QED  BY <1>6, <1>7, <1>8

\* A chunk that is the [DONE] mark comes after the last frame.
LEMMA DoneStands ==
  ASSUME NEW s, NEW O, Counting(s, O), NEW events, NEW ends, Frames(s, events, ends),
         NEW p \in 0 .. Len(s.text), NEW q \in 0 .. Len(s.text), p <= q,
         NEW o, Standing(s, O, events, ends, p, o), Blank(o.residual),
         Unmarked(Trimmed(SubSeq(s.text, p + 1, q))) = <<DoneMark>>
  PROVE  Standing(s, O, events, ends, q, [o EXCEPT !.residual = <<>>])
<1> DEFINE text == s.text
           x == SubSeq(text, p + 1, q)
           y == Unmarked(Trimmed(x))
           g == [o EXCEPT !.residual = <<>>]
<1>0. text \in Texts /\ Len(text) \in Nat /\ p \in Nat /\ q \in Nat /\ q <= Len(text)
  BY DEF Counting, Texts
<1>1. PICK L \in 0 .. p : o \in O[L] /\ o.residual = SubSeq(text, L + 1, p) /\ Settled(s, events, ends, L, p)
  BY DEF Standing
<1>2. L \in 0 .. Len(text) /\ L <= p /\ L \in Nat
  BY <1>0
<1>3. g \in O[L] /\ g.residual = <<>>
  BY <1>1, <1>2, Emptied, Keeps
<1>4. x \in Texts /\ Len(x) = q - p /\ \A i \in 1 .. q - p : x[i] = text[p + i]
  BY <1>0, Segment
<1>5. y = <<DoneMark>>
  OBVIOUS
<1> SUFFICES Standing(s, O, events, ends, q, g)
  OBVIOUS
<1> HIDE DEF x, g, text
<1>6. CASE Past(events, ends, L)
  <2>1. O[L] = O[q]
    BY <1>0, <1>2, <1>6, PastLevels
  <2>2. Settled(s, events, ends, q, q)
    <3> DEFINE z == ends[Len(events)]
    <3>1. z \in Nat /\ z - 2 <= L
      BY <1>0, <1>6, LayoutEnd DEF Past, text
    <3> HIDE DEF z
    <3>2. z - 2 <= q
      BY <1>0, <1>2, <3>1
    <3> QED  BY <1>0, <3>2 DEF Settled, Past, z
  <2> QED  BY <1>0, <1>3, <2>1, <2>2, StandsAll
<1>7. ASSUME NEW i \in 1 .. Len(events), ~Past(events, ends, L),
             \/ Awaits(ends, i, L) /\ p < ends[i] - 2
             \/ Midst(s, ends, i, L) /\ p < ends[i]
      PROVE  FALSE
  <2> DEFINE e == events[i]
             b == ends[i - 1]
             c == ends[i] - 2
             a == b + Ahead(s) + 1
  <2>1. FrameAt(s, O, e, a, b, c) /\ ends[i] = c + 2
    BY FrameAll
  <2>2. (b - 2 <= L /\ L <= b /\ p < c) \/ (a <= L /\ L < c /\ p < c + 2)
    BY <1>7, <2>1 DEF Awaits, Midst
  <2> HIDE DEF a, b, c, e
  <2>3. b \in Nat /\ a \in Nat /\ c \in Nat /\ b < a /\ a < c /\ c + 2 <= Len(text)
    BY <2>1 DEF FrameAt, text
  <2>4. \A j \in b - 1 .. c - 1 : j >= 1 => text[j] # DoneMark
    BY <2>1, FrameTokens DEF text
  <2>5. \A j \in a + 1 .. c + 2 : text[j] # DoneMark
    BY <2>1, FrameTokens DEF text
  <2>6. \A j \in a + 1 .. c : text[j] # NL /\ text[j] # Marker
    BY <2>1, FrameTokens DEF text
  <2>7. p < c
    <3> SUFFICES ASSUME c <= p PROVE FALSE
      BY <1>0, <2>3
    <3> DEFINE k == c - L
               r == o.residual
    <3>1. k \in 1 .. p - L /\ L + k = c /\ c \in a + 1 .. c
      BY <1>0, <1>2, <2>2, <2>3
    <3>2. r \in Texts /\ Len(r) = p - L /\ \A m \in 1 .. p - L : r[m] = text[L + m]
      BY <1>0, <1>1, <1>2, Segment
    <3>3. \A m \in 1 .. Len(r) : r[m] = NL
      BY <3>2, BlankIs
    <3> HIDE DEF k, r
    <3> QED  BY <2>6, <3>1, <3>2, <3>3
  \* Some token of the chunk is the mark, so all of the frame's end is in the chunk too.
  <2>8. PICK m \in 1 .. q - p : x[m] = DoneMark
    <3>1. DoneMark \in Within(text, p, q)
      <4> DEFINE W == Within(text, p, q)
      <4>1. W \subseteq Tokens
        BY <1>0, WithinTokens
      <4>2. x \in Seq(W)
        <5>1. \A j \in p + 1 .. q : text[j] \in W
          BY DEF Within
        <5>2. p + 1 \in Int /\ q \in Int
          BY <1>0
        <5> HIDE DEF W
        <5> QED  BY <5>1, <5>2, SubSeqProperties DEF x
      <4> HIDE DEF W, y
      <4>3. Trimmed(x) \in Seq(W)
        BY <4>1, <4>2, TrimmedWithin
      <4>4. y \in Seq(W)
        BY <4>1, <4>3, TrimmedWithin DEF y
      <4>5. DoneMark \in W
        BY <1>5, <4>4
      <4> QED  BY <4>5 DEF W
    <3>2. PICK j \in p + 1 .. q : text[j] = DoneMark
      BY <3>1 DEF Within
    <3>3. j - p \in 1 .. q - p /\ p + (j - p) = j
      BY <1>0
    <3> QED  BY <1>4, <3>2, <3>3
  <2> DEFINE j == p + m
  <2>9. text[j] = DoneMark /\ j \in Nat /\ j >= 1 /\ p < j /\ j <= q
    BY <1>0, <1>4, <2>8
  <2> HIDE DEF j
  <2>10. c < j
    <3>1. b - 1 <= j
      BY <1>0, <1>2, <2>2, <2>3, <2>9
    <3>2. ~(j \in b - 1 .. c - 1)
      BY <2>4, <2>9
    <3>3. ~(j \in a + 1 .. c + 2)
      BY <2>5, <2>9
    <3> QED  BY <1>0, <2>3, <2>9, <3>1, <3>2, <3>3
  <2> DEFINE k == c - p
  <2>11. k \in 1 .. Len(x) /\ x[k] = text[c] /\ c \in a + 1 .. c
    <3>1. k \in 1 .. q - p /\ p + k = c /\ c \in a + 1 .. c
      BY <1>0, <2>3, <2>7, <2>9, <2>10
    <3> HIDE DEF k
    <3> QED  BY <1>4, <3>1
  <2> HIDE DEF k
  <2>12. x[k] # NL /\ x[k] # Marker /\ x[k] # DoneMark
    <3>1. c \in a + 1 .. c + 2
      BY <2>3
    <3> QED  BY <2>5, <2>6, <2>11, <3>1
  <2>13. PICK u \in 1 .. Len(y) : y[u] = x[k]
    <3> HIDE DEF y
    <3> QED  BY <1>4, <2>11, <2>12, PayloadHas DEF y
  <2> QED  BY <1>5, <2>12, <2>13
<1> QED  BY <1>1, <1>6, <1>7 DEF Settled

LEMMA BlankBefore ==
  ASSUME NEW s, s.text \in Texts, NEW O, NEW e, NEW a, NEW b, NEW c, FrameAt(s, O, e, a, b, c),
         NEW p \in 0 .. Len(s.text), NEW L \in 0 .. p,
         (b - 2 <= L /\ L <= b /\ p < c) \/ (a <= L /\ L < c /\ p < c + 2), Blank(SubSeq(s.text, L + 1, p))
  PROVE  p < c /\ (a <= L => p = L) /\ (L <= b => p <= b)
<1> DEFINE text == s.text
           r == SubSeq(text, L + 1, p)
<1>0. Len(text) \in Nat /\ p \in Nat /\ p <= Len(text) /\ L \in Nat /\ L <= p /\ L \in 0 .. Len(text)
  BY DEF Texts
<1>1. b \in Nat /\ a \in Nat /\ c \in Nat /\ b < a /\ a < c
  BY DEF FrameAt
<1>2. text[b + 1] # NL
  BY DEF FrameAt
<1>3. \A j \in a + 1 .. c : text[j] # NL
  BY FrameTokens
<1>4. r \in Texts /\ Len(r) = p - L /\ \A m \in 1 .. p - L : r[m] = text[L + m]
  BY <1>0, Segment
<1> HIDE DEF r
<1>5. \A m \in 1 .. p - L : r[m] = NL
  BY <1>4, BlankIs DEF r
<1>6. ASSUME NEW j \in L + 1 .. p PROVE text[j] = NL
  <2>1. j - L \in 1 .. p - L /\ L + (j - L) = j
    BY <1>0
  <2> QED  BY <1>4, <1>5, <2>1
<1> HIDE DEF text
<1>7. ~(b + 1 \in L + 1 .. p)
  BY <1>2, <1>6
<1>8. a <= L => ~(L + 1 \in L + 1 .. p /\ L + 1 \in a + 1 .. c)
  BY <1>3, <1>6
<1>9. a <= L => p = L
  BY <1>0, <1>1, <1>8
<1>10. L <= b => p <= b
  BY <1>0, <1>1, <1>7
<1> QED  BY <1>0, <1>1, <1>9, <1>10

\* A chunk that is one payload, with or without its marker, is the frame that is awaited.
LEMMA PayloadStands ==
  ASSUME NEW s, NEW O, Counting(s, O), NEW events, NEW ends, Frames(s, events, ends),
         NEW p \in 0 .. Len(s.text), NEW q \in 0 .. Len(s.text), p <= q,
         NEW o, Standing(s, O, events, ends, p, o), Blank(o.residual),
         ValidPayload(Unmarked(Trimmed(SubSeq(s.text, p + 1, q))))
  PROVE  Standing(s, O, events, ends, q,
                  ObservePayload([o EXCEPT !.residual = <<>>], Unmarked(Trimmed(SubSeq(s.text, p + 1, q))), "chunk"))
<1> DEFINE text == s.text
           x == SubSeq(text, p + 1, q)
           y == Unmarked(Trimmed(x))
           bare == [o EXCEPT !.residual = <<>>]
           d == Unspaced(y)[1].e
           g == ObservePayload(bare, y, "chunk")
<1>0. text \in Texts /\ Len(text) \in Nat /\ p \in Nat /\ q \in Nat /\ q <= Len(text) /\ p <= q
  BY DEF Counting, Texts
<1>1. PICK L \in 0 .. p : o \in O[L] /\ o.residual = SubSeq(text, L + 1, p) /\ Settled(s, events, ends, L, p)
  BY DEF Standing
<1>2. L \in 0 .. Len(text) /\ L <= p /\ L \in Nat
  BY <1>0
<1>3. bare \in O[L] /\ bare.residual = <<>> /\ bare \in Holding(<<>>)
  <2>1. bare \in O[L] /\ bare.residual = <<>>
    BY <1>1, <1>2, Emptied, Keeps
  <2> HIDE DEF bare
  <2>2. bare \in Observers
    BY <1>2, <2>1 DEF Counting
  <2> QED  BY <2>1, <2>2 DEF Holding
<1>4. x \in Texts /\ Len(x) = q - p /\ \A i \in 1 .. q - p : x[i] = text[p + i]
  BY <1>0, Segment
<1>5. g = ObserveDeclared(bare, Declares(d), "chunk")
  BY DEF ObservePayload
<1>6. ValidPayload(y)
  OBVIOUS
<1> SUFFICES Standing(s, O, events, ends, q, g)
  OBVIOUS
<1> HIDE DEF x, g, text, bare
<1>7. y \in Texts
  <2>1. Trimmed(x) \in Texts
    BY <1>4, TrimmedType
  <2>2. y \in Seq(Tokens)
    BY <2>1, TrimmedWithin DEF Texts
  <2> QED  BY <2>2 DEF Texts
<1> HIDE DEF y
<1>8. /\ d \in Events
      /\ \A k \in 1 .. Len(y) : y[k] # NL => y[k] \in {Token("open", d), Token("piece", d), Token("close", d)}
      /\ y # <<>> /\ y[1] # NL => y[1].k = "open"
  BY <1>6, <1>7, ValidTokens
<1>9. g.residual = <<>>
  <2>1. g \in Holding(<<>>)
    <3>1. ObservePayload(bare, y, "chunk") \in Holding(<<>>)
      BY <1>3, <1>6, <1>7, ObservePayloadType
    <3> QED  BY <3>1 DEF g
  <2> QED  BY <2>1 DEF Holding
<1>10. Token("close", d) \in Within(text, p, q)
  <2> DEFINE W == Within(text, p, q)
  <2>1. W \subseteq Tokens
    BY <1>0, WithinTokens
  <2>2. x \in Seq(W)
    <3>1. \A j \in p + 1 .. q : text[j] \in W
      BY DEF Within
    <3>2. p + 1 \in Int /\ q \in Int
      BY <1>0
    <3> HIDE DEF W
    <3> QED  BY <3>1, <3>2, SubSeqProperties DEF x
  <2> HIDE DEF W
  <2>3. Trimmed(x) \in Seq(W)
    BY <2>1, <2>2, TrimmedWithin
  <2>4. y \in Seq(W)
    BY <2>1, <2>3, TrimmedWithin DEF y
  <2>5. Token("close", d) \in W
    BY <1>6, <2>1, <2>4, ClosedBy
  <2> QED  BY <2>5 DEF W
<1> HIDE DEF d
<1>11. PICK z \in p + 1 .. q : text[z] = Token("close", d)
  BY <1>10 DEF Within
<1>12. /\ Token("open", d).k = "open" /\ Token("piece", d).k = "piece" /\ Token("close", d).k = "close"
       /\ Token("open", d).e = d /\ Token("piece", d).e = d /\ Token("close", d).e = d
       /\ NL.k = "nl" /\ Marker.k = "data"
  BY DEF NL, Marker, Token
\* What else of the chunk has to be of the payload.
<1>13. ASSUME NEW j \in p + 1 .. q, text[j] # NL, text[j] # Marker \/ \E h \in p + 1 .. j - 1 : text[h] # NL
       PROVE  text[j].k \in {"open", "piece", "close"} /\ text[j].e = d
  <2> DEFINE i == j - p
  <2>1. i \in 1 .. Len(x) /\ x[i] = text[j] /\ i \in Nat /\ j \in Nat
    <3>1. i \in 1 .. q - p /\ p + i = j /\ i \in Nat /\ j \in Nat
      BY <1>0
    <3> HIDE DEF i
    <3> QED  BY <1>4, <3>1
  <2>2. x[i] # Marker \/ \E h \in 1 .. i - 1 : x[h] # NL
    <3> SUFFICES ASSUME NEW h \in p + 1 .. j - 1, text[h] # NL PROVE \E k \in 1 .. i - 1 : x[k] # NL
      BY <1>13, <2>1
    <3>1. h - p \in 1 .. i - 1 /\ h - p \in 1 .. q - p /\ p + (h - p) = h
      BY <1>0
    <3> QED  BY <1>4, <3>1
  <2> HIDE DEF i
  <2>3. PICK k \in 1 .. Len(y) : y[k] = x[i]
    BY <1>4, <1>13, <2>1, <2>2, PayloadHas DEF y
  <2>4. text[j] \in {Token("open", d), Token("piece", d), Token("close", d)}
    BY <1>8, <1>13, <2>1, <2>3
  <2> QED  BY <1>12, <2>4
<1>14. ~Past(events, ends, L)
  <2> SUFFICES ASSUME Past(events, ends, L) PROVE FALSE
    OBVIOUS
  <2>1. \A j \in L + 1 .. q : text[j].k # "close"
    BY <1>0, <1>2, PastLevels DEF text
  <2>2. z \in L + 1 .. q
    BY <1>0, <1>2
  <2> QED  BY <1>11, <1>12, <2>1, <2>2
<1>15. ASSUME NEW i \in 1 .. Len(events),
              \/ Awaits(ends, i, L) /\ p < ends[i] - 2
              \/ Midst(s, ends, i, L) /\ p < ends[i]
       PROVE  Standing(s, O, events, ends, q, g)
  <2> DEFINE e == events[i]
             b == ends[i - 1]
             c == ends[i] - 2
             a == b + Ahead(s) + 1
  <2>1. FrameAt(s, O, e, a, b, c) /\ ends[i] = c + 2
    BY FrameAll
  <2>2. (b - 2 <= L /\ L <= b /\ p < c) \/ (a <= L /\ L < c /\ p < c + 2)
    BY <1>15, <2>1 DEF Awaits, Midst
  <2>3. /\ c + 3 <= Len(text) => text[c + 3].k \in {"event", "data"}
        /\ s.lines => text[b + 1] = Token("event", e)
    BY <1>0, Layout DEF text, FrameIn
  <2> HIDE DEF a, b, c, e
  <2>4. b \in Nat /\ a \in Nat /\ c \in Nat /\ b < a /\ a < c /\ c + 2 <= Len(text)
    BY <2>1 DEF FrameAt, text
  <2>5. p < c /\ (a <= L => p = L) /\ (L <= b => p <= b)
    <3>1. Blank(SubSeq(s.text, L + 1, p))
      BY <1>1 DEF text
    <3> QED  BY <1>0, <2>1, <2>2, <3>1, BlankBefore DEF text
  <2>6. \A j \in b - 1 .. c - 1 : j >= 1 => text[j].k # "close"
    BY <2>1, FrameTokens DEF text
  <2>7. \A j \in a + 1 .. c : text[j] # NL /\ text[j] # Marker /\ text[j].k # "open"
    <3>1. \A j \in a + 1 .. c : text[j] # NL /\ text[j] # Marker
      BY <2>1, FrameTokens DEF text
    <3>2. \A j \in a + 1 .. c + 2 : text[j].k # "open"
      BY <2>1, FrameTokens DEF text
    <3> QED  BY <2>4, <3>1, <3>2
  <2>8. c <= z /\ c <= q
    <3>1. z \in Nat /\ p < z /\ z <= q /\ b - 1 <= z /\ z >= 1
      BY <1>0, <1>2, <2>2, <2>4
    <3>2. ~(z \in b - 1 .. c - 1)
      BY <1>11, <1>12, <2>6, <3>1
    <3> QED  BY <1>0, <2>4, <3>1, <3>2
  <2>9. c \in p + 1 .. q /\ c \in a + 1 .. c
    BY <1>0, <2>4, <2>5, <2>8
  <2>10. e = d
    <3>1. text[c] = Token("close", e)
      BY <2>1 DEF FrameAt, text
    <3>2. text[c].e = e
      BY <3>1 DEF Token
    <3>3. text[c] # NL /\ text[c] # Marker
      BY <2>7, <2>9
    <3> QED  BY <1>13, <2>9, <3>2, <3>3
  \* The payload that is read is not the rest of one that was given up.
  <2>11. ~(a <= L)
    <3> SUFFICES ASSUME a <= L PROVE FALSE
      OBVIOUS
    <3>1. p = L /\ p + 1 \in a + 1 .. c /\ p + 1 \in p + 1 .. q /\ 1 \in 1 .. q - p
      BY <1>0, <1>2, <2>4, <2>5, <2>8
    <3>2. x[1] = text[p + 1] /\ 1 \in 1 .. Len(x)
      BY <1>4, <3>1
    <3>3. x[1] # NL /\ x[1] # Marker /\ x[1].k # "open"
      BY <2>7, <3>1, <3>2
    <3>4. y # <<>> /\ y[1] = x[1]
      BY <1>4, <3>2, <3>3, PayloadHas DEF y
    <3> QED  BY <1>8, <3>3, <3>4
  <2>12. b - 2 <= L /\ L <= b /\ p <= b
    BY <1>0, <1>2, <2>2, <2>4, <2>5, <2>11
  <2>13. ~s.lines
    <3> SUFFICES ASSUME s.lines PROVE FALSE
      OBVIOUS
    <3>1. b + 1 \in p + 1 .. q
      BY <1>0, <2>4, <2>8, <2>12
    <3>2. text[b + 1].k = "event"
      BY <2>3 DEF Token
    <3>3. text[b + 1] # NL /\ text[b + 1] # Marker
      BY <1>12, <3>2
    <3>4. text[b + 1].k \in {"open", "piece", "close"}
      BY <1>13, <3>1, <3>3
    <3> QED  BY <3>2, <3>4
  <2>14. q <= c + 2
    <3> SUFFICES ASSUME c + 3 <= q PROVE FALSE
      BY <1>0, <2>4
    <3>1. c + 3 \in p + 1 .. q /\ c \in p + 1 .. (c + 3) - 1 /\ c + 3 <= Len(text)
      BY <1>0, <2>4, <2>9
    <3>2. text[c + 3].k \in {"event", "data"}
      BY <2>3, <3>1
    <3>3. text[c + 3] # NL /\ text[c] # NL
      BY <1>12, <2>7, <2>9, <3>2
    <3>4. text[c + 3].k \in {"open", "piece", "close"}
      BY <1>13, <3>1, <3>3
    <3> QED  BY <3>2, <3>4
  <2>15. g \in O[q]
    <3>1. O[L] = O[c - 1]
      <4>1. \A K \in Nat : b - 2 <= K /\ K < c => O[K] = O[c - 1]
        BY <2>1 DEF FrameAt
      <4> QED  BY <1>2, <2>4, <2>12, <4>1
    <3>2. (\A u \in O[c - 1] : ObserveDeclared(u, Declares(e), TypeGiven(s, e)) \in O[c]) /\ O[c + 1] = O[c] /\ O[c + 2] = O[c]
      BY <2>1 DEF FrameAt
    <3>3. TypeGiven(s, e) = "chunk"
      BY <2>13 DEF TypeGiven, OrChunk
    <3>4. g \in O[c]
      BY <1>3, <1>5, <2>10, <3>1, <3>2, <3>3
    <3>5. q = c \/ q = c + 1 \/ q = c + 2
      BY <1>0, <2>4, <2>8, <2>14
    <3> QED  BY <3>2, <3>4, <3>5
  <2>16. Settled(s, events, ends, q, q)
    <3>1. ends[i] - 2 <= q /\ q <= ends[i]
      BY <1>0, <2>1, <2>4, <2>8, <2>14
    <3> QED  BY <1>0, <3>1, EndSpot DEF text
  <2> QED  BY <1>0, <1>9, <2>15, <2>16, StandsAll
<1> QED  BY <1>1, <1>14, <1>15 DEF Settled

\* A chunk leads from a standing to the next, in whichever of its ways the callback reads it.
LEMMA CallbackStands ==
  ASSUME NEW s, NEW O, Counting(s, O), NEW events, NEW ends, Frames(s, events, ends), MaxResidual >= 4,
         NEW p \in 0 .. Len(s.text), NEW q \in 0 .. Len(s.text), p <= q,
         NEW o, Standing(s, O, events, ends, p, o)
  PROVE  Standing(s, O, events, ends, q, ObserveCallback(o, SubSeq(s.text, p + 1, q)))
<1> DEFINE chunk == SubSeq(s.text, p + 1, q)
           payload == Unmarked(Trimmed(chunk))
           bare == [o EXCEPT !.residual = <<>>]
           S(x) == Standing(s, O, events, ends, q, x)
<1>1. ObserveCallback(o, chunk) = CallbackWith(o, chunk, payload)
  BY DEF ObserveCallback
<1>2. Blank(o.residual) /\ payload = <<DoneMark>> => S(bare)
  BY DoneStands
<1>3. Blank(o.residual) /\ ValidPayload(payload) => S(ObservePayload(bare, payload, "chunk"))
  BY PayloadStands
<1>4. S(ObserveStream(o, chunk))
  BY StreamStands
<1> SUFFICES S(ObserveCallback(o, chunk))
  OBVIOUS
<1> HIDE DEF payload, chunk, S
<1> QED  BY <1>1, <1>2, <1>3, <1>4 DEF CallbackWith

LEMMA StreamDoneMarked ==
  ASSUME exchange \in Exchanges
  PROVE  DoneMarked(stream.text)
<1>1. stream.text \in Texts /\ DOMAIN stream.text = 1 .. Len(stream.text)
  BY ExchangeType DEF Texts
<1>2. \A i \in DOMAIN stream.text : stream.text[i] = DoneMark => i > 1 /\ stream.text[i - 1] = Marker
  BY StreamsAssumption DEF stream
<1> QED  BY <1>1, <1>2 DEF DoneMarked

\* A response in one piece.
LEMMA BodyKnows ==
  ASSUME NEW s, NEW O, Counting(s, O), NEW events, NEW ends, Frames(s, events, ends), MaxResidual >= 4,
         NEW o \in O[0], o.residual = <<>>, DoneMarked(s.text)
  PROVE  /\ Standing(s, O, events, ends, 0, o)
         /\ Standing(s, O, events, ends, Len(s.text), ObserveBody(o, s.text))
<1> DEFINE text == s.text
           n == Len(text)
           d == ends[Len(events)]
           g == ObserveBody(o, text)
<1>0. n \in Nat /\ text \in Texts /\ 0 \in 0 .. n /\ n \in 0 .. n /\ 0 <= n
  BY DEF Counting, Texts
<1>1. SubSeq(text, 0 + 1, n) = text
  <2>1. SubSeq(text, 1, Len(text)) = text
    BY <1>0, SubSeqFull DEF Texts
  <2> QED  BY <2>1
<1>2. /\ d \in Nat /\ d <= n /\ Len(events) \in Nat
      /\ \A j \in d - 1 .. n : j >= 1 => text[j] \in {NL, Marker, DoneMark}
  BY <1>0, LayoutEnd
<1>3. \A L \in Nat : d - 2 <= L => Settled(s, events, ends, L, n)
  BY DEF Settled, Past
<1>4. Settled(s, events, ends, n, n) /\ Past(events, ends, n)
  <2>1. d - 2 <= n
    BY <1>0, <1>2
  <2> QED  BY <1>0, <1>3, <2>1 DEF Past
<1>5. NL.k = "nl" /\ Marker.k = "data" /\ DoneMark.k = "done" /\ \A e : Token("event", e).k = "event"
  BY DEF NL, Marker, DoneMark, Token
\* The first token that is not a line end is no payload's, and where all are there is no frame.
<1>6. CASE Len(events) = 0
  <2>1. d = 0
    BY <1>6 DEF Frames
  <2>2. Past(events, ends, 0)
    BY <2>1 DEF Past
  <2>3. Settled(s, events, ends, 0, 0)
    BY <2>2 DEF Settled
  <2>4. Standing(s, O, events, ends, 0, o)
    BY <2>3, StandsAll
  <2>5. \A j \in 1 .. n : text[j] \in {NL, Marker, DoneMark}
    <3>1. \A j \in 1 .. n : j \in d - 1 .. n /\ j >= 1
      BY <1>0, <2>1
    <3> QED  BY <1>2, <3>1
  <2>6. O[0] = O[n]
    BY <1>0, <2>2, PastLevels
  <2>7. Standing(s, O, events, ends, n, o)
    BY <1>0, <1>4, <2>6, StandsAll
  <2>8. ~Blank(text) => ~Bracketed(text)
    <3> SUFFICES ASSUME ~Blank(text) PROVE ~Bracketed(text)
      OBVIOUS
    <3>2. Unspaced(text)[1].k # "done"
      BY <1>0, NotDoneFirst
    <3>1. PICK j \in 1 .. n : Unspaced(text)[1] = text[j]
      BY <1>0, FirstUnspaced DEF Blank
    <3> HIDE DEF text, n
    <3> QED  BY <1>5, <2>5, <3>1, <3>2 DEF Bracketed
  <2> DEFINE h == Flush(ObserveStream(o, text))
  <2>9. Standing(s, O, events, ends, n, h)
    <3>1. Standing(s, O, events, ends, n, ObserveStream(o, text))
      BY <1>0, <1>1, <2>4, StreamStands
    <3>2. h \in O[n] /\ h.residual = <<>>
      BY <1>0, <3>1, StandsKnows
    <3> HIDE DEF h
    <3> QED  BY <1>0, <1>4, <3>2, StandsAll
  <2>10. g = IF Blank(text) THEN o ELSE h
    BY <2>8 DEF ObserveBody
  <2> HIDE DEF h, g
  <2> QED  BY <2>4, <2>7, <2>9, <2>10 DEF g
<1>7. CASE Len(events) # 0
  <2> DEFINE b == ends[0]
             e == events[1]
             c == ends[1] - 2
             a == b + Ahead(s) + 1
  <2>0. 1 \in 1 .. Len(events) /\ 1 - 1 = 0
    BY <1>2, <1>7
  <2>1. FrameAt(s, O, e, a, b, c)
    BY <2>0, FrameAll
  <2>2. b = 0
    BY DEF Frames
  <2>3. Settled(s, events, ends, 0, 0)
    <3>1. a \in Nat /\ c \in Nat /\ b < a /\ a < c
      BY <2>1 DEF FrameAt
    <3>2. 0 < c
      <4> HIDE DEF a, c
      <4> QED  BY <2>2, <3>1
    <3>3. Awaits(ends, 1, 0)
      BY <2>0, <2>2 DEF Awaits
    <3> QED  BY <2>0, <3>2, <3>3 DEF Settled
  <2>4. Standing(s, O, events, ends, 0, o)
    BY <2>3, StandsAll
  <2>5. text[1] # NL /\ text[1].k # "open" /\ n >= 1
    <3> HIDE DEF a, b, c, e
    <3>1. /\ b + 1 = 1 /\ text[b + 1] # NL /\ b < a /\ a < c /\ c + 2 <= n /\ a \in Nat /\ c \in Nat
          /\ \A j \in b + 1 .. a - 1 : text[j] \in {Token("event", e), NL, Marker}
          /\ a = b + Ahead(s) + 1 /\ Ahead(s) \in {1, 3}
      BY <2>1, <2>2 DEF FrameAt
    <3>2. 1 \in b + 1 .. a - 1
      BY <2>2, <3>1
    <3>3. text[1] \in {Token("event", e), NL, Marker} /\ text[1] # NL
      BY <3>1, <3>2
    <3>4. n >= 1
      BY <1>0, <2>2, <3>1
    <3> HIDE DEF text, n
    <3> QED  BY <1>5, <3>3, <3>4
  <2>6. ~Blank(text) /\ ~Bracketed(text)
    <3>1. 1 \in 1 .. n
      BY <1>0, <2>5
    <3>2. ~Blank(text)
      BY <1>0, <2>5, <3>1, BlankIs
    <3>3. PICK j \in 1 .. n : Unspaced(text)[1] = text[j] /\ \A i \in 1 .. j - 1 : text[i] = NL
      BY <1>0, <3>2, FirstUnspaced DEF Blank
    <3>4. j = 1
      <4>1. ~(1 \in 1 .. j - 1)
        BY <2>5, <3>3
      <4> QED  BY <4>1
    <3>5. Unspaced(text)[1].k # "done"
      BY <1>0, <3>2, NotDoneFirst
    <3> QED  BY <2>5, <3>2, <3>3, <3>4, <3>5 DEF Bracketed
  <2> DEFINE h == Flush(ObserveStream(o, text))
  <2>9. Standing(s, O, events, ends, n, h)
    <3>1. Standing(s, O, events, ends, n, ObserveStream(o, text))
      BY <1>0, <1>1, <2>4, StreamStands
    <3>2. h \in O[n] /\ h.residual = <<>>
      BY <1>0, <3>1, StandsKnows
    <3> HIDE DEF h
    <3> QED  BY <1>0, <1>4, <3>2, StandsAll
  <2>10. g = h
    BY <2>6 DEF ObserveBody
  <2> HIDE DEF h, g
  <2> QED  BY <2>4, <2>9, <2>10 DEF g
<1> QED  BY <1>6, <1>7

\* The observer knows what has arrived; until the request ends it stands, with what it holds,
\* where the last frame that has arrived has left it.
Placed(O, events, ends) ==
    /\ at # "done" => Standing(stream, O, events, ends, pos, seen)
    /\ seen \in O[pos]

\* Every handler keeps the observer placed: a chunk, the whole body, a finalize at any time.
LEMMA StepStanding ==
  ASSUME Typed, Begun, [Next]_vars, MaxResidual >= 4, NEW s, s = stream, NEW O, Counting(s, O),
         NEW events, NEW ends, Frames(s, events, ends), Placed(O, events, ends)
  PROVE  stream' = stream /\ Placed(O, events, ends)'
<1> DEFINE text == s.text
<1>0. text \in Texts /\ Len(text) \in Nat /\ pos \in 0 .. Len(text)
  BY ExchangeType DEF Typed
<1> DEFINE S(p, o) == Standing(s, O, events, ends, p, o)
<1>1. /\ at # "done" => S(pos, seen)
      /\ seen \in O[pos]
  BY DEF Placed
<1>2. ASSUME stream' = stream, at' # "done" => S(pos', seen'), seen' \in O[pos']
      PROVE  stream' = stream /\ Placed(O, events, ends)'
  BY <1>2 DEF Placed
<1>3. \A p \in 0 .. Len(text) : \A o : S(p, o) => o \in O[p]
  BY StandsKnows
<1> HIDE DEF S
<1>4. CASE Intercept \/ Headers
  <2>1. stream' = stream /\ pos' = pos /\ seen' = seen /\ at # "done"
    BY <1>4 DEF Intercept, Headers, stream
  <2> QED  BY <1>1, <1>2, <2>1
<1>5. CASE WholeBody
  <2>1. pos = 0 /\ seen = NewObserver /\ stream' = stream
    BY <1>5 DEF WholeBody, Begun, stream
  <2>2. seen \in O[0] /\ seen.residual = <<>>
    BY <1>1, <2>1 DEF NewObserver
  <2> DEFINE g == ObserveBody(seen, text)
             n == Len(text)
  <2>3. S(n, g)
    <3>1. DoneMarked(text)
      BY StreamDoneMarked DEF Typed
    <3> QED  BY <2>2, <3>1, BodyKnows DEF S
  <2>4. seen' = g /\ pos' = n
    BY <1>5 DEF WholeBody
  <2> HIDE DEF g
  <2>5. n \in 0 .. n
    BY <1>0
  <2>6. g \in O[n]
    BY <1>3, <2>3, <2>5
  <2> QED  BY <1>2, <2>1, <2>3, <2>4, <2>6
<1>6. CASE Finalize
  <2> DEFINE g == Flush(seen)
  <2>1. seen' = g /\ pos' = pos /\ stream' = stream /\ at # "done" /\ at' = "done"
    BY <1>6 DEF Finalize, stream
  <2>2. g \in O[pos]
    BY <1>0, <1>1, <2>1, StandsKnows DEF S
  <2> HIDE DEF g
  <2> QED  BY <1>2, <2>1, <2>2
<1>7. ASSUME NEW end \in 1 .. Len(stream.text), Chunk(end) PROVE stream' = stream /\ Placed(O, events, ends)'
  <2>1. /\ seen' = ObserveCallback(seen, SubSeq(text, pos + 1, end)) /\ pos' = end /\ stream' = stream
        /\ at # "done"
    BY <1>7 DEF Chunk, stream
  <2>2. pos < end
    <3>1. exchange \in Exchanges /\ end \in exchange.stream.next[pos] /\ pos \in 0 .. Len(exchange.stream.text)
      BY <1>0, <1>7 DEF Chunk, stream, Typed
    <3> QED  BY <3>1, ExchangesAssumption
  <2>3. end \in 0 .. Len(text) /\ pos <= end
    BY <1>0, <1>7, <2>2
  <2>4. S(pos, seen)
    BY <1>1, <2>1
  <2>5. S(end, ObserveCallback(seen, SubSeq(text, pos + 1, end)))
    BY <1>0, <2>3, <2>4, CallbackStands DEF S
  <2>6. seen' \in O[pos'] /\ S(pos', seen')
    BY <1>3, <2>1, <2>3, <2>5
  <2> QED  BY <1>2, <2>1, <2>6
<1>8. CASE UNCHANGED vars
  <2>1. stream' = stream /\ pos' = pos /\ seen' = seen /\ at' = at
    BY <1>8 DEF vars, stream
  <2> QED  BY <1>1, <1>2, <2>1
<1> QED  BY <1>4, <1>5, <1>6, <1>7, <1>8 DEF Next

\* Of a stream that has kept its separators, at every place.
Placing ==
    /\ Typed /\ Begun
    /\ \A events, ends : Frames(stream, events, ends) => Placed(Knowers(stream), events, ends)

\* Placing is inductive, and where the reader is placed it has read what has arrived.
LEMMA InitPlacing == Init /\ MaxResidual >= 4 => Placing
<1> SUFFICES ASSUME Init, MaxResidual >= 4 PROVE Placing
  OBVIOUS
<1>1. Typed /\ Begun
  BY InitTyped DEF Init, Begun
<1>2. seen = NewObserver /\ pos = 0 /\ at = "new"
  BY DEF Init
<1> DEFINE text == stream.text
           O == Knowers(stream)
           o == NewObserver
<1>3. text \in Texts /\ 0 \in 0 .. Len(text) /\ o \in Observers
  <2>1. o \in Observers
    BY <1>1, <1>2 DEF Typed, ObserversIn
  <2> QED  BY <1>1, <1>2, <2>1, ExchangeType DEF Typed
<1>4. o \in O[0]
  <2> DEFINE read == <<>>
             none == {}
  <2>1. DOMAIN read = {} /\ none \in SUBSET Oversize(text)
    OBVIOUS
  <2>2. DeclaredBy(stream, none)[0] = read
    <3> HIDE DEF none
    <3> QED  BY <1>3, DeclaredByIs
  <2>3. Verdict(o) = NoModel /\ o.conflict = FALSE /\ o.terminal = NoModel
    BY DEF NewObserver, Verdict
  <2>4. Wins(read) = NoModel
    BY DEF Wins
  <2>5. Disagree(read) = FALSE
    BY <2>1 DEF Disagree
  <2> HIDE DEF read
  <2>6. Told(o, read)
    BY <2>1, <2>3, <2>4, <2>5 DEF Told, Tells
  <2> HIDE DEF none
  <2>7. O[0] = {x \in Observers : \E lost \in SUBSET Oversize(text) : Told(x, DeclaredBy(stream, lost)[0])}
    BY <1>3 DEF Knowers
  <2> QED  BY <1>3, <2>1, <2>2, <2>6, <2>7
<1>5. Counting(stream, O)
  BY <1>3, KnowersCount
<1>6. o.residual = <<>>
  BY DEF NewObserver
<1>7. PICK s : s = stream
  OBVIOUS
<1> SUFFICES ASSUME NEW events, NEW ends, Frames(stream, events, ends)
             PROVE  Placed(O, events, ends)
  BY <1>1 DEF Placing
<1> HIDE DEF o, O
<1>8. Standing(s, O, events, ends, 0, o)
  <2>1. DoneMarked(stream.text)
    BY <1>1, StreamDoneMarked DEF Typed
  <2> QED  BY <1>4, <1>5, <1>6, <1>7, <2>1, BodyKnows
<1>9. Standing(stream, O, events, ends, pos, seen) /\ seen \in O[pos]
  BY <1>2, <1>4, <1>7, <1>8 DEF o
<1> QED  BY <1>9 DEF Placed

LEMMA StepPlacing == Placing /\ [Next]_vars /\ MaxResidual >= 4 => Placing'
<1> SUFFICES ASSUME Placing, [Next]_vars, MaxResidual >= 4 PROVE Placing'
  OBVIOUS
<1>0. Typed /\ Begun
  BY DEF Placing
<1>1. Typed' /\ Begun'
  BY <1>0, StepTyped, StepBegun
<1>2. PICK s : s = stream
  OBVIOUS
<1>3. s.text \in Texts
  BY <1>0, <1>2, ExchangeType DEF Typed
<1> DEFINE O == Knowers(s)
<1>4. Counting(s, O)
  BY <1>3, KnowersCount
<1>5. stream' = s
  BY <1>2 DEF Next, Intercept, Headers, Chunk, WholeBody, Finalize, vars, stream
<1> HIDE DEF O
<1>6. ASSUME NEW events, NEW ends, Frames(s, events, ends) PROVE Placed(O, events, ends)'
  <2>1. Placed(O, events, ends)
    BY <1>2, <1>6 DEF Placing, O
  <2> QED  BY <1>0, <1>2, <1>4, <1>6, <2>1, StepStanding
<1>7. (\A events, ends : Frames(stream, events, ends) => Placed(Knowers(stream), events, ends))'
  BY <1>5, <1>6 DEF O
<1> QED  BY <1>1, <1>7 DEF Placing

LEMMA PlacingReads == Placing => (Separated(stream) => ReadsWhatArrived)
<1> SUFFICES ASSUME Placing, NEW events, NEW ends, Frames(stream, events, ends) PROVE ReadsWhatArrived
  BY DEF Separated
<1>1. stream.text \in Texts /\ pos \in 0 .. Len(stream.text)
  BY ExchangeType DEF Placing, Typed
<1>2. seen \in Knowers(stream)[pos]
  BY DEF Placing, Placed
<1>3. PICK lost \in SUBSET Oversize(stream.text) : Told(seen, DeclaredBy(stream, lost)[pos])
  BY <1>1, <1>2 DEF Knowers
<1> QED  BY <1>3 DEF ReadsWhatArrived, Told, Tells

\* However the host cuts a stream that has kept its separators, its frames opened by an event
\* line or not and ended by the [DONE] mark or not, the observer has read exactly the events
\* that have arrived whole, each once, in order and with the type its event line gives it, but
\* for a frame larger than the residual, which costs only itself (observeCallback,
\* observeStream, observeTail, flushStream).
THEOREM ArrivalsCorrect == MaxResidual >= 4 => (Spec => [](Separated(stream) => ReadsWhatArrived))
<1> SUFFICES ASSUME MaxResidual >= 4 PROVE Spec => [](Separated(stream) => ReadsWhatArrived)
  OBVIOUS
<1>1. Init => Placing
  BY InitPlacing
<1>2. Placing /\ [Next]_vars => Placing'
  BY StepPlacing
<1>3. Placing => (Separated(stream) => ReadsWhatArrived)
  BY PlacingReads
<1> QED  BY <1>1, <1>2, <1>3, PTL DEF Spec

-----------------------------------------------------------------------------
(* One event without its separator: its lines, handed over by themselves.     *)

\* Text with no line end at either end is trimmed already.
LEMMA TrimmedSame ==
  ASSUME NEW x \in Texts, x # <<>>, x[1] # NL, x[Len(x)] # NL
  PROVE  Trimmed(x) = x
<1> DEFINE n == Len(x)
           kept == {i \in DOMAIN x : x[i] # NL}
<1>1. n \in Nat /\ n >= 1 /\ DOMAIN x = 1 .. n
  BY DEF Texts
<1>2. kept \subseteq 1 .. n /\ 1 \in kept /\ n \in kept /\ kept \subseteq Nat
  BY <1>1
<1>3. Trimmed(x) = SubSeq(x, Min(kept), Max(kept))
  BY <1>2 DEF Trimmed
<1> HIDE DEF kept, n
<1>4. Min(kept) = 1
  <2>1. Min(kept) \in kept /\ \A k \in kept : Min(kept) <= k
    BY <1>2, MinIs
  <2> DEFINE m == Min(kept)
  <2>2. m \in kept /\ m <= 1
    BY <1>2, <2>1
  <2> HIDE DEF m
  <2>3. m \in Nat /\ m >= 1
    BY <1>1, <1>2, <2>2
  <2>4. m = 1
    BY <2>2, <2>3
  <2> QED  BY <2>4 DEF m
<1>5. Max(kept) = n
  <2>1. Max(kept) \in kept /\ \A k \in kept : k <= Max(kept)
    BY <1>1, <1>2, MaxIs
  <2> DEFINE m == Max(kept)
  <2>2. m \in kept /\ n <= m
    BY <1>2, <2>1
  <2> HIDE DEF m
  <2>3. m \in Nat /\ m <= n
    BY <1>1, <1>2, <2>2
  <2>4. m = n
    BY <1>1, <2>2, <2>3
  <2> QED  BY <2>4 DEF m
<1>6. SubSeq(x, 1, Len(x)) = x
  BY SubSeqFull DEF Texts
<1> QED  BY <1>3, <1>4, <1>5, <1>6 DEF n

\* Text without a separator is all tail.
LEMMA NoSeparator ==
  ASSUME NEW x \in Texts, \A j \in 1 .. Len(x) - 1 : ~Apart(x, j), NEW o \in Holding(<<>>)
  PROVE  ObserveStream(o, x) = ObserveTail(o, x)
<1> DEFINE n == Len(x)
           f0 == [o |-> o, rest |-> x]
<1>1. n \in Nat /\ 0 \in 0 .. n /\ n \in 0 .. n
  BY DEF Texts
<1>2. o \in Observers /\ o.residual = <<>>
  BY DEF Holding
<1>3. SubSeq(x, 0 + 1, n) = x
  <2>1. SubSeq(x, 1, Len(x)) = x
    BY SubSeqFull DEF Texts
  <2> QED  BY <2>1
<1>4. ObserveNext(f0) = f0
  <2> DEFINE f == [o |-> o, rest |-> SubSeq(x, 0 + 1, n)]
  <2>1. \/ ObserveNext(f) = f /\ \A j \in 0 + 1 .. n - 1 : ~Apart(x, j)
        \/ \E d \in 0 + 1 .. n - 1 :
              /\ Apart(x, d) /\ \A j \in 0 + 1 .. d - 1 : ~Apart(x, j)
              /\ ObserveNext(f) = [o    |-> ObserveFrame(o, SubSeq(x, 0 + 1, d - 1)),
                                   rest |-> SubSeq(x, (d + 1) + 1, n)]
    BY <1>1, NextSeparator
  <2>2. f = f0
    BY <1>3
  <2> HIDE DEF f, f0, n
  <2>3. ~ \E d \in 0 + 1 .. n - 1 : Apart(x, d)
    BY DEF n
  <2> QED  BY <2>1, <2>2, <2>3
<1>5. PICK f \in [0 .. n -> Readings(<<>>)] :
            /\ f[0] = f0 /\ ObserveFrames(o, x) = f[n]
            /\ \A i \in 1 .. n : f[i] = ObserveNext(f[i - 1])
  BY ObserveFramesLoop
<1> HIDE DEF f0, n
<1> DEFINE T == {i \in 0 .. n : f[i] = f0}
<1>6. 0 \in T
  BY <1>1, <1>5
<1>7. ASSUME NEW i \in 0 .. n - 1, i \in T PROVE i + 1 \in T
  <2>1. i + 1 \in 1 .. n /\ i + 1 \in 0 .. n /\ (i + 1) - 1 = i
    BY <1>1
  <2> QED  BY <1>4, <1>5, <1>7, <2>1
<1> HIDE DEF T
<1>8. n \in T
  <2>1. 0 .. n \subseteq T
    BY <1>1, <1>6, <1>7, UpTo
  <2> QED  BY <1>1, <2>1
<1>9. ObserveFrames(o, x) = f0
  BY <1>5, <1>8 DEF T
<1>10. [o EXCEPT !.residual = <<>>] = o /\ o.residual \o x = x
  <2>1. [o EXCEPT !.residual = <<>>] = o
    BY <1>2 DEF Observers
  <2>2. <<>> \o x = x
    BY ConcatEmptySeq DEF Texts
  <2> QED  BY <1>2, <2>1, <2>2
<1>11. f0.o = o /\ f0.rest = x
  BY DEF f0
<1> QED  BY <1>9, <1>10, <1>11 DEF ObserveStream, AfterFrames

\* A data line with the event line above it, where the stream has them.
Line(s, e) == Opening(s, e) \o Payload(e)

\* What the scanners make of it.
LineRead(s, e, x) ==
    /\ x \in Texts /\ x # <<>> /\ x[1] = (IF s.lines THEN Token("event", e) ELSE Marker)
    /\ x[Len(x)] = Token("close", e)
    /\ \A j \in 1 .. Len(x) - 1 : x[j].k # "close" /\ ~Apart(x, j)
    /\ \A o \in Observers : ReadsWhole(s, e, o, x)

\* It is a frame but for its separator.
LEMMA LineIs ==
  ASSUME NEW s, NEW e \in Events
  PROVE  LineRead(s, e, Line(s, e))
<1> DEFINE F == Frame(s, e)
           x == Line(s, e)
           z == [text |-> F, lines |-> s.lines]
           events == <<e>>
           ends == [i \in 0 .. 1 |-> IF i = 0 THEN 0 ELSE Len(F)]
           c == Len(F) - 2
<1>0. Token("event", e) \in Tokens /\ NL \in Tokens /\ Marker \in Tokens
  BY DEF Tokens, Token
<1>1. Opening(s, e) \in Texts /\ Opening(s, e) # <<>>
  BY <1>0 DEF Opening, Texts
<1>2. Payload(e) \in Texts /\ Payload(e) # <<>>
  BY PayloadValid
<1>3. x \in Texts /\ Len(x) \in Nat /\ Len(x) >= 1 /\ x # <<>>
  <2> DEFINE H == Opening(s, e)
             P == Payload(e)
  <2>1. H \in Seq(Tokens) /\ P \in Seq(Tokens) /\ H # <<>>
    BY <1>1, <1>2 DEF Texts
  <2> HIDE DEF H, P
  <2>2. H \o P \in Seq(Tokens) /\ Len(H \o P) = Len(H) + Len(P) /\ Len(H) \in Nat /\ Len(P) \in Nat /\ Len(H) >= 1
    BY <2>1, ConcatProperties
  <2> DEFINE y == H \o P
  <2>3. x = y
    BY DEF Line, H, P
  <2> HIDE DEF y, x
  <2> QED  BY <2>2, <2>3 DEF y, Texts
<1>4. F = x \o <<NL, NL>>
  BY DEF Frame, Line
<1> HIDE DEF x, F
<1>5. F \in Texts /\ Len(F) = Len(x) + 2 /\ \A j \in 1 .. Len(x) : F[j] = x[j]
  <2> DEFINE y == <<NL, NL>>
  <2>1. y \in Seq(Tokens) /\ Len(y) = 2
    BY <1>0
  <2> HIDE DEF y
  <2>2. /\ x \o y \in Seq(Tokens) /\ Len(x \o y) = Len(x) + Len(y)
        /\ \A i \in 1 .. Len(x) + Len(y) : (x \o y)[i] = IF i <= Len(x) THEN x[i] ELSE y[i - Len(x)]
    BY <1>3, <2>1, ConcatProperties DEF Texts
  <2>3. F = x \o y
    BY <1>4 DEF y
  <2> QED  BY <1>3, <2>1, <2>2, <2>3 DEF Texts
<1>6. SubSeq(F, 1, Len(x)) = x
  <2>1. 0 \in 0 .. Len(F) /\ Len(x) \in 0 .. Len(F) /\ 0 <= Len(x) /\ Len(x) - 0 = Len(x)
    BY <1>3, <1>5
  <2> DEFINE y == SubSeq(F, 0 + 1, Len(x))
  <2>2. y \in Texts /\ Len(y) = Len(x) - 0 /\ \A i \in 1 .. Len(x) - 0 : y[i] = F[0 + i]
    BY <1>5, <2>1, Segment
  <2> HIDE DEF y
  <2>3. \A i \in 1 .. Len(x) : y[i] = x[i]
    <3> SUFFICES ASSUME NEW i \in 1 .. Len(x) PROVE y[i] = x[i]
      OBVIOUS
    <3>1. 0 + i = i
      BY <1>3
    <3> QED  BY <1>5, <2>1, <2>2, <3>1
  <2>4. y = x
    BY <1>3, <2>1, <2>2, <2>3 DEF Texts
  <2>5. 0 + 1 = 1
    OBVIOUS
  <2> QED  BY <2>4, <2>5 DEF y
<1>7. c = Len(x) /\ c \in Nat /\ z.text = F /\ z.lines = s.lines
  BY <1>3, <1>5
<1>8. Frame(z, e) = F /\ TypeGiven(z, e) = TypeGiven(s, e)
  BY <1>7 DEF Frame, Opening, TypeGiven, F
<1>9. FrameIn(z, e, 0, c)
  <2>1. events \in Seq(Events) /\ Len(events) = 1 /\ events[1] = e
    OBVIOUS
  <2> HIDE DEF events
  <2> DEFINE n == Len(F)
  <2>2. ends \in [0 .. 1 -> 0 .. n] /\ ends[0] = 0 /\ ends[1] = n /\ n \in Nat
    BY <1>3, <1>5
  <2>3. SubSeq(F, 0 + 1, n) = F /\ SubSeq(F, n + 1, n) = <<>>
    <3>1. SubSeq(F, 1, Len(F)) = F
      BY <1>5, SubSeqFull DEF Texts
    <3>2. SubSeq(F, n + 1, n) = <<>>
      BY <1>5, <2>2 DEF Texts
    <3> QED  BY <3>1, <3>2
  <2> HIDE DEF ends, z, n
  <2>4. Frames(z, events, ends)
    <3>1. \A i \in 1 .. Len(events) :
             /\ ends[i] = ends[i - 1] + Len(Frame(z, events[i]))
             /\ SubSeq(z.text, ends[i - 1] + 1, ends[i]) = Frame(z, events[i])
      <4> SUFFICES ASSUME NEW i \in 1 .. Len(events)
                   PROVE  /\ ends[i] = ends[i - 1] + Len(Frame(z, events[i]))
                          /\ SubSeq(z.text, ends[i - 1] + 1, ends[i]) = Frame(z, events[i])
        OBVIOUS
      <4>1. i = 1 /\ i - 1 = 0
        BY <2>1
      <4>2. events[i] = e /\ ends[i] = n /\ ends[i - 1] = 0 /\ Frame(z, events[i]) = F /\ z.text = F
        BY <1>7, <1>8, <2>1, <2>2, <4>1
      <4>3. n = 0 + Len(F)
        BY <2>2 DEF n
      <4> QED  BY <2>3, <4>2, <4>3
    <3>2. SubSeq(z.text, ends[Len(events)] + 1, Len(z.text)) = <<>>
      BY <1>7, <2>1, <2>2, <2>3 DEF n
    <3>3. events \in Seq(Events) /\ ends \in [0 .. Len(events) -> 0 .. Len(z.text)] /\ ends[0] = 0
      BY <1>7, <2>1, <2>2 DEF n
    <3> QED  BY <3>1, <3>2, <3>3 DEF Frames
  <2>5. 1 \in 1 .. Len(events) /\ z.text \in Texts
    BY <1>5, <1>7, <2>1
  <2>6. FrameIn(z, events[1], ends[1 - 1], ends[1] - 2)
    BY <2>4, <2>5, FrameThere
  <2>7. events[1] = e /\ ends[1 - 1] = 0 /\ ends[1] - 2 = c
    BY <2>1, <2>2 DEF n
  <2> QED  BY <2>6, <2>7
<1>10. z.text \in Texts
  BY <1>5, <1>7
<1>18. PICK b : b = 0
  OBVIOUS
<1> DEFINE a == b + Ahead(z) + 1
<1>11. /\ c \in Nat /\ a \in Nat /\ a < c /\ b < a /\ Ahead(z) \in {1, 3}
       /\ z.text[c] = Token("close", e) /\ z.text[a] = Token("open", e)
       /\ \A j \in a + 1 .. c - 1 : z.text[j] = Token("piece", e)
       /\ z.text[b + 1] = (IF z.lines THEN Token("event", e) ELSE Marker)
       /\ \A j \in b + 1 .. a - 1 : z.text[j] \in {Token("event", e), NL, Marker}
       /\ \A j \in b + 1 .. c : ~(z.text[j] = NL /\ z.text[j + 1] = NL)
  <2> HIDE DEF z, c, events, ends
  <2>1. FrameIn(z, e, b, c)
    BY <1>9, <1>18
  <2> QED  BY <1>10, <2>1, FrameKinds
<1>12. \A o \in Observers : ReadsWhole(s, e, o, x)
  <2> SUFFICES ASSUME NEW o \in Observers PROVE ReadsWhole(s, e, o, x)
    OBVIOUS
  <2>1. ReadsFrame(z, e, 0, c)
    <3>1. 0 >= 1 => z.text[0] = NL
      OBVIOUS
    <3> HIDE DEF z, c
    <3> QED  BY <1>9, <1>10, <3>1, FrameReads
  <2>2. c \in {c, c + 1} /\ 0 \in Nat
    OBVIOUS
  <2> HIDE DEF z, c
  <2>4. ReadsWhole(z, e, o, SubSeq(z.text, 0 + 1, c))
    BY <2>1, <2>2 DEF ReadsFrame
  <2>3. SubSeq(z.text, 0 + 1, c) = x
    <3>1. 0 + 1 = 1
      OBVIOUS
    <3> QED  BY <1>6, <1>7, <3>1
  <2> QED  BY <1>8, <2>3, <2>4 DEF ReadsWhole
<1> HIDE DEF a, c
<1>13. \A j \in 1 .. Len(x) : x[j] = z.text[j]
  BY <1>5, <1>7
<1> HIDE DEF z
<1>14. /\ Token("event", e).k # "close" /\ Token("open", e).k # "close" /\ Token("piece", e).k # "close"
       /\ NL.k # "close" /\ Marker.k # "close"
  BY DEF Token, NL, Marker
<1>15. ASSUME NEW j \in 1 .. Len(x) - 1 PROVE x[j].k # "close" /\ ~Apart(x, j)
  <2>1. j \in Nat /\ j \in 1 .. Len(x) /\ j + 1 \in 1 .. Len(x) /\ j < c /\ j \in b + 1 .. c
    BY <1>3, <1>7, <1>18
  <2>2. x[j] = z.text[j] /\ x[j + 1] = z.text[j + 1]
    BY <1>13, <2>1
  <2>3. j \in b + 1 .. a - 1 \/ j = a \/ j \in a + 1 .. c - 1
    BY <1>11, <2>1
  <2>4. z.text[j] \in {Token("event", e), NL, Marker} \/ z.text[j] = Token("open", e) \/ z.text[j] = Token("piece", e)
    BY <1>11, <2>3
  <2>5. x[j].k # "close"
    BY <1>14, <2>2, <2>4
  <2>6. ~(z.text[j] = NL /\ z.text[j + 1] = NL)
    BY <1>11, <2>1
  <2> QED  BY <2>2, <2>5, <2>6 DEF Apart
<1>16. x[1] = (IF s.lines THEN Token("event", e) ELSE Marker) /\ x[Len(x)] = Token("close", e)
  <2>1. 1 \in 1 .. Len(x) /\ Len(x) \in 1 .. Len(x) /\ b + 1 = 1
    BY <1>3, <1>18
  <2> QED  BY <1>7, <1>11, <1>13, <2>1
<1>17. LineRead(s, e, x)
  BY <1>3, <1>12, <1>15, <1>16 DEF LineRead
<1> QED  BY <1>17 DEF x

\* Such a line is read whole by the scanner of chunks, and nothing is kept of it.
LEMMA LineStream ==
  ASSUME NEW s, NEW e \in Events, NEW x, LineRead(s, e, x), NEW o \in Holding(<<>>)
  PROVE  LET g == ObserveDeclared(o, Declares(e), TypeGiven(s, e))
         IN ObserveStream(o, x) = g /\ g \in Holding(<<>>)
<1> DEFINE g == ObserveDeclared(o, Declares(e), TypeGiven(s, e))
           left == SubSeq(x, Len(x) + 1, Len(x))
<1>1. x \in Texts /\ x # <<>> /\ x[1] \in {Token("event", e), Marker} /\ o \in Observers
  BY DEF LineRead, Holding
<1>2. ObserveFrame(o, x) = g /\ TailEnd(o, x) = Len(x)
  BY <1>1 DEF LineRead, ReadsWhole
<1>3. g \in Holding(<<>>)
  BY <1>1, <1>2, ObserveFrameType
<1>4. Len(x) \in Nat /\ 1 \in 1 .. Len(x)
  BY <1>1 DEF Texts
<1>5. left = <<>> /\ <<>> \in Texts /\ Len(<<>>) = 0
  BY <1>1, <1>4 DEF Texts
<1>6. \A j \in 1 .. Len(x) - 1 : ~Apart(x, j)
  BY DEF LineRead
<1> HIDE DEF g, left
<1>7. ObserveStream(o, x) = ObserveTail(o, x)
  BY <1>1, <1>6, NoSeparator
<1>8. ~Blank(x)
  <2>1. Token("event", e) # NL /\ Marker # NL
    BY DEF Token, NL, Marker
  <2>2. x[1] # NL
    BY <1>1, <2>1
  <2> QED  BY <1>1, <1>4, <2>2, BlankIs
<1>9. Blank(left)
  <2>1. left \in Texts /\ \A j \in 1 .. Len(left) : left[j] = NL
    BY <1>5
  <2> QED  BY <2>1, BlankIs
<1>10. ObserveTail(o, x) = Buffered(g, left)
  BY <1>2, <1>8 DEF ObserveTail, left
<1> QED  BY <1>3, <1>7, <1>9, <1>10 DEF Buffered, g

\* One event as a host hands it over that has stripped the separator: its event line and its
\* data line, or in a stream without event lines its data line or the payload by itself.
Stripped(s, e) == {Line(s, e)} \cup (IF s.lines THEN {} ELSE {Payload(e)})

\* What is left of a stream when every event has been handed over.
Ending == <<Marker, DoneMark>>

\* What the callback makes of it, and the reader of a whole response.
PieceRead(s, e, x) ==
    /\ x \in Texts /\ x # <<>> /\ x[Len(x)] = Token("close", e)
    /\ \A j \in 1 .. Len(x) - 1 : x[j].k # "close"
    /\ \A o \in Holding(<<>>) :
          LET g == ObserveDeclared(o, Declares(e), TypeGiven(s, e))
          IN /\ g \in Holding(<<>>) /\ ObserveCallback(o, x) = g
             /\ x[1].k # "open" => ObserveBody(o, x) = g

\* With an empty residual there is nothing to empty.
LEMMA EmptyHeld ==
  ASSUME NEW o \in Holding(<<>>)
  PROVE  [o EXCEPT !.residual = <<>>] = o /\ Blank(o.residual) /\ o \in Observers
<1>1. o \in Observers /\ o.residual = <<>>
  BY DEF Holding
<1>2. [o EXCEPT !.residual = <<>>] = o
  BY <1>1 DEF Observers
<1>3. <<>> \in Texts /\ \A j \in 1 .. Len(<<>>) : <<>>[j] = NL
  BY DEF Texts
<1>4. Blank(<<>>)
  BY <1>3, BlankIs
<1> QED  BY <1>1, <1>2, <1>4

\* An empty residual is flushed without effect.
LEMMA EmptyFlushed ==
  ASSUME NEW u \in Holding(<<>>)
  PROVE  Flush(u) = u
<1> DEFINE y == <<>>
<1>1. u \in Observers /\ u.residual = <<>> /\ [u EXCEPT !.residual = <<>>] = u
  BY EmptyHeld DEF Holding
<1>2. y \in Texts /\ 0 \in 0 .. Len(y) /\ (\A j \in 0 + 1 .. 0 : y[j].k # "close") /\ SubSeq(y, 0 + 1, 0) = <<>>
  BY DEF Texts
<1>3. ObserveFrame(u, SubSeq(y, 0 + 1, 0)) = u
  <2> HIDE DEF y
  <2> QED  BY <1>1, <1>2, QuietRead
<1>4. ObserveFrame(u, u.residual) = u
  BY <1>1, <1>2, <1>3
<1> QED  BY <1>1, <1>4 DEF Flush

\* Handed over like that, an event is read with its type, whole and once.
LEMMA PieceIs ==
  ASSUME NEW s, NEW e \in Events, NEW x \in Stripped(s, e)
  PROVE  PieceRead(s, e, x)
<1> DEFINE P == Payload(e)
           y == Line(s, e)
           g(o) == ObserveDeclared(o, Declares(e), TypeGiven(s, e))
<1>1. LineRead(s, e, y)
  BY LineIs
<1>2. /\ P \in Texts /\ Unspaced(P) = P /\ P # <<>> /\ P # <<DoneMark>> /\ P[1].e = e /\ ValidPayload(P)
      /\ Len(P) = Pieces(e) + 2 /\ Pieces(e) \in Nat
      /\ P[1] = Token("open", e) /\ P[Pieces(e) + 2] = Token("close", e)
      /\ \A j \in 2 .. Pieces(e) + 1 : P[j] = Token("piece", e)
  BY PayloadValid, PayloadTokens
<1>3. /\ Token("open", e) # NL /\ Token("close", e) # NL /\ Token("event", e) # NL /\ Marker # NL
      /\ Token("open", e) # Marker /\ Token("event", e) # Marker /\ Token("event", e) # DoneMark
      /\ Token("open", e).k = "open" /\ Token("piece", e).k = "piece" /\ Token("close", e).k = "close"
      /\ Token("event", e).k = "event" /\ Marker.k = "data" /\ Marker # DoneMark
  BY DEF Token, NL, Marker, DoneMark
<1> HIDE DEF P, y, g
<1>4. Trimmed(P) = P
  BY <1>2, <1>3, TrimmedSame
<1>5. Trimmed(y) = y
  <2>1. y \in Texts /\ y # <<>> /\ y[1] # NL /\ y[Len(y)] # NL
    BY <1>1, <1>3 DEF LineRead
  <2> QED  BY <2>1, TrimmedSame
<1>6. Unmarked(P) = P
  BY <1>2, <1>3 DEF Unmarked
<1>7. ASSUME NEW o \in Holding(<<>>) PROVE g(o) \in Holding(<<>>) /\ ObserveStream(o, y) = g(o)
  BY <1>1, LineStream DEF g
\* By itself, or as a data line without an event line, the payload is found by its brackets.
<1>8. ASSUME ~s.lines, NEW o \in Holding(<<>>), NEW c, Unmarked(Trimmed(c)) = P
      PROVE  ObserveCallback(o, c) = g(o)
  <2>1. TypeGiven(s, e) = "chunk"
    BY <1>8 DEF TypeGiven, OrChunk
  <2>2. [o EXCEPT !.residual = <<>>] = o /\ Blank(o.residual)
    BY EmptyHeld
  <2>3. ObservePayload(o, P, "chunk") = g(o)
    BY <1>2, <2>1 DEF ObservePayload, g
  <2>4. CallbackWith(o, c, P) = ObservePayload(o, P, "chunk")
    BY <1>2, <2>2 DEF CallbackWith
  <2> QED  BY <1>8, <2>3, <2>4 DEF ObserveCallback
<1>9. ASSUME ~s.lines PROVE Unmarked(y) = P
  <2>1. Tail(y) = P /\ y # <<>> /\ y[1] = Marker
    <3>1. y = <<Marker>> \o P
      BY <1>9 DEF Line, Opening, y, P
    <3>2. y # <<>> /\ y[1] = Marker
      BY <1>1, <1>9 DEF LineRead
    <3> QED  BY <1>2, <3>1, <3>2 DEF Texts
  <2> QED  BY <1>4, <2>1 DEF Unmarked
\* Below an event line it is read as a frame.
<1>10. ASSUME s.lines, NEW o \in Holding(<<>>) PROVE ObserveCallback(o, y) = g(o)
  <2>1. y \in Texts /\ y # <<>> /\ y[1] = Token("event", e)
    BY <1>1, <1>10 DEF LineRead
  <2>2. Unmarked(y) = y
    BY <1>3, <2>1 DEF Unmarked
  <2>3. y # <<DoneMark>>
    BY <1>3, <2>1
  <2>4. ~ValidPayload(y)
    <3> SUFFICES ASSUME ValidPayload(y) PROVE FALSE
      OBVIOUS
    <3>1. y[1].k = "open"
      BY <1>3, <2>1, ValidTokens
    <3> QED  BY <1>3, <2>1, <3>1
  <2>5. CallbackWith(o, y, y) = ObserveStream(o, y)
    BY <2>3, <2>4 DEF CallbackWith
  <2> QED  BY <1>5, <1>7, <2>2, <2>5 DEF ObserveCallback
<1>11. ASSUME NEW o \in Holding(<<>>) PROVE ObserveBody(o, y) = g(o)
  <2>1. y \in Texts /\ y # <<>> /\ y[1] # NL /\ y[1].k \notin {"open", "done"} /\ Len(y) \in Nat /\ 1 \in 1 .. Len(y)
    <3>1. y \in Texts /\ y # <<>> /\ y[1] # NL /\ y[1].k \notin {"open", "done"}
      BY <1>1, <1>3 DEF LineRead
    <3> QED  BY <3>1 DEF Texts
  <2>2. ~Blank(y)
    BY <2>1, BlankIs
  <2>3. Unspaced(y)[1] = y[1]
    <3>1. PICK p \in 1 .. Len(y) : Unspaced(y)[1] = y[p] /\ \A i \in 1 .. p - 1 : y[i] = NL
      BY <2>1, <2>2, FirstUnspaced DEF Blank
    <3>2. p = 1
      <4>1. ~(1 \in 1 .. p - 1)
        BY <2>1, <3>1
      <4> QED  BY <2>1, <3>1, <4>1
    <3> QED  BY <3>1, <3>2
  <2>4. ObserveBody(o, y) = Flush(g(o))
    BY <1>7, <2>1, <2>2, <2>3 DEF ObserveBody, Bracketed
  <2>5. Flush(g(o)) = g(o)
    BY <1>7, EmptyFlushed
  <2> QED  BY <2>4, <2>5
<1>12. CASE x = y
  <2>1. x \in Texts /\ x # <<>> /\ x[Len(x)] = Token("close", e) /\ \A j \in 1 .. Len(x) - 1 : x[j].k # "close"
    BY <1>1, <1>12 DEF LineRead
  <2>2. ASSUME NEW o \in Holding(<<>>) PROVE ObserveCallback(o, x) = g(o)
    <3>1. CASE s.lines
      BY <1>10, <1>12, <3>1
    <3>2. CASE ~s.lines
      BY <1>5, <1>8, <1>9, <1>12, <3>2
    <3> QED  BY <3>1, <3>2
  <2> QED  BY <1>7, <1>11, <1>12, <2>1, <2>2 DEF PieceRead, g
<1>13. CASE ~s.lines /\ x = P
  <2>1. \A j \in 1 .. Len(P) - 1 : P[j].k # "close"
    <3> SUFFICES ASSUME NEW j \in 1 .. Len(P) - 1 PROVE P[j].k # "close"
      OBVIOUS
    <3>1. j = 1 \/ j \in 2 .. Pieces(e) + 1
      BY <1>2
    <3> QED  BY <1>2, <1>3, <3>1
  <2>2. x[1].k = "open"
    BY <1>2, <1>3, <1>13
  <2> QED  BY <1>2, <1>4, <1>6, <1>7, <1>8, <1>13, <2>1, <2>2 DEF PieceRead, g
<1> QED  BY <1>12, <1>13 DEF Stripped, y, P

\* The [DONE] mark is read for nothing, as a chunk or as all there is.
LEMMA EndingRead ==
  ASSUME NEW o \in Holding(<<>>)
  PROVE  ObserveCallback(o, Ending) = o /\ ObserveBody(o, Ending) = o
<1> DEFINE x == Ending
           d == <<DoneMark>>
<1>1. /\ NL # DoneMark /\ NL # Marker /\ Marker # DoneMark
      /\ NL.k = "nl" /\ Marker.k = "data" /\ DoneMark.k = "done"
  BY DEF NL, Marker, DoneMark, Token
<1>2. x \in Texts /\ d \in Texts /\ Len(x) = 2 /\ Len(d) = 1 /\ x[1] = Marker /\ x[2] = DoneMark /\ d[1] = DoneMark
      /\ Tail(x) = d /\ x # <<>> /\ d # <<>>
  <2>1. Marker \in Tokens /\ DoneMark \in Tokens
    BY DEF Tokens
  <2> QED  BY <2>1 DEF Texts, Ending
<1>3. [o EXCEPT !.residual = <<>>] = o /\ Blank(o.residual) /\ o \in Observers
  BY EmptyHeld
<1> HIDE DEF x, d
<1>4. Trimmed(x) = x /\ Trimmed(d) = d
  BY <1>1, <1>2, TrimmedSame
<1>5. Unmarked(x) = d
  BY <1>2, <1>4 DEF Unmarked
<1>6. ObserveCallback(o, x) = o
  BY <1>3, <1>4, <1>5 DEF ObserveCallback, CallbackWith, d
<1>7. Unspaced(x) = x
  <2>1. \A i \in 1 .. Len(x) : x[i] # NL
    BY <1>1, <1>2
  <2> QED  BY <1>2, <2>1, UnspacedSame
<1>8. ObserveBody(o, x) = Flush(ObserveStream(o, x))
  <2>1. ~Blank(x) /\ ~Bracketed(x)
    BY <1>1, <1>2, <1>7 DEF Blank, Bracketed
  <2> QED  BY <2>1 DEF ObserveBody
<1>9. ObserveStream(o, x) = ObserveTail(o, x)
  <2>1. \A j \in 1 .. Len(x) - 1 : ~Apart(x, j)
    BY <1>1, <1>2 DEF Apart
  <2> QED  BY <1>2, <2>1, NoSeparator
\* From any place on it is text without a payload.
<1>10. ASSUME NEW k \in 0 .. 2, NEW u \in Observers
       PROVE  ObserveFrame(u, SubSeq(x, k + 1, 2)) = u /\ TailEnd(u, SubSeq(x, k + 1, 2)) \in 0 .. 2 - k
  <2>1. k \in 0 .. Len(x) /\ 2 \in 0 .. Len(x) /\ k <= 2 /\ \A j \in k + 1 .. 2 : x[j].k # "close"
    <3>1. \A j \in k + 1 .. 2 : j = 1 \/ j = 2
      OBVIOUS
    <3> QED  BY <1>1, <1>2, <3>1
  <2> QED  BY <1>2, <2>1, QuietRead
<1>11. SubSeq(x, 0 + 1, 2) = x
  <2>1. SubSeq(x, 1, Len(x)) = x
    BY <1>2, SubSeqFull DEF Texts
  <2> QED  BY <1>2, <2>1
<1> DEFINE k == TailEnd(o, x)
           r == SubSeq(x, k + 1, Len(x))
<1>12. ObserveFrame(o, x) = o /\ k \in 0 .. 2
  <2>1. 0 \in 0 .. 2 /\ 2 - 0 = 2
    OBVIOUS
  <2>2. ObserveFrame(o, SubSeq(x, 0 + 1, 2)) = o /\ TailEnd(o, SubSeq(x, 0 + 1, 2)) \in 0 .. 2 - 0
    BY <1>3, <1>10, <2>1
  <2> QED  BY <1>11, <2>1, <2>2
<1>13. ObserveTail(o, x) = Buffered(o, r)
  <2>1. ~Blank(x)
    BY <1>2, <1>7 DEF Blank
  <2> QED  BY <1>12, <2>1 DEF ObserveTail
<1> HIDE DEF k
<1>15. Flush(o) = o
  BY EmptyFlushed
<1> DEFINE h == [o EXCEPT !.residual = r]
<1>16. r \in Texts /\ r = SubSeq(x, k + 1, 2)
  <2>1. k \in 0 .. Len(x) /\ Len(x) \in 0 .. Len(x) /\ k <= Len(x)
    BY <1>2, <1>12
  <2> QED  BY <1>2, <2>1, Segment
<1> HIDE DEF r
<1>17. Flush(h) = o
  <2>1. h \in Observers /\ h.residual = r
    <3>1. h \in Holding(r)
      BY <1>3, <1>16, HeldType
    <3> QED  BY <3>1 DEF Holding
  <2>2. [h EXCEPT !.residual = <<>>] = [o EXCEPT !.residual = <<>>]
    BY <1>3 DEF Observers
  <2> HIDE DEF h
  <2>3. ObserveFrame(h, r) = h
    BY <1>10, <1>12, <1>16, <2>1
  <2> QED  BY <1>3, <2>1, <2>2, <2>3 DEF Flush
<1>18. Buffered(o, r) = o \/ Buffered(o, r) = h
  BY DEF Buffered
<1> HIDE DEF h
<1>19. ObserveBody(o, x) = o
  BY <1>8, <1>9, <1>13, <1>15, <1>17, <1>18
<1> QED  BY <1>6, <1>19 DEF x

-----------------------------------------------------------------------------
(* Streams that are handed over an event at a time.                           *)

\* The events end where ends says, one after the other, and the host cuts there and nowhere
\* else.
HandedAt(s, events, ends) ==
    /\ events \in Seq(Events) /\ ends \in [0 .. Len(events) -> 0 .. Len(s.text)] /\ ends[0] = 0
    /\ \A i \in 1 .. Len(events) :
          /\ SubSeq(s.text, ends[i - 1] + 1, ends[i]) \in Stripped(s, events[i])
          /\ s.next[ends[i - 1]] \subseteq {ends[i]}
    /\ SubSeq(s.text, ends[Len(events)] + 1, Len(s.text)) \in {<<>>, Ending}
    /\ s.next[ends[Len(events)]] \subseteq {Len(s.text)}

\* A payload by itself that is handed over as the whole response is no stream: observeBody
\* reads it as a document, in which a declaration without a type is the final one.
Document(s) == s.text # <<>> /\ s.text[1].k = "open" /\ Len(s.text) \in s.next[0]

HandedOver(s) == ~Document(s) /\ \E events, ends : HandedAt(s, events, ends)

\* Every event that has arrived has been read, an oversize one too.
ReadsAll ==
    LET declared == DeclaredBy(stream, {})[pos]
    IN Verdict(seen) = Wins(declared) /\ seen.conflict = Disagree(declared)

\* Where no payload ends nothing is declared.
LEMMA DeclaredTo ==
  ASSUME NEW s, s.text \in Texts, NEW a \in Nat, NEW b \in 0 .. Len(s.text), a <= b,
         \A j \in a + 1 .. b : s.text[j].k # "close"
  PROVE  DeclaredBy(s, {})[a] = DeclaredBy(s, {})[b]
<1> DEFINE D == DeclaredBy(s, {})
           n == b - a
           T == {k \in 0 .. n : D[a + k] = D[a]}
<1>1. n \in Nat /\ a + n = b /\ Len(s.text) \in Nat /\ b \in Nat /\ b <= Len(s.text)
  BY DEF Texts
<1>2. \A p \in 1 .. Len(s.text) : s.text[p].k # "close" => D[p] = D[p - 1]
  BY DeclaredByIs
<1> HIDE DEF n, D
<1>3. 0 \in T
  BY <1>1
<1>4. ASSUME NEW k \in 0 .. n - 1, k \in T PROVE k + 1 \in T
  <2> DEFINE p == a + (k + 1)
  <2>1. p \in 1 .. Len(s.text) /\ p \in a + 1 .. b /\ p - 1 = a + k /\ k + 1 \in 0 .. n
    BY <1>1
  <2> HIDE DEF p
  <2>2. D[p] = D[p - 1]
    BY <1>2, <2>1
  <2>3. D[a + (k + 1)] = D[a]
    BY <1>4, <2>1, <2>2 DEF p
  <2> QED  BY <2>1, <2>3
<1> HIDE DEF T
<1>5. n \in T
  <2>1. 0 .. n \subseteq T
    BY <1>1, <1>3, <1>4, UpTo
  <2> QED  BY <1>1, <2>1
<1>6. D[b] = D[a]
  BY <1>1, <1>5 DEF T
<1> QED  BY <1>6 DEF D

\* An event handed over adds what it declares.
LEMMA PieceTold ==
  ASSUME NEW s, s.text \in Texts, NEW b \in 0 .. Len(s.text), NEW d \in 0 .. Len(s.text), NEW e \in Events,
         SubSeq(s.text, b + 1, d) \in Stripped(s, e),
         NEW o \in Holding(<<>>), Told(o, DeclaredBy(s, {})[b])
  PROVE  Told(ObserveDeclared(o, Declares(e), TypeGiven(s, e)), DeclaredBy(s, {})[d])
<1> DEFINE text == s.text
           x == SubSeq(text, b + 1, d)
           D == DeclaredBy(s, {})
           g == ObserveDeclared(o, Declares(e), TypeGiven(s, e))
<1>0. text \in Texts /\ Len(text) \in Nat /\ b \in Nat /\ d \in Nat /\ b <= Len(text) /\ d <= Len(text)
  BY DEF Texts
<1>1. PieceRead(s, e, x)
  BY PieceIs
<1>2. b < d
  <2> SUFFICES ASSUME d <= b PROVE FALSE
    BY <1>0
  <2>1. x = <<>>
    BY <1>0 DEF Texts
  <2> QED  BY <1>1, <2>1 DEF PieceRead
<1>3. Len(x) = d - b /\ \A i \in 1 .. d - b : x[i] = text[b + i]
  BY <1>0, <1>2, Segment
<1> HIDE DEF x, text
<1>4. text[d] = Token("close", e)
  <2>1. d - b \in 1 .. d - b /\ b + (d - b) = d
    BY <1>0, <1>2
  <2> QED  BY <1>1, <1>3, <2>1 DEF PieceRead
<1>5. \A j \in b + 1 .. d - 1 : text[j].k # "close"
  <2> SUFFICES ASSUME NEW j \in b + 1 .. d - 1 PROVE text[j].k # "close"
    OBVIOUS
  <2>1. j - b \in 1 .. d - b /\ j - b \in 1 .. Len(x) - 1 /\ b + (j - b) = j
    BY <1>0, <1>2, <1>3
  <2>2. x[j - b].k # "close"
    BY <1>1, <2>1 DEF PieceRead
  <2> QED  BY <1>3, <2>1, <2>2
<1>6. D[d - 1] = D[b]
  <2> DEFINE q == d - 1
  <2>1. q \in 0 .. Len(text) /\ b <= q
    BY <1>0, <1>2
  <2> HIDE DEF q
  <2>2. \A j \in b + 1 .. q : text[j].k # "close"
    BY <1>5 DEF q
  <2>3. D[b] = D[q]
    BY <1>0, <2>1, <2>2, DeclaredTo DEF text
  <2> QED  BY <2>3 DEF q
<1>7. D[d] = D[d - 1] \o Declared(s, e) /\ D[b] \in Seq(Named)
  <2>1. /\ D \in [0 .. Len(text) -> Seq(Named)]
        /\ \A i \in 1 .. Len(text) :
              D[i] = IF text[i].k = "close" /\ i \notin {} THEN D[i - 1] \o Declared(s, text[i].e) ELSE D[i - 1]
    BY DeclaredByIs DEF text
  <2> HIDE DEF D
  <2>2. d \in 1 .. Len(text) /\ text[d].k = "close" /\ text[d].e = e /\ d \notin {}
    BY <1>0, <1>2, <1>4 DEF Token
  <2>3. D[d] = D[d - 1] \o Declared(s, e)
    BY <2>1, <2>2
  <2>4. D[b] \in Seq(Named)
    <3> DEFINE S == Seq(Named)
    <3>1. D \in [0 .. Len(text) -> S] /\ b \in 0 .. Len(text)
      BY <2>1 DEF text
    <3> HIDE DEF S
    <3>2. D[b] \in S
      BY <3>1
    <3> QED  BY <3>2 DEF S
  <2> QED  BY <2>3, <2>4
<1> HIDE DEF D
<1>8. Told(g, D[b] \o Declared(s, e))
  <2>1. o \in Observers /\ Told(o, D[b])
    BY DEF Holding, D
  <2> QED  BY <1>7, <2>1, EventListed
<1> HIDE DEF g
<1>9. Told(g, D[d])
  BY <1>6, <1>7, <1>8
<1> QED  BY <1>9 DEF g, D

\* The reader is between two events and holds nothing.
Between(s, events, ends, p, o) ==
    /\ p = Len(s.text) \/ \E i \in 0 .. Len(events) : p = ends[i]
    /\ o \in Holding(<<>>) /\ Told(o, DeclaredBy(s, {})[p])

\* A chunk leads from one such place to the next.
LEMMA ChunkBetween ==
  ASSUME NEW s, s.text \in Texts, NEW events, NEW ends, HandedAt(s, events, ends),
         NEW p \in 0 .. Len(s.text), NEW q \in 0 .. Len(s.text), p < q, q \in s.next[p],
         NEW o, Between(s, events, ends, p, o)
  PROVE  Between(s, events, ends, q, ObserveCallback(o, SubSeq(s.text, p + 1, q)))
<1> DEFINE text == s.text
           n == Len(events)
           N == Len(text)
<1>0. text \in Texts /\ N \in Nat /\ n \in Nat /\ p \in Nat /\ q \in Nat /\ q <= N
  BY DEF HandedAt, Texts
<1>1. /\ events \in Seq(Events) /\ ends \in [0 .. n -> 0 .. N] /\ ends[0] = 0
      /\ \A i \in 1 .. n : /\ SubSeq(text, ends[i - 1] + 1, ends[i]) \in Stripped(s, events[i])
                            /\ s.next[ends[i - 1]] \subseteq {ends[i]}
      /\ SubSeq(text, ends[n] + 1, N) \in {<<>>, Ending}
      /\ s.next[ends[n]] \subseteq {N}
  BY DEF HandedAt
<1>2. o \in Holding(<<>>) /\ Told(o, DeclaredBy(s, {})[p])
  BY DEF Between
<1>3. PICK i \in 0 .. n : p = ends[i]
  <2>1. p # N
    BY <1>0
  <2> QED  BY <2>1 DEF Between
<1> HIDE DEF n, N, text
<1>4. CASE i # n
  <2> DEFINE k == i + 1
             e == events[k]
             g == ObserveDeclared(o, Declares(e), TypeGiven(s, e))
  <2>1. k \in 1 .. n /\ k - 1 = i /\ k \in 0 .. n
    BY <1>0, <1>4
  <2>2. e \in Events
    <3> HIDE DEF k
    <3> QED  BY <1>1, <2>1 DEF n
  <2>3. q = ends[k] /\ SubSeq(text, p + 1, q) \in Stripped(s, e)
    <3> HIDE DEF k
    <3>1. s.next[ends[k - 1]] \subseteq {ends[k]} /\ SubSeq(text, ends[k - 1] + 1, ends[k]) \in Stripped(s, e)
      BY <1>1, <2>1
    <3>2. q = ends[k] /\ p = ends[k - 1]
      BY <1>3, <2>1, <3>1
    <3> QED  BY <3>1, <3>2
  <2> HIDE DEF k, e
  <2>4. PieceRead(s, e, SubSeq(text, p + 1, q))
    BY <2>2, <2>3, PieceIs
  <2>5. g \in Holding(<<>>) /\ ObserveCallback(o, SubSeq(text, p + 1, q)) = g
    BY <1>2, <2>4 DEF PieceRead
  <2>6. Told(g, DeclaredBy(s, {})[q])
    BY <1>2, <2>2, <2>3, PieceTold DEF text
  <2> HIDE DEF g
  <2>7. Between(s, events, ends, q, g)
    BY <2>1, <2>3, <2>5, <2>6 DEF Between, n
  <2> QED  BY <2>5, <2>7 DEF text
<1>5. CASE i = n
  <2>1. q = N
    BY <1>1, <1>3, <1>5
  <2>2. SubSeq(text, p + 1, q) \in {<<>>, Ending} /\ Len(SubSeq(text, p + 1, q)) = q - p
        /\ \A j \in 1 .. q - p : SubSeq(text, p + 1, q)[j] = text[p + j]
    <3>1. SubSeq(text, p + 1, q) \in {<<>>, Ending}
      BY <1>1, <1>3, <1>5, <2>1
    <3>2. p <= q
      BY <1>0
    <3> QED  BY <1>0, <3>1, <3>2, Segment DEF text
  <2> DEFINE x == SubSeq(text, p + 1, q)
  <2> HIDE DEF x
  <2>3. x = Ending /\ \A j \in 1 .. q - p : x[j] = text[p + j]
    <3>1. x # <<>>
      <4>1. Len(x) = q - p
        BY <2>2 DEF x
      <4> QED  BY <1>0, <4>1
    <3> QED  BY <2>2, <3>1 DEF x
  <2>4. ObserveCallback(o, x) = o
    BY <1>2, <2>3, EndingRead
  <2>5. \A j \in p + 1 .. q : text[j].k # "close"
    <3> SUFFICES ASSUME NEW j \in p + 1 .. q PROVE text[j].k # "close"
      OBVIOUS
    <3>1. j - p \in 1 .. q - p /\ p + (j - p) = j
      BY <1>0
    <3>2. x[j - p] = text[j] /\ q - p = 2
      <4>1. Len(x) = q - p /\ Len(Ending) = 2
        BY <2>2 DEF x, Ending
      <4> QED  BY <2>3, <3>1, <4>1
    <3>3. x[j - p] \in {Marker, DoneMark}
      <4>1. j - p = 1 \/ j - p = 2
        BY <3>1, <3>2
      <4> QED  BY <2>3, <4>1 DEF Ending
    <3>4. Marker.k = "data" /\ DoneMark.k = "done"
      BY DEF Marker, DoneMark, Token
    <3> QED  BY <3>2, <3>3, <3>4
  <2>6. DeclaredBy(s, {})[p] = DeclaredBy(s, {})[q]
    <3>1. p <= q
      BY <1>0
    <3> QED  BY <1>0, <2>5, <3>1, DeclaredTo DEF text
  <2>7. Between(s, events, ends, q, o)
    BY <1>2, <2>1, <2>6 DEF Between, N, text
  <2> QED  BY <2>4, <2>7 DEF x, text
<1> QED  BY <1>4, <1>5

\* The whole response at once is its one event, its [DONE] mark or nothing.
LEMMA BodyBetween ==
  ASSUME NEW s, s.text \in Texts, NEW events, NEW ends, HandedAt(s, events, ends), ~Document(s),
         s.text # <<>> => Len(s.text) \in s.next[0],
         NEW o, Between(s, events, ends, 0, o)
  PROVE  Between(s, events, ends, Len(s.text), ObserveBody(o, s.text))
<1> DEFINE text == s.text
           n == Len(events)
           N == Len(text)
<1>0. text \in Texts /\ N \in Nat /\ n \in Nat /\ 0 \in 0 .. N /\ N \in 0 .. N
  BY DEF HandedAt, Texts
<1>1. /\ events \in Seq(Events) /\ ends \in [0 .. n -> 0 .. N] /\ ends[0] = 0
      /\ \A i \in 1 .. n : /\ SubSeq(text, ends[i - 1] + 1, ends[i]) \in Stripped(s, events[i])
                            /\ s.next[ends[i - 1]] \subseteq {ends[i]}
      /\ SubSeq(text, ends[n] + 1, N) \in {<<>>, Ending}
      /\ s.next[ends[n]] \subseteq {N}
  BY DEF HandedAt
<1>2. o \in Holding(<<>>) /\ Told(o, DeclaredBy(s, {})[0])
  BY DEF Between
<1>3. SubSeq(text, 0 + 1, N) = text
  <2>1. SubSeq(text, 1, Len(text)) = text
    BY <1>0, SubSeqFull DEF Texts
  <2> QED  BY <2>1
<1>4. text # <<>> => N \in s.next[0] /\ text[1].k # "open"
  BY DEF Document
<1>5. text = <<>> <=> N = 0
  BY <1>0 DEF Texts
<1> HIDE DEF n, N, text
<1>6. CASE text = <<>>
  <2>1. ObserveBody(o, text) = o
    <3>1. \A i \in 1 .. Len(text) : text[i] = NL
      BY <1>5, <1>6 DEF N
    <3>2. Blank(text)
      BY <1>0, <3>1, BlankIs
    <3> QED  BY <3>2 DEF ObserveBody
  <2>2. Between(s, events, ends, N, o)
    BY <1>2, <1>5, <1>6 DEF Between, N, text
  <2> QED  BY <2>1, <2>2 DEF N, text
<1>7. CASE text # <<>> /\ n = 0
  <2>1. text = Ending
    <3>1. ends[n] = 0
      BY <1>1, <1>7
    <3> QED  BY <1>1, <1>3, <1>7, <3>1
  <2>2. ObserveBody(o, text) = o
    BY <1>2, <2>1, EndingRead
  <2>3. DeclaredBy(s, {})[0] = DeclaredBy(s, {})[N]
    <3>1. \A j \in 0 + 1 .. N : text[j].k # "close"
      <4> SUFFICES ASSUME NEW j \in 0 + 1 .. N PROVE text[j].k # "close"
        OBVIOUS
      <4>1. N = 2
        BY <2>1 DEF N, Ending
      <4>2. j = 1 \/ j = 2
        BY <4>1
      <4>3. text[j] \in {Marker, DoneMark}
        BY <2>1, <4>2 DEF Ending
      <4>4. Marker.k = "data" /\ DoneMark.k = "done"
        BY DEF Marker, DoneMark, Token
      <4> QED  BY <4>3, <4>4
    <3>2. 0 \in Nat /\ 0 <= N
      BY <1>0
    <3> QED  BY <1>0, <3>1, <3>2, DeclaredTo DEF text, N
  <2>4. Between(s, events, ends, N, o)
    BY <1>2, <2>3 DEF Between, N, text
  <2> QED  BY <2>2, <2>4 DEF N, text
<1>8. CASE text # <<>> /\ n # 0
  <2> DEFINE e == events[1]
             g == ObserveDeclared(o, Declares(e), TypeGiven(s, e))
  <2>1. 1 \in 1 .. n /\ 1 - 1 = 0
    BY <1>0, <1>8
  <2>2. e \in Events
    BY <1>1, <2>1 DEF n
  <2>3. ends[1] = N /\ SubSeq(text, 0 + 1, N) \in Stripped(s, e)
    <3>1. s.next[ends[1 - 1]] \subseteq {ends[1]} /\ SubSeq(text, ends[1 - 1] + 1, ends[1]) \in Stripped(s, e)
      BY <1>1, <2>1
    <3>2. ends[1 - 1] = 0
      BY <1>1, <2>1
    <3>3. N \in s.next[0]
      BY <1>4, <1>8
    <3> QED  BY <3>1, <3>2, <3>3
  <2> HIDE DEF e
  <2>4. PieceRead(s, e, text)
    BY <1>3, <2>2, <2>3, PieceIs
  <2>5. g \in Holding(<<>>) /\ ObserveBody(o, text) = g
    BY <1>2, <1>4, <1>8, <2>4 DEF PieceRead
  <2>6. Told(g, DeclaredBy(s, {})[N])
    BY <1>0, <1>2, <2>2, <2>3, PieceTold DEF text, N
  <2> HIDE DEF g
  <2>7. Between(s, events, ends, N, g)
    BY <2>5, <2>6 DEF Between, N, text
  <2> QED  BY <2>5, <2>7 DEF N, text
<1> QED  BY <1>6, <1>7, <1>8

\* Of a stream handed over an event at a time, at every place.
Handing ==
    /\ Typed /\ Begun
    /\ ~Document(stream) => \A events, ends : HandedAt(stream, events, ends) => Between(stream, events, ends, pos, seen)

\* Handing is inductive, and between two events the reader has read all that has arrived.
LEMMA InitHanding == Init => Handing
<1> SUFFICES ASSUME Init PROVE Handing
  OBVIOUS
<1>1. Typed /\ Begun
  BY InitTyped DEF Init, Begun
<1>2. seen = NewObserver /\ pos = 0
  BY DEF Init
<1>3. stream.text \in Texts
  BY <1>1, ExchangeType DEF Typed
<1> DEFINE o == NewObserver
           read == <<>>
<1>4. o \in Holding(<<>>)
  <2>1. o \in Observers
    BY <1>1, <1>2 DEF Typed, ObserversIn
  <2> QED  BY <2>1 DEF Holding, NewObserver
<1>5. DeclaredBy(stream, {})[0] = read
  <2> DEFINE none == {}
  <2> HIDE DEF none
  <2>1. DeclaredBy(stream, none)[0] = <<>>
    BY <1>3, DeclaredByIs
  <2> QED  BY <2>1 DEF none
<1>6. Told(o, read)
  <2>1. DOMAIN read = {}
    OBVIOUS
  <2>3. Verdict(o) = NoModel /\ o.conflict = FALSE /\ o.terminal = NoModel
    BY DEF NewObserver, Verdict
  <2>4. Wins(read) = NoModel
    BY DEF Wins
  <2>5. Disagree(read) = FALSE
    BY <2>1 DEF Disagree
  <2> HIDE DEF read
  <2> QED  BY <2>1, <2>3, <2>4, <2>5 DEF Told, Tells
<1> HIDE DEF o, read
<1> SUFFICES ASSUME NEW events, NEW ends, HandedAt(stream, events, ends)
             PROVE  Between(stream, events, ends, pos, seen)
  BY <1>1 DEF Handing
<1>7. ends[0] = 0 /\ 0 \in 0 .. Len(events)
  BY DEF HandedAt
<1>8. seen \in Holding(<<>>) /\ Told(seen, DeclaredBy(stream, {})[pos])
  BY <1>2, <1>4, <1>5, <1>6 DEF o
<1> QED  BY <1>2, <1>7, <1>8 DEF Between

LEMMA StepHanding == Handing /\ [Next]_vars => Handing'
<1> SUFFICES ASSUME Handing, [Next]_vars PROVE Handing'
  OBVIOUS
<1>0. Typed /\ Begun
  BY DEF Handing
<1>1. Typed' /\ Begun'
  BY <1>0, StepTyped, StepBegun
<1>2. PICK s : s = stream
  OBVIOUS
<1>3. s.text \in Texts /\ Len(s.text) \in Nat /\ pos \in 0 .. Len(s.text)
  BY <1>0, <1>2, ExchangeType DEF Typed
<1>4. stream' = s
  BY <1>2 DEF Next, Intercept, Headers, Chunk, WholeBody, Finalize, vars, stream
<1>5. ASSUME ~Document(s), NEW events, NEW ends, HandedAt(s, events, ends)
      PROVE  Between(s, events, ends, pos', seen')
  <2>1. Between(s, events, ends, pos, seen)
    BY <1>2, <1>5 DEF Handing
  <2>2. CASE pos' = pos /\ seen' = seen
    BY <2>1, <2>2
  <2>3. CASE WholeBody
    <3>1. /\ pos = 0 /\ pos' = Len(s.text) /\ seen' = ObserveBody(seen, s.text)
          /\ s.text # <<>> => Len(s.text) \in s.next[0]
      BY <1>0, <1>2, <2>3 DEF WholeBody, Begun
    <3>2. Between(s, events, ends, 0, seen)
      BY <2>1, <3>1
    <3>3. Between(s, events, ends, Len(s.text), ObserveBody(seen, s.text))
      BY <1>3, <1>5, <3>1, <3>2, BodyBetween
    <3> QED  BY <3>1, <3>3
  <2>4. CASE Finalize
    <3>1. pos' = pos /\ seen' = Flush(seen)
      BY <2>4 DEF Finalize
    <3>2. seen \in Holding(<<>>)
      BY <2>1 DEF Between
    <3>3. Flush(seen) = seen
      BY <3>2, EmptyFlushed
    <3> QED  BY <2>1, <3>1, <3>3
  <2>5. ASSUME NEW end \in 1 .. Len(stream.text), Chunk(end) PROVE Between(s, events, ends, pos', seen')
    <3>1. /\ pos' = end /\ seen' = ObserveCallback(seen, SubSeq(s.text, pos + 1, end)) /\ end \in s.next[pos]
          /\ end \in 0 .. Len(s.text)
      BY <1>2, <1>3, <2>5 DEF Chunk
    <3>2. pos < end
      <4>1. exchange \in Exchanges /\ end \in exchange.stream.next[pos] /\ pos \in 0 .. Len(exchange.stream.text)
        BY <1>0, <2>5 DEF Chunk, stream, Typed
      <4> QED  BY <4>1, ExchangesAssumption
    <3>3. Between(s, events, ends, end, ObserveCallback(seen, SubSeq(s.text, pos + 1, end)))
      BY <1>3, <1>5, <2>1, <3>1, <3>2, ChunkBetween
    <3> QED  BY <3>1, <3>3
  <2> QED  BY <2>2, <2>3, <2>4, <2>5 DEF Next, Intercept, Headers, vars
<1>6. (~Document(stream) =>
        \A events, ends : HandedAt(stream, events, ends) => Between(stream, events, ends, pos, seen))'
  BY <1>4, <1>5
<1> QED  BY <1>1, <1>6 DEF Handing

LEMMA HandingReads == Handing => (HandedOver(stream) => ReadsAll /\ ReadsWhatArrived)
<1> SUFFICES ASSUME Handing, HandedOver(stream) PROVE ReadsAll /\ ReadsWhatArrived
  OBVIOUS
<1>1. Told(seen, DeclaredBy(stream, {})[pos])
  BY DEF Handing, HandedOver, Between
<1>2. ReadsAll
  BY <1>1 DEF ReadsAll, Told, Tells
<1> DEFINE none == {}
<1>3. none \in SUBSET Oversize(stream.text)
  OBVIOUS
<1>4. Told(seen, DeclaredBy(stream, none)[pos])
  BY <1>1
<1> HIDE DEF none
<1>5. ReadsWhatArrived
  BY <1>3, <1>4 DEF ReadsWhatArrived, Told, Tells
<1> QED  BY <1>2, <1>5

\* Of a stream that the host hands over an event at a time with the separators stripped - event
\* line and data line, data line, or payload by itself - the observer has read every event that
\* has arrived, each once, in order and with the type its event line gives it, however large it
\* is and whatever the residual can hold (observeCallback: "a chunk that is one payload").
THEOREM HandedCorrect == Spec => [](HandedOver(stream) => ReadsAll /\ ReadsWhatArrived)
<1>1. Init => Handing
  BY InitHanding
<1>2. Handing /\ [Next]_vars => Handing'
  BY StepHanding
<1>3. Handing => (HandedOver(stream) => ReadsAll /\ ReadsWhatArrived)
  BY HandingReads
<1> QED  BY <1>1, <1>2, <1>3, PTL DEF Spec

\* The row names the model and the conflict of a list of declarations.
RowTells(read) == row.model = Wins(read) /\ row.conflict = Disagree(read)

RowFollows ==
    at = "done" =>
        /\ HandedOver(stream) => RowTells(DeclaredBy(stream, {})[pos])
        /\ MaxResidual >= 4 /\ Separated(stream) =>
              \E lost \in SUBSET Oversize(stream.text) : RowTells(DeclaredBy(stream, lost)[pos])

\* The row of a request that is over names the model and the conflict that the events declare
\* which had arrived by then, wherever the host has cut the stream: with no frame too large for
\* the residual, requests that receive the same text get the same row (finalizeLocked).
THEOREM RowCorrect == Spec => []RowFollows
<1>1. ReadsInOrder => (at = "done" => row.model = Verdict(seen) /\ row.conflict = seen.conflict)
  BY DEF ReadsInOrder
<1>2. Spec => [](MaxResidual >= 4 => (Separated(stream) => ReadsWhatArrived))
  <2>1. CASE MaxResidual >= 4
    <3>1. Spec => [](Separated(stream) => ReadsWhatArrived)
      BY <2>1, ArrivalsCorrect
    <3>2. (Separated(stream) => ReadsWhatArrived) => (MaxResidual >= 4 => (Separated(stream) => ReadsWhatArrived))
      OBVIOUS
    <3> QED  BY <3>1, <3>2, PTL
  <2>2. CASE ~(MaxResidual >= 4)
    <3>1. MaxResidual >= 4 => (Separated(stream) => ReadsWhatArrived)
      BY <2>2
    <3> QED  BY <3>1, PTL
  <2> QED  BY <2>1, <2>2
<1>3. /\ ReadsInOrder /\ (MaxResidual >= 4 => (Separated(stream) => ReadsWhatArrived))
      /\ (HandedOver(stream) => ReadsAll /\ ReadsWhatArrived)
      => RowFollows
  BY <1>1 DEF RowFollows, RowTells, ReadsAll, ReadsWhatArrived
<1> QED  BY <1>2, <1>3, ReadingCorrect, HandedCorrect, PTL

=============================================================================
