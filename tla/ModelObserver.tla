--------------------------- MODULE ModelObserver ---------------------------
(***************************************************************************)
(* The model a response declares, read from chunks cut anywhere            *)
(* (upstream_model.go).  An observer is a record: the first declaration,   *)
(* the terminal one, whether two disagreed, and the residual.              *)
(***************************************************************************)
EXTENDS StreamText

CONSTANT MaxResidual   \* maxStreamResidual, in tokens

ASSUME ResidualAssumption == MaxResidual \in Nat \ {0}

NoModel == ""
Models == {NoModel} \cup UNION {{Declares(e)[i].model : i \in DOMAIN Declares(e)} : e \in Events}
Observers == [first : Models, terminal : Models, conflict : BOOLEAN, residual : Seq(Tokens)]
NewObserver == [first |-> NoModel, terminal |-> NoModel, conflict |-> FALSE, residual |-> <<>>]

-----------------------------------------------------------------------------
(* One declaration, one payload.                                            *)

\* modelObserver.model
Verdict(o) == IF o.terminal # NoModel THEN o.terminal ELSE o.first

\* Mutant of Observe: the last declaration is kept, whatever its event.
Observe_Last(o, model, terminal) ==
    [o EXCEPT !.conflict = @ \/ (Verdict(o) # NoModel /\ model # NoModel /\ model # Verdict(o)),
              !.terminal = IF model # NoModel THEN model ELSE @]

\* observe
Observe(o, model, terminal) ==
    IF model = NoModel THEN o
    ELSE [o EXCEPT !.conflict = @ \/ (Verdict(o) # NoModel /\ Verdict(o) # model),
                   !.terminal = IF terminal THEN model ELSE @,
                   !.first = IF ~terminal /\ @ = NoModel THEN model ELSE @]

\* observePayload of a payload that parses; an array's elements one by one.  A
\* declaration with no type of its own is of the type the caller names.
TypeOf(declared, type) == IF declared.type # "" THEN declared.type ELSE type
TerminalType(type) == type = "" \/ Terminal(type)
ObserveDeclared(o, declared, type) ==
    LET after[i \in 0 .. Len(declared)] ==
            IF i = 0 THEN o
            ELSE Observe(after[i - 1], declared[i].model, TerminalType(TypeOf(declared[i], type)))
    IN after[Len(declared)]

ObservePayload(o, payload, type) == ObserveDeclared(o, Declares(Unspaced(payload)[1].e), type)

ObserveIfValid(o, payload, type) ==
    IF ValidPayload(payload) THEN ObservePayload(o, payload, type) ELSE o
ObserveAll(o, payloads, type) ==
    LET after[i \in 0 .. Len(payloads)] ==
            IF i = 0 THEN o ELSE ObserveIfValid(after[i - 1], payloads[i], type)
    IN after[Len(payloads)]

-----------------------------------------------------------------------------
(* One frame.                                                               *)

\* What a line starting with "event:" names: all the rest of it.
NamedType(line) == IF Len(line) = 1 THEN LineType(line[1].e) ELSE "?"

\* parseSSEFrame: the last event line's type, and the data lines.
EventTypeIn(lines) ==
    LET at == SelectLastInSeq(lines, LAMBDA l : l # <<>> /\ l[1].k = "event")
    IN IF at = 0 THEN "" ELSE NamedType(lines[at])
DataIn(lines) ==
    LET after[i \in 0 .. Len(lines)] ==
            IF i = 0 THEN <<>>
            ELSE IF lines[i] # <<>> /\ lines[i][1] = Marker
                 THEN Append(after[i - 1], Tail(lines[i]))
            ELSE after[i - 1]
    IN after[Len(lines)]

\* observeFrameParts: the observer after it, and whether anything parsed.
ObserveFrameParts(o, type, joined, lines) ==
    IF joined = <<>> \/ joined = <<DoneMark>> THEN [o |-> o, parsed |-> FALSE]
    ELSE IF ValidPayload(joined) THEN [o |-> ObservePayload(o, joined, type), parsed |-> TRUE]
    ELSE IF Len(lines) < 2 THEN [o |-> o, parsed |-> FALSE]
    ELSE [o |-> ObserveAll(o, lines, type),
          parsed |-> \E i \in DOMAIN lines : ValidPayload(lines[i])]

OrChunk(type) == IF type = "" THEN "chunk" ELSE type
PartsOf(o, lines, data) ==
    ObserveFrameParts(o, OrChunk(EventTypeIn(lines)), FlattenSeq(data), data)
FrameParts(o, frame) ==
    LET lines == Lines(frame) IN PartsOf(o, lines, DataIn(lines))

Payloads(salvaged) == [i \in DOMAIN salvaged |-> salvaged[i].payload]

\* observeFrame: what is salvaged is read when nothing parsed as it stood.
OrSalvaged(parts, frame) ==
    IF parts.parsed THEN parts.o
    ELSE ObserveAll(parts.o, Payloads(Salvaged(frame)), "chunk")
ObserveFrame(o, frame) == OrSalvaged(FrameParts(o, frame), frame)

\* Mutant of TailEnd: what is truncated is taken for read.
TailEnd_All(o, data) == Len(data)

\* How much of a run that no separator ended observeTail consumes.
SalvagedEnd(salvaged) == IF salvaged = <<>> THEN 0 ELSE Last(salvaged).end
TailEnd(o, data) ==
    IF FrameParts(o, data).parsed THEN Len(data) ELSE SalvagedEnd(Salvaged(data))

-----------------------------------------------------------------------------
(* Chunks.                                                                  *)

\* The loop of observeStream: one frame that a separator ends, read; a turn that
\* finds no separator changes nothing.
ObserveNext(f) ==
    LET ends == {i \in 1 .. Len(f.rest) - 1 : f.rest[i] = NL /\ f.rest[i + 1] = NL}
    IN IF ends = {} THEN f
       ELSE [o    |-> ObserveFrame(f.o, SubSeq(f.rest, 1, Min(ends) - 1)),
             rest |-> SubSeq(f.rest, Min(ends) + 2, Len(f.rest))]

ObserveFrames(o, data) ==
    LET after[n \in 0 .. Len(data)] ==
            IF n = 0 THEN [o |-> o, rest |-> data] ELSE ObserveNext(after[n - 1])
    IN after[Len(data)]

\* What a tail leaves is only buffered while it fits.
Buffered(o, left) ==
    IF Blank(left) \/ Len(left) > MaxResidual THEN o ELSE [o EXCEPT !.residual = left]
ObserveTail(o, data) ==
    IF Blank(data) THEN o
    ELSE Buffered(ObserveFrame(o, data), SubSeq(data, TailEnd(o, data) + 1, Len(data)))

\* observeStream
AfterFrames(framed) == ObserveTail(framed.o, framed.rest)
ObserveStream(o, chunk) ==
    AfterFrames(ObserveFrames([o EXCEPT !.residual = <<>>], o.residual \o chunk))

Trimmed(s) ==
    LET kept == {i \in DOMAIN s : s[i] # NL}
    IN IF kept = {} THEN <<>> ELSE SubSeq(s, Min(kept), Max(kept))

\* observeCallback: a chunk that is one payload, or its data line, needs no
\* separator.
Unmarked(text) == IF text # <<>> /\ text[1] = Marker THEN Trimmed(Tail(text)) ELSE text
CallbackWith(o, chunk, payload) ==
    IF Blank(o.residual) /\ payload = <<DoneMark>> THEN [o EXCEPT !.residual = <<>>]
    ELSE IF Blank(o.residual) /\ ValidPayload(payload)
         THEN ObservePayload([o EXCEPT !.residual = <<>>], payload, "chunk")
    ELSE ObserveStream(o, chunk)
ObserveCallback(o, chunk) == CallbackWith(o, chunk, Unmarked(Trimmed(chunk)))

\* flushStream
Flush(o) == [ObserveFrame(o, o.residual) EXCEPT !.residual = <<>>]

\* observeBody, for a response that comes in one piece.
ObserveBody(o, body) ==
    IF Blank(body) THEN o
    ELSE IF ~Bracketed(body) THEN Flush(ObserveStream(o, body))
    ELSE IF ValidPayload(body) THEN ObservePayload(o, body, "")
    ELSE o
=============================================================================
