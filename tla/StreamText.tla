----------------------------- MODULE StreamText -----------------------------
(***************************************************************************)
(* The text of an upstream response stream, cut to what the plugin's       *)
(* scanners tell apart (upstream_model.go, bodymask.go): the "event:" text *)
(* of an event, the "data:" marker, the pieces of its JSON payload, a line *)
(* end and the [DONE] mark.  Blanks are left out.                          *)
(***************************************************************************)
EXTENDS Naturals, Sequences, FiniteSetsExt, SequencesExt

CONSTANTS
    Events,        \* what a stream can be made of
    LineType(_),   \* the type its event line names
    BodyType(_),   \* the type its payload names, "" if it names none
    Declares(_),   \* what the payload declares, in order: models with their types
    Pieces(_)      \* how many pieces the payload has between its two ends

ASSUME EventsAssumption ==
    \A e \in Events :
        /\ LineType(e) \in STRING /\ BodyType(e) \in STRING /\ Pieces(e) \in Nat
        /\ Declares(e) \in Seq([model : STRING, type : STRING])

\* isTerminalModelEvent, for the types "created", "delta", "completed" and "",
\* which are all there are here.
Terminal(type) == type = "completed"

Token(k, e) == [k |-> k, e |-> e]
NL == Token("nl", "")
Marker == Token("data", "")
DoneMark == Token("done", "")
Tokens == [k : {"event", "open", "piece", "close"}, e : Events] \cup {NL, Marker, DoneMark}

Payload(e) ==
    <<Token("open", e)>> \o [i \in 1 .. Pieces(e) |-> Token("piece", e)] \o <<Token("close", e)>>

Unspaced(s) ==
    LET after[i \in 0 .. Len(s)] ==
            IF i = 0 THEN <<>> ELSE IF s[i] = NL THEN after[i - 1] ELSE Append(after[i - 1], s[i])
    IN after[Len(s)]
Blank(s) == Unspaced(s) = <<>>

\* json.Valid, and an object: one payload, all of it, on however many lines.
ValidPayload(s) ==
    ~Blank(s) /\ Unspaced(s)[1].k = "open" /\ Unspaced(s) = Payload(Unspaced(s)[1].e)

\* The test for a document, which a body that begins with [DONE] meets as well.
Bracketed(s) == Unspaced(s)[1].k \in {"open", "done"}

\* bytes.Split on the line end.
SplitNext(lines, t) ==
    IF t = NL THEN Append(lines, <<>>) ELSE Front(lines) \o <<Append(Last(lines), t)>>
Lines(s) ==
    LET after[i \in 0 .. Len(s)] == IF i = 0 THEN << <<>> >> ELSE SplitNext(after[i - 1], s[i])
    IN after[Len(s)]

-----------------------------------------------------------------------------
(* Values found by their brackets alone.                                    *)

NoValue == [payload |-> <<>>, end |-> 0]

Opened(s, i, j) == Cardinality({x \in i .. j : s[x].k = "open"})
Closed(s, i, j) == Cardinality({x \in i .. j : s[x].k = "close"})

\* Where the brackets opened from start on are closed again.
Balanced(s, start) ==
    {j \in start .. Len(s) : s[j].k = "close" /\ Opened(s, start, j) = Closed(s, start, j)}

ValueAt(s, start, ends) ==
    IF start = 0 THEN NoValue
    ELSE IF s[start] = DoneMark THEN [payload |-> <<DoneMark>>, end |-> start]
    ELSE IF s[start].k # "open" \/ ends = {} THEN NoValue
    ELSE [payload |-> SubSeq(s, start, Min(ends)), end |-> Min(ends)]

\* firstJSONValue: [DONE] opens with a bracket and counts as a value.
FirstJSONValue(s) ==
    LET start == SelectInSeq(s, LAMBDA t : t # NL)
    IN ValueAt(s, start, Balanced(s, start))

\* Where the next marker is, counted from the start of s; 0 if there is none.
NextMarker(s, from) == SelectInSubSeq(s, from + 1, Len(s), LAMBDA t : t = Marker)

\* salvageDataPayloads: the values found, and how far it has looked; a turn that
\* finds no marker changes nothing.
NothingFound == [found |-> <<>>, offset |-> 0]
SalvageAt(f, start, value) ==
    IF start = 0 THEN f
    ELSE IF value = NoValue THEN [f EXCEPT !.offset = start]
    ELSE [found  |-> Append(f.found, [payload |-> value.payload, end |-> start + value.end]),
          offset |-> start + value.end]

SalvageNext(s, f) ==
    LET start == NextMarker(s, f.offset)
    IN SalvageAt(f, start, FirstJSONValue(SubSeq(s, start + 1, Len(s))))

Salvaged(s) ==
    LET after[n \in 0 .. Len(s)] == IF n = 0 THEN NothingFound ELSE SalvageNext(s, after[n - 1])
    IN after[Len(s)].found
=============================================================================
