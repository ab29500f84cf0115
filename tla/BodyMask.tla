------------------------------ MODULE BodyMask ------------------------------
(***************************************************************************)
(* What is stored of a streamed body (bodymask.go): every payload found by *)
(* its marker and its brackets is rewritten, every other byte stays.       *)
(***************************************************************************)
EXTENDS StreamText

\* keepsResponseFrame, for the types that occur here.
KeepsFrame(type) == type \in {"created", "completed"}

\* lastEventName: the last event named in the text before the marker.
LastEventName(lead) ==
    LET at == SelectLastInSeq(lead, LAMBDA t : t.k = "event")
    IN IF at = 0 THEN "" ELSE LineType(lead[at].e)

\* payloadEventType: the payload's own type if it parses and has one.
PayloadEventType(payload, named) ==
    LET own == IF ValidPayload(payload) THEN BodyType(payload[1].e) ELSE ""
    IN IF own # "" THEN own ELSE named

\* Mutant of Rewritten: frames are kept whatever they say.
Rewritten_All(payload, type) == <<Token("fields", payload[1].e)>>

\* A payload with its content fields replaced, or replaced whole.
Rewritten(payload, type) ==
    IF KeepsFrame(type) \/ type = "" THEN <<Token("fields", payload[1].e)>>
    ELSE <<Token("masked", payload[1].e)>>

\* A payload to be kept in part has to parse; one masked whole does not.
Masks(payload, type) ==
    payload # <<DoneMark>> /\ (ValidPayload(payload) \/ ~(KeepsFrame(type) \/ type = ""))

\* maskSSEBody: what is written, how far it has copied and how far it has looked; a
\* turn that finds no marker changes nothing.
Unmasked == [out |-> <<>>, cursor |-> 0, scan |-> 0]
MaskPayload(m, body, end, payload, type) ==
    IF ~Masks(payload, type) THEN [m EXCEPT !.scan = end]
    ELSE [out |-> m.out \o SubSeq(body, m.cursor + 1, end - Len(payload)) \o Rewritten(payload, type),
          cursor |-> end, scan |-> end]

MaskAt(m, body, start, value) ==
    IF start = 0 THEN m
    ELSE IF value = NoValue THEN [m EXCEPT !.scan = start]
    ELSE MaskPayload(m, body, start + value.end, value.payload,
             PayloadEventType(value.payload, LastEventName(SubSeq(body, m.cursor + 1, start))))

MaskNext(m, body) ==
    LET start == NextMarker(body, m.scan)
    IN MaskAt(m, body, start, FirstJSONValue(SubSeq(body, start + 1, Len(body))))

MaskTail(m, body) == m.out \o SubSeq(body, m.cursor + 1, Len(body))

MaskSSEBody(body) ==
    LET after[n \in 0 .. Len(body)] == IF n = 0 THEN Unmasked ELSE MaskNext(after[n - 1], body)
    IN MaskTail(after[Len(body)], body)

\* maskBodyFields: a body that opens with a bracket is one document or, if it
\* does not parse as one, stays as it is.
MaskBody(body) ==
    IF Blank(body) THEN body
    ELSE IF ~Bracketed(body) THEN MaskSSEBody(body)
    ELSE IF ValidPayload(body) THEN Rewritten(Unspaced(body), "")
    ELSE body
=============================================================================
