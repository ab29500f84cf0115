------------------------- MODULE MC_ResponseReader -------------------------
(* Streams of up to Length events in every framing a host is known to use, cut *)
(* wherever that host may cut it; and, beside them, requests and responses    *)
(* that differ in their cookies alone.                                        *)
EXTENDS ResponseReader

CONSTANTS Framings, Length, Headed

\* created and completed by one model, completed by another, the answer, a
\* payload with no type of its own, a whole array of events, a long answer.
MC_Events == {"create", "complete", "other", "delta", "untyped", "array", "long"}
MC_LineType(e) == CASE e = "create" -> "created"
                    [] e \in {"complete", "other", "untyped"} -> "completed"
                    [] OTHER -> "delta"
MC_BodyType(e) == IF e \in {"untyped", "array"} THEN "" ELSE MC_LineType(e)
MC_Declares(e) ==
    CASE e = "array"   -> <<[model |-> "m", type |-> "created"], [model |-> "n", type |-> "delta"]>>
      [] e = "other"   -> <<[model |-> "n", type |-> "completed"]>>
      [] e \in {"delta", "long"} -> <<[model |-> "", type |-> "delta"]>>
      [] e = "untyped" -> <<[model |-> "m", type |-> ""]>>
      [] OTHER         -> <<[model |-> "m", type |-> MC_BodyType(e)]>>
MC_Pieces(e) == CASE e = "long" -> 4 [] e = "create" -> 1 [] OTHER -> 0

\* One event in each framing.
Piece(framing, e) ==
    LET event == Token("event", e)
    IN CASE framing = "framed"   -> <<event, NL, Marker>> \o Payload(e) \o <<NL, NL>>
         [] framing = "data"     -> <<Marker>> \o Payload(e) \o <<NL, NL>>
         [] framing = "split"    -> <<event, NL, Marker, Payload(e)[1], NL, Marker>> \o Tail(Payload(e)) \o <<NL, NL>>
         [] framing = "unframed" -> <<event, Marker>> \o Payload(e)
         [] framing = "stripped" -> <<event, NL, Marker>> \o Payload(e)
         [] framing = "packed"   -> <<Marker>> \o Payload(e) \o <<NL>>
         [] framing = "bare"     -> Payload(e)

\* A host that strips the separators hands over one event at a time, one that
\* packs events a whole frame; the others any piece.
MC_Stream(framing, events) ==
    LET ending == IF framing = "packed" THEN <<NL>> ELSE IF framing = "bare" THEN <<>> ELSE <<Marker, DoneMark>>
        pieces == [i \in DOMAIN events |-> Piece(framing, events[i])] \o <<ending>>
        text == FlattenSeq(pieces)
        steps == {Len(FlattenSeq(SubSeq(pieces, 1, i))) : i \in DOMAIN pieces}
        after(n) == CASE framing \in {"stripped", "bare"} -> {Min(S) : S \in {{s \in steps : s > n}} \ {{}}}
                      [] framing = "packed" -> {Len(text)} \ {n}
                      [] OTHER -> n + 1 .. Len(text)
    IN [text |-> text, next |-> [n \in 0 .. Len(text) |-> after(n)],
        lines |-> framing \in {"framed", "split", "stripped"},
        names |-> framing \in {"framed", "split", "stripped", "unframed"}]

MC_Streams == {MC_Stream(f, es) : f \in Framings, es \in BoundedSeq(MC_Events, Length)}

Crumb(n, v) == [name |-> n, value |-> v]
MC_Client == {<<>>, <<Crumb("a", "1")>>, <<Crumb("b", "1"), Crumb("a", "1")>>,
              <<Crumb("a", "1"), Crumb("b", "1"), Crumb("a", "2")>>, <<Crumb("a", ""), Crumb("c", "1")>>}
MC_Pooled == {<<>>, <<Crumb("b", "3")>>, <<Crumb("c", "3"), Crumb("a", "3")>>}
MC_Sets == {[name |-> n, value |-> "4", expired |-> x] : n \in {"a", "c"}, x \in BOOLEAN}
             \cup {[name |-> "a", value |-> "", expired |-> FALSE], [name |-> "", value |-> "", expired |-> FALSE],
                   [name |-> "a", value |-> "5", expired |-> FALSE]}

MC_Silent == [text |-> <<>>, next |-> [n \in {0} |-> {}], lines |-> FALSE, names |-> FALSE]
MC_Exchanges ==
    [client: {<<>>}, pooled: {<<>>}, sets: {<<>>}, stream: MC_Streams]
      \cup [client: MC_Client, pooled: MC_Pooled, sets: BoundedSeq(MC_Sets, Headed), stream: {MC_Silent}]
=============================================================================
