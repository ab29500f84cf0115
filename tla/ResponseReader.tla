--------------------------- MODULE ResponseReader ---------------------------
(***************************************************************************)
(* What the plugin reads of the response to one live request: the session  *)
(* its Set-Cookie headers leave (interceptAfter, noteTurnStateMintLocked2), *)
(* the model its body declares, and the body the history row keeps         *)
(* (state.go).  Each handler runs whole under state.mu; the row is made    *)
(* when the request ends, which may be before the response does.           *)
(***************************************************************************)
EXTENDS ModelObserver, BodyMask, CookieCrumbs

CONSTANTS
    Exchanges,    \* the requests and their responses: the client's cookie, the
                  \* pool's, the Set-Cookie headers, the stream and where the
                  \* host may cut it
    MaxBuffer     \* maxStreamBufferBytes, in tokens

ASSUME BufferAssumption == MaxBuffer \in Nat

ASSUME ExchangesAssumption ==
    \A x \in Exchanges :
        /\ x.client \in Seq(Crumbs) /\ x.pooled \in Seq(Crumbs) /\ x.sets \in Seq(Assignments)
        /\ x.stream.text \in Seq(Tokens) /\ x.stream.names \in BOOLEAN
        /\ x.stream.next \in [0 .. Len(x.stream.text) -> SUBSET (1 .. Len(x.stream.text))]
        /\ \A n \in 0 .. Len(x.stream.text) : \A end \in x.stream.next[n] : n < end

\* A payload on one line.
Run(text, a, b) ==
    /\ a < b /\ text[a].k = "open" /\ text[b].k = "close"
    /\ \A i \in a + 1 .. b - 1 : text[i].k = "piece"

\* A payload is written to its end before the next one is begun, and where it is on
\* one line all of it is; its event line, where a stream has them, stands between
\* the payload before and its marker; a [DONE] mark stands behind a marker.
ASSUME StreamsAssumption ==
    \A x \in Exchanges :
        LET text == x.stream.text
            opens == {i \in DOMAIN text : text[i].k = "open"}
            marked == {a \in opens : a > 1 /\ text[a - 1] = Marker}
        IN /\ \A a, b \in opens : a < b => \E c \in a .. b : text[c].k = "close"
           /\ \A a, b \in DOMAIN text : Run(text, a, b) => SubSeq(text, a, b) = Payload(text[a].e)
           /\ x.stream.names =>
                 \A a \in marked : \E j \in 1 .. a - 1 :
                    /\ text[j] = Token("event", text[a].e)
                    /\ \A i \in j + 1 .. a - 1 : text[i].k \notin {"event", "close"}
           /\ ~x.stream.names => \A i \in DOMAIN text : text[i].k # "event"
           /\ \A i \in DOMAIN text : text[i] = DoneMark => i > 1 /\ text[i - 1] = Marker

VARIABLES
    exchange,  \* what the client, the pool and the upstream send
    at,        \* how far the request is
    sent,      \* pendingAttempt.clientCookie
    session,   \* the session the response leaves
    pos,       \* how much of the stream has arrived
    seen,      \* pendingAttempt.models
    buffer,    \* pendingAttempt.responseBody
    row        \* what the record holds of the response, once there is one

vars == <<exchange, at, sent, session, pos, seen, buffer, row>>
stream == exchange.stream
NoRow == [model |-> NoModel, conflict |-> FALSE, body |-> <<>>]

\* Mutant of Appended: the cap is forgotten.
Appended_Unbounded(body, chunk) == body \o chunk

\* appendBody
Appended(body, chunk) == SubSeq(body \o chunk, 1, Min({Len(body \o chunk), MaxBuffer}))

-----------------------------------------------------------------------------
Init ==
    /\ exchange \in Exchanges
    /\ at = "new" /\ sent = <<>> /\ session = <<>>
    /\ pos = 0 /\ buffer = <<>>
    /\ seen = NewObserver
    /\ row = NoRow

\* interceptAfter: the pool's cookie, if one is injected, laid over the client's.
Intercept ==
    /\ at = "new" /\ at' = "out"
    /\ sent' = IF exchange.pooled = <<>> THEN exchange.client
               ELSE MergeCookieHeader(exchange.client, exchange.pooled)
    /\ UNCHANGED <<exchange, session, pos, seen, buffer, row>>

\* observeStreamHeaders of the header chunk.
Headers ==
    /\ at = "out" /\ at' = "reading"
    /\ session' = ApplySetCookies(sent, exchange.sets)
    /\ UNCHANGED <<exchange, sent, pos, seen, buffer, row>>

\* observeStreamHeaders of a payload chunk, withheld from the client or not.
Chunk(end) ==
    /\ at = "reading" /\ end \in stream.next[pos]
    /\ LET chunk == SubSeq(stream.text, pos + 1, end)
       IN /\ seen' = ObserveCallback(seen, chunk)
          /\ buffer' = Appended(buffer, chunk)
    /\ pos' = end
    /\ UNCHANGED <<exchange, at, sent, session, row>>

\* observeResponse: the host hands the response over in one piece.
WholeBody ==
    /\ at = "out" /\ at' = "whole"
    /\ stream.text # <<>> => Len(stream.text) \in stream.next[0]
    /\ session' = ApplySetCookies(sent, exchange.sets)
    /\ seen' = ObserveBody(seen, stream.text)
    /\ buffer' = Appended(buffer, stream.text)
    /\ pos' = Len(stream.text)
    /\ UNCHANGED <<exchange, sent, row>>

\* finalizeLocked: the response is over, or the request is.
Finalize ==
    /\ at \in {"out", "reading", "whole"} /\ at' = "done"
    /\ seen' = Flush(seen)
    /\ row' = [model |-> Verdict(seen'), conflict |-> seen'.conflict, body |-> MaskBody(buffer)]
    /\ UNCHANGED <<exchange, sent, session, pos, buffer>>

Next ==
    \/ Intercept \/ Headers \/ WholeBody \/ Finalize
    \/ \E end \in 1 .. Len(stream.text) : Chunk(end)

Spec == Init /\ [][Next]_vars

-----------------------------------------------------------------------------
(* What the comments promise of the two, without a scanner.                 *)

\* What an event of a stream declares: the models, each terminal or not, by its own
\* type or else by the event line's.
Declared(s, e) ==
    LET declares == Declares(e)
        type(d) == IF d.type # "" THEN d.type ELSE IF s.lines THEN LineType(e) ELSE ""
        after[i \in 0 .. Len(declares)] ==
            IF i = 0 THEN <<>>
            ELSE IF declares[i].model = NoModel THEN after[i - 1]
            ELSE Append(after[i - 1],
                        [model |-> declares[i].model, terminal |-> Terminal(type(declares[i]))])
    IN after[Len(declares)]

\* "A terminal declaration wins over earlier ones; otherwise the first declaration
\* is kept."
Wins(declared) ==
    LET terminal == {i \in DOMAIN declared : declared[i].terminal}
    IN IF declared = <<>> THEN NoModel
       ELSE IF terminal # {} THEN declared[Max(terminal)].model
       ELSE declared[1].model
Disagree(declared) == \E i, j \in DOMAIN declared : declared[i].model # declared[j].model

\* The ends of the events whose frame does not fit the residual: these may be abandoned.
Oversize(text) == {i \in DOMAIN text : text[i].k = "close" /\ Pieces(text[i].e) + 5 > MaxResidual}

\* What the events declare that have ended by each place of a stream, but for the lost.
DeclaredBy(s, lost) ==
    LET after[i \in 0 .. Len(s.text)] ==
            IF i = 0 THEN <<>>
            ELSE IF s.text[i].k = "close" /\ i \notin lost
                 THEN after[i - 1] \o Declared(s, s.text[i].e)
            ELSE after[i - 1]
    IN after

(* However the host cuts the stream, the observer has read exactly the events *)
(* that have arrived whole, each once and none by half, but for a frame       *)
(* larger than the residual, which costs only itself (observeStream,          *)
(* observeTail: "leaving a truncated one for the next chunk").                *)
ReadsWhatArrived ==
    \E lost \in SUBSET Oversize(stream.text) :
        LET declared == DeclaredBy(stream, lost)[pos]
        IN Verdict(seen) = Wins(declared) /\ seen.conflict = Disagree(declared)

\* Every payload of the body is on its marker's line.
OneLined(body) ==
    \A i \in DOMAIN body :
        /\ body[i].k = "open" => i > 1 /\ body[i - 1] = Marker
        /\ body[i].k \in {"piece", "close"} => i > 1 /\ body[i - 1].k \in {"open", "piece"}

\* What is to be stored of each token: of a payload that is there to its end one
\* token, in place of its last one, by the type it or its event line gives.
Stored(body, i) ==
    LET e == body[i].e
        whole == \E j \in i .. Len(body) : body[j].k = "close" /\ Opened(body, i + 1, j) = 0
        type == IF BodyType(e) # "" THEN BodyType(e) ELSE IF stream.names THEN LineType(e) ELSE ""
    IN IF body[i].k \notin {"open", "piece", "close"} \/ ~whole THEN <<body[i]>>
       ELSE IF body[i].k # "close" THEN <<>>
       ELSE IF type \in {"created", "completed", ""} THEN <<Token("fields", e)>>
       ELSE <<Token("masked", e)>>

(* The row keeps of a stream its framing as it was, of every informative      *)
(* frame all but the content fields, and of every other its type alone:       *)
(* nothing of the answer is left but the start of a payload that the end of   *)
(* the stream or of the buffer cut off (maskSSEBody: "leaving every other     *)
(* byte exactly where it was").  Only payloads on one line are promised.      *)
StoredAsPromised ==
    at = "done" /\ OneLined(buffer) =>
        row.body = FlattenSeq([i \in DOMAIN buffer |-> Stored(buffer, i)])

-----------------------------------------------------------------------------
(* Cookies, name by name.                                                   *)

Names(crumbs) == {crumbs[i].name : i \in DOMAIN crumbs}
Places(crumbs, n) == {i \in DOMAIN crumbs : crumbs[i].name = n}
Earliest(crumbs, n) == Min(Places(crumbs, n))
Latest(crumbs, n) == crumbs[Max(Places(crumbs, n))]
ValueOf(cookie, n) == Latest(cookie, n).value

\* Each name once; the base's first, in the base's order.
Distinct(cookie) == \A i, j \in DOMAIN cookie : cookie[i].name = cookie[j].name => i = j
Follows(cookie, base) ==
    \A i, j \in DOMAIN cookie :
        i < j /\ cookie[j].name \in Names(base) =>
            /\ cookie[i].name \in Names(base)
            /\ Earliest(base, cookie[i].name) < Earliest(base, cookie[j].name)

\* The response clears the name and then issues it, though the request had none.
Reissued(n) ==
    /\ n \in Names(exchange.sets) \ Names(sent)
    /\ Clears(exchange.sets[Earliest(exchange.sets, n)]) /\ ~Clears(Latest(exchange.sets, n))

\* A name the response says nothing of, one it clears last, one it sets last.
LeftWith(n) ==
    IF n \notin Names(exchange.sets)
    THEN n \in Names(session) /\ ValueOf(session, n) = ValueOf(sent, n)
    ELSE IF Clears(Latest(exchange.sets, n)) THEN n \notin Names(session)
    ELSE n \in Names(session) /\ ValueOf(session, n) = ValueOf(exchange.sets, n)
SetNames == Names(exchange.sets) \ {""}
Answered == at \in {"reading", "whole"}

(* The session a response leaves has every cookie at the value it was given   *)
(* last, none it cleared and none twice, the request's first in the request's *)
(* order (applySetCookies: "Order follows the request, with anything newly    *)
(* issued appended").  Only a name the response clears before it was ever     *)
(* there and then issues is excepted: the code loses it (turnstate.go:386).   *)
SessionFollowsResponse ==
    Answered /\ exchange.sets # <<>> =>
        /\ \A n \in Names(sent) \cup SetNames : ~Reissued(n) => LeftWith(n)
        /\ Names(session) \subseteq Names(sent) \cup SetNames
        /\ Distinct(session) /\ Follows(session, sent)

(* A pooled cookie goes out over the client's: its value of a name in both,   *)
(* in the client's place, and every other cookie of the client's untouched    *)
(* (mergeCookieHeader).                                                       *)
InjectionCoversClient ==
    at # "new" /\ exchange.pooled # <<>> =>
        /\ Names(sent) = Names(exchange.client) \cup Names(exchange.pooled)
        /\ \A n \in Names(sent) :
              ValueOf(sent, n) = IF n \in Names(exchange.pooled) THEN ValueOf(exchange.pooled, n)
                                 ELSE ValueOf(exchange.client, n)
        /\ Distinct(sent) /\ Follows(sent, exchange.client)

\* The observer is typed whole: it knows no model that no event declares, and its
\* residual never outgrows its bound, nor the buffer its own, whatever arrives.
TypeOK ==
    /\ exchange \in Exchanges
    /\ at \in {"new", "out", "reading", "whole", "done"}
    /\ sent \in Seq(Crumbs) /\ session \in Seq(Crumbs)
    /\ pos \in 0 .. Len(stream.text)
    /\ seen \in Observers /\ Len(seen.residual) <= MaxResidual
    /\ buffer \in Seq(Tokens) /\ Len(buffer) <= MaxBuffer
    /\ row.model \in Models /\ row.conflict \in BOOLEAN

=============================================================================
