---------------------------- MODULE CookieCrumbs ----------------------------
(***************************************************************************)
(* Cookies as sequences of crumbs, [name, value], and what a response's    *)
(* Set-Cookie headers and the pool's cookie do to them (turnstate.go).  An *)
(* assignment is a Set-Cookie header: a name, "" if it is malformed, a     *)
(* value, "" if it is empty, and whether its max-age is at or below zero.  *)
(***************************************************************************)
EXTENDS Naturals, Sequences, SequencesExt

\* cutCookieCrumb: a crumb with no name is no crumb, one with no value is.
Crumbs == [name : STRING \ {""}, value : STRING]
Assignments == [name : STRING, value : STRING, expired : BOOLEAN]

\* parseSetCookie: whether the header clears the cookie.
Clears(a) == a.value = "" \/ a.expired

\* The three locals of applySetCookies.
NoCrumbs == [order |-> <<>>, placed |-> {}, values |-> <<>>]

\* assign
Assign(jar, crumb) ==
    [order  |-> IF crumb.name \in jar.placed THEN jar.order ELSE Append(jar.order, crumb.name),
     placed |-> jar.placed \cup {crumb.name},
     values |-> [n \in DOMAIN jar.values \cup {crumb.name} |->
                    IF n = crumb.name THEN crumb.value ELSE jar.values[n]]]

\* Mutant of Clear: the value stays.
Clear_Keeps(jar, name) == [jar EXCEPT !.placed = @ \cup {name}]

\* The branch of a header that clears: the name counts as placed from now on.
Clear(jar, name) ==
    [order  |-> jar.order,
     placed |-> jar.placed \cup {name},
     values |-> Restrict(jar.values, DOMAIN jar.values \ {name})]

\* The crumbs that have a value, in order.
Written(jar) ==
    LET after[i \in 0 .. Len(jar.order)] ==
            IF i = 0 THEN <<>>
            ELSE IF jar.order[i] \in DOMAIN jar.values
                 THEN Append(after[i - 1], [name |-> jar.order[i], value |-> jar.values[jar.order[i]]])
            ELSE after[i - 1]
    IN after[Len(jar.order)]

\* The branch of one header; a malformed one is passed over.
Answer(jar, a) ==
    IF a.name = "" THEN jar ELSE IF Clears(a) THEN Clear(jar, a.name) ELSE Assign(jar, a)

\* The two loops: over the crumbs of a cookie, over the headers of a response.
AssignAll(jar, crumbs) ==
    LET after[i \in 0 .. Len(crumbs)] ==
            IF i = 0 THEN jar ELSE Assign(after[i - 1], crumbs[i])
    IN after[Len(crumbs)]

AnswerAll(jar, assignments) ==
    LET after[i \in 0 .. Len(assignments)] ==
            IF i = 0 THEN jar ELSE Answer(after[i - 1], assignments[i])
    IN after[Len(assignments)]

ApplySetCookies(cookie, assignments) ==
    IF assignments = <<>> THEN cookie
    ELSE Written(AnswerAll(AssignAll(NoCrumbs, cookie), assignments))

\* Mutant of MergeCookieHeader: the client's value wins.
MergeCookieHeader_BaseWins(base, overlay) ==
    Written(AssignAll(AssignAll(NoCrumbs, overlay), base))

MergeCookieHeader(base, overlay) == Written(AssignAll(AssignAll(NoCrumbs, base), overlay))
=============================================================================
