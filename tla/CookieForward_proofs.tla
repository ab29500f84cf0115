------------------------ MODULE CookieForward_proofs ------------------------
(***************************************************************************)
(* Proofs about CookieForward, for any calls, tries and bounds: types; that *)
(* neither a refresh token nor the operator's entry is taken back but in    *)
(* the gap between the second read and the save; and that switch and file   *)
(* agree at rest.                                                           *)
(***************************************************************************)
EXTENDS CookieForward, TLAPS

USE BoundsAssumption, FreeAssumption

LEMMA EditEndsTypes ==
    ASSUME TypeOK, NEW c \in Calls, NEW ok \in BOOLEAN, EditEnds(c, ok)
    PROVE  call' \in [Calls -> Call] /\ lock' \in Calls \cup {Free} /\ drifted' \in BOOLEAN
<1>1. Idle \in Call  BY DEF Idle, Call, NoFile, Files, Rules
<1>2. [call[c] EXCEPT !.at = "store"] \in Call  BY DEF TypeOK, Call
<1> QED  BY <1>1, <1>2 DEF EditEnds, TypeOK

LEMMA TypeStep ==
    ASSUME TypeOK, [Next]_vars
    PROVE  TypeOK'
<1>0. Idle \in Call  BY DEF Idle, Call, NoFile, Files, Rules
<1>1. ASSUME NEW c \in Calls, NEW new \in Rules, Begin(c, new)  PROVE TypeOK'
  <2> DEFINE begun == [Idle EXCEPT !.at = IF Wanted(new) # Wanted(rule) THEN "read" ELSE "store",
                                   !.new = new, !.before = Wanted(rule), !.want = Wanted(new)]
  <2>a. Wanted(new) \in BOOLEAN /\ Wanted(rule) \in BOOLEAN  BY DEF Wanted
  <2>b. (IF Wanted(new) # Wanted(rule) THEN "read" ELSE "store") \in {"read", "store"}
    OBVIOUS
  <2>c. \A at \in {"read", "store"}, before \in BOOLEAN, want \in BOOLEAN :
          [Idle EXCEPT !.at = at, !.new = new, !.before = before, !.want = want] \in Call
    BY <1>0 DEF Call
  <2>1. begun \in Call  BY <2>a, <2>b, <2>c
  <2>2. call' \in [Calls -> Call]  BY <1>1, <2>1 DEF Begin, TypeOK
  <2>3. drifted' \in BOOLEAN  BY <1>1 DEF Begin
  <2> QED  BY <1>1, <2>2, <2>3 DEF Begin, TypeOK
<1>2. ASSUME NEW c \in Calls, FirstRead(c)  PROVE TypeOK'
  <2>1. CASE EditEnds(c, FALSE) \/ EditEnds(c, TRUE)
    BY <1>2, <2>1, EditEndsTypes DEF FirstRead, TypeOK
  <2>2. CASE call' = [call EXCEPT ![c].at = "again", ![c].seen = file] /\ UNCHANGED <<lock, drifted>>
    <3>1. call' = [call EXCEPT ![c] = [@ EXCEPT !.at = "again", !.seen = file]]  BY <2>2
    <3>2. [call[c] EXCEPT !.at = "again", !.seen = file] \in Call  BY DEF TypeOK, Call
    <3>3. call' \in [Calls -> Call]  BY <3>1, <3>2 DEF TypeOK
    <3> QED  BY <1>2, <2>2, <3>3 DEF FirstRead, TypeOK
  <2> QED  BY <1>2, <2>1, <2>2 DEF FirstRead
<1>3. ASSUME NEW c \in Calls, SecondRead(c)  PROVE TypeOK'
  <2>1. CASE EditEnds(c, FALSE)
    BY <1>3, <2>1, EditEndsTypes DEF SecondRead, TypeOK
  <2>2. CASE call' = [call EXCEPT ![c].at = "save", ![c].checked = file] /\ UNCHANGED <<lock, drifted>>
    <3>1. [call[c] EXCEPT !.at = "save", !.checked = file] \in Call  BY DEF TypeOK, Call
    <3>2. call' \in [Calls -> Call]  BY <2>2, <3>1 DEF TypeOK
    <3> QED  BY <1>3, <2>2, <3>2 DEF SecondRead, TypeOK
  <2>3. CASE /\ call[c].tries + 1 < Tries
             /\ call' = [call EXCEPT ![c].at = "read", ![c].tries = @ + 1]
             /\ UNCHANGED <<lock, drifted>>
    <3>1. call[c].tries + 1 \in 0 .. Tries - 1  BY <2>3 DEF TypeOK, Call
    <3>2. [call[c] EXCEPT !.at = "read", !.tries = @ + 1] \in Call  BY <3>1 DEF TypeOK, Call
    <3>3. call' \in [Calls -> Call]  BY <2>3, <3>2 DEF TypeOK
    <3> QED  BY <1>3, <2>3, <3>3 DEF SecondRead, TypeOK
  <2> QED  BY <1>3, <2>1, <2>2, <2>3 DEF SecondRead
<1>4. ASSUME NEW c \in Calls, Save(c)  PROVE TypeOK'
  <2>1. Edited(call[c].seen, call[c].want) \in Files  BY DEF Edited, Files, TypeOK, Call
  <2>2. file' \in Files  BY <1>4, <2>1 DEF Save, TypeOK
  <2> QED  BY <1>4, <2>2, EditEndsTypes DEF Save, TypeOK
<1>5. ASSUME NEW c \in Calls, Store(c)  PROVE TypeOK'
  <2>1. [call[c] EXCEPT !.at = "read", !.want = call[c].before, !.tries = 0, !.undo = TRUE] \in Call
    <3>1. 0 \in 0 .. Tries - 1  OBVIOUS
    <3>2. call[c] \in Call /\ call[c].before \in BOOLEAN  BY DEF TypeOK, Call
    <3>3. \A before \in BOOLEAN, tries \in 0 .. Tries - 1 :
            [call[c] EXCEPT !.at = "read", !.want = before, !.tries = tries, !.undo = TRUE] \in Call
      BY <3>2 DEF Call
    <3> QED  BY <3>1, <3>2, <3>3
  <2>2. call' \in [Calls -> Call]  BY <1>0, <1>5, <2>1 DEF Store, StoreFails, TypeOK
  <2>3. call[c].new \in Rules  BY DEF TypeOK, Call
  <2>4. lock' \in Calls \cup {Free} /\ rule' \in Rules /\ saved' \in Rules
    BY <1>5, <2>3 DEF Store, StoreFails, TypeOK
  <2>5. drifted' \in BOOLEAN  BY <1>5 DEF Store, StoreFails, TypeOK
  <2> QED  BY <1>5, <2>2, <2>4, <2>5 DEF Store, TypeOK
<1>6. CASE HostRefresh
  <2>1. file' \in Files  BY <1>6 DEF HostRefresh, Files, TypeOK
  <2> QED  BY <1>6, <2>1 DEF HostRefresh, TypeOK
<1>7. ASSUME NEW entry \in {"none", "other"}, EditByHand(entry)  PROVE TypeOK'
  <2>1. file' \in Files /\ hands' \in 0 .. MaxHands  BY <1>7 DEF EditByHand, Files, TypeOK
  <2> QED  BY <1>7, <2>1 DEF EditByHand, TypeOK
<1>8. CASE Quiesce  BY <1>8 DEF Quiesce, TypeOK
<1>9. CASE Configure  BY <1>9 DEF Configure, TypeOK
<1>10. CASE Crash  BY <1>0, <1>10 DEF Crash, TypeOK
<1>11. CASE UNCHANGED vars  BY <1>11 DEF vars, TypeOK
<1> QED  BY <1>1, <1>2, <1>3, <1>4, <1>5, <1>6, <1>7, <1>8, <1>9, <1>10, <1>11 DEF Next, Step

LEMMA TypeInit == Init => TypeOK
<1>1. Idle \in Call  BY DEF Idle, Call, NoFile, Files, Rules
<1>2. Init => file \in Files  BY DEF Init, Files, Rules
<1>3. 0 \in 0 .. MaxTokens /\ 0 \in 0 .. MaxHands  OBVIOUS
<1>4. Init => call \in [Calls -> Call]  BY <1>1 DEF Init
<1>5. Init => rule \in Rules /\ saved \in Rules  BY DEF Init
<1>6. Init => token \in 0 .. MaxTokens /\ hands \in 0 .. MaxHands  BY <1>3 DEF Init
<1>7. Init => open \in BOOLEAN /\ lock \in Calls \cup {Free} /\ drifted \in BOOLEAN  BY DEF Init
<1> QED  BY <1>2, <1>4, <1>5, <1>6, <1>7 DEF TypeOK

(* Every variable keeps its type; in particular no edit is started more than  *)
(* Tries times (setCookieForwarding).                                         *)
THEOREM ForwardTypes == Spec => []TypeOK
BY TypeInit, TypeStep, PTL DEF Spec

-----------------------------------------------------------------------------
(* What holds of each call, whatever the others do.                          *)

CallInv(c) ==
    /\ call[c].at = "save" => call[c].seen = call[c].checked
    /\ call[c].undo => call[c].at # "store"
    /\ call[c].undo => (call[c].want <=> call[c].before)
    /\ ~call[c].undo => (call[c].want <=> Wanted(call[c].new))
    /\ call[c].at \in {"read", "again", "save"} => ~(call[c].before <=> Wanted(call[c].new))
    /\ call[c].at \in {"again", "save"} => call[c].seen.entry # "other"
    /\ ~Busy(c) => ~call[c].undo
Inv == TypeOK /\ \A c \in Calls : CallInv(c)

(* The inductive strengthening of SwitchAgrees.  Until something drifts there *)
(* is one call at most; it knows the rule as it is, and the file is as the    *)
(* rule wants it except between the call's edit and its write.                *)
AgreesInv ==
    /\ saved = rule
    /\ ~drifted =>
          /\ \A c, d \in Calls : Busy(c) /\ Busy(d) => c = d
          /\ \A c \in Calls : Busy(c) =>
                /\ call[c].before <=> Wanted(rule)
                /\ ~call[c].undo =>
                      IF call[c].at = "store" THEN (file.entry = "ours" <=> call[c].want)
                                              ELSE Agrees
          /\ Quiet => Agrees

LEMMA IdleFields == Idle.at = "idle" /\ ~Idle.undo /\ ~Idle.want /\ Idle.new = "none"
BY DEF Idle

LEMMA InvInit == Init => Inv /\ AgreesInv
<1>1. Init => \A c \in Calls : call[c] = Idle  BY DEF Init
<1>2. Init => \A c \in Calls : CallInv(c) /\ ~Busy(c)
  BY <1>1, IdleFields DEF CallInv, Busy, Wanted
<1>3. Init => Agrees  BY DEF Init, Agrees, Wanted
<1> QED  BY <1>2, <1>3, TypeInit DEF Inv, AgreesInv, Init

\* A step of one call leaves the others as they are.
LEMMA OneCall ==
    ASSUME TypeOK, NEW c \in Calls, Step(c)
    PROVE  \A d \in Calls : d # c => call'[d] = call[d]
BY DEF Step, FirstRead, SecondRead, Save, Store, StoreFails, EditEnds, TypeOK

LEMMA InvStep ==
    ASSUME Inv, [Next]_vars
    PROVE  Inv'
<1>t. TypeOK  BY DEF Inv
<1>u. TypeOK'  BY <1>t, TypeStep
<1>i. ASSUME NEW d \in Calls, call'[d] = Idle  PROVE CallInv(d)'
  BY <1>i, IdleFields DEF CallInv, Busy, Wanted
<1>s. ASSUME NEW d \in Calls, call'[d] = call[d]  PROVE CallInv(d)'
  BY <1>s DEF Inv, CallInv, Busy, Wanted
<1>e. ASSUME NEW c \in Calls, NEW ok \in BOOLEAN, EditEnds(c, ok)  PROVE CallInv(c)'
  <2>1. CASE ok /\ ~call[c].undo
    <3>1. call'[c] = [call[c] EXCEPT !.at = "store"]  BY <1>e, <2>1, <1>t DEF EditEnds, TypeOK
    <3>2. call[c] \in Call  BY <1>t DEF TypeOK
    <3> QED  BY <3>1, <3>2, <2>1 DEF Inv, CallInv, Busy, Wanted, Call
  <2>2. CASE ~(ok /\ ~call[c].undo)
    <3>1. call'[c] = Idle  BY <1>e, <2>2, <1>t DEF EditEnds, TypeOK
    <3> QED  BY <3>1, <1>i
  <2> QED  BY <2>1, <2>2
<1>1. ASSUME NEW c \in Calls, NEW new \in Rules, Begin(c, new)  PROVE Inv'
  <2>1. call'[c] = [Idle EXCEPT !.at = IF Wanted(new) # Wanted(rule) THEN "read" ELSE "store",
                                !.new = new, !.before = Wanted(rule), !.want = Wanted(new)]
    BY <1>1, <1>t DEF Begin, TypeOK
  <2>2. CallInv(c)'
    <3>1. /\ call'[c].at = (IF Wanted(new) # Wanted(rule) THEN "read" ELSE "store")
          /\ call'[c].new = new /\ ~call'[c].undo
          /\ call'[c].before = Wanted(rule) /\ call'[c].want = Wanted(new)
      BY <2>1 DEF Idle
    <3> QED  BY <3>1 DEF CallInv, Busy, Wanted
  <2>3. \A d \in Calls : d # c => call'[d] = call[d]  BY <1>1, <1>t DEF Begin, TypeOK
  <2> QED  BY <2>2, <2>3, <1>s, <1>u DEF Inv
<1>2. ASSUME NEW c \in Calls, Step(c)  PROVE Inv'
  <2>0. call[c] \in Call /\ CallInv(c)  BY <1>t DEF TypeOK, Inv
  <2>1. CASE \E ok \in BOOLEAN : EditEnds(c, ok)
    BY <2>1, <1>e, <1>s, <1>2, <1>t, <1>u, OneCall DEF Inv
  <2>2. ASSUME FirstRead(c), call' = [call EXCEPT ![c].at = "again", ![c].seen = file]  PROVE CallInv(c)'
    <3>1. call'[c] = [call[c] EXCEPT !.at = "again", !.seen = file]  BY <2>2, <1>t DEF TypeOK
    <3>2. call'[c].new = call[c].new /\ call'[c].before = call[c].before
          /\ call'[c].want = call[c].want /\ call'[c].undo = call[c].undo
      BY <2>0, <3>1 DEF Call
    <3>3. call'[c].at = "again" /\ call[c].at \in {"read", "again"}
      BY <2>0, <2>2, <3>1 DEF FirstRead, Call
    <3>4. call'[c].seen = file /\ file.entry # "other"
      <4>1. call[c].want \in BOOLEAN  BY <2>0 DEF Call
      <4>2. ~AsWanted(file, call[c].want) /\ ~Taken(file, call[c].want)
        BY <2>2, <3>3, <1>e, <2>0, <1>t, IdleFields DEF FirstRead, EditEnds, TypeOK, Call
      <4>3. call'[c].seen = file  BY <2>0, <3>1 DEF Call
      <4> QED  BY <4>1, <4>2, <4>3 DEF AsWanted, Taken
    <3> QED  BY <2>0, <2>2, <3>2, <3>3, <3>4 DEF CallInv, Busy, Wanted
  <2>3. ASSUME SecondRead(c), file = call[c].seen,
               call' = [call EXCEPT ![c].at = "save", ![c].checked = file]  PROVE CallInv(c)'
    <3>1. call'[c] = [call[c] EXCEPT !.at = "save", !.checked = file]  BY <2>3, <1>t DEF TypeOK
    <3>2. call'[c].new = call[c].new /\ call'[c].before = call[c].before
          /\ call'[c].want = call[c].want /\ call'[c].undo = call[c].undo
      BY <2>0, <3>1 DEF Call
    <3>3. /\ call'[c].at = "save" /\ call[c].at = "again"
          /\ call'[c].seen = call[c].seen /\ call'[c].checked = file
      BY <2>0, <2>3, <3>1 DEF SecondRead, Call
    <3> QED  BY <2>0, <2>3, <3>2, <3>3 DEF CallInv, Busy, Wanted
  <2>4. ASSUME SecondRead(c), call' = [call EXCEPT ![c].at = "read", ![c].tries = @ + 1]  PROVE CallInv(c)'
    <3>1. call'[c] = [call[c] EXCEPT !.at = "read", !.tries = @ + 1]  BY <2>4, <1>t DEF TypeOK
    <3>2. call'[c].new = call[c].new /\ call'[c].before = call[c].before
          /\ call'[c].want = call[c].want /\ call'[c].undo = call[c].undo
      BY <2>0, <3>1 DEF Call
    <3>3. call'[c].at = "read" /\ call[c].at \in {"read", "again"}
      BY <2>0, <2>4, <3>1 DEF SecondRead, Call
    <3> QED  BY <2>0, <2>4, <3>2, <3>3 DEF CallInv, Busy, Wanted
  <2>5. ASSUME Store(c)  PROVE CallInv(c)'
    <3>1. CASE call' = [call EXCEPT ![c] = Idle]  BY <3>1, <1>i, <1>t DEF TypeOK
    <3>2. CASE /\ call[c].before # call[c].want
               /\ call'[c] = [call[c] EXCEPT !.at = "read", !.want = call[c].before,
                                             !.tries = 0, !.undo = TRUE]
      BY <2>0, <2>5, <3>2 DEF Store, CallInv, Busy, Call, Wanted
    <3>3. StoreFails(c) => \/ call' = [call EXCEPT ![c] = Idle]
                           \/ /\ call[c].before # call[c].want
                              /\ call'[c] = [call[c] EXCEPT !.at = "read", !.want = call[c].before,
                                                            !.tries = 0, !.undo = TRUE]
      BY <1>t DEF StoreFails, TypeOK
    <3> QED  BY <2>5, <3>1, <3>2, <3>3 DEF Store
  <2>6. CallInv(c)' \/ \E ok \in BOOLEAN : EditEnds(c, ok)
    BY <1>2, <2>2, <2>3, <2>4, <2>5 DEF Step, FirstRead, SecondRead, Save
  <2> QED  BY <2>1, <2>6, <1>2, <1>s, <1>t, <1>u, OneCall DEF Inv
<1>3. CASE Crash
  <2>1. \A d \in Calls : call'[d] = Idle  BY <1>3 DEF Crash
  <2> QED  BY <2>1, <1>i, <1>u DEF Inv
<1>4. CASE UNCHANGED call
  BY <1>4, <1>s, <1>u DEF Inv
<1>5. HostRefresh \/ (\E entry \in {"none", "other"} : EditByHand(entry)) \/ Quiesce \/ Configure
        \/ UNCHANGED vars => UNCHANGED call
  BY DEF HostRefresh, EditByHand, Quiesce, Configure, vars
<1> QED  BY <1>1, <1>2, <1>3, <1>4, <1>5 DEF Next

\* What AgreesInv says of one call, and that a step of the only call there is
\* gives it again.
Knows(c) ==
    Busy(c) =>
        /\ call[c].before <=> Wanted(rule)
        /\ ~call[c].undo =>
              IF call[c].at = "store" THEN (file.entry = "ours" <=> call[c].want)
                                      ELSE Agrees

LEMMA OnlyCall ==
    ASSUME Inv, AgreesInv, ~drifted', NEW c \in Calls, Step(c), Knows(c)', Busy(c)' \/ Agrees'
    PROVE  AgreesInv' \/ saved' # rule'
<1>1. ~drifted  BY DEF Step, FirstRead, SecondRead, Save, Store, StoreFails, EditEnds
<1>2. Busy(c)
  BY DEF Step, FirstRead, SecondRead, Save, Store, Busy
<1>3. \A d \in Calls : d # c => ~Busy(d)  BY <1>1, <1>2 DEF AgreesInv
<1>4. \A d \in Calls : d # c => ~Busy(d)'  BY <1>3, OneCall DEF Inv, Busy
<1> QED  BY <1>4 DEF AgreesInv, Knows, Quiet

\* How an edit may end: done, with the entry as wanted, or given up.
EditOver(c) ==
    \/ EditEnds(c, TRUE) /\ (file'.entry = "ours" <=> call[c].want)
    \/ EditEnds(c, FALSE) /\ UNCHANGED file

LEMMA EditKeeps ==
    ASSUME Inv, AgreesInv, ~drifted, NEW c \in Calls, Busy(c), ~drifted', UNCHANGED rule,
           call[c].at # "store", EditOver(c)
    PROVE  Knows(c)' /\ (Busy(c)' \/ Agrees')
<1>1. CallInv(c) /\ Knows(c) /\ call[c] \in Call
  BY DEF Inv, AgreesInv, Knows, TypeOK
<1>2. ASSUME call'[c] = Idle, Agrees'  PROVE Knows(c)' /\ (Busy(c)' \/ Agrees')
  BY <1>2, IdleFields DEF Busy, Knows
<1>3. CASE EditEnds(c, TRUE) /\ (file'.entry = "ours" <=> call[c].want)
  <2>1. CASE ~call[c].undo
    <3>1. call'[c] = [call[c] EXCEPT !.at = "store"]  BY <1>3, <2>1 DEF EditEnds, Inv, TypeOK
    <3>2. /\ call'[c].at = "store" /\ call'[c].want = call[c].want
          /\ call'[c].before = call[c].before /\ call'[c].undo = call[c].undo
      BY <1>1, <3>1 DEF Call
    <3> QED  BY <1>1, <1>3, <2>1, <3>2 DEF Knows, Busy
  <2>2. CASE call[c].undo
    <3>1. call'[c] = Idle  BY <1>3, <2>2 DEF EditEnds, Inv, TypeOK
    <3>2. Agrees'  BY <1>1, <1>3, <2>2 DEF Knows, CallInv, Agrees
    <3> QED  BY <3>1, <3>2, <1>2
  <2> QED  BY <2>1, <2>2
<1>4. CASE EditEnds(c, FALSE) /\ UNCHANGED file
  <2>1. call'[c] = Idle /\ ~call[c].undo  BY <1>4 DEF EditEnds, Inv, TypeOK
  <2>2. Agrees'  BY <1>1, <1>4, <2>1 DEF Knows, Agrees
  <2> QED  BY <2>1, <2>2, <1>2
<1> QED  BY <1>3, <1>4 DEF EditOver

LEMMA AgreesStep ==
    ASSUME Inv, AgreesInv, [Next]_vars
    PROVE  AgreesInv'
<1>t. TypeOK /\ TypeOK'  BY InvStep DEF Inv
<1>0. saved' = rule'
  BY DEF AgreesInv, Next, vars, Begin, Step, FirstRead, SecondRead, Save, Store, HostRefresh,
         EditByHand, Quiesce, Configure, Crash
<1> SUFFICES ASSUME ~drifted'  PROVE AgreesInv'
  BY <1>0 DEF AgreesInv
<1>1. ASSUME NEW c \in Calls, NEW new \in Rules, Begin(c, new)  PROVE AgreesInv'
  <2>1. Quiet /\ Agrees  BY <1>1 DEF Begin, AgreesInv
  <2>2. \A d \in Calls : d # c => ~Busy(d)'  BY <1>1, <1>t, <2>1 DEF Begin, TypeOK, Quiet, Busy
  <2>3. call'[c] = [Idle EXCEPT !.at = IF Wanted(new) # Wanted(rule) THEN "read" ELSE "store",
                                !.new = new, !.before = Wanted(rule), !.want = Wanted(new)]
    BY <1>1, <1>t DEF Begin, TypeOK
  <2>4. /\ call'[c].at = IF Wanted(new) # Wanted(rule) THEN "read" ELSE "store"
        /\ call'[c].before = Wanted(rule) /\ call'[c].want = Wanted(new)
    BY <2>3 DEF Idle
  <2>5. UNCHANGED <<file, rule>>  BY <1>1 DEF Begin
  <2>6. Knows(c)' /\ Busy(c)'
    BY <2>1, <2>4, <2>5 DEF Knows, Busy, Agrees, Wanted
  <2> QED  BY <1>0, <2>2, <2>6 DEF AgreesInv, Knows, Quiet
<1>2. ASSUME NEW c \in Calls, Step(c)  PROVE AgreesInv'
  <2>0. Busy(c) /\ CallInv(c) /\ call[c] \in Call
    BY <1>2, <1>t DEF Step, FirstRead, SecondRead, Save, Store, Busy, Inv, TypeOK
  <2>1. ~drifted  BY <1>2 DEF Step, FirstRead, SecondRead, Save, Store, StoreFails, EditEnds
  <2>2. Knows(c)  BY <2>1, <2>0 DEF AgreesInv, Knows
  <2>3. CASE FirstRead(c) /\ ~(\E ok \in BOOLEAN : EditEnds(c, ok))
    <3>1. call'[c] = [call[c] EXCEPT !.at = "again", !.seen = file] /\ UNCHANGED <<file, rule>>
      BY <2>3, <1>t DEF FirstRead, TypeOK
    <3>2. /\ call'[c].at = "again" /\ call[c].at = "read"
          /\ call'[c].before = call[c].before /\ call'[c].undo = call[c].undo
      BY <2>0, <2>3, <3>1 DEF FirstRead, Call
    <3>3. Knows(c)' /\ Busy(c)'  BY <2>0, <2>2, <3>1, <3>2 DEF Knows, Busy, Agrees
    <3> QED  BY <1>0, <1>2, <3>3, OnlyCall
  <2>4. CASE SecondRead(c) /\ ~(\E ok \in BOOLEAN : EditEnds(c, ok))
    <3>1. /\ \/ call'[c] = [call[c] EXCEPT !.at = "save", !.checked = file]
             \/ call'[c] = [call[c] EXCEPT !.at = "read", !.tries = @ + 1]
          /\ UNCHANGED <<file, rule>>
      BY <2>4, <1>t DEF SecondRead, TypeOK
    <3>2. /\ call'[c].at \in {"save", "read"} /\ call[c].at = "again"
          /\ call'[c].before = call[c].before /\ call'[c].undo = call[c].undo
      BY <2>0, <2>4, <3>1 DEF SecondRead, Call
    <3>3. Knows(c)' /\ Busy(c)'  BY <2>0, <2>2, <3>1, <3>2 DEF Knows, Busy, Agrees
    <3> QED  BY <1>0, <1>2, <3>3, OnlyCall
  <2>5. CASE ~Store(c) /\ \E ok \in BOOLEAN : EditEnds(c, ok)
    <3>1. Edited(call[c].seen, call[c].want).entry = "ours" <=> call[c].want
      BY <2>0 DEF Edited, Call, Files
    <3>2. EditOver(c)
      <4>1. FirstRead(c) => \/ EditEnds(c, FALSE) /\ UNCHANGED file
                            \/ EditEnds(c, TRUE) /\ (file'.entry = "ours" <=> call[c].want)
                            \/ \A ok \in BOOLEAN : ~EditEnds(c, ok)
        <5>1. call[c].want \in BOOLEAN  BY <2>0 DEF Call
        <5>2. AsWanted(file, call[c].want) => (file.entry = "ours" <=> call[c].want)
          BY <5>1 DEF AsWanted
        <5>3. ASSUME call' = [call EXCEPT ![c].at = "again", ![c].seen = file], call[c].at = "read"
              PROVE  \A ok \in BOOLEAN : ~EditEnds(c, ok)
          <6>1. call'[c].at = "again"  BY <5>3, <2>0, <1>t DEF TypeOK, Call
          <6>2. \A ok \in BOOLEAN : EditEnds(c, ok) => call'[c].at \in {"store", "idle"}
            BY <2>0, <1>t, IdleFields DEF EditEnds, TypeOK, Call
          <6> QED  BY <6>1, <6>2
        <5> QED  BY <5>2, <5>3 DEF FirstRead
      <4>2. SecondRead(c) => \/ EditEnds(c, FALSE) /\ UNCHANGED file
                             \/ \A ok \in BOOLEAN : ~EditEnds(c, ok)
        <5>1. ASSUME \/ call' = [call EXCEPT ![c].at = "save", ![c].checked = file]
                     \/ call' = [call EXCEPT ![c].at = "read", ![c].tries = @ + 1]
              PROVE  \A ok \in BOOLEAN : ~EditEnds(c, ok)
          <6>1. call'[c].at \in {"save", "read"}  BY <5>1, <2>0, <1>t DEF TypeOK, Call
          <6>2. \A ok \in BOOLEAN : EditEnds(c, ok) => call'[c].at \in {"store", "idle"}
            BY <2>0, <1>t, IdleFields DEF EditEnds, TypeOK, Call
          <6> QED  BY <6>1, <6>2
        <5> QED  BY <5>1 DEF SecondRead
      <4>3. Save(c) => \/ EditEnds(c, FALSE) /\ UNCHANGED file
                       \/ EditEnds(c, TRUE) /\ (file'.entry = "ours" <=> call[c].want)
        BY <3>1 DEF Save
      <4> QED  BY <1>2, <2>5, <4>1, <4>2, <4>3 DEF Step, EditOver
    <3>3. UNCHANGED rule /\ call[c].at # "store"
      BY <1>2, <2>5 DEF Step, FirstRead, SecondRead, Save
    <3>4. Busy(c) /\ ~drifted'  BY <2>0
    <3>5. Knows(c)' /\ (Busy(c)' \/ Agrees')  BY <2>1, <3>2, <3>3, <3>4, EditKeeps
    <3> QED  BY <1>0, <1>2, <3>5, OnlyCall
  <2>6. CASE Store(c)
    <3>0. ~call[c].undo /\ (file.entry = "ours" <=> call[c].want) /\ UNCHANGED file
          /\ (call[c].want <=> Wanted(call[c].new)) /\ (call[c].before <=> Wanted(rule))
      BY <2>0, <2>2, <2>6 DEF Store, CallInv, Knows
    <3>1. ASSUME call' = [call EXCEPT ![c] = Idle], Agrees'  PROVE AgreesInv'
      <4>1. ~Busy(c)'  BY <3>1, <1>t, IdleFields DEF Busy, TypeOK
      <4> QED  BY <4>1, <3>1, <1>0, <1>2, OnlyCall DEF Knows
    <3>2. ASSUME call[c].before = call[c].want, UNCHANGED rule  PROVE Agrees'
      BY <3>0, <3>2 DEF Agrees
    <3>3. ASSUME rule' = call[c].new  PROVE Agrees'
      BY <3>0, <3>3 DEF Agrees
    <3>4. ASSUME open, StoreFails(c), UNCHANGED <<rule, saved>>  PROVE AgreesInv'
      <4>1. CASE call[c].before = call[c].want
        BY <3>1, <3>2, <3>4, <4>1 DEF StoreFails
      <4>2. CASE call[c].before # call[c].want
        <5>1. call'[c] = [call[c] EXCEPT !.at = "read", !.want = call[c].before,
                                        !.tries = 0, !.undo = TRUE]
          BY <3>4, <4>2, <1>t DEF StoreFails, TypeOK
        <5>2. call'[c].undo /\ call'[c].before = call[c].before /\ call'[c].at = "read"
          BY <5>1, <2>0 DEF Call
        <5>3. Knows(c)' /\ Busy(c)'  BY <5>2, <3>0, <3>4 DEF Knows, Busy
        <5> QED  BY <1>0, <1>2, <5>3, OnlyCall
      <4> QED  BY <4>1, <4>2
    <3>5. call[c].before \in BOOLEAN /\ call[c].want \in BOOLEAN  BY <2>0 DEF Call
    <3> QED  BY <2>6, <3>1, <3>2, <3>3, <3>4, <3>5 DEF Store
  <2> QED  BY <1>2, <2>3, <2>4, <2>5, <2>6 DEF Step, Save
<1>3. CASE HostRefresh \/ Quiesce \/ Configure \/ UNCHANGED vars
  <2>1. UNCHANGED <<rule, call, drifted>>
    BY <1>3 DEF HostRefresh, Quiesce, Configure, vars, AgreesInv
  <2>2. file'.entry = file.entry
    BY <1>3, <1>t DEF HostRefresh, Quiesce, Configure, vars, TypeOK, Files
  <2> QED  BY <1>0, <2>1, <2>2 DEF AgreesInv, Agrees, Quiet, Busy
<1>4. ASSUME NEW entry \in {"none", "other"}, EditByHand(entry)  PROVE AgreesInv'
  <2>1. file.entry # "ours" /\ file'.entry # "ours" /\ UNCHANGED <<rule, call>> /\ ~drifted
    BY <1>4, <1>t DEF EditByHand, TypeOK, Files
  <2> QED  BY <1>0, <2>1 DEF AgreesInv, Agrees, Quiet, Busy
<1>5. CASE Crash
  <2>1. \A d \in Calls : ~Busy(d)'  BY <1>5, IdleFields DEF Crash, Busy
  <2>2. ~drifted /\ rule' = rule /\ UNCHANGED file  BY <1>5 DEF Crash, AgreesInv
  <2>3. Agrees
    <3>1. CASE Quiet  BY <2>2, <3>1 DEF AgreesInv
    <3>2. CASE ~Quiet
      <4>1. PICK c \in Calls : Busy(c)  BY <3>2 DEF Quiet
      <4>2. Knows(c) /\ CallInv(c) /\ call[c] \in Call
        BY <2>2, <4>1, <1>t DEF AgreesInv, Knows, Inv, TypeOK
      <4>3. /\ call[c].at = "store" => (call[c].before <=> Wanted(call[c].new))
            /\ call[c].undo => (call[c].before <=> Wanted(call[c].new))
        <5>1. call[c].before \in BOOLEAN /\ Wanted(call[c].new) \in BOOLEAN
          BY <4>2 DEF Call, Wanted
        <5> QED  BY <1>5, <5>1 DEF Crash
      <4>4. ~call[c].undo
        BY <4>1, <4>2, <4>3 DEF CallInv, Busy, Call
      <4> QED  BY <4>1, <4>2, <4>3, <4>4 DEF Knows, CallInv, Agrees
    <3> QED  BY <3>1, <3>2
  <2> QED  BY <1>0, <2>1, <2>2, <2>3 DEF AgreesInv, Agrees, Quiet
<1> QED  BY <1>1, <1>2, <1>3, <1>4, <1>5 DEF Next

LEMMA Invariants == Spec => [](Inv /\ AgreesInv)
BY InvInit, InvStep, AgreesStep, PTL DEF Spec

(* At rest and undisturbed, cookie injection is on exactly when the auth file *)
(* forwards the cookie (saveRule, deleteRule and the restore in saveRule).    *)
THEOREM SwitchFollowsFile == Spec => []SwitchAgrees
<1>1. Inv /\ AgreesInv => SwitchAgrees  BY DEF AgreesInv, SwitchAgrees
<1> QED  BY <1>1, Invariants, PTL

-----------------------------------------------------------------------------
(* No copy of the file holds a token newer than the host's.                  *)

TokenInv == file.token <= token /\ \A c \in Calls : call[c].seen.token <= token

LEMMA SaveWrites ==
    ASSUME Inv, NEW c \in Calls, Save(c), file' # file
    PROVE  /\ file' = Edited(call[c].seen, call[c].want)
           /\ call[c].at = "save" /\ call'[c].at # "save"
           /\ call[c].seen = call[c].checked /\ call[c].seen \in Files
           /\ file'.token = call[c].seen.token
<1>1. file' = Edited(call[c].seen, call[c].want) /\ EditEnds(c, TRUE) /\ call[c].at = "save"
  BY DEF Save
<1>2. call[c] \in Call /\ CallInv(c)  BY DEF Inv, TypeOK
<1>5. call'[c].at # "save"
  <2>1. CASE call[c].undo
    BY <1>1, <1>2, <2>1, IdleFields DEF EditEnds, Inv, TypeOK
  <2>2. CASE ~call[c].undo
    BY <1>1, <1>2, <2>2 DEF EditEnds, Inv, TypeOK, Call
  <2> QED  BY <2>1, <2>2
<1>6. call[c].seen \in Files  BY <1>2 DEF Call
<1>7. Edited(call[c].seen, call[c].want).token = call[c].seen.token  BY <1>6 DEF Edited, Files
<1> QED  BY <1>1, <1>2, <1>5, <1>6, <1>7 DEF CallInv

\* The file changes by a save, a refresh or a hand, and by nothing else.
LEMMA FileChanges ==
    ASSUME [Next]_vars, file' # file
    PROVE  \/ \E c \in Calls : Save(c)
           \/ HostRefresh
           \/ \E entry \in {"none", "other"} : EditByHand(entry)
BY DEF Next, vars, Begin, Step, FirstRead, SecondRead, Store, Quiesce, Configure, Crash

LEMMA TokenStep ==
    ASSUME Inv, TokenInv, [Next]_vars
    PROVE  TokenInv'
<1>t. TypeOK /\ TypeOK'  BY InvStep DEF Inv
<1>1. token' >= token
  <2>1. token' = token \/ token' = token + 1
    BY DEF Next, vars, Begin, Step, FirstRead, SecondRead, Save, Store, HostRefresh,
           EditByHand, Quiesce, Configure, Crash
  <2> QED  BY <2>1, <1>t DEF TypeOK
<1>2. file'.token <= token'
  <2>1. CASE file' = file  BY <1>1, <1>t, <2>1 DEF TokenInv, TypeOK, Files
  <2>2. ASSUME NEW c \in Calls, Save(c), file' # file  PROVE file'.token <= token'
    BY <1>1, <1>t, <2>2, SaveWrites DEF TokenInv, TypeOK, Files
  <2>3. CASE HostRefresh  BY <1>t, <2>3 DEF HostRefresh, TypeOK, Files
  <2>4. ASSUME NEW entry \in {"none", "other"}, EditByHand(entry)  PROVE file'.token <= token'
    BY <1>t, <2>4 DEF EditByHand, TokenInv, TypeOK, Files
  <2> QED  BY <2>1, <2>2, <2>3, <2>4, FileChanges
<1>3. ASSUME NEW d \in Calls  PROVE call'[d].seen.token <= token'
  <2>0. call[d] \in Call /\ call[d].seen.token <= token /\ file.token <= token
        /\ call[d].seen.token \in Nat /\ file.token \in Nat /\ token \in Nat /\ token' \in Nat
    BY <1>t DEF TokenInv, TypeOK, Call, Files
  <2>1. call'[d].seen \in {call[d].seen, file, NoFile}
    <3>i. Idle.seen = NoFile  BY DEF Idle
    <3>1. ASSUME NEW c \in Calls, NEW new \in Rules, Begin(c, new)
          PROVE  call'[d].seen \in {call[d].seen, file, NoFile}
      <4>1. [Idle EXCEPT !.at = IF Wanted(new) # Wanted(rule) THEN "read" ELSE "store",
                         !.new = new, !.before = Wanted(rule), !.want = Wanted(new)].seen = NoFile
        BY DEF Idle
      <4> QED  BY <3>1, <4>1, <1>t DEF Begin, TypeOK
    <3>2. ASSUME NEW c \in Calls, Step(c), d = c
          PROVE  call'[d].seen \in {call[d].seen, file, NoFile}
      <4>0. call[c] \in Call  BY <2>0, <3>2
      <4>1. ASSUME NEW ok \in BOOLEAN, EditEnds(c, ok)
            PROVE  call'[d].seen \in {call[d].seen, NoFile}
        <5>1. call'[c] = [call[c] EXCEPT !.at = "store"] \/ call'[c] = Idle
          BY <4>1, <1>t DEF EditEnds, TypeOK
        <5> QED  BY <5>1, <4>0, <3>2, <3>i DEF Call
      <4>2. FirstRead(c) => call'[d].seen \in {call[d].seen, file, NoFile}
        <5>1. ASSUME call' = [call EXCEPT ![c].at = "again", ![c].seen = file]
              PROVE  call'[d].seen = file
          <6>1. call'[c] = [call[c] EXCEPT !.at = "again", !.seen = file]  BY <5>1, <1>t DEF TypeOK
          <6> QED  BY <6>1, <3>2, <4>0 DEF Call
        <5> QED  BY <5>1, <4>1 DEF FirstRead
      <4>3. SecondRead(c) => call'[d].seen \in {call[d].seen, file, NoFile}
        <5>1. ASSUME \/ call' = [call EXCEPT ![c].at = "save", ![c].checked = file]
                     \/ call' = [call EXCEPT ![c].at = "read", ![c].tries = @ + 1]
              PROVE  call'[d].seen = call[d].seen
          <6>1. \/ call'[c] = [call[c] EXCEPT !.at = "save", !.checked = file]
                \/ call'[c] = [call[c] EXCEPT !.at = "read", !.tries = @ + 1]
            BY <5>1, <1>t DEF TypeOK
          <6> QED  BY <6>1, <3>2, <4>0 DEF Call
        <5> QED  BY <5>1, <4>1 DEF SecondRead
      <4>4. Save(c) => call'[d].seen \in {call[d].seen, file, NoFile}
        BY <4>1 DEF Save
      <4>5. Store(c) => call'[d].seen \in {call[d].seen, file, NoFile}
        <5>1. Store(c) => \/ call'[c] = Idle
                         \/ call'[c] = [call[c] EXCEPT !.at = "read", !.want = call[c].before,
                                                      !.tries = 0, !.undo = TRUE]
          BY <1>t DEF Store, StoreFails, TypeOK
        <5> QED  BY <5>1, <4>0, <3>2, <3>i DEF Call
      <4> QED  BY <3>2, <4>2, <4>3, <4>4, <4>5 DEF Step
    <3>3. CASE Crash  BY <3>3, <3>i DEF Crash
    <3>4. CASE UNCHANGED call  BY <3>4
    <3> QED  BY <3>1, <3>2, <3>3, <3>4, <1>t, OneCall
         DEF Next, vars, HostRefresh, EditByHand, Quiesce, Configure
  <2>2. NoFile.token = 0  BY DEF NoFile
  <2> QED  BY <1>1, <2>0, <2>1, <2>2
<1> QED  BY <1>2, <1>3 DEF TokenInv

LEMMA TokenInit == Init => TokenInv
<1>1. Idle.seen.token = 0  BY DEF Idle, NoFile
<1> QED  BY <1>1 DEF Init, TokenInv

LEMMA TokenInvariant == Spec => [](Inv /\ TokenInv)
<1>1. Init => Inv /\ TokenInv  BY InvInit, TokenInit
<1> QED  BY <1>1, InvStep, TokenStep, PTL DEF Spec

(* The refresh token in the file never turns back but over a change that fell *)
(* between the second read and the save (setCookieForwarding).                *)
THEOREM TokensGoForward == Spec => TokenNeverTurnsBack
<1>1. ASSUME Inv, TokenInv, [Next]_vars, file'.token < file.token
      PROVE  \E c \in Calls : Overruns(c)
  <2>1. file' # file  BY <1>1 DEF Inv, TypeOK, Files
  <2>2. ~HostRefresh  BY <1>1 DEF HostRefresh, Inv, TypeOK, Files, TokenInv
  <2>3. ~(\E entry \in {"none", "other"} : EditByHand(entry))
    BY <1>1 DEF EditByHand, Inv, TypeOK, Files
  <2>4. PICK c \in Calls : Save(c)  BY <1>1, <2>1, <2>2, <2>3, FileChanges
  <2>5. file'.token = call[c].checked.token  BY <1>1, <2>1, <2>4, SaveWrites
  <2>6. file # call[c].checked  BY <1>1, <2>5 DEF Inv, TypeOK, Files
  <2> QED  BY <1>1, <2>1, <2>4, <2>6, SaveWrites DEF Overruns
<1>2. Inv /\ TokenInv /\ [Next]_vars => (file'.token < file.token => \E c \in Calls : Overruns(c))
  BY <1>1
<1> QED  BY <1>2, TokenInvariant, PTL DEF Spec, TokenNeverTurnsBack

(* The operator's own Cookie entry is lost to a call only over a change that  *)
(* fell in the same gap (editCookieForwarding's errCookieHeaderTaken).        *)
THEOREM OperatorKeepsEntry == Spec => OperatorsEntryStays
<1>1. ASSUME Inv, [Next]_vars, file.entry = "other", file'.entry # "other", hands' = hands
      PROVE  \E c \in Calls : Overruns(c)
  <2>1. file' # file  BY <1>1
  <2>2. ~HostRefresh  BY <1>1 DEF HostRefresh, Inv, TypeOK, Files
  <2>3. ~(\E entry \in {"none", "other"} : EditByHand(entry))
    BY <1>1 DEF EditByHand, Inv, TypeOK
  <2>4. PICK c \in Calls : Save(c)  BY <1>1, <2>1, <2>2, <2>3, FileChanges
  <2>5. call[c].checked.entry # "other"
    BY <1>1, <2>1, <2>4, SaveWrites DEF Inv, CallInv
  <2> QED  BY <1>1, <2>1, <2>4, <2>5, SaveWrites DEF Overruns
<1>2. Inv /\ [Next]_vars => (file.entry = "other" /\ file'.entry # "other" /\ hands' = hands
                                => \E c \in Calls : Overruns(c))
  BY <1>1
<1> QED  BY <1>2, TokenInvariant, PTL DEF Spec, OperatorsEntryStays

=============================================================================
