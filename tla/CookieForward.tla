--------------------------- MODULE CookieForward ---------------------------
(***************************************************************************)
(* The Cookie entry of one credential's auth file (cookieforward.go) and   *)
(* the rule that asks for it (saveRule and deleteRule, state.go).  The     *)
(* file is the host's: it is read and saved by host calls made without the *)
(* plugin's lock, while the host puts new refresh tokens into it and the   *)
(* operator edits it.                                                      *)
(***************************************************************************)
EXTENDS Naturals

CONSTANTS
    Calls,       \* management calls that save or delete the rule
    Tries,       \* how often an edit is started over (3 in the code)
    MaxTokens,   \* bounds the refresh tokens the host gets
    MaxHands,    \* bounds the edits of the file by hand
    Free         \* nobody holds state.mu

ASSUME BoundsAssumption ==
    Tries \in Nat \ {0} /\ MaxTokens \in Nat /\ MaxHands \in Nat
ASSUME FreeAssumption == Free \notin Calls

VARIABLES
    file,     \* the Cookie entry and the refresh token in the auth file
    token,    \* the refresh token that is not spent
    rule,     \* the rule in memory
    saved,    \* the rule in the store
    open,     \* state.store # nil
    lock,     \* the call that holds state.mu across a host call, or Free
    call,     \* the management calls
    hands,    \* edits by hand so far
    drifted   \* history: since the switch and the file last agreed at rest,
              \* something happened that the code does not make good

vars == <<file, token, rule, saved, open, lock, call, hands, drifted>>

\* No rule, a rule without cookie injection in effect, one with it.
Rules == {"none", "plain", "cookies"}

\* cookieForwardingWanted
Wanted(r) == r = "cookies"

Files == [entry: {"none", "ours", "other"}, token: 0 .. MaxTokens]

\* What a call is at; the rule it writes ("none" deletes); the forwarding it
\* found and the one it is setting; the file it first read, the file its second
\* read returned (history) and the edits started; whether it is putting the
\* entry back after a failed write.
Call == [at: {"idle", "read", "again", "save", "store"}, new: Rules, before: BOOLEAN,
         want: BOOLEAN, seen: Files, checked: Files, tries: 0 .. Tries - 1, undo: BOOLEAN]
NoFile == [entry |-> "none", token |-> 0]
Idle == [at |-> "idle", new |-> "none", before |-> FALSE, want |-> FALSE,
         seen |-> NoFile, checked |-> NoFile, tries |-> 0, undo |-> FALSE]

TypeOK ==
    /\ file \in Files
    /\ token \in 0 .. MaxTokens
    /\ rule \in Rules /\ saved \in Rules
    /\ open \in BOOLEAN
    /\ lock \in Calls \cup {Free}
    /\ call \in [Calls -> Call]
    /\ hands \in 0 .. MaxHands
    /\ drifted \in BOOLEAN

Init ==
    /\ rule \in Rules
    /\ file \in [entry: IF Wanted(rule) THEN {"ours"} ELSE {"none", "other"}, token: {0}]
    /\ saved = rule
    /\ token = 0 /\ hands = 0
    /\ open = TRUE /\ drifted = FALSE
    /\ lock = Free
    /\ call = [c \in Calls |-> Idle]

Busy(c) == call[c].at # "idle"
Quiet == \A c \in Calls : ~Busy(c)
Agrees == Wanted(rule) <=> file.entry = "ours"

-----------------------------------------------------------------------------
(* editCookieForwarding, on the entry alone: the rest is carried over.       *)

AsWanted(f, want) == (f.entry = "ours") = want
\* Mutant of Taken: the operator's entry is replaced like an absent one.
Taken_Never(f, want) == FALSE

Taken(f, want) == want /\ f.entry = "other"
Edited(f, want) == [f EXCEPT !.entry = IF want THEN "ours" ELSE "none"]

-----------------------------------------------------------------------------
(* A call to saveRule or deleteRule.                                        *)

\* Mutant of EditEnds: the restoring call returns without unlocking.
EditEnds_KeepsLock(c, ok) ==
    /\ call' = [call EXCEPT ![c] = IF ok /\ ~call[c].undo THEN [@ EXCEPT !.at = "store"] ELSE Idle]
    /\ drifted' = (drifted \/ (~ok /\ call[c].undo))
    /\ UNCHANGED lock

\* The edit is over, well or badly: the call goes on to the store, or is
\* answered with the error; one that was putting the entry back is over too and
\* gives up the lock it held.
EditEnds(c, ok) ==
    /\ call' = [call EXCEPT ![c] = IF ok /\ ~call[c].undo THEN [@ EXCEPT !.at = "store"] ELSE Idle]
    /\ lock' = IF lock = c THEN Free ELSE lock
    /\ drifted' = (drifted \/ (~ok /\ call[c].undo))

\* The first lines: the rule as it is, and whether the file has to change.
Begin(c, new) ==
    /\ ~Busy(c) /\ lock = Free
    /\ LET before == Wanted(rule)
           edits  == Wanted(new) # before
       IN call' = [call EXCEPT ![c] = [Idle EXCEPT !.at = IF edits THEN "read" ELSE "store",
                                                   !.new = new, !.before = before,
                                                   !.want = Wanted(new)]]
    /\ drifted' = (~Quiet \/ (drifted /\ ~Agrees))
    /\ UNCHANGED <<file, token, rule, saved, open, lock, hands>>

\* The first read of a try.  The host may fail, here and in the calls below.
FirstRead(c) ==
    /\ call[c].at = "read"
    /\ \/ EditEnds(c, FALSE)
       \/ AsWanted(file, call[c].want) /\ EditEnds(c, TRUE)
       \/ Taken(file, call[c].want) /\ EditEnds(c, FALSE)
       \/ /\ ~AsWanted(file, call[c].want) /\ ~Taken(file, call[c].want)
          /\ call' = [call EXCEPT ![c].at = "again", ![c].seen = file]
          /\ UNCHANGED <<lock, drifted>>
    /\ UNCHANGED <<file, token, rule, saved, open, hands>>

\* Mutant of SecondRead: the edit is saved whatever the file has become.
SecondRead_NoCompare(c) ==
    /\ call[c].at = "again"
    /\ call' = [call EXCEPT ![c].at = "save", ![c].checked = file]
    /\ UNCHANGED <<file, token, rule, saved, open, lock, hands, drifted>>

\* Mutant of SecondRead: one try too many.
SecondRead_OneMore(c) ==
    /\ call[c].at = "again" /\ file # call[c].seen
    /\ call' = [call EXCEPT ![c].at = "read", ![c].tries = @ + 1]
    /\ UNCHANGED <<file, token, rule, saved, open, lock, hands, drifted>>

\* The second read: a file that has changed is edited again, Tries times.
SecondRead(c) ==
    /\ call[c].at = "again"
    /\ \/ EditEnds(c, FALSE)
       \/ /\ file = call[c].seen
          /\ call' = [call EXCEPT ![c].at = "save", ![c].checked = file]
          /\ UNCHANGED <<lock, drifted>>
       \/ /\ file # call[c].seen /\ call[c].tries + 1 < Tries
          /\ call' = [call EXCEPT ![c].at = "read", ![c].tries = @ + 1]
          /\ UNCHANGED <<lock, drifted>>
       \/ /\ file # call[c].seen /\ call[c].tries + 1 = Tries
          /\ EditEnds(c, FALSE)
    /\ UNCHANGED <<file, token, rule, saved, open, hands>>

\* hostAuthSave of the edited copy, over whatever is there by now.
Save(c) ==
    /\ call[c].at = "save"
    /\ \/ EditEnds(c, FALSE) /\ UNCHANGED file
       \/ EditEnds(c, TRUE) /\ file' = Edited(call[c].seen, call[c].want)
    /\ UNCHANGED <<token, rule, saved, open, hands>>

\* Mutant of StoreFails: the entry is left as it was edited.
StoreFails_NoUndo(c) ==
    /\ call' = [call EXCEPT ![c] = Idle]
    /\ drifted' = (drifted \/ (call[c].new = "none" /\ call[c].before # call[c].want))
    /\ UNCHANGED lock

\* The write fails.  A save that edited the file puts the entry back, with the
\* lock held; a deletion does not.
StoreFails(c) ==
    LET edited == call[c].before # call[c].want
        undoes == edited /\ call[c].new # "none"
    IN /\ call' = [call EXCEPT ![c] = IF undoes
                                      THEN [@ EXCEPT !.at = "read", !.want = call[c].before,
                                                     !.tries = 0, !.undo = TRUE]
                                      ELSE Idle]
       /\ lock' = IF undoes THEN c ELSE lock
       /\ drifted' = (drifted \/ (edited /\ ~undoes))

\* The rest of the call, under the lock.
Store(c) ==
    /\ call[c].at = "store" /\ lock = Free
    /\ \/ /\ ~open
          /\ call' = [call EXCEPT ![c] = Idle]
          /\ drifted' = (drifted \/ call[c].before # call[c].want)
          /\ UNCHANGED <<rule, saved, lock>>
       \/ /\ open /\ StoreFails(c)
          /\ UNCHANGED <<rule, saved>>
       \/ /\ open
          /\ rule' = call[c].new /\ saved' = call[c].new
          /\ call' = [call EXCEPT ![c] = Idle]
          /\ UNCHANGED <<lock, drifted>>
    /\ UNCHANGED <<file, token, open, hands>>

-----------------------------------------------------------------------------
(* The host, the operator and the plugin's life.                            *)

\* The host refreshes the token and rewrites the file with the new one.
HostRefresh ==
    /\ token < MaxTokens
    /\ token' = token + 1
    /\ file' = [file EXCEPT !.token = token + 1]
    /\ UNCHANGED <<rule, saved, open, lock, call, hands, drifted>>

\* The operator sets a Cookie header of their own, or removes the one there is.
EditByHand(entry) ==
    /\ hands < MaxHands /\ entry # file.entry
    /\ file' = [file EXCEPT !.entry = entry]
    /\ hands' = hands + 1
    /\ drifted' = (drifted \/ file.entry = "ours")
    /\ UNCHANGED <<token, rule, saved, open, lock, call>>

\* quiescePlugin gives up the store, configurePlugin opens it and reads the
\* rules back; neither looks at the file.
Quiesce ==
    /\ open /\ lock = Free
    /\ open' = FALSE
    /\ UNCHANGED <<file, token, rule, saved, lock, call, hands, drifted>>

Configure ==
    /\ ~open /\ lock = Free
    /\ open' = TRUE /\ rule' = saved
    /\ UNCHANGED <<file, token, saved, lock, call, hands, drifted>>

\* The process dies and starts again.  A call between its edit and its write
\* leaves the file edited.
Crash ==
    /\ call' = [c \in Calls |-> Idle]
    /\ rule' = saved /\ open' = TRUE /\ lock' = Free
    /\ drifted' = (drifted \/ \E c \in Calls : call[c].before # Wanted(call[c].new)
                                             /\ (call[c].at = "store" \/ call[c].undo))
    /\ UNCHANGED <<file, token, saved, hands>>

Step(c) == FirstRead(c) \/ SecondRead(c) \/ Save(c) \/ Store(c)

Next ==
    \/ \E c \in Calls, new \in Rules : Begin(c, new)
    \/ \E c \in Calls : Step(c)
    \/ HostRefresh
    \/ \E entry \in {"none", "other"} : EditByHand(entry)
    \/ Quiesce \/ Configure \/ Crash

Spec == Init /\ [][Next]_vars

\* A call is a goroutine of the host's and runs on; Go's mutex does not let one
\* that waits for it be passed over for ever.
FairSpec == Spec /\ \A c \in Calls : WF_vars(Step(c)) /\ SF_vars(Store(c))

-----------------------------------------------------------------------------
(* An edit that noticed no change since its second read takes nothing back:   *)
(* the refresh token in the file is replaced by an older one only when the    *)
(* host rewrote the file between that read and the save (cookieforward.go:    *)
(* "saving an edit of a copy that has since changed would put a spent refresh *)
(* token back").                                                              *)
Overruns(c) == call[c].at = "save" /\ call'[c].at # "save" /\ file # call[c].checked
TokenNeverTurnsBack ==
    [][file'.token < file.token => \E c \in Calls : Overruns(c)]_vars

(* A Cookie header the operator set to something else is never replaced or    *)
(* removed by a call, but in that same gap (editCookieForwarding).            *)
OperatorsEntryStays ==
    [][file.entry = "other" /\ file'.entry # "other" /\ hands' = hands
          => \E c \in Calls : Overruns(c)]_vars

(* When no call is under way and nothing happened that the code cannot make   *)
(* good, cookie injection is on exactly when the file forwards the cookie:    *)
(* a save refused by the host, by the operator's entry or by the store leaves *)
(* both as they were (saveRule's restore included).                           *)
SwitchAgrees == Quiet /\ ~drifted => Agrees

(* Every call ends, though its tries are spent, the host fails and other      *)
(* calls hold the lock while they talk to the host.                           *)
EveryCallEnds == \A c \in Calls : Busy(c) ~> ~Busy(c)

=============================================================================
