---------------------------- MODULE ProbeWindow ----------------------------
(***************************************************************************)
(* The window the probe may run in (probe.go): two minutes of a UTC day,   *)
(* the whole day if they are equal, across midnight if the first is later. *)
(* An instant is the day, the minute of it and the second of that.         *)
(***************************************************************************)
EXTENDS Integers

minutesPerDay == 1440
Minutes == 0 .. minutesPerDay - 1
Instants == [day : Nat, minute : Minutes, second : 0 .. 59]

After(t, u) ==
    \/ t.day > u.day
    \/ t.day = u.day /\ t.minute > u.minute
    \/ t.day = u.day /\ t.minute = u.minute /\ t.second > u.second

WithinProbeWindow(start, end, now) ==
    \/ start = end
    \/ start < end /\ now.minute >= start /\ now.minute < end
    \/ start > end /\ (now.minute >= start \/ now.minute < end)

NextProbeWindowOpen(start, now) ==
    LET open == [day |-> now.day, minute |-> start, second |-> 0]
    IN IF After(open, now) THEN open ELSE [open EXCEPT !.day = @ + 1]
=============================================================================
