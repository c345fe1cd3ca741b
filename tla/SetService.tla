----------------------------- MODULE SetService -----------------------------
(***************************************************************************)
(* What the Modbus actor promises of the SetStorageControl requests sent   *)
(* to it: each is taken up once, one at a time, but in no promised order,  *)
(* and each reaches the inverter once at most, perhaps late, when its      *)
(* sender was told that it failed.                                         *)
(***************************************************************************)
EXTENDS Sequences

CONSTANTS Sets, None

VARIABLES
    asked,     \* sets sent, ever
    waiting,   \* sets sent and not taken up
    serving,   \* the set taken up, or None
    late,      \* sets given up that may still reach the inverter
    applied    \* sets in the order they reached the inverter

vars == <<asked, waiting, serving, late, applied>>

Init ==
    /\ asked = {} /\ waiting = {} /\ serving = None /\ late = {}
    /\ applied = <<>>

Ask(s) ==
    /\ s \notin asked
    /\ asked' = asked \cup {s} /\ waiting' = waiting \cup {s}
    /\ UNCHANGED <<serving, late, applied>>

Take(s) ==
    /\ serving = None /\ s \in waiting
    /\ serving' = s /\ waiting' = waiting \ {s}
    /\ UNCHANGED <<asked, late, applied>>

\* Served, failed, or given up.
Finish ==
    /\ serving # None
    /\ \/ applied' = Append(applied, serving) /\ UNCHANGED late
       \/ UNCHANGED <<applied, late>>
       \/ late' = late \cup {serving} /\ UNCHANGED applied
    /\ serving' = None
    /\ UNCHANGED <<asked, waiting>>

ApplyLate(s) ==
    /\ s \in late
    /\ late' = late \ {s} /\ applied' = Append(applied, s)
    /\ UNCHANGED <<asked, waiting, serving>>

\* The actor stops.
Drop ==
    /\ waiting' = {}
    /\ UNCHANGED <<asked, serving, late, applied>>

Next ==
    \/ \E s \in Sets : Ask(s) \/ Take(s) \/ ApplyLate(s)
    \/ Finish \/ Drop

Spec == Init /\ [][Next]_vars
=============================================================================
