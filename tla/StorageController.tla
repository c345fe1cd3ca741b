-------------------------- MODULE StorageController --------------------------
(***************************************************************************)
(* What the battery control actor promises to those who look at the        *)
(* SetStorageControl requests it sends: a state that controls the battery  *)
(* stands for the parameters it sent last, leaving it releases the battery *)
(* or is a failure, and the answer that a request failed is never ignored  *)
(* while the state it belongs to goes on.  A failure releases nothing: the *)
(* instance that follows stands for no parameters, whatever the inverter   *)
(* was told before.                                                        *)
(***************************************************************************)
EXTENDS Integers

CONSTANTS
    Controls,   \* parameters that hold or charge the battery
    Release,    \* parameters that free it
    NoSet       \* nothing sent

VARIABLES
    controlling,   \* the battery is held or charged
    wanted,        \* the parameters the present instance sent last
    pending,       \* requests sent without an outcome
    upset          \* an error answer is still to be read

vars == <<controlling, wanted, pending, upset>>

Init ==
    /\ controlling = FALSE /\ wanted = NoSet
    /\ pending = 0 /\ upset = FALSE

\* A request of a state that starts to control the battery, or goes on to.
Control(p) ==
    /\ controlling' = TRUE /\ wanted' = p
    /\ pending' = pending + 1
    /\ UNCHANGED upset

\* The state is left, the battery released.
Leave ==
    /\ controlling
    /\ controlling' = FALSE /\ wanted' = Release
    /\ pending' = pending + 1
    /\ UNCHANGED upset

\* A request ends with an answer, an error answer or its time limit.
Complete(ok) ==
    /\ pending > 0
    /\ pending' = pending - 1
    /\ upset' = (upset \/ ~ok)
    /\ UNCHANGED <<controlling, wanted>>

\* The actor waited too long and makes an error answer itself.
GiveUp ==
    /\ upset' = TRUE
    /\ UNCHANGED <<controlling, wanted, pending>>

\* The actor fails, for this error answer or for another reason.
Fail ==
    /\ controlling' = FALSE /\ wanted' = NoSet
    /\ upset' \in BOOLEAN
    /\ UNCHANGED pending

\* An actor that sent nothing drops the answers to an earlier instance.
Ignore ==
    /\ wanted = NoSet
    /\ upset' = FALSE
    /\ UNCHANGED <<controlling, wanted, pending>>

Next ==
    \/ \E p \in Controls : Control(p)
    \/ Leave
    \/ \E ok \in BOOLEAN : Complete(ok)
    \/ GiveUp \/ Fail \/ Ignore

Spec == Init /\ [][Next]_vars
=============================================================================
