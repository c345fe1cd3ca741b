------------------------------- MODULE Survey -------------------------------
(***************************************************************************)
(* The walk over the register blocks of a SunSpec device when it is opened *)
(* (client_inverter_intsf_survey.go, client_acmeter_intsf.go), and what is *)
(* read through the blocks it finds: whether a battery is connected and    *)
(* which modules hold the power of the panels and of the battery.          *)
(*                                                                         *)
(* A device is [sunspec |-> it has the mark of one, blocks |-> a sequence  *)
(* of [id, length, says], battery |-> one is connected, modules |-> those  *)
(* of its MPPT block]: says is the length a block reports, length the      *)
(* registers it takes.  The end block follows the last one.  A register    *)
(* holds zero where the code does not look.                                *)
(***************************************************************************)
EXTENDS Integers, Sequences

Addresses == 2 ^ 16
FirstBlock == 40002
EndBlock == 65535

InverterBlocks ==
    [common |-> {1}, inverter |-> 101 .. 103, status |-> {122}, controls |-> {123},
     storage |-> {124}, mppt |-> {160}]
MeterBlocks == [common |-> {1}, acMeter |-> 201 .. 204]

InverterRequired == {"common", "inverter", "status", "mppt"}
MeterRequired == {"common", "acMeter"}

\* The walk ends after two blocks more than its counter allows.
InverterLimit == 20
MeterLimit == 10

(* The device *)

\* The blocks and the end block, and where each of them starts.
Blocks(device) == Append(device.blocks, [id |-> EndBlock, length |-> 0, says |-> 0])

Starts(blocks) ==
    LET start[i \in DOMAIN blocks] ==
            IF i = 1 THEN FirstBlock ELSE start[i - 1] + 2 + blocks[i - 1].length
    IN  start

\* What may be connected: its blocks are within the 16-bit addresses, and that of
\* its state (model 122) is long enough for the register that tells of a battery.
\* The length that a block reports may be any.
IsDevice(device) ==
    /\ device \in [sunspec : BOOLEAN, battery : BOOLEAN, modules : 0 .. Addresses - 1,
                   blocks : Seq([id : 0 .. EndBlock - 1, length : Nat, says : 0 .. Addresses - 1])]
    /\ \A i \in DOMAIN device.blocks : device.blocks[i].id = 122 => device.blocks[i].length >= 2
    /\ Starts(Blocks(device))[Len(device.blocks) + 1] + 1 < Addresses

Holds(device, id, offset) ==
    CASE id = 122 /\ offset = 3 -> IF device.battery THEN 1 ELSE 0
      [] id = 160 /\ offset = 8 -> device.modules
      [] OTHER -> 0

Unreadable == -1

ReadRegister(device, address) ==
    LET blocks == Blocks(device)
        start == Starts(blocks)
        in == {i \in DOMAIN blocks : address \in start[i] .. start[i] + blocks[i].length + 1}
        block == CHOOSE i \in in : TRUE
    IN  IF in = {} THEN Unreadable
        ELSE CASE address = start[block] -> blocks[block].id
               [] address = start[block] + 1 -> blocks[block].says
               [] OTHER -> Holds(device, blocks[block].id, address - start[block])

(* The walk *)

AllBlocksDefined(found) == \A kind \in DOMAIN found : found[kind] > 0

\* Mutant: the header of a block is counted as one register.
VisitedShort(device, kinds, walk) ==
    LET id == ReadRegister(device, walk.at)
        length == ReadRegister(device, (walk.at + 1) % Addresses)
    IN  IF Unreadable \in {id, length} THEN [walk EXCEPT !.ended = TRUE, !.failed = TRUE]
        ELSE IF id = EndBlock THEN [walk EXCEPT !.ended = TRUE]
        ELSE LET found == [kind \in DOMAIN kinds |->
                              IF id \in kinds[kind] THEN walk.at ELSE walk.found[kind]]
             IN  [at |-> (walk.at + length + 1) % Addresses,
                  found |-> found, ended |-> AllBlocksDefined(found), failed |-> FALSE]

\* One block: its address is kept under what it is, and the next one follows.
Visited(device, kinds, walk) ==
    LET id == ReadRegister(device, walk.at)
        length == ReadRegister(device, (walk.at + 1) % Addresses)
    IN  IF Unreadable \in {id, length} THEN [walk EXCEPT !.ended = TRUE, !.failed = TRUE]
        ELSE IF id = EndBlock THEN [walk EXCEPT !.ended = TRUE]
        ELSE LET found == [kind \in DOMAIN kinds |->
                              IF id \in kinds[kind] THEN walk.at ELSE walk.found[kind]]
             IN  [at |-> (walk.at + length + 2) % Addresses,
                  found |-> found, ended |-> AllBlocksDefined(found), failed |-> FALSE]

\* Where the walk is after each of its steps.
Walks(device, kinds, limit) ==
    LET none == [at |-> FirstBlock, found |-> [kind \in DOMAIN kinds |-> 0],
                 ended |-> FALSE, failed |-> FALSE]
        after[n \in 0 .. limit + 2] ==
            IF n = 0 THEN none
            ELSE LET walk == after[n - 1]
                 IN  IF walk.ended THEN walk ELSE Visited(device, kinds, walk)
    IN  after

Walk(device, kinds, limit) == Walks(device, kinds, limit)[limit + 2]

\* The blocks found, of no device if one that is needed is not among them.
Surveyed(device, kinds, required, limit) ==
    LET walk == Walk(device, kinds, limit)
    IN  IF device.sunspec /\ ~walk.failed /\ \A kind \in required : walk.found[kind] > 0
        THEN {walk.found} ELSE {}

InverterSurvey(device) == Surveyed(device, InverterBlocks, InverterRequired, InverterLimit)
MeterSurvey(device) == Surveyed(device, MeterBlocks, MeterRequired, MeterLimit)

(* What is read through the blocks *)

\* Mutant: a storage block is taken for a battery.
HasStorageBlock(device, found) == found.storage > 0

HasStorage(device, found) ==
    /\ ReadRegister(device, found.status + 3) % 2 = 1
    /\ found.storage > 0

\* The modules whose power is the panels' and, of a battery, those whose power
\* is its charge and its discharge.
PVModules(modules) ==
    (IF modules > 0 THEN {0} ELSE {}) \cup (IF modules \in {2, 4} THEN {1} ELSE {})
BatteryModules(modules) ==
    IF modules \in {3, 4} THEN <<modules - 2, modules - 1>> ELSE <<>>
=============================================================================
