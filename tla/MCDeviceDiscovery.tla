------------------------- MODULE MCDeviceDiscovery -------------------------
(* Small inverters and meters: the blocks of the devices the README lists, *)
(* some of them missing, in both orders, far away, or with a false length. *)
EXTENDS DeviceDiscovery, FiniteSets, SequencesExt

\* The lengths of the SunSpec models.
Lengths == [id \in {1, 103, 120, 122, 123, 124, 160, 203} |->
    CASE id = 1 -> 65 [] id = 103 -> 50 [] id = 120 -> 26 [] id = 122 -> 44
      [] id = 123 -> 24 [] id = 124 -> 24 [] id = 160 -> 88 [] id = 203 -> 105]

Layout(ids) == [i \in DOMAIN ids |-> [id |-> ids[i], length |-> Lengths[ids[i]], says |-> Lengths[ids[i]]]]

Device(ids, battery, modules) ==
    [sunspec |-> TRUE, blocks |-> Layout(ids), battery |-> battery, modules |-> modules]

AllIds == <<1, 103, 120, 122, 123, 160, 124>>

Incomplete ==
    LET without(ids) == SelectSeq(AllIds, LAMBDA id : id \notin ids)
    IN  {without(ids) : ids \in {s \in SUBSET {1, 103, 122, 123, 124, 160} : Cardinality(s) <= 2}}

Far(ids, unknown, last) == ids \o [i \in 1 .. unknown |-> 120] \o last

\* The last block leads back to the first one, or to itself.
Lying(says) ==
    [Device(<<1, 103, 122, 160, 120>>, FALSE, 1) EXCEPT !.blocks[5].says = says]

MCInverters ==
    {Device(ids, TRUE, 3) : ids \in Incomplete}
      \cup {Device(Reverse(ids), TRUE, 4) : ids \in Incomplete}
      \cup {Device(AllIds, FALSE, modules) : modules \in 1 .. 2}
      \cup {Device(Far(<<1, 103, 160>>, unknown, <<122>>), FALSE, 1) : unknown \in 18 .. 19}
      \cup {Lying(says) : says \in {Addresses - 2, Addresses - 257, 24}}
      \cup {[Device(AllIds, TRUE, 3) EXCEPT !.sunspec = FALSE]}

MCMeters ==
    {Device(ids, FALSE, 0) :
        ids \in {<<1, 203>>, <<203, 1>>, <<1>>, Far(<<1>>, 10, <<203>>), Far(<<1>>, 11, <<203>>)}}
      \cup {NoMeter}
=============================================================================
