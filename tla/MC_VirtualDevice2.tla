------------------------- MODULE MC_VirtualDevice2 -------------------------
(***************************************************************************)
(* Small instances of VirtualDevice2 for TLC.                              *)
(***************************************************************************)
EXTENDS VirtualDevice2

Control(epadr, rt, r, val, len) ==
    [type |-> "CONTROL", epadr |-> epadr, devadr |-> 0, rt |-> rt, r |-> r,
     val |-> val, len |-> len, pkts |-> 0]

SetAddress(a) == Control(0, 0, 5, a, 0)
GetDevice     == Control(128, 128, 6, 256, 18)
SetReport     == Control(0, 33, 9, 0, 8)        \* has data to fetch
Endpoint8     == Control(8, 0, 5, 1, 0)         \* a SET_ADDRESS to no endpoint

UrbsControl == {SetAddress(1), SetAddress(200), GetDevice, SetReport, Endpoint8}
UrbsData    == {SetReport}
=============================================================================
