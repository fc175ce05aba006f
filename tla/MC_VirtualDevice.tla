-------------------------- MODULE MC_VirtualDevice --------------------------
(***************************************************************************)
(* Small instances of VirtualDevice for TLC.                               *)
(***************************************************************************)
EXTENDS VirtualDevice

Control(epadr, rt, r, val, len) ==
    [type |-> "CONTROL", epadr |-> epadr, devadr |-> 0, rt |-> rt, r |-> r,
     val |-> val, len |-> len, pkts |-> 0]

SetAddress(a) == Control(0, 0, 5, a, 0)
SetReport     == Control(0, 33, 9, 0, 8)        \* has data to fetch

UrbsControl == {SetAddress(1), SetReport}

Others == {Disconnect, Connect("low"), Disable, Overcurrent(TRUE), ResetCompleted(FALSE)}
=============================================================================
