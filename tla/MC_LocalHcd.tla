---------------------------- MODULE MC_LocalHcd ----------------------------
(***************************************************************************)
(* Small instances of LocalHcd for TLC.                                    *)
(***************************************************************************)
EXTENDS LocalHcdProperties, TLC

UrbTo(a, type, epadr, len, pkts) ==
    [type |-> type, epadr |-> epadr, devadr |-> a, rt |-> 0, r |-> 0, val |-> 0,
     len |-> len, pkts |-> pkts]

BulkOut == UrbTo(0, "BULK", 2, 64, 0)        \* has data to fetch
BulkIn  == UrbTo(0, "BULK", 129, 64, 0)      \* has none
IsoIn   == UrbTo(0, "ISO", 131, 64, 2)
IsoBare == UrbTo(0, "ISO", 131, 0, 2)        \* packets, but no buffer
Alien   == UrbTo(0, "OTHER", 2, 64, 0)
Lost    == UrbTo(9, "BULK", 2, 64, 0)        \* no port has address 9
In1     == [BulkIn EXCEPT !.devadr = 1]
SetAddress(a) ==
    [UrbTo(0, "CONTROL", 0, 0, 0) EXCEPT !.r = 5, !.val = a]

Report(p, status, change) ==
    [port |-> p,
     stat |-> [status |-> status, change |-> change, resuming |-> FALSE]]

Removed(p)   == Report(p, {"POWER"}, {"C_CONNECTION"})
Resetting(p) == Report(p, {"POWER", "CONNECTION", "RESET"}, {})
Enabled(p)   == Report(p, {"POWER", "CONNECTION", "ENABLE"}, {"C_RESET"})

UrbsAll     == {BulkOut, BulkIn, IsoIn, Alien, Lost}
UrbsNoMem   == {IsoIn, IsoBare}
UrbsOut     == {BulkOut}
UrbsLost    == {Lost}
UrbsAddress == {SetAddress(1), SetAddress(200), In1}

ReportsEnable == {Enabled(1)}
ReportsPorts  == {Enabled(1), Enabled(2), Removed(1), Report(0, {}, {})}
ReportsEdges  == {Resetting(1), Enabled(1), Removed(1)}

HandleSymmetry == Permutations(Handles)
=============================================================================
