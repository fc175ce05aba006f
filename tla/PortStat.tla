------------------------------ MODULE PortStat ------------------------------
(***************************************************************************)
(* The status of a root-hub port as the kernel reports it: class           *)
(* usb::vhci::port_stat, and the edge detection between two successive     *)
(* reports, which the library implements twice (usb_vhci_port_stat_triggers*)
(* in C, the constructor of port_stat_work in C++).                        *)
(*                                                                         *)
(* A status or change word is the set of the bits that are 1 in it; of the *)
(* flags word only the RESUMING bit exists.                                *)
(***************************************************************************)

StatusBits == {"CONNECTION", "ENABLE", "SUSPEND", "OVERCURRENT", "RESET",
               "POWER", "LOW_SPEED", "HIGH_SPEED"}

ChangeBits == {"C_CONNECTION", "C_ENABLE", "C_SUSPEND", "C_OVERCURRENT",
               "C_RESET"}

PortStats == [status   : SUBSET StatusBits,
              change   : SUBSET ChangeBits,
              resuming : BOOLEAN]

(* What the default constructor of port_stat builds. *)
ZeroStat == [status |-> {}, change |-> {}, resuming |-> FALSE]

TriggerFlags == {"DISABLE", "SUSPEND", "RESUMING", "RESET", "POWER_ON",
                 "POWER_OFF"}

Rises(bit, stat, prev) == bit \in stat.status /\ bit \notin prev.status

Falls(bit, stat, prev) == Rises(bit, prev, stat)

(* The trigger flags the constructor of port_stat_work computes; the test  *)
(* for POWER_OFF is the else of the one for POWER_ON.                      *)
Triggers(stat, prev) ==
    {t \in TriggerFlags :
        \/ t = "DISABLE"   /\ Falls("ENABLE", stat, prev)
        \/ t = "SUSPEND"   /\ Rises("SUSPEND", stat, prev)
        \/ t = "RESUMING"  /\ stat.resuming /\ ~prev.resuming
        \/ t = "RESET"     /\ Rises("RESET", stat, prev)
        \/ t = "POWER_ON"  /\ Rises("POWER", stat, prev)
        \/ t = "POWER_OFF" /\ ~Rises("POWER", stat, prev) /\ Falls("POWER", stat, prev)}

(* What usb_vhci_port_stat_triggers computes, flag by flag.                *)
TriggersC(stat, prev) ==
    {t \in TriggerFlags :
        CASE t = "DISABLE"   -> "ENABLE" \notin stat.status /\ "ENABLE" \in prev.status
          [] t = "RESUMING"  -> stat.resuming /\ ~prev.resuming
          [] t = "POWER_OFF" -> "POWER" \notin stat.status /\ "POWER" \in prev.status
          [] t = "POWER_ON"  -> "POWER" \in stat.status /\ "POWER" \notin prev.status
          [] t = "SUSPEND"   -> "SUSPEND" \in stat.status /\ "SUSPEND" \notin prev.status
          [] t = "RESET"     -> "RESET" \in stat.status /\ "RESET" \notin prev.status}

(* The conditions under which bg_work changes the address of a port: the   *)
(* CONNECTION state has changed, or a RESET has ended with the port enabled*)
ConnectionChanged(stat) == "C_CONNECTION" \in stat.change

ResetDone(stat) ==
    /\ "C_RESET" \in stat.change
    /\ "RESET" \notin stat.status
    /\ "ENABLE" \in stat.status
=============================================================================
