------------------------------ MODULE PortHub ------------------------------
(***************************************************************************)
(* The root-hub port behind a device: the requests by which a program tells*)
(* the driver what the device does (usb_vhci_port_connect and its siblings,*)
(* and the functions of class local_hcd that call them), and, as far as the*)
(* examples rely on them, the hub of the driver and the usb core that works*)
(* with the port and sends control requests to the device.                 *)
(*                                                                         *)
(* FETCHWORK hands out the status the port has then: changes that happen   *)
(* before it is called are merged into one report.                         *)
(***************************************************************************)
EXTENDS PortStat, Urb

CONSTANTS
    Urbs,           \* control requests the usb core may send
    MaxCommands     \* bound: what the usb core does with the port

(* Endpoint 0 is an in endpoint only for what bmRequestType says is read.  *)
ASSUME HubUrbsAssumption ==
    Urbs \subseteq {k \in KernelUrbs : k.type = "CONTROL" /\ (IsIn(k) => k.rt >= 128)}
ASSUME MaxCommandsAssumption == MaxCommands \in Nat

NoAdr == 255        \* 0xff, "address not set"

VARIABLES
    port,           \* status of the port
    pending,        \* it has changed since the last report
    commands,       \* number of commands of the usb core
    urb,            \* the request the usb core waits for, or NoUrb
    coreAdr,        \* the address at which the usb core finds the device
    \* history
    hasty,          \* the usb core has not waited until all was settled
    doubt           \* a SET_ADDRESS was given up since the last reset

hubVars == <<port, pending, commands, urb, coreAdr, hasty, doubt>>

NoUrb     == [state |-> "none"]
UrbStates == {"queued", "fetched", "unlinked", "canceling"}

HubTypeOK ==
    /\ port \in PortStats /\ pending \in BOOLEAN
    /\ commands \in 0..MaxCommands
    /\ urb \in {NoUrb} \cup [state : UrbStates, urb : KernelUrbs]
    /\ coreAdr \in Addresses \cup {NoAdr}
    /\ hasty \in BOOLEAN /\ doubt \in BOOLEAN

HubInit ==
    /\ port = ZeroStat /\ pending = FALSE /\ commands = 0
    /\ urb = NoUrb /\ coreAdr = NoAdr
    /\ hasty = FALSE /\ doubt = FALSE

-----------------------------------------------------------------------------
(* The requests: the words that the library puts into the ioctl.           *)

SpeedBits(rate) ==
    {b \in {"LOW_SPEED", "HIGH_SPEED"} :
        rate = IF b = "LOW_SPEED" THEN "low" ELSE "high"}

Connect(rate) ==
    [status |-> {"CONNECTION"} \cup SpeedBits(rate), change |-> {"C_CONNECTION"}]
Disconnect == [status |-> {}, change |-> {"C_CONNECTION"}]
Disable    == [status |-> {}, change |-> {"C_ENABLE"}]
Resumed    == [status |-> {}, change |-> {"C_SUSPEND"}]
Overcurrent(set) ==
    [status |-> IF set THEN {"OVERCURRENT"} ELSE {}, change |-> {"C_OVERCURRENT"}]
ResetCompleted(enable) ==
    [status |-> IF enable THEN {"ENABLE"} ELSE {},
     change |-> {"C_RESET"} \cup IF enable THEN {} ELSE {"C_ENABLE"}]

PortRequests ==
    {Connect(rate) : rate \in {"low", "full", "high"}}
    \cup {Disconnect, Disable, Resumed}
    \cup {Overcurrent(set) : set \in BOOLEAN}
    \cup {ResetCompleted(enable) : enable \in BOOLEAN}

(* The hub takes a request that fits the state of the port.                *)
Accepts(q) ==
    /\ "POWER" \in port.status
    /\ "C_RESET" \in q.change => {"CONNECTION", "RESET"} \subseteq port.status
    /\ q.change = {"C_ENABLE"} => {"CONNECTION", "ENABLE"} \subseteq port.status
    /\ "C_SUSPEND" \in q.change => port.resuming

ClearedBy(c) ==
    CASE c = "C_CONNECTION"  -> StatusBits \ {"POWER", "OVERCURRENT"}
      [] c = "C_ENABLE"      -> {"ENABLE", "SUSPEND"}
      [] c = "C_SUSPEND"     -> {"SUSPEND"}
      [] c = "C_OVERCURRENT" -> {"OVERCURRENT"}
      [] c = "C_RESET"       -> {"RESET"}

(* USB_VHCI_HCD_IOCPORTSTAT.  The device is to be found at address 0 after *)
(* a reset that enabled the port.                                          *)
Request(q) ==
    /\ Accepts(q)
    /\ port' = [status   |-> (port.status \ UNION {ClearedBy(c) : c \in q.change})
                             \cup q.status,
                change   |-> port.change \cup q.change,
                resuming |-> port.resuming /\ q.change = {"C_OVERCURRENT"}]
    /\ pending' = TRUE
    /\ coreAdr' = IF "C_RESET" \in q.change /\ "ENABLE" \in q.status THEN 0
                  ELSE IF q.change \subseteq {"C_SUSPEND", "C_OVERCURRENT"} THEN coreAdr
                  ELSE NoAdr
    /\ doubt' = (doubt /\ q.change \subseteq {"C_SUSPEND", "C_OVERCURRENT", "C_ENABLE"})
    /\ UNCHANGED urb

-----------------------------------------------------------------------------
(* The usb core.  It is hasty when it acts before a change was reported and*)
(* handled, the change bits cleared, and its last request answered; idle   *)
(* tells that the program has handled all reports.  Haste is made up for by*)
(* switching the power off when the reports have been handled.             *)
Handled(idle) == idle /\ ~pending /\ urb = NoUrb
Settled(idle) == Handled(idle) /\ port.change = {}

Command ==
    /\ commands < MaxCommands
    /\ commands' = commands + 1

PortCommand(status, resuming, lost) ==
    /\ Command
    /\ port' = [port EXCEPT !.status = status, !.resuming = resuming]
    /\ pending' = TRUE
    /\ coreAdr' = IF lost THEN NoAdr ELSE coreAdr
    /\ UNCHANGED <<urb, doubt>>

PowerOn(idle) ==
    /\ "POWER" \notin port.status
    /\ PortCommand({"POWER"}, FALSE, TRUE)
    /\ hasty' = (hasty \/ ~Settled(idle))

PowerOff(idle) ==
    /\ "POWER" \in port.status
    /\ PortCommand({}, FALSE, TRUE)
    /\ hasty' = ~Handled(idle)

Reset(idle) ==
    /\ "CONNECTION" \in port.status /\ "RESET" \notin port.status
    /\ PortCommand((port.status \ {"ENABLE", "SUSPEND"}) \cup {"RESET"}, FALSE, TRUE)
    /\ hasty' = (hasty \/ ~Settled(idle))

Suspend(idle) ==
    /\ "ENABLE" \in port.status /\ "SUSPEND" \notin port.status
    /\ PortCommand(port.status \cup {"SUSPEND"}, FALSE, FALSE)
    /\ hasty' = (hasty \/ ~Settled(idle))

Resume(idle) ==
    /\ "SUSPEND" \in port.status /\ ~port.resuming
    /\ PortCommand(port.status, TRUE, FALSE)
    /\ hasty' = (hasty \/ ~Settled(idle))

(* It acknowledges the changes it has seen.                                *)
ClearChanges(idle) ==
    /\ port.change # {}
    /\ port' = [port EXCEPT !.change = {}]
    /\ pending' = TRUE
    /\ hasty' = (hasty \/ pending \/ ~idle)
    /\ UNCHANGED <<commands, urb, coreAdr, doubt>>

(* One control request at a time, to an enabled port.                      *)
Submit(idle, k) ==
    /\ coreAdr # NoAdr /\ urb = NoUrb
    /\ "ENABLE" \in port.status /\ "SUSPEND" \notin port.status
    /\ Command /\ hasty' = (hasty \/ ~Settled(idle))
    /\ urb' = [state |-> "queued", urb |-> [k EXCEPT !.devadr = coreAdr]]
    /\ UNCHANGED <<port, pending, coreAdr, doubt>>

AssignsAddress(k) == k.type = "CONTROL" /\ k.epadr = 0 /\ k.rt = 0 /\ k.r = 5

(* It gives up waiting; what user space has not fetched is gone at once.   *)
Unlink ==
    /\ urb.state \in {"queued", "fetched"}
    /\ IF urb.state = "queued"
       THEN urb' = NoUrb /\ UNCHANGED doubt
       ELSE /\ urb' = [urb EXCEPT !.state = "unlinked"]
            /\ doubt' = (doubt \/ AssignsAddress(urb.urb))
    /\ UNCHANGED <<port, pending, commands, coreAdr, hasty>>

(* USB_VHCI_HCD_IOCGIVEBACK; it is refused for an urb nobody waits for any *)
(* more, and does not touch the next one.                                  *)
Giveback(status) ==
    /\ urb' = IF urb.state = "queued" THEN urb ELSE NoUrb
    /\ coreAdr' = IF /\ urb.state = "fetched" /\ AssignsAddress(urb.urb)
                     /\ status = "SUCCESS" /\ coreAdr = urb.urb.devadr
                  THEN urb.urb.val ELSE coreAdr
    /\ UNCHANGED <<port, pending, commands, hasty, doubt>>

Core(idle) ==
    \/ PowerOn(idle) \/ PowerOff(idle) \/ Reset(idle) \/ Suspend(idle) \/ Resume(idle)
    \/ ClearChanges(idle)
    \/ \E k \in Urbs : Submit(idle, k)
    \/ Unlink
=============================================================================
