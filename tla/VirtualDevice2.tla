--------------------------- MODULE VirtualDevice2 ---------------------------
(***************************************************************************)
(* examples/virtual_device2.c: one thread reads work from the driver,      *)
(* answers port reports and control requests, and keeps the address of the *)
(* device itself.  Every ioctl is a step, as the usb core may act between  *)
(* any two of them.                                                        *)
(***************************************************************************)
EXTENDS PortHub, Sequences

VARIABLES
    pc,
    stat, adr,      \* the variables of main
    todo,           \* what the report in hand still asks for
    status,         \* w.work.urb.status
    buffers         \* w.work.urb.buffer and iso_packets

devVars == <<pc, stat, adr, todo, status, buffers>>
vars == <<hubVars, devVars>>

Ended == pc \in {"returned", "crashed"}

TypeOK ==
    /\ HubTypeOK
    /\ pc \in {"fetch", "answer", "data", "giveback", "free", "returned", "crashed"}
    /\ stat \in PortStats /\ adr \in Addresses \cup {NoAdr}
    /\ todo \in Seq({Connect("full"), ResetCompleted(TRUE), Resumed})
    /\ status \in {"PENDING", "SUCCESS", "STALL"}
    /\ buffers \in {"none", "live", "freed"}

Init ==
    /\ HubInit
    /\ pc = "fetch" /\ stat = ZeroStat /\ adr = NoAdr /\ todo = <<>>
    /\ status = "PENDING" /\ buffers = "none"

-----------------------------------------------------------------------------
(* Port reports.                                                           *)

When(condition, q) == IF condition THEN <<q>> ELSE <<>>

\* Mutation: a suspend is taken for a resume.
AnswersSuspend(st, prev) ==
    When(Rises("POWER", st, prev), Connect("full"))
    \o When(Rises("RESET", st, prev) /\ "CONNECTION" \in st.status, ResetCompleted(TRUE))
    \o When(Rises("SUSPEND", st, prev) /\ "CONNECTION" \in st.status, Resumed)

\* Mutation: the report of a resume is not answered.
AnswersWithoutResume(st, prev) ==
    When(Rises("POWER", st, prev), Connect("full"))
    \o When(Rises("RESET", st, prev) /\ "CONNECTION" \in st.status, ResetCompleted(TRUE))

(* The requests a report leads to, by its edges against the one before it. *)
Answers(st, prev) ==
    When(Rises("POWER", st, prev), Connect("full"))
    \o When(Rises("RESET", st, prev) /\ "CONNECTION" \in st.status, ResetCompleted(TRUE))
    \o When(st.resuming /\ ~prev.resuming /\ "CONNECTION" \in st.status, Resumed)

\* Mutation: a reset does not make the address 0.
AdrAfterConnection(st) == IF ConnectionChanged(st) THEN NoAdr ELSE adr

AdrAfter(st) ==
    IF ResetDone(st) THEN 0 ELSE IF ConnectionChanged(st) THEN NoAdr ELSE adr

FetchStat ==
    /\ pc = "fetch" /\ pending
    /\ pending' = FALSE
    /\ stat' = port /\ adr' = AdrAfter(port)
    /\ todo' = Answers(port, stat)
    /\ pc' = IF todo' = <<>> THEN "fetch" ELSE "answer"
    /\ UNCHANGED <<port, commands, urb, coreAdr, hasty, doubt, status, buffers>>

Answer ==
    /\ pc = "answer" /\ Request(Head(todo))
    /\ todo' = Tail(todo)
    /\ pc' = IF todo' = <<>> THEN "fetch" ELSE "answer"
    /\ UNCHANGED <<commands, hasty, stat, adr, status, buffers>>

(* A request is refused: main returns 1. *)
AnswerRefused ==
    /\ pc = "answer" /\ ~Accepts(Head(todo))
    /\ pc' = "returned"
    /\ UNCHANGED <<hubVars, stat, adr, todo, status, buffers>>

-----------------------------------------------------------------------------
(* Requests to the device.                                                 *)

AtEndpoint0(k) == k.epadr % 128 = 0

IsSetAddress2(k) ==
    k.type = "CONTROL" /\ AtEndpoint0(k) /\ k.rt = 0 /\ k.r = 5

(* process_urb; a request for a string ends with the stall of the default  *)
(* case, since its own case does not break.                                *)
ProcessUrb(k) ==
    IF k.type # "CONTROL" THEN "PENDING"
    ELSE IF /\ AtEndpoint0(k)
            /\ \/ k.rt = 0 /\ k.r \in {9, 11}
               \/ k.rt = 128 /\ k.r = 6 /\ k.val \div 256 \in {1, 2}
         THEN "SUCCESS" ELSE "STALL"

\* Mutation: the test for wValue > 0x7f is missing.
ProcessUnchecked(k) ==
    IF ~IsSetAddress2(k)
    THEN status' = ProcessUrb(k) /\ UNCHANGED adr
    ELSE status' = "SUCCESS" /\ adr' = k.val

(* The status given back, and the address that a SET_ADDRESS assigns.      *)
Process(k) ==
    IF ~IsSetAddress2(k)
    THEN status' = ProcessUrb(k) /\ UNCHANGED adr
    ELSE IF k.val > MaxAddress
         THEN status' = "STALL" /\ UNCHANGED adr
         ELSE status' = "SUCCESS" /\ adr' = k.val

(* An urb for another address is let go of.                                *)
NotForMe ==
    /\ pc = "fetch" /\ urb.state = "queued" /\ urb.urb.devadr # adr
    /\ urb' = [urb EXCEPT !.state = "fetched"]
    /\ UNCHANGED <<port, pending, commands, coreAdr, hasty, doubt, devVars>>

FetchUrb ==
    /\ pc = "fetch" /\ urb.state = "queued" /\ urb.urb.devadr = adr
    /\ urb' = [urb EXCEPT !.state = "fetched"]
    /\ buffers' = IF urb.urb.len # 0 \/ FromKernel(urb.urb).pkts # 0 THEN "live" ELSE "none"
    /\ IF NeedsData(FromKernel(urb.urb))
       THEN pc' = "data" /\ UNCHANGED <<adr, status>>
       ELSE pc' = "giveback" /\ Process(urb.urb)
    /\ UNCHANGED <<port, pending, commands, coreAdr, hasty, doubt, stat, todo>>

FetchData ==
    /\ pc = "data" /\ urb.state = "fetched"
    /\ pc' = "giveback" /\ Process(urb.urb)
    /\ UNCHANGED <<hubVars, stat, todo, buffers>>

(* With ECANCELED the driver has completed the urb; with any other errno it*)
(* waits on.  In both cases the buffers are freed, and the urb is processed*)
(* and given back all the same.                                            *)
FetchDataFails ==
    /\ pc = "data"
    /\ (urb.state = "unlinked" /\ urb' = NoUrb) \/ UNCHANGED urb
    /\ buffers' = "freed"
    /\ pc' = "giveback" /\ Process(urb.urb)
    /\ UNCHANGED <<port, pending, commands, coreAdr, hasty, doubt, stat, todo>>

GivebackUrb ==
    /\ pc = "giveback" /\ Giveback(status)
    /\ pc' = "free"
    /\ UNCHANGED <<stat, adr, todo, status, buffers>>

(* Freeing what is free already may end the process, or go unnoticed.      *)
Free ==
    /\ pc = "free"
    /\ pc' \in IF buffers = "freed" THEN {"fetch", "crashed"} ELSE {"fetch"}
    /\ buffers' = "none" /\ status' = "PENDING"
    /\ UNCHANGED <<hubVars, stat, adr, todo>>

(* A notice of a cancel is only printed.                                   *)
FetchCancel ==
    /\ pc = "fetch" /\ urb.state = "unlinked"
    /\ urb' = [urb EXCEPT !.state = "canceling"]
    /\ UNCHANGED <<port, pending, commands, coreAdr, hasty, doubt, devVars>>

(* usb_vhci_fetch_work returns -1: a timeout.                              *)
FetchNothing == pc = "fetch" /\ UNCHANGED vars

-----------------------------------------------------------------------------
Loop == \/ FetchStat \/ Answer \/ AnswerRefused
        \/ NotForMe \/ FetchUrb \/ FetchData \/ FetchDataFails \/ GivebackUrb \/ Free
        \/ FetchCancel

CoreStep == ~Ended /\ Core(pc = "fetch") /\ UNCHANGED devVars

Terminated == Ended /\ UNCHANGED vars

Next == Loop \/ FetchNothing \/ CoreStep \/ Terminated

(* The program runs; nothing is assumed of the usb core.                   *)
Spec == Init /\ [][Next]_vars /\ WF_vars(Loop)

-----------------------------------------------------------------------------
(* The device and the usb core agree on its address whenever all is        *)
(* settled, unless the core acted before a change was reported, or has     *)
(* given up a SET_ADDRESS since the last reset: the address in the program *)
(* changes with reports and with requests, at different moments than in the*)
(* core.  So no request to the device is taken for another device's.       *)
AddressAgreed ==
    Settled(pc = "fetch") /\ ~hasty /\ ~doubt /\ coreAdr # NoAdr => adr = coreAdr

(* The program gives up (return 1) only if the port has changed after the  *)
(* report it answers.                                                      *)
RefusedOnlyIfHasty == pc = "returned" => hasty

(* The port waits for the device: to be plugged in, to complete a reset or *)
(* a resume.  It does not wait for ever, although the program sees edges   *)
(* between reports only.                                                   *)
Waiting ==
    \/ "POWER" \in port.status /\ "CONNECTION" \notin port.status
    \/ "RESET" \in port.status
    \/ port.resuming

PortAnswered == Waiting ~> ~Waiting \/ hasty \/ Ended

(* Every request the core does not give up is answered.                    *)
UrbAnswered ==
    urb.state \in {"queued", "fetched"} ~>
        urb.state \notin {"queued", "fetched"} \/ hasty \/ doubt \/ Ended

(* The buffers of an urb are used and freed only while they are allocated. *)
BuffersLive == pc \in {"giveback", "free"} => buffers # "freed"
=============================================================================
