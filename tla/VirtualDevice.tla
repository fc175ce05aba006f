--------------------------- MODULE VirtualDevice ---------------------------
(***************************************************************************)
(* examples/virtual_device.cpp on top of class local_hcd: the background   *)
(* thread turns port reports into works with triggers and keeps status and *)
(* address; the main thread takes the works later, one by one, and answers *)
(* them.  Memory and the waiting of the main thread are left to LocalHcd   *)
(* and WorkSignal; here it matters what the port does meanwhile.           *)
(***************************************************************************)
EXTENDS PortHub, Sequences

CONSTANTS
    OtherRequests,  \* requests that other threads of a program make
    MaxOthers       \* bound: how many of them

ASSUME MaxOthersAssumption == MaxOthers \in Nat
ASSUME OtherRequestsAssumption == OtherRequests \subseteq PortRequests

(* The device has endpoint 0 only, and the usb core gives out addresses up *)
(* to 127: a SET_ADDRESS above that the example would acknowledge, and the *)
(* library ignore.                                                         *)
ASSUME DeviceUrbsAssumption ==
    \A k \in Urbs : k.epadr \in {0, 128} /\ (IsSetAddress(k) => k.val <= MaxAddress)

VARIABLES
    bg, wk,         \* where the background thread is, and what it has fetched
    stat, adr,      \* local_hcd::port_info
    inbox,          \* hcd::inbox
    main, work,     \* where the main thread is, and its work
    todo,           \* what the report in work still asks for
    others,         \* number of requests of other threads
    unplugged       \* history: another thread has pulled the device out

bgVars   == <<bg, wk>>
portVars == <<stat, adr>>
mainVars == <<main, work, todo>>
devVars  == <<bgVars, portVars, inbox, mainVars>>
vars     == <<hubVars, devVars, others, unplugged>>

Ended == main = "failed"
Idle  == bg = "fetch" /\ inbox = <<>> /\ main = "idle"

None     == [kind |-> "none"]
Reported == [kind : {"stat"}, stat : PortStats]
Works    == [kind : {"stat"}, triggers : SUBSET TriggerFlags]
            \cup [kind : {"urb"}, urb : KernelUrbs, canceled : BOOLEAN]
            \cup [kind : {"cancel"}]

TypeOK ==
    /\ HubTypeOK
    /\ bg \in {"fetch", "stat", "data", "route", "cancel"}
    /\ wk \in {None} \cup Reported \cup [kind : {"urb"}, urb : KernelUrbs]
    /\ stat \in PortStats /\ adr \in Addresses \cup {NoAdr}
    /\ inbox \in Seq(Works)
    /\ main \in {"idle", "answer", "call", "failed"}
    /\ work \in Works \cup {None}
    /\ todo \in Seq({Connect("full"), ResetCompleted(TRUE), Resumed})
    /\ others \in 0..MaxOthers /\ unplugged \in BOOLEAN

Init ==
    /\ HubInit
    /\ bg = "fetch" /\ wk = None
    /\ stat = ZeroStat /\ adr = NoAdr /\ inbox = <<>>
    /\ main = "idle" /\ work = None /\ todo = <<>>
    /\ others = 0 /\ unplugged = FALSE

-----------------------------------------------------------------------------
(* The background thread.                                                  *)

FetchStat ==
    /\ bg = "fetch" /\ pending
    /\ pending' = FALSE
    /\ wk' = [kind |-> "stat", stat |-> port] /\ bg' = "stat"
    /\ UNCHANGED <<port, commands, urb, coreAdr, hasty, doubt, portVars, inbox, mainVars>>

\* Mutation: a reset does not make the address 0.
AdrAfterConnection(st) == IF ConnectionChanged(st) THEN NoAdr ELSE adr

AdrAfter(st) ==
    IF ResetDone(st) THEN 0 ELSE IF ConnectionChanged(st) THEN NoAdr ELSE adr

\* Mutation: the triggers are computed after the status was stored.
ReportedTriggersLate(st) == Triggers(st, st)

ReportedTriggers(st) == Triggers(st, stat)

EnqueueStat ==
    /\ bg = "stat"
    /\ inbox' = Append(inbox, [kind |-> "stat", triggers |-> ReportedTriggers(wk.stat)])
    /\ stat' = wk.stat /\ adr' = AdrAfter(wk.stat)
    /\ bg' = "fetch" /\ wk' = None
    /\ UNCHANGED <<hubVars, mainVars>>

FetchUrb ==
    /\ bg = "fetch" /\ urb.state = "queued"
    /\ urb' = [urb EXCEPT !.state = "fetched"]
    /\ wk' = [kind |-> "urb", urb |-> FromKernel(urb.urb)]
    /\ bg' = IF NeedsData(wk'.urb) THEN "data" ELSE "route"
    /\ UNCHANGED <<port, pending, commands, coreAdr, hasty, doubt, portVars, inbox, mainVars>>

FetchData ==
    /\ bg = "data"
    /\ IF urb.state = "fetched"
       THEN bg' = "route" /\ UNCHANGED <<wk, urb>>
       ELSE bg' = "fetch" /\ wk' = None /\ urb' = NoUrb
    /\ UNCHANGED <<port, pending, commands, coreAdr, hasty, doubt, portVars, inbox, mainVars>>

(* port_from_address, and the address that a SET_ADDRESS assigns; an urb   *)
(* for another address is let go of.                                       *)
Route ==
    /\ bg = "route"
    /\ IF wk.urb.devadr # adr
       THEN UNCHANGED <<adr, inbox>>
       ELSE /\ inbox' = Append(inbox, [kind |-> "urb", urb |-> wk.urb, canceled |-> FALSE])
            /\ adr' = IF IsSetAddress(wk.urb) /\ wk.urb.val <= MaxAddress
                      THEN wk.urb.val ELSE adr
    /\ bg' = "fetch" /\ wk' = None
    /\ UNCHANGED <<hubVars, stat, mainVars>>

FetchCancel ==
    /\ bg = "fetch" /\ urb.state = "unlinked"
    /\ urb' = [urb EXCEPT !.state = "canceling"]
    /\ bg' = "cancel"
    /\ UNCHANGED <<port, pending, commands, coreAdr, hasty, doubt, wk, portVars, inbox, mainVars>>

Canceled(w) == w.kind = "urb" /\ w.canceled

AliveUrbs == {i \in DOMAIN inbox : inbox[i].kind = "urb" /\ ~Canceled(inbox[i])}

(* cancel_process_urb_work: an urb in the inbox is given back, for one in  *)
(* progress a cancel work is queued.  The core waits for one urb at a time,*)
(* so there is one that is not canceled.                                   *)
Cancel ==
    /\ bg = "cancel" /\ bg' = "fetch"
    /\ \/ \E i \in AliveUrbs :
             inbox' = [inbox EXCEPT ![i].canceled = TRUE] /\ Giveback("CANCELED")
       \/ /\ AliveUrbs = {} /\ work.kind = "urb"
          /\ inbox' = Append(inbox, [kind |-> "cancel"]) /\ UNCHANGED hubVars
       \/ AliveUrbs = {} /\ work.kind # "urb" /\ UNCHANGED <<inbox, hubVars>>
    /\ UNCHANGED <<wk, portVars, mainVars>>

-----------------------------------------------------------------------------
(* The main thread.                                                        *)

When(condition, q) == IF condition THEN <<q>> ELSE <<>>

\* Mutation: the device is connected at the wrong rate.
AnswersLow(triggers) ==
    When("POWER_ON" \in triggers, Connect("low"))
    \o When("RESET" \in triggers, ResetCompleted(TRUE))
    \o When("RESUMING" \in triggers, Resumed)

\* Mutation: a suspend is taken for a resume.
AnswersSuspend(triggers) ==
    When("POWER_ON" \in triggers, Connect("full"))
    \o When("RESET" \in triggers, ResetCompleted(TRUE))
    \o When("SUSPEND" \in triggers, Resumed)

Answers(triggers) ==
    When("POWER_ON" \in triggers, Connect("full"))
    \o When("RESET" \in triggers, ResetCompleted(TRUE))
    \o When("RESUMING" \in triggers, Resumed)

(* next_work skips and deletes what was canceled.                          *)
NextWork ==
    /\ main = "idle"
    /\ \E i \in DOMAIN inbox :
          /\ ~Canceled(inbox[i]) /\ \A j \in 1..(i - 1) : Canceled(inbox[j])
          /\ work' = inbox[i]
          /\ inbox' = SubSeq(inbox, i + 1, Len(inbox))
    /\ todo' = IF work'.kind = "stat" THEN Answers(work'.triggers) ELSE <<>>
    /\ main' = "answer"
    /\ UNCHANGED <<hubVars, bgVars, portVars>>

NextWorkNone ==
    /\ main = "idle" /\ inbox # <<>>
    /\ \A i \in DOMAIN inbox : Canceled(inbox[i])
    /\ inbox' = <<>>
    /\ UNCHANGED <<hubVars, bgVars, portVars, mainVars>>

(* A reset or a resume is answered only for a port that has a device now,  *)
(* as get_port_stat tells.                                                 *)
Pointless(q) == q # Connect("full") /\ "CONNECTION" \notin stat.status

Decide ==
    /\ main = "answer" /\ todo # <<>>
    /\ IF Pointless(Head(todo))
       THEN todo' = Tail(todo) /\ UNCHANGED main
       ELSE main' = "call" /\ UNCHANGED todo
    /\ UNCHANGED <<hubVars, bgVars, portVars, inbox, work>>

Call ==
    /\ main = "call" /\ Request(Head(todo))
    /\ todo' = Tail(todo) /\ main' = "answer"
    /\ UNCHANGED <<commands, hasty, bgVars, portVars, inbox, work>>

(* The request is refused: local_hcd throws, and main does not catch it.   *)
CallThrows ==
    /\ main = "call" /\ ~Accepts(Head(todo))
    /\ main' = "failed"
    /\ UNCHANGED <<hubVars, bgVars, portVars, inbox, work, todo>>

(* process_urb; it acknowledges every SET_ADDRESS, and a request for a     *)
(* string ends with the stall of the default case.                         *)
ProcessUrb(k) ==
    IF k.type # "CONTROL" THEN "PENDING"
    ELSE IF /\ EndpointNumber(k) = 0
            /\ \/ k.rt = 0 /\ k.r \in {5, 9, 11}
               \/ k.rt = 128 /\ k.r = 6 /\ k.val \div 256 \in {1, 2}
         THEN "SUCCESS" ELSE "STALL"

(* finish_work.                                                            *)
Finish ==
    /\ main = "answer" /\ todo = <<>>
    /\ IF work.kind = "urb" THEN Giveback(ProcessUrb(work.urb)) ELSE UNCHANGED hubVars
    /\ main' = "idle" /\ work' = None
    /\ UNCHANGED <<bgVars, portVars, inbox, todo>>

(* A request of another thread, for any port number; one that is refused   *)
(* throws there.                                                           *)
OtherThread ==
    \E p \in 0..2, q \in OtherRequests :
        /\ others < MaxOthers /\ others' = others + 1
        /\ IF p = 1 /\ Accepts(q)
           THEN /\ Request(q) /\ hasty' = (hasty \/ ~Settled(Idle))
                /\ unplugged' = IF "C_CONNECTION" \in q.change THEN q = Disconnect
                                ELSE unplugged
           ELSE UNCHANGED <<port, pending, urb, coreAdr, hasty, doubt, unplugged>>
        /\ UNCHANGED <<commands, devVars>>

-----------------------------------------------------------------------------
BgStep ==
    /\ \/ FetchStat \/ EnqueueStat \/ FetchUrb \/ FetchData \/ Route \/ FetchCancel
       \/ Cancel
    /\ ~Ended /\ UNCHANGED <<others, unplugged>>

MainStep ==
    /\ NextWork \/ NextWorkNone \/ Decide \/ Call \/ CallThrows \/ Finish
    /\ UNCHANGED <<others, unplugged>>

CoreStep ==
    /\ Core(Idle) /\ unplugged' = (unplugged /\ "POWER" \in port'.status)
    /\ ~Ended /\ UNCHANGED <<devVars, others>>

(* The threads wait for work, or std::terminate was called.                *)
Waiting == (Idle \/ Ended) /\ UNCHANGED vars

Next == BgStep \/ MainStep \/ CoreStep \/ (~Ended /\ OtherThread) \/ Waiting

(* Both threads are scheduled; nothing is assumed of the core and of other *)
(* threads.                                                                *)
Spec == Init /\ [][Next]_vars /\ WF_vars(BgStep) /\ WF_vars(MainStep)

-----------------------------------------------------------------------------
(* As for the C example, though the address belongs to the background      *)
(* thread and changes when a work is queued, not when it is handled.       *)
AddressAgreed ==
    Settled(Idle) /\ ~hasty /\ ~doubt /\ coreAdr # NoAdr => adr = coreAdr

(* The main thread answers a report that may be old, but looks at the      *)
(* current status before it completes a reset or a resume: an exception    *)
(* ends the program only if the port changed again before it was handled.  *)
RefusedOnlyIfHasty == Ended => hasty

(* The port does not wait for ever for the device: no trigger is lost      *)
(* between the reports, the inbox and the main thread.                     *)
PortWaits ==
    \/ "POWER" \in port.status /\ "CONNECTION" \notin port.status /\ ~unplugged
    \/ "RESET" \in port.status
    \/ port.resuming

PortAnswered == PortWaits ~> ~PortWaits \/ hasty \/ Ended

(* Every request the core does not give up is answered.                    *)
UrbAnswered ==
    urb.state \in {"queued", "fetched"} ~>
        urb.state \notin {"queued", "fetched"} \/ hasty \/ doubt \/ Ended
=============================================================================
