------------------------------ MODULE LocalHcd ------------------------------
(***************************************************************************)
(* The host controller: class hcd (the work queues), class local_hcd (the  *)
(* background thread that reads work from the kernel driver, and the       *)
(* address of every port), the threads that use it, and, as far as the     *)
(* code relies on it, the kernel driver behind the ioctl calls.            *)
(*                                                                         *)
(* An action is one region between two points at which another thread or   *)
(* the kernel can interfere: a region under hcd::_lock, one ioctl, or one  *)
(* step of bg_work outside the lock.                                       *)
(***************************************************************************)
EXTENDS Integers, Sequences, FiniteSets, Functions, PortStat, Urb

CONSTANTS
    PortCount,      \* number of ports
    Handles,        \* the handles the kernel names its urbs by
    MaxSubmit,      \* how often a handle may be used: 1 makes handles unique
    UrbInputs,      \* requests the usb core may submit
    Reports,        \* port status reports the kernel may issue
    MaxReports,     \* bound: number of reports
    Cells,          \* addresses the heap can give out
    NoMem,          \* an allocation may fail although a cell is free, and
                    \* the driver may refuse the data of an urb for any errno
    UserCancels     \* user threads call cancel_process_urb_work as well

Ports == 1..PortCount
NoAdr == 255        \* 0xff, "address not set"
Null  == 0          \* the null pointer

ASSUME PortCountAssumption == PortCount \in 1..MaxByte
ASSUME MaxSubmitAssumption == MaxSubmit \in Nat \ {0}
ASSUME MaxReportsAssumption == MaxReports \in Nat
ASSUME UrbInputsAssumption == UrbInputs \subseteq KernelUrbs
ASSUME ReportsAssumption == Reports \subseteq [port : Byte, stat : PortStats]
ASSUME CellsAssumption == Cells \subseteq Nat \ {Null}
ASSUME FlagsAssumption == NoMem \in BOOLEAN /\ UserCancels \in BOOLEAN

VARIABLES
    life,        \* the controller object: constructed, in its destructor, ...
    heap,        \* what each cell holds
    inbox,       \* hcd::inbox, pointers to work objects
    processing,  \* hcd::processing; only membership in the list matters
    adr, stat,   \* local_hcd::port_info
    \* bg_work: where it is and its local variables
    pc,
    wk,          \* the work item read from the kernel
    res,         \* usb_vhci_fetch_data is still to be called
    obj,         \* psw or puw, the work object being built, or Null
    u,           \* the urb object being built, or Null
    \* the kernel driver
    kstate,      \* state of the urb behind each handle
    serial,      \* how often each handle has been used
    reports,     \* number of reports issued
    \* history
    strays,      \* urbs given back when the kernel was not waiting for them
    dropped,     \* urbs bg_work took from the kernel and let go of
    seen         \* the last status of each port next_work has handed out

hcdVars    == <<life, heap, inbox, processing>>
portVars   == <<adr, stat>>
bgVars     == <<pc, wk, res, obj, u>>
kernelVars == <<kstate, serial, reports>>
history    == <<strays, dropped, seen>>
vars == <<hcdVars, portVars, bgVars, kernelVars, history>>

Serials == 1..MaxSubmit

NoWork == [type |-> "none"]
Fetched ==
    {NoWork}
    \cup [type : {"stat"}, port : Ports, stat : PortStats]
    \cup [type : {"urb"}, handle : Handles, serial : Serials, urb : KernelUrbs]
    \cup [type : {"cancel"}, handle : Handles]

Free        == [kind |-> "free"]
UrbObjs     == [kind : {"urb"}, handle : Handles, serial : Serials,
                urb : KernelUrbs, filled : BOOLEAN]
StatWorks   == [kind : {"stat"}, port : Ports, stat : PortStats,
                triggers : SUBSET TriggerFlags]
UrbWorks    == [kind : {"process"}, port : Ports, canceled : BOOLEAN,
                urb : Cells]
CancelWorks == [kind : {"cancel"}, port : Ports, handle : Handles]
Works   == StatWorks \cup UrbWorks \cup CancelWorks
Objects == {Free} \cup UrbObjs \cup Works

BgAtUrb  == {"alloc", "data", "route", "routeWait"}
BgPoints == {"loop", "fetch", "stat", "statWait", "cancel", "exited"} \cup BgAtUrb

KernelStates == {"idle",        \* not fetched yet, or completed
                 "fetched",     \* handed to user space
                 "unlinked",    \* fetched, and a cancel is waiting
                 "canceling"}   \* fetched, and the cancel was fetched too

TypeOK ==
    /\ life \in {"running", "joining", "destroyed", "aborted"}
    /\ heap \in [Cells -> Objects]
    /\ inbox \in Seq(Cells)
    /\ processing \subseteq Cells
    /\ adr \in [Ports -> Addresses \cup {NoAdr}]
    /\ stat \in [Ports -> PortStats]
    /\ pc \in BgPoints
    /\ wk \in Fetched
    /\ res \in BOOLEAN
    /\ obj \in Cells \cup {Null}
    /\ u \in Cells \cup {Null}
    /\ kstate \in [Handles -> KernelStates]
    /\ serial \in [Handles -> 0..MaxSubmit]
    /\ reports \in 0..MaxReports
    /\ strays \subseteq Handles \X Serials
    /\ dropped \subseteq Handles \X Serials
    /\ seen \in [Ports -> PortStats]

Init ==
    /\ life = "running"
    /\ heap = [c \in Cells |-> Free]
    /\ inbox = <<>>
    /\ processing = {}
    /\ adr = [p \in Ports |-> NoAdr]
    /\ stat = [p \in Ports |-> ZeroStat]
    /\ pc = "loop" /\ wk = NoWork /\ res = FALSE /\ obj = Null /\ u = Null
    /\ kstate = [h \in Handles |-> "idle"]
    /\ serial = [h \in Handles |-> 0]
    /\ reports = 0
    /\ strays = {} /\ dropped = {}
    /\ seen = [p \in Ports |-> ZeroStat]

-----------------------------------------------------------------------------
(* Work objects on the heap.                                               *)

Alive          == life \in {"running", "joining"}
ThreadShutdown == life = "joining"

IsUrbWork(c)  == heap[c].kind = "process"
IsStatWork(c) == heap[c].kind = "stat"

\* Mutation: work::cancel does not set the flag.
CanceledNever(c) == FALSE

Canceled(c) == IsUrbWork(c) /\ heap[c].canceled
UrbOf(c)    == heap[heap[c].urb]

FreeCells == {c \in Cells : heap[c] = Free}
NewCell   == CHOOSE c \in FreeCells : TRUE
CanFail   == NoMem \/ FreeCells = {}

\* Mutation: the destructor of a process_urb_work does nothing.
DeleteShallow(S) == [c \in Cells |-> IF c \in S THEN Free ELSE heap[c]]

(* delete on a set of pointers; deleting Null does nothing, and the        *)
(* destructor of a process_urb_work deletes its urb.                       *)
Delete(S) ==
    [c \in Cells |->
        IF c \in S \/ \E w \in S \cap Cells : IsUrbWork(w) /\ heap[w].urb = c
        THEN Free ELSE heap[c]]

-----------------------------------------------------------------------------
(* The kernel driver.                                                      *)

Outstanding(h) == kstate[h] # "idle"

\* Mutation: finishing_work is not overridden.
GivebackForgotten(o) == UNCHANGED <<kstate, strays>>

(* USB_VHCI_HCD_IOCGIVEBACK completes a fetched urb, with ECANCELED if it  *)
(* was being canceled, and refuses a handle it is not waiting for; the     *)
(* library ignores the result.                                             *)
Giveback(o) ==
    /\ kstate' = [kstate EXCEPT ![o.handle] = "idle"]
    /\ strays' = IF Outstanding(o.handle) /\ serial[o.handle] = o.serial
                 THEN strays ELSE strays \cup {<<o.handle, o.serial>>}

(* The usb core gives up on an urb that user space is working on.          *)
Unlink(h) ==
    /\ Alive /\ kstate[h] = "fetched"
    /\ kstate' = [kstate EXCEPT ![h] = "unlinked"]
    /\ UNCHANGED <<hcdVars, portVars, bgVars, serial, reports, history>>

-----------------------------------------------------------------------------
(* The background thread.                                                  *)

(* The loop of bg_thread_start. *)
Loop ==
    /\ Alive /\ pc = "loop"
    /\ pc' = IF ThreadShutdown THEN "exited" ELSE "fetch"
    /\ wk' = NoWork /\ res' = FALSE
    /\ UNCHANGED <<hcdVars, portVars, obj, u, kernelVars, history>>

(* usb_vhci_fetch_work returns -1: timeout, signal or no data. *)
FetchNothing ==
    /\ Alive /\ pc = "fetch"
    /\ pc' = "loop"
    /\ UNCHANGED <<hcdVars, portVars, wk, res, obj, u, kernelVars, history>>

(* A port status; one for a port that does not exist is skipped. *)
FetchStat(r) ==
    /\ Alive /\ pc = "fetch" /\ reports < MaxReports
    /\ reports' = reports + 1
    /\ IF r.port \in Ports
       THEN /\ pc' = "stat"
            /\ wk' = [type |-> "stat", port |-> r.port, stat |-> r.stat]
       ELSE pc' = "loop" /\ UNCHANGED wk
    /\ UNCHANGED <<hcdVars, portVars, res, obj, u, kstate, serial, history>>

(* An urb; one of an unknown type is reported as EBADMSG and let go of. *)
FetchUrb(h, k) ==
    /\ Alive /\ pc = "fetch"
    /\ kstate[h] = "idle" /\ serial[h] < MaxSubmit
    /\ kstate' = [kstate EXCEPT ![h] = "fetched"]
    /\ serial' = [serial EXCEPT ![h] = @ + 1]
    /\ IF KnownType(k)
       THEN /\ pc' = "alloc"
            /\ wk' = [type |-> "urb", handle |-> h, serial |-> serial'[h],
                      urb |-> FromKernel(k)]
            /\ res' = NeedsData(FromKernel(k))
            /\ UNCHANGED dropped
       ELSE /\ pc' = "loop"
            /\ dropped' = dropped \cup {<<h, serial'[h]>>}
            /\ UNCHANGED <<wk, res>>
    /\ UNCHANGED <<hcdVars, portVars, obj, u, reports, strays, seen>>

FetchCancel(h) ==
    /\ Alive /\ pc = "fetch" /\ kstate[h] = "unlinked"
    /\ kstate' = [kstate EXCEPT ![h] = "canceling"]
    /\ pc' = "cancel"
    /\ wk' = [type |-> "cancel", handle |-> h]
    /\ UNCHANGED <<hcdVars, portVars, res, obj, u, serial, reports, history>>

\* Mutation: the loops do not watch thread_shutdown.
RetryForever(from, to) ==
    /\ Alive /\ pc = from /\ pc' = to
    /\ UNCHANGED <<hcdVars, portVars, wk, res, obj, u, kernelVars, history>>

(* usleep(100000), then give up if the controller is being destroyed. *)
Retry(from, to) ==
    /\ Alive /\ pc = from
    /\ IF ThreadShutdown
       THEN /\ heap' = Delete({obj}) /\ obj' = Null /\ pc' = "loop"
       ELSE pc' = to /\ UNCHANGED <<heap, obj>>
    /\ UNCHANGED <<life, inbox, processing, portVars, wk, res, u, kernelVars,
                   history>>

(* PORT_STAT.  All allocation failures leave the lock and retry. *)
StatAllocFails ==
    /\ Alive /\ pc = "stat" /\ obj = Null /\ CanFail
    /\ pc' = "statWait"
    /\ UNCHANGED <<hcdVars, portVars, wk, res, obj, u, kernelVars, history>>

(* The cell the work object is built in: the one kept from an earlier      *)
(* attempt, or a new one.                                                  *)
Target(c) == IF obj # Null THEN c = obj ELSE FreeCells # {} /\ c = NewCell

\* Mutation: the status is stored before the work is built.
NewStatWorkLate ==
    [kind |-> "stat", port |-> wk.port, stat |-> wk.stat,
     triggers |-> Triggers(wk.stat, wk.stat)]

NewStatWork ==
    [kind |-> "stat", port |-> wk.port, stat |-> wk.stat,
     triggers |-> Triggers(wk.stat, stat[wk.port])]

\* Mutation: a CONNECTION change does not invalidate the address.
AdrAfterReset(old, st) == IF ResetDone(st) THEN 0 ELSE old

(* The address of a port after a report: 0xff on a CONNECTION change, then *)
(* 0 if a reset is done.                                                   *)
AdrAfter(old, st) ==
    IF ResetDone(st) THEN 0 ELSE IF ConnectionChanged(st) THEN NoAdr ELSE old

StatEnqueueFails(c) ==
    /\ Alive /\ pc = "stat" /\ Target(c) /\ NoMem
    /\ heap' = [heap EXCEPT ![c] = NewStatWork]
    /\ obj' = c /\ pc' = "statWait"
    /\ UNCHANGED <<life, inbox, processing, portVars, wk, res, u, kernelVars,
                   history>>

StatEnqueue(c) ==
    /\ Alive /\ pc = "stat" /\ Target(c)
    /\ heap' = [heap EXCEPT ![c] = NewStatWork]
    /\ inbox' = Append(inbox, c)
    /\ stat' = [stat EXCEPT ![wk.port] = wk.stat]
    /\ adr' = [adr EXCEPT ![wk.port] = AdrAfter(@, wk.stat)]
    /\ obj' = Null /\ pc' = "loop"
    /\ UNCHANGED <<life, processing, wk, res, u, kernelVars, history>>

(* PROCESS_URB: the buffers and the urb object.  The three allocation      *)
(* loops are one step that succeeds, or fails and is tried again; a retry  *)
(* allocates anew.                                                         *)
Alloc(c) ==
    /\ Alive /\ pc = "alloc" /\ FreeCells # {} /\ c = NewCell
    /\ ~Rejected(wk.urb)
    /\ heap' = [heap EXCEPT ![c] =
                  [kind |-> "urb", handle |-> wk.handle, serial |-> wk.serial,
                   urb |-> wk.urb, filled |-> FALSE]]
    /\ u' = c
    /\ pc' = IF res THEN "data" ELSE "route"
    /\ UNCHANGED <<life, inbox, processing, portVars, wk, res, obj, kernelVars,
                   history>>

(* The loops watch thread_shutdown, and return without deleting puw. *)
AllocGivesUp ==
    /\ Alive /\ pc = "alloc" /\ CanFail /\ ThreadShutdown
    /\ pc' = "loop" /\ obj' = Null
    /\ UNCHANGED <<hcdVars, portVars, wk, res, u, kernelVars, history>>

(* The constructor of urb throws, and bg_work is declared throw(). *)
AllocThrows ==
    /\ Alive /\ pc = "alloc" /\ Rejected(wk.urb)
    /\ life' = "aborted"
    /\ UNCHANGED <<heap, inbox, processing, portVars, bgVars, kernelVars,
                   history>>

(* usb_vhci_fetch_data needs memory for an array of packets while it runs. *)
(* On success res becomes 0, and stays 0 if the urb has to be allocated    *)
(* again.                                                                  *)
FetchData ==
    /\ Alive /\ pc = "data" /\ kstate[wk.handle] = "fetched"
    /\ wk.urb.pkts # 0 => FreeCells # {}
    /\ heap' = [heap EXCEPT ![u].filled = TRUE]
    /\ res' = FALSE /\ pc' = "route"
    /\ UNCHANGED <<life, inbox, processing, portVars, wk, obj, u, kernelVars,
                   history>>

(* If the urb has been unlinked, the kernel completes it with the ECANCELED*)
(* it returns.                                                             *)
DataCanceled ==
    /\ kstate[wk.handle] # "fetched"
    /\ kstate' = [kstate EXCEPT ![wk.handle] = "idle"]
    /\ UNCHANGED dropped

(* With any other errno it waits on: the array could not be allocated, and *)
(* the driver got a null pointer instead, or the driver has no memory.     *)
DataRefused ==
    /\ NoMem \/ (wk.urb.pkts # 0 /\ FreeCells = {})
    /\ dropped' = dropped \cup {<<wk.handle, wk.serial>>}
    /\ UNCHANGED kstate

(* bg_work does not look at errno: the urb object is deleted, and nothing  *)
(* is given back.                                                          *)
FetchDataFails ==
    /\ Alive /\ pc = "data"
    /\ DataCanceled \/ DataRefused
    /\ heap' = Delete({u}) /\ u' = Null /\ pc' = "loop"
    /\ UNCHANGED <<life, inbox, processing, portVars, wk, res, obj, serial,
                   reports, strays, seen>>

(* port_from_address: the first port with the address, 0 if there is none. *)
PortsAt(a) == {p \in Ports : adr[p] = a}

PortFromAddress(a) ==
    IF PortsAt(a) = {} THEN 0
    ELSE CHOOSE p \in PortsAt(a) : \A q \in PortsAt(a) : p <= q

(* No port has the address: puw is deleted, if there is one; the new urb is*)
(* not, and nothing is given back.                                         *)
RouteNowhere ==
    /\ Alive /\ pc = "route" /\ PortFromAddress(wk.urb.devadr) = 0
    /\ heap' = Delete({obj})
    /\ dropped' = dropped \cup {<<wk.handle, wk.serial>>}
    /\ obj' = Null /\ u' = Null /\ pc' = "loop"
    /\ UNCHANGED <<life, inbox, processing, portVars, wk, res, kernelVars,
                   strays, seen>>

(* The retry forgets the urb just built. *)
RouteAllocFails ==
    /\ Alive /\ pc = "route" /\ PortFromAddress(wk.urb.devadr) # 0
    /\ obj = Null /\ CanFail
    /\ u' = Null /\ pc' = "routeWait"
    /\ UNCHANGED <<hcdVars, portVars, wk, res, obj, kernelVars, history>>

(* puw, built in cell c; an object that is there already is destroyed, and *)
(* its old urb with it.                                                    *)
WithUrbWork(c) ==
    [(IF obj = Null THEN heap ELSE Delete({obj})) EXCEPT
        ![c] = [kind |-> "process", port |-> PortFromAddress(wk.urb.devadr),
                canceled |-> FALSE, urb |-> u]]

RouteEnqueueFails(c) ==
    /\ Alive /\ pc = "route" /\ PortFromAddress(wk.urb.devadr) # 0
    /\ Target(c) /\ NoMem
    /\ heap' = WithUrbWork(c)
    /\ obj' = c /\ u' = Null /\ pc' = "routeWait"
    /\ UNCHANGED <<life, inbox, processing, portVars, wk, res, kernelVars,
                   history>>

\* Mutation: the test for val > 0x7f is missing.
AdrAfterUrbUnchecked(port, k) ==
    IF IsSetAddress(k) THEN [adr EXCEPT ![port] = k.val] ELSE adr

(* A SET_ADDRESS for the device takes effect when the urb is queued. *)
AdrAfterUrb(port, k) ==
    IF IsSetAddress(k) /\ k.val <= MaxAddress THEN [adr EXCEPT ![port] = k.val] ELSE adr

RouteEnqueue(c) ==
    /\ Alive /\ pc = "route" /\ PortFromAddress(wk.urb.devadr) # 0
    /\ Target(c)
    /\ heap' = WithUrbWork(c)
    /\ adr' = AdrAfterUrb(PortFromAddress(wk.urb.devadr), wk.urb)
    /\ inbox' = Append(inbox, c)
    /\ obj' = Null /\ u' = Null /\ pc' = "loop"
    /\ UNCHANGED <<life, processing, stat, wk, res, kernelVars, history>>

-----------------------------------------------------------------------------
(* cancel_process_urb_work, called by the background thread for a cancel   *)
(* notice of the kernel, and by user threads.                              *)

Matches(c, h) == IsUrbWork(c) /\ UrbOf(c).handle = h

InboxMatches(h) == {i \in DOMAIN inbox : Matches(inbox[i], h)}

FirstMatch(i, h) == i \in InboxMatches(h) /\ \A j \in InboxMatches(h) : i <= j

InProgress(h) ==
    InboxMatches(h) = {} /\ \E c \in processing : Matches(c, h)

(* Still in the inbox: the first work for the handle, canceled already or  *)
(* not, is marked and its urb is given back; next_work will delete it.     *)
CancelQueued(h) ==
    \E i \in DOMAIN inbox :
        /\ FirstMatch(i, h)
        /\ heap' = [heap EXCEPT ![inbox[i]].canceled = TRUE]
        /\ Giveback(UrbOf(inbox[i]))
        /\ UNCHANGED inbox

\* Mutation: a cancel gives back what a user works on, as if it was queued.
CancelInProgressAtOnce(h) ==
    /\ InProgress(h)
    /\ \E c \in processing : Matches(c, h) /\ Giveback(UrbOf(c))
    /\ UNCHANGED <<heap, inbox>>

\* Mutation: canceling_work is not overridden.
CancelInProgressSilent(h) ==
    InProgress(h) /\ UNCHANGED <<heap, inbox, kstate, strays>>

(* Being processed: local_hcd::canceling_work tells the user by a cancel   *)
(* work.                                                                   *)
CancelInProgress(h) ==
    /\ InProgress(h) /\ FreeCells # {}
    /\ \E c \in processing :
          /\ Matches(c, h)
          /\ heap' = [heap EXCEPT ![NewCell] =
                        [kind |-> "cancel", port |-> heap[c].port, handle |-> h]]
    /\ inbox' = Append(inbox, NewCell)
    /\ UNCHANGED <<kstate, strays>>

CancelUnknown(h) ==
    /\ InboxMatches(h) = {} /\ ~\E c \in processing : Matches(c, h)
    /\ UNCHANGED <<heap, inbox, kstate, strays>>

BgCancel ==
    /\ Alive /\ pc = "cancel"
    /\ \/ CancelQueued(wk.handle)
       \/ CancelInProgress(wk.handle)
       \/ CancelUnknown(wk.handle)
    /\ pc' = "loop"
    /\ UNCHANGED <<life, processing, portVars, wk, res, obj, u, serial, reports,
                   dropped, seen>>

(* The cancel work cannot be allocated or enqueued: bad_alloc leaves       *)
(* bg_work, which is declared throw().                                     *)
BgCancelThrows ==
    /\ Alive /\ pc = "cancel" /\ InProgress(wk.handle) /\ CanFail
    /\ life' = "aborted"
    /\ UNCHANGED <<heap, inbox, processing, portVars, bgVars, kernelVars,
                   history>>

(* For a user thread the exception is an answer, and changes nothing.      *)
UserCancel(h) ==
    /\ UserCancels /\ life = "running"
    /\ CancelQueued(h) \/ CancelInProgress(h)
    /\ UNCHANGED <<life, processing, portVars, bgVars, serial, reports, dropped,
                   seen>>

-----------------------------------------------------------------------------
(* The threads that use the controller.                                    *)

\* Mutation: next_work does not look at is_canceled.
FirstAliveFirst(i) == i \in DOMAIN inbox /\ i = 1

(* The works next_work deletes: the canceled ones at the front.            *)
FirstAlive(i) ==
    /\ i \in DOMAIN inbox /\ ~Canceled(inbox[i])
    /\ \A j \in 1..(i - 1) : Canceled(inbox[j])

\* Mutation: the work that is handed out is deleted as well.
BeforeAndIt(i) == {inbox[j] : j \in 1..i}

Before(i) == {inbox[j] : j \in 1..(i - 1)}

NextWork ==
    /\ life = "running"
    /\ \E i \in DOMAIN inbox :
          /\ FirstAlive(i)
          /\ heap' = Delete(Before(i))
          /\ inbox' = SubSeq(inbox, i + 1, Len(inbox))
          /\ processing' = processing \cup {inbox[i]}
          /\ seen' = IF IsStatWork(inbox[i])
                     THEN [seen EXCEPT ![heap[inbox[i]].port] =
                                           heap[inbox[i]].stat]
                     ELSE seen
    /\ UNCHANGED <<life, portVars, bgVars, kernelVars, strays, dropped>>

(* Everything in the inbox was canceled.                                   *)
NextWorkNone ==
    /\ life = "running" /\ inbox # <<>>
    /\ \A i \in DOMAIN inbox : Canceled(inbox[i])
    /\ heap' = Delete(Range(inbox))
    /\ inbox' = <<>>
    /\ UNCHANGED <<life, processing, portVars, bgVars, kernelVars, history>>

(* finish_work and local_hcd::finishing_work; the work is deleted after the*)
(* lock is released, when no list holds it any more.                       *)
FinishWork(c) ==
    /\ life = "running" /\ c \in processing
    /\ IF IsUrbWork(c) THEN Giveback(UrbOf(c)) ELSE UNCHANGED <<kstate, strays>>
    /\ processing' = processing \ {c}
    /\ heap' = Delete({c})
    /\ UNCHANGED <<life, inbox, portVars, bgVars, serial, reports, dropped, seen>>

(* The destructor: join_bg_thread, then close, which makes the kernel give *)
(* up all urbs, then the queues.  No thread uses the controller any more.  *)
BeginShutdown ==
    /\ life = "running"
    /\ life' = "joining"
    /\ UNCHANGED <<heap, inbox, processing, portVars, bgVars, kernelVars,
                   history>>

Destroy ==
    /\ life = "joining" /\ pc = "exited"
    /\ life' = "destroyed"
    /\ heap' = Delete(Range(inbox) \cup processing)
    /\ inbox' = <<>> /\ processing' = {}
    /\ kstate' = [h \in Handles |-> "idle"]
    /\ UNCHANGED <<portVars, bgVars, serial, reports, history>>

Terminated == life \in {"destroyed", "aborted"} /\ UNCHANGED vars

-----------------------------------------------------------------------------
StatStep ==
    \/ StatAllocFails
    \/ \E c \in Cells : StatEnqueueFails(c) \/ StatEnqueue(c)
    \/ Retry("statWait", "stat")

UrbStep ==
    \/ AllocGivesUp \/ AllocThrows \/ FetchData \/ FetchDataFails
    \/ RouteNowhere \/ RouteAllocFails
    \/ \E c \in Cells : Alloc(c) \/ RouteEnqueueFails(c) \/ RouteEnqueue(c)
    \/ Retry("routeWait", "alloc")

CancelStep == BgCancel \/ BgCancelThrows

(* What the background thread does with a work item once it has it.        *)
BgStep == Loop \/ FetchNothing \/ StatStep \/ UrbStep \/ CancelStep

Next ==
    \/ BgStep
    \/ \E r \in Reports : FetchStat(r)
    \/ \E h \in Handles, k \in UrbInputs : FetchUrb(h, k)
    \/ \E h \in Handles : FetchCancel(h) \/ Unlink(h) \/ UserCancel(h)
    \/ NextWork \/ NextWorkNone
    \/ \E c \in Cells : FinishWork(c)
    \/ BeginShutdown \/ Destroy
    \/ Terminated

Spec == Init /\ [][Next]_vars

(* The threads are scheduled, and pthread_join returns; user threads take  *)
(* the works from the inbox; a cancel notice the kernel holds is not passed*)
(* over for ever.  Nothing is assumed of the kernel's reports and urbs, of *)
(* unlinks, of the memory or of the call of the destructor.                *)
Scheduling ==
    /\ WF_vars(BgStep)
    /\ WF_vars(NextWork \/ NextWorkNone)
    /\ \A h \in Handles : SF_vars(FetchCancel(h))
    /\ WF_vars(Destroy)

ScheduledSpec == Spec /\ Scheduling

(* The users go on finishing what they have taken, in any order.           *)
Finishing == WF_vars(\E c \in Cells : FinishWork(c))
=============================================================================
