------------------------ MODULE LocalHcdProperties ------------------------
(***************************************************************************)
(* What the host controller promises.  The properties relate the queues,   *)
(* the heap, the port table and the kernel driver; the runs that check them*)
(* are in MC_LocalHcd, the proofs in the modules LocalHcd...Proofs.        *)
(***************************************************************************)
EXTENDS LocalHcd

Queued  == Range(inbox) \cup processing
Pointer == Queued \cup ({obj} \ {Null})

Inbox(i) == heap[inbox[i]]

(* Memory: every pointer leads to a live object of the right class, and    *)
(* every object has one owner.  No work is in both queues or twice in one, *)
(* none that bg_work still builds is in a queue, and no two works share an *)
(* urb.  Hence nothing is used after it was deleted, and nothing is deleted*)
(* twice, by next_work, finish_work, the retries of bg_work or ~hcd.       *)
InboxDistinct == \A i, j \in DOMAIN inbox : i # j => inbox[i] # inbox[j]
QueuesDisjoint ==
    /\ Range(inbox) \cap processing = {}
    /\ obj \notin Queued
WorksLive == \A c \in Pointer : heap[c].kind \in {"stat", "process", "cancel"}
UrbsLive ==
    /\ \A c \in Cells : IsUrbWork(c) => UrbOf(c).kind = "urb"
    /\ u # Null => heap[u].kind = "urb"
UrbsOwnedOnce ==
    \A c \in Cells :
        IsUrbWork(c) => /\ heap[c].urb # u
                        /\ \A d \in Cells : IsUrbWork(d) /\ heap[d].urb = heap[c].urb
                                               => c = d

Ownership ==
    /\ InboxDistinct /\ QueuesDisjoint
    /\ WorksLive /\ UrbsLive /\ UrbsOwnedOnce

(* As long as memory lasts nothing leaks, except the urbs that bg_work drops*)
(* because no port has their address; ~hcd deletes what the queues hold.   *)
Reachable ==
    Pointer \cup {u} \cup {heap[c].urb : c \in {d \in Pointer : IsUrbWork(d)}}

NoLeak ==
    \A c \in Cells \ Reachable :
        \/ heap[c] = Free
        \/ /\ heap[c].kind = "urb"
           /\ <<heap[c].handle, heap[c].serial>> \in dropped

(* What the comment in bg_work says of an urb for an unknown address: that *)
(* deleting the work deletes the urb and its buffers.                      *)
NothingLeaks == \A c \in Cells \ Reachable : heap[c] = Free

(* No urb is given back to a kernel that does not wait for it: an urb is   *)
(* completed by finish_work, or by the cancel that found it in the inbox,  *)
(* or by the kernel when it refuses the data, never by two of them.        *)
GivebackOnce == strays = {}

(* No urb is lost on its way through user space: as long as the kernel     *)
(* waits for one, bg_work has it in hand, or the inbox holds it uncanceled,*)
(* or a user works on it; but for those bg_work lets go of on purpose: of  *)
(* an unknown type or address, or with data that usb_vhci_fetch_data could *)
(* not read for another reason than a cancel.                              *)
HeldByBg(h) == pc \in BgAtUrb /\ wk.handle = h /\ wk.serial = serial[h]

HeldByQueue(h) ==
    \E c \in Queued : /\ Matches(c, h) /\ UrbOf(c).serial = serial[h]
                      /\ ~Canceled(c)

Accounted ==
    life = "running" =>
        \A h \in Handles :
            Outstanding(h) => \/ HeldByBg(h) \/ HeldByQueue(h)
                              \/ <<h, serial[h]>> \in dropped

(* A user never works on an urb that the kernel has completed meanwhile: a *)
(* cancel gives back only what still was in the inbox, and leaves an urb in*)
(* progress to finish_work.                                                *)
InProgressOutstanding ==
    life = "running" =>
        \A c \in processing :
            IsUrbWork(c) => Outstanding(UrbOf(c).handle) /\ ~Canceled(c)

(* The buffer of an OUT urb and the packets of an isochronous one have been*)
(* read from the kernel before a user gets to see the urb.                 *)
HasData(k) == IF k.type = "ISO" THEN k.pkts # 0 ELSE ~IsIn(k) /\ k.len # 0

DataFetched ==
    \A c \in Queued :
        IsUrbWork(c) /\ HasData(UrbOf(c).urb) => UrbOf(c).filled

(* No edge of a port status is lost, reported twice or reported against the*)
(* wrong status: along the works of a port, from the last one handed out   *)
(* over those in the inbox to the status get_port_stat returns, each work's*)
(* triggers compare it with the one before it.                             *)
StatsOf(p) == {i \in DOMAIN inbox : IsStatWork(inbox[i]) /\ Inbox(i).port = p}

StatBefore(i, p) ==
    LET earlier == {j \in StatsOf(p) : j < i}
    IN  IF earlier = {} THEN seen[p]
        ELSE Inbox(CHOOSE j \in earlier : \A k \in earlier : k <= j).stat

TriggersChain ==
    Alive =>
        \A p \in Ports :
            /\ \A i \in StatsOf(p) :
                  Inbox(i).triggers = Triggers(Inbox(i).stat, StatBefore(i, p))
            /\ StatBefore(Len(inbox) + 1, p) = stat[p]

(* Urbs and changes of address keep their order: an urb is queued for a    *)
(* port behind the work that gave the port the urb's address (the report of*)
(* a successful reset, or a SET_ADDRESS), with no work in between that took*)
(* it away, such as the report of a CONNECTION change; and the port table  *)
(* agrees with the last of these works.                                    *)
Assigns(i, p) ==
    /\ Inbox(i).port = p
    /\ \/ /\ IsStatWork(inbox[i])
          /\ ConnectionChanged(Inbox(i).stat) \/ ResetDone(Inbox(i).stat)
       \/ /\ IsUrbWork(inbox[i])
          /\ IsSetAddress(UrbOf(inbox[i]).urb) /\ UrbOf(inbox[i]).urb.val <= MaxAddress

Assigned(i) ==
    IF IsUrbWork(inbox[i]) THEN UrbOf(inbox[i]).urb.val
    ELSE IF ResetDone(Inbox(i).stat) THEN 0 ELSE NoAdr

AddressAt(j, p, a) ==
    \A i \in 1..(j - 1) :
        Assigns(i, p) /\ (\A k \in (i + 1)..(j - 1) : ~Assigns(k, p))
            => Assigned(i) = a

RoutedInOrder ==
    Alive =>
        \A p \in Ports :
            /\ AddressAt(Len(inbox) + 1, p, adr[p])
            /\ \A j \in DOMAIN inbox :
                  IsUrbWork(inbox[j]) /\ Inbox(j).port = p
                      => AddressAt(j, p, UrbOf(inbox[j]).urb.devadr)

(* bg_work and bg_thread_start are declared throw(): no exception leaves   *)
(* the background thread.                                                  *)
NothingThrown == life # "aborted"

-----------------------------------------------------------------------------
(* The life of the urb behind each handle, as UrbLifecycle tells it; for   *)
(* runs that use every handle once.                                        *)
PlaceOf(h) ==
    IF serial[h] = 0 THEN "new"
    ELSE IF <<h, serial[h]>> \in dropped THEN "dropped"
    ELSE IF \E c \in processing : Matches(c, h) THEN "user"
    ELSE IF ~Outstanding(h) THEN "completed"
    ELSE "library"

(* The usb core wants the urb back, and bg_work has not acted on it yet.   *)
Wanted ==
    {h \in Handles : \/ kstate[h] = "unlinked"
                     \/ kstate[h] = "canceling" /\ pc = "cancel" /\ wk.handle = h}

Noticed ==
    {h \in Handles :
        \E i \in DOMAIN inbox : Inbox(i).kind = "cancel" /\ Inbox(i).handle = h}

Lifecycle == INSTANCE UrbLifecycle WITH
    Urbs <- Handles, place <- [h \in Handles |-> PlaceOf(h)],
    wanted <- Wanted, noticed <- Noticed, closed <- (life = "destroyed")

(* The controller keeps the promise: whatever the queues, the retries and  *)
(* the threads do in between, an urb moves only as UrbLifecycle allows.    *)
ImplementsLifecycle == Lifecycle!Spec

-----------------------------------------------------------------------------
(* If the users finish what they take, every urb that bg_work reads from   *)
(* the kernel is completed in the end, if its type and its address are     *)
(* known and its data can be read; a shutdown completes it too.            *)
UrbCompletes ==
    Finishing => \A h \in Handles :
        Outstanding(h) ~> \/ ~Outstanding(h) \/ <<h, serial[h]>> \in dropped

(* A user who works on an urb that is being canceled gets to know: a cancel*)
(* work for it is handed out while he works on it, or he has finished it.  *)
InProgressOf(h) == \E c \in processing : Matches(c, h)
Notified(h) ==
    \E c \in processing : heap[c].kind = "cancel" /\ heap[c].handle = h

CancelReachesUser ==
    \A h \in Handles :
        life = "running" /\ kstate[h] = "unlinked" /\ InProgressOf(h)
            ~> Notified(h) \/ ~InProgressOf(h) \/ life # "running"

(* The destructor returns, also when no memory is left: every wait for     *)
(* memory watches thread_shutdown, and no lock is held meanwhile.          *)
ShutdownEnds == life = "joining" ~> life \in {"destroyed", "aborted"}
=============================================================================
