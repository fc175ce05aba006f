--------------------------- MODULE LocalHcdProofs ---------------------------
(***************************************************************************)
(* Proofs about LocalHcd for any number of ports, handles and cells, any   *)
(* requests and reports, and with any failing allocation.                  *)
(*                                                                         *)
(* The inductive invariant is TypeOK, Ownership and what the program       *)
(* counter of bg_work says of its local variables (Control).               *)
(***************************************************************************)
EXTENDS LocalHcdProperties, SequenceTheorems, WellFoundedInduction, TLAPS

(* Where bg_work is tells which kind of work it has in hand, whether psw or*)
(* puw may point to an object, and whether u does.  When puw is kept for a *)
(* retry the data has been fetched, so it never is when fetch_data fails.  *)
Control ==
    /\ pc \in {"stat", "statWait"} =>
          wk.type = "stat" /\ (obj # Null => heap[obj].kind = "stat")
    /\ pc \in BgAtUrb =>
          wk.type = "urb" /\ (obj # Null => heap[obj].kind = "process")
    /\ pc = "cancel" => wk.type = "cancel"
    /\ obj # Null => pc \in {"stat", "statWait"} \cup (BgAtUrb \ {"data"})
    /\ res => ~(pc \in {"route", "routeWait"} \/ (pc = "alloc" /\ obj # Null))
    /\ u # Null <=> pc \in {"data", "route"}

IInv == TypeOK /\ Control /\ Ownership

USE DEF Null
-----------------------------------------------------------------------------
(* The sets the heap and the work items are made of.                       *)

(* Every object carries its kind, and its kind tells its class.            *)
LEMMA Kinds ==
    ASSUME NEW o \in Objects
    PROVE  /\ o.kind \in {"free", "urb", "stat", "process", "cancel"}
           /\ o.kind = "free" <=> o = Free
           /\ o.kind = "urb" <=> o \in UrbObjs
           /\ o.kind = "stat" <=> o \in StatWorks
           /\ o.kind = "process" <=> o \in UrbWorks
           /\ o.kind = "cancel" <=> o \in CancelWorks
  BY DEF Objects, Free, UrbObjs, Works, StatWorks, UrbWorks, CancelWorks

(* The type of a work item tells its fields.                               *)
LEMMA Items ==
    ASSUME NEW w \in Fetched
    PROVE  /\ w.type = "stat" =>
                 w.port \in Ports /\ w.stat \in PortStats
           /\ w.type = "urb" =>
                 w.handle \in Handles /\ w.serial \in Serials /\ w.urb \in KernelUrbs
           /\ w.type = "cancel" => w.handle \in Handles
  BY DEF Fetched, NoWork

(* Deleting a cell turns it into a free one, and leaves the others alone.  *)
LEMMA DeleteType ==
    ASSUME heap \in [Cells -> Objects], NEW S
    PROVE  Delete(S) \in [Cells -> Objects]
  BY DEF Delete, Objects

LEMMA NewCellFree ==
    ASSUME FreeCells # {}
    PROVE  NewCell \in Cells /\ heap[NewCell] = Free
  BY DEF FreeCells, NewCell

LEMMA TriggersType ==
    ASSUME NEW st, NEW prev
    PROVE  Triggers(st, prev) \subseteq TriggerFlags
  BY DEF Triggers

LEMMA FromKernelType ==
    ASSUME NEW k \in KernelUrbs
    PROVE  FromKernel(k) \in KernelUrbs
<1>1. 0 \in Byte /\ 0 \in Word
  BY DEF Byte, Word, MaxByte, MaxWord
<1> QED  BY <1>1 DEF FromKernel, KernelUrbs

LEMMA AddressType ==
    ASSUME NEW v \in Word, v <= MaxAddress
    PROVE  v \in Addresses
<1>1. v \in Nat
  BY DEF Word, MaxWord
<1> QED  BY <1>1 DEF Addresses, MaxAddress

LEMMA ZeroStatType == ZeroStat \in PortStats
  BY DEF ZeroStat, PortStats

(* The port an address leads to exists.                                    *)
LEMMA PortFromAddressType ==
    ASSUME NEW a, PortFromAddress(a) # 0
    PROVE  PortFromAddress(a) \in Ports /\ adr[PortFromAddress(a)] = a
<1>1. PortsAt(a) # {} /\ PortsAt(a) \subseteq Ports
  BY DEF PortFromAddress, PortsAt
<1>2. PortsAt(a) \subseteq Nat
  BY <1>1, PortCountAssumption DEF Ports
<1>3. \E p \in PortsAt(a) : \A q \in PortsAt(a) : <<q, p>> \notin OpToRel(<, Nat)
  BY <1>1, <1>2, NatLessThanWellFounded, WFMin, Zenon
<1>4. \E p \in PortsAt(a) : \A q \in PortsAt(a) : p <= q
  <2>1. PICK p \in PortsAt(a) : \A q \in PortsAt(a) : <<q, p>> \notin OpToRel(<, Nat)
    BY <1>3
  <2>2. \A q \in PortsAt(a) : ~(q < p)
    BY <2>1, <1>2 DEF OpToRel
  <2> QED  BY <2>2, <1>2
<1>5. PortFromAddress(a) \in PortsAt(a)
  BY <1>1, <1>4 DEF PortFromAddress
<1> QED  BY <1>5 DEF PortsAt

-----------------------------------------------------------------------------
(* Type correctness, one action after the other.                           *)

USE DEF hcdVars, portVars, bgVars, kernelVars, history

LEMMA AppendType ==
    ASSUME inbox \in Seq(Cells), NEW c \in Cells
    PROVE  Append(inbox, c) \in Seq(Cells)
  BY AppendProperties

(* What bg_work builds on the heap.                                        *)
LEMMA NewStatWorkType ==
    ASSUME wk \in Fetched, wk.type = "stat"
    PROVE  NewStatWork \in Objects /\ NewStatWork.kind = "stat"
<1>1. wk.port \in Ports /\ wk.stat \in PortStats
  BY Items
<1>2. Triggers(wk.stat, stat[wk.port]) \in SUBSET TriggerFlags
  BY TriggersType
<1> QED  BY <1>1, <1>2 DEF NewStatWork, StatWorks, Works, Objects

LEMMA StatActionsType ==
    ASSUME TypeOK, Control, NEW c \in Cells, StatEnqueueFails(c) \/ StatEnqueue(c)
    PROVE  TypeOK'
<1>1. wk \in Fetched /\ wk.type = "stat"
  BY DEF TypeOK, Control, StatEnqueueFails, StatEnqueue
<1>2. wk.port \in Ports /\ wk.stat \in PortStats
  BY <1>1, Items
<1>3. heap' \in [Cells -> Objects]
  BY <1>1, NewStatWorkType DEF TypeOK, StatEnqueueFails, StatEnqueue
<1>4. adr' \in [Ports -> Addresses \cup {NoAdr}] /\ stat' \in [Ports -> PortStats]
  <2>1. 0 \in Addresses
    BY DEF Addresses, MaxAddress
  <2> QED
    BY <1>2, <2>1 DEF TypeOK, StatEnqueueFails, StatEnqueue, AdrAfter
<1>5. inbox' \in Seq(Cells)
  <2>1. inbox \in Seq(Cells) /\ inbox' \in {inbox, Append(inbox, c)}
    BY DEF TypeOK, StatEnqueueFails, StatEnqueue
  <2> QED  BY <2>1, AppendType
<1> QED
  BY <1>3, <1>4, <1>5 DEF TypeOK, StatEnqueueFails, StatEnqueue, BgPoints

LEMMA RetryType ==
    ASSUME TypeOK,
           Retry("statWait", "stat") \/ Retry("routeWait", "alloc")
    PROVE  TypeOK'
<1>1. heap' \in [Cells -> Objects]
  BY DeleteType DEF TypeOK, Retry
<1> QED  BY <1>1 DEF TypeOK, Retry, BgPoints, BgAtUrb

LEMMA AllocType ==
    ASSUME TypeOK, Control, NEW c \in Cells, Alloc(c)
    PROVE  TypeOK'
<1>1. wk \in Fetched /\ wk.type = "urb"
  BY DEF TypeOK, Control, Alloc, BgAtUrb
<1>2. [kind |-> "urb", handle |-> wk.handle, serial |-> wk.serial,
       urb |-> wk.urb, filled |-> FALSE] \in Objects
  BY <1>1, Items DEF UrbObjs, Objects
<1>3. heap' \in [Cells -> Objects]
  BY <1>2 DEF TypeOK, Alloc
<1> QED  BY <1>3 DEF TypeOK, Alloc, BgPoints, BgAtUrb

LEMMA FetchDataType ==
    ASSUME IInv, FetchData
    PROVE  TypeOK'
<1>1. u \in Cells /\ heap[u] \in UrbObjs
  BY Kinds DEF IInv, TypeOK, Control, Ownership, UrbsLive, FetchData
<1>2. [heap[u] EXCEPT !.filled = TRUE] \in Objects
  BY <1>1 DEF UrbObjs, Objects
<1>3. heap' \in [Cells -> Objects]
  BY <1>1, <1>2 DEF IInv, TypeOK, FetchData
<1> QED  BY <1>3 DEF IInv, TypeOK, FetchData, BgPoints, BgAtUrb

LEMMA RouteType ==
    ASSUME TypeOK, Control, NEW c \in Cells, RouteEnqueueFails(c) \/ RouteEnqueue(c)
    PROVE  TypeOK'
<1> DEFINE p == PortFromAddress(wk.urb.devadr)
<1>1. wk \in Fetched /\ wk.type = "urb" /\ u \in Cells /\ p # 0
  BY DEF TypeOK, Control, RouteEnqueueFails, RouteEnqueue, BgAtUrb
<1>2. p \in Ports
  BY <1>1, PortFromAddressType
<1> HIDE DEF p
<1>3. [kind |-> "process", port |-> p, canceled |-> FALSE, urb |-> u] \in Objects
  BY <1>1, <1>2 DEF UrbWorks, Works, Objects
<1>4. Delete({obj}) \in [Cells -> Objects]
  BY DeleteType DEF TypeOK
<1>5. WithUrbWork(c) \in [Cells -> Objects]
  BY <1>3, <1>4 DEF WithUrbWork, TypeOK, p
<1>6. heap' \in [Cells -> Objects]
  BY <1>5 DEF RouteEnqueueFails, RouteEnqueue
<1>7. AdrAfterUrb(p, wk.urb) \in [Ports -> Addresses \cup {NoAdr}]
  <2>1. wk.urb.val \in Word
    BY <1>1, Items DEF KernelUrbs
  <2> QED  BY <2>1, AddressType DEF AdrAfterUrb, TypeOK
<1>8. adr' \in [Ports -> Addresses \cup {NoAdr}]
  BY <1>7 DEF TypeOK, RouteEnqueueFails, RouteEnqueue, p
<1>9. inbox' \in Seq(Cells)
  BY AppendType DEF TypeOK, RouteEnqueueFails, RouteEnqueue
<1> QED
  BY <1>6, <1>8, <1>9 DEF TypeOK, RouteEnqueueFails, RouteEnqueue, BgPoints, BgAtUrb

(* Pointers lead to cells, and the urb of a work is an urb.                *)
LEMMA PointerType ==
    ASSUME TypeOK
    PROVE  /\ Range(inbox) \subseteq Cells /\ Pointer \subseteq Cells
           /\ \A i \in DOMAIN inbox : inbox[i] \in Cells
<1>1. \A i \in DOMAIN inbox : inbox[i] \in Cells
  BY ElementOfSeq, LenProperties DEF TypeOK
<1> QED  BY <1>1 DEF TypeOK, Pointer, Queued, Range

LEMMA UrbWorkType ==
    ASSUME TypeOK, Ownership, NEW c \in Cells, IsUrbWork(c)
    PROVE  /\ heap[c] \in UrbWorks /\ heap[c].urb \in Cells
           /\ UrbOf(c) \in UrbObjs
           /\ UrbOf(c).handle \in Handles /\ UrbOf(c).serial \in Serials
<1>1. heap[c] \in UrbWorks
  BY Kinds DEF TypeOK, IsUrbWork
<1>2. heap[c].urb \in Cells
  BY <1>1 DEF UrbWorks
<1>3. UrbOf(c) \in UrbObjs
  BY <1>2, Kinds DEF TypeOK, Ownership, UrbsLive, UrbOf
<1> QED  BY <1>1, <1>2, <1>3 DEF UrbObjs

LEMMA GivebackType ==
    ASSUME TypeOK, NEW o \in UrbObjs, Giveback(o)
    PROVE  /\ kstate' \in [Handles -> KernelStates]
           /\ strays' \subseteq Handles \X Serials
<1>1. o.handle \in Handles /\ o.serial \in Serials
  BY DEF UrbObjs
<1> QED  BY <1>1 DEF TypeOK, Giveback, KernelStates

LEMMA CancelType ==
    ASSUME IInv, NEW h \in Handles,
           CancelQueued(h) \/ CancelInProgress(h) \/ CancelUnknown(h)
    PROVE  /\ heap' \in [Cells -> Objects] /\ inbox' \in Seq(Cells)
           /\ kstate' \in [Handles -> KernelStates]
           /\ strays' \subseteq Handles \X Serials
<1> USE DEF IInv
<1>1. CASE CancelQueued(h)
  <2>1. PICK i \in DOMAIN inbox :
           /\ FirstMatch(i, h)
           /\ heap' = [heap EXCEPT ![inbox[i]].canceled = TRUE]
           /\ Giveback(UrbOf(inbox[i]))
           /\ UNCHANGED inbox
    BY <1>1 DEF CancelQueued
  <2>2. inbox[i] \in Cells /\ IsUrbWork(inbox[i])
    BY <2>1, PointerType DEF FirstMatch, InboxMatches, Matches
  <2>3. heap[inbox[i]] \in UrbWorks /\ UrbOf(inbox[i]) \in UrbObjs
    BY <2>2, UrbWorkType
  <2>4. [heap[inbox[i]] EXCEPT !.canceled = TRUE] \in Objects
    BY <2>3 DEF UrbWorks, Works, Objects
  <2>5. heap' \in [Cells -> Objects]
    BY <2>1, <2>2, <2>4 DEF TypeOK
  <2> QED  BY <2>1, <2>3, <2>5, GivebackType DEF TypeOK
<1>2. CASE CancelInProgress(h)
  <2>1. PICK c \in processing :
           /\ Matches(c, h)
           /\ heap' = [heap EXCEPT ![NewCell] =
                         [kind |-> "cancel", port |-> heap[c].port, handle |-> h]]
    BY <1>2 DEF CancelInProgress
  <2>2. heap[c] \in UrbWorks
    BY <2>1, UrbWorkType DEF TypeOK, Matches
  <2>3. NewCell \in Cells
    BY <1>2, NewCellFree DEF CancelInProgress
  <2>4. [kind |-> "cancel", port |-> heap[c].port, handle |-> h] \in Objects
    BY <2>2 DEF UrbWorks, CancelWorks, Works, Objects
  <2>5. heap' \in [Cells -> Objects]
    BY <2>1, <2>3, <2>4 DEF TypeOK
  <2>6. inbox' \in Seq(Cells)
    BY <1>2, <2>3, AppendType DEF TypeOK, CancelInProgress
  <2> QED  BY <1>2, <2>5, <2>6 DEF TypeOK, CancelInProgress
<1>3. CASE CancelUnknown(h)
  BY <1>3 DEF CancelUnknown, TypeOK
<1> QED  BY <1>1, <1>2, <1>3

LEMMA BgCancelType ==
    ASSUME IInv, BgCancel
    PROVE  TypeOK'
<1>1. wk.handle \in Handles
  BY Items DEF IInv, TypeOK, Control, BgCancel
<1>2. CancelQueued(wk.handle) \/ CancelInProgress(wk.handle)
         \/ CancelUnknown(wk.handle)
  BY DEF BgCancel
<1> HIDE DEF IInv
<1>3. /\ heap' \in [Cells -> Objects] /\ inbox' \in Seq(Cells)
      /\ kstate' \in [Handles -> KernelStates]
      /\ strays' \subseteq Handles \X Serials
  BY <1>1, <1>2, CancelType
<1> QED  BY <1>3 DEF IInv, TypeOK, BgCancel, BgPoints

LEMMA UserCancelType ==
    ASSUME IInv, NEW h \in Handles, UserCancel(h)
    PROVE  TypeOK'
<1>1. CancelQueued(h) \/ CancelInProgress(h) \/ CancelUnknown(h)
  BY DEF UserCancel
<1>2. /\ heap' \in [Cells -> Objects] /\ inbox' \in Seq(Cells)
      /\ kstate' \in [Handles -> KernelStates]
      /\ strays' \subseteq Handles \X Serials
  BY <1>1, CancelType
<1> QED  BY <1>2 DEF IInv, TypeOK, UserCancel

(* What next_work leaves of the inbox.                                     *)
LEMMA RestOfInbox ==
    ASSUME TypeOK, NEW i \in DOMAIN inbox
    PROVE  /\ SubSeq(inbox, i + 1, Len(inbox)) \in Seq(Cells)
           /\ DOMAIN SubSeq(inbox, i + 1, Len(inbox)) = 1..(Len(inbox) - i)
           /\ \A j \in 1..(Len(inbox) - i) :
                 /\ SubSeq(inbox, i + 1, Len(inbox))[j] = inbox[i + j]
                 /\ i + j \in DOMAIN inbox
<1> DEFINE rest == SubSeq(inbox, i + 1, Len(inbox))
<1>1. inbox \in Seq(Cells) /\ Len(inbox) \in Nat /\ DOMAIN inbox = 1..Len(inbox)
  BY LenProperties DEF TypeOK
<1>2. \A j \in (i + 1)..Len(inbox) : inbox[j] \in Cells
  BY <1>1, PointerType
<1>3. /\ rest \in Seq(Cells)
      /\ Len(rest) = IF i + 1 <= Len(inbox) THEN Len(inbox) - (i + 1) + 1 ELSE 0
      /\ \A j \in 1..(Len(inbox) - (i + 1) + 1) : rest[j] = inbox[i + 1 + j - 1]
  BY <1>1, <1>2, SubSeqProperties
<1>4. Len(rest) = Len(inbox) - i /\ Len(inbox) - (i + 1) + 1 = Len(inbox) - i
  BY <1>1, <1>3
<1>5. DOMAIN rest = 1..(Len(inbox) - i)
  BY <1>3, <1>4, LenProperties
<1>6. \A j \in 1..(Len(inbox) - i) :
         i + 1 + j - 1 = i + j /\ i + j \in DOMAIN inbox
  BY <1>1
<1> QED  BY <1>3, <1>4, <1>5, <1>6

LEMMA NextWorkType ==
    ASSUME TypeOK, NextWork
    PROVE  TypeOK'
<1>1. PICK i \in DOMAIN inbox :
         /\ heap' = Delete(Before(i))
         /\ inbox' = SubSeq(inbox, i + 1, Len(inbox))
         /\ processing' = processing \cup {inbox[i]}
         /\ seen' = IF IsStatWork(inbox[i])
                    THEN [seen EXCEPT ![heap[inbox[i]].port] = heap[inbox[i]].stat]
                    ELSE seen
  BY DEF NextWork
<1>2. inbox[i] \in Cells
  BY PointerType
<1>3. seen' \in [Ports -> PortStats]
  <2>1. IsStatWork(inbox[i]) => heap[inbox[i]] \in StatWorks
    BY <1>2, Kinds DEF TypeOK, IsStatWork
  <2> QED  BY <1>1, <2>1 DEF TypeOK, StatWorks
<1>4. heap' \in [Cells -> Objects]
  BY <1>1, DeleteType DEF TypeOK
<1>5. inbox' \in Seq(Cells)
  BY <1>1, RestOfInbox
<1>6. processing' \subseteq Cells
  BY <1>1, <1>2 DEF TypeOK
<1> QED  BY <1>3, <1>4, <1>5, <1>6 DEF TypeOK, NextWork

LEMMA FinishWorkType ==
    ASSUME IInv, NEW c \in Cells, FinishWork(c)
    PROVE  TypeOK'
<1>1. /\ kstate' \in [Handles -> KernelStates]
      /\ strays' \subseteq Handles \X Serials
  <2>1. CASE IsUrbWork(c)
    BY <2>1, UrbWorkType, GivebackType DEF IInv, FinishWork
  <2>2. CASE ~IsUrbWork(c)
    BY <2>2 DEF IInv, TypeOK, FinishWork
  <2> QED  BY <2>1, <2>2
<1>2. heap' \in [Cells -> Objects]
  BY DeleteType DEF IInv, TypeOK, FinishWork
<1> QED  BY <1>1, <1>2 DEF IInv, TypeOK, FinishWork

LEMMA FetchType ==
    ASSUME TypeOK,
           \/ \E r \in Reports : FetchStat(r)
           \/ \E h \in Handles, k \in UrbInputs : FetchUrb(h, k)
           \/ \E h \in Handles : FetchCancel(h)
    PROVE  TypeOK'
<1>1. ASSUME NEW r \in Reports, FetchStat(r)
      PROVE  TypeOK'
  <2>1. reports' \in 0..MaxReports
    BY <1>1, MaxReportsAssumption DEF TypeOK, FetchStat
  <2>2. wk' \in Fetched
    BY <1>1, ReportsAssumption DEF TypeOK, FetchStat, Fetched
  <2> QED  BY <1>1, <2>1, <2>2 DEF TypeOK, FetchStat, BgPoints
<1>2. ASSUME NEW h \in Handles, NEW k \in UrbInputs, FetchUrb(h, k)
      PROVE  TypeOK'
  <2>1. serial' \in [Handles -> 0..MaxSubmit] /\ serial'[h] \in Serials
    BY <1>2, MaxSubmitAssumption DEF TypeOK, FetchUrb, Serials
  <2>2. FromKernel(k) \in KernelUrbs
    BY FromKernelType, UrbInputsAssumption
  <2>3. [type |-> "urb", handle |-> h, serial |-> serial'[h],
         urb |-> FromKernel(k)] \in Fetched
    BY <2>1, <2>2 DEF Fetched
  <2>4. wk' \in Fetched /\ res' \in BOOLEAN
    <3>1. NeedsData(FromKernel(k)) \in BOOLEAN
      BY DEF NeedsData
    <3> QED  BY <1>2, <2>3, <3>1 DEF TypeOK, FetchUrb
  <2>5. dropped' \subseteq Handles \X Serials
    BY <1>2, <2>1 DEF TypeOK, FetchUrb
  <2>6. kstate' \in [Handles -> KernelStates]
    BY <1>2 DEF TypeOK, FetchUrb, KernelStates
  <2>7. pc' \in BgPoints
    BY <1>2 DEF FetchUrb, BgPoints, BgAtUrb
  <2> QED
    BY <1>2, <2>1, <2>4, <2>5, <2>6, <2>7 DEF TypeOK, FetchUrb
<1>3. ASSUME NEW h \in Handles, FetchCancel(h)
      PROVE  TypeOK'
  <2>1. wk' \in Fetched
    BY <1>3 DEF FetchCancel, Fetched
  <2> QED  BY <1>3, <2>1 DEF TypeOK, FetchCancel, KernelStates, BgPoints
<1> QED  BY <1>1, <1>2, <1>3

LEMMA UrbStepType ==
    ASSUME TypeOK, Control,
           \/ AllocGivesUp \/ AllocThrows \/ FetchDataFails
           \/ RouteNowhere \/ RouteAllocFails
    PROVE  TypeOK'
<1>1. CASE AllocGivesUp \/ AllocThrows \/ RouteAllocFails
  <2>1. CASE AllocGivesUp
    BY <2>1 DEF TypeOK, AllocGivesUp, BgPoints
  <2>2. CASE AllocThrows
    BY <2>2 DEF TypeOK, AllocThrows
  <2>3. CASE RouteAllocFails
    BY <2>3 DEF TypeOK, RouteAllocFails, BgPoints, BgAtUrb
  <2> QED  BY <1>1, <2>1, <2>2, <2>3
<1>2. CASE FetchDataFails
  <2>1. heap' \in [Cells -> Objects]
    BY <1>2, DeleteType DEF TypeOK, FetchDataFails
  <2>2. wk.handle \in Handles /\ wk.serial \in Serials
    BY <1>2, Items DEF TypeOK, Control, FetchDataFails, BgAtUrb
  <2>3. CASE DataCanceled
    BY <1>2, <2>1, <2>2, <2>3
    DEF TypeOK, FetchDataFails, DataCanceled, BgPoints, KernelStates
  <2>4. CASE DataRefused
    <3>1. dropped' \subseteq Handles \X Serials
      BY <2>2, <2>4 DEF TypeOK, DataRefused
    <3> QED
      BY <1>2, <2>1, <2>4, <3>1 DEF TypeOK, FetchDataFails, DataRefused, BgPoints
  <2> QED  BY <1>2, <2>3, <2>4 DEF FetchDataFails
<1>3. CASE RouteNowhere
  <2>1. heap' \in [Cells -> Objects]
    BY <1>3, DeleteType DEF TypeOK, RouteNowhere
  <2>2. wk.handle \in Handles /\ wk.serial \in Serials
    BY <1>3, Items DEF TypeOK, Control, RouteNowhere, BgAtUrb
  <2>3. dropped' \subseteq Handles \X Serials
    BY <1>3, <2>2 DEF TypeOK, RouteNowhere
  <2> QED  BY <1>3, <2>1, <2>3 DEF TypeOK, RouteNowhere, BgPoints
<1> QED  BY <1>1, <1>2, <1>3

LEMMA QuietType ==
    ASSUME TypeOK,
           \/ Loop \/ FetchNothing \/ StatAllocFails \/ BgCancelThrows
           \/ (\E h \in Handles : Unlink(h)) \/ BeginShutdown \/ Terminated
    PROVE  TypeOK'
  BY DEF TypeOK, Loop, FetchNothing, StatAllocFails, BgCancelThrows, Unlink,
         BeginShutdown, Terminated, vars, BgPoints, Fetched, KernelStates

LEMMA DrainType ==
    ASSUME TypeOK, NextWorkNone \/ Destroy
    PROVE  TypeOK'
<1>1. heap' \in [Cells -> Objects]
  BY DeleteType DEF TypeOK, NextWorkNone, Destroy
<1>2. inbox' \in Seq(Cells)
  BY EmptySeq DEF NextWorkNone, Destroy
<1> QED  BY <1>1, <1>2 DEF TypeOK, NextWorkNone, Destroy, KernelStates

(* No step leaves the types.                                               *)
LEMMA TypeStep ==
    ASSUME IInv, [Next]_vars
    PROVE  TypeOK'
<1> TypeOK /\ Control
  BY DEF IInv
<1>1. CASE UNCHANGED vars
  BY <1>1 DEF TypeOK, vars
<1>2. CASE StatStep
  BY <1>2, StatActionsType, RetryType, QuietType DEF StatStep
<1>3. CASE UrbStep
  BY <1>3, UrbStepType, FetchDataType, AllocType, RouteType, RetryType DEF UrbStep
<1>4. CASE CancelStep
  BY <1>4, BgCancelType, QuietType DEF CancelStep
<1>5. CASE \/ \E r \in Reports : FetchStat(r)
           \/ \E h \in Handles, k \in UrbInputs : FetchUrb(h, k)
           \/ \E h \in Handles : FetchCancel(h)
  BY <1>5, FetchType
<1>6. CASE \E h \in Handles : UserCancel(h)
  BY <1>6, UserCancelType
<1>7. CASE NextWork \/ NextWorkNone \/ Destroy
  BY <1>7, NextWorkType, DrainType
<1>8. CASE \E c \in Cells : FinishWork(c)
  BY <1>8, FinishWorkType
<1>9. CASE \/ Loop \/ FetchNothing
           \/ (\E h \in Handles : Unlink(h)) \/ BeginShutdown \/ Terminated
  BY <1>9, QuietType
<1> QED
  BY <1>1, <1>2, <1>3, <1>4, <1>5, <1>6, <1>7, <1>8, <1>9 DEF Next, BgStep

-----------------------------------------------------------------------------
(* Memory: what deleting works does to the objects that stay.              *)

LEMMA DeleteKeeps ==
    ASSUME TypeOK, Ownership, NEW S \in SUBSET Pointer
    PROVE  /\ \A c \in Pointer \ S : Delete(S)[c] = heap[c]
           /\ \A c \in Cells :
                 Delete(S)[c].kind = "process" =>
                     /\ c \notin S /\ IsUrbWork(c) /\ Delete(S)[c] = heap[c]
                     /\ Delete(S)[heap[c].urb] = heap[heap[c].urb]
           /\ u # Null => Delete(S)[u] = heap[u]
<1>1. S \subseteq Cells /\ Pointer \subseteq Cells
  BY PointerType
<1>2. \A c \in Cells :
         Delete(S)[c] = IF c \in S \/ \E w \in S : IsUrbWork(w) /\ heap[w].urb = c
                    THEN Free ELSE heap[c]
  BY <1>1 DEF Delete
<1>3. \A c \in Pointer : heap[c].kind \in {"stat", "process", "cancel"}
  BY DEF Ownership, WorksLive
<1>4. \A w \in Cells :
         IsUrbWork(w) => heap[w].urb \in Cells /\ heap[heap[w].urb].kind = "urb"
  BY UrbWorkType DEF Ownership, UrbsLive, UrbOf
<1>5. ASSUME NEW c \in Pointer \ S
      PROVE  Delete(S)[c] = heap[c]
  BY <1>1, <1>2, <1>3, <1>4
<1>6. ASSUME NEW c \in Cells, Delete(S)[c].kind = "process"
      PROVE  /\ c \notin S /\ IsUrbWork(c) /\ Delete(S)[c] = heap[c]
             /\ Delete(S)[heap[c].urb] = heap[heap[c].urb]
  <2>1. c \notin S /\ Delete(S)[c] = heap[c] /\ IsUrbWork(c)
    BY <1>2, <1>6 DEF Free, IsUrbWork
  <2>2. heap[c].urb \in Cells /\ heap[c].urb \notin S
    BY <1>1, <1>3, <1>4, <2>1
  <2>3. \A w \in S : ~(IsUrbWork(w) /\ heap[w].urb = heap[c].urb)
    BY <1>1, <2>1 DEF Ownership, UrbsOwnedOnce
  <2> QED  BY <1>2, <2>1, <2>2, <2>3
<1>7. ASSUME u # Null
      PROVE  Delete(S)[u] = heap[u]
  <2>1. u \in Cells /\ u \notin S
    BY <1>3, <1>7 DEF TypeOK, Ownership, UrbsLive
  <2>2. \A w \in S : ~(IsUrbWork(w) /\ heap[w].urb = u)
    BY <1>1 DEF Ownership, UrbsOwnedOnce
  <2> QED  BY <1>2, <2>1, <2>2
<1> QED  BY <1>5, <1>6, <1>7

(* Deleting works that no pointer leads to any more keeps the heap sound.  *)
LEMMA DeleteSound ==
    ASSUME TypeOK, Ownership, NEW S \in SUBSET Pointer, heap' = Delete(S),
           Pointer' \subseteq Pointer \ S, u' \in {u, Null}
    PROVE  WorksLive' /\ UrbsLive' /\ UrbsOwnedOnce'
<1>1. WorksLive'
  BY DeleteKeeps DEF Ownership, WorksLive
<1>2. UrbsLive'
  BY DeleteKeeps DEF Ownership, UrbsLive, IsUrbWork, UrbOf
<1>3. UrbsOwnedOnce'
  <2>1. \A c \in Cells : IsUrbWork(c) => heap[c].urb # Null
    BY UrbWorkType, CellsAssumption
  <2>2. \A c \in Cells : IsUrbWork(c)' => IsUrbWork(c) /\ heap'[c] = heap[c]
    BY DeleteKeeps DEF IsUrbWork
  <2> QED  BY <2>1, <2>2 DEF Ownership, UrbsOwnedOnce
<1> QED  BY <1>1, <1>2, <1>3

(* A new object does not disturb the others.                               *)
LEMMA NewKeeps ==
    ASSUME TypeOK, Ownership, NEW c \in Cells, heap[c] = Free, NEW o,
           heap' = [heap EXCEPT ![c] = o]
    PROVE  /\ \A d \in Pointer : d # c /\ heap'[d] = heap[d]
           /\ \A d \in Cells :
                 IsUrbWork(d) =>
                     /\ d # c /\ heap[d].urb # c /\ heap'[d] = heap[d]
                     /\ heap'[heap[d].urb] = heap[heap[d].urb]
           /\ u # Null => u # c /\ heap'[u] = heap[u]
           /\ \A d \in Cells : d # c => heap'[d] = heap[d]
           /\ heap'[c] = o
<1>1. heap[c].kind = "free"
  BY DEF Free
<1>2. Pointer \subseteq Cells
  BY PointerType
<1>3. \A d \in Cells : heap'[d] = IF d = c THEN o ELSE heap[d]
  BY DEF TypeOK
<1>4. ASSUME NEW d \in Pointer
      PROVE  d # c /\ heap'[d] = heap[d]
  BY <1>1, <1>2, <1>3 DEF Ownership, WorksLive
<1>5. ASSUME NEW d \in Cells, IsUrbWork(d)
      PROVE  /\ d # c /\ heap[d].urb # c /\ heap'[d] = heap[d]
             /\ heap'[heap[d].urb] = heap[heap[d].urb]
  BY <1>1, <1>3, <1>5, UrbWorkType DEF IsUrbWork, Ownership, UrbsLive, UrbOf
<1>6. ASSUME u # Null
      PROVE  u # c /\ heap'[u] = heap[u]
  BY <1>1, <1>3, <1>6 DEF TypeOK, Ownership, UrbsLive
<1> QED  BY <1>3, <1>4, <1>5, <1>6

LEMMA AppendKeeps ==
    ASSUME TypeOK, Ownership, NEW c \in Cells, c \notin Queued,
           inbox' = Append(inbox, c)
    PROVE  InboxDistinct' /\ Range(inbox)' = Range(inbox) \cup {c}
<1>1. inbox \in Seq(Cells) /\ Len(inbox) \in Nat /\ DOMAIN inbox = 1..Len(inbox)
  BY LenProperties DEF TypeOK
<1>2. /\ inbox' \in Seq(Cells) /\ Len(inbox') = Len(inbox) + 1
      /\ \A i \in 1..Len(inbox) : inbox'[i] = inbox[i]
      /\ inbox'[Len(inbox) + 1] = c
  BY <1>1, AppendProperties
<1>3. DOMAIN inbox' = 1..(Len(inbox) + 1)
  BY <1>2, LenProperties
<1>4. \A i \in DOMAIN inbox : inbox[i] # c
  BY DEF Queued, Range
<1>5. InboxDistinct'
  BY <1>1, <1>2, <1>3, <1>4 DEF Ownership, InboxDistinct
<1>6. Range(inbox)' = Range(inbox) \cup {c}
  BY <1>1, <1>2, <1>3 DEF Range
<1> QED  BY <1>5, <1>6

(* The queues and the object in the hands of bg_work after an enqueue.     *)
LEMMA EnqueueKeeps ==
    ASSUME TypeOK, Ownership, NEW c \in Cells, c \notin Queued,
           inbox' = Append(inbox, c), processing' = processing,
           obj' = Null \/ (obj' = obj /\ obj # c)
    PROVE  /\ InboxDistinct' /\ QueuesDisjoint'
           /\ Pointer' \subseteq Pointer \cup {c}
<1>1. InboxDistinct' /\ Range(inbox)' = Range(inbox) \cup {c}
  BY AppendKeeps
<1>2. QueuesDisjoint'
  <2>1. Null \notin Cells
    BY CellsAssumption
  <2>2. Queued \subseteq Cells
    BY PointerType DEF Pointer
  <2> QED  BY <1>1, <2>1, <2>2 DEF Ownership, QueuesDisjoint, Queued
<1>3. Pointer' \subseteq Pointer \cup {c}
  BY <1>1 DEF Pointer, Queued
<1> QED  BY <1>1, <1>2, <1>3

(* The cell psw or puw is built in belongs to no queue.                    *)
LEMMA TargetFree ==
    ASSUME TypeOK, Ownership, NEW c \in Cells, Target(c)
    PROVE  c \notin Queued /\ (obj = Null => heap[c] = Free) /\ (obj # Null => c = obj)
<1>1. CASE obj # Null
  BY <1>1 DEF Target, Ownership, QueuesDisjoint
<1>2. CASE obj = Null
  <2>1. heap[c] = Free
    BY <1>2, NewCellFree DEF Target
  <2>2. c \notin Pointer
    BY <2>1 DEF Ownership, WorksLive, Free
  <2> QED  BY <1>2, <2>1, <2>2 DEF Pointer
<1> QED  BY <1>1, <1>2

LEMMA StatOwnership ==
    ASSUME IInv, NEW c \in Cells, StatEnqueueFails(c) \/ StatEnqueue(c)
    PROVE  Ownership'
<1> USE DEF IInv
<1>1. /\ heap' = [heap EXCEPT ![c] = NewStatWork] /\ Target(c) /\ pc = "stat"
      /\ processing' = processing /\ u' = u /\ u = Null
  BY DEF StatEnqueueFails, StatEnqueue, Control
<1>2. NewStatWork.kind = "stat"
  BY <1>1, NewStatWorkType DEF TypeOK, Control
<1>3. /\ \A d \in Cells : heap'[d] = IF d = c THEN NewStatWork ELSE heap[d]
      /\ ~IsUrbWork(c) /\ (\A d \in Cells : IsUrbWork(d) => heap[d].urb # c)
      /\ heap[c].kind \in {"free", "stat"}
  <2>1. CASE obj = Null
    <3>1. heap[c] = Free
      BY <1>1, <2>1, TargetFree
    <3>2. \A d \in Cells : IsUrbWork(d) => heap[d].urb # c
      BY <1>1, <3>1, NewKeeps
    <3> QED  BY <1>1, <3>1, <3>2 DEF TypeOK, IsUrbWork, Free
  <2>2. CASE obj # Null
    <3>1. c = obj /\ heap[c].kind = "stat"
      BY <1>1, <2>2, TargetFree DEF Control
    <3>2. \A d \in Cells : IsUrbWork(d) => heap[d].urb # c
      BY <3>1 DEF Ownership, UrbsLive, UrbOf
    <3> QED  BY <1>1, <3>1, <3>2 DEF TypeOK, IsUrbWork
  <2> QED  BY <2>1, <2>2
<1>4. /\ InboxDistinct' /\ QueuesDisjoint' /\ Pointer' \subseteq Pointer \cup {c}
  <2>1. c \notin Queued
    BY <1>1, TargetFree
  <2>2. CASE StatEnqueue(c)
    BY <1>1, <2>1, <2>2, EnqueueKeeps DEF StatEnqueue
  <2>3. CASE StatEnqueueFails(c)
    BY <2>1, <2>3 DEF StatEnqueueFails, Ownership, InboxDistinct, QueuesDisjoint,
                      Queued, Pointer
  <2> QED  BY <2>2, <2>3
<1>5. WorksLive'
  BY <1>2, <1>3, <1>4, PointerType DEF Ownership, WorksLive
<1>6. UrbsLive'
  <2>1. \A d \in Cells : IsUrbWork(d)' =>
           /\ IsUrbWork(d) /\ heap'[d] = heap[d] /\ heap[d].urb \in Cells
           /\ heap[d].urb # c
    BY <1>2, <1>3, UrbWorkType DEF IsUrbWork
  <2> QED  BY <1>1, <1>3, <2>1 DEF Ownership, UrbsLive, UrbOf
<1>7. UrbsOwnedOnce'
  BY <1>1, <1>2, <1>3 DEF Ownership, UrbsOwnedOnce, IsUrbWork
<1> QED  BY <1>4, <1>5, <1>6, <1>7 DEF Ownership

LEMMA AllocOwnership ==
    ASSUME IInv, NEW c \in Cells, Alloc(c)
    PROVE  Ownership'
<1> USE DEF IInv
<1> DEFINE o == [kind |-> "urb", handle |-> wk.handle, serial |-> wk.serial,
                 urb |-> wk.urb, filled |-> FALSE]
<1>1. /\ heap' = [heap EXCEPT ![c] = o] /\ heap[c] = Free /\ u' = c
      /\ UNCHANGED <<inbox, processing, obj>>
  BY NewCellFree DEF Alloc
<1>2. o.kind = "urb"
  OBVIOUS
<1> HIDE DEF o
<1>3. /\ \A d \in Pointer : heap'[d] = heap[d]
      /\ \A d \in Cells :
            IsUrbWork(d) => /\ heap[d].urb # c /\ heap'[d] = heap[d]
                            /\ heap'[heap[d].urb] = heap[heap[d].urb]
      /\ \A d \in Cells : d # c => heap'[d] = heap[d]
      /\ heap'[c] = o
  BY <1>1, NewKeeps
<1>4. \A d \in Cells : IsUrbWork(d)' => IsUrbWork(d)
  BY <1>2, <1>3 DEF IsUrbWork
<1>5. InboxDistinct' /\ QueuesDisjoint' /\ Pointer' = Pointer
  BY <1>1 DEF Ownership, InboxDistinct, QueuesDisjoint, Pointer, Queued
<1>6. WorksLive'
  BY <1>3, <1>5 DEF Ownership, WorksLive
<1>7. UrbsLive'
  BY <1>1, <1>2, <1>3, <1>4 DEF Ownership, UrbsLive, UrbOf
<1>8. UrbsOwnedOnce'
  BY <1>1, <1>3, <1>4 DEF Ownership, UrbsOwnedOnce
<1> QED  BY <1>5, <1>6, <1>7, <1>8 DEF Ownership

LEMMA FetchDataOwnership ==
    ASSUME IInv, FetchData
    PROVE  Ownership'
<1> USE DEF IInv
<1>1. /\ u \in Cells /\ heap[u].kind = "urb" /\ u' = u
      /\ heap' = [heap EXCEPT ![u].filled = TRUE]
      /\ UNCHANGED <<inbox, processing, obj>>
  BY DEF TypeOK, Control, Ownership, UrbsLive, FetchData
<1>2. /\ heap'[u].kind = "urb"
      /\ \A d \in Cells : d # u => heap'[d] = heap[d]
  <2>1. heap[u] \in UrbObjs
    BY <1>1, Kinds DEF TypeOK
  <2> QED  BY <1>1, <2>1 DEF TypeOK, UrbObjs
<1>3. \A d \in Cells :
         /\ IsUrbWork(d)' <=> IsUrbWork(d)
         /\ IsUrbWork(d) => heap'[d] = heap[d]
  BY <1>1, <1>2 DEF IsUrbWork
<1>4. InboxDistinct' /\ QueuesDisjoint' /\ Pointer' = Pointer
  BY <1>1 DEF Ownership, InboxDistinct, QueuesDisjoint, Pointer, Queued
<1>5. WorksLive'
  BY <1>1, <1>2, <1>4, PointerType DEF Ownership, WorksLive
<1>6. UrbsLive'
  BY <1>1, <1>2, <1>3, UrbWorkType DEF Ownership, UrbsLive, UrbOf
<1>7. UrbsOwnedOnce'
  BY <1>1, <1>3 DEF Ownership, UrbsOwnedOnce
<1> QED  BY <1>4, <1>5, <1>6, <1>7 DEF Ownership

LEMMA FetchDataFailsOwnership ==
    ASSUME IInv, FetchDataFails
    PROVE  Ownership'
<1> USE DEF IInv
<1>1. /\ u \in Cells /\ heap[u].kind = "urb" /\ u' = Null
      /\ heap' = Delete({u}) /\ UNCHANGED <<inbox, processing, obj>>
  BY DEF TypeOK, Control, Ownership, UrbsLive, FetchDataFails
<1>2. \A d \in Cells : heap'[d] = IF d = u THEN Free ELSE heap[d]
  BY <1>1 DEF Delete, IsUrbWork
<1>3. \A d \in Cells :
         IsUrbWork(d)' => IsUrbWork(d) /\ d # u /\ heap'[d] = heap[d]
  BY <1>2 DEF IsUrbWork, Free
<1>4. InboxDistinct' /\ QueuesDisjoint' /\ Pointer' = Pointer
  BY <1>1 DEF Ownership, InboxDistinct, QueuesDisjoint, Pointer, Queued
<1>5. WorksLive'
  BY <1>1, <1>2, <1>4, PointerType DEF Ownership, WorksLive
<1>6. \A d \in Cells : IsUrbWork(d) => heap[d].urb \in Cells /\ heap[d].urb # u
  BY UrbWorkType DEF Ownership, UrbsOwnedOnce
<1>7. UrbsLive'
  BY <1>1, <1>2, <1>3, <1>6 DEF Ownership, UrbsLive, UrbOf
<1>8. UrbsOwnedOnce'
  BY <1>1, <1>3, <1>6, CellsAssumption DEF Ownership, UrbsOwnedOnce
<1> QED  BY <1>4, <1>5, <1>7, <1>8 DEF Ownership

(* bg_work lets go of its objects without deleting them.                   *)
LEMMA ForgetOwnership ==
    ASSUME IInv, AllocGivesUp \/ RouteAllocFails
    PROVE  Ownership'
<1> USE DEF IInv
<1>1. /\ UNCHANGED <<heap, inbox, processing>>
      /\ obj' \in {obj, Null} /\ u' \in {u, Null}
  BY DEF AllocGivesUp, RouteAllocFails
<1>2. \A d \in Cells : IsUrbWork(d) => heap[d].urb # Null
  BY UrbWorkType, CellsAssumption
<1>3. Null \notin Queued
  BY PointerType, CellsAssumption DEF Pointer
<1> QED
  BY <1>1, <1>2, <1>3
  DEF Ownership, InboxDistinct, QueuesDisjoint, WorksLive, UrbsLive, UrbsOwnedOnce,
      Pointer, Queued, IsUrbWork, UrbOf

(* The steps that delete an unfinished work object of bg_work.             *)
LEMMA DeleteObjOwnership ==
    ASSUME IInv, Retry("statWait", "stat") \/ Retry("routeWait", "alloc") \/ RouteNowhere
    PROVE  Ownership'
<1> USE DEF IInv
<1>1. CASE UNCHANGED <<heap, inbox, processing, obj, u>>
  BY <1>1 DEF Ownership, InboxDistinct, QueuesDisjoint, WorksLive, UrbsLive,
              UrbsOwnedOnce, Pointer, Queued, IsUrbWork, UrbOf
<1>2. CASE /\ heap' = Delete({obj}) /\ obj' = Null /\ u' \in {u, Null}
           /\ UNCHANGED <<inbox, processing>>
  <2>1. Null \notin Cells /\ Queued \subseteq Cells
    BY PointerType, CellsAssumption DEF Pointer
  <2>2. Delete({obj}) = Delete({obj} \ {Null})
    BY <2>1 DEF Delete
  <2>3. Pointer' \subseteq Pointer \ ({obj} \ {Null})
    BY <1>2 DEF Ownership, QueuesDisjoint, Pointer, Queued
  <2>4. ({obj} \ {Null}) \in SUBSET Pointer
    BY DEF Pointer
  <2>5. WorksLive' /\ UrbsLive' /\ UrbsOwnedOnce'
    BY <1>2, <2>2, <2>3, <2>4, DeleteSound
  <2>6. InboxDistinct' /\ QueuesDisjoint'
    BY <1>2, <2>1 DEF Ownership, InboxDistinct, QueuesDisjoint, Queued
  <2> QED  BY <2>5, <2>6 DEF Ownership
<1> QED  BY <1>1, <1>2 DEF Retry, RouteNowhere

LEMMA RouteOwnership ==
    ASSUME IInv, NEW c \in Cells, RouteEnqueueFails(c) \/ RouteEnqueue(c)
    PROVE  Ownership'
<1> USE DEF IInv
<1> DEFINE o == [kind |-> "process", port |-> PortFromAddress(wk.urb.devadr),
                 canceled |-> FALSE, urb |-> u]
           base == IF obj = Null THEN heap ELSE Delete({obj})
<1>1. /\ heap' = [base EXCEPT ![c] = o] /\ Target(c)
      /\ u \in Cells /\ u' = Null /\ processing' = processing
  BY DEF TypeOK, Control, RouteEnqueueFails, RouteEnqueue, WithUrbWork
<1>2. o.kind = "process" /\ o.urb = u
  OBVIOUS
<1> HIDE DEF o
<1>3. base \in [Cells -> Objects]
  BY DeleteType DEF TypeOK
<1>4. c \notin Queued /\ u # c
  <2>1. heap[c].kind # "urb"
    BY <1>1, TargetFree DEF Control, RouteEnqueueFails, RouteEnqueue, BgAtUrb, Free
  <2> QED  BY <1>1, <2>1, TargetFree, CellsAssumption DEF Ownership, UrbsLive
<1>5. /\ \A d \in Pointer \ {c} : base[d] = heap[d]
      /\ \A d \in Cells \ {c} :
            base[d].kind = "process" =>
                /\ IsUrbWork(d) /\ base[d] = heap[d] /\ heap[d].urb # c
                /\ base[heap[d].urb] = heap[heap[d].urb]
      /\ base[u] = heap[u]
  <2>1. CASE obj = Null
    <3>1. heap[c] = Free
      BY <1>1, <2>1, TargetFree
    <3>2. \A d \in Cells : IsUrbWork(d) => heap[d].urb # c
      BY <3>1 DEF Ownership, UrbsLive, UrbOf, Free
    <3> QED  BY <2>1, <3>2 DEF IsUrbWork
  <2>2. CASE obj # Null
    <3>1. c = obj /\ heap[c].kind = "process" /\ base = Delete({obj})
      BY <1>1, <2>2, TargetFree DEF Control, RouteEnqueueFails, RouteEnqueue, BgAtUrb
    <3>2. {obj} \in SUBSET Pointer
      BY <2>2 DEF Pointer
    <3>3. \A d \in Cells : IsUrbWork(d) => heap[d].urb # c
      BY <3>1 DEF Ownership, UrbsLive, UrbOf
    <3> QED  BY <1>1, <3>1, <3>2, <3>3, DeleteKeeps, CellsAssumption
  <2> QED  BY <2>1, <2>2
<1> HIDE DEF base
<1>6. \A d \in Cells : heap'[d] = IF d = c THEN o ELSE base[d]
  BY <1>1, <1>3
<1>7. \A d \in Cells :
         IsUrbWork(d)' /\ d # c =>
             /\ IsUrbWork(d) /\ heap'[d] = heap[d]
             /\ heap[d].urb \in Cells /\ heap[d].urb # u
             /\ heap'[heap[d].urb] = heap[heap[d].urb]
  <2>1. \A d \in Cells :
           IsUrbWork(d) => heap[d].urb \in Cells /\ heap[d].urb # u
    BY UrbWorkType DEF Ownership, UrbsOwnedOnce
  <2> QED  BY <1>5, <1>6, <2>1 DEF IsUrbWork
<1>8. InboxDistinct' /\ QueuesDisjoint' /\ Pointer' \subseteq Pointer \cup {c}
  <2>1. CASE RouteEnqueue(c)
    BY <1>4, <2>1, EnqueueKeeps DEF RouteEnqueue
  <2>2. CASE RouteEnqueueFails(c)
    BY <1>4, <2>2 DEF RouteEnqueueFails, Ownership, InboxDistinct, QueuesDisjoint,
                      Queued, Pointer
  <2> QED  BY <2>1, <2>2
<1>9. WorksLive'
  BY <1>2, <1>5, <1>6, <1>8, PointerType DEF Ownership, WorksLive
<1>10. UrbsLive'
  <2>1. heap'[u] = heap[u] /\ heap[u].kind = "urb"
    BY <1>1, <1>4, <1>5, <1>6, CellsAssumption DEF Ownership, UrbsLive
  <2>2. ASSUME NEW d \in Cells, IsUrbWork(d)'
        PROVE  heap'[heap'[d].urb].kind = "urb"
    BY <1>2, <1>6, <1>7, <2>1, <2>2 DEF Ownership, UrbsLive, UrbOf
  <2> QED  BY <1>1, <2>2 DEF UrbsLive, UrbOf
<1>11. UrbsOwnedOnce'
  BY <1>1, <1>2, <1>6, <1>7, CellsAssumption DEF Ownership, UrbsOwnedOnce
<1> QED  BY <1>8, <1>9, <1>10, <1>11 DEF Ownership

LEMMA CancelOwnership ==
    ASSUME IInv, NEW h \in Handles,
           CancelQueued(h) \/ CancelInProgress(h) \/ CancelUnknown(h),
           UNCHANGED <<processing, obj, u>>
    PROVE  Ownership'
<1> USE DEF IInv
<1>1. CASE CancelQueued(h)
  <2>1. PICK i \in DOMAIN inbox :
           /\ FirstMatch(i, h) /\ UNCHANGED inbox
           /\ heap' = [heap EXCEPT ![inbox[i]].canceled = TRUE]
    BY <1>1 DEF CancelQueued
  <2>2. inbox[i] \in Cells /\ heap[inbox[i]] \in UrbWorks
    BY <2>1, PointerType, UrbWorkType DEF FirstMatch, InboxMatches, Matches
  <2>3. /\ heap'[inbox[i]].kind = "process"
        /\ heap'[inbox[i]].urb = heap[inbox[i]].urb
        /\ heap[inbox[i]].kind = "process"
        /\ \A d \in Cells : d # inbox[i] => heap'[d] = heap[d]
    BY <2>1, <2>2 DEF TypeOK, UrbWorks
  <2>4. \A d \in Cells :
           /\ heap'[d].kind = heap[d].kind
           /\ IsUrbWork(d) => heap'[d].urb = heap[d].urb
    BY <2>3
  <2>5. InboxDistinct' /\ QueuesDisjoint' /\ Pointer' = Pointer
    BY <2>1 DEF Ownership, InboxDistinct, QueuesDisjoint, Pointer, Queued
  <2>6. WorksLive'
    BY <2>4, <2>5, PointerType DEF Ownership, WorksLive
  <2>7. UrbsLive'
    <3>1. ASSUME NEW d \in Cells, IsUrbWork(d)'
          PROVE  UrbOf(d)'.kind = "urb"
      <4>1. IsUrbWork(d) /\ heap'[d].urb = heap[d].urb /\ heap[d].urb \in Cells
        BY <2>4, <3>1, UrbWorkType DEF IsUrbWork
      <4> QED  BY <2>4, <4>1 DEF Ownership, UrbsLive, UrbOf
    <3>2. u # Null => heap'[u].kind = "urb"
      BY <2>4 DEF TypeOK, Ownership, UrbsLive
    <3> QED  BY <3>1, <3>2 DEF UrbsLive
  <2>8. UrbsOwnedOnce'
    BY <2>4 DEF Ownership, UrbsOwnedOnce, IsUrbWork
  <2> QED  BY <2>5, <2>6, <2>7, <2>8 DEF Ownership
<1>2. CASE CancelInProgress(h)
  <2> DEFINE c == NewCell
  <2>1. PICK o : heap' = [heap EXCEPT ![c] = o] /\ o.kind = "cancel"
    <3>1. PICK w \in processing :
             heap' = [heap EXCEPT ![c] =
                        [kind |-> "cancel", port |-> heap[w].port, handle |-> h]]
      BY <1>2 DEF CancelInProgress
    <3> DEFINE new == [kind |-> "cancel", port |-> heap[w].port, handle |-> h]
    <3>2. new.kind = "cancel"
      OBVIOUS
    <3>3. heap' = [heap EXCEPT ![c] = new]
      BY <3>1
    <3> HIDE DEF new
    <3> QED  BY <3>2, <3>3
  <2>2. c \in Cells /\ heap[c] = Free /\ inbox' = Append(inbox, c)
    BY <1>2, NewCellFree DEF CancelInProgress
  <2> HIDE DEF c
  <2>3. /\ \A d \in Pointer : d # c /\ heap'[d] = heap[d]
        /\ \A d \in Cells :
              IsUrbWork(d) => /\ d # c /\ heap'[d] = heap[d]
                              /\ heap'[heap[d].urb] = heap[heap[d].urb]
        /\ u # Null => heap'[u] = heap[u]
        /\ \A d \in Cells : d # c => heap'[d] = heap[d]
        /\ heap'[c] = o
    BY <2>1, <2>2, NewKeeps
  <2>4. \A d \in Cells : IsUrbWork(d)' => IsUrbWork(d)
    BY <2>1, <2>3 DEF IsUrbWork
  <2>5. c \notin Queued /\ (obj # Null => obj # c)
    BY <2>3 DEF Pointer
  <2>6. InboxDistinct' /\ QueuesDisjoint' /\ Pointer' \subseteq Pointer \cup {c}
    BY <2>2, <2>5, EnqueueKeeps
  <2>7. WorksLive'
    BY <2>1, <2>3, <2>6 DEF Ownership, WorksLive
  <2>8. UrbsLive'
    BY <2>3, <2>4 DEF Ownership, UrbsLive, UrbOf
  <2>9. UrbsOwnedOnce'
    BY <2>3, <2>4 DEF Ownership, UrbsOwnedOnce
  <2> QED  BY <2>6, <2>7, <2>8, <2>9 DEF Ownership
<1>3. CASE CancelUnknown(h)
  BY <1>3 DEF CancelUnknown, Ownership, InboxDistinct, QueuesDisjoint, WorksLive,
              UrbsLive, UrbsOwnedOnce, Pointer, Queued, IsUrbWork, UrbOf
<1> QED  BY <1>1, <1>2, <1>3

(* next_work deletes the canceled works it passes and moves one work from  *)
(* the inbox to the list of works in progress.                             *)
LEMMA NextWorkOwnership ==
    ASSUME IInv, NextWork
    PROVE  Ownership'
<1> USE DEF IInv
<1>1. PICK i \in DOMAIN inbox :
         /\ heap' = Delete(Before(i))
         /\ inbox' = SubSeq(inbox, i + 1, Len(inbox))
         /\ processing' = processing \cup {inbox[i]}
         /\ UNCHANGED <<obj, u>>
  BY DEF NextWork
<1>2. DOMAIN inbox = 1..Len(inbox) /\ Len(inbox) \in Nat
  BY LenProperties DEF TypeOK
<1>3. /\ DOMAIN inbox' = 1..(Len(inbox) - i)
      /\ \A j \in DOMAIN inbox' : i + j \in DOMAIN inbox /\ inbox'[j] = inbox[i + j]
  BY <1>1, RestOfInbox
<1>4. InboxDistinct'
  BY <1>2, <1>3 DEF Ownership, InboxDistinct
<1>5. Range(inbox)' \subseteq Range(inbox) /\ inbox[i] \notin Range(inbox)'
  BY <1>2, <1>3 DEF Ownership, InboxDistinct, Range
<1>6. inbox[i] \in Range(inbox)
  BY DEF Range
<1>7. QueuesDisjoint'
  BY <1>1, <1>5, <1>6 DEF Ownership, QueuesDisjoint, Queued
<1>8. Before(i) \subseteq Range(inbox) /\ Before(i) \cap Range(inbox)' = {}
      /\ inbox[i] \notin Before(i)
  <2>1. \A k \in 1..(i - 1) : k \in DOMAIN inbox /\ k # i
    BY <1>2
  <2>2. \A k \in 1..(i - 1), j \in DOMAIN inbox' : inbox[k] # inbox'[j]
    <3>1. \A k \in 1..(i - 1), j \in DOMAIN inbox' : k # i + j
      BY <1>2, <1>3
    <3> QED  BY <1>3, <2>1, <3>1 DEF Ownership, InboxDistinct
  <2> QED  BY <2>1, <2>2 DEF Ownership, InboxDistinct, Range, Before
<1>9. Pointer' \subseteq Pointer \ Before(i)
  BY <1>1, <1>5, <1>6, <1>8 DEF Ownership, QueuesDisjoint, Pointer, Queued
<1>10. Before(i) \in SUBSET Pointer
  BY <1>8 DEF Pointer, Queued
<1>11. WorksLive' /\ UrbsLive' /\ UrbsOwnedOnce'
  BY <1>1, <1>9, <1>10, DeleteSound
<1> QED  BY <1>4, <1>7, <1>11 DEF Ownership

(* The steps that delete works and take them out of the queues.            *)
LEMMA FinishOwnership ==
    ASSUME IInv, NextWorkNone \/ Destroy \/ \E c \in Cells : FinishWork(c)
    PROVE  Ownership'
<1> USE DEF IInv
<1>1. PICK S \in SUBSET Queued :
         /\ heap' = Delete(S) /\ UNCHANGED <<obj, u>>
         /\ inbox' = inbox \/ inbox' = <<>>
         /\ processing' \subseteq processing
         /\ Range(inbox') \cap S = {} /\ processing' \cap S = {}
  <2>1. CASE NextWorkNone
    <3>1. Range(inbox) \cap processing = {}
      BY DEF Ownership, QueuesDisjoint
    <3>2. Range(<<>>) = {}
      BY DEF Range
    <3> QED  BY <2>1, <3>1, <3>2 DEF NextWorkNone, Queued
  <2>2. CASE Destroy
    <3>1. Range(<<>>) = {}
      BY DEF Range
    <3> QED  BY <2>2, <3>1 DEF Destroy, Queued
  <2>3. CASE \E c \in Cells : FinishWork(c)
    <3>1. PICK c \in Cells : FinishWork(c)
      BY <2>3
    <3>2. c \notin Range(inbox) /\ {c} \subseteq Queued
      BY <3>1 DEF FinishWork, Ownership, QueuesDisjoint, Queued
    <3> QED  BY <3>1, <3>2 DEF FinishWork
  <2> QED  BY <2>1, <2>2, <2>3
<1>2. Range(inbox)' \subseteq Range(inbox)
  BY <1>1 DEF Range
<1>3. InboxDistinct'
  BY <1>1 DEF Ownership, InboxDistinct
<1>4. QueuesDisjoint'
  BY <1>1, <1>2 DEF Ownership, QueuesDisjoint, Queued
<1>5. Pointer' \subseteq Pointer \ S
  BY <1>1, <1>2 DEF Ownership, QueuesDisjoint, Pointer, Queued
<1>6. S \in SUBSET Pointer
  BY DEF Pointer
<1>7. WorksLive' /\ UrbsLive' /\ UrbsOwnedOnce'
  BY <1>1, <1>5, <1>6, DeleteSound
<1> QED  BY <1>3, <1>4, <1>7 DEF Ownership

LEMMA OwnershipStep ==
    ASSUME IInv, [Next]_vars
    PROVE  Ownership'
<1>1. CASE UNCHANGED <<heap, inbox, processing, obj, u>>
  BY <1>1 DEF IInv, Ownership, InboxDistinct, QueuesDisjoint, WorksLive, UrbsLive,
              UrbsOwnedOnce, Pointer, Queued, IsUrbWork, UrbOf
<1>2. CASE StatStep
  BY <1>1, <1>2, StatOwnership, DeleteObjOwnership DEF StatStep, StatAllocFails
<1>3. CASE UrbStep
  BY <1>1, <1>3, AllocOwnership, FetchDataOwnership, FetchDataFailsOwnership,
     ForgetOwnership, DeleteObjOwnership, RouteOwnership DEF UrbStep, AllocThrows
<1>4. CASE BgCancel
  <2>1. wk.handle \in Handles
    BY <1>4, Items DEF IInv, TypeOK, Control, BgCancel
  <2> QED  BY <1>4, <2>1, CancelOwnership DEF BgCancel
<1>5. CASE \E h \in Handles : UserCancel(h)
  BY <1>5, CancelOwnership DEF UserCancel
<1>6. CASE NextWork
  BY <1>6, NextWorkOwnership
<1>7. CASE NextWorkNone \/ Destroy \/ \E c \in Cells : FinishWork(c)
  BY <1>7, FinishOwnership
<1>8. CASE \/ Loop \/ FetchNothing \/ BgCancelThrows
           \/ (\E r \in Reports : FetchStat(r))
           \/ (\E h \in Handles, k \in UrbInputs : FetchUrb(h, k))
           \/ (\E h \in Handles : FetchCancel(h) \/ Unlink(h))
           \/ BeginShutdown \/ Terminated \/ UNCHANGED vars
  BY <1>1, <1>8 DEF Loop, FetchNothing, BgCancelThrows, FetchStat, FetchUrb,
                    FetchCancel, Unlink, BeginShutdown, Terminated, vars
<1> QED
  BY <1>2, <1>3, <1>4, <1>5, <1>6, <1>7, <1>8 DEF Next, BgStep, CancelStep

-----------------------------------------------------------------------------
(* Control: the steps of other threads leave the object bg_work builds.    *)

LEMMA ControlFrame ==
    ASSUME IInv, UNCHANGED bgVars, obj # Null => heap'[obj].kind = heap[obj].kind
    PROVE  Control'
  BY DEF IInv, Control

LEMMA DeleteQueuedControl ==
    ASSUME IInv, UNCHANGED bgVars, NEW S \in SUBSET Queued, heap' = Delete(S)
    PROVE  Control'
<1>1. S \in SUBSET Pointer
  BY DEF Pointer
<1>2. obj # Null => obj \in Pointer \ S
  BY DEF IInv, Ownership, QueuesDisjoint, Pointer
<1> QED  BY <1>1, <1>2, DeleteKeeps, ControlFrame DEF IInv

LEMMA UserCancelControl ==
    ASSUME IInv, NEW h \in Handles, UserCancel(h)
    PROVE  Control'
<1>1. UNCHANGED bgVars
  BY DEF UserCancel
<1>2. CASE CancelQueued(h)
  <2>1. PICK i \in DOMAIN inbox :
           /\ FirstMatch(i, h)
           /\ heap' = [heap EXCEPT ![inbox[i]].canceled = TRUE]
    BY <1>2 DEF CancelQueued
  <2>2. inbox[i] \in Queued
    BY DEF Queued, Range
  <2>3. obj # Null => heap'[obj] = heap[obj]
    BY <2>1, <2>2 DEF IInv, TypeOK, Ownership, QueuesDisjoint
  <2> QED  BY <1>1, <2>3, ControlFrame
<1>3. CASE CancelInProgress(h)
  <2>1. NewCell \in Cells /\ heap[NewCell] = Free
    BY <1>3, NewCellFree DEF CancelInProgress
  <2>2. PICK o : heap' = [heap EXCEPT ![NewCell] = o]
    BY <1>3 DEF CancelInProgress
  <2>3. obj # Null => heap'[obj] = heap[obj]
    BY <2>1, <2>2, NewKeeps DEF IInv, Pointer
  <2> QED  BY <1>1, <2>3, ControlFrame
<1> QED  BY <1>2, <1>3 DEF UserCancel

LEMMA StatControl ==
    ASSUME IInv, NEW c \in Cells,
           StatAllocFails \/ StatEnqueueFails(c) \/ StatEnqueue(c)
    PROVE  Control'
<1> USE DEF IInv
<1>1. CASE StatAllocFails
  BY <1>1 DEF StatAllocFails, Control, BgAtUrb
<1>2. CASE StatEnqueueFails(c)
  <2>1. NewStatWork.kind = "stat"
    BY <1>2, NewStatWorkType DEF TypeOK, Control, StatEnqueueFails
  <2>2. heap'[c].kind = "stat"
    BY <1>2, <2>1 DEF StatEnqueueFails, TypeOK
  <2> QED  BY <1>2, <2>2 DEF StatEnqueueFails, Control, BgAtUrb
<1>3. CASE StatEnqueue(c)
  BY <1>3 DEF StatEnqueue, Control, BgAtUrb
<1> QED  BY <1>1, <1>2, <1>3

LEMMA UrbControl ==
    ASSUME IInv, NEW c \in Cells,
           \/ Alloc(c) \/ FetchData \/ RouteEnqueueFails(c) \/ RouteAllocFails
    PROVE  Control'
<1> USE DEF IInv
<1>1. CASE Alloc(c)
  <2>1. PICK o : heap' = [heap EXCEPT ![c] = o]
    BY <1>1 DEF Alloc
  <2>2. heap[c] = Free /\ u' = c
    BY <1>1, NewCellFree DEF Alloc
  <2>3. obj # Null => heap'[obj] = heap[obj]
    BY <2>1, <2>2, NewKeeps DEF Pointer
  <2> QED  BY <1>1, <2>2, <2>3, CellsAssumption DEF Alloc, Control, BgAtUrb
<1>2. CASE FetchData
  <2>1. obj # Null => heap'[obj] = heap[obj]
    BY <1>2 DEF TypeOK, Control, FetchData, Ownership, UrbsLive, BgAtUrb
  <2> QED  BY <1>2, <2>1 DEF FetchData, Control, BgAtUrb
<1>3. CASE RouteEnqueueFails(c)
  <2> DEFINE o == [kind |-> "process", port |-> PortFromAddress(wk.urb.devadr),
                   canceled |-> FALSE, urb |-> u]
             base == IF obj = Null THEN heap ELSE Delete({obj})
  <2>1. base \in [Cells -> Objects]
    BY DeleteType DEF TypeOK
  <2>2. heap' = [base EXCEPT ![c] = o]
    BY <1>3 DEF RouteEnqueueFails, WithUrbWork
  <2>3. o.kind = "process"
    OBVIOUS
  <2> HIDE DEF o, base
  <2>4. heap'[c].kind = "process"
    BY <2>1, <2>2, <2>3
  <2> QED  BY <1>3, <2>4 DEF RouteEnqueueFails, Control, BgAtUrb
<1>4. CASE RouteAllocFails
  BY <1>4 DEF RouteAllocFails, Control, BgAtUrb
<1> QED  BY <1>1, <1>2, <1>3, <1>4

(* The steps after which bg_work has nothing in hand.                      *)
LEMMA IdleControl ==
    ASSUME IInv,
           \/ Loop \/ FetchNothing \/ BgCancel \/ AllocGivesUp \/ FetchDataFails
           \/ RouteNowhere \/ (\E c \in Cells : RouteEnqueue(c))
           \/ (\E r \in Reports : FetchStat(r))
           \/ (\E h \in Handles, k \in UrbInputs : FetchUrb(h, k))
           \/ (\E h \in Handles : FetchCancel(h))
    PROVE  Control'
<1> USE DEF IInv, Control, BgAtUrb
<1>1. CASE Loop \/ FetchNothing \/ BgCancel
  BY <1>1 DEF Loop, FetchNothing, BgCancel
<1>2. CASE AllocGivesUp \/ RouteNowhere \/ \E c \in Cells : RouteEnqueue(c)
  BY <1>2 DEF AllocGivesUp, RouteNowhere, RouteEnqueue
<1>3. CASE FetchDataFails
  BY <1>3 DEF FetchDataFails
<1>4. CASE \E r \in Reports : FetchStat(r)
  BY <1>4 DEF FetchStat
<1>5. CASE \E h \in Handles, k \in UrbInputs : FetchUrb(h, k)
  BY <1>5 DEF FetchUrb
<1>6. CASE \E h \in Handles : FetchCancel(h)
  BY <1>6 DEF FetchCancel
<1> QED  BY <1>1, <1>2, <1>3, <1>4, <1>5, <1>6

LEMMA RetryControl ==
    ASSUME IInv, Retry("statWait", "stat") \/ Retry("routeWait", "alloc")
    PROVE  Control'
  BY DEF IInv, Control, BgAtUrb, Retry

LEMMA ControlStep ==
    ASSUME IInv, [Next]_vars
    PROVE  Control'
<1>1. CASE \/ UNCHANGED vars \/ Terminated \/ AllocThrows \/ BgCancelThrows
           \/ BeginShutdown \/ \E h \in Handles : Unlink(h)
  <2>1. UNCHANGED bgVars /\ UNCHANGED heap
    BY <1>1 DEF vars, Terminated, AllocThrows, BgCancelThrows, BeginShutdown, Unlink
  <2> QED  BY <2>1, ControlFrame
<1>2. CASE StatStep
  <2>1. CASE StatAllocFails
    BY <2>1, CellsAssumption DEF IInv, StatAllocFails, Control, BgAtUrb
  <2> QED  BY <1>2, <2>1, StatControl, RetryControl DEF StatStep
<1>3. CASE UrbStep
  <2>1. CASE FetchData
    BY <2>1, UrbControl DEF IInv, FetchData, TypeOK, Ownership, UrbsLive, Control
  <2>2. CASE RouteAllocFails
    BY <2>2 DEF IInv, RouteAllocFails, Control, BgAtUrb
  <2> QED  BY <1>1, <1>3, <2>1, <2>2, UrbControl, IdleControl, RetryControl DEF UrbStep
<1>4. CASE NextWork
  <2>1. PICK i \in DOMAIN inbox : heap' = Delete(Before(i)) /\ UNCHANGED bgVars
    BY <1>4 DEF NextWork
  <2>2. Before(i) \in SUBSET Queued
    <3>1. DOMAIN inbox = 1..Len(inbox) /\ Len(inbox) \in Nat
      BY LenProperties DEF IInv, TypeOK
    <3> QED  BY <3>1 DEF Before, Queued, Range
  <2> QED  BY <2>1, <2>2, DeleteQueuedControl
<1>5. CASE NextWorkNone \/ Destroy
  BY <1>5, DeleteQueuedControl DEF NextWorkNone, Destroy, Queued
<1>6. CASE \E c \in Cells : FinishWork(c)
  <2>1. PICK c \in Cells : c \in Queued /\ heap' = Delete({c}) /\ UNCHANGED bgVars
    BY <1>6 DEF FinishWork, Queued
  <2> QED  BY <2>1, DeleteQueuedControl
<1>7. CASE \E h \in Handles : UserCancel(h)
  BY <1>7, UserCancelControl
<1>8. CASE \/ Loop \/ FetchNothing \/ BgCancel
           \/ (\E r \in Reports : FetchStat(r))
           \/ (\E h \in Handles, k \in UrbInputs : FetchUrb(h, k))
           \/ (\E h \in Handles : FetchCancel(h))
  BY <1>8, IdleControl
<1> QED
  BY <1>1, <1>2, <1>3, <1>4, <1>5, <1>6, <1>7, <1>8 DEF Next, BgStep, CancelStep

-----------------------------------------------------------------------------
(* The invariant and what follows from it.                                 *)

LEMMA InitIInv ==
    ASSUME Init
    PROVE  IInv
<1>1. TypeOK
  <2>1. inbox \in Seq(Cells)
    BY EmptySeq DEF Init
  <2>2. heap \in [Cells -> Objects]
    BY DEF Init, Objects
  <2>3. serial \in [Handles -> 0..MaxSubmit] /\ reports \in 0..MaxReports
    BY MaxSubmitAssumption, MaxReportsAssumption DEF Init
  <2> QED
    BY <2>1, <2>2, <2>3, ZeroStatType
    DEF Init, TypeOK, BgPoints, Fetched, KernelStates
<1>2. Control
  BY DEF Init, Control, BgAtUrb
<1>3. Ownership
  <2>1. Queued = {} /\ Pointer = {}
    BY DEF Init, Queued, Pointer, Range
  <2>2. \A c \in Cells : ~IsUrbWork(c)
    BY DEF Init, IsUrbWork, Free
  <2> QED
    BY <2>1, <2>2
    DEF Init, Ownership, InboxDistinct, QueuesDisjoint, WorksLive, UrbsLive,
        UrbsOwnedOnce, Queued
<1> QED  BY <1>1, <1>2, <1>3 DEF IInv

(* TypeOK, Control and Ownership hold in every state of the controller, for*)
(* any number of ports, handles and cells and whatever allocation fails:   *)
(* where bg_work is tells which of its pointers are live.                  *)
THEOREM InductiveInvariant == Spec => []IInv
<1>1. Init => IInv
  BY InitIInv
<1>2. IInv /\ [Next]_vars => IInv'
  BY TypeStep, ControlStep, OwnershipStep DEF IInv
<1> QED  BY <1>1, <1>2, PTL DEF Spec

(* Every variable of the controller keeps its type; in particular each port*)
(* address is 0xff or at most 0x7f, and only existing ports have work.     *)
THEOREM TypeCorrect == Spec => []TypeOK
<1>1. IInv => TypeOK
  BY DEF IInv
<1> QED  BY <1>1, InductiveInvariant, PTL

(* No queue, work or local variable of bg_work points to a deleted object, *)
(* and no object has two owners: bg_work, next_work, finish_work, the      *)
(* cancels and ~hcd use nothing after it was deleted and delete nothing    *)
(* twice, also on the paths where an allocation or an enqueue fails.       *)
THEOREM MemorySafe == Spec => []Ownership
<1>1. IInv => Ownership
  BY DEF IInv
<1> QED  BY <1>1, InductiveInvariant, PTL

-----------------------------------------------------------------------------
(* Which objects a step leaves as they are.                                *)

Same(c) ==
    /\ heap'[c] = heap[c]
    /\ IsUrbWork(c) => heap'[heap[c].urb] = heap[heap[c].urb]

LEMMA SameView ==
    ASSUME NEW c, Same(c)
    PROVE  /\ heap'[c] = heap[c]
           /\ IsUrbWork(c)' <=> IsUrbWork(c)
           /\ IsUrbWork(c) => UrbOf(c)' = UrbOf(c)
           /\ Canceled(c)' <=> Canceled(c)
           /\ \A h : Matches(c, h)' <=> Matches(c, h)
  BY DEF Same, IsUrbWork, UrbOf, Canceled, Matches

LEMMA DeleteSame ==
    ASSUME TypeOK, Ownership, NEW S \in SUBSET Pointer, heap' = Delete(S)
    PROVE  /\ \A c \in Pointer \ S : Same(c)
           /\ u # Null => heap'[u] = heap[u]
<1>1. ASSUME NEW c \in Pointer \ S
      PROVE  Same(c)
  <2>1. c \in Cells /\ heap'[c] = heap[c]
    BY <1>1, DeleteKeeps, PointerType
  <2>2. IsUrbWork(c) => heap'[heap[c].urb] = heap[heap[c].urb]
    BY <2>1, DeleteKeeps DEF IsUrbWork
  <2> QED  BY <2>1, <2>2 DEF Same
<1> QED  BY <1>1, DeleteKeeps

(* Writing to a cell that no queue leads to.                               *)
LEMMA WriteSame ==
    ASSUME TypeOK, Ownership, NEW c, c \notin Queued,
           \A d \in Queued : IsUrbWork(d) => heap[d].urb # c,
           \A d \in Cells : d # c => heap'[d] = heap[d]
    PROVE  \A d \in Queued : Same(d)
<1>1. ASSUME NEW d \in Queued
      PROVE  Same(d)
  <2>1. d \in Cells /\ d # c
    BY PointerType DEF Pointer
  <2>2. IsUrbWork(d) => heap[d].urb \in Cells /\ heap[d].urb # c
    BY <2>1, UrbWorkType
  <2> QED  BY <2>1, <2>2 DEF Same
<1> QED  BY <1>1

(* An object that is not an urb is no work's urb.                          *)
LEMMA NotAnUrb ==
    ASSUME TypeOK, Ownership, NEW c, heap[c].kind # "urb"
    PROVE  \A d \in Queued : IsUrbWork(d) => heap[d].urb # c
  BY PointerType DEF Pointer, Ownership, UrbsLive, UrbOf

LEMMA StatSame ==
    ASSUME IInv, NEW c \in Cells, StatEnqueueFails(c) \/ StatEnqueue(c)
    PROVE  /\ \A d \in Queued : Same(d)
           /\ c \notin Queued /\ heap'[c].kind = "stat"
<1> USE DEF IInv
<1>1. /\ heap' = [heap EXCEPT ![c] = NewStatWork] /\ Target(c) /\ pc = "stat"
      /\ c \notin Queued
  BY TargetFree DEF StatEnqueueFails, StatEnqueue
<1>2. NewStatWork.kind = "stat"
  BY <1>1, NewStatWorkType DEF TypeOK, Control
<1>3. heap'[c].kind = "stat" /\ \A d \in Cells : d # c => heap'[d] = heap[d]
  BY <1>1, <1>2 DEF TypeOK
<1>4. heap[c].kind # "urb"
  BY <1>1, TargetFree DEF Control, Free
<1> QED  BY <1>1, <1>3, <1>4, NotAnUrb, WriteSame

LEMMA RouteSame ==
    ASSUME IInv, NEW c \in Cells, RouteEnqueueFails(c) \/ RouteEnqueue(c)
    PROVE  /\ \A d \in Queued : Same(d)
           /\ c \notin Queued
           /\ heap'[c].kind = "process" /\ ~heap'[c].canceled /\ heap'[c].urb = u
           /\ heap'[c].port = PortFromAddress(wk.urb.devadr)
           /\ u \in Cells /\ heap'[u] = heap[u]
<1> USE DEF IInv
<1> DEFINE o == [kind |-> "process", port |-> PortFromAddress(wk.urb.devadr),
                 canceled |-> FALSE, urb |-> u]
           base == IF obj = Null THEN heap ELSE Delete({obj})
<1>1. /\ heap' = [base EXCEPT ![c] = o] /\ Target(c) /\ pc = "route"
      /\ u \in Cells /\ u # Null
  BY DEF TypeOK, Control, RouteEnqueueFails, RouteEnqueue, WithUrbWork
<1>2. /\ o.kind = "process" /\ ~o.canceled /\ o.urb = u
      /\ o.port = PortFromAddress(wk.urb.devadr)
  OBVIOUS
<1> HIDE DEF o
<1>3. base \in [Cells -> Objects]
  BY DeleteType DEF TypeOK
<1>4. heap'[c] = o /\ \A d \in Cells : d # c => heap'[d] = base[d]
  BY <1>1, <1>3
<1>5. c \notin Queued /\ heap[c].kind # "urb"
  BY <1>1, TargetFree DEF Control, BgAtUrb, Free
<1>6. u # c
  BY <1>1, <1>5 DEF Ownership, UrbsLive
<1>7. CASE obj = Null
  <2>1. \A d \in Cells : d # c => heap'[d] = heap[d]
    BY <1>4, <1>7
  <2>2. \A d \in Queued : Same(d)
    BY <1>5, <2>1, NotAnUrb, WriteSame
  <2> QED  BY <1>1, <1>2, <1>4, <1>5, <1>6, <2>1, <2>2
<1>8. CASE obj # Null
  <2>1. c = obj /\ base = Delete({c}) /\ {c} \in SUBSET Pointer
    BY <1>1, <1>8, TargetFree DEF Pointer
  <2> HIDE DEF base
  <2>2. base[u] = heap[u] /\ \A d \in Pointer \ {c} : base[d] = heap[d]
    BY <1>1, <2>1, DeleteKeeps
  <2>3. \A d \in Cells :
           base[d].kind = "process" => base[heap[d].urb] = heap[heap[d].urb]
    BY <2>1, DeleteKeeps
  <2>4. ASSUME NEW d \in Queued
        PROVE  Same(d)
    <3>1. d \in Cells /\ d \in Pointer /\ d # c
      BY <1>5, PointerType DEF Pointer
    <3>2. heap'[d] = heap[d] /\ base[d] = heap[d]
      BY <1>4, <2>2, <3>1
    <3>3. ASSUME IsUrbWork(d)
          PROVE  heap'[heap[d].urb] = heap[heap[d].urb]
      <4>1. heap[d].urb \in Cells /\ heap[d].urb # c
        BY <1>5, <3>1, <3>3, UrbWorkType, NotAnUrb
      <4> QED  BY <1>4, <2>3, <3>1, <3>2, <3>3, <4>1 DEF IsUrbWork
    <3> QED  BY <3>2, <3>3 DEF Same
  <2> QED  BY <1>1, <1>2, <1>4, <1>5, <1>6, <2>2, <2>4
<1> QED  BY <1>7, <1>8

(* The steps of bg_work that build, fill, delete or let go of what it has  *)
(* in hand.                                                                *)
LEMMA BuildSame ==
    ASSUME IInv,
           \/ \E c \in Cells : Alloc(c)
           \/ AllocGivesUp \/ FetchData \/ FetchDataFails
           \/ RouteNowhere \/ RouteAllocFails
           \/ Retry("statWait", "stat") \/ Retry("routeWait", "alloc")
    PROVE  \A d \in Queued : Same(d)
<1> USE DEF IInv
<1>1. CASE heap' = heap
  BY <1>1 DEF Same
<1>2. ASSUME NEW c \in Cells, Alloc(c)
      PROVE  \A d \in Queued : Same(d)
  <2>1. heap[c] = Free /\ \A d \in Cells : d # c => heap'[d] = heap[d]
    BY <1>2, NewCellFree DEF Alloc
  <2>2. c \notin Queued /\ heap[c].kind # "urb"
    BY <2>1 DEF Free, Ownership, WorksLive, Pointer
  <2> QED  BY <2>1, <2>2, NotAnUrb, WriteSame
<1>3. CASE FetchData \/ FetchDataFails
  <2>1. u # Null /\ u \in Cells /\ u \notin Queued
    BY <1>3 DEF TypeOK, FetchData, FetchDataFails, Control, Ownership, UrbsLive,
                WorksLive, Pointer
  <2>2. \A d \in Queued : IsUrbWork(d) => heap[d].urb # u
    BY PointerType DEF Pointer, Ownership, UrbsOwnedOnce
  <2>3. \A d \in Cells : d # u => heap'[d] = heap[d]
    <3>1. CASE FetchData
      BY <3>1 DEF TypeOK, FetchData
    <3>2. CASE FetchDataFails
      <4>1. ~IsUrbWork(u)
        BY <2>1 DEF Ownership, UrbsLive, IsUrbWork
      <4> QED  BY <3>2, <4>1 DEF FetchDataFails, Delete
    <3> QED  BY <1>3, <3>1, <3>2
  <2> QED  BY <2>1, <2>2, <2>3, WriteSame
<1>4. CASE heap' = Delete({obj})
  <2>1. Null \notin Cells /\ Queued \subseteq Pointer \ ({obj} \ {Null})
    BY CellsAssumption DEF Pointer, Ownership, QueuesDisjoint
  <2>2. Delete({obj}) = Delete({obj} \ {Null})
    BY <2>1 DEF Delete
  <2>3. ({obj} \ {Null}) \in SUBSET Pointer
    BY DEF Pointer
  <2>4. \A c \in Pointer \ ({obj} \ {Null}) : Same(c)
    BY <1>4, <2>2, <2>3, DeleteSame
  <2> QED  BY <2>1, <2>4
<1> QED
  BY <1>1, <1>2, <1>3, <1>4 DEF AllocGivesUp, RouteNowhere, RouteAllocFails, Retry
USE DEF hcdVars, portVars, bgVars, kernelVars, history

(* A cancel leaves every urb, and the works but for the mark of one.       *)
LEMMA CancelKeepsUrbs ==
    ASSUME IInv, NEW h \in Handles,
           CancelQueued(h) \/ CancelInProgress(h) \/ CancelUnknown(h)
    PROVE  /\ \A c \in Cells :
                 heap[c].kind = "urb" => heap'[c] = heap[c]
           /\ \A c \in Cells :
                 \/ heap'[c].kind = heap[c].kind
                 \/ heap[c] = Free /\ c \in Range(inbox') /\ heap'[c].kind = "cancel"
           /\ \A c \in Cells :
                 IsUrbWork(c) => heap'[c].urb = heap[c].urb
           /\ \A c \in Cells : IsUrbWork(c) \/ heap[c] = Free \/ heap'[c] = heap[c]
           /\ Range(inbox) \subseteq Range(inbox')
           /\ \A c \in Range(inbox') \ Range(inbox) :
                 c \in Cells /\ heap'[c].kind = "cancel"
<1> USE DEF IInv
<1>1. CASE CancelQueued(h)
  <2>1. PICK i \in DOMAIN inbox :
           /\ FirstMatch(i, h) /\ UNCHANGED inbox
           /\ heap' = [heap EXCEPT ![inbox[i]].canceled = TRUE]
    BY <1>1 DEF CancelQueued
  <2>2. inbox[i] \in Cells /\ heap[inbox[i]] \in UrbWorks
    BY <2>1, PointerType, UrbWorkType DEF FirstMatch, InboxMatches, Matches
  <2>3. /\ heap'[inbox[i]].kind = "process" /\ heap[inbox[i]].kind = "process"
        /\ heap'[inbox[i]].urb = heap[inbox[i]].urb
        /\ \A d \in Cells : d # inbox[i] => heap'[d] = heap[d]
    BY <2>1, <2>2 DEF TypeOK, UrbWorks
  <2> QED  BY <2>1, <2>3 DEF IsUrbWork
<1>2. CASE CancelInProgress(h)
  <2> DEFINE c == NewCell
  <2>1. PICK o : heap' = [heap EXCEPT ![c] = o] /\ o.kind = "cancel"
    <3>1. PICK w \in processing :
             heap' = [heap EXCEPT ![c] =
                        [kind |-> "cancel", port |-> heap[w].port, handle |-> h]]
      BY <1>2 DEF CancelInProgress
    <3> DEFINE new == [kind |-> "cancel", port |-> heap[w].port, handle |-> h]
    <3>2. new.kind = "cancel"
      OBVIOUS
    <3>3. heap' = [heap EXCEPT ![c] = new]
      BY <3>1
    <3> HIDE DEF new
    <3> QED  BY <3>2, <3>3
  <2>2. c \in Cells /\ heap[c] = Free /\ inbox' = Append(inbox, c)
    BY <1>2, NewCellFree DEF CancelInProgress
  <2> HIDE DEF c
  <2>3. c \notin Queued
    BY <2>2 DEF Free, Ownership, WorksLive, Pointer
  <2>4. Range(inbox') = Range(inbox) \cup {c}
    BY <2>2, <2>3, AppendKeeps
  <2>5. heap'[c] = o /\ \A d \in Cells : d # c => heap'[d] = heap[d]
    BY <2>1, <2>2 DEF TypeOK
  <2> QED  BY <2>1, <2>2, <2>4, <2>5 DEF Free, IsUrbWork
<1>3. CASE CancelUnknown(h)
  BY <1>3 DEF CancelUnknown
<1> QED  BY <1>1, <1>2, <1>3

(* The works that a step of the users or of the destructor deletes, and    *)
(* what becomes of the queues.                                             *)
Drains ==
    \/ NextWork \/ NextWorkNone \/ Destroy \/ \E c \in Cells : FinishWork(c)

LEMMA DrainDeletes ==
    ASSUME IInv, Drains
    PROVE  \E S \in SUBSET Queued :
              heap' = Delete(S) /\ Queued' = Queued \ S /\ UNCHANGED bgVars
                 /\ dropped' = dropped
<1> USE DEF IInv
<1>1. CASE NextWork
  <2>1. PICK i \in DOMAIN inbox :
           /\ heap' = Delete(Before(i))
           /\ inbox' = SubSeq(inbox, i + 1, Len(inbox))
           /\ processing' = processing \cup {inbox[i]}
           /\ UNCHANGED bgVars /\ dropped' = dropped
    BY <1>1 DEF NextWork
  <2>2. DOMAIN inbox = 1..Len(inbox) /\ Len(inbox) \in Nat
    BY LenProperties DEF TypeOK
  <2>3. /\ DOMAIN inbox' = 1..(Len(inbox) - i)
        /\ \A j \in DOMAIN inbox' : i + j \in DOMAIN inbox /\ inbox'[j] = inbox[i + j]
    BY <2>1, RestOfInbox
  <2>4. \A j \in DOMAIN inbox : j <= i \/ \E k \in DOMAIN inbox' : inbox'[k] = inbox[j]
    <3>1. ASSUME NEW j \in DOMAIN inbox, ~(j <= i)
          PROVE  \E k \in DOMAIN inbox' : inbox'[k] = inbox[j]
      <4>1. j - i \in DOMAIN inbox' /\ i + (j - i) = j
        BY <2>2, <2>3, <3>1
      <4> QED  BY <2>3, <4>1
    <3> QED  BY <3>1
  <2>5. \A k \in 1..(i - 1) : k \in DOMAIN inbox
    BY <2>2
  <2>6. Queued \ Before(i) \subseteq Queued'
    <3>1. ASSUME NEW j \in DOMAIN inbox
          PROVE  inbox[j] \in Before(i) \cup Queued'
      <4>1. CASE j \in 1..(i - 1)
        BY <4>1 DEF Before
      <4>2. CASE j = i
        BY <2>1, <4>2 DEF Queued
      <4>3. CASE ~(j <= i)
        BY <2>4, <4>3 DEF Queued, Range
      <4> QED  BY <2>2, <4>1, <4>2, <4>3
    <3> QED  BY <2>1, <3>1 DEF Queued, Range
  <2>7. Queued' \subseteq Queued
    BY <2>1, <2>3 DEF Queued, Range
  <2>8. Before(i) \cap Queued' = {} /\ Before(i) \subseteq Queued
    <3>1. ASSUME NEW k \in 1..(i - 1)
          PROVE  inbox[k] \in Range(inbox) /\ inbox[k] \notin Queued'
      <4>1. k \in DOMAIN inbox /\ k # i /\ inbox[k] # inbox[i]
        BY <2>2, <2>5 DEF Ownership, InboxDistinct
      <4>2. \A j \in DOMAIN inbox' : k # i + j
        BY <2>2, <2>3
      <4>3. \A j \in DOMAIN inbox' : inbox'[j] # inbox[k]
        BY <2>3, <4>1, <4>2 DEF Ownership, InboxDistinct
      <4>4. inbox[k] \in Range(inbox) /\ inbox[k] \notin processing
        BY <4>1 DEF Range, Ownership, QueuesDisjoint
      <4> QED  BY <2>1, <4>1, <4>3, <4>4 DEF Queued, Range
    <3> QED  BY <3>1 DEF Before, Queued
  <2> QED  BY <2>1, <2>6, <2>7, <2>8
<1>2. CASE NextWorkNone \/ Destroy
  <2>1. Range(<<>>) = {}
    BY DEF Range
  <2>2. CASE NextWorkNone
    <3>1. Range(inbox) \cap processing = {}
      BY DEF Ownership, QueuesDisjoint
    <3> QED  BY <2>1, <2>2, <3>1 DEF NextWorkNone, Queued
  <2>3. CASE Destroy
    BY <2>1, <2>3 DEF Destroy, Queued
  <2> QED  BY <1>2, <2>2, <2>3
<1>3. ASSUME NEW c \in Cells, FinishWork(c)
      PROVE  heap' = Delete({c}) /\ Queued' = Queued \ {c} /\ {c} \subseteq Queued
             /\ UNCHANGED bgVars /\ dropped' = dropped
  BY <1>3 DEF FinishWork, Ownership, QueuesDisjoint, Queued
<1> QED  BY <1>1, <1>2, <1>3 DEF Drains

-----------------------------------------------------------------------------
(* The urb that bg_work has built is the request it has in hand.           *)

Built ==
    u # Null =>
        /\ heap[u].handle = wk.handle /\ heap[u].serial = wk.serial
        /\ heap[u].urb = wk.urb

LEMMA BuiltKept ==
    ASSUME Built, u' = u, wk' = wk, u # Null => heap'[u] = heap[u]
    PROVE  Built'
  BY DEF Built

LEMMA BuiltAlloc ==
    ASSUME IInv, NEW c \in Cells, Alloc(c)
    PROVE  Built'
  BY DEF IInv, TypeOK, Alloc, Built

LEMMA BuiltFilled ==
    ASSUME IInv, Built, FetchData
    PROVE  Built'
<1>1. u \in Cells /\ u # Null /\ heap[u] \in UrbObjs
  BY Kinds DEF IInv, TypeOK, Control, Ownership, UrbsLive, FetchData
<1>2. /\ heap'[u].handle = heap[u].handle /\ heap'[u].serial = heap[u].serial
      /\ heap'[u].urb = heap[u].urb
  BY <1>1 DEF FetchData, IInv, TypeOK, UrbObjs
<1> QED  BY <1>1, <1>2 DEF Built, FetchData

LEMMA BuiltStep ==
    ASSUME IInv, Built, [Next]_vars
    PROVE  Built'
<1> USE DEF IInv
<1>1. CASE \/ UNCHANGED vars \/ Terminated \/ BeginShutdown
           \/ AllocGivesUp \/ AllocThrows \/ \E h \in Handles : Unlink(h)
  <2>1. u' = u /\ wk' = wk /\ heap' = heap
    BY <1>1 DEF vars, Terminated, BeginShutdown, AllocGivesUp, AllocThrows, Unlink
  <2> QED  BY <2>1, BuiltKept
<1>2. CASE pc \notin {"data", "route"} /\ u' = u
  <2>1. u = Null
    BY <1>2 DEF Control
  <2> QED  BY <1>2, <2>1 DEF Built
<1>3. CASE \/ Loop \/ FetchNothing \/ StatStep \/ CancelStep
           \/ Retry("routeWait", "alloc")
           \/ \E r \in Reports : FetchStat(r)
           \/ \E h \in Handles, k \in UrbInputs : FetchUrb(h, k)
           \/ \E h \in Handles : FetchCancel(h)
  BY <1>2, <1>3
  DEF Loop, FetchNothing, StatStep, StatAllocFails, StatEnqueueFails, StatEnqueue,
      Retry, CancelStep, BgCancel, BgCancelThrows, FetchStat, FetchUrb, FetchCancel
<1>4. CASE \/ FetchDataFails \/ RouteNowhere \/ RouteAllocFails
           \/ \E c \in Cells : RouteEnqueueFails(c) \/ RouteEnqueue(c)
  BY <1>4
  DEF FetchDataFails, RouteNowhere, RouteAllocFails, RouteEnqueueFails, RouteEnqueue,
      Built
<1>5. CASE FetchData \/ \E c \in Cells : Alloc(c)
  BY <1>5, BuiltAlloc, BuiltFilled
<1>6. CASE Drains
  <2>1. PICK S \in SUBSET Queued : heap' = Delete(S) /\ UNCHANGED bgVars
    BY <1>6, DrainDeletes
  <2>2. S \in SUBSET Pointer
    BY DEF Pointer
  <2> QED  BY <2>1, <2>2, DeleteSame, BuiltKept
<1>7. ASSUME NEW h \in Handles, UserCancel(h)
      PROVE  Built'
  <2>1. u # Null => u \in Cells /\ heap[u].kind = "urb"
    BY DEF TypeOK, Ownership, UrbsLive
  <2>2. u # Null => heap'[u] = heap[u]
    BY <1>7, <2>1, CancelKeepsUrbs DEF UserCancel
  <2> QED  BY <1>7, <2>2, BuiltKept DEF UserCancel
<1> QED
  BY <1>1, <1>3, <1>4, <1>5, <1>6, <1>7 DEF Next, BgStep, UrbStep, Drains

(* The urb that bg_work hands to the queues is the request it has read from*)
(* the kernel, whatever was tried before and failed.                       *)
LEMMA BuiltInvariant == Spec => []Built
<1>1. Init => Built
  BY DEF Init, Built
<1>2. IInv /\ Built /\ [Next]_vars => Built'
  BY BuiltStep
<1> QED  BY <1>1, <1>2, InductiveInvariant, PTL DEF Spec
=============================================================================
