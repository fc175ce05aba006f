------------------------- MODULE LocalHcdQueueProofs -------------------------
(***************************************************************************)
(* Proofs about the queues of LocalHcd.  No edge of a port status is lost  *)
(* on the way, urbs keep their place between the changes of address, and,  *)
(* while memory lasts, an urb comes to its user with its data and no object*)
(* is left behind.  They hold for any number of ports, handles and cells,  *)
(* any requests and reports, and with users that cancel as well; the order *)
(* also with any failing allocation.                                       *)
(***************************************************************************)
EXTENDS LocalHcdProofs, FiniteSetTheorems

USE DEF Null, hcdVars, portVars, bgVars, kernelVars, history

-----------------------------------------------------------------------------
(* What a step may do to the inbox.                                        *)

(* A work keeps what it tells of its port; a cancel may mark it.           *)
Alike(c) ==
    /\ heap'[c].kind = heap[c].kind
    /\ IsStatWork(c) => heap'[c] = heap[c]
    /\ IsUrbWork(c) =>
          heap'[c].port = heap[c].port /\ heap'[heap'[c].urb].urb = UrbOf(c).urb

InboxAlike == \A c \in Range(inbox) : Alike(c)
PortsSame  == UNCHANGED <<adr, stat, seen>>

LEMMA SameAlike ==
    ASSUME NEW c, Same(c)
    PROVE  Alike(c)
  BY DEF Alike, Same, IsUrbWork, UrbOf

LEMMA CancelAlike ==
    ASSUME IInv, NEW h, CancelQueued(h)
    PROVE  InboxAlike
<1> USE DEF IInv
<1>1. PICK i \in DOMAIN inbox :
         FirstMatch(i, h) /\ heap' = [heap EXCEPT ![inbox[i]].canceled = TRUE]
  BY DEF CancelQueued
<1>2. PICK c \in Cells : c = inbox[i] /\ IsUrbWork(c)
  BY <1>1, PointerType DEF FirstMatch, InboxMatches, Matches
<1>3. heap[c] \in UrbWorks /\ heap[c].urb \in Cells /\ heap[c].kind = "process"
      /\ UrbOf(c).kind = "urb"
  BY <1>2, UrbWorkType DEF UrbObjs, IsUrbWork
<1>4. /\ heap'[c].kind = "process" /\ heap'[c].port = heap[c].port
      /\ heap'[c].urb = heap[c].urb
      /\ \A d \in Cells : d # c => heap'[d] = heap[d]
  BY <1>1, <1>2, <1>3 DEF TypeOK, UrbWorks
<1>5. \A d \in Cells : IsUrbWork(d) => heap'[heap[d].urb] = heap[heap[d].urb]
  <2>1. \A d \in Cells : IsUrbWork(d) => heap[d].urb \in Cells /\ heap[d].urb # c
    BY <1>3, UrbWorkType DEF UrbObjs, UrbOf
  <2> QED  BY <1>4, <2>1
<1>6. ASSUME NEW d \in Cells
      PROVE  Alike(d)
  BY <1>3, <1>4, <1>5 DEF Alike, IsStatWork, IsUrbWork, UrbOf
<1> QED  BY <1>6, PointerType DEF InboxAlike

LEMMA NotifyAlike ==
    ASSUME IInv, NEW h, CancelInProgress(h)
    PROVE  /\ InboxAlike
           /\ \E c \in Cells :
                 c \notin Queued /\ inbox' = Append(inbox, c) /\ heap'[c].kind = "cancel"
<1> USE DEF IInv
<1>1. PICK c \in Cells : c = NewCell /\ heap[c] = Free
  BY NewCellFree DEF CancelInProgress
<1>2. heap'[c].kind = "cancel" /\ \A d \in Cells : d # c => heap'[d] = heap[d]
  BY <1>1 DEF CancelInProgress, TypeOK
<1>3. c \notin Queued /\ heap[c].kind # "urb"
  BY <1>1 DEF Free, Ownership, WorksLive, Pointer
<1>4. InboxAlike
  BY <1>2, <1>3, NotAnUrb, WriteSame, SameAlike DEF InboxAlike, Queued
<1> QED  BY <1>1, <1>2, <1>3, <1>4 DEF CancelInProgress

(* The steps that put a work at the end of the inbox, or leave it alone.   *)
StillInbox == inbox' = inbox /\ PortsSame

AddsNotice ==
    /\ PortsSame
    /\ \E c \in Cells :
          c \notin Queued /\ inbox' = Append(inbox, c) /\ heap'[c].kind = "cancel"

LEMMA BgInboxStep ==
    ASSUME IInv, BgStep
    PROVE  /\ InboxAlike
           /\ \/ StillInbox \/ AddsNotice
              \/ \E c \in Cells : StatEnqueue(c) \/ RouteEnqueue(c)
<1> USE DEF IInv
<1>1. CASE heap' = heap /\ StillInbox
  BY <1>1 DEF InboxAlike, Alike, IsStatWork, IsUrbWork, UrbOf
<1>2. CASE Loop \/ FetchNothing \/ StatAllocFails \/ BgCancelThrows \/ AllocThrows
  BY <1>1, <1>2 DEF Loop, FetchNothing, StatAllocFails, BgCancelThrows, AllocThrows,
                    StillInbox, PortsSame
<1>3. ASSUME NEW c \in Cells, StatEnqueueFails(c)
      PROVE  InboxAlike /\ StillInbox
  BY <1>3, StatSame, SameAlike
  DEF StatEnqueueFails, InboxAlike, Queued, StillInbox, PortsSame
<1>4. ASSUME NEW c \in Cells, RouteEnqueueFails(c)
      PROVE  InboxAlike /\ StillInbox
  BY <1>4, RouteSame, SameAlike
  DEF RouteEnqueueFails, InboxAlike, Queued, StillInbox, PortsSame
<1>5. CASE \/ \E c \in Cells : Alloc(c)
           \/ AllocGivesUp \/ FetchData \/ FetchDataFails \/ RouteNowhere
           \/ RouteAllocFails \/ Retry("statWait", "stat") \/ Retry("routeWait", "alloc")
  <2>1. InboxAlike
    BY <1>5, BuildSame, SameAlike DEF InboxAlike, Queued
  <2>2. StillInbox
    BY <1>5 DEF Alloc, AllocGivesUp, FetchData, FetchDataFails, RouteNowhere,
                RouteAllocFails, Retry, StillInbox, PortsSame
  <2> QED  BY <2>1, <2>2
<1>6. ASSUME NEW c \in Cells, StatEnqueue(c) \/ RouteEnqueue(c)
      PROVE  InboxAlike
  BY <1>6, StatSame, RouteSame, SameAlike DEF InboxAlike, Queued
<1>7. CASE BgCancel
  <2>1. PortsSame
    BY <1>7 DEF BgCancel, PortsSame
  <2>2. CASE CancelQueued(wk.handle)
    BY <2>1, <2>2, CancelAlike DEF CancelQueued, StillInbox
  <2>3. CASE CancelInProgress(wk.handle)
    BY <2>1, <2>3, NotifyAlike DEF AddsNotice
  <2>4. CASE CancelUnknown(wk.handle)
    BY <1>1, <2>1, <2>4 DEF CancelUnknown, StillInbox
  <2> QED  BY <1>7, <2>2, <2>3, <2>4 DEF BgCancel
<1> QED
  BY <1>2, <1>3, <1>4, <1>5, <1>6, <1>7 DEF BgStep, StatStep, UrbStep, CancelStep

LEMMA InboxStep ==
    ASSUME IInv, [Next]_vars, Alive'
    PROVE  \/ NextWork \/ NextWorkNone
           \/ /\ InboxAlike
              /\ \/ StillInbox \/ AddsNotice
                 \/ \E c \in Cells : StatEnqueue(c) \/ RouteEnqueue(c)
<1>1. CASE BgStep
  BY <1>1, BgInboxStep
<1>2. CASE \/ \E r \in Reports : FetchStat(r)
           \/ \E h \in Handles, k \in UrbInputs : FetchUrb(h, k)
           \/ \E h \in Handles : FetchCancel(h) \/ Unlink(h)
           \/ BeginShutdown \/ Terminated \/ UNCHANGED vars
  <2>1. heap' = heap /\ StillInbox
    BY <1>2 DEF FetchStat, FetchUrb, FetchCancel, Unlink, BeginShutdown, Terminated,
                vars, StillInbox, PortsSame
  <2> QED  BY <2>1 DEF InboxAlike, Alike, IsStatWork, IsUrbWork, UrbOf
<1>3. ASSUME NEW h \in Handles, UserCancel(h)
      PROVE  InboxAlike /\ (StillInbox \/ AddsNotice)
  <2>1. PortsSame
    BY <1>3 DEF UserCancel, PortsSame
  <2>2. CASE CancelQueued(h)
    BY <2>1, <2>2, CancelAlike DEF CancelQueued, StillInbox
  <2>3. CASE CancelInProgress(h)
    BY <2>1, <2>3, NotifyAlike DEF AddsNotice
  <2> QED  BY <1>3, <2>2, <2>3 DEF UserCancel
<1>4. ASSUME NEW c \in Cells, FinishWork(c)
      PROVE  InboxAlike /\ StillInbox
  <2>1. c \notin Range(inbox) /\ {c} \in SUBSET Pointer
    BY <1>4 DEF FinishWork, IInv, Ownership, QueuesDisjoint, Pointer, Queued
  <2>2. \A d \in Range(inbox) : d \in Pointer \ {c}
    BY <2>1 DEF Pointer, Queued
  <2>3. InboxAlike
    BY <1>4, <2>1, <2>2, DeleteSame, SameAlike DEF FinishWork, IInv, InboxAlike
  <2> QED  BY <1>4, <2>3 DEF FinishWork, StillInbox, PortsSame
<1>5. ~Destroy
  BY DEF Destroy, Alive
<1> QED  BY <1>1, <1>2, <1>3, <1>4, <1>5 DEF Next

-----------------------------------------------------------------------------
(* What a position of the inbox shows, before a step and after it.         *)

(* Position k shows after the step what position i showed before it.       *)
View(i, k) ==
    /\ IsStatWork(inbox[k])' <=> IsStatWork(inbox[i])
    /\ IsStatWork(inbox[i]) => Inbox(k)' = Inbox(i)
    /\ IsUrbWork(inbox[k])' <=> IsUrbWork(inbox[i])
    /\ IsUrbWork(inbox[i]) =>
          Inbox(k).port' = Inbox(i).port /\ UrbOf(inbox[k]).urb' = UrbOf(inbox[i]).urb

LEMMA AlikeView ==
    ASSUME NEW i, NEW k, inbox'[k] = inbox[i], Alike(inbox[i])
    PROVE  View(i, k)
  BY DEF View, Alike, Inbox, IsStatWork, IsUrbWork, UrbOf

LEMMA ViewAssigns ==
    ASSUME NEW i, NEW k, NEW p, View(i, k)
    PROVE  /\ Assigns(k, p)' <=> Assigns(i, p)
           /\ Assigns(i, p) => Assigned(k)' = Assigned(i)
  BY DEF View, Assigns, Assigned

LEMMA InboxLength ==
    ASSUME TypeOK
    PROVE  Len(inbox) \in Nat /\ DOMAIN inbox = 1..Len(inbox)
  BY LenProperties DEF TypeOK

(* The inbox after a step that leaves it, appends to it, or hands out the  *)
(* work at position i.                                                     *)
LEMMA SameViews ==
    ASSUME IInv, InboxAlike, inbox' = inbox
    PROVE  \A k \in DOMAIN inbox : View(k, k)
  BY AlikeView DEF InboxAlike, Range

LEMMA AppendViews ==
    ASSUME IInv, InboxAlike, NEW c \in Cells, inbox' = Append(inbox, c)
    PROVE  /\ Len(inbox)' = Len(inbox) + 1 /\ DOMAIN inbox' = 1..(Len(inbox) + 1)
           /\ inbox'[Len(inbox) + 1] = c
           /\ \A k \in DOMAIN inbox : View(k, k)
<1>1. inbox \in Seq(Cells) /\ Len(inbox) \in Nat /\ DOMAIN inbox = 1..Len(inbox)
  BY InboxLength DEF IInv, TypeOK
<1>2. /\ inbox' \in Seq(Cells) /\ Len(inbox') = Len(inbox) + 1
      /\ \A k \in 1..Len(inbox) : inbox'[k] = inbox[k]
      /\ inbox'[Len(inbox) + 1] = c
  BY <1>1, AppendProperties
<1>3. DOMAIN inbox' = 1..(Len(inbox) + 1)
  BY <1>2, LenProperties
<1>4. ASSUME NEW k \in DOMAIN inbox
      PROVE  View(k, k)
  BY <1>1, <1>2, AlikeView DEF InboxAlike, Range
<1> QED  BY <1>2, <1>3, <1>4

LEMMA RestViews ==
    ASSUME IInv, NEW i \in DOMAIN inbox, heap' = Delete(Before(i)),
           inbox' = SubSeq(inbox, i + 1, Len(inbox))
    PROVE  /\ Len(inbox)' = Len(inbox) - i /\ DOMAIN inbox' = 1..(Len(inbox) - i)
           /\ \A k \in 1..(Len(inbox) - i) : View(i + k, k)
<1>1. /\ Len(inbox) \in Nat /\ DOMAIN inbox = 1..Len(inbox) /\ i \in 1..Len(inbox)
      /\ InboxDistinct
  BY InboxLength DEF IInv, Ownership
<1>2. /\ inbox' \in Seq(Cells) /\ DOMAIN inbox' = 1..(Len(inbox) - i)
      /\ \A k \in 1..(Len(inbox) - i) :
            inbox'[k] = inbox[i + k] /\ i + k \in DOMAIN inbox
  BY RestOfInbox DEF IInv
<1>3. Len(inbox') = Len(inbox) - i
  <2>1. Len(inbox') \in Nat /\ 1..Len(inbox') = 1..(Len(inbox) - i)
    BY <1>2, LenProperties
  <2> QED  BY <1>1, <2>1
<1>4. Before(i) \in SUBSET Pointer
  BY <1>1 DEF Before, Pointer, Queued, Range
<1>5. ASSUME NEW k \in 1..(Len(inbox) - i)
      PROVE  View(i + k, k)
  <2>1. inbox[i + k] \notin Before(i)
    <3>1. \A j \in 1..(i - 1) : j \in DOMAIN inbox /\ i + k \in DOMAIN inbox /\ i + k # j
      BY <1>1, <1>2
    <3> QED  BY <1>1, <3>1 DEF InboxDistinct, Before
  <2>2. inbox[i + k] \in Pointer
    BY <1>2 DEF Pointer, Queued, Range
  <2>3. Same(inbox[i + k])
    BY <1>4, <2>1, <2>2, DeleteSame DEF IInv
  <2> QED  BY <1>2, <2>3, SameAlike, AlikeView
<1> QED  BY <1>2, <1>3, <1>5

(* Before the first work that is not canceled there are only urbs.         *)
LEMMA CanceledUrbs ==
    ASSUME NEW i, FirstAlive(i)
    PROVE  \A k \in 1..(i - 1) : IsUrbWork(inbox[k]) /\ ~IsStatWork(inbox[k])
  BY DEF FirstAlive, Canceled, IsUrbWork, IsStatWork

-----------------------------------------------------------------------------
(* Urbs keep their place between the changes of address.                   *)

(* The work at the end either assigns the address itself, or leaves it as  *)
(* the works before it have left it.                                       *)
NextAddress ==
    \A n \in Nat : \A p, a :
        (IF Assigns(n + 1, p) THEN Assigned(n + 1) = a ELSE AddressAt(n + 1, p, a))
            => AddressAt(n + 2, p, a)

LEMMA AddressNext == NextAddress
<1> SUFFICES ASSUME NEW n \in Nat, NEW p, NEW a,
                    IF Assigns(n + 1, p) THEN Assigned(n + 1) = a
                    ELSE AddressAt(n + 1, p, a),
                    NEW i \in 1..(n + 1), Assigns(i, p),
                    \A k \in (i + 1)..(n + 1) : ~Assigns(k, p)
             PROVE  Assigned(i) = a
  BY DEF NextAddress, AddressAt
<1>1. CASE i = n + 1
  BY <1>1
<1>2. CASE i # n + 1
  <2>1. i \in 1..n /\ n + 1 \in (i + 1)..(n + 1)
        /\ \A k \in (i + 1)..n : k \in (i + 1)..(n + 1)
    BY <1>2
  <2>2. (n + 1) - 1 = n
    OBVIOUS
  <2> QED  BY <2>1, <2>2 DEF AddressAt
<1> QED  BY <1>1, <1>2

(* Handing out the first d works, none for d = 0, keeps what the others    *)
(* say of an address.                                                      *)
LEMMA AddressKept ==
    ASSUME NEW d \in Nat, NEW j \in Nat, NEW p, NEW a,
           \A k \in 1..(j - 1) : View(d + k, k), AddressAt(d + j, p, a)
    PROVE  AddressAt(j, p, a)'
<1> SUFFICES ASSUME NEW i \in 1..(j - 1), Assigns(i, p)',
                    \A k \in (i + 1)..(j - 1) : ~Assigns(k, p)'
             PROVE  Assigned(i)' = a
  BY DEF AddressAt
<1>1. Assigns(d + i, p) /\ Assigned(i)' = Assigned(d + i)
  BY ViewAssigns
<1>2. ASSUME NEW k \in ((d + i) + 1)..((d + j) - 1)
      PROVE  ~Assigns(k, p)
  <2>1. k - d \in (i + 1)..(j - 1) /\ k - d \in 1..(j - 1) /\ d + (k - d) = k
    OBVIOUS
  <2>2. View(k, k - d)
    BY <2>1
  <2> QED  BY <2>1, <2>2, ViewAssigns
<1>3. d + i \in 1..((d + j) - 1)
  OBVIOUS
<1> QED  BY <1>1, <1>2, <1>3 DEF AddressAt

(* What RoutedInOrder says of a port while the controller is alive.        *)
RoutedAt(p) ==
    /\ AddressAt(Len(inbox) + 1, p, adr[p])
    /\ \A j \in DOMAIN inbox :
          IsUrbWork(inbox[j]) /\ Inbox(j).port = p
              => AddressAt(j, p, UrbOf(inbox[j]).urb.devadr)

LEMMA RoutedBefore ==
    ASSUME IInv, NEW d \in Nat, NEW m \in Nat, NEW p, RoutedAt(p),
           NEW j \in 1..m, d + j \in DOMAIN inbox,
           \A k \in 1..m : View(d + k, k),
           IsUrbWork(inbox[j])', Inbox(j).port' = p
    PROVE  AddressAt(j, p, UrbOf(inbox[j]).urb.devadr)'
<1> DEFINE a == UrbOf(inbox[d + j]).urb.devadr
<1>1. View(d + j, j) /\ \A k \in 1..(j - 1) : View(d + k, k)
  OBVIOUS
<1>2. /\ IsUrbWork(inbox[d + j]) /\ Inbox(d + j).port = p
      /\ UrbOf(inbox[j]).urb.devadr' = a
  BY <1>1 DEF View
<1>3. AddressAt(d + j, p, a)
  BY <1>2 DEF RoutedAt
<1>4. PICK b : b = a
  OBVIOUS
<1>5. j \in Nat /\ AddressAt(d + j, p, b)
  BY <1>3, <1>4
<1>6. AddressAt(j, p, b)'
  BY <1>1, <1>5, AddressKept
<1> QED  BY <1>2, <1>4, <1>6 DEF AddressAt

LEMMA RoutedUpTo ==
    ASSUME IInv, NEW d \in Nat, NEW n \in Nat, Len(inbox) = d + n, NEW p, RoutedAt(p),
           \A k \in 1..n : View(d + k, k)
    PROVE  /\ \A a : a = adr[p] => AddressAt(n + 1, p, a)'
           /\ \A j \in 1..n : IsUrbWork(inbox[j])' /\ Inbox(j).port' = p
                 => AddressAt(j, p, UrbOf(inbox[j]).urb.devadr)'
<1>1. DOMAIN inbox = 1..(d + n)
  BY InboxLength DEF IInv
<1>2. ASSUME NEW a, a = adr[p]
      PROVE  AddressAt(n + 1, p, a)'
  <2>1. n + 1 \in Nat /\ d + (n + 1) = Len(inbox) + 1
        /\ \A k \in 1..((n + 1) - 1) : View(d + k, k)
    OBVIOUS
  <2>2. AddressAt(d + (n + 1), p, a)
    BY <1>2, <2>1 DEF RoutedAt
  <2> QED  BY <2>1, <2>2, AddressKept
<1>3. ASSUME NEW j \in 1..n, IsUrbWork(inbox[j])', Inbox(j).port' = p
      PROVE  AddressAt(j, p, UrbOf(inbox[j]).urb.devadr)'
  <2>1. d + j \in DOMAIN inbox
    BY <1>1
  <2> QED  BY <1>3, <2>1, RoutedBefore
<1> QED  BY <1>2, <1>3

LEMMA RoutedSame ==
    ASSUME IInv, InboxAlike, StillInbox, NEW p \in Ports, RoutedAt(p)
    PROVE  RoutedAt(p)'
<1>1. PICK n \in Nat : n = Len(inbox)
  BY InboxLength DEF IInv
<1>2. DOMAIN inbox = 1..n /\ inbox' = inbox /\ 0 + n = n
  BY <1>1, InboxLength DEF IInv, StillInbox
<1>3. \A k \in 1..n : View(0 + k, k)
  BY <1>2, SameViews
<1>4. PICK a : a = adr[p]
  OBVIOUS
<1>5. /\ AddressAt(n + 1, p, a)'
      /\ \A j \in 1..n : IsUrbWork(inbox[j])' /\ Inbox(j).port' = p
            => AddressAt(j, p, UrbOf(inbox[j]).urb.devadr)'
  BY <1>1, <1>2, <1>3, <1>4, RoutedUpTo
<1>6. AddressAt(Len(inbox) + 1, p, adr[p])'
  BY <1>1, <1>2, <1>4, <1>5 DEF StillInbox, PortsSame, AddressAt
<1> QED  BY <1>2, <1>5, <1>6 DEF RoutedAt

(* A step that appends a work: what is left to show is what the new work   *)
(* says of the address, and, if it is an urb, where it was sent.           *)
LEMMA RoutedAppend ==
    ASSUME IInv, InboxAlike, NEW c \in Cells, inbox' = Append(inbox, c),
           NEW n \in Nat, n = Len(inbox), NEW p, RoutedAt(p),
           \/ Assigns(n + 1, p)' /\ Assigned(n + 1)' = adr'[p]
           \/ ~Assigns(n + 1, p)' /\ adr'[p] = adr[p],
           IsUrbWork(c)' /\ heap'[c].port = p => heap'[heap'[c].urb].urb.devadr = adr[p]
    PROVE  RoutedAt(p)'
<1>1. /\ Len(inbox)' = n + 1 /\ DOMAIN inbox' = 1..(n + 1) /\ inbox'[n + 1] = c
      /\ 0 + n = n /\ \A k \in 1..n : View(0 + k, k)
  BY AppendViews, InboxLength DEF IInv
<1>2. PICK a, b : a = adr[p] /\ b = adr'[p]
  OBVIOUS
<1>3. /\ AddressAt(n + 1, p, a)'
      /\ \A j \in 1..n : IsUrbWork(inbox[j])' /\ Inbox(j).port' = p
            => AddressAt(j, p, UrbOf(inbox[j]).urb.devadr)'
  BY <1>1, <1>2, RoutedUpTo
<1>4. AddressAt(Len(inbox) + 1, p, adr[p])'
  <2>1. NextAddress'
    BY AddressNext, PTL
  <2>2. AddressAt(n + 2, p, b)'
    BY <1>2, <1>3, <2>1 DEF NextAddress
  <2>3. Len(inbox)' + 1 = n + 2
    BY <1>1
  <2> QED  BY <1>2, <2>2, <2>3 DEF AddressAt
<1>5. ASSUME IsUrbWork(inbox[n + 1])', Inbox(n + 1).port' = p
      PROVE  AddressAt(n + 1, p, UrbOf(inbox[n + 1]).urb.devadr)'
  <2>1. UrbOf(inbox[n + 1]).urb.devadr' = a
    BY <1>1, <1>2, <1>5 DEF IsUrbWork, Inbox, UrbOf
  <2> QED  BY <1>3, <2>1 DEF AddressAt
<1> QED  BY <1>1, <1>3, <1>4, <1>5 DEF RoutedAt

LEMMA RoutedNotice ==
    ASSUME IInv, InboxAlike, AddsNotice, NEW p \in Ports, RoutedAt(p)
    PROVE  RoutedAt(p)'
<1>1. PICK n \in Nat : n = Len(inbox)
  BY InboxLength DEF IInv
<1>2. PICK c \in Cells : inbox' = Append(inbox, c) /\ heap'[c].kind = "cancel"
  BY DEF AddsNotice
<1>3. inbox'[n + 1] = c
  BY <1>1, <1>2, AppendViews
<1>4. ~Assigns(n + 1, p)'
  BY <1>2, <1>3 DEF Assigns, IsStatWork, IsUrbWork
<1>5. ~IsUrbWork(c)' /\ adr' = adr
  BY <1>2 DEF IsUrbWork, AddsNotice, PortsSame
<1> QED  BY <1>1, <1>2, <1>4, <1>5, RoutedAppend

LEMMA RoutedStat ==
    ASSUME IInv, InboxAlike, NEW c \in Cells, StatEnqueue(c), NEW p \in Ports,
           RoutedAt(p)
    PROVE  RoutedAt(p)'
<1>1. PICK n \in Nat : n = Len(inbox)
  BY InboxLength DEF IInv
<1>2. /\ inbox' = Append(inbox, c) /\ wk.port \in Ports /\ wk.type = "stat"
      /\ heap'[c] = NewStatWork /\ adr \in [Ports -> Addresses \cup {NoAdr}]
      /\ adr' = [adr EXCEPT ![wk.port] = AdrAfter(@, wk.stat)]
  BY Items DEF StatEnqueue, IInv, TypeOK, Control
<1>3. inbox'[n + 1] = c
  BY <1>1, <1>2, AppendViews
<1>4. heap'[c].kind = "stat" /\ heap'[c].port = wk.port /\ heap'[c].stat = wk.stat
  BY <1>2 DEF NewStatWork
<1>5. /\ Assigns(n + 1, p)' <=>
            wk.port = p /\ (ConnectionChanged(wk.stat) \/ ResetDone(wk.stat))
      /\ Assigned(n + 1)' = IF ResetDone(wk.stat) THEN 0 ELSE NoAdr
  BY <1>3, <1>4
  DEF Assigns, Assigned, IsStatWork, IsUrbWork, Inbox, ConnectionChanged, ResetDone
<1>6. \/ Assigns(n + 1, p)' /\ Assigned(n + 1)' = adr'[p]
      \/ ~Assigns(n + 1, p)' /\ adr'[p] = adr[p]
  BY <1>2, <1>5 DEF AdrAfter
<1>7. ~IsUrbWork(c)'
  BY <1>4 DEF IsUrbWork
<1> QED  BY <1>1, <1>2, <1>6, <1>7, RoutedAppend

LEMMA RoutedUrb ==
    ASSUME IInv, Built, InboxAlike, NEW c \in Cells, RouteEnqueue(c), NEW p \in Ports,
           RoutedAt(p)
    PROVE  RoutedAt(p)'
<1> DEFINE q == PortFromAddress(wk.urb.devadr)
<1>1. PICK n \in Nat : n = Len(inbox)
  BY InboxLength DEF IInv
<1>2. /\ inbox' = Append(inbox, c) /\ q \in Ports /\ adr[q] = wk.urb.devadr
      /\ adr \in [Ports -> Addresses \cup {NoAdr}] /\ adr' = AdrAfterUrb(q, wk.urb)
  BY PortFromAddressType DEF RouteEnqueue, IInv, TypeOK
<1>3. inbox'[n + 1] = c
  BY <1>1, <1>2, AppendViews
<1>4. /\ heap'[c].kind = "process" /\ heap'[c].urb = u /\ heap'[u].urb = wk.urb
      /\ heap'[c].port = q
  BY RouteSame, CellsAssumption DEF Built
<1>5. /\ Assigns(n + 1, p)' <=> q = p /\ IsSetAddress(wk.urb) /\ wk.urb.val <= MaxAddress
      /\ Assigned(n + 1)' = wk.urb.val
  BY <1>3, <1>4 DEF Assigns, Assigned, IsStatWork, IsUrbWork, Inbox, UrbOf
<1>6. \/ Assigns(n + 1, p)' /\ Assigned(n + 1)' = adr'[p]
      \/ ~Assigns(n + 1, p)' /\ adr'[p] = adr[p]
  BY <1>2, <1>5 DEF AdrAfterUrb
<1>7. heap'[c].port = p => heap'[heap'[c].urb].urb.devadr = adr[p]
  BY <1>2, <1>4
<1> QED  BY <1>1, <1>2, <1>6, <1>7, RoutedAppend

LEMMA RoutedNext ==
    ASSUME IInv, NextWork, NEW p \in Ports, RoutedAt(p)
    PROVE  RoutedAt(p)'
<1>1. PICK i \in DOMAIN inbox :
         heap' = Delete(Before(i)) /\ inbox' = SubSeq(inbox, i + 1, Len(inbox))
  BY DEF NextWork
<1>2. i \in Nat /\ Len(inbox) - i \in Nat
  BY InboxLength DEF IInv
<1>3. PICK n \in Nat : n = Len(inbox) - i /\ Len(inbox) = i + n
  BY <1>2, InboxLength DEF IInv
<1>4. /\ Len(inbox)' = n /\ DOMAIN inbox' = 1..n
      /\ \A k \in 1..n : View(i + k, k)
  BY <1>1, <1>3, RestViews
<1>5. PICK a : a = adr[p]
  OBVIOUS
<1>6. /\ AddressAt(n + 1, p, a)'
      /\ \A j \in 1..n : IsUrbWork(inbox[j])' /\ Inbox(j).port' = p
            => AddressAt(j, p, UrbOf(inbox[j]).urb.devadr)'
  BY <1>2, <1>3, <1>4, <1>5, RoutedUpTo
<1>7. AddressAt(Len(inbox) + 1, p, adr[p])'
  <2>1. adr' = adr
    BY DEF NextWork
  <2> QED  BY <1>4, <1>5, <1>6, <2>1 DEF AddressAt
<1> QED  BY <1>4, <1>6, <1>7 DEF RoutedAt

(* Of an empty inbox RoutedAt says nothing.                                *)
RoutedNothing == inbox = <<>> => \A p \in Ports : RoutedAt(p)

LEMMA RoutedEmpty == RoutedNothing
<1> SUFFICES ASSUME inbox = <<>>, NEW p \in Ports
             PROVE  RoutedAt(p)
  BY DEF RoutedNothing
<1>1. Len(inbox) = 0 /\ DOMAIN inbox = {}
  BY EmptySeq
<1> QED  BY <1>1 DEF RoutedAt, AddressAt

LEMMA StaysAlive ==
    ASSUME [Next]_vars, Alive'
    PROVE  Alive
  BY DEF Next, vars, Alive, BgStep, StatStep, UrbStep, CancelStep, Loop, FetchNothing,
         StatAllocFails, StatEnqueueFails, StatEnqueue, Retry, AllocGivesUp, AllocThrows,
         FetchData, FetchDataFails, RouteNowhere, RouteAllocFails, Alloc,
         RouteEnqueueFails, RouteEnqueue, BgCancel, BgCancelThrows, FetchStat, FetchUrb,
         FetchCancel, Unlink, UserCancel, NextWork, NextWorkNone, FinishWork,
         BeginShutdown, Destroy, Terminated

LEMMA RoutedStep ==
    ASSUME IInv, Built, RoutedInOrder, [Next]_vars
    PROVE  RoutedInOrder'
<1> SUFFICES ASSUME Alive', NEW p \in Ports
             PROVE  RoutedAt(p)'
  BY DEF RoutedInOrder, RoutedAt
<1>1. RoutedAt(p)
  BY StaysAlive DEF RoutedInOrder, RoutedAt
<1>2. CASE NextWork
  BY <1>1, <1>2, RoutedNext
<1>3. CASE NextWorkNone
  <2>1. RoutedNothing'
    BY RoutedEmpty, PTL
  <2> QED  BY <1>3, <2>1 DEF NextWorkNone, RoutedNothing
<1>4. CASE InboxAlike /\ StillInbox
  BY <1>1, <1>4, RoutedSame
<1>5. CASE InboxAlike /\ AddsNotice
  BY <1>1, <1>5, RoutedNotice
<1>6. ASSUME InboxAlike, NEW c \in Cells, StatEnqueue(c) \/ RouteEnqueue(c)
      PROVE  RoutedAt(p)'
  BY <1>1, <1>6, RoutedStat, RoutedUrb
<1> QED  BY <1>2, <1>3, <1>4, <1>5, <1>6, InboxStep

(* Urbs and changes of address keep their order: every urb in the inbox is *)
(* queued for a port behind the report or the SET_ADDRESS that gave the    *)
(* port the urb's address, with nothing in between that took it away.      *)
THEOREM AddressesKeepOrder == Spec => []RoutedInOrder
<1>1. Init => RoutedInOrder
  BY RoutedEmpty DEF Init, RoutedNothing, RoutedInOrder, RoutedAt
<1>2. IInv /\ Built /\ RoutedInOrder /\ [Next]_vars => RoutedInOrder'
  BY RoutedStep
<1> QED  BY <1>1, <1>2, InductiveInvariant, BuiltInvariant, PTL DEF Spec

-----------------------------------------------------------------------------
(* Every edge of a port status is reported against the status before it.   *)

(* The last status of port p before position i, without a choice.          *)
LastStat(i, p, v) ==
    \/ (\A j \in StatsOf(p) : ~(j < i)) /\ v = seen[p]
    \/ \E j \in StatsOf(p) :
          j < i /\ (\A k \in StatsOf(p) : k < i => k <= j) /\ v = Inbox(j).stat

LEMMA LastPosition ==
    ASSUME NEW i \in Nat, NEW S \in SUBSET Nat, S # {}, \A j \in S : j < i
    PROVE  \E j \in S : \A k \in S : k <= j
<1> DEFINE D == {i - j : j \in S}
<1>1. D \subseteq Nat /\ D # {}
  <2>1. \A j \in S : j \in Nat /\ i - j \in Nat /\ i - j \in D
    OBVIOUS
  <2>2. \E j \in S : TRUE
    OBVIOUS
  <2> QED  BY <2>1, <2>2
<1>2. \E d \in D : \A e \in D : <<e, d>> \notin OpToRel(<, Nat)
  BY <1>1, NatLessThanWellFounded, WFMin, Zenon
<1>3. PICK d \in D : \A e \in D : ~(e < d)
  BY <1>1, <1>2 DEF OpToRel
<1>4. PICK j \in S : d = i - j
  BY <1>3
<1>5. ASSUME NEW k \in S
      PROVE  k <= j
  <2>1. i - k \in D
    OBVIOUS
  <2>2. ~(i - k < i - j)
    BY <1>3, <1>4, <2>1
  <2>3. j \in Nat /\ k \in Nat
    OBVIOUS
  <2> HIDE DEF D
  <2> QED  BY <2>2, <2>3
<1> QED  BY <1>5

StatBeforeLast ==
    TypeOK => \A i \in Nat : \A p, v : LastStat(i, p, v) <=> StatBefore(i, p) = v

LEMMA BeforeIsLast == StatBeforeLast
<1> SUFFICES ASSUME TypeOK, NEW i \in Nat, NEW p, NEW v
             PROVE  LastStat(i, p, v) <=> StatBefore(i, p) = v
  BY DEF StatBeforeLast
<1> DEFINE earlier == {j \in StatsOf(p) : j < i}
           last    == CHOOSE j \in earlier : \A k \in earlier : k <= j
<1>1. StatsOf(p) \subseteq Nat
  BY InboxLength DEF StatsOf
<1>2. CASE earlier = {}
  BY <1>2 DEF StatBefore, LastStat
<1>3. CASE earlier # {}
  <2>1. \E j \in earlier : \A k \in earlier : k <= j
    <3>1. earlier \in SUBSET Nat /\ \A j \in earlier : j < i
      BY <1>1
    <3> HIDE DEF earlier
    <3> QED  BY <1>3, <3>1, LastPosition
  <2>2. last \in earlier /\ \A k \in earlier : k <= last
    BY <2>1
  <2>3. StatBefore(i, p) = Inbox(last).stat
    BY <1>3 DEF StatBefore
  <2> HIDE DEF last
  <2>4. \A j \in StatsOf(p) :
           j < i /\ (\A k \in StatsOf(p) : k < i => k <= j) => j = last
    BY <1>1, <2>2
  <2> QED  BY <1>3, <2>2, <2>3, <2>4 DEF LastStat
<1> QED  BY <1>2, <1>3

(* What TriggersChain says of a port while the controller is alive.        *)
ChainAt(p) ==
    /\ \A i \in StatsOf(p) : \A v :
          LastStat(i, p, v) => Inbox(i).triggers = Triggers(Inbox(i).stat, v)
    /\ \A n \in Nat : n = Len(inbox) => LastStat(n + 1, p, stat[p])

TriggersFollow ==
    TypeOK => (TriggersChain <=> (Alive => \A p \in Ports : ChainAt(p)))

LEMMA ChainIsTriggers == TriggersFollow
<1> SUFFICES ASSUME TypeOK, NEW p \in Ports
             PROVE  ChainAt(p) <=>
                    /\ \A i \in StatsOf(p) :
                          Inbox(i).triggers = Triggers(Inbox(i).stat, StatBefore(i, p))
                    /\ StatBefore(Len(inbox) + 1, p) = stat[p]
  BY DEF TriggersFollow, TriggersChain
<1>1. Len(inbox) \in Nat /\ StatsOf(p) \subseteq Nat
  BY InboxLength DEF StatsOf
<1>2. \A i \in Nat : \A v : LastStat(i, p, v) <=> StatBefore(i, p) = v
  BY BeforeIsLast DEF StatBeforeLast
<1>3. Len(inbox) + 1 \in Nat
  BY <1>1
<1> QED  BY <1>1, <1>2, <1>3 DEF ChainAt

(* Where the works of a port are after a step.                             *)
LEMMA ViewStats ==
    ASSUME NEW i \in DOMAIN inbox, NEW k, k \in DOMAIN inbox', NEW p, View(i, k)
    PROVE  /\ k \in StatsOf(p)' <=> i \in StatsOf(p)
           /\ i \in StatsOf(p) => Inbox(k)' = Inbox(i)
  BY DEF View, StatsOf

(* The first n positions are as before, and so is what was handed out.     *)
LEMMA LastKept ==
    ASSUME TypeOK, NEW n \in Nat, n = Len(inbox), DOMAIN inbox \subseteq DOMAIN inbox',
           DOMAIN inbox' \subseteq Nat \ {0},
           \A k \in 1..n : View(k, k), seen' = seen,
           NEW i \in 1..(n + 1), NEW p, NEW v
    PROVE  LastStat(i, p, v)' <=> LastStat(i, p, v)
<1>1. DOMAIN inbox = 1..n
  BY InboxLength
<1>2. \A k \in 1..n : /\ k \in StatsOf(p)' <=> k \in StatsOf(p)
                      /\ k \in StatsOf(p) => Inbox(k)' = Inbox(k)
  BY <1>1, ViewStats
<1>3. /\ StatsOf(p) \subseteq 1..n
      /\ \A k \in StatsOf(p)' : k \in Nat /\ (k < i => k \in 1..n)
  <2>1. StatsOf(p)' \subseteq DOMAIN inbox'
    BY DEF StatsOf
  <2> QED  BY <1>1, <2>1 DEF StatsOf
<1>4. (\A j \in StatsOf(p)' : ~(j < i)) <=> (\A j \in StatsOf(p) : ~(j < i))
  BY <1>2, <1>3
<1>5. ASSUME NEW j \in 1..n, j < i
      PROVE  (\A k \in StatsOf(p)' : k < i => k <= j)
                 <=> (\A k \in StatsOf(p) : k < i => k <= j)
  BY <1>2, <1>3
<1> QED  BY <1>2, <1>3, <1>4, <1>5 DEF LastStat

LEMMA LastUnique ==
    ASSUME TypeOK, NEW i \in Nat, NEW p, NEW v, NEW w, LastStat(i, p, v), LastStat(i, p, w)
    PROVE  v = w
  BY BeforeIsLast DEF StatBeforeLast

LEMMA ChainSame ==
    ASSUME IInv, InboxAlike, StillInbox, NEW p \in Ports, ChainAt(p)
    PROVE  ChainAt(p)'
<1>1. PICK n \in Nat : n = Len(inbox) /\ DOMAIN inbox = 1..n
  BY InboxLength DEF IInv
<1>2. /\ inbox' = inbox /\ seen' = seen /\ stat' = stat
      /\ \A k \in 1..n : View(k, k)
  BY <1>1, SameViews DEF StillInbox, PortsSame
<1>3. \A i \in 1..(n + 1) : \A v : LastStat(i, p, v)' <=> LastStat(i, p, v)
  <2>1. DOMAIN inbox \subseteq DOMAIN inbox' /\ DOMAIN inbox' \subseteq Nat \ {0}
    BY <1>1, <1>2
  <2> QED  BY <1>1, <1>2, <2>1, LastKept DEF IInv
<1>4. \A i \in StatsOf(p)' : i \in 1..(n + 1) /\ i \in StatsOf(p) /\ Inbox(i)' = Inbox(i)
  <2>1. StatsOf(p)' \subseteq DOMAIN inbox
    BY <1>2 DEF StatsOf
  <2> QED  BY <1>1, <1>2, <2>1, ViewStats
<1>5. ASSUME NEW i \in StatsOf(p)', NEW v, LastStat(i, p, v)'
      PROVE  (Inbox(i).triggers = Triggers(Inbox(i).stat, v))'
  BY <1>3, <1>4, <1>5 DEF ChainAt
<1>6. LastStat(n + 1, p, stat[p])'
  <2>1. PICK v : v = stat[p]
    OBVIOUS
  <2>2. LastStat(n + 1, p, v)'
    BY <1>1, <1>3, <2>1 DEF ChainAt
  <2> QED  BY <1>2, <2>1, <2>2 DEF LastStat
<1> QED  BY <1>1, <1>2, <1>5, <1>6 DEF ChainAt

LEMMA ChainAppend ==
    ASSUME IInv, InboxAlike, NEW c \in Cells, inbox' = Append(inbox, c), seen' = seen,
           NEW n \in Nat, n = Len(inbox), NEW p, ChainAt(p),
           \/ n + 1 \notin StatsOf(p)' /\ stat'[p] = stat[p]
           \/ /\ n + 1 \in StatsOf(p)' /\ stat'[p] = Inbox(n + 1).stat'
              /\ Inbox(n + 1).triggers' = Triggers(stat'[p], stat[p])
    PROVE  ChainAt(p)'
<1>1. /\ Len(inbox)' = n + 1 /\ DOMAIN inbox' = 1..(n + 1) /\ DOMAIN inbox = 1..n
      /\ \A k \in 1..n : View(k, k)
  BY AppendViews, InboxLength DEF IInv
<1>2. \A i \in 1..(n + 1) : \A v : LastStat(i, p, v)' <=> LastStat(i, p, v)
  <2>1. DOMAIN inbox \subseteq DOMAIN inbox' /\ DOMAIN inbox' \subseteq Nat \ {0}
    BY <1>1
  <2> QED  BY <1>1, <2>1, LastKept DEF IInv
<1>3. PICK v, w : v = stat[p] /\ w = stat'[p]
  OBVIOUS
<1>4. n + 1 \in 1..(n + 1) /\ LastStat(n + 1, p, v) /\ LastStat(n + 1, p, v)'
  BY <1>2, <1>3 DEF ChainAt
<1>5. StatsOf(p)' \subseteq 1..(n + 1)
  BY <1>1 DEF StatsOf
<1>6. ASSUME NEW i \in StatsOf(p)', NEW x, LastStat(i, p, x)'
      PROVE  (Inbox(i).triggers = Triggers(Inbox(i).stat, x))'
  <2>1. i \in 1..(n + 1) /\ LastStat(i, p, x)
    BY <1>2, <1>5, <1>6
  <2>2. CASE i = n + 1
    <3>1. x = v
      BY <1>4, <2>1, <2>2, LastUnique DEF IInv
    <3> QED  BY <1>3, <1>6, <2>2, <3>1
  <2>3. CASE i \in 1..n
    <3>1. i \in StatsOf(p) /\ Inbox(i)' = Inbox(i)
      BY <1>1, <1>6, <2>3, ViewStats
    <3> QED  BY <2>1, <3>1 DEF ChainAt
  <2> QED  BY <2>1, <2>2, <2>3
<1>7. LastStat(n + 2, p, w)'
  <2>1. CASE n + 1 \notin StatsOf(p)' /\ w = v
    <3>1. \A j \in StatsOf(p)' : j \in 1..n /\ (j < n + 2 <=> j < n + 1)
      BY <1>5, <2>1
    <3> QED  BY <1>4, <2>1, <3>1 DEF LastStat
  <2>2. CASE n + 1 \in StatsOf(p)' /\ w = Inbox(n + 1).stat'
    <3>1. n + 1 < n + 2 /\ \A j \in StatsOf(p)' : j <= n + 1
      BY <1>5
    <3> QED  BY <2>2, <3>1 DEF LastStat
  <2> QED  BY <1>3, <2>1, <2>2
<1>8. \A m \in Nat : m = Len(inbox)' => LastStat(m + 1, p, stat[p])'
  <2>1. LastStat(n + 2, p, stat[p])'
    BY <1>3, <1>7 DEF LastStat
  <2>2. n + 2 = (n + 1) + 1
    OBVIOUS
  <2> QED  BY <1>1, <2>1, <2>2
<1> QED  BY <1>6, <1>8 DEF ChainAt

LEMMA ChainNotice ==
    ASSUME IInv, InboxAlike, AddsNotice, NEW p \in Ports, ChainAt(p)
    PROVE  ChainAt(p)'
<1>1. PICK n \in Nat : n = Len(inbox)
  BY InboxLength DEF IInv
<1>2. PICK c \in Cells : inbox' = Append(inbox, c) /\ heap'[c].kind = "cancel"
  BY DEF AddsNotice
<1>3. n + 1 \notin StatsOf(p)'
  BY <1>1, <1>2, AppendViews DEF StatsOf, IsStatWork
<1> QED  BY <1>1, <1>2, <1>3, ChainAppend DEF AddsNotice, PortsSame

LEMMA ChainUrb ==
    ASSUME IInv, InboxAlike, NEW c \in Cells, RouteEnqueue(c), NEW p \in Ports,
           ChainAt(p)
    PROVE  ChainAt(p)'
<1>1. PICK n \in Nat : n = Len(inbox)
  BY InboxLength DEF IInv
<1>2. inbox' = Append(inbox, c) /\ stat' = stat /\ seen' = seen
  BY DEF RouteEnqueue
<1>3. n + 1 \notin StatsOf(p)'
  BY <1>1, <1>2, AppendViews, RouteSame DEF StatsOf, IsStatWork
<1> QED  BY <1>1, <1>2, <1>3, ChainAppend

LEMMA ChainStat ==
    ASSUME IInv, InboxAlike, NEW c \in Cells, StatEnqueue(c), NEW p \in Ports,
           ChainAt(p)
    PROVE  ChainAt(p)'
<1>1. PICK n \in Nat : n = Len(inbox)
  BY InboxLength DEF IInv
<1>2. /\ inbox' = Append(inbox, c) /\ wk.port \in Ports /\ wk.type = "stat"
      /\ heap'[c] = NewStatWork /\ seen' = seen
      /\ stat' = [stat EXCEPT ![wk.port] = wk.stat] /\ stat \in [Ports -> PortStats]
  BY Items DEF StatEnqueue, IInv, TypeOK, Control
<1>3. DOMAIN inbox' = 1..(n + 1) /\ inbox'[n + 1] = c
  BY <1>1, <1>2, AppendViews
<1>4. /\ heap'[c].kind = "stat" /\ heap'[c].port = wk.port /\ heap'[c].stat = wk.stat
      /\ heap'[c].triggers = Triggers(wk.stat, stat[wk.port])
  BY <1>2 DEF NewStatWork
<1>5. n + 1 \in StatsOf(p)' <=> wk.port = p
  BY <1>3, <1>4 DEF StatsOf, IsStatWork, Inbox
<1>6. Inbox(n + 1)' = heap'[c]
  BY <1>3 DEF Inbox
<1> QED  BY <1>1, <1>2, <1>4, <1>5, <1>6, ChainAppend

(* When the work at position i is handed out, the last status before a     *)
(* position is the one before its old position.                            *)
LEMMA LastShifted ==
    ASSUME IInv, NextWork, NEW p \in Ports, NEW i \in DOMAIN inbox, FirstAlive(i),
           seen' = IF IsStatWork(inbox[i])
                   THEN [seen EXCEPT ![Inbox(i).port] = Inbox(i).stat] ELSE seen,
           NEW n \in Nat, DOMAIN inbox = 1..(i + n), DOMAIN inbox' = 1..n,
           \A k \in 1..n : View(i + k, k),
           NEW j \in 1..(n + 1), NEW v
    PROVE  LastStat(j, p, v)' <=> LastStat(i + j, p, v)
<1>1. i \in Nat \ {0}
  BY InboxLength DEF IInv
<1>2. \A k \in 1..n : /\ k \in StatsOf(p)' <=> i + k \in StatsOf(p)
                      /\ i + k \in StatsOf(p) => Inbox(k)' = Inbox(i + k)
  <2>1. \A k \in 1..n : i + k \in DOMAIN inbox /\ k \in DOMAIN inbox'
    BY <1>1
  <2> QED  BY <2>1, ViewStats
<1>3. StatsOf(p)' \subseteq 1..n
  BY DEF StatsOf
<1>4. \A k \in StatsOf(p) : k = i \/ (k - i \in 1..n /\ i + (k - i) = k)
  <2>1. \A k \in 1..(i - 1) : k \notin StatsOf(p)
    BY CanceledUrbs DEF StatsOf
  <2>2. \A k \in StatsOf(p) : k \in 1..(i + n)
    BY DEF StatsOf
  <2> QED  BY <1>1, <2>1, <2>2
<1>5. seen'[p] = IF i \in StatsOf(p) THEN Inbox(i).stat ELSE seen[p]
  BY DEF StatsOf, IInv, TypeOK
<1>6. ASSUME LastStat(j, p, v)'
      PROVE  LastStat(i + j, p, v)
  <2>1. CASE (\A k \in StatsOf(p)' : ~(k < j)) /\ v = seen'[p]
    <3>1. \A k \in StatsOf(p) : k < i + j => k = i
      BY <1>1, <1>2, <1>4, <2>1
    <3>2. i < i + j /\ i <= i
      BY <1>1
    <3> QED  BY <1>5, <2>1, <3>1, <3>2 DEF LastStat
  <2>2. CASE \E k \in StatsOf(p)' :
                k < j /\ (\A l \in StatsOf(p)' : l < j => l <= k) /\ v = Inbox(k).stat'
    <3>1. PICK k \in StatsOf(p)' :
             k < j /\ (\A l \in StatsOf(p)' : l < j => l <= k) /\ v = Inbox(k).stat'
      BY <2>2
    <3>2. i + k \in StatsOf(p) /\ i + k < i + j /\ v = Inbox(i + k).stat
      BY <1>1, <1>2, <1>3, <3>1
    <3>3. ASSUME NEW l \in StatsOf(p), l < i + j
          PROVE  l <= i + k
      BY <1>1, <1>2, <1>3, <1>4, <3>1, <3>3
    <3> QED  BY <3>2, <3>3 DEF LastStat
  <2> QED  BY <1>6, <2>1, <2>2 DEF LastStat
<1>7. ASSUME LastStat(i + j, p, v)
      PROVE  LastStat(j, p, v)'
  <2>1. CASE \A k \in StatsOf(p)' : ~(k < j)
    <3>1. \A k \in StatsOf(p) : k < i + j => k = i
      BY <1>1, <1>2, <1>4, <2>1
    <3>2. i < i + j
      BY <1>1
    <3>3. v = seen'[p]
      BY <1>5, <1>7, <3>1, <3>2 DEF LastStat
    <3> QED  BY <2>1, <3>3 DEF LastStat
  <2>2. CASE \E k \in StatsOf(p)' : k < j
    <3>1. PICK k \in StatsOf(p)' : k < j
      BY <2>2
    <3>2. i + k \in StatsOf(p) /\ i + k < i + j /\ k \in 1..n
      BY <1>1, <1>2, <1>3, <3>1
    <3>3. PICK l \in StatsOf(p) :
             l < i + j /\ (\A m \in StatsOf(p) : m < i + j => m <= l) /\ v = Inbox(l).stat
      BY <1>7, <3>2 DEF LastStat
    <3>4. l # i /\ l - i \in 1..n /\ i + (l - i) = l
      BY <1>1, <1>4, <3>2, <3>3
    <3>5. PICK q \in 1..n : q = l - i /\ i + q = l
      BY <3>4
    <3>6. q \in StatsOf(p)' /\ q < j /\ v = Inbox(q).stat'
      BY <1>1, <1>2, <3>3, <3>5
    <3>7. ASSUME NEW m \in StatsOf(p)', m < j
          PROVE  m <= q
      BY <1>1, <1>2, <1>3, <3>3, <3>5, <3>7
    <3> QED  BY <3>6, <3>7 DEF LastStat
  <2> QED  BY <2>1, <2>2
<1> QED  BY <1>6, <1>7

LEMMA ChainNext ==
    ASSUME IInv, NextWork, NEW p \in Ports, ChainAt(p)
    PROVE  ChainAt(p)'
<1>1. PICK i \in DOMAIN inbox :
         /\ FirstAlive(i)
         /\ heap' = Delete(Before(i)) /\ inbox' = SubSeq(inbox, i + 1, Len(inbox))
         /\ seen' = IF IsStatWork(inbox[i])
                    THEN [seen EXCEPT ![Inbox(i).port] = Inbox(i).stat] ELSE seen
  BY DEF NextWork, Inbox
<1>2. PICK n \in Nat : n = Len(inbox) - i /\ Len(inbox) = i + n /\ i \in Nat
  <2>1. i \in Nat /\ Len(inbox) \in Nat /\ Len(inbox) - i \in Nat
    BY InboxLength DEF IInv
  <2> QED  BY <2>1
<1>3. /\ Len(inbox)' = n /\ DOMAIN inbox' = 1..n /\ DOMAIN inbox = 1..(i + n)
      /\ \A k \in 1..n : View(i + k, k)
  BY <1>1, <1>2, RestViews, InboxLength DEF IInv
<1>4. \A j \in 1..(n + 1) : \A v : LastStat(j, p, v)' <=> LastStat(i + j, p, v)
  BY <1>1, <1>3, LastShifted
<1>5. ASSUME NEW k \in StatsOf(p)', NEW v, LastStat(k, p, v)'
      PROVE  (Inbox(k).triggers = Triggers(Inbox(k).stat, v))'
  <2>1. k \in 1..n /\ k \in 1..(n + 1) /\ k \in DOMAIN inbox' /\ i + k \in DOMAIN inbox
    BY <1>2, <1>3 DEF StatsOf
  <2>2. i + k \in StatsOf(p) /\ Inbox(k)' = Inbox(i + k)
    BY <1>3, <1>5, <2>1, ViewStats
  <2> QED  BY <1>4, <1>5, <2>1, <2>2 DEF ChainAt
<1>6. LastStat(n + 1, p, stat[p])'
  <2>1. PICK v : v = stat[p]
    OBVIOUS
  <2>2. PICK m \in Nat : m = Len(inbox) /\ m = i + n
    BY <1>2, InboxLength DEF IInv
  <2>3. LastStat(m + 1, p, v)
    <3>1. \A k \in Nat : k = Len(inbox) => LastStat(k + 1, p, stat[p])
      BY DEF ChainAt
    <3>2. LastStat(m + 1, p, stat[p])
      BY <2>2, <3>1
    <3> QED  BY <2>1, <3>2
  <2>4. LastStat(n + 1, p, v)' /\ stat' = stat
    <3>1. m + 1 = i + (n + 1) /\ n + 1 \in 1..(n + 1)
      <4>1. i \in Nat /\ n \in Nat /\ m = i + n
        BY <1>2, <2>2
      <4> QED  BY <4>1
    <3>2. LastStat(i + (n + 1), p, v)
      BY <2>3, <3>1
    <3> QED  BY <1>4, <3>1, <3>2 DEF NextWork
  <2> QED  BY <2>1, <2>4 DEF LastStat
<1> QED  BY <1>3, <1>5, <1>6 DEF ChainAt

LEMMA ChainNone ==
    ASSUME IInv, NextWorkNone, NEW p \in Ports, ChainAt(p)
    PROVE  ChainAt(p)'
<1>1. PICK n \in Nat : n = Len(inbox)
  BY InboxLength DEF IInv
<1>2. StatsOf(p) = {}
  BY DEF NextWorkNone, StatsOf, Canceled, IsUrbWork, IsStatWork
<1>3. stat[p] = seen[p]
  BY <1>1, <1>2 DEF ChainAt, LastStat
<1>4. StatsOf(p)' = {} /\ stat' = stat /\ seen' = seen
  BY EmptySeq DEF NextWorkNone, StatsOf
<1> QED  BY <1>3, <1>4 DEF ChainAt, LastStat

LEMMA ChainStep ==
    ASSUME IInv, TypeOK', TriggersChain, [Next]_vars
    PROVE  TriggersChain'
<1>1. TriggersFollow /\ TriggersFollow'
  BY ChainIsTriggers, PTL
<1> SUFFICES ASSUME Alive', NEW p \in Ports
             PROVE  ChainAt(p)'
  BY <1>1 DEF TriggersFollow
<1>2. ChainAt(p)
  BY <1>1, StaysAlive DEF TriggersFollow, IInv
<1>3. CASE NextWork \/ NextWorkNone
  BY <1>2, <1>3, ChainNext, ChainNone
<1>4. CASE InboxAlike /\ (StillInbox \/ AddsNotice)
  BY <1>2, <1>4, ChainSame, ChainNotice
<1>5. ASSUME InboxAlike, NEW c \in Cells, StatEnqueue(c) \/ RouteEnqueue(c)
      PROVE  ChainAt(p)'
  BY <1>2, <1>5, ChainStat, ChainUrb
<1> QED  BY <1>3, <1>4, <1>5, InboxStep

LEMMA ChainInit ==
    ASSUME Init
    PROVE  TriggersChain
<1>1. TriggersFollow /\ TypeOK
  BY ChainIsTriggers, InitIInv DEF IInv
<1>2. ASSUME NEW p \in Ports
      PROVE  ChainAt(p)
  <2>1. StatsOf(p) = {} /\ seen[p] = stat[p]
    BY EmptySeq DEF Init, StatsOf
  <2> QED  BY <2>1 DEF ChainAt, LastStat
<1> QED  BY <1>1, <1>2 DEF TriggersFollow

(* No edge of a port status is lost, reported twice or reported against the*)
(* wrong status: along the works of a port, from the last one handed out   *)
(* to the status of the port table, the triggers of each compare it with   *)
(* the one before it, also when an allocation failed in between.           *)
THEOREM NoEdgeLost == Spec => []TriggersChain
<1>1. Init => TriggersChain
  BY ChainInit
<1>2. IInv /\ IInv' /\ TriggersChain /\ [Next]_vars => TriggersChain'
  BY ChainStep DEF IInv
<1> QED  BY <1>1, <1>2, InductiveInvariant, PTL DEF Spec

-----------------------------------------------------------------------------
(* While memory lasts.                                                     *)

(* The steps in which bg_work is refused memory: by new, push_back or the  *)
(* malloc of usb_vhci_fetch_data, or by the driver.                        *)
AllocationFails ==
    \/ StatAllocFails \/ AllocGivesUp \/ RouteAllocFails \/ BgCancelThrows
    \/ FetchDataFails /\ DataRefused
    \/ \E c \in Cells : StatEnqueueFails(c) \/ RouteEnqueueFails(c)

(* While none of them happens bg_work keeps no object for a retry, and res *)
(* still tells that there are data to be read, until the urb has them.     *)
Building ==
    /\ obj = Null /\ pc \notin {"statWait", "routeWait"}
    /\ pc = "alloc" /\ HasData(wk.urb) => res
    /\ pc = "route" /\ HasData(wk.urb) => heap[u].filled

Lasting == Built /\ Building /\ NoLeak /\ DataFetched

(* The cells in use, the uses of handles so far, the urbs a cancel may yet *)
(* come for, and the cells that what bg_work has in hand will take.        *)
Used       == {c \in Cells : heap[c] # Free}
Taken      == {t \in Handles \X Serials : t[2] <= serial[t[1]]}
Cancelable == {h \in Handles : kstate[h] \in {"fetched", "unlinked"}}
Pending ==
    IF pc \in {"alloc", "routeWait"} THEN 2
    ELSE IF pc \in {"stat", "statWait", "data", "route", "cancel"} THEN 1 ELSE 0

Budget ==
    Cardinality(Used) + Cardinality(Cancelable) + Pending
        <= 3 * Cardinality(Taken) + reports

(* Memory is enough: allocations do not fail while a cell is free, and     *)
(* there is no end to the cells, or there are three for every use of a     *)
(* handle (the urb, its work and a cancel) and one for every report, and   *)
(* only the background thread cancels.                                     *)
EnoughMemory ==
    /\ ~NoMem
    /\ IsFiniteSet(Cells) =>
          /\ ~UserCancels /\ IsFiniteSet(Handles)
          /\ 3 * Cardinality(Handles \X Serials) + MaxReports <= Cardinality(Cells)

-----------------------------------------------------------------------------
(* What bg_work has in hand.                                               *)

(* usb_vhci_fetch_work announces data for every urb that has some.         *)
LEMMA HasDataNeeds ==
    ASSUME NEW k, HasData(k)
    PROVE  NeedsData(k)
  BY DEF HasData, NeedsData, BufferActual

(* The steps of other threads leave the urb bg_work has built.             *)
LEMMA BuildingFrame ==
    ASSUME IInv, Building, UNCHANGED bgVars, u # Null => heap'[u] = heap[u]
    PROVE  Building'
  BY DEF IInv, Control, Building

(* The steps after which it has nothing in hand.                           *)
LEMMA BuildingIdle ==
    ASSUME Building, obj' \in {obj, Null},
           pc' \notin {"statWait", "routeWait", "alloc", "route"}
    PROVE  Building'
  BY DEF Building

LEMMA AllocBuilding ==
    ASSUME Building, NEW c \in Cells, Alloc(c)
    PROVE  Building'
  BY DEF Building, Alloc

LEMMA FetchDataBuilding ==
    ASSUME IInv, Building, FetchData
    PROVE  Building'
<1>1. u \in Cells /\ u # Null /\ heap[u] \in UrbObjs
  BY Kinds DEF IInv, TypeOK, Control, Ownership, UrbsLive, FetchData
<1>2. heap'[u].filled
  BY <1>1 DEF FetchData, IInv, TypeOK, UrbObjs
<1> QED  BY <1>2 DEF Building, FetchData

LEMMA FetchBuilding ==
    ASSUME IInv, Building,
           \/ Loop \/ FetchNothing
           \/ (\E r \in Reports : FetchStat(r))
           \/ (\E h \in Handles, k \in UrbInputs : FetchUrb(h, k))
           \/ (\E h \in Handles : FetchCancel(h))
    PROVE  Building'
<1>1. CASE Loop \/ FetchNothing
  BY <1>1, BuildingIdle DEF IInv, Control, Loop, FetchNothing
<1>2. ASSUME NEW r \in Reports, FetchStat(r)
      PROVE  Building'
  BY <1>2, BuildingIdle DEF IInv, Control, FetchStat
<1>3. ASSUME NEW h \in Handles, NEW k \in UrbInputs, FetchUrb(h, k)
      PROVE  Building'
  <2>1. u' = Null /\ obj' = Null
    BY <1>3 DEF IInv, Control, Building, FetchUrb
  <2>2. CASE KnownType(k)
    BY <1>3, <2>1, <2>2, HasDataNeeds DEF FetchUrb, Building
  <2>3. CASE ~KnownType(k)
    BY <1>3, <2>1, <2>3, BuildingIdle DEF FetchUrb, Building
  <2> QED  BY <2>2, <2>3
<1>4. ASSUME NEW h \in Handles, FetchCancel(h)
      PROVE  Building'
  BY <1>4, BuildingIdle DEF IInv, Control, FetchCancel
<1> QED  BY <1>1, <1>2, <1>3, <1>4

LEMMA CancelBuilding ==
    ASSUME IInv, Building,
           BgCancel \/ \E h \in Handles : UserCancel(h)
    PROVE  Building'
<1>1. CASE BgCancel
  BY <1>1, BuildingIdle DEF IInv, Control, BgCancel
<1>2. ASSUME NEW h \in Handles, UserCancel(h)
      PROVE  Building'
  <2>1. u # Null => u \in Cells /\ heap[u].kind = "urb"
    BY DEF IInv, TypeOK, Ownership, UrbsLive
  <2>2. u # Null => heap'[u] = heap[u]
    BY <1>2, <2>1, CancelKeepsUrbs DEF UserCancel
  <2> QED  BY <1>2, <2>2, BuildingFrame DEF UserCancel
<1> QED  BY <1>1, <1>2

(* Unless an allocation fails, bg_work knows what it builds.               *)
LEMMA BuildingStep ==
    ASSUME IInv, Building, [Next]_vars, ~AllocationFails
    PROVE  Building'
<1>1. CASE StatStep
  <2>1. ~Retry("statWait", "stat")
    BY DEF Building, Retry
  <2>2. PICK c \in Cells : StatEnqueue(c)
    BY <1>1, <2>1 DEF StatStep, AllocationFails
  <2> QED  BY <2>2, BuildingIdle DEF IInv, Control, StatEnqueue
<1>2. CASE UrbStep
  <2>1. CASE FetchDataFails
    BY <2>1, BuildingIdle DEF FetchDataFails
  <2>2. CASE RouteNowhere
    BY <2>2, BuildingIdle DEF RouteNowhere, Building
  <2>3. CASE \E c \in Cells : RouteEnqueue(c)
    BY <2>3, BuildingIdle DEF RouteEnqueue, Building
  <2>4. CASE AllocThrows
    BY <2>4, BuildingFrame DEF AllocThrows
  <2>5. ~Retry("routeWait", "alloc")
    BY DEF Building, Retry
  <2> QED
    BY <1>2, <2>1, <2>2, <2>3, <2>4, <2>5, AllocBuilding, FetchDataBuilding
    DEF UrbStep, AllocationFails
<1>3. CASE BgCancel \/ \E h \in Handles : UserCancel(h)
  BY <1>3, CancelBuilding
<1>4. CASE Drains
  <2>1. PICK S \in SUBSET Queued : heap' = Delete(S) /\ UNCHANGED bgVars
    BY <1>4, DrainDeletes
  <2>2. S \in SUBSET Pointer
    BY DEF Pointer
  <2>3. u # Null => heap'[u] = heap[u]
    BY <2>1, <2>2, DeleteKeeps DEF IInv
  <2> QED  BY <2>1, <2>3, BuildingFrame
<1>5. CASE \/ Loop \/ FetchNothing
           \/ (\E r \in Reports : FetchStat(r))
           \/ (\E h \in Handles, k \in UrbInputs : FetchUrb(h, k))
           \/ (\E h \in Handles : FetchCancel(h))
  BY <1>5, FetchBuilding
<1>6. CASE \/ (\E h \in Handles : Unlink(h)) \/ BgCancelThrows
           \/ BeginShutdown \/ Terminated \/ UNCHANGED vars
  <2>1. UNCHANGED bgVars /\ heap' = heap
    BY <1>6 DEF Unlink, BgCancelThrows, BeginShutdown, Terminated, vars
  <2> QED  BY <2>1, BuildingFrame
<1> QED
  BY <1>1, <1>2, <1>3, <1>4, <1>5, <1>6 DEF Next, BgStep, CancelStep, Drains

-----------------------------------------------------------------------------
(* The data of the urbs in the queues.                                     *)

(* A step that neither queues an urb nor touches one that is queued.       *)
LEMMA DataFrame ==
    ASSUME DataFetched,
           \A c \in Queued' : IsUrbWork(c)' =>
               c \in Queued /\ IsUrbWork(c) /\ UrbOf(c)' = UrbOf(c)
    PROVE  DataFetched'
  BY DEF DataFetched

LEMMA DataSame ==
    ASSUME DataFetched, \A c \in Queued : c \in Queued' => Same(c),
           \A c \in Queued' \ Queued : heap'[c].kind # "process"
    PROVE  DataFetched'
<1>1. ASSUME NEW c \in Queued', IsUrbWork(c)'
      PROVE  c \in Queued /\ IsUrbWork(c) /\ UrbOf(c)' = UrbOf(c)
  <2>1. c \in Queued
    BY <1>1 DEF IsUrbWork
  <2>2. Same(c)
    BY <2>1
  <2> QED  BY <1>1, <2>1, <2>2, SameView
<1> QED  BY <1>1, DataFrame

(* What an enqueue adds to the queues.                                     *)
LEMMA AppendQueued ==
    ASSUME IInv, NEW c \in Cells, c \notin Queued, inbox' = Append(inbox, c),
           processing' = processing
    PROVE  Queued' = Queued \cup {c}
  BY AppendKeeps DEF IInv, Queued

LEMMA RouteData ==
    ASSUME IInv, Lasting, NEW c \in Cells, RouteEnqueue(c)
    PROVE  DataFetched'
<1>1. /\ \A d \in Queued : Same(d)
      /\ c \notin Queued /\ heap'[c].urb = u /\ heap'[u] = heap[u]
  BY RouteSame
<1>2. Queued' = Queued \cup {c}
  BY <1>1, AppendQueued DEF RouteEnqueue
<1>3. HasData(heap[u].urb) => heap[u].filled
  BY DEF Lasting, Built, Building, IInv, Control, RouteEnqueue
<1>4. ASSUME NEW d \in Queued', IsUrbWork(d)', HasData(UrbOf(d)'.urb)
      PROVE  UrbOf(d)'.filled
  <2>1. CASE d = c
    BY <1>1, <1>3, <1>4, <2>1 DEF UrbOf
  <2>2. CASE d \in Queued
    BY <1>1, <1>4, <2>2, SameView DEF Lasting, DataFetched
  <2> QED  BY <1>2, <2>1, <2>2
<1> QED  BY <1>4 DEF DataFetched

LEMMA CancelData ==
    ASSUME IInv, DataFetched, NEW h \in Handles,
           CancelQueued(h) \/ CancelInProgress(h) \/ CancelUnknown(h),
           processing' = processing
    PROVE  DataFetched'
<1>1. ASSUME NEW c \in Queued', IsUrbWork(c)'
      PROVE  c \in Queued /\ IsUrbWork(c) /\ UrbOf(c)' = UrbOf(c)
  <2>1. c \in Queued
    BY <1>1, CancelKeepsUrbs DEF Queued, IsUrbWork
  <2>2. c \in Cells /\ heap[c].kind # "free"
    BY <2>1, PointerType DEF IInv, Ownership, WorksLive, Pointer
  <2>3. IsUrbWork(c) /\ heap'[c].urb = heap[c].urb
    BY <1>1, <2>2, CancelKeepsUrbs DEF IsUrbWork, Free
  <2>4. heap[c].urb \in Cells /\ UrbOf(c).kind = "urb"
    BY <2>2, <2>3, UrbWorkType DEF IInv, Ownership, UrbsLive
  <2> QED  BY <2>1, <2>3, <2>4, CancelKeepsUrbs DEF UrbOf
<1> QED  BY <1>1, DataFrame

(* Unless an allocation fails, no urb is queued without its data.          *)
LEMMA DataStep ==
    ASSUME IInv, Lasting, [Next]_vars, ~AllocationFails
    PROVE  DataFetched'
<1> DataFetched
  BY DEF Lasting
<1>1. CASE StatStep
  <2>1. ~Retry("statWait", "stat")
    BY DEF Lasting, Building, Retry
  <2>2. PICK c \in Cells : StatEnqueue(c)
    BY <1>1, <2>1 DEF StatStep, AllocationFails
  <2>3. (\A d \in Queued : Same(d)) /\ c \notin Queued /\ heap'[c].kind = "stat"
    BY <2>2, StatSame
  <2>4. Queued' = Queued \cup {c}
    BY <2>2, <2>3, AppendQueued DEF StatEnqueue
  <2> QED  BY <2>3, <2>4, DataSame
<1>2. CASE UrbStep /\ ~(\E c \in Cells : RouteEnqueue(c)) /\ ~AllocThrows
  <2>1. \A d \in Queued : Same(d)
    BY <1>2, BuildSame DEF UrbStep, AllocationFails
  <2>2. Queued' = Queued
    BY <1>2 DEF UrbStep, AllocationFails, AllocGivesUp, FetchData, FetchDataFails,
                RouteNowhere, RouteAllocFails, Alloc, Retry, Queued
  <2> QED  BY <2>1, <2>2, DataSame
<1>3. CASE \E c \in Cells : RouteEnqueue(c)
  BY <1>3, RouteData
<1>4. CASE BgCancel
  <2>1. wk.handle \in Handles
    BY <1>4, Items DEF IInv, TypeOK, Control, BgCancel
  <2> QED  BY <1>4, <2>1, CancelData DEF BgCancel
<1>5. CASE \E h \in Handles : UserCancel(h)
  BY <1>5, CancelData DEF UserCancel
<1>6. CASE Drains
  <2>1. PICK S \in SUBSET Queued : heap' = Delete(S) /\ Queued' = Queued \ S
    BY <1>6, DrainDeletes
  <2>2. S \in SUBSET Pointer /\ Queued \subseteq Pointer
    BY DEF Pointer
  <2>3. \A c \in Queued' : Same(c)
    BY <2>1, <2>2, DeleteSame DEF IInv
  <2> QED  BY <2>1, <2>3, DataSame
<1>7. CASE \/ Loop \/ FetchNothing \/ AllocThrows \/ BgCancelThrows
           \/ (\E r \in Reports : FetchStat(r))
           \/ (\E h \in Handles, k \in UrbInputs : FetchUrb(h, k))
           \/ (\E h \in Handles : FetchCancel(h) \/ Unlink(h))
           \/ BeginShutdown \/ Terminated \/ UNCHANGED vars
  <2>1. UNCHANGED <<heap, inbox, processing>>
    BY <1>7 DEF Loop, FetchNothing, AllocThrows, BgCancelThrows, FetchStat, FetchUrb,
                FetchCancel, Unlink, BeginShutdown, Terminated, vars
  <2> QED  BY <2>1, DataSame DEF Same, Queued
<1> QED
  BY <1>1, <1>2, <1>3, <1>4, <1>5, <1>6, <1>7 DEF Next, BgStep, CancelStep, Drains

-----------------------------------------------------------------------------
(* What becomes of the objects nothing leads to.                           *)

LEMMA LeaksStay ==
    ASSUME NoLeak, dropped \subseteq dropped',
           \A c \in Cells \ Reachable' :
               \/ heap'[c] = Free
               \/ c \notin Reachable /\ heap'[c] = heap[c]
    PROVE  NoLeak'
  BY DEF NoLeak

(* An object is written that something leads to afterwards.                *)
LEMMA LeaksStayWritten ==
    ASSUME NoLeak, dropped' = dropped, NEW c, Reachable \cup {c} \subseteq Reachable' \cup {Null},
           \A d \in Cells : d # c => heap'[d] = heap[d]
    PROVE  NoLeak'
<1>1. Null \notin Cells
  BY CellsAssumption
<1> QED  BY <1>1, LeaksStay

(* Works are deleted that are in the queues no longer.                     *)
LEMMA LeaksStayDeleted ==
    ASSUME TypeOK, Ownership, NoLeak, NEW S \in SUBSET Queued, heap' = Delete(S),
           Queued' = Queued \ S, UNCHANGED <<obj, u, dropped>>
    PROVE  NoLeak'
<1>1. S \in SUBSET Pointer /\ Pointer \ S \subseteq Pointer' /\ S \subseteq Cells
  BY PointerType DEF Pointer
<1>2. ASSUME NEW c \in Cells \ Reachable', heap'[c] # Free
      PROVE  c \notin Reachable /\ heap'[c] = heap[c]
  <2>1. c \notin S /\ heap'[c] = heap[c]
        /\ \A w \in S : ~(IsUrbWork(w) /\ heap[w].urb = c)
    BY <1>1, <1>2 DEF Delete
  <2>2. c \notin Pointer /\ c # u
    BY <1>1, <1>2, <2>1 DEF Reachable
  <2>3. ASSUME NEW d \in Pointer, IsUrbWork(d), heap[d].urb = c
        PROVE  FALSE
    <3>1. d \notin S
      BY <2>1, <2>3
    <3>2. d \in Pointer' /\ heap'[d] = heap[d]
      BY <1>1, <2>3, <3>1, DeleteKeeps
    <3> QED  BY <1>2, <2>3, <3>2 DEF Reachable, IsUrbWork
  <2> QED  BY <2>1, <2>2, <2>3 DEF Reachable
<1> QED  BY <1>2, LeaksStay

LEMMA StatLeaks ==
    ASSUME IInv, Lasting, NEW c \in Cells, StatEnqueue(c)
    PROVE  NoLeak'
<1>1. (\A d \in Queued : Same(d)) /\ c \notin Queued
  BY StatSame
<1>2. Queued' = Queued \cup {c}
  BY <1>1, AppendQueued DEF StatEnqueue
<1>3. Pointer = Queued /\ Pointer' = Queued'
  BY DEF Lasting, Building, StatEnqueue, Pointer
<1>4. Reachable \cup {c} \subseteq Reachable'
  <2>1. ASSUME NEW d \in Pointer, IsUrbWork(d)
        PROVE  d \in Pointer' /\ IsUrbWork(d)' /\ heap'[d].urb = heap[d].urb
    BY <1>1, <1>2, <1>3, <2>1, SameView
  <2>2. c \in Pointer' /\ Pointer \subseteq Pointer' /\ u' = u
    BY <1>2, <1>3 DEF StatEnqueue
  <2> QED  BY <2>1, <2>2 DEF Reachable
<1>5. \A d \in Cells : d # c => heap'[d] = heap[d]
  BY DEF IInv, TypeOK, StatEnqueue
<1>6. NoLeak /\ dropped' = dropped
  BY DEF Lasting, StatEnqueue
<1> QED  BY <1>4, <1>5, <1>6, LeaksStayWritten

LEMMA AllocLeaks ==
    ASSUME IInv, Lasting, NEW c \in Cells, Alloc(c)
    PROVE  NoLeak'
<1>1. \A d \in Queued : Same(d)
  BY BuildSame
<1>2. Pointer = Queued /\ Pointer' = Queued /\ u = Null /\ u' = c
  BY DEF IInv, Control, Lasting, Building, Alloc, Pointer, Queued
<1>3. ASSUME NEW d \in Pointer, IsUrbWork(d)
      PROVE  d \in Pointer' /\ IsUrbWork(d)' /\ heap'[d].urb = heap[d].urb
  BY <1>1, <1>2, <1>3, SameView
<1>4. Reachable \cup {c} \subseteq Reachable' \cup {Null}
  BY <1>2, <1>3 DEF Reachable
<1>5. \A d \in Cells : d # c => heap'[d] = heap[d]
  BY DEF IInv, TypeOK, Alloc
<1>6. NoLeak /\ dropped' = dropped
  BY DEF Lasting, Alloc
<1> QED  BY <1>4, <1>5, <1>6, LeaksStayWritten

LEMMA FetchDataLeaks ==
    ASSUME IInv, Lasting, FetchData \/ FetchDataFails, ~AllocationFails
    PROVE  NoLeak'
<1>1. \A d \in Queued : Same(d)
  BY BuildSame
<1>2. /\ Pointer = Queued /\ Pointer' = Queued /\ u \in Cells
      /\ heap[u].kind = "urb" /\ NoLeak /\ dropped' = dropped
  BY DEF IInv, Control, TypeOK, Ownership, UrbsLive, Lasting, Building, FetchData,
         FetchDataFails, DataCanceled, AllocationFails, Pointer, Queued
<1>3. ASSUME NEW d \in Pointer, IsUrbWork(d)
      PROVE  d \in Pointer' /\ IsUrbWork(d)' /\ heap'[d].urb = heap[d].urb
  BY <1>1, <1>2, <1>3, SameView
<1>4. CASE FetchData
  <2>1. \A d \in Cells : d # u => heap'[d] = heap[d]
    BY <1>4 DEF IInv, TypeOK, FetchData
  <2>2. u' = u
    BY <1>4 DEF FetchData
  <2>3. Reachable \cup {u} \subseteq Reachable' \cup {Null}
    BY <1>2, <1>3, <2>2 DEF Reachable
  <2> QED  BY <1>2, <2>1, <2>3, LeaksStayWritten
<1>5. CASE FetchDataFails
  <2>1. \A d \in Cells : heap'[d] = IF d = u THEN Free ELSE heap[d]
    BY <1>2, <1>5 DEF FetchDataFails, Delete, IsUrbWork
  <2>2. Reachable \ {u} \subseteq Reachable'
    BY <1>2, <1>3 DEF Reachable
  <2> QED  BY <1>2, <2>1, <2>2, LeaksStay
<1> QED  BY <1>4, <1>5

(* The urb that is let go of is in dropped.                                *)
LEMMA RouteNowhereLeaks ==
    ASSUME IInv, Lasting, RouteNowhere
    PROVE  NoLeak'
<1>1. \A d \in Queued : Same(d)
  BY BuildSame
<1>2. /\ Pointer = Queued /\ Pointer' = Queued /\ u \in Cells
      /\ heap[u].kind = "urb" /\ <<heap[u].handle, heap[u].serial>> \in dropped'
      /\ NoLeak /\ dropped \subseteq dropped'
  BY DEF IInv, Control, TypeOK, Ownership, UrbsLive, Lasting, Built, Building,
         RouteNowhere, Pointer, Queued
<1>3. Null \notin Cells /\ obj = Null
  BY CellsAssumption DEF Lasting, Building
<1>4. heap' = heap
  BY <1>3 DEF RouteNowhere, Delete, IInv, TypeOK
<1>5. Reachable \ {u} \subseteq Reachable'
  BY <1>2, <1>4 DEF Reachable, IsUrbWork
<1> QED  BY <1>2, <1>4, <1>5 DEF NoLeak

LEMMA RouteLeaks ==
    ASSUME IInv, Lasting, NEW c \in Cells, RouteEnqueue(c)
    PROVE  NoLeak'
<1>1. /\ \A d \in Queued : Same(d)
      /\ c \notin Queued /\ heap'[c].kind = "process" /\ heap'[c].urb = u
  BY RouteSame
<1>2. Queued' = Queued \cup {c}
  BY <1>1, AppendQueued DEF RouteEnqueue
<1>3. Pointer = Queued /\ Pointer' = Queued'
  BY DEF Lasting, Building, RouteEnqueue, Pointer
<1>4. ASSUME NEW d \in Pointer, IsUrbWork(d)
      PROVE  d \in Pointer' /\ IsUrbWork(d)' /\ heap'[d].urb = heap[d].urb
  BY <1>1, <1>2, <1>3, <1>4, SameView
<1>5. c \in Pointer' /\ Pointer \subseteq Pointer' /\ u \in Reachable'
  BY <1>1, <1>2, <1>3 DEF Reachable, IsUrbWork
<1>6. Reachable \cup {c} \subseteq Reachable'
  BY <1>4, <1>5 DEF Reachable
<1>7. \A d \in Cells : d # c => heap'[d] = heap[d]
  <2>1. obj = Null
    BY DEF Lasting, Building
  <2> QED  BY <2>1 DEF IInv, TypeOK, RouteEnqueue, WithUrbWork
<1>8. NoLeak /\ dropped' = dropped
  BY DEF Lasting, RouteEnqueue
<1> QED  BY <1>6, <1>7, <1>8, LeaksStayWritten

LEMMA CancelLeaks ==
    ASSUME IInv, NoLeak, NEW h \in Handles,
           CancelQueued(h) \/ CancelInProgress(h) \/ CancelUnknown(h),
           UNCHANGED <<processing, obj, u, dropped>>, TypeOK'
    PROVE  NoLeak'
<1>1. Pointer \subseteq Pointer' /\ Range(inbox') \subseteq Pointer'
  BY CancelKeepsUrbs DEF Pointer, Queued
<1>2. ASSUME NEW d \in Pointer, IsUrbWork(d)
      PROVE  d \in Pointer' /\ IsUrbWork(d)' /\ heap'[d].urb = heap[d].urb
  <2>1. d \in Cells /\ heap[d] # Free
    BY <1>2, PointerType DEF IInv, IsUrbWork, Free
  <2> QED  BY <1>1, <1>2, <2>1, CancelKeepsUrbs DEF IsUrbWork
<1>3. Reachable \subseteq Reachable'
  BY <1>1, <1>2 DEF Reachable
<1>4. ASSUME NEW c \in Cells \ Reachable'
      PROVE  heap'[c] = Free \/ heap'[c] = heap[c]
  <2>1. c \notin Range(inbox') /\ c \notin Reachable
    BY <1>1, <1>3 DEF Reachable
  <2>2. CASE heap[c] = Free
    <3>1. heap'[c].kind = "free"
      BY <2>1, <2>2, CancelKeepsUrbs DEF Free
    <3> QED  BY <3>1, Kinds DEF TypeOK
  <2>3. CASE heap[c].kind = "urb"
    BY <2>3, CancelKeepsUrbs
  <2> QED  BY <2>1, <2>2, <2>3 DEF NoLeak
<1> QED  BY <1>3, <1>4, LeaksStay

(* Unless an allocation fails, only dropped urbs are left behind.          *)
LEMMA LeaksStep ==
    ASSUME IInv, Lasting, [Next]_vars, ~AllocationFails
    PROVE  NoLeak'
<1> NoLeak
  BY DEF Lasting
<1>1. CASE StatStep
  <2>1. ~Retry("statWait", "stat")
    BY DEF Lasting, Building, Retry
  <2> QED  BY <1>1, <2>1, StatLeaks DEF StatStep, AllocationFails
<1>2. CASE UrbStep /\ ~AllocThrows
  <2>1. ~Retry("routeWait", "alloc")
    BY DEF Lasting, Building, Retry
  <2> QED
    BY <1>2, <2>1, AllocLeaks, FetchDataLeaks, RouteNowhereLeaks, RouteLeaks
    DEF UrbStep, AllocationFails
<1>3. CASE BgCancel \/ \E h \in Handles : UserCancel(h)
  <2>1. TypeOK'
    BY TypeStep
  <2>2. CASE BgCancel
    <3>1. wk.handle \in Handles
      BY <2>2, Items DEF IInv, TypeOK, Control, BgCancel
    <3> QED  BY <2>1, <2>2, <3>1, CancelLeaks DEF BgCancel
  <2> QED  BY <1>3, <2>1, <2>2, CancelLeaks DEF UserCancel
<1>4. CASE Drains
  <2>1. PICK S \in SUBSET Queued :
           /\ heap' = Delete(S) /\ Queued' = Queued \ S
           /\ UNCHANGED bgVars /\ dropped' = dropped
    BY <1>4, DrainDeletes
  <2> QED  BY <2>1, LeaksStayDeleted DEF IInv
<1>5. CASE \/ Loop \/ FetchNothing \/ AllocThrows \/ BgCancelThrows
           \/ (\E r \in Reports : FetchStat(r))
           \/ (\E h \in Handles, k \in UrbInputs : FetchUrb(h, k))
           \/ (\E h \in Handles : FetchCancel(h) \/ Unlink(h))
           \/ BeginShutdown \/ Terminated \/ UNCHANGED vars
  <2>1. UNCHANGED <<heap, inbox, processing, obj, u>> /\ dropped \subseteq dropped'
    BY <1>5 DEF Loop, FetchNothing, AllocThrows, BgCancelThrows, FetchStat, FetchUrb,
                FetchCancel, Unlink, BeginShutdown, Terminated, vars
  <2>2. Reachable' = Reachable
    BY <2>1 DEF Reachable, Pointer, Queued, IsUrbWork
  <2> QED  BY <2>1, <2>2, LeaksStay
<1> QED
  BY <1>1, <1>2, <1>3, <1>4, <1>5 DEF Next, BgStep, CancelStep, Drains

LEMMA InitLasting ==
    ASSUME Init
    PROVE  Lasting
<1>1. Queued = {}
  BY DEF Init, Queued, Range
<1> QED  BY <1>1 DEF Init, Lasting, Built, Building, NoLeak, DataFetched

LEMMA LastingStep ==
    ASSUME IInv, Lasting, [Next]_vars, ~AllocationFails
    PROVE  Lasting'
  BY BuiltStep, BuildingStep, LeaksStep, DataStep DEF Lasting

(* As long as no allocation fails, whatever the memory is good for:        *)
(* bg_work, the queues and ~hcd leave no object behind but the urbs of an  *)
(* unknown address, and no user gets an urb without its data.              *)
THEOREM LastsInvariant ==
    Spec /\ [][~AllocationFails]_vars => []Lasting
<1>1. Init => Lasting
  BY InitLasting
<1>2. IInv /\ Lasting /\ [Next]_vars /\ [~AllocationFails]_vars => Lasting'
  <2>1. CASE UNCHANGED vars
    BY <2>1 DEF vars, Lasting, Built, Building, NoLeak, DataFetched, Reachable, Pointer, Queued,
                IsUrbWork, UrbOf
  <2> QED  BY <2>1, LastingStep
<1> QED  BY <1>1, <1>2, InductiveInvariant, PTL DEF Spec

-----------------------------------------------------------------------------
(* How much memory is in use.                                              *)

(* Writing a cell uses at most one more, deleting none.                    *)
LEMMA WriteUses ==
    ASSUME NEW c, \A d \in Cells : d # c => heap'[d] \in {heap[d], Free}
    PROVE  Used' \subseteq Used \cup {c}
  BY DEF Used

LEMMA DeleteUses ==
    ASSUME NEW S, heap' = Delete(S)
    PROVE  Used' \subseteq Used
  BY DEF Used, Delete

LEMMA CancelUses ==
    ASSUME IInv, NEW h \in Handles,
           CancelQueued(h) \/ CancelInProgress(h) \/ CancelUnknown(h), TypeOK'
    PROVE  \/ Used' \subseteq Used
           \/ CancelInProgress(h) /\ Used' \subseteq Used \cup {NewCell}
<1> USE DEF IInv
<1>1. CASE CancelQueued(h)
  <2>1. PICK i \in DOMAIN inbox :
           FirstMatch(i, h) /\ heap' = [heap EXCEPT ![inbox[i]].canceled = TRUE]
    BY <1>1 DEF CancelQueued
  <2>2. inbox[i] \in Cells /\ heap[inbox[i]].kind = "process"
    BY <2>1, PointerType DEF FirstMatch, InboxMatches, Matches, IsUrbWork
  <2>3. \A d \in Cells : d # inbox[i] => heap'[d] = heap[d]
    BY <2>1 DEF TypeOK
  <2> QED  BY <2>2, <2>3 DEF Used, Free
<1>2. CASE CancelInProgress(h)
  <2>1. PICK o : heap' = [heap EXCEPT ![NewCell] = o]
    BY <1>2 DEF CancelInProgress
  <2>2. \A d \in Cells : d # NewCell => heap'[d] = heap[d]
    BY <2>1 DEF TypeOK
  <2> QED  BY <1>2, <2>2, WriteUses
<1>3. CASE CancelUnknown(h)
  BY <1>3 DEF CancelUnknown, Used
<1> QED  BY <1>1, <1>2, <1>3

(* The steps that take a new cell, and the others.                         *)
Allocates ==
    \/ \E c \in Cells : StatEnqueueFails(c) \/ StatEnqueue(c) \/ Alloc(c)
                         \/ RouteEnqueueFails(c) \/ RouteEnqueue(c)
    \/ BgCancel /\ CancelInProgress(wk.handle)
    \/ \E h \in Handles : UserCancel(h)

LEMMA UsedStep ==
    ASSUME IInv, [Next]_vars
    PROVE  \/ Used' \subseteq Used
           \/ Allocates /\ \E c : Used' \subseteq Used \cup {c}
<1> USE DEF IInv
<1>1. ASSUME NEW c \in Cells,
             StatEnqueueFails(c) \/ StatEnqueue(c) \/ Alloc(c)
                \/ RouteEnqueueFails(c) \/ RouteEnqueue(c)
      PROVE  Used' \subseteq Used \cup {c}
  <2>1. CASE StatEnqueueFails(c) \/ StatEnqueue(c) \/ Alloc(c)
    <3>1. PICK o : heap' = [heap EXCEPT ![c] = o]
      BY <2>1 DEF StatEnqueueFails, StatEnqueue, Alloc
    <3>2. \A d \in Cells : d # c => heap'[d] = heap[d]
      BY <3>1 DEF TypeOK
    <3> QED  BY <3>2, WriteUses
  <2>2. CASE RouteEnqueueFails(c) \/ RouteEnqueue(c)
    <3> DEFINE base == IF obj = Null THEN heap ELSE Delete({obj})
    <3>1. PICK o : heap' = [base EXCEPT ![c] = o]
      BY <2>2 DEF RouteEnqueueFails, RouteEnqueue, WithUrbWork
    <3>2. /\ base \in [Cells -> Objects]
          /\ \A d \in Cells : base[d] \in {heap[d], Free}
      BY DeleteType DEF TypeOK, Delete
    <3> HIDE DEF base
    <3>3. \A d \in Cells : d # c => heap'[d] \in {heap[d], Free}
      BY <3>1, <3>2
    <3> QED  BY <3>3, WriteUses
  <2> QED  BY <1>1, <2>1, <2>2
<1>2. CASE FetchData
  <2>1. u \in Cells /\ heap[u].kind = "urb"
    BY <1>2 DEF TypeOK, Control, Ownership, UrbsLive, FetchData
  <2>2. \A d \in Cells : d # u => heap'[d] = heap[d]
    BY <1>2 DEF TypeOK, FetchData
  <2> QED  BY <2>1, <2>2 DEF Used, Free
<1>3. CASE BgCancel \/ \E h \in Handles : UserCancel(h)
  <2>1. TypeOK'
    BY TypeStep
  <2>2. CASE BgCancel
    <3>1. wk.handle \in Handles
      BY <2>2, Items DEF TypeOK, Control, BgCancel
    <3>2. CancelQueued(wk.handle) \/ CancelInProgress(wk.handle) \/ CancelUnknown(wk.handle)
      BY <2>2 DEF BgCancel
    <3> HIDE DEF IInv
    <3> QED  BY <2>1, <2>2, <3>1, <3>2, CancelUses DEF Allocates
  <2>3. ASSUME NEW h \in Handles, UserCancel(h)
        PROVE  Allocates /\ \E c : Used' \subseteq Used \cup {c}
    <3> HIDE DEF IInv
    <3> QED  BY <2>1, <2>3, CancelUses DEF Allocates, UserCancel
  <2> QED  BY <1>3, <2>2, <2>3
<1>4. CASE \E S : heap' = Delete(S)
  BY <1>4, DeleteUses
<1>5. CASE heap' = heap
  BY <1>5 DEF Used
<1>6. CASE Retry("statWait", "stat") \/ Retry("routeWait", "alloc")
  BY <1>4, <1>5, <1>6 DEF Retry
<1>7. CASE StatStep \/ UrbStep
  BY <1>1, <1>2, <1>4, <1>5, <1>6, <1>7
  DEF StatStep, UrbStep, Allocates, StatAllocFails, AllocGivesUp, AllocThrows,
      FetchDataFails, RouteNowhere, RouteAllocFails
<1>8. CASE Drains
  BY <1>4, <1>8, DrainDeletes
<1>9. CASE \/ Loop \/ FetchNothing \/ BgCancelThrows
           \/ (\E r \in Reports : FetchStat(r))
           \/ (\E h \in Handles, k \in UrbInputs : FetchUrb(h, k))
           \/ (\E h \in Handles : FetchCancel(h) \/ Unlink(h))
           \/ BeginShutdown \/ Terminated \/ UNCHANGED vars
  BY <1>5, <1>9 DEF Loop, FetchNothing, BgCancelThrows, FetchStat, FetchUrb,
                FetchCancel, Unlink, BeginShutdown, Terminated, vars
<1> QED
  BY <1>3, <1>7, <1>8, <1>9 DEF Next, BgStep, CancelStep, Drains

(* The steps by which bg_work gets something in hand.                      *)
Fetches ==
    \/ \E r \in Reports : FetchStat(r)
    \/ \E h \in Handles, k \in UrbInputs : FetchUrb(h, k)
    \/ \E h \in Handles : FetchCancel(h)

(* Every other step leaves bg_work with no more to allocate, and a step    *)
(* that takes a cell with less.                                            *)
LEMMA PendingStep ==
    ASSUME IInv, [Next]_vars, ~AllocationFails, ~Fetches
    PROVE  /\ Pending' <= Pending
           /\ Allocates /\ ~UserCancels => Pending' < Pending
<1>1. Pending \in Nat /\ Pending' \in Nat
  BY DEF Pending
<1>2. ASSUME NEW c \in Cells, StatEnqueue(c) \/ Alloc(c) \/ RouteEnqueue(c)
      PROVE  Pending' < Pending
  BY <1>2 DEF Pending, StatEnqueue, Alloc, RouteEnqueue
<1>3. ASSUME BgCancel
      PROVE  Pending' < Pending
  BY <1>3 DEF Pending, BgCancel
<1>4. CASE pc' = pc
  <2>1. Pending' = Pending
    BY <1>4 DEF Pending
  <2>2. ~BgCancel /\ ~\E c \in Cells : StatEnqueue(c) \/ Alloc(c) \/ RouteEnqueue(c)
    BY <1>4 DEF BgCancel, StatEnqueue, Alloc, RouteEnqueue
  <2> QED
    BY <1>1, <2>1, <2>2 DEF Allocates, AllocationFails, UserCancel
<1>5. CASE StatStep \/ UrbStep
  <2>1. CASE \E c \in Cells : StatEnqueue(c) \/ Alloc(c) \/ RouteEnqueue(c)
    <3>1. Pending' < Pending
      BY <1>2, <2>1
    <3>2. Pending' <= Pending
      BY <1>1, <3>1
    <3> QED  BY <3>1, <3>2
  <2>2. CASE Retry("statWait", "stat") \/ Retry("routeWait", "alloc")
    <3>1. ~Allocates
      BY <2>2 DEF Retry, Allocates, AllocationFails, StatEnqueue, Alloc, RouteEnqueue,
                  BgCancel, UserCancel
    <3> QED  BY <2>2, <3>1 DEF Retry, Pending
  <2>3. CASE FetchData \/ FetchDataFails \/ RouteNowhere
    <3>1. ~Allocates
      BY <2>3 DEF FetchData, FetchDataFails, RouteNowhere, Allocates, AllocationFails,
                  StatEnqueue, Alloc, RouteEnqueue, BgCancel, UserCancel
    <3> QED  BY <2>3, <3>1 DEF FetchData, FetchDataFails, RouteNowhere, Pending
  <2>4. AllocThrows => pc' = pc
    BY DEF AllocThrows
  <2> QED
    BY <1>4, <1>5, <2>1, <2>2, <2>3, <2>4 DEF StatStep, UrbStep, AllocationFails
<1>6. CASE Loop \/ FetchNothing
  <2>1. ~Allocates
    BY <1>6 DEF Loop, FetchNothing, Allocates, AllocationFails, StatEnqueue, Alloc,
                RouteEnqueue, BgCancel, UserCancel
  <2> QED  BY <1>6, <2>1 DEF Loop, FetchNothing, Pending
<1>7. CASE BgCancel
  <2>1. Pending' < Pending
    BY <1>3, <1>7
  <2>2. Pending' <= Pending
    BY <1>1, <2>1
  <2> QED  BY <2>1, <2>2
<1>8. CASE Drains
  BY <1>4, <1>8, DrainDeletes
<1>9. CASE \/ (\E h \in Handles : Unlink(h) \/ UserCancel(h)) \/ BgCancelThrows
           \/ BeginShutdown \/ Terminated \/ UNCHANGED vars
  BY <1>4, <1>9 DEF Unlink, UserCancel, BgCancelThrows, BeginShutdown, Terminated, vars
<1> QED
  BY <1>5, <1>6, <1>7, <1>8, <1>9 DEF Next, BgStep, CancelStep, Drains, Fetches

LEMMA GivebackCancelable ==
    ASSUME TypeOK, NEW o, Giveback(o)
    PROVE  Cancelable' \subseteq Cancelable
  BY DEF TypeOK, Giveback, Cancelable

(* Only fetching an urb makes one for which a cancel may come.             *)
LEMMA KernelStep ==
    ASSUME IInv, [Next]_vars, ~Fetches
    PROVE  UNCHANGED <<serial, reports>> /\ Cancelable' \subseteq Cancelable
<1> USE DEF IInv
<1>1. ASSUME NEW h, CancelQueued(h) \/ CancelInProgress(h) \/ CancelUnknown(h)
      PROVE  Cancelable' \subseteq Cancelable
  <2>1. CASE CancelQueued(h)
    BY <2>1, GivebackCancelable DEF CancelQueued
  <2>2. CASE CancelInProgress(h) \/ CancelUnknown(h)
    BY <2>2 DEF CancelInProgress, CancelUnknown, Cancelable
  <2> QED  BY <1>1, <2>1, <2>2
<1>2. CASE BgCancel \/ \E h \in Handles : UserCancel(h)
  BY <1>1, <1>2 DEF BgCancel, UserCancel
<1>3. CASE StatStep \/ UrbStep
  <2>1. CASE FetchDataFails
    BY <2>1 DEF FetchDataFails, DataCanceled, DataRefused, Cancelable, TypeOK
  <2>2. CASE ~FetchDataFails
    <3>1. UNCHANGED kernelVars
      BY <1>3, <2>2
      DEF StatStep, UrbStep, StatAllocFails, StatEnqueueFails, StatEnqueue, Retry,
          AllocGivesUp, AllocThrows, FetchData, RouteNowhere, RouteAllocFails, Alloc,
          RouteEnqueueFails, RouteEnqueue
    <3> QED  BY <3>1 DEF Cancelable
  <2> QED  BY <2>1, <2>2
<1>4. ASSUME NEW c \in Cells, FinishWork(c)
      PROVE  UNCHANGED <<serial, reports>> /\ Cancelable' \subseteq Cancelable
  <2>1. CASE IsUrbWork(c)
    BY <1>4, <2>1, GivebackCancelable DEF FinishWork
  <2>2. CASE ~IsUrbWork(c)
    BY <1>4, <2>2 DEF FinishWork, Cancelable
  <2> QED  BY <2>1, <2>2
<1>5. CASE Destroy
  BY <1>5 DEF Destroy, Cancelable
<1>6. ASSUME NEW h \in Handles, Unlink(h)
      PROVE  UNCHANGED <<serial, reports>> /\ Cancelable' \subseteq Cancelable
  BY <1>6 DEF Unlink, Cancelable, TypeOK
<1>7. CASE \/ Loop \/ FetchNothing \/ BgCancelThrows \/ NextWork \/ NextWorkNone
           \/ BeginShutdown \/ Terminated \/ UNCHANGED vars
  BY <1>7 DEF Loop, FetchNothing, BgCancelThrows, NextWork, NextWorkNone,
              BeginShutdown, Terminated, vars, Cancelable
<1> QED
  BY <1>2, <1>3, <1>4, <1>5, <1>6, <1>7 DEF Next, BgStep, CancelStep, Fetches

(* Sets that are counted.                                                  *)
LEMMA CountGrows ==
    ASSUME NEW S, IsFiniteSet(S), NEW c, NEW T, T \subseteq S \cup {c}
    PROVE  IsFiniteSet(T) /\ Cardinality(T) \in Nat /\ Cardinality(T) <= Cardinality(S) + 1
<1>1. /\ IsFiniteSet(S \cup {c}) /\ Cardinality(S) \in Nat
      /\ Cardinality(S \cup {c}) = IF c \in S THEN Cardinality(S) ELSE Cardinality(S) + 1
  BY FS_AddElement, FS_CardinalityType
<1>2. IsFiniteSet(T) /\ Cardinality(T) <= Cardinality(S \cup {c})
  BY <1>1, FS_Subset
<1>3. Cardinality(T) \in Nat
  BY <1>2, FS_CardinalityType
<1> QED  BY <1>1, <1>2, <1>3

LEMMA CountShrinks ==
    ASSUME NEW S, IsFiniteSet(S), NEW T, T \subseteq S
    PROVE  /\ IsFiniteSet(T) /\ Cardinality(T) \in Nat /\ Cardinality(S) \in Nat
           /\ Cardinality(T) <= Cardinality(S)
<1>1. IsFiniteSet(T) /\ Cardinality(T) <= Cardinality(S)
  BY FS_Subset
<1>2. Cardinality(T) \in Nat /\ Cardinality(S) \in Nat
  BY <1>1, FS_CardinalityType
<1> QED  BY <1>1, <1>2

LEMMA Counted ==
    ASSUME TypeOK, IsFiniteSet(Handles)
    PROVE  /\ IsFiniteSet(Cancelable) /\ Cardinality(Cancelable) \in Nat
           /\ IsFiniteSet(Taken) /\ Cardinality(Taken) \in Nat
           /\ Cardinality(Taken) <= Cardinality(Handles \X Serials)
           /\ Cardinality(Handles \X Serials) \in Nat
<1>1. Cancelable \subseteq Handles /\ Taken \subseteq Handles \X Serials
  BY DEF Cancelable, Taken
<1>2. IsFiniteSet(Serials)
  BY FS_Interval, MaxSubmitAssumption DEF Serials
<1>3. IsFiniteSet(Handles \X Serials)
  BY <1>2, FS_Product
<1> QED  BY <1>1, <1>3, CountShrinks

(* The budget of a step that fetches nothing.                              *)
LEMMA BudgetSpent ==
    ASSUME IInv, IsFiniteSet(Handles), IsFiniteSet(Used), Budget, ~UserCancels,
           [Next]_vars, ~AllocationFails, ~Fetches
    PROVE  Budget'
<1>1. /\ TypeOK /\ TypeOK' /\ Taken' = Taken /\ reports' = reports
      /\ Cancelable' \subseteq Cancelable
  BY TypeStep, KernelStep DEF IInv, Taken
<1>2. /\ Cardinality(Cancelable') \in Nat /\ Cardinality(Cancelable) \in Nat
      /\ Cardinality(Cancelable') <= Cardinality(Cancelable)
      /\ Cardinality(Taken) \in Nat /\ reports \in Nat
  BY <1>1, Counted, CountShrinks, MaxReportsAssumption DEF TypeOK
<1>3. Pending \in Nat /\ Pending' \in Nat
  BY DEF Pending
<1>4. Cardinality(Used) \in Nat /\ Cardinality(Used') \in Nat
      /\ Cardinality(Used') + Pending' <= Cardinality(Used) + Pending
  <2>1. CASE Used' \subseteq Used
    <3>1. /\ Cardinality(Used) \in Nat /\ Cardinality(Used') \in Nat
          /\ Cardinality(Used') <= Cardinality(Used)
      BY <2>1, CountShrinks
    <3>2. Pending' <= Pending
      BY PendingStep
    <3> QED  BY <1>3, <3>1, <3>2
  <2>2. CASE Allocates /\ \E c : Used' \subseteq Used \cup {c}
    <3>1. Cardinality(Used') \in Nat /\ Cardinality(Used') <= Cardinality(Used) + 1
      BY <2>2, CountGrows
    <3>2. Cardinality(Used) \in Nat
      BY FS_CardinalityType
    <3>3. Pending' < Pending
      BY <2>2, PendingStep
    <3> QED  BY <1>3, <3>1, <3>2, <3>3
  <2> QED  BY <2>1, <2>2, UsedStep
<1>5. ASSUME NEW a \in Nat, NEW b \in Nat, NEW c \in Nat, NEW d \in Nat, NEW e \in Nat,
             NEW f \in Nat, NEW p \in Nat, NEW q \in Nat,
             a + d + p <= 3 * e + f, b + q <= a + p, c <= d
      PROVE  b + c + q <= 3 * e + f
  BY <1>5
<1> QED  BY <1>1, <1>2, <1>3, <1>4, <1>5 DEF Budget

(* Each use of a handle is worth three cells, each report one.             *)
LEMMA BudgetFetch ==
    ASSUME IInv, IsFiniteSet(Handles), IsFiniteSet(Used), Budget, Fetches
    PROVE  Budget'
<1> TypeOK
  BY DEF IInv
<1>1. /\ IsFiniteSet(Cancelable) /\ Cardinality(Cancelable) \in Nat
      /\ IsFiniteSet(Taken) /\ Cardinality(Taken) \in Nat
      /\ Cardinality(Used) \in Nat /\ reports \in Nat
  BY Counted, FS_CardinalityType, MaxReportsAssumption DEF TypeOK
<1>2. Used' = Used /\ pc = "fetch" /\ Pending = 0
  BY DEF Fetches, FetchStat, FetchUrb, FetchCancel, Used, Pending
<1>3. ASSUME NEW r \in Reports, FetchStat(r)
      PROVE  Budget'
  <2>1. /\ reports' = reports + 1 /\ Taken' = Taken /\ Cancelable' = Cancelable
        /\ Pending' \in {0, 1}
    BY <1>3 DEF FetchStat, Taken, Cancelable, Pending
  <2> QED  BY <1>1, <1>2, <2>1 DEF Budget
<1>4. ASSUME NEW h \in Handles, NEW k \in UrbInputs, FetchUrb(h, k)
      PROVE  Budget'
  <2>1. /\ reports' = reports /\ Pending' \in {0, 2}
        /\ kstate[h] = "idle" /\ serial[h] < MaxSubmit /\ serial[h] \in Nat
        /\ kstate' = [kstate EXCEPT ![h] = "fetched"]
        /\ serial' = [serial EXCEPT ![h] = @ + 1]
    BY <1>4, MaxSubmitAssumption DEF FetchUrb, Pending, TypeOK
  <2>2. Cancelable' = Cancelable \cup {h}
    BY <2>1 DEF Cancelable, TypeOK
  <2>3. Taken' = Taken \cup {<<h, serial[h] + 1>>} /\ <<h, serial[h] + 1>> \notin Taken
    <3>1. serial[h] + 1 \in Serials
      BY <2>1, MaxSubmitAssumption DEF Serials
    <3>2. ASSUME NEW t \in Handles \X Serials
          PROVE  /\ t[2] <= serial'[t[1]]
                      <=> t[2] <= serial[t[1]] \/ t = <<h, serial[h] + 1>>
      <4>1. t[1] \in Handles /\ t[2] \in Nat /\ t = <<t[1], t[2]>>
        BY DEF Serials
      <4>2. CASE t[1] = h
        BY <2>1, <4>1, <4>2 DEF TypeOK
      <4>3. CASE t[1] # h
        BY <2>1, <4>1, <4>3 DEF TypeOK
      <4> QED  BY <4>2, <4>3
    <3>3. <<h, serial[h] + 1>> \in Handles \X Serials
      BY <3>1
    <3> QED  BY <2>1, <3>2, <3>3 DEF Taken
  <2>4. Cardinality(Taken') = Cardinality(Taken) + 1
    BY <1>1, <2>3, FS_AddElement
  <2>5. Cardinality(Cancelable') \in Nat /\ Cardinality(Cancelable') <= Cardinality(Cancelable) + 1
    BY <1>1, <2>2, CountGrows
  <2> QED  BY <1>1, <1>2, <2>1, <2>4, <2>5 DEF Budget
<1>5. ASSUME NEW h \in Handles, FetchCancel(h)
      PROVE  Budget'
  <2>1. /\ Taken' = Taken /\ reports' = reports /\ Pending' = 1
        /\ h \in Cancelable /\ Cancelable' = Cancelable \ {h}
    BY <1>5 DEF FetchCancel, Taken, Pending, Cancelable, TypeOK
  <2>2. Cardinality(Cancelable') = Cardinality(Cancelable) - 1
    BY <1>1, <2>1, FS_RemoveElement
  <2> QED  BY <1>1, <1>2, <2>1, <2>2 DEF Budget
<1> QED  BY <1>3, <1>4, <1>5 DEF Fetches

-----------------------------------------------------------------------------
(* Enough memory.                                                          *)

(* What is in use is finite, and within the budget if cells are short.     *)
Roomy == IsFiniteSet(Used) /\ (IsFiniteSet(Cells) => Budget)

LEMMA InitRoomy ==
    ASSUME Init, EnoughMemory
    PROVE  Roomy
<1>1. Used = {} /\ IsFiniteSet(Used) /\ Cardinality(Used) = 0
  BY FS_EmptySet DEF Init, Used
<1>2. ASSUME IsFiniteSet(Cells)
      PROVE  Budget
  <2>1. Cancelable = {} /\ Pending = 0 /\ reports = 0
    BY DEF Init, Cancelable, Pending
  <2>2. Taken \subseteq Handles \X Serials /\ TypeOK /\ IsFiniteSet(Handles)
    BY <1>2, InitIInv DEF Taken, IInv, EnoughMemory
  <2>3. Cardinality(Taken) \in Nat
    BY <2>2, Counted
  <2> QED  BY <1>1, <2>1, <2>3, FS_EmptySet DEF Budget
<1> QED  BY <1>1, <1>2 DEF Roomy

LEMMA RoomyStep ==
    ASSUME IInv, EnoughMemory, Roomy, [Next]_vars, ~AllocationFails
    PROVE  Roomy'
<1>1. IsFiniteSet(Used)'
  BY UsedStep, CountGrows, CountShrinks DEF Roomy
<1>2. IsFiniteSet(Cells) => Budget'
  BY BudgetSpent, BudgetFetch DEF Roomy, EnoughMemory
<1> QED  BY <1>1, <1>2 DEF Roomy

(* Then a cell is free whenever bg_work needs one.                         *)
LEMMA RoomLeft ==
    ASSUME IInv, EnoughMemory, Roomy, Pending # 0
    PROVE  FreeCells # {}
<1>1. Used # Cells
  <2>1. CASE ~IsFiniteSet(Cells)
    BY <2>1 DEF Roomy
  <2>2. CASE IsFiniteSet(Cells)
    <3>1. /\ Cardinality(Cancelable) \in Nat /\ Cardinality(Taken) \in Nat
          /\ Cardinality(Taken) <= Cardinality(Handles \X Serials)
          /\ Cardinality(Handles \X Serials) \in Nat
      BY <2>2, Counted DEF IInv, EnoughMemory
    <3>2. Cardinality(Used) \in Nat /\ Pending \in Nat /\ reports \in 0..MaxReports
      BY FS_CardinalityType DEF Roomy, Pending, IInv, TypeOK
    <3>3. 3 * Cardinality(Handles \X Serials) + MaxReports <= Cardinality(Cells)
      BY <2>2 DEF EnoughMemory
    <3>4. Cardinality(Used) + Cardinality(Cancelable) + Pending
             <= 3 * Cardinality(Taken) + reports
      BY <2>2 DEF Roomy, Budget
    <3>5. Cardinality(Cells) \in Nat
      BY <2>2, FS_CardinalityType
    <3>6. Cardinality(Used) < Cardinality(Cells)
      BY <3>1, <3>2, <3>3, <3>4, <3>5, MaxReportsAssumption
    <3> QED  BY <3>2, <3>6
  <2> QED  BY <2>1, <2>2
<1> QED  BY <1>1 DEF Used, FreeCells

LEMMA NoneFails ==
    ASSUME IInv, EnoughMemory, Roomy
    PROVE  ~AllocationFails
<1>1. ASSUME AllocationFails
      PROVE  pc \in {"stat", "alloc", "data", "route", "cancel"} /\ CanFail
  BY <1>1
  DEF AllocationFails, StatAllocFails, AllocGivesUp, RouteAllocFails, BgCancelThrows,
      StatEnqueueFails, RouteEnqueueFails, FetchDataFails, DataRefused, CanFail
<1>2. ~NoMem
  BY DEF EnoughMemory
<1>3. ASSUME pc \in {"stat", "alloc", "data", "route", "cancel"}
      PROVE  ~CanFail
  <2>1. Pending # 0
    BY <1>3 DEF Pending
  <2> QED  BY <1>2, <2>1, RoomLeft DEF CanFail
<1> QED  BY <1>1, <1>3

(* With three cells for every use of a handle and one for every report, or *)
(* with cells without end, bg_work is never refused memory, though the     *)
(* urbs it drops stay allocated for ever.                                  *)
THEOREM MemoryLasts ==
    ASSUME EnoughMemory
    PROVE  Spec => [][~AllocationFails]_vars
<1>1. IInv /\ Init => Roomy
  BY InitRoomy
<1>2. IInv /\ Roomy /\ [Next]_vars => Roomy' /\ ~AllocationFails
  BY NoneFails, RoomyStep
<1> QED  BY <1>1, <1>2, InductiveInvariant, PTL DEF Spec

(* Nothing leaks but the urbs bg_work drops because no port has their      *)
(* address: every work and urb is deleted by next_work, finish_work, a     *)
(* retry or ~hcd.                                                          *)
THEOREM OnlyDroppedLeak ==
    ASSUME EnoughMemory
    PROVE  Spec => []NoLeak
<1>1. Lasting => NoLeak
  BY DEF Lasting
<1> QED  BY <1>1, MemoryLasts, LastsInvariant, PTL

(* A user who takes an urb with data or packets gets them with it.         *)
THEOREM DataComeAlong ==
    ASSUME EnoughMemory
    PROVE  Spec => []DataFetched
<1>1. Lasting => DataFetched
  BY DEF Lasting
<1> QED  BY <1>1, MemoryLasts, LastsInvariant, PTL
=============================================================================
