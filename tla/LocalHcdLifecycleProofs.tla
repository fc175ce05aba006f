----------------------- MODULE LocalHcdLifecycleProofs -----------------------
(***************************************************************************)
(* Proofs about the life of an urb in LocalHcd: it is given back at most   *)
(* once, never lost, and moves only as UrbLifecycle allows.  They hold for *)
(* any number of ports, handles and cells, any requests and reports and    *)
(* any failing allocation.  That no urb is lost needs nothing else; that   *)
(* the kernel waits for the urbs the users work on needs a kernel that     *)
(* never uses a handle twice; and that no urb is given back twice, and the *)
(* life of an urb, need also that only the background thread calls         *)
(* cancel_process_urb_work.                                                *)
(***************************************************************************)
EXTENDS LocalHcdProofs

USE DEF Null, hcdVars, portVars, bgVars, kernelVars, history

OncePerHandle == MaxSubmit = 1 /\ ~UserCancels

USE DEF OncePerHandle

(* The inductive invariant.  A handle has one work in the queues; the      *)
(* kernel waits for its urb exactly until the work is marked as canceled,  *)
(* which happens only in the inbox.                                        *)
OneWork ==
    \A c, d \in Queued :
        IsUrbWork(c) /\ IsUrbWork(d) /\ UrbOf(c).handle = UrbOf(d).handle => c = d

Open(h) == serial[h] = 1 /\ <<h, 1>> \notin dropped

QueuedOpen ==
    \A c \in Queued :
        IsUrbWork(c) => /\ Open(UrbOf(c).handle)
                        /\ Canceled(c) <=> ~Outstanding(UrbOf(c).handle)

NoneCanceledTaken == \A c \in processing : ~Canceled(c)

(* The urb bg_work has in hand is in no queue.                             *)
InHand ==
    pc \in BgAtUrb =>
        /\ kstate[wk.handle] \in {"fetched", "unlinked"} /\ Open(wk.handle)
        /\ \A c \in Queued : ~Matches(c, wk.handle)

(* A cancel notice comes once for a handle, unless users cancel as well: it*)
(* is in the hands of bg_work, or in a work of the inbox, and the kernel   *)
(* has it no more.                                                         *)
NoticeTaken(h) == kstate[h] \in {"canceling", "idle"} /\ serial[h] = 1

InCancel ==
    ~UserCancels /\ pc = "cancel" =>
        /\ NoticeTaken(wk.handle)
        /\ \A c \in Queued : Matches(c, wk.handle) => ~Canceled(c)

InboxNotices == {c \in Range(inbox) : heap[c].kind = "cancel"}

Notices ==
    ~UserCancels =>
        /\ \A c \in InboxNotices :
              /\ NoticeTaken(heap[c].handle)
              /\ ~(pc = "cancel" /\ wk.handle = heap[c].handle)
        /\ \A c, d \in InboxNotices : heap[c].handle = heap[d].handle => c = d

GivenBackOnce == ~UserCancels => GivebackOnce

Fresh ==
    \A h \in Handles : serial[h] = 0 => kstate[h] = "idle" /\ <<h, 1>> \notin dropped

UrbInv ==
    /\ OneWork /\ QueuedOpen /\ NoneCanceledTaken
    /\ InHand /\ InCancel /\ Notices /\ Fresh
    /\ GivenBackOnce

-----------------------------------------------------------------------------
(* Steps that neither move an urb nor touch the kernel.                    *)

(* Urb works stay in the queues, except canceled ones in the inbox, and    *)
(* none is added.                                                          *)
QueuesSteady ==
    /\ \A c \in Queued' : IsUrbWork(c)' => c \in Queued /\ Same(c)
    /\ \A c \in Queued :
          IsUrbWork(c) /\ ~Canceled(c) => c \in Queued' /\ Same(c)
    /\ \A c \in processing' : ~Canceled(c)'
    /\ \A c \in InboxNotices' : c \in InboxNotices /\ heap'[c] = heap[c]

(* bg_work takes nothing new in hand.                                      *)
BgSteady ==
    /\ pc' \in BgAtUrb => pc \in BgAtUrb /\ wk' = wk
    /\ pc' = "cancel" => pc = "cancel" /\ wk' = wk

KernelSteady == UNCHANGED <<kstate, serial, dropped, strays>>

LEMMA SteadyInv ==
    ASSUME UrbInv, QueuesSteady, BgSteady, KernelSteady
    PROVE  UrbInv'
<1> USE DEF KernelSteady
<1>1. \A c \in Queued' : IsUrbWork(c)' =>
         /\ c \in Queued /\ IsUrbWork(c) /\ UrbOf(c)' = UrbOf(c)
         /\ Canceled(c)' <=> Canceled(c)
  BY SameView DEF QueuesSteady
<1>2. OneWork'
  BY <1>1 DEF UrbInv, OneWork
<1>3. QueuedOpen'
  BY <1>1 DEF UrbInv, QueuedOpen, Open, Outstanding
<1>4. NoneCanceledTaken'
  BY DEF QueuesSteady, NoneCanceledTaken
<1>5. \A c \in Queued' : \A h : Matches(c, h)' => c \in Queued /\ Matches(c, h)
  BY <1>1 DEF Matches
<1>6. InHand'
  BY <1>5 DEF UrbInv, InHand, BgSteady, Open
<1>7. InCancel'
  <2>1. ASSUME ~UserCancels, pc' = "cancel", NEW c \in Queued', Matches(c, wk.handle)'
        PROVE  ~Canceled(c)'
    BY <1>1, <1>5, <2>1 DEF UrbInv, InCancel, BgSteady, Matches
  <2> QED  BY <2>1 DEF UrbInv, InCancel, NoticeTaken, BgSteady
<1>8. Notices'
  BY DEF UrbInv, Notices, NoticeTaken, QueuesSteady, BgSteady
<1>9. Fresh'
  BY DEF UrbInv, Fresh
<1>11. GivenBackOnce'
  BY DEF UrbInv, GivenBackOnce, GivebackOnce
<1> QED
  BY <1>2, <1>3, <1>4, <1>6, <1>7, <1>8, <1>9, <1>11 DEF UrbInv

(* The queues are steady when they do not change, and when they get a work *)
(* that is neither an urb nor a notice.                                    *)
LEMMA SameQueues ==
    ASSUME UrbInv, \A c \in Queued : Same(c), UNCHANGED <<inbox, processing>>
    PROVE  QueuesSteady
<1>1. Queued' = Queued /\ Range(inbox)' = Range(inbox)
  BY DEF Queued
<1>2. \A c \in Queued : heap'[c] = heap[c]
  BY DEF Same
<1>3. \A c \in InboxNotices' : c \in InboxNotices /\ heap'[c] = heap[c]
  BY <1>1, <1>2 DEF InboxNotices, Queued
<1>4. \A c \in processing' : ~Canceled(c)'
  BY SameView DEF Queued, UrbInv, NoneCanceledTaken
<1> QED  BY <1>1, <1>3, <1>4 DEF QueuesSteady

LEMMA StatQueues ==
    ASSUME IInv, UrbInv, NEW c \in Cells, StatEnqueue(c)
    PROVE  QueuesSteady
<1>1. \A d \in Queued : Same(d) /\ heap'[d] = heap[d]
  BY StatSame DEF Same
<1>2. c \notin Queued /\ heap'[c].kind = "stat"
  BY StatSame
<1>3. Range(inbox)' = Range(inbox) \cup {c} /\ processing' = processing
  BY <1>2, AppendKeeps DEF IInv, StatEnqueue
<1>4. Queued' = Queued \cup {c} /\ ~IsUrbWork(c)'
  BY <1>2, <1>3 DEF Queued, IsUrbWork
<1>5. \A d \in processing' : ~Canceled(d)'
  BY <1>1, <1>3, SameView DEF Queued, UrbInv, NoneCanceledTaken
<1>6. \A d \in InboxNotices' : d \in InboxNotices /\ heap'[d] = heap[d]
  BY <1>1, <1>2, <1>3 DEF InboxNotices, Queued
<1> QED  BY <1>1, <1>4, <1>5, <1>6 DEF QueuesSteady

(* What next_work passes over is canceled; what it hands out is not.       *)
LEMMA NextWorkFacts ==
    ASSUME IInv, NextWork
    PROVE  \E c \in Range(inbox) :
              /\ ~Canceled(c) /\ processing' = processing \cup {c}
              /\ c \notin Range(inbox)' /\ c \notin processing
              /\ Range(inbox)' \subseteq Range(inbox)
              /\ \A d \in Range(inbox) \ Range(inbox)' : d = c \/ Canceled(d)
              /\ \A d \in Queued' : d \in Queued /\ Same(d)
<1> USE DEF IInv
<1>1. PICK i \in DOMAIN inbox :
         /\ FirstAlive(i)
         /\ heap' = Delete(Before(i))
         /\ inbox' = SubSeq(inbox, i + 1, Len(inbox))
         /\ processing' = processing \cup {inbox[i]}
  BY DEF NextWork
<1>2. DOMAIN inbox = 1..Len(inbox) /\ Len(inbox) \in Nat
  BY LenProperties DEF TypeOK
<1>3. /\ DOMAIN inbox' = 1..(Len(inbox) - i)
      /\ \A j \in DOMAIN inbox' : i + j \in DOMAIN inbox /\ inbox'[j] = inbox[i + j]
  BY <1>1, RestOfInbox
<1>4. inbox[i] \in Range(inbox) /\ inbox[i] \notin processing
  BY DEF Range, Ownership, QueuesDisjoint
<1>5. Range(inbox)' \subseteq Range(inbox) /\ inbox[i] \notin Range(inbox)'
  BY <1>2, <1>3 DEF Ownership, InboxDistinct, Range
<1>6. ASSUME NEW d \in Range(inbox) \ Range(inbox)', d # inbox[i]
      PROVE  Canceled(d)
  <2>1. PICK j \in DOMAIN inbox : d = inbox[j]
    BY DEF Range
  <2>2. CASE j > i
    <3>1. j - i \in DOMAIN inbox' /\ i + (j - i) = j
      BY <1>2, <1>3, <2>2
    <3>2. inbox'[j - i] = d
      BY <1>3, <2>1, <3>1
    <3> QED  BY <3>1, <3>2, <1>6 DEF Range
  <2>3. CASE j < i
    BY <1>1, <1>2, <2>1, <2>3 DEF FirstAlive
  <2> QED  BY <1>2, <1>6, <2>1, <2>2, <2>3
<1>7. Before(i) \subseteq Range(inbox) /\ Before(i) \cap Range(inbox)' = {}
      /\ inbox[i] \notin Before(i)
  <2>1. \A k \in 1..(i - 1) : k \in DOMAIN inbox /\ k # i
    BY <1>2
  <2>2. \A k \in 1..(i - 1), j \in DOMAIN inbox' : inbox[k] # inbox'[j]
    <3>1. \A k \in 1..(i - 1), j \in DOMAIN inbox' : k # i + j
      BY <1>2, <1>3
    <3> QED  BY <1>3, <2>1, <3>1 DEF Ownership, InboxDistinct
  <2> QED  BY <2>1, <2>2 DEF Ownership, InboxDistinct, Range, Before
<1>8. Before(i) \in SUBSET Pointer
  BY <1>7 DEF Pointer, Queued
<1>9. \A d \in Queued' : d \in Queued /\ d \in Pointer \ Before(i)
  BY <1>1, <1>4, <1>5, <1>7 DEF Queued, Pointer, Ownership, QueuesDisjoint
<1>10. \A d \in Queued' : d \in Queued /\ Same(d)
  BY <1>1, <1>8, <1>9, DeleteSame
<1>11. ~Canceled(inbox[i])
  BY <1>1 DEF FirstAlive
<1> QED  BY <1>1, <1>4, <1>5, <1>6, <1>10, <1>11

LEMMA NextWorkQueues ==
    ASSUME IInv, UrbInv, NextWork
    PROVE  QueuesSteady
<1>1. PICK c \in Range(inbox) :
         /\ ~Canceled(c) /\ processing' = processing \cup {c}
         /\ Range(inbox)' \subseteq Range(inbox)
         /\ \A d \in Range(inbox) \ Range(inbox)' : d = c \/ Canceled(d)
         /\ \A d \in Queued' : d \in Queued /\ Same(d)
  BY NextWorkFacts
<1>2. \A d \in Queued : ~Canceled(d) => d \in Queued'
  BY <1>1 DEF Queued
<1>3. \A d \in processing' : ~Canceled(d)'
  BY <1>1, SameView DEF Queued, UrbInv, NoneCanceledTaken
<1>4. \A d \in InboxNotices' : d \in InboxNotices /\ heap'[d] = heap[d]
  BY <1>1 DEF InboxNotices, Queued, Same
<1> QED  BY <1>1, <1>2, <1>3, <1>4 DEF QueuesSteady

LEMMA DrainQueues ==
    ASSUME IInv, UrbInv, NextWorkNone
    PROVE  QueuesSteady
<1> USE DEF IInv
<1>1. Range(inbox)' = {} /\ processing' = processing /\ Queued' = processing
  BY DEF NextWorkNone, Queued, Range
<1>2. \A d \in Range(inbox) : Canceled(d)
  BY DEF NextWorkNone, Range
<1>3. Range(inbox) \in SUBSET Pointer
      /\ \A d \in processing : d \in Pointer \ Range(inbox)
  BY DEF Pointer, Queued, Ownership, QueuesDisjoint
<1>4. \A d \in processing : Same(d)
  BY <1>3, DeleteSame DEF NextWorkNone
<1>5. \A d \in processing' : ~Canceled(d)'
  BY <1>1, <1>4, SameView DEF UrbInv, NoneCanceledTaken
<1> QED  BY <1>1, <1>2, <1>4, <1>5 DEF QueuesSteady, InboxNotices, Queued

(* A port status or a notice is finished.                                  *)
LEMMA FinishOtherQueues ==
    ASSUME IInv, UrbInv, NEW c \in Cells, FinishWork(c), ~IsUrbWork(c)
    PROVE  QueuesSteady
<1> USE DEF IInv
<1>1. c \in processing /\ c \notin Range(inbox) /\ {c} \in SUBSET Pointer
      /\ Queued' = Queued \ {c} /\ inbox' = inbox /\ processing' = processing \ {c}
  BY DEF FinishWork, Queued, Pointer, Ownership, QueuesDisjoint
<1>2. \A d \in Queued \ {c} : Same(d) /\ heap'[d] = heap[d]
  <2>1. \A d \in Queued \ {c} : d \in Pointer \ {c}
    BY DEF Pointer
  <2> QED  BY <1>1, <2>1, DeleteSame DEF FinishWork, Same
<1>3. \A d \in processing' : ~Canceled(d)'
  BY <1>1, <1>2, SameView DEF Queued, UrbInv, NoneCanceledTaken
<1>4. \A d \in InboxNotices' : d \in InboxNotices /\ heap'[d] = heap[d]
  BY <1>1, <1>2 DEF InboxNotices, Queued
<1> QED  BY <1>1, <1>2, <1>3, <1>4 DEF QueuesSteady

LEMMA SameBg ==
    ASSUME UNCHANGED bgVars
    PROVE  BgSteady
  BY DEF BgSteady

LEMMA StatSteady ==
    ASSUME IInv, UrbInv, StatStep
    PROVE  QueuesSteady /\ BgSteady /\ KernelSteady
<1>1. CASE StatAllocFails
  <2>1. \A c \in Queued : Same(c)
    BY <1>1 DEF StatAllocFails, Same
  <2> QED
    BY <1>1, <2>1, SameQueues DEF StatAllocFails, BgSteady, BgAtUrb, KernelSteady
<1>2. ASSUME NEW c \in Cells, StatEnqueueFails(c)
      PROVE  QueuesSteady /\ BgSteady /\ KernelSteady
  BY <1>2, StatSame, SameQueues DEF StatEnqueueFails, BgSteady, BgAtUrb, KernelSteady
<1>3. ASSUME NEW c \in Cells, StatEnqueue(c)
      PROVE  QueuesSteady /\ BgSteady /\ KernelSteady
  BY <1>3, StatQueues DEF StatEnqueue, BgSteady, BgAtUrb, KernelSteady
<1>4. CASE Retry("statWait", "stat")
  <2>1. QueuesSteady
    BY <1>4, BuildSame, SameQueues DEF Retry
  <2> QED  BY <1>4, <2>1 DEF Retry, BgSteady, BgAtUrb, KernelSteady
<1> QED  BY <1>1, <1>2, <1>3, <1>4 DEF StatStep

(* The steps between reading an urb and queueing it.                       *)
LEMMA BuildSteady ==
    ASSUME IInv, UrbInv,
           \/ \E c \in Cells : Alloc(c) \/ RouteEnqueueFails(c)
           \/ AllocGivesUp \/ AllocThrows \/ FetchData \/ RouteAllocFails
           \/ Retry("routeWait", "alloc")
    PROVE  QueuesSteady /\ BgSteady /\ KernelSteady
<1> USE DEF IInv
<1>1. ASSUME NEW c \in Cells, Alloc(c)
      PROVE  QueuesSteady /\ BgSteady /\ KernelSteady
  <2>1. QueuesSteady
    BY <1>1, BuildSame, SameQueues DEF Alloc
  <2> QED  BY <1>1, <2>1 DEF Alloc, BgSteady, BgAtUrb, KernelSteady
<1>2. ASSUME NEW c \in Cells, RouteEnqueueFails(c)
      PROVE  QueuesSteady /\ BgSteady /\ KernelSteady
  <2>1. QueuesSteady
    BY <1>2, RouteSame, SameQueues DEF RouteEnqueueFails
  <2> QED  BY <1>2, <2>1 DEF RouteEnqueueFails, BgSteady, BgAtUrb, KernelSteady
<1>3. CASE AllocGivesUp \/ RouteAllocFails
  <2>1. QueuesSteady
    BY <1>3, BuildSame, SameQueues DEF AllocGivesUp, RouteAllocFails
  <2> QED
    BY <1>3, <2>1
    DEF AllocGivesUp, RouteAllocFails, BgSteady, BgAtUrb, KernelSteady
<1>4. CASE AllocThrows
  <2>1. QueuesSteady
    BY <1>4, SameQueues DEF AllocThrows, Same
  <2>2. BgSteady
    BY <1>4, SameBg DEF AllocThrows
  <2> QED  BY <1>4, <2>1, <2>2 DEF AllocThrows, KernelSteady
<1>5. CASE FetchData
  <2>1. QueuesSteady
    BY <1>5, BuildSame, SameQueues DEF FetchData
  <2> QED  BY <1>5, <2>1 DEF FetchData, BgSteady, BgAtUrb, KernelSteady
<1>6. CASE Retry("routeWait", "alloc")
  <2>1. QueuesSteady
    BY <1>6, BuildSame, SameQueues DEF Retry
  <2> QED  BY <1>6, <2>1 DEF Retry, BgSteady, BgAtUrb, KernelSteady
<1> QED  BY <1>1, <1>2, <1>3, <1>4, <1>5, <1>6

(* The steps that leave the objects and the queues alone.                  *)
LEMMA IdleSteady ==
    ASSUME IInv, UrbInv,
           \/ Loop \/ FetchNothing \/ BgCancelThrows \/ BeginShutdown \/ Terminated
           \/ (\E r \in Reports : FetchStat(r)) \/ UNCHANGED vars
           \/ BgCancel /\ CancelUnknown(wk.handle)
    PROVE  QueuesSteady /\ BgSteady /\ KernelSteady
<1>1. UNCHANGED <<heap, inbox, processing>> /\ KernelSteady
  BY DEF Loop, FetchNothing, BgCancelThrows, BeginShutdown, Terminated, FetchStat,
         BgCancel, CancelUnknown, vars, KernelSteady
<1>2. QueuesSteady
  BY <1>1, SameQueues DEF Same
<1>3. BgSteady
  <2>1. CASE Loop
    BY <2>1 DEF Loop, BgSteady, BgAtUrb
  <2>2. CASE FetchNothing \/ BgCancel \/ \E r \in Reports : FetchStat(r)
    BY <2>2 DEF FetchNothing, BgCancel, FetchStat, BgSteady, BgAtUrb
  <2>3. CASE BgCancelThrows \/ BeginShutdown \/ Terminated \/ UNCHANGED vars
    BY <1>1, <2>3, SameBg DEF BgCancelThrows, BeginShutdown, Terminated, vars
  <2> QED  BY <2>1, <2>2, <2>3
<1> QED  BY <1>1, <1>2, <1>3

(* The threads that take works and finish those that are no urb.           *)
LEMMA UserSteady ==
    ASSUME IInv, UrbInv,
           \/ NextWork \/ NextWorkNone
           \/ \E c \in Cells : FinishWork(c) /\ ~IsUrbWork(c)
    PROVE  QueuesSteady /\ BgSteady /\ KernelSteady
<1>1. QueuesSteady
  BY NextWorkQueues, DrainQueues, FinishOtherQueues
<1>2. BgSteady /\ KernelSteady
  BY SameBg DEF NextWork, NextWorkNone, FinishWork, KernelSteady
<1> QED  BY <1>1, <1>2

-----------------------------------------------------------------------------
(* Steps that move an urb.                                                 *)

(* bg_work puts the urb it has in hand into the inbox.                     *)
LEMMA RouteEnqueueInv ==
    ASSUME MaxSubmit = 1, IInv, Built, UrbInv, NEW c \in Cells, RouteEnqueue(c)
    PROVE  UrbInv'
<1> USE DEF IInv, UrbInv
<1>0. PICK h : h = wk.handle
  OBVIOUS
<1>1. /\ \A d \in Queued : Same(d)
      /\ c \notin Queued /\ heap'[c].kind = "process" /\ ~heap'[c].canceled
      /\ heap'[c].urb = u /\ u \in Cells /\ heap'[u] = heap[u]
  BY RouteSame
<1>2. /\ pc = "route" /\ pc' = "loop" /\ u # Null /\ processing' = processing
      /\ UNCHANGED <<kstate, serial, dropped, strays, life>>
  BY DEF RouteEnqueue, Control
<1>3. Range(inbox)' = Range(inbox) \cup {c} /\ Queued' = Queued \cup {c}
  BY <1>1, <1>2, AppendKeeps DEF RouteEnqueue, Queued
<1>4. /\ kstate[h] \in {"fetched", "unlinked"} /\ Open(h)
      /\ \A d \in Queued : ~Matches(d, h)
      /\ heap[u].handle = h
  BY <1>0, <1>2 DEF InHand, BgAtUrb, Built
<1>5. heap[u] \in UrbObjs /\ heap[u].serial = 1
  BY <1>1, <1>2, Kinds DEF TypeOK, Ownership, UrbsLive, UrbObjs, Serials
<1>6. /\ IsUrbWork(c)' /\ ~Canceled(c)' /\ UrbOf(c)'.handle = h
      /\ UrbOf(c)'.serial = 1
  BY <1>1, <1>4, <1>5 DEF IsUrbWork, Canceled, UrbOf
<1>7. \A d \in Queued :
         /\ IsUrbWork(d)' => IsUrbWork(d) /\ UrbOf(d)' = UrbOf(d)
         /\ Canceled(d)' <=> Canceled(d)
  BY <1>1, SameView
<1>8. OneWork'
  <2>1. \A d \in Queued : IsUrbWork(d)' => UrbOf(d)'.handle # h
    BY <1>4, <1>7 DEF Matches
  <2> QED  BY <1>3, <1>6, <1>7, <2>1 DEF OneWork
<1>9. QueuedOpen'
  <2>1. Outstanding(h)' /\ Open(h)'
    BY <1>2, <1>4 DEF Outstanding, Open
  <2>2. \A d \in Queued : IsUrbWork(d)' =>
           /\ Open(UrbOf(d).handle)'
           /\ Canceled(d)' <=> ~Outstanding(UrbOf(d).handle)'
    BY <1>2, <1>7 DEF QueuedOpen, Open, Outstanding
  <2> QED  BY <1>3, <1>6, <2>1, <2>2 DEF QueuedOpen
<1>10. NoneCanceledTaken'
  BY <1>2, <1>7 DEF NoneCanceledTaken, Queued
<1>11. Notices'
  <2>1. \A d \in InboxNotices' : d \in InboxNotices /\ heap'[d] = heap[d]
    BY <1>1, <1>3 DEF InboxNotices, Same, Queued
  <2> QED  BY <1>2, <2>1 DEF Notices, NoticeTaken
<1>13. InHand' /\ InCancel' /\ Fresh' /\ GivenBackOnce'
  BY <1>2 DEF InHand, InCancel, Fresh, GivenBackOnce, GivebackOnce, BgAtUrb
<1> QED  BY <1>8, <1>9, <1>10, <1>11, <1>13

LEMMA HandleTypes ==
    ASSUME IInv
    PROVE  /\ \A c \in Queued :
                 IsUrbWork(c) => UrbOf(c).handle \in Handles /\ UrbOf(c).serial \in Serials
           /\ \A c \in InboxNotices : heap[c].handle \in Handles
           /\ pc \in BgAtUrb => wk.handle \in Handles /\ wk.serial \in Serials
           /\ pc = "cancel" => wk.handle \in Handles
<1>1. Queued \subseteq Cells /\ Range(inbox) \subseteq Cells
  BY PointerType DEF IInv, Pointer
<1>2. \A c \in InboxNotices : heap[c] \in CancelWorks
  BY <1>1, Kinds DEF IInv, TypeOK, InboxNotices
<1>3. \A c \in InboxNotices : heap[c].handle \in Handles
  BY <1>2 DEF CancelWorks
<1>4. \A c \in Queued :
         IsUrbWork(c) => UrbOf(c).handle \in Handles /\ UrbOf(c).serial \in Serials
  BY <1>1, UrbWorkType DEF IInv
<1> QED  BY <1>3, <1>4, Items DEF IInv, TypeOK, Control

(* A step of the kernel, or of bg_work with an urb that is in no queue: the*)
(* queues stay, and so does what the kernel knows of the urbs in them.     *)
LEMMA KernelStep ==
    ASSUME IInv, UrbInv, \A c \in Queued : Same(c),
           UNCHANGED <<inbox, processing, strays>>,
           \A c \in Queued : IsUrbWork(c) =>
               LET h == UrbOf(c).handle
               IN  /\ serial'[h] = serial[h]
                   /\ <<h, 1>> \in dropped' => <<h, 1>> \in dropped
                   /\ kstate'[h] = "idle" <=> kstate[h] = "idle",
           \A h \in Handles : NoticeTaken(h) => NoticeTaken(h)',
           pc' = "cancel" =>
               (pc = "cancel" /\ wk' = wk) \/ ~NoticeTaken(wk'.handle)
    PROVE  /\ OneWork' /\ QueuedOpen' /\ NoneCanceledTaken' /\ Notices'
           /\ GivenBackOnce'
<1>1. Queued' = Queued
  BY DEF Queued
<1>2. \A c \in Queued :
         /\ heap'[c] = heap[c] /\ (IsUrbWork(c)' <=> IsUrbWork(c))
         /\ IsUrbWork(c) => UrbOf(c)' = UrbOf(c)
         /\ Canceled(c)' <=> Canceled(c)
  BY SameView
<1>3. OneWork'
  BY <1>1, <1>2 DEF UrbInv, OneWork
<1>4. QueuedOpen'
  BY <1>1, <1>2 DEF UrbInv, QueuedOpen, Open, Outstanding
<1>5. NoneCanceledTaken'
  BY <1>2 DEF UrbInv, NoneCanceledTaken, Queued
<1>6. Notices'
  <2>1. InboxNotices' = InboxNotices
    BY <1>2 DEF InboxNotices, Queued
  <2>2. \A c \in InboxNotices : heap'[c] = heap[c]
    BY <1>2 DEF InboxNotices, Queued
  <2> QED  BY <2>1, <2>2, HandleTypes DEF UrbInv, Notices
<1>7. GivenBackOnce'
  BY DEF UrbInv, GivenBackOnce, GivebackOnce
<1> QED  BY <1>3, <1>4, <1>5, <1>6, <1>7

LEMMA FetchUrbInv ==
    ASSUME MaxSubmit = 1, IInv, UrbInv, NEW h \in Handles, NEW k \in UrbInputs,
           FetchUrb(h, k)
    PROVE  UrbInv'
<1> USE DEF UrbInv
<1>1. /\ kstate[h] = "idle" /\ serial[h] = 0 /\ <<h, 1>> \notin dropped
      /\ kstate' = [kstate EXCEPT ![h] = "fetched"]
      /\ serial' = [serial EXCEPT ![h] = 1]
      /\ UNCHANGED <<heap, inbox, processing, strays, life, u>>
      /\ pc = "fetch" /\ u = Null
  <2>1. serial[h] \in Nat /\ serial[h] < 1
    BY DEF IInv, TypeOK, FetchUrb
  <2>2. serial[h] = 0 /\ serial[h] + 1 = 1
    BY <2>1
  <2>3. serial' = [serial EXCEPT ![h] = 1] /\ u = Null
    BY <2>2 DEF FetchUrb, IInv, Control
  <2> QED  BY <2>2, <2>3 DEF FetchUrb, Fresh
<1>2. /\ kstate'[h] = "fetched" /\ serial'[h] = 1
      /\ \A g \in Handles : g # h => kstate'[g] = kstate[g] /\ serial'[g] = serial[g]
  BY <1>1 DEF IInv, TypeOK
<1>3. \/ /\ pc' = "alloc" /\ wk'.handle = h /\ wk'.serial = 1 /\ dropped' = dropped
      \/ pc' = "loop" /\ dropped' = dropped \cup {<<h, 1>>}
  BY <1>2 DEF FetchUrb
<1>4. \A c \in Queued : IsUrbWork(c) => UrbOf(c).handle # h
  BY <1>1 DEF QueuedOpen, Open
<1>5. /\ OneWork' /\ QueuedOpen' /\ NoneCanceledTaken' /\ Notices'
      /\ GivenBackOnce'
  <2>1. \A g \in Handles : NoticeTaken(g) => NoticeTaken(g)'
    BY <1>1, <1>2 DEF NoticeTaken
  <2>2. \A c \in Queued : Same(c)
    BY <1>1 DEF Same
  <2> QED  BY <1>1, <1>2, <1>3, <1>4, <2>1, <2>2, HandleTypes, KernelStep
<1>6. InHand'
  <2>1. ASSUME pc' = "alloc"
        PROVE  \A c \in Queued' : ~Matches(c, h)'
    BY <1>1, <1>4 DEF Matches, IsUrbWork, UrbOf, Queued
  <2> QED  BY <1>1, <1>2, <1>3, <2>1 DEF InHand, BgAtUrb, Open
<1>7. InCancel'
  BY <1>3 DEF InCancel
<1>8. Fresh'
  BY <1>1, <1>2, <1>3 DEF Fresh
<1> QED  BY <1>5, <1>6, <1>7, <1>8

LEMMA UnlinkInv ==
    ASSUME MaxSubmit = 1, IInv, UrbInv, NEW h \in Handles, Unlink(h) \/ FetchCancel(h)
    PROVE  UrbInv'
<1> USE DEF UrbInv
<1>1. /\ kstate[h] \in {"fetched", "unlinked"}
      /\ kstate'[h] \in {"unlinked", "canceling"}
      /\ \A g \in Handles : g # h => kstate'[g] = kstate[g]
      /\ UNCHANGED <<heap, inbox, processing, serial, strays, dropped, life, u>>
  BY DEF IInv, TypeOK, Unlink, FetchCancel
<1>2. \/ UNCHANGED <<pc, wk>> /\ kstate'[h] = "unlinked"
      \/ /\ pc = "fetch" /\ pc' = "cancel" /\ wk'.handle = h
         /\ kstate'[h] = "canceling"
  BY DEF IInv, TypeOK, Unlink, FetchCancel
<1>3. \A g \in Handles : NoticeTaken(g) => NoticeTaken(g)' /\ g # h
  BY <1>1 DEF NoticeTaken
<1>4. /\ OneWork' /\ QueuedOpen' /\ NoneCanceledTaken' /\ Notices'
      /\ GivenBackOnce'
  <2>1. \A c \in Queued : Same(c)
    BY <1>1 DEF Same
  <2>2. \A g \in Handles : kstate'[g] = "idle" <=> kstate[g] = "idle"
    BY <1>1
  <2> QED  BY <1>1, <1>2, <1>3, <2>1, <2>2, HandleTypes, KernelStep
<1>5. \A c \in Queued' : c \in Queued /\ (Canceled(c)' <=> Canceled(c))
         /\ \A g : Matches(c, g)' <=> Matches(c, g)
  BY <1>1 DEF Queued, Canceled, Matches, IsUrbWork, UrbOf
<1>6. InHand'
  BY <1>1, <1>2, <1>5, HandleTypes DEF InHand, BgAtUrb, Open, Matches
<1>7. InCancel'
  <2>1. CASE UNCHANGED <<pc, wk>>
    BY <1>3, <1>5, <2>1, HandleTypes DEF InCancel, NoticeTaken, Matches
  <2>2. CASE pc' = "cancel" /\ wk'.handle = h /\ kstate'[h] = "canceling"
    <3>1. serial[h] # 0
      BY <1>1 DEF Fresh
    <3>2. serial'[h] = 1
      BY <1>1, <3>1 DEF IInv, TypeOK
    <3>3. \A c \in Queued' : Matches(c, h)' => ~Canceled(c)'
      BY <1>1, <1>5 DEF QueuedOpen, Outstanding, Matches
    <3> QED  BY <2>2, <3>2, <3>3 DEF InCancel, NoticeTaken, Matches
  <2> QED  BY <1>2, <2>1, <2>2
<1>8. Fresh'
  BY <1>1 DEF Fresh
<1> QED  BY <1>4, <1>6, <1>7, <1>8

(* bg_work lets go of the urb it has in hand: the kernel has completed it, *)
(* or refuses its data, or no port has its address.                        *)
LEMMA LetGoInv ==
    ASSUME MaxSubmit = 1, IInv, UrbInv, FetchDataFails \/ RouteNowhere
    PROVE  UrbInv'
<1> USE DEF UrbInv
<1>0. PICK h : h = wk.handle
  OBVIOUS
<1>1. /\ h \in Handles /\ wk.serial = 1 /\ serial[h] = 1
      /\ kstate[h] \in {"fetched", "unlinked"} /\ <<h, 1>> \notin dropped
      /\ \A c \in Queued : ~Matches(c, h)
      /\ UNCHANGED <<inbox, processing, serial, strays, life, wk>> /\ pc' = "loop"
  BY <1>0, HandleTypes
  DEF Serials, InHand, Open, BgAtUrb, FetchDataFails, RouteNowhere
<1>2. \/ /\ kstate'[h] = "idle" /\ \A g \in Handles : g # h => kstate'[g] = kstate[g]
         /\ dropped' = dropped
      \/ kstate' = kstate /\ dropped' = dropped \cup {<<h, 1>>}
  BY <1>0, <1>1
  DEF IInv, TypeOK, FetchDataFails, DataCanceled, DataRefused, RouteNowhere
<1>3. \A c \in Queued : IsUrbWork(c) => UrbOf(c).handle # h
  BY <1>1 DEF Matches
<1>4. \A g \in Handles : NoticeTaken(g) => NoticeTaken(g)'
  BY <1>1, <1>2 DEF NoticeTaken
<1>5. /\ OneWork' /\ QueuedOpen' /\ NoneCanceledTaken' /\ Notices'
      /\ GivenBackOnce'
  <2>1. \A c \in Queued : Same(c)
    BY BuildSame
  <2> QED  BY <1>1, <1>2, <1>3, <1>4, <2>1, HandleTypes, KernelStep
<1>6. InHand' /\ InCancel'
  BY <1>1 DEF InHand, InCancel, BgAtUrb
<1>7. Fresh'
  BY <1>1, <1>2 DEF Fresh
<1> QED  BY <1>5, <1>6, <1>7

(* A giveback of an urb the kernel waits for.                              *)
LEMMA GivebackFacts ==
    ASSUME MaxSubmit = 1, IInv, UrbInv, NEW c \in Queued, IsUrbWork(c), ~Canceled(c),
           NEW h, h = UrbOf(c).handle, Giveback(UrbOf(c))
    PROVE  /\ h \in Handles /\ Outstanding(h) /\ serial[h] = 1
           /\ kstate'[h] = "idle"
           /\ \A g \in Handles : g # h => kstate'[g] = kstate[g]
           /\ strays' = strays
<1>1. h \in Handles /\ UrbOf(c).serial = 1
  BY HandleTypes DEF Serials
<1>2. Outstanding(h) /\ serial[h] = 1
  BY DEF UrbInv, QueuedOpen, Open
<1> QED  BY <1>1, <1>2 DEF Giveback, IInv, TypeOK

(* A cancel finds the work in the inbox: for bg_work it is not yet marked. *)
LEMMA CancelQueuedFacts ==
    ASSUME MaxSubmit = 1, IInv, UrbInv, NEW h, CancelQueued(h)
    PROVE  \E c \in Range(inbox) :
              /\ Matches(c, h) /\ c \notin processing
              /\ h \in Handles /\ serial[h] = 1 /\ kstate'[h] = "idle"
              /\ \A g \in Handles : g # h => kstate'[g] = kstate[g]
              /\ ~UserCancels /\ pc = "cancel" /\ h = wk.handle =>
                    ~Canceled(c) /\ Outstanding(h) /\ strays' = strays
              /\ inbox' = inbox
              /\ IsUrbWork(c)' /\ Canceled(c)' /\ UrbOf(c)' = UrbOf(c)
              /\ \A d \in Queued : d # c => Same(d)
<1> USE DEF IInv
<1>1. PICK i \in DOMAIN inbox :
         /\ FirstMatch(i, h)
         /\ heap' = [heap EXCEPT ![inbox[i]].canceled = TRUE]
         /\ Giveback(UrbOf(inbox[i])) /\ UNCHANGED inbox
  BY DEF CancelQueued
<1>2. PICK c : c = inbox[i]
  OBVIOUS
<1>3. /\ c \in Range(inbox) /\ c \in Queued /\ c \notin processing /\ c \in Cells
      /\ Matches(c, h)
  BY <1>1, <1>2, PointerType
  DEF Range, Queued, Ownership, QueuesDisjoint, FirstMatch, InboxMatches
<1>5. /\ heap[c] \in UrbWorks /\ heap[c].urb \in Cells /\ heap[heap[c].urb].kind = "urb"
      /\ heap[c].kind = "process"
  BY <1>3, UrbWorkType DEF Matches, UrbObjs, UrbOf, IsUrbWork
<1>6. /\ heap'[c].kind = "process" /\ heap'[c].canceled /\ heap'[c].urb = heap[c].urb
      /\ \A d \in Cells : d # c => heap'[d] = heap[d]
  BY <1>1, <1>2, <1>3, <1>5 DEF TypeOK, UrbWorks
<1>7. IsUrbWork(c)' /\ Canceled(c)' /\ UrbOf(c)' = UrbOf(c)
  BY <1>5, <1>6 DEF IsUrbWork, Canceled, UrbOf
<1>8. ASSUME NEW d \in Queued, d # c
      PROVE  Same(d)
  <2>1. d \in Cells
    BY PointerType DEF Pointer
  <2>2. IsUrbWork(d) => heap[d].urb \in Cells /\ heap[d].urb # c
    BY <1>5, <2>1, UrbWorkType, NotAnUrb
  <2> QED  BY <1>6, <1>8, <2>1, <2>2 DEF Same
<1>9. IsUrbWork(c) /\ UrbOf(c).handle = h /\ Giveback(UrbOf(c))
  BY <1>1, <1>2, <1>3 DEF Matches
<1>10. /\ h \in Handles /\ serial[h] = 1 /\ kstate'[h] = "idle"
       /\ \A g \in Handles : g # h => kstate'[g] = kstate[g]
  <2>1. h \in Handles /\ serial[h] = 1
    BY <1>3, <1>9, HandleTypes DEF UrbInv, QueuedOpen, Open
  <2> QED  BY <1>9, <2>1 DEF Giveback, TypeOK
<1>11. ASSUME ~UserCancels, pc = "cancel", h = wk.handle
       PROVE  ~Canceled(c) /\ Outstanding(h) /\ strays' = strays
  <2>1. ~Canceled(c)
    BY <1>3, <1>11 DEF UrbInv, InCancel
  <2> QED  BY <1>3, <1>9, <2>1, GivebackFacts
<1> QED  BY <1>1, <1>3, <1>7, <1>8, <1>10, <1>11

LEMMA CancelQueuedInv ==
    ASSUME MaxSubmit = 1, IInv, UrbInv, NEW h, CancelQueued(h),
           (BgCancel /\ h = wk.handle) \/ UserCancel(h)
    PROVE  UrbInv'
<1> USE DEF UrbInv
<1>1. /\ UNCHANGED <<processing, serial, dropped, life>>
      /\ \/ pc = "cancel" /\ pc' = "loop" /\ h = wk.handle
         \/ UserCancels /\ UNCHANGED bgVars
  BY DEF BgCancel, UserCancel
<1>2. PICK c \in Range(inbox) :
         /\ Matches(c, h) /\ c \notin processing
         /\ h \in Handles /\ serial[h] = 1 /\ kstate'[h] = "idle"
         /\ \A g \in Handles : g # h => kstate'[g] = kstate[g]
         /\ ~UserCancels => strays' = strays
         /\ inbox' = inbox
         /\ IsUrbWork(c)' /\ Canceled(c)' /\ UrbOf(c)' = UrbOf(c)
         /\ \A d \in Queued : d # c => Same(d)
  BY <1>1, CancelQueuedFacts
<1>3. /\ Queued' = Queued /\ c \in Queued
      /\ \A d \in Queued : /\ IsUrbWork(d)' <=> IsUrbWork(d)
                           /\ IsUrbWork(d) => UrbOf(d)' = UrbOf(d)
                           /\ d # c => /\ Canceled(d)' <=> Canceled(d)
                                       /\ heap'[d] = heap[d]
  BY <1>1, <1>2, SameView DEF Queued, Matches
<1>4. OneWork'
  BY <1>3 DEF OneWork
<1>5. \A d \in Queued : IsUrbWork(d) /\ d # c => UrbOf(d).handle # h
  BY <1>2, <1>3 DEF OneWork, Matches
<1>6. QueuedOpen'
  <2>1. ASSUME NEW d \in Queued, IsUrbWork(d), d # c
        PROVE  Open(UrbOf(d).handle)' /\ (Canceled(d)' <=> ~Outstanding(UrbOf(d).handle)')
    <3>1. UrbOf(d)' = UrbOf(d) /\ UrbOf(d).handle \in Handles /\ UrbOf(d).handle # h
      BY <1>3, <1>5, <2>1, HandleTypes
    <3> QED  BY <1>1, <1>2, <1>3, <2>1, <3>1 DEF QueuedOpen, Open, Outstanding
  <2>2. Open(UrbOf(c).handle)' /\ ~Outstanding(UrbOf(c).handle)'
    BY <1>1, <1>2, <1>3 DEF QueuedOpen, Open, Outstanding, Matches
  <2> QED  BY <1>2, <1>3, <2>1, <2>2 DEF QueuedOpen
<1>7. NoneCanceledTaken'
  BY <1>1, <1>2, <1>3 DEF NoneCanceledTaken, Queued
<1>8. Notices'
  <2>1. \A d \in InboxNotices' : d \in InboxNotices /\ heap'[d] = heap[d]
    BY <1>2, <1>3 DEF InboxNotices, Queued, IsUrbWork
  <2>2. \A g \in Handles : NoticeTaken(g) => NoticeTaken(g)'
    BY <1>1, <1>2 DEF NoticeTaken
  <2> QED  BY <1>1, <2>1, <2>2, HandleTypes DEF Notices
<1>9. InHand'
  <2>1. \A d \in Queued : \A g : Matches(d, g)' <=> Matches(d, g)
    BY <1>3 DEF Matches
  <2>2. pc \in BgAtUrb => wk.handle # h /\ wk.handle \in Handles
    BY <1>2, <1>3, HandleTypes DEF InHand
  <2> QED  BY <1>1, <1>2, <1>3, <2>1, <2>2 DEF InHand, Open, BgAtUrb
<1>10. InCancel' /\ GivenBackOnce'
  BY <1>1, <1>2 DEF InCancel, GivenBackOnce, GivebackOnce
<1>11. Fresh'
  BY <1>1, <1>2 DEF Fresh
<1> QED  BY <1>4, <1>6, <1>7, <1>8, <1>9, <1>10, <1>11

(* The cancel finds the work in progress, and tells its user.              *)
LEMMA NotifyFacts ==
    ASSUME IInv, NEW h, CancelInProgress(h), processing' = processing
    PROVE  /\ \A d \in Queued : Same(d)
           /\ \E c \in Cells : /\ c \notin Queued
                             /\ heap'[c].kind = "cancel" /\ heap'[c].handle = h
                             /\ Range(inbox)' = Range(inbox) \cup {c}
                             /\ Queued' = Queued \cup {c}
<1> USE DEF IInv
<1>1. PICK c \in Cells : c = NewCell /\ heap[c] = Free
  BY NewCellFree DEF CancelInProgress
<1>2. heap'[c].kind = "cancel" /\ heap'[c].handle = h
      /\ \A d \in Cells : d # c => heap'[d] = heap[d]
  BY <1>1 DEF CancelInProgress, TypeOK
<1>3. c \notin Queued /\ heap[c].kind # "urb"
  BY <1>1 DEF Free, Ownership, WorksLive, Pointer
<1>4. \A d \in Queued : Same(d)
  BY <1>2, <1>3, NotAnUrb, WriteSame
<1>5. Range(inbox)' = Range(inbox) \cup {c}
  BY <1>1, <1>3, AppendKeeps DEF CancelInProgress
<1>6. Queued' = Queued \cup {c}
  BY <1>5 DEF Queued
<1> QED  BY <1>2, <1>3, <1>4, <1>5, <1>6

LEMMA NotifyInv ==
    ASSUME IInv, UrbInv, NEW h, CancelInProgress(h),
           (BgCancel /\ h = wk.handle) \/ UserCancel(h)
    PROVE  UrbInv'
<1> USE DEF UrbInv
<1>1. /\ UNCHANGED <<processing, kstate, serial, dropped, strays, life>>
      /\ \/ pc = "cancel" /\ pc' = "loop" /\ h = wk.handle
         \/ UserCancels /\ UNCHANGED bgVars
  BY DEF BgCancel, UserCancel, CancelInProgress
<1>2. PICK c \in Cells :
         /\ c \notin Queued /\ heap'[c].kind = "cancel" /\ heap'[c].handle = h
         /\ Range(inbox)' = Range(inbox) \cup {c} /\ Queued' = Queued \cup {c}
         /\ \A d \in Queued : Same(d)
  BY <1>1, NotifyFacts
<1>3. /\ ~IsUrbWork(c)'
      /\ \A d \in Queued : /\ IsUrbWork(d)' <=> IsUrbWork(d)
                           /\ IsUrbWork(d) => UrbOf(d)' = UrbOf(d)
                           /\ Canceled(d)' <=> Canceled(d)
                           /\ heap'[d] = heap[d]
  BY <1>2, SameView DEF IsUrbWork
<1>4. OneWork'
  BY <1>2, <1>3 DEF OneWork
<1>5. QueuedOpen'
  BY <1>1, <1>2, <1>3 DEF QueuedOpen, Open, Outstanding
<1>6. NoneCanceledTaken'
  BY <1>1, <1>3 DEF NoneCanceledTaken, Queued
<1>7. Notices'
  <2>1. \A d \in InboxNotices' : d = c \/ (d \in InboxNotices /\ heap'[d] = heap[d])
    BY <1>2, <1>3 DEF InboxNotices, Queued
  <2>2. ~UserCancels => \A d \in InboxNotices : heap[d].handle # h
    BY <1>1 DEF Notices
  <2>3. ~UserCancels => NoticeTaken(h)
    BY <1>1 DEF InCancel
  <2> QED  BY <1>1, <1>2, <2>1, <2>2, <2>3 DEF Notices, NoticeTaken
<1>8. InHand'
  <2>1. \A d \in Queued' : \A g : Matches(d, g)' =>
           d \in Queued /\ Matches(d, g)
    BY <1>2, <1>3 DEF Matches
  <2> QED  BY <1>1, <2>1 DEF InHand, Open, BgAtUrb
<1>9. InCancel' /\ Fresh' /\ GivenBackOnce'
  BY <1>1 DEF InCancel, Fresh, GivenBackOnce, GivebackOnce
<1> QED  BY <1>4, <1>5, <1>6, <1>7, <1>8, <1>9

(* A user finishes an urb.                                                 *)
LEMMA FinishFacts ==
    ASSUME MaxSubmit = 1, IInv, UrbInv, NEW c \in Cells, FinishWork(c), IsUrbWork(c),
           NEW h, h = UrbOf(c).handle
    PROVE  /\ c \in processing /\ ~Canceled(c) /\ Matches(c, h)
           /\ h \in Handles /\ Outstanding(h) /\ serial[h] = 1
           /\ kstate'[h] = "idle"
           /\ \A g \in Handles : g # h => kstate'[g] = kstate[g]
           /\ UNCHANGED <<inbox, strays>> /\ processing' = processing \ {c}
           /\ Queued' = Queued \ {c} /\ c \notin Range(inbox)
           /\ \A d \in Queued : d # c => Same(d) /\ ~Matches(d, h)
<1> USE DEF IInv
<1>1. c \in processing /\ c \in Queued /\ ~Canceled(c) /\ Matches(c, h)
  BY DEF FinishWork, UrbInv, NoneCanceledTaken, Queued, Matches
<1>2. /\ h \in Handles /\ Outstanding(h) /\ serial[h] = 1 /\ kstate'[h] = "idle"
      /\ \A g \in Handles : g # h => kstate'[g] = kstate[g]
      /\ strays' = strays
  BY <1>1, GivebackFacts DEF FinishWork
<1>3. /\ inbox' = inbox /\ processing' = processing \ {c} /\ c \notin Range(inbox)
      /\ Queued' = Queued \ {c}
  BY <1>1 DEF FinishWork, Queued, Ownership, QueuesDisjoint
<1>4. {c} \in SUBSET Pointer /\ \A d \in Queued : d # c => d \in Pointer \ {c}
  BY <1>1 DEF Pointer
<1>5. \A d \in Queued : d # c => Same(d)
  BY <1>4, DeleteSame DEF FinishWork
<1>6. \A d \in Queued : d # c => ~Matches(d, h)
  BY <1>1 DEF UrbInv, OneWork, Matches
<1> QED  BY <1>1, <1>2, <1>3, <1>5, <1>6

LEMMA FinishInv ==
    ASSUME MaxSubmit = 1, IInv, UrbInv, NEW c \in Cells, FinishWork(c), IsUrbWork(c)
    PROVE  UrbInv'
<1> USE DEF UrbInv
<1>1. PICK h : h = UrbOf(c).handle
  OBVIOUS
<1>2. /\ c \in processing /\ Matches(c, h) /\ c \notin Range(inbox)
      /\ h \in Handles /\ serial[h] = 1 /\ kstate'[h] = "idle"
      /\ \A g \in Handles : g # h => kstate'[g] = kstate[g]
      /\ UNCHANGED <<inbox, strays>> /\ processing' = processing \ {c}
      /\ Queued' = Queued \ {c}
  BY <1>1, FinishFacts
<1>3. \A d \in Queued : d # c => Same(d) /\ ~Matches(d, h)
  BY <1>1, FinishFacts
<1>4. UNCHANGED <<bgVars, serial, dropped, life>>
  BY DEF FinishWork
<1>5. \A d \in Queued' :
         /\ d \in Queued /\ d # c /\ (IsUrbWork(d)' <=> IsUrbWork(d))
         /\ IsUrbWork(d) => UrbOf(d)' = UrbOf(d)
         /\ Canceled(d)' <=> Canceled(d)
         /\ heap'[d] = heap[d]
  BY <1>2, <1>3, SameView
<1>6. OneWork'
  BY <1>5 DEF OneWork
<1>7. QueuedOpen'
  <2>1. ASSUME NEW d \in Queued', IsUrbWork(d)
        PROVE  Open(UrbOf(d).handle)' /\ (Canceled(d)' <=> ~Outstanding(UrbOf(d).handle)')
    <3>1. UrbOf(d)' = UrbOf(d) /\ UrbOf(d).handle \in Handles /\ UrbOf(d).handle # h
      BY <1>3, <1>5, <2>1, HandleTypes DEF Matches
    <3> QED  BY <1>2, <1>4, <1>5, <2>1, <3>1 DEF QueuedOpen, Open, Outstanding
  <2> QED  BY <1>5, <2>1 DEF QueuedOpen
<1>8. NoneCanceledTaken'
  BY <1>2, <1>5 DEF NoneCanceledTaken, Queued
<1>9. \A g \in Handles : NoticeTaken(g) => NoticeTaken(g)'
  BY <1>2, <1>4 DEF NoticeTaken
<1>10. Notices'
  <2>1. \A d \in InboxNotices' : d \in InboxNotices /\ heap'[d] = heap[d]
    BY <1>2, <1>5 DEF InboxNotices, Queued
  <2> QED  BY <1>4, <1>9, <2>1, HandleTypes DEF Notices
<1>11. \A d \in Queued' : \A g : Matches(d, g)' <=> Matches(d, g)
  BY <1>5 DEF Matches
<1>12. InHand'
  <2>1. pc \in BgAtUrb => wk.handle \in Handles /\ wk.handle # h
    BY <1>2, HandleTypes DEF InHand, Queued
  <2> QED  BY <1>2, <1>4, <1>5, <1>11, <2>1 DEF InHand, Open, Matches
<1>13. InCancel'
  BY <1>4, <1>5, <1>9, <1>11, HandleTypes DEF InCancel, NoticeTaken, Matches
<1>14. Fresh' /\ GivenBackOnce'
  BY <1>2, <1>4 DEF Fresh, GivenBackOnce, GivebackOnce
<1> QED  BY <1>6, <1>7, <1>8, <1>10, <1>12, <1>13, <1>14

LEMMA DestroyInv ==
    ASSUME UrbInv, Destroy
    PROVE  UrbInv'
<1> USE DEF UrbInv
<1>1. /\ Queued' = {} /\ Range(inbox)' = {} /\ processing' = {} /\ pc' = "exited"
      /\ UNCHANGED <<serial, strays, dropped>> /\ life' = "destroyed"
      /\ \A h \in Handles : kstate'[h] = "idle"
  BY DEF Destroy, Queued, Range
<1>2. InboxNotices' = {}
  BY <1>1 DEF InboxNotices
<1>3. OneWork' /\ QueuedOpen' /\ NoneCanceledTaken' /\ Notices'
  BY <1>1, <1>2 DEF OneWork, QueuedOpen, NoneCanceledTaken, Notices
<1>4. InHand' /\ InCancel' /\ Fresh' /\ GivenBackOnce'
  BY <1>1 DEF InHand, InCancel, Fresh, GivenBackOnce, GivebackOnce, BgAtUrb
<1> QED  BY <1>3, <1>4

-----------------------------------------------------------------------------
(* The invariant, and the properties it implies.                           *)

LEMMA UrbInit ==
    ASSUME Init
    PROVE  UrbInv
<1>1. Queued = {} /\ InboxNotices = {} /\ processing = {}
  BY DEF Init, Queued, InboxNotices, Range
<1>2. OneWork /\ QueuedOpen /\ NoneCanceledTaken /\ Notices
  BY <1>1 DEF OneWork, QueuedOpen, NoneCanceledTaken, Notices
<1>3. InHand /\ InCancel /\ Fresh /\ GivenBackOnce
  BY DEF Init, InHand, InCancel, Fresh, GivenBackOnce, GivebackOnce, BgAtUrb
<1> QED  BY <1>2, <1>3 DEF UrbInv

LEMMA UrbInvStep ==
    ASSUME MaxSubmit = 1, IInv, Built, UrbInv, [Next]_vars
    PROVE  UrbInv'
<1>1. CASE StatStep
  BY <1>1, StatSteady, SteadyInv
<1>2. CASE UrbStep
  BY <1>2, BuildSteady, SteadyInv, RouteEnqueueInv, LetGoInv DEF UrbStep
<1>3. CASE BgCancel
  BY <1>3, CancelQueuedInv, NotifyInv, IdleSteady, SteadyInv DEF BgCancel
<1>4. CASE \/ Loop \/ FetchNothing \/ BgCancelThrows \/ BeginShutdown \/ Terminated
           \/ (\E r \in Reports : FetchStat(r)) \/ UNCHANGED vars
  BY <1>4, IdleSteady, SteadyInv
<1>5. CASE \E h \in Handles, k \in UrbInputs : FetchUrb(h, k)
  BY <1>5, FetchUrbInv
<1>6. CASE \E h \in Handles : FetchCancel(h) \/ Unlink(h)
  BY <1>6, UnlinkInv
<1>7. CASE NextWork \/ NextWorkNone
  BY <1>7, UserSteady, SteadyInv
<1>8. CASE \E c \in Cells : FinishWork(c)
  BY <1>8, UserSteady, SteadyInv, FinishInv
<1>9. CASE Destroy
  BY <1>9, DestroyInv
<1>10. CASE \E h \in Handles : UserCancel(h)
  BY <1>10, CancelQueuedInv, NotifyInv DEF UserCancel
<1> QED
  BY <1>1, <1>2, <1>3, <1>4, <1>5, <1>6, <1>7, <1>8, <1>9, <1>10
  DEF Next, BgStep, CancelStep

(* Every urb has one holder: bg_work, one work in the queues, or, at a     *)
(* shutdown, nobody; and the kernel waits for it as long as that work is   *)
(* not marked as canceled.                                                 *)
THEOREM UrbInvariant ==
    ASSUME MaxSubmit = 1
    PROVE  Spec => []UrbInv
<1>1. Init => UrbInv
  BY UrbInit
<1>2. IInv /\ Built /\ UrbInv /\ [Next]_vars => UrbInv'
  BY UrbInvStep
<1> QED  BY <1>1, <1>2, InductiveInvariant, BuiltInvariant, PTL DEF Spec

(* No urb is given back to a kernel that does not wait for it.             *)
THEOREM NeverGivenBackTwice ==
    ASSUME OncePerHandle
    PROVE  Spec => []GivebackOnce
<1>1. UrbInv => GivebackOnce
  BY DEF UrbInv, GivenBackOnce
<1> QED  BY <1>1, UrbInvariant, PTL

(* The kernel waits for every urb a user works on.                         *)
THEOREM UsersWorkOnOpenUrbs ==
    ASSUME MaxSubmit = 1
    PROVE  Spec => []InProgressOutstanding
<1>1. UrbInv => InProgressOutstanding
  BY DEF UrbInv, NoneCanceledTaken, QueuedOpen, Queued, InProgressOutstanding
<1> QED  BY <1>1, UrbInvariant, PTL

-----------------------------------------------------------------------------
(* No urb is lost, however often a handle is used and whoever cancels.     *)

(* At a shutdown bg_work may give up the urb in its hands.                 *)
Held(h) ==
    \/ HeldByBg(h) \/ HeldByQueue(h) \/ <<h, serial[h]>> \in dropped
    \/ life # "running" /\ pc \in {"loop", "exited"}

AllHeld == \A h \in Handles : Outstanding(h) => Held(h)

LEMMA StillQueued ==
    ASSUME NEW h, HeldByQueue(h), serial'[h] = serial[h],
           \A c \in Queued :
               Matches(c, h) /\ ~Canceled(c) => c \in Queued' /\ Same(c)
    PROVE  HeldByQueue(h)'
<1>1. PICK c \in Queued :
         Matches(c, h) /\ UrbOf(c).serial = serial[h] /\ ~Canceled(c)
  BY DEF HeldByQueue
<1>2. c \in Queued' /\ Same(c)
  BY <1>1
<1>3. Matches(c, h)' /\ ~Canceled(c)' /\ UrbOf(c)'.serial = serial'[h]
  BY <1>1, <1>2, SameView DEF Matches
<1> QED  BY <1>2, <1>3 DEF HeldByQueue

(* A work that is marked by a cancel is given back in the same step, as is *)
(* one that is finished.                                                   *)
LEMMA CancelSpares ==
    ASSUME IInv, NEW h, CancelQueued(h) \/ CancelInProgress(h) \/ CancelUnknown(h),
           processing' = processing,
           NEW c \in Queued, IsUrbWork(c), kstate'[UrbOf(c).handle] # "idle"
    PROVE  c \in Queued' /\ Same(c)
<1> USE DEF IInv
<1>1. c \in Cells /\ heap[c].urb \in Cells /\ heap[heap[c].urb].kind = "urb"
      /\ UrbOf(c).handle \in Handles
  BY PointerType, UrbWorkType, HandleTypes DEF Pointer, UrbObjs, UrbOf
<1>2. CASE CancelQueued(h)
  <2>1. PICK i \in DOMAIN inbox :
           /\ FirstMatch(i, h)
           /\ heap' = [heap EXCEPT ![inbox[i]].canceled = TRUE]
           /\ Giveback(UrbOf(inbox[i])) /\ UNCHANGED inbox
    BY <1>2 DEF CancelQueued
  <2>2. c # inbox[i]
    BY <1>1, <2>1 DEF Giveback, TypeOK
  <2>3. heap[c].urb # inbox[i]
    BY <1>1, <2>1 DEF FirstMatch, InboxMatches, Matches, IsUrbWork
  <2> QED  BY <1>1, <2>1, <2>2, <2>3 DEF TypeOK, Same, Queued
<1>3. CASE CancelInProgress(h)
  <2>1. NewCell \in Cells /\ heap[NewCell] = Free
        /\ \A d \in Cells : d # NewCell => heap'[d] = heap[d]
    BY <1>3, NewCellFree DEF CancelInProgress, TypeOK
  <2>2. NewCell \notin Queued
    BY <2>1 DEF Free, Ownership, WorksLive, Pointer
  <2>3. c \in Queued'
    BY <1>3, <2>1, <2>2, AppendKeeps DEF CancelInProgress, Queued
  <2> QED  BY <1>1, <2>1, <2>3 DEF Free, Same, IsUrbWork
<1>4. CASE CancelUnknown(h)
  BY <1>4 DEF CancelUnknown, Same, Queued
<1> QED  BY <1>2, <1>3, <1>4

LEMMA FinishSpares ==
    ASSUME IInv, NEW w \in Cells, FinishWork(w),
           NEW c \in Queued, IsUrbWork(c), kstate'[UrbOf(c).handle] # "idle"
    PROVE  c \in Queued' /\ Same(c)
<1> USE DEF IInv
<1>1. w # c
  BY HandleTypes DEF FinishWork, Giveback, TypeOK
<1>2. {w} \in SUBSET Pointer /\ c \in Pointer \ {w}
  BY <1>1 DEF FinishWork, Pointer, Queued
<1> QED  BY <1>1, <1>2, DeleteSame DEF FinishWork, Queued

(* Hence the works the kernel waits for stay in the queues.                *)
LEMMA QueuesSpare ==
    ASSUME IInv, [Next]_vars,
           NEW c \in Queued, IsUrbWork(c), ~Canceled(c), kstate'[UrbOf(c).handle] # "idle"
    PROVE  c \in Queued' /\ Same(c)
<1> USE DEF IInv
<1>1. CASE \E d \in Cells : StatEnqueueFails(d) \/ StatEnqueue(d)
  <2>1. PICK d \in Cells : StatEnqueueFails(d) \/ StatEnqueue(d)
    BY <1>1
  <2>2. Same(c) /\ d \notin Queued
    BY <2>1, StatSame
  <2> QED  BY <2>1, <2>2, AppendKeeps DEF StatEnqueueFails, StatEnqueue, Queued
<1>2. CASE \E d \in Cells : RouteEnqueueFails(d) \/ RouteEnqueue(d)
  <2>1. PICK d \in Cells : RouteEnqueueFails(d) \/ RouteEnqueue(d)
    BY <1>2
  <2>2. Same(c) /\ d \notin Queued
    BY <2>1, RouteSame
  <2> QED  BY <2>1, <2>2, AppendKeeps DEF RouteEnqueueFails, RouteEnqueue, Queued
<1>3. CASE \/ \E d \in Cells : Alloc(d)
           \/ AllocGivesUp \/ FetchData \/ FetchDataFails
           \/ RouteNowhere \/ RouteAllocFails
           \/ Retry("statWait", "stat") \/ Retry("routeWait", "alloc")
  <2>1. Same(c)
    BY <1>3, BuildSame
  <2> QED
    BY <1>3, <2>1 DEF Alloc, AllocGivesUp, FetchData, FetchDataFails, RouteNowhere,
                      RouteAllocFails, Retry, Queued
<1>4. CASE BgCancel \/ \E h \in Handles : UserCancel(h)
  BY <1>4, CancelSpares DEF BgCancel, UserCancel
<1>5. CASE NextWork
  BY <1>5, NextWorkFacts DEF Queued
<1>6. CASE NextWorkNone
  <2>1. c \notin Range(inbox) /\ Range(inbox) \in SUBSET Pointer
    BY <1>6 DEF NextWorkNone, Range, Pointer, Queued
  <2> QED  BY <1>6, <2>1, DeleteSame DEF NextWorkNone, Queued, Pointer
<1>7. CASE \E w \in Cells : FinishWork(w)
  BY <1>7, FinishSpares
<1>8. ~Destroy
  BY HandleTypes DEF Destroy
<1>9. CASE \/ Loop \/ FetchNothing \/ StatAllocFails \/ AllocThrows \/ BgCancelThrows
           \/ (\E r \in Reports : FetchStat(r))
           \/ (\E h \in Handles, k \in UrbInputs : FetchUrb(h, k))
           \/ (\E h \in Handles : FetchCancel(h) \/ Unlink(h))
           \/ BeginShutdown \/ Terminated \/ UNCHANGED vars
  <2>1. UNCHANGED <<heap, inbox, processing>>
    BY <1>9 DEF Loop, FetchNothing, StatAllocFails, AllocThrows, BgCancelThrows,
                FetchStat, FetchUrb, FetchCancel, Unlink, BeginShutdown, Terminated,
                vars
  <2> QED  BY <2>1 DEF Same, Queued
<1> QED
  BY <1>1, <1>2, <1>3, <1>4, <1>5, <1>6, <1>7, <1>8, <1>9
  DEF Next, BgStep, StatStep, UrbStep, CancelStep

(* bg_work queues the urb it has in hand, unless the kernel completes it or*)
(* refuses its data, no port has its address or the controller is being    *)
(* destroyed.                                                              *)
LEMMA BgSpares ==
    ASSUME IInv, Built, [Next]_vars, NEW h \in Handles, HeldByBg(h), Outstanding(h)'
    PROVE  Held(h)'
<1> USE DEF IInv
<1>1. pc \in BgAtUrb /\ wk.handle = h /\ wk.serial = serial[h]
  BY DEF HeldByBg
<1>2. CASE pc' \in BgAtUrb /\ wk' = wk /\ serial' = serial
  BY <1>1, <1>2 DEF HeldByBg, Held
<1>3. CASE \E c \in Cells : RouteEnqueue(c)
  <2>1. PICK c \in Cells : RouteEnqueue(c)
    BY <1>3
  <2>2. /\ c \notin Queued /\ heap'[c].kind = "process" /\ ~heap'[c].canceled
        /\ heap'[c].urb = u /\ u # Null /\ heap'[u] = heap[u]
    BY <2>1, RouteSame, CellsAssumption
  <2>3. c \in Queued'
    BY <2>1, <2>2, AppendKeeps DEF RouteEnqueue, Queued
  <2>4. /\ IsUrbWork(c)' /\ ~Canceled(c)' /\ UrbOf(c)'.handle = h
        /\ UrbOf(c)'.serial = serial[h] /\ serial' = serial
    BY <1>1, <2>1, <2>2 DEF IsUrbWork, Canceled, UrbOf, Built, RouteEnqueue
  <2>5. HeldByQueue(h)'
    BY <2>3, <2>4 DEF HeldByQueue, Matches
  <2> QED  BY <2>5 DEF Held
<1>4. CASE AllocGivesUp \/ Retry("routeWait", "alloc")
  BY <1>1, <1>2, <1>4 DEF AllocGivesUp, Retry, ThreadShutdown, Held, BgAtUrb
<1>5. CASE FetchDataFails
  <2>1. ~DataCanceled
    BY <1>1 DEF DataCanceled, TypeOK, Outstanding
  <2> QED  BY <1>1, <1>5, <2>1 DEF FetchDataFails, DataRefused, Held
<1>6. CASE RouteNowhere
  BY <1>1, <1>6 DEF RouteNowhere, Held
<1>7. CASE \/ \E c \in Cells : Alloc(c) \/ RouteEnqueueFails(c)
           \/ AllocThrows \/ FetchData \/ RouteAllocFails
  BY <1>1, <1>2, <1>7
  DEF Alloc, RouteEnqueueFails, AllocThrows, FetchData, RouteAllocFails, BgAtUrb
<1>8. CASE Drains \/ \E g \in Handles : UserCancel(g)
  BY <1>1, <1>2, <1>8
  DEF Drains, NextWork, NextWorkNone, Destroy, FinishWork, UserCancel
<1>9. CASE \/ (\E g \in Handles : Unlink(g)) \/ BeginShutdown
           \/ Terminated \/ UNCHANGED vars
  BY <1>1, <1>2, <1>9 DEF Unlink, BeginShutdown, Terminated, vars
<1>10. ~\/ Loop \/ FetchNothing \/ StatStep \/ CancelStep
        \/ (\E r \in Reports : FetchStat(r))
        \/ (\E g \in Handles, k \in UrbInputs : FetchUrb(g, k))
        \/ (\E g \in Handles : FetchCancel(g))
  BY <1>1 DEF BgAtUrb, Loop, FetchNothing, StatStep, StatAllocFails, StatEnqueueFails,
              StatEnqueue, Retry, CancelStep, BgCancel, BgCancelThrows, FetchStat,
              FetchUrb, FetchCancel
<1> QED
  BY <1>3, <1>4, <1>5, <1>6, <1>7, <1>8, <1>9, <1>10 DEF Next, BgStep, UrbStep, Drains

(* What no step takes back: only fetch_work makes the kernel wait for an   *)
(* urb, and at a shutdown bg_work fetches no other.                        *)
LEMMA Lasts ==
    ASSUME IInv, [Next]_vars
    PROVE  /\ dropped \subseteq dropped'
           /\ \A h \in Handles :
                 \/ (\E k \in UrbInputs : FetchUrb(h, k))
                 \/ /\ Outstanding(h)' => Outstanding(h)
                    /\ serial'[h] = serial[h]
           /\ life # "running" /\ pc \in {"loop", "exited"} =>
                 life' # "running" /\ pc' \in {"loop", "exited"}
<1> USE DEF IInv, Outstanding
<1>1. ASSUME NEW g \in Handles, NEW k \in UrbInputs, FetchUrb(g, k)
      PROVE  /\ dropped \subseteq dropped' /\ pc = "fetch"
             /\ \A h \in Handles :
                   h # g => kstate'[h] = kstate[h] /\ serial'[h] = serial[h]
  BY <1>1 DEF FetchUrb, TypeOK
<1>2. CASE BgCancel \/ \E g \in Handles : UserCancel(g)
  <2>1. ASSUME NEW g, CancelQueued(g) \/ CancelInProgress(g) \/ CancelUnknown(g)
        PROVE  \A h \in Handles : Outstanding(h)' => Outstanding(h)
    BY <2>1 DEF CancelQueued, CancelInProgress, CancelUnknown, Giveback, TypeOK
  <2>2. \A h \in Handles : Outstanding(h)' => Outstanding(h)
    BY <1>2, <2>1 DEF BgCancel, UserCancel
  <2> QED  BY <1>2, <2>2 DEF BgCancel, UserCancel
<1>3. CASE Drains \/ FetchDataFails
  BY <1>3 DEF Drains, NextWork, NextWorkNone, Destroy, FinishWork, FetchDataFails,
              DataCanceled, DataRefused, Giveback, TypeOK
<1>4. CASE \E g \in Handles : FetchCancel(g) \/ Unlink(g)
  BY <1>4 DEF FetchCancel, Unlink, TypeOK
<1>5. CASE \/ Loop \/ FetchNothing \/ BgCancelThrows \/ BeginShutdown \/ Terminated
           \/ (\E r \in Reports : FetchStat(r)) \/ UNCHANGED vars
  BY <1>5 DEF Loop, FetchNothing, BgCancelThrows, BeginShutdown, Terminated, FetchStat,
              Alive, ThreadShutdown, vars
<1>6. CASE StatStep
  BY <1>6 DEF StatStep, StatAllocFails, StatEnqueueFails, StatEnqueue, Retry
<1>7. CASE UrbStep /\ ~FetchDataFails
  BY <1>7 DEF UrbStep, AllocGivesUp, AllocThrows, FetchData, RouteNowhere,
              RouteAllocFails, Alloc, RouteEnqueueFails, RouteEnqueue, Retry
<1> QED
  BY <1>1, <1>2, <1>3, <1>4, <1>5, <1>6, <1>7 DEF Next, BgStep, CancelStep, Drains

LEMMA HeldStep ==
    ASSUME IInv, Built, AllHeld, [Next]_vars
    PROVE  AllHeld'
<1> SUFFICES ASSUME NEW h \in Handles, Outstanding(h)'
             PROVE  Held(h)'
  BY DEF AllHeld
<1>1. CASE \E k \in UrbInputs : FetchUrb(h, k)
  BY <1>1 DEF FetchUrb, Held, HeldByBg, BgAtUrb
<1>2. CASE Outstanding(h) /\ serial'[h] = serial[h]
  <2>1. CASE HeldByBg(h)
    BY <2>1, BgSpares
  <2>2. CASE HeldByQueue(h)
    <3>1. \A c \in Queued : Matches(c, h) /\ ~Canceled(c) => c \in Queued' /\ Same(c)
      BY QueuesSpare DEF Matches, Outstanding
    <3> QED  BY <1>2, <2>2, <3>1, StillQueued DEF Held
  <2> QED  BY <1>2, <2>1, <2>2, Lasts DEF AllHeld, Held
<1> QED  BY <1>1, <1>2, Lasts

(* As long as the kernel waits for an urb, bg_work has it in hand, or a    *)
(* work for it is in the queues, or bg_work has dropped it, or a shutdown  *)
(* has begun.                                                              *)
LEMMA HeldInvariant == Spec => []AllHeld
<1>1. Init => AllHeld
  BY DEF Init, AllHeld, Outstanding
<1>2. IInv /\ Built /\ AllHeld /\ [Next]_vars => AllHeld'
  BY HeldStep
<1> QED  BY <1>1, <1>2, InductiveInvariant, BuiltInvariant, PTL DEF Spec

(* No urb is lost between the kernel and the users: not by a retry, a      *)
(* cancel of any thread or a second use of its handle.  Those that bg_work *)
(* lets go of are in dropped; these are all of them.                       *)
THEOREM NoneLost == Spec => []Accounted
<1>1. AllHeld => Accounted
  BY DEF AllHeld, Held, Accounted
<1> QED  BY <1>1, HeldInvariant, PTL

-----------------------------------------------------------------------------
(* The refinement: what each step is to UrbLifecycle.                      *)

LEMMA SamePlace ==
    ASSUME NEW h, serial'[h] = serial[h],
           <<h, serial[h]>> \in dropped' <=> <<h, serial[h]>> \in dropped,
           InProgressOf(h)' <=> InProgressOf(h), Outstanding(h)' <=> Outstanding(h)
    PROVE  PlaceOf(h)' = PlaceOf(h)
  BY DEF PlaceOf, InProgressOf

LEMMA NoticedIs ==
    /\ Noticed = {h \in Handles : \E c \in InboxNotices : heap[c].handle = h}
    /\ Noticed' = {h \in Handles : \E c \in InboxNotices' : heap'[c].handle = h}
  BY DEF Noticed, InboxNotices, Inbox, Range

LEMMA MoveStep ==
    ASSUME NEW x \in Handles, NEW from, NEW to, life # "destroyed",
           PlaceOf(x) = from, PlaceOf(x)' = to,
           \A h \in Handles : h # x => PlaceOf(h)' = PlaceOf(h)
    PROVE  Lifecycle!Move(x, from, to)
  BY DEF Lifecycle!Move

(* Nothing that UrbLifecycle sees changes.                                 *)
QueuesStill ==
    /\ \A h : InProgressOf(h)' <=> InProgressOf(h)
    /\ InboxNotices' = InboxNotices
    /\ \A c \in InboxNotices : heap'[c] = heap[c]

BgStill ==
    /\ pc' = "cancel" <=> pc = "cancel"
    /\ pc = "cancel" => wk' = wk
    /\ life' = "destroyed" <=> life = "destroyed"

LEMMA Still ==
    ASSUME QueuesStill, BgStill, KernelSteady
    PROVE  UNCHANGED Lifecycle!vars
<1>1. \A h \in Handles : PlaceOf(h)' = PlaceOf(h)
  BY SamePlace DEF QueuesStill, KernelSteady, Outstanding
<1>2. Wanted' = Wanted
  BY DEF Wanted, BgStill, KernelSteady
<1>3. Noticed' = Noticed
  BY NoticedIs DEF QueuesStill
<1>4. (life = "destroyed")' = (life = "destroyed")
  BY DEF BgStill
<1> QED  BY <1>1, <1>2, <1>3, <1>4 DEF Lifecycle!vars

LEMMA SameStill ==
    ASSUME \A c \in Queued : Same(c), UNCHANGED <<inbox, processing>>
    PROVE  QueuesStill
<1>1. \A h : InProgressOf(h)' <=> InProgressOf(h)
  BY SameView DEF InProgressOf, Queued
<1>2. \A c \in Range(inbox) : heap'[c] = heap[c]
  BY DEF Same, Queued
<1> QED  BY <1>1, <1>2 DEF QueuesStill, InboxNotices

(* A work that is neither an urb nor a notice goes in or out.              *)
LEMMA StatStill ==
    ASSUME IInv, UrbInv, StatStep
    PROVE  UNCHANGED Lifecycle!vars
<1>1. QueuesStill
  <2>1. ASSUME NEW c \in Cells, StatEnqueue(c)
        PROVE  QueuesStill
    <3>1. /\ \A d \in Queued : Same(d) /\ heap'[d] = heap[d]
          /\ c \notin Queued /\ heap'[c].kind = "stat"
      BY <2>1, StatSame DEF Same
    <3>2. Range(inbox)' = Range(inbox) \cup {c} /\ processing' = processing
      BY <2>1, <3>1, AppendKeeps DEF IInv, StatEnqueue
    <3>3. \A h : InProgressOf(h)' <=> InProgressOf(h)
      BY <3>1, <3>2, SameView DEF InProgressOf, Queued
    <3>4. \A d \in Range(inbox) : heap'[d] = heap[d]
      BY <3>1 DEF Queued
    <3> QED  BY <3>1, <3>2, <3>3, <3>4 DEF QueuesStill, InboxNotices
  <2>2. ASSUME NEW c \in Cells, StatEnqueueFails(c)
        PROVE  QueuesStill
    BY <2>2, StatSame, SameStill DEF StatEnqueueFails
  <2>3. CASE StatAllocFails
    BY <2>3, SameStill DEF StatAllocFails, Same
  <2>4. CASE Retry("statWait", "stat")
    BY <2>4, BuildSame, SameStill DEF Retry
  <2> QED  BY <2>1, <2>2, <2>3, <2>4 DEF StatStep
<1>2. BgStill
  BY DEF StatStep, StatAllocFails, StatEnqueueFails, StatEnqueue, Retry, BgStill
<1> QED  BY <1>1, <1>2, StatSteady, Still

LEMMA BuildStill ==
    ASSUME IInv, UrbInv,
           \/ \E c \in Cells : Alloc(c) \/ RouteEnqueueFails(c)
           \/ AllocGivesUp \/ AllocThrows \/ FetchData \/ RouteAllocFails
           \/ Retry("routeWait", "alloc")
    PROVE  UNCHANGED Lifecycle!vars
<1>1. UNCHANGED <<inbox, processing>>
  BY DEF Alloc, RouteEnqueueFails, AllocGivesUp, AllocThrows, FetchData,
         RouteAllocFails, Retry
<1>2. \A c \in Queued : Same(c)
  <2>1. CASE AllocThrows
    BY <2>1 DEF AllocThrows, Same
  <2> QED  BY <2>1, BuildSame, RouteSame
<1>3. BgStill
  <2>1. CASE AllocThrows
    BY <2>1 DEF AllocThrows, Alive, BgStill
  <2>2. CASE Retry("routeWait", "alloc")
    BY <2>2 DEF Retry, BgStill
  <2>3. CASE \/ \E c \in Cells : Alloc(c) \/ RouteEnqueueFails(c)
             \/ AllocGivesUp \/ FetchData \/ RouteAllocFails
    BY <2>3 DEF Alloc, RouteEnqueueFails, AllocGivesUp, FetchData, RouteAllocFails,
                BgStill
  <2> QED  BY <2>1, <2>2, <2>3
<1> QED  BY <1>1, <1>2, <1>3, SameStill, BuildSteady, Still

LEMMA IdleStill ==
    ASSUME IInv, UrbInv,
           \/ Loop \/ FetchNothing \/ BgCancelThrows \/ BeginShutdown \/ Terminated
           \/ (\E r \in Reports : FetchStat(r)) \/ UNCHANGED vars
    PROVE  UNCHANGED Lifecycle!vars
<1>1. UNCHANGED <<heap, inbox, processing>>
  BY DEF Loop, FetchNothing, BgCancelThrows, BeginShutdown, Terminated, FetchStat, vars
<1>2. QueuesStill
  BY <1>1, SameStill DEF Same
<1>3. BgStill
  BY DEF Loop, FetchNothing, BgCancelThrows, BeginShutdown, Terminated, FetchStat, vars,
         Alive, BgStill
<1> QED  BY <1>2, <1>3, IdleSteady, Still

(* An urb waits in the inbox, or has been taken back there.                *)
LEMMA RouteStill ==
    ASSUME IInv, UrbInv, NEW c \in Cells, RouteEnqueue(c)
    PROVE  UNCHANGED Lifecycle!vars
<1>1. /\ \A d \in Queued : Same(d) /\ heap'[d] = heap[d]
      /\ c \notin Queued /\ heap'[c].kind = "process"
  BY RouteSame DEF Same
<1>2. Range(inbox)' = Range(inbox) \cup {c} /\ processing' = processing
  BY <1>1, AppendKeeps DEF IInv, RouteEnqueue
<1>3. \A h : InProgressOf(h)' <=> InProgressOf(h)
  BY <1>1, <1>2, SameView DEF InProgressOf, Queued
<1>4. QueuesStill
  BY <1>1, <1>2, <1>3 DEF QueuesStill, InboxNotices, Queued
<1>5. BgStill /\ KernelSteady
  BY DEF RouteEnqueue, BgStill, KernelSteady
<1> QED  BY <1>4, <1>5, Still

LEMMA DrainStill ==
    ASSUME IInv, UrbInv,
           NextWorkNone \/ \E c \in Cells : FinishWork(c) /\ ~IsUrbWork(c)
    PROVE  UNCHANGED Lifecycle!vars
<1> USE DEF IInv
<1>1. CASE NextWorkNone
  <2>1. /\ Range(inbox)' = {} /\ processing' = processing
        /\ \A d \in Range(inbox) : IsUrbWork(d)
    BY <1>1 DEF NextWorkNone, Range, Canceled
  <2>2. InboxNotices = {} /\ InboxNotices' = {}
    BY <2>1 DEF InboxNotices, IsUrbWork
  <2>3. \A d \in processing : Same(d)
    <3>1. Range(inbox) \in SUBSET Pointer
          /\ \A d \in processing : d \in Pointer \ Range(inbox)
      BY DEF Pointer, Queued, Ownership, QueuesDisjoint
    <3> QED  BY <1>1, <3>1, DeleteSame DEF NextWorkNone
  <2>4. QueuesStill
    BY <2>1, <2>2, <2>3, SameView DEF QueuesStill, InProgressOf
  <2> QED  BY <1>1, <2>4, UserSteady, Still DEF NextWorkNone, BgStill
<1>2. ASSUME NEW c \in Cells, FinishWork(c), ~IsUrbWork(c)
      PROVE  UNCHANGED Lifecycle!vars
  <2>1. c \in processing /\ c \notin Range(inbox) /\ {c} \in SUBSET Pointer
        /\ inbox' = inbox /\ processing' = processing \ {c}
    BY <1>2 DEF FinishWork, Queued, Pointer, Ownership, QueuesDisjoint
  <2>2. \A d \in Queued \ {c} : Same(d) /\ heap'[d] = heap[d]
    <3>1. \A d \in Queued \ {c} : d \in Pointer \ {c}
      BY DEF Pointer
    <3> QED  BY <1>2, <2>1, <3>1, DeleteSame DEF FinishWork, Same
  <2>3. \A h : ~Matches(c, h)
    BY <1>2 DEF Matches
  <2>4. \A h : InProgressOf(h)' <=> InProgressOf(h)
    BY <2>1, <2>2, <2>3, SameView DEF InProgressOf, Queued
  <2>5. \A d \in Range(inbox) : heap'[d] = heap[d]
    BY <2>1, <2>2 DEF Queued
  <2>6. QueuesStill
    BY <2>1, <2>4, <2>5 DEF QueuesStill, InboxNotices
  <2> QED  BY <1>2, <2>6, UserSteady, Still DEF FinishWork, BgStill
<1> QED  BY <1>1, <1>2

(* next_work hands out an urb, a notice, or a port status.                 *)
LEMMA NextWorkMaps ==
    ASSUME OncePerHandle, IInv, UrbInv, NextWork
    PROVE  [Lifecycle!Next]_(Lifecycle!vars)
<1> USE DEF UrbInv
<1>1. PICK c \in Range(inbox) :
         /\ ~Canceled(c) /\ processing' = processing \cup {c}
         /\ c \notin Range(inbox)' /\ c \notin processing
         /\ Range(inbox)' \subseteq Range(inbox)
         /\ \A d \in Range(inbox) \ Range(inbox)' : d = c \/ Canceled(d)
         /\ \A d \in Queued' : d \in Queued /\ Same(d)
  BY NextWorkFacts
<1>2. life = "running" /\ UNCHANGED <<bgVars, life>> /\ KernelSteady
  BY DEF NextWork, KernelSteady
<1>3. Wanted' = Wanted /\ (life = "destroyed")' = (life = "destroyed")
  BY <1>2 DEF Wanted, KernelSteady
<1>4. InboxNotices' = InboxNotices \ {c}
      /\ \A d \in InboxNotices' : heap'[d] = heap[d]
  BY <1>1 DEF InboxNotices, Queued, Same, Canceled, IsUrbWork
<1>5. \A h : InProgressOf(h)' <=> InProgressOf(h) \/ Matches(c, h)
  <2>1. \A d \in processing \cup {c} : \A h : Matches(d, h)' <=> Matches(d, h)
    BY <1>1, SameView DEF Queued
  <2> QED  BY <1>1, <2>1 DEF InProgressOf
<1>6. ASSUME NEW h \in Handles, ~Matches(c, h)
      PROVE  PlaceOf(h)' = PlaceOf(h)
  BY <1>2, <1>5, <1>6, SamePlace DEF KernelSteady, Outstanding
<1>7. c \in Queued
  BY DEF Queued
<1>8. CASE IsUrbWork(c)
  <2>1. PICK x \in Handles : x = UrbOf(c).handle
    BY <1>7, <1>8, HandleTypes
  <2>2. Open(x) /\ Outstanding(x) /\ Matches(c, x) /\ ~InProgressOf(x)
    BY <1>1, <1>7, <1>8, <2>1 DEF QueuedOpen, OneWork, Queued, Matches, InProgressOf
  <2>3. PlaceOf(x) = "library" /\ PlaceOf(x)' = "user"
    BY <1>2, <1>5, <2>2 DEF PlaceOf, InProgressOf, Open, KernelSteady
  <2>4. \A h \in Handles : h # x => PlaceOf(h)' = PlaceOf(h)
    BY <1>6, <2>1 DEF Matches
  <2>5. Lifecycle!Move(x, "library", "user")
    BY <1>2, <2>3, <2>4, MoveStep
  <2>6. Noticed' = Noticed
    BY <1>4, <1>8, NoticedIs DEF InboxNotices, IsUrbWork
  <2> QED  BY <1>3, <2>5, <2>6 DEF Lifecycle!Next, Lifecycle!HandOut
<1>9. CASE ~IsUrbWork(c)
  <2>1. \A h \in Handles : PlaceOf(h)' = PlaceOf(h)
    BY <1>6, <1>9 DEF Matches
  <2>2. CASE heap[c].kind = "cancel"
    <3>1. c \in InboxNotices /\ heap[c].handle \in Handles
      BY <2>2, HandleTypes DEF InboxNotices
    <3>2. PICK x \in Handles : x = heap[c].handle
      BY <3>1
    <3>3. x \in Noticed /\ Noticed' = Noticed \ {x}
      BY <1>4, <3>1, <3>2, NoticedIs DEF Notices
    <3>4. life # "destroyed"
      BY <1>2
    <3> QED
      BY <1>3, <2>1, <3>3, <3>4 DEF Lifecycle!Next, Lifecycle!Deliver
  <2>3. CASE heap[c].kind # "cancel"
    <3>1. Noticed' = Noticed
      BY <1>4, <2>3, NoticedIs DEF InboxNotices
    <3> QED  BY <1>3, <2>1, <3>1 DEF Lifecycle!vars
  <2> QED  BY <2>2, <2>3
<1> QED  BY <1>8, <1>9

LEMMA FinishMaps ==
    ASSUME OncePerHandle, IInv, UrbInv, NEW c \in Cells, FinishWork(c), IsUrbWork(c)
    PROVE  Lifecycle!Next
<1>1. PICK x : x = UrbOf(c).handle
  OBVIOUS
<1>2. /\ c \in processing /\ Matches(c, x) /\ c \notin Range(inbox)
      /\ x \in Handles /\ serial[x] = 1 /\ kstate'[x] = "idle"
      /\ \A g \in Handles : g # x => kstate'[g] = kstate[g]
      /\ inbox' = inbox /\ processing' = processing \ {c}
  BY <1>1, FinishFacts
<1>3. \A d \in Queued : d # c => Same(d) /\ ~Matches(d, x)
  BY <1>1, FinishFacts
<1>4. UNCHANGED <<bgVars, serial, dropped, life>> /\ life = "running"
  BY DEF FinishWork
<1>5. \A h : h # x => (InProgressOf(h)' <=> InProgressOf(h))
  BY <1>2, <1>3, SameView DEF InProgressOf, Queued, Matches
<1>6. ~InProgressOf(x)'
  BY <1>2, <1>3, SameView DEF InProgressOf, Queued
<1>7. <<x, 1>> \notin dropped
  BY <1>2 DEF UrbInv, QueuedOpen, Open, Queued, Matches
<1>8. PlaceOf(x) = "user" /\ PlaceOf(x)' = "completed"
  BY <1>2, <1>4, <1>6, <1>7 DEF PlaceOf, InProgressOf, Outstanding
<1>9. \A h \in Handles : h # x => PlaceOf(h)' = PlaceOf(h)
  BY <1>2, <1>4, <1>5, SamePlace DEF Outstanding
<1>10. Lifecycle!Move(x, "user", "completed")
  BY <1>2, <1>4, <1>8, <1>9, MoveStep
<1>11. Wanted' = Wanted \ {x}
  BY <1>2, <1>4 DEF Wanted
<1>12. Noticed' = Noticed
  <2>1. \A d \in Range(inbox) : heap'[d] = heap[d]
    BY <1>2, <1>3 DEF Same, Queued
  <2> QED  BY <1>2, <2>1, NoticedIs DEF InboxNotices
<1> QED
  BY <1>2, <1>4, <1>10, <1>11, <1>12 DEF Lifecycle!Next, Lifecycle!Finish

(* cancel_process_urb_work takes the urb back, tells its user, or knows    *)
(* nothing of it.                                                          *)
LEMMA TakeBackMaps ==
    ASSUME OncePerHandle, IInv, UrbInv, BgCancel, CancelQueued(wk.handle)
    PROVE  Lifecycle!Next
<1>1. PICK x : x = wk.handle
  OBVIOUS
<1>2. /\ UNCHANGED <<processing, serial, dropped, life>> /\ pc = "cancel" /\ pc' = "loop"
      /\ life # "destroyed"
  BY DEF BgCancel, Alive
<1>3. PICK c \in Range(inbox) :
         /\ Matches(c, x) /\ c \notin processing
         /\ x \in Handles /\ Outstanding(x) /\ serial[x] = 1 /\ kstate'[x] = "idle"
         /\ \A g \in Handles : g # x => kstate'[g] = kstate[g]
         /\ inbox' = inbox /\ IsUrbWork(c)'
         /\ \A d \in Queued : d # c => Same(d)
  BY <1>1, <1>2, CancelQueuedFacts
<1>4. <<x, 1>> \notin dropped /\ ~InProgressOf(x)
  BY <1>3 DEF UrbInv, QueuedOpen, OneWork, Open, Queued, Matches, InProgressOf
<1>5. \A h : InProgressOf(h)' <=> InProgressOf(h)
  BY <1>2, <1>3, SameView DEF InProgressOf, Queued
<1>6. PlaceOf(x) = "library" /\ PlaceOf(x)' = "completed"
  BY <1>2, <1>3, <1>4, <1>5 DEF PlaceOf, InProgressOf, Outstanding
<1>7. \A h \in Handles : h # x => PlaceOf(h)' = PlaceOf(h)
  BY <1>2, <1>3, <1>5, SamePlace DEF Outstanding
<1>8. Lifecycle!Move(x, "library", "completed")
  BY <1>2, <1>3, <1>6, <1>7, MoveStep
<1>9. x \in Wanted /\ Wanted' = Wanted \ {x}
  BY <1>1, <1>2, <1>3 DEF UrbInv, InCancel, NoticeTaken, Outstanding, Wanted
<1>10. Noticed' = Noticed
  <2>1. IsUrbWork(c)
    BY <1>3 DEF Matches
  <2>2. \A d \in Range(inbox) : d # c => heap'[d] = heap[d]
    BY <1>3 DEF Same, Queued
  <2>3. InboxNotices' = InboxNotices /\ c \notin InboxNotices
    BY <1>3, <2>1, <2>2 DEF InboxNotices, IsUrbWork
  <2> QED  BY <2>2, <2>3, NoticedIs DEF InboxNotices
<1> QED
  BY <1>2, <1>3, <1>8, <1>9, <1>10 DEF Lifecycle!Next, Lifecycle!TakeBack

LEMMA NotifyMaps ==
    ASSUME OncePerHandle, IInv, UrbInv, BgCancel, CancelInProgress(wk.handle)
    PROVE  Lifecycle!Next
<1>1. PICK x : x = wk.handle
  OBVIOUS
<1>2. /\ UNCHANGED <<processing, serial, dropped, kstate, life>>
      /\ pc = "cancel" /\ pc' = "loop" /\ life # "destroyed"
  BY DEF BgCancel, CancelInProgress, Alive
<1>3. PICK c \in Cells :
         /\ c \notin Queued /\ heap'[c].kind = "cancel" /\ heap'[c].handle = x
         /\ Range(inbox)' = Range(inbox) \cup {c}
         /\ \A d \in Queued : Same(d)
  BY <1>1, <1>2, NotifyFacts
<1>4. x \in Handles /\ InProgressOf(x)
  BY <1>1, <1>2, HandleTypes DEF CancelInProgress, InProgress, InProgressOf
<1>5. serial[x] = 1 /\ <<x, 1>> \notin dropped /\ Outstanding(x)
  BY <1>4
  DEF UrbInv, QueuedOpen, NoneCanceledTaken, Open, Queued, Matches, InProgressOf
<1>6. \A h : InProgressOf(h)' <=> InProgressOf(h)
  BY <1>2, <1>3, SameView DEF InProgressOf, Queued
<1>7. \A h \in Handles : PlaceOf(h)' = PlaceOf(h)
  BY <1>2, <1>6, SamePlace DEF Outstanding
<1>8. PlaceOf(x) = "user"
  BY <1>4, <1>5 DEF PlaceOf, InProgressOf
<1>9. x \in Wanted /\ Wanted' = Wanted \ {x}
  BY <1>1, <1>2, <1>4, <1>5 DEF UrbInv, InCancel, NoticeTaken, Outstanding, Wanted
<1>10. Noticed' = Noticed \cup {x}
  <2>1. \A d \in Range(inbox) : heap'[d] = heap[d]
    BY <1>3 DEF Same, Queued
  <2>2. InboxNotices' = InboxNotices \cup {c}
    BY <1>3, <2>1 DEF InboxNotices
  <2> QED  BY <1>3, <1>4, <2>1, <2>2, NoticedIs DEF InboxNotices
<1> QED
  BY <1>2, <1>4, <1>7, <1>8, <1>9, <1>10 DEF Lifecycle!Next, Lifecycle!Notify

LEMMA IgnoreMaps ==
    ASSUME OncePerHandle, IInv, UrbInv, AllHeld, BgCancel, CancelUnknown(wk.handle)
    PROVE  [Lifecycle!Next]_(Lifecycle!vars)
<1>1. PICK x : x = wk.handle
  OBVIOUS
<1>2. /\ UNCHANGED <<heap, inbox, processing, serial, dropped, kstate, life>>
      /\ pc = "cancel" /\ pc' = "loop" /\ life # "destroyed" /\ x \in Handles
  BY <1>1, HandleTypes DEF BgCancel, CancelUnknown, Alive
<1>3. \A h \in Handles : PlaceOf(h)' = PlaceOf(h)
  BY <1>2 DEF PlaceOf, Matches, IsUrbWork, UrbOf, Outstanding
<1>4. Noticed' = Noticed
  BY <1>2 DEF Noticed, Inbox
<1>5. Wanted' = Wanted \ {x}
  BY <1>1, <1>2 DEF UrbInv, InCancel, NoticeTaken, Wanted
<1>6. (life = "destroyed")' = (life = "destroyed")
  BY <1>2
<1>7. CASE Outstanding(x)
  <2>1. x \in Wanted /\ serial[x] = 1
    BY <1>1, <1>2, <1>7 DEF UrbInv, InCancel, NoticeTaken, Outstanding, Wanted
  <2>2. ~HeldByBg(x) /\ ~HeldByQueue(x)
    <3>1. \A c \in Queued : ~Matches(c, x)
      BY <1>1 DEF CancelUnknown, InboxMatches, Queued, Range
    <3> QED  BY <1>2, <3>1 DEF HeldByBg, HeldByQueue, BgAtUrb
  <2>3. <<x, serial[x]>> \in dropped
    BY <1>2, <1>7, <2>2 DEF AllHeld, Held
  <2>4. PlaceOf(x) = "dropped"
    BY <2>1, <2>3 DEF PlaceOf
  <2> QED
    BY <1>2, <1>3, <1>4, <1>5, <1>6, <2>1, <2>4 DEF Lifecycle!Next, Lifecycle!Ignore
<1>8. CASE ~Outstanding(x)
  <2>1. Wanted' = Wanted
    BY <1>5, <1>8 DEF Wanted, Outstanding
  <2> QED  BY <1>3, <1>4, <1>6, <2>1 DEF Lifecycle!vars
<1> QED  BY <1>7, <1>8

LEMMA SubmitMaps ==
    ASSUME OncePerHandle, IInv, UrbInv, NEW x \in Handles, NEW k \in UrbInputs,
           FetchUrb(x, k)
    PROVE  Lifecycle!Next
<1>1. /\ serial[x] = 0 /\ serial'[x] = 1 /\ kstate'[x] = "fetched"
      /\ kstate[x] = "idle"
      /\ \A g \in Handles : g # x => kstate'[g] = kstate[g] /\ serial'[g] = serial[g]
      /\ UNCHANGED <<heap, inbox, processing, life>>
      /\ pc = "fetch" /\ pc' # "cancel" /\ life # "destroyed"
  <2>1. serial[x] \in Nat /\ serial[x] < 1
    BY DEF IInv, TypeOK, FetchUrb
  <2>2. serial[x] = 0 /\ serial[x] + 1 = 1
    BY <2>1
  <2> QED  BY <2>2 DEF IInv, TypeOK, FetchUrb, Alive
<1>2. <<x, 1>> \notin dropped /\ dropped' \in {dropped, dropped \cup {<<x, 1>>}}
  BY <1>1 DEF UrbInv, Fresh, FetchUrb
<1>3. \A h : InProgressOf(h)' <=> InProgressOf(h)
  BY <1>1 DEF InProgressOf, Matches, IsUrbWork, UrbOf
<1>4. ~InProgressOf(x)
  <2>1. ASSUME NEW c \in Queued, IsUrbWork(c), UrbOf(c).handle = x
        PROVE  FALSE
    <3>1. serial[UrbOf(c).handle] = 1
      BY <2>1 DEF UrbInv, QueuedOpen, Open
    <3> QED  BY <1>1, <2>1, <3>1
  <2> QED  BY <2>1 DEF Queued, Matches, InProgressOf
<1>5. PlaceOf(x) = "new" /\ PlaceOf(x)' \in {"library", "dropped"}
  BY <1>1, <1>2, <1>3, <1>4 DEF PlaceOf, InProgressOf, Outstanding
<1>6. \A h \in Handles : h # x => PlaceOf(h)' = PlaceOf(h)
  BY <1>1, <1>2, <1>3, SamePlace DEF Outstanding
<1>7. Lifecycle!Move(x, "new", "library") \/ Lifecycle!Move(x, "new", "dropped")
  BY <1>1, <1>5, <1>6, MoveStep
<1>8. Wanted' = Wanted /\ Noticed' = Noticed /\ (life = "destroyed")' = (life = "destroyed")
  BY <1>1 DEF Wanted, Noticed, Inbox
<1> QED  BY <1>7, <1>8 DEF Lifecycle!Next, Lifecycle!Submit

LEMMA UnlinkMaps ==
    ASSUME OncePerHandle, IInv, UrbInv, NEW x \in Handles, Unlink(x) \/ FetchCancel(x)
    PROVE  [Lifecycle!Next]_(Lifecycle!vars)
<1>1. /\ Outstanding(x) /\ kstate'[x] \in {"unlinked", "canceling"}
      /\ \A g \in Handles : g # x => kstate'[g] = kstate[g]
      /\ UNCHANGED <<heap, inbox, processing, serial, dropped, life>>
      /\ life # "destroyed"
  BY DEF IInv, TypeOK, Unlink, FetchCancel, Outstanding, Alive
<1>2. \A h \in Handles : PlaceOf(h)' = PlaceOf(h)
  <2>1. \A h \in Handles : Outstanding(h)' <=> Outstanding(h)
    BY <1>1 DEF Outstanding
  <2>2. \A h : InProgressOf(h)' <=> InProgressOf(h)
    BY <1>1 DEF InProgressOf, Matches, IsUrbWork, UrbOf
  <2> QED  BY <1>1, <2>1, <2>2, SamePlace
<1>3. Noticed' = Noticed /\ (life = "destroyed")' = (life = "destroyed")
  BY <1>1 DEF Noticed, Inbox
<1>4. CASE Unlink(x)
  <2>1. x \notin Wanted /\ Wanted' = Wanted \cup {x}
    BY <1>1, <1>4 DEF IInv, TypeOK, Unlink, Wanted
  <2>2. PlaceOf(x) \in {"library", "user", "dropped"}
    BY <1>1 DEF UrbInv, Fresh, PlaceOf, Outstanding
  <2> QED
    BY <1>1, <1>2, <1>3, <2>1, <2>2 DEF Lifecycle!Next, Lifecycle!Unlink
<1>5. CASE FetchCancel(x)
  <2>1. Wanted' = Wanted
    BY <1>1, <1>5 DEF IInv, TypeOK, FetchCancel, Wanted
  <2> QED  BY <1>2, <1>3, <2>1 DEF Lifecycle!vars
<1> QED  BY <1>4, <1>5

LEMMA LetGoMaps ==
    ASSUME OncePerHandle, IInv, UrbInv, FetchDataFails \/ RouteNowhere
    PROVE  Lifecycle!Next
<1>1. PICK x : x = wk.handle
  OBVIOUS
<1>2. /\ x \in Handles /\ wk.serial = 1 /\ serial[x] = 1
      /\ kstate[x] \in {"fetched", "unlinked"} /\ <<x, 1>> \notin dropped
      /\ \A c \in Queued : ~Matches(c, x) /\ Same(c)
      /\ UNCHANGED <<inbox, processing, serial, life>>
      /\ pc # "cancel" /\ pc' = "loop" /\ life # "destroyed"
  BY <1>1, HandleTypes, BuildSame
  DEF Serials, UrbInv, InHand, Open, BgAtUrb, FetchDataFails,
      RouteNowhere, Alive
<1>3. \A h : InProgressOf(h)' <=> InProgressOf(h)
  BY <1>2, SameView DEF InProgressOf, Queued
<1>4. PlaceOf(x) = "library"
  BY <1>2 DEF PlaceOf, Queued, Outstanding
<1>5. Noticed' = Noticed /\ (life = "destroyed")' = (life = "destroyed")
  <2>1. \A c \in Range(inbox) : heap'[c] = heap[c]
    BY <1>2 DEF Same, Queued
  <2> QED  BY <1>2, <2>1, NoticedIs DEF InboxNotices
<1>6. CASE FetchDataFails /\ DataCanceled
  <2>1. /\ kstate'[x] = "idle" /\ kstate[x] = "unlinked" /\ dropped' = dropped
        /\ \A g \in Handles : g # x => kstate'[g] = kstate[g]
    BY <1>1, <1>2, <1>6 DEF IInv, TypeOK, DataCanceled
  <2>2. PlaceOf(x)' = "completed"
    BY <1>2, <1>3, <1>4, <2>1 DEF PlaceOf, InProgressOf, Outstanding
  <2>3. \A h \in Handles : h # x => PlaceOf(h)' = PlaceOf(h)
    BY <1>2, <1>3, <2>1, SamePlace DEF Outstanding
  <2>4. Lifecycle!Move(x, "library", "completed")
    BY <1>2, <1>4, <2>2, <2>3, MoveStep
  <2>5. x \in Wanted /\ Wanted' = Wanted \ {x}
    BY <1>2, <2>1 DEF Wanted
  <2> QED  BY <1>2, <1>5, <2>4, <2>5 DEF Lifecycle!Next, Lifecycle!TakeBack
<1>7. CASE RouteNowhere \/ (FetchDataFails /\ DataRefused)
  <2>1. kstate' = kstate /\ dropped' = dropped \cup {<<x, 1>>}
    BY <1>1, <1>2, <1>7 DEF RouteNowhere, DataRefused
  <2>2. PlaceOf(x)' = "dropped"
    BY <1>2, <2>1 DEF PlaceOf
  <2>3. \A h \in Handles : h # x => PlaceOf(h)' = PlaceOf(h)
    BY <1>2, <1>3, <2>1, SamePlace DEF Outstanding
  <2>4. Lifecycle!Move(x, "library", "dropped")
    BY <1>2, <1>4, <2>2, <2>3, MoveStep
  <2>5. Wanted' = Wanted
    BY <1>2, <2>1 DEF Wanted
  <2> QED  BY <1>2, <1>5, <2>4, <2>5 DEF Lifecycle!Next, Lifecycle!Drop
<1> QED  BY <1>6, <1>7 DEF FetchDataFails

LEMMA CloseMaps ==
    ASSUME IInv, UrbInv, Destroy
    PROVE  Lifecycle!Next
<1>1. /\ life = "joining" /\ life' = "destroyed" /\ inbox' = <<>> /\ processing' = {}
      /\ \A h \in Handles : kstate'[h] = "idle"
      /\ UNCHANGED <<serial, dropped>>
  BY DEF Destroy
<1>2. \A h \in Handles :
         PlaceOf(h)' = IF PlaceOf(h) \in {"library", "user"} THEN "completed"
                       ELSE PlaceOf(h)
  BY <1>1 DEF PlaceOf, Outstanding
<1>3. Wanted' = {}
  BY <1>1 DEF Wanted
<1>4. Noticed' = {}
  BY <1>1 DEF Noticed
<1> QED  BY <1>1, <1>2, <1>3, <1>4 DEF Lifecycle!Next, Lifecycle!Close

LEMMA StepMaps ==
    ASSUME OncePerHandle, IInv, UrbInv, AllHeld, [Next]_vars
    PROVE  [Lifecycle!Next]_(Lifecycle!vars)
<1>1. CASE StatStep
  BY <1>1, StatStill
<1>2. CASE UrbStep
  BY <1>2, BuildStill, RouteStill, LetGoMaps DEF UrbStep
<1>3. CASE BgCancel
  BY <1>3, TakeBackMaps, NotifyMaps, IgnoreMaps DEF BgCancel
<1>4. CASE \/ Loop \/ FetchNothing \/ BgCancelThrows \/ BeginShutdown \/ Terminated
           \/ (\E r \in Reports : FetchStat(r)) \/ UNCHANGED vars
  BY <1>4, IdleStill
<1>5. CASE \E h \in Handles, k \in UrbInputs : FetchUrb(h, k)
  BY <1>5, SubmitMaps
<1>6. CASE \E h \in Handles : FetchCancel(h) \/ Unlink(h)
  BY <1>6, UnlinkMaps
<1>7. CASE NextWork \/ NextWorkNone
  BY <1>7, NextWorkMaps, DrainStill
<1>8. CASE \E c \in Cells : FinishWork(c)
  BY <1>8, DrainStill, FinishMaps
<1>9. CASE Destroy
  BY <1>9, CloseMaps
<1>10. ~\E h \in Handles : UserCancel(h)
  BY DEF UserCancel
<1> QED
  BY <1>1, <1>2, <1>3, <1>4, <1>5, <1>6, <1>7, <1>8, <1>9, <1>10
  DEF Next, BgStep, CancelStep

(* Whatever the queues, the retries and the threads do in between, an urb  *)
(* moves only as UrbLifecycle allows; one whose data the driver refuses is *)
(* dropped.                                                                *)
THEOREM RefinesLifecycle ==
    ASSUME OncePerHandle
    PROVE  Spec => ImplementsLifecycle
<1>1. Init => Lifecycle!Init
  BY DEF Init, Lifecycle!Init, PlaceOf, Wanted, Noticed
<1>2. IInv /\ UrbInv /\ AllHeld /\ [Next]_vars => [Lifecycle!Next]_(Lifecycle!vars)
  BY StepMaps
<1> QED
  BY <1>1, <1>2, InductiveInvariant, UrbInvariant, HeldInvariant, PTL
  DEF Spec, ImplementsLifecycle, Lifecycle!Spec
=============================================================================
