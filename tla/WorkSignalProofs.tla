-------------------------- MODULE WorkSignalProofs --------------------------
(***************************************************************************)
(* Proofs that the variables keep their types, that the condition variable *)
(* loses no wakeup, that no callback runs after it was removed and that the*)
(* driver and the queues outlive the background thread, for any number of  *)
(* works.                                                                  *)
(***************************************************************************)
EXTENDS WorkSignal, SequenceTheorems, TLAPS

(* The main thread is on its way to next_work and will not sleep before.   *)
WillPoll ==
    \/ main \in {"awake", "unlock", "next"}
    \/ main \in {"work", "top"} /\ cont

(* A work in the inbox is announced by has_work, is about to be announced, *)
(* or will be found, unless the program is on its way out.                 *)
Announced ==
    inbox # <<>> => \/ has_work \/ bg \in {"callback", "signal"} \/ WillPoll
                    \/ main \in Leaving

(* Until the callback is registered nobody can take the initial has_work;  *)
(* a thread that sleeps has found the flag unset and said so; the lock is  *)
(* held from the enqueueing of a work to the end of the callback.          *)
IInv ==
    /\ has_work \in BOOLEAN /\ waiting_for_work \in BOOLEAN /\ cont \in BOOLEAN
    /\ bg \in {"enqueue", "callback", "signal", "unlock"} => _lock = "bg"
    /\ main \in {"construct", "start"} => has_work
    /\ ~registered => main \in {"construct", "start"} \cup Leaving
    /\ bg \in {"callback", "signal"} => registered
    /\ main = "asleep" => waiting_for_work /\ ~has_work
    /\ Announced

USE DEF queueVars, appVars, lifeVars, vars

(* The steps of the background thread keep the invariant.                  *)
LEMMA BgKeeps ==
    ASSUME IInv, BgLock \/ BgStep \/ \E i \in DOMAIN inbox : BgCancel(i)
    PROVE  IInv'
<1> USE DEF IInv, Announced, WillPoll, Leaving
<1>1. CASE BgLock
  BY <1>1 DEF BgLock
<1>2. CASE BgEnqueue
  BY <1>2 DEF BgEnqueue
<1>3. CASE CallbackLock
  BY <1>3 DEF CallbackLock
<1>4. CASE CallbackSignal
  BY <1>4 DEF CallbackSignal
<1>5. CASE BgUnlock \/ BgExit
  BY <1>5 DEF BgUnlock, BgExit
<1>6. CASE \E i \in DOMAIN inbox : BgCancel(i)
  <2>1. inbox # <<>>
    BY <1>6
  <2> QED  BY <1>6, <2>1 DEF BgCancel
<1> QED  BY <1>1, <1>2, <1>3, <1>4, <1>5, <1>6 DEF BgStep

(* The main thread goes to sleep only with the flag unset and nothing      *)
(* promised by next_work.                                                  *)
LEMMA ServeKeeps ==
    ASSUME IInv, Serve \/ SpuriousWakeup
    PROVE  IInv'
<1> USE DEF IInv, Announced, WillPoll, Leaving
<1>1. CASE Register \/ Top \/ SpuriousWakeup
  BY <1>1 DEF Register, Top, SpuriousWakeup
<1>2. CASE Wait
  BY <1>2 DEF Wait
<1>3. CASE TakeFlag
  BY <1>3 DEF TakeFlag
<1>4. CASE Awake \/ Unlock
  BY <1>4 DEF Awake, Unlock
<1>5. CASE NextWork
  BY <1>5 DEF NextWork, More
<1>6. CASE NextWorkNone
  BY <1>6 DEF NextWorkNone
<1>7. CASE Finish
  BY <1>7 DEF Finish
<1> QED  BY <1>1, <1>2, <1>3, <1>4, <1>5, <1>6, <1>7 DEF Serve

(* The callback is removed while nobody holds the lock.                    *)
LEMMA LiveKeeps ==
    ASSUME IInv, Live \/ Leave
    PROVE  IInv'
<1> USE DEF IInv, Announced, WillPoll, Leaving
<1>1. CASE CreateThread
  BY <1>1 DEF CreateThread
<1>2. CASE Leave
  BY <1>2 DEF Leave
<1>3. CASE RemoveCallback
  BY <1>3 DEF RemoveCallback
<1>4. CASE Join \/ Joined
  BY <1>4 DEF Join, Joined
<1>5. CASE Close \/ DeleteWorks
  BY <1>5 DEF Close, DeleteWorks
<1> QED  BY <1>1, <1>2, <1>3, <1>4, <1>5 DEF Live

LEMMA IInvInductive == Spec => []IInv
<1>1. Init => IInv
  BY DEF Init, InitApp, IInv, Announced
<1>2. IInv /\ [Next]_vars => IInv'
  <2>1. CASE UNCHANGED vars
    BY <2>1 DEF IInv, Announced, WillPoll
  <2>2. CASE Idle
    BY <2>2 DEF Idle, IInv, Announced, WillPoll
  <2> QED  BY <2>1, <2>2, BgKeeps, ServeKeeps, LiveKeeps DEF Next, MainStep
<1> QED  BY <1>1, <1>2, PTL DEF Spec

(* While the main thread of the example sleeps and no enqueue is under way *)
(* the inbox is empty, however many works are enqueued and canceled and    *)
(* however the two threads interleave.                                     *)
THEOREM WakeupNotLost == Spec => []NoLostWakeup
<1>1. IInv => NoLostWakeup
  BY DEF IInv, Announced, WillPoll, NoLostWakeup, Leaving
<1> QED  BY <1>1, IInvInductive, PTL

(* Once remove_work_enqueued_callback has returned, no callback runs or    *)
(* will run: it waits for the lock that a callback is made under.          *)
THEOREM CallbackGone == Spec => []NoCallbackAfterRemoval
<1>1. IInv => NoCallbackAfterRemoval
  BY DEF IInv, NoCallbackAfterRemoval
<1> QED  BY <1>1, IInvInductive, PTL

-----------------------------------------------------------------------------
(* The thread exists from init_bg_thread to the end of its loop; the       *)
(* destructor closes the driver and deletes the works after the join.      *)
LifeInv ==
    /\ main = "construct" => bg = "none"
    /\ bg = "none" => main \in {"construct", "gone"}
    /\ main \in {"close", "delete", "gone"} => bg \in {"none", "exited"}
    /\ fd \in {"open", "closed"}
    /\ fd = "closed" => main \in {"delete", "gone"}

(* The driver stays open and the works exist until the thread that uses    *)
(* them has ended, or was never started.                                   *)
THEOREM ThreadOutlived == Spec => []OutlivesThread
<1>1. Init => LifeInv
  BY DEF Init, LifeInv
<1>2. LifeInv /\ [Next]_vars => LifeInv'
  <2> SUFFICES ASSUME LifeInv, [Next]_vars
               PROVE  LifeInv'
    OBVIOUS
  <2> USE DEF LifeInv
  <2>1. CASE UNCHANGED vars \/ Idle
    BY <2>1 DEF Idle
  <2>2. CASE BgLock \/ BgStep \/ \E i \in DOMAIN inbox : BgCancel(i)
    <3>1. CASE BgLock \/ BgUnlock \/ BgExit
      BY <3>1 DEF BgLock, BgUnlock, BgExit
    <3>2. CASE CallbackSignal
      BY <3>2 DEF CallbackSignal
    <3>3. CASE \E i \in DOMAIN inbox : BgCancel(i)
      BY <3>3 DEF BgCancel
    <3>4. CASE BgEnqueue
      BY <3>4 DEF BgEnqueue
    <3>5. CASE CallbackLock
      BY <3>5 DEF CallbackLock
    <3> QED  BY <2>2, <3>1, <3>2, <3>3, <3>4, <3>5 DEF BgStep
  <2>3. CASE Serve
    BY <2>3 DEF Serve, Register, Top, Wait, TakeFlag, Awake, Unlock, NextWork,
                NextWorkNone, Finish
  <2>4. CASE Live
    BY <2>4 DEF Live, CreateThread, RemoveCallback, Join, Joined, Close, DeleteWorks
  <2>5. CASE SpuriousWakeup \/ Leave
    BY <2>5 DEF SpuriousWakeup, Leave
  <2> QED  BY <2>1, <2>2, <2>3, <2>4, <2>5 DEF Next, MainStep
<1>3. LifeInv => OutlivesThread
  BY DEF LifeInv, OutlivesThread
<1> QED  BY <1>1, <1>2, <1>3, PTL DEF Spec

-----------------------------------------------------------------------------
(* What next_work leaves in the inbox.                                     *)
LEMMA RestType ==
    ASSUME inbox \in Seq(BOOLEAN), NEW i \in DOMAIN inbox
    PROVE  SubSeq(inbox, i + 1, Len(inbox)) \in Seq(BOOLEAN)
<1>1. Len(inbox) \in Nat /\ DOMAIN inbox = 1..Len(inbox)
  BY LenProperties
<1>2. \A j \in (i + 1)..Len(inbox) : inbox[j] \in BOOLEAN
  BY <1>1, ElementOfSeq
<1>3. i + 1 \in Int /\ Len(inbox) \in Int
  BY <1>1
<1> QED  BY <1>2, <1>3, SubSeqProperties

LEMMA InboxType ==
    ASSUME TypeOK, Next
    PROVE  inbox' \in Seq(BOOLEAN)
<1> USE DEF TypeOK
<1>1. CASE BgEnqueue
  BY <1>1, AppendProperties DEF BgEnqueue
<1>2. CASE \E i \in DOMAIN inbox : BgCancel(i)
  BY <1>2, ExceptSeq DEF BgCancel
<1>3. CASE NextWork
  BY <1>3, RestType DEF NextWork
<1>4. CASE NextWorkNone \/ DeleteWorks
  BY <1>4, EmptySeq DEF NextWorkNone, DeleteWorks
<1>5. CASE \/ BgLock \/ CallbackLock \/ CallbackSignal \/ BgUnlock \/ BgExit
           \/ Register \/ Top \/ Wait \/ TakeFlag \/ Awake \/ Unlock
           \/ Finish \/ SpuriousWakeup \/ Idle
  BY <1>5 DEF BgLock, CallbackLock, CallbackSignal, BgUnlock, BgExit, Register, Top,
              Wait, TakeFlag, Awake, Unlock, Finish, SpuriousWakeup, Idle
<1>6. CASE CreateThread \/ Leave \/ RemoveCallback \/ Join \/ Joined \/ Close
  BY <1>6 DEF CreateThread, Leave, RemoveCallback, Join, Joined, Close
<1> QED  BY <1>1, <1>2, <1>3, <1>4, <1>5, <1>6 DEF Next, BgStep, MainStep, Serve, Live

(* Every variable of the handover keeps its type, and no more works are    *)
(* enqueued than the bound allows.                                         *)
THEOREM TypeCorrect == Spec => []TypeOK
<1>1. Init => TypeOK
  <2>1. <<>> \in Seq(BOOLEAN) /\ 0 \in 0..MaxWorks
    BY EmptySeq, MaxWorksAssumption
  <2> QED  BY <2>1 DEF Init, InitApp, TypeOK, Owners, BgPoints, MainPoints, Leaving
<1> DEFINE Bound == bg = "enqueue" => enqueued < MaxWorks
<1>2. Init => Bound
  BY DEF Init
<1>3. TypeOK /\ Bound /\ [Next]_vars => TypeOK' /\ Bound'
  <2> SUFFICES ASSUME TypeOK, Bound, [Next]_vars
               PROVE  TypeOK' /\ Bound'
    OBVIOUS
  <2> USE DEF TypeOK, Owners, BgPoints, MainPoints, Leaving
  <2>1. CASE UNCHANGED vars
    BY <2>1
  <2>2. CASE BgLock \/ BgStep
    <3>1. inbox' \in Seq(BOOLEAN)
      BY <2>2, InboxType DEF Next, BgStep
    <3>2. CASE BgLock
      BY <3>1, <3>2 DEF BgLock
    <3>3. CASE BgEnqueue
      <4>1. enqueued' \in 0..MaxWorks
        BY <3>3, MaxWorksAssumption DEF BgEnqueue
      <4> QED  BY <3>1, <3>3, <4>1 DEF BgEnqueue
    <3>4. CASE CallbackSignal
      BY <3>1, <3>4 DEF CallbackSignal
    <3>5. CASE CallbackLock \/ BgUnlock \/ BgExit
      BY <3>1, <3>5 DEF CallbackLock, BgUnlock, BgExit
    <3> QED  BY <2>2, <3>2, <3>3, <3>4, <3>5 DEF BgStep
  <2>3. CASE \E i \in DOMAIN inbox : BgCancel(i)
    <3>1. inbox' \in Seq(BOOLEAN)
      BY <2>3, InboxType DEF Next
    <3> QED  BY <2>3, <3>1 DEF BgCancel
  <2>4. CASE Register \/ Top \/ Wait \/ TakeFlag \/ Awake \/ Unlock
    <3>1. CASE Register
      BY <3>1 DEF Register
    <3>2. CASE Top
      BY <3>2 DEF Top
    <3>3. CASE Wait \/ TakeFlag
      BY <3>3 DEF Wait, TakeFlag
    <3>4. CASE Awake \/ Unlock
      BY <3>4 DEF Awake, Unlock
    <3> QED  BY <2>4, <3>1, <3>2, <3>3, <3>4
  <2>5. CASE NextWork \/ NextWorkNone
    <3>1. inbox' \in Seq(BOOLEAN)
      BY <2>5, InboxType DEF Next, MainStep, Serve
    <3> QED  BY <2>5, <3>1 DEF NextWork, NextWorkNone, More
  <2>6. CASE Finish \/ SpuriousWakeup \/ Idle
    BY <2>6 DEF Finish, SpuriousWakeup, Idle
  <2>7. CASE CreateThread \/ Leave \/ RemoveCallback \/ Join
    <3>1. CASE CreateThread \/ Leave
      BY <3>1 DEF CreateThread, Leave
    <3>2. CASE RemoveCallback \/ Join
      BY <3>2 DEF RemoveCallback, Join
    <3> QED  BY <2>7, <3>1, <3>2
  <2>8. CASE Joined \/ Close \/ DeleteWorks
    <3>1. inbox' \in Seq(BOOLEAN)
      BY <2>8, InboxType DEF Next, MainStep, Live
    <3> QED  BY <2>8, <3>1 DEF Joined, Close, DeleteWorks
  <2> QED  BY <2>1, <2>2, <2>3, <2>4, <2>5, <2>6, <2>7, <2>8 DEF Next, MainStep, Serve, Live
<1> QED  BY <1>1, <1>2, <1>3, PTL DEF Spec
=============================================================================
