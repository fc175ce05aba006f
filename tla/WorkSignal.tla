----------------------------- MODULE WorkSignal -----------------------------
(***************************************************************************)
(* How work reaches the thread of an application: the inbox of class hcd   *)
(* under hcd::_lock, the callback that hcd makes with that lock held, and  *)
(* the condition variable of examples/virtual_device.cpp that the callback *)
(* signals and the main loop waits on; and the life of the background      *)
(* thread, from its start in the constructor to the join in the destructor,*)
(* for a program that may leave its main loop.                             *)
(*                                                                         *)
(* What a work is does not matter here; a work in the inbox is the Boolean *)
(* that tells whether it has been canceled.  The background thread is the  *)
(* only one that enqueues and cancels.                                     *)
(***************************************************************************)
EXTENDS Integers, Sequences

CONSTANT MaxWorks       \* bound: number of works enqueued

ASSUME MaxWorksAssumption == MaxWorks \in Nat

VARIABLES
    inbox,              \* hcd::inbox
    registered,         \* signal_work_enqueued is in work_enqueued_callbacks
    enqueued,           \* number of works enqueued so far
    _lock,              \* who holds hcd::_lock
    has_work_mutex,     \* who holds has_work_mutex
    has_work, waiting_for_work,
    bg,                 \* where the background thread is
    main, cont,         \* where the main thread is, and its variable cont
    thread_shutdown,
    fd                  \* local_hcd::fd

queueVars == <<inbox, registered, enqueued>>
appVars  == <<has_work, waiting_for_work>>
lifeVars == <<thread_shutdown, fd>>
vars == <<queueVars, _lock, has_work_mutex, appVars, bg, main, cont, lifeVars>>

Owners     == {"none", "bg", "main"}
BgPoints   == {"none", "idle", "enqueue", "callback", "signal", "unlock", "exited"}
Leaving    == {"leave", "join", "joining", "close", "delete", "gone"}
MainPoints == {"construct", "start", "top", "check", "asleep", "awake", "unlock",
               "next", "work"} \cup Leaving

TypeOK ==
    /\ inbox \in Seq(BOOLEAN)
    /\ enqueued \in 0..MaxWorks
    /\ _lock \in Owners /\ has_work_mutex \in Owners
    /\ registered \in BOOLEAN /\ cont \in BOOLEAN
    /\ has_work \in BOOLEAN /\ waiting_for_work \in BOOLEAN
    /\ bg \in BgPoints /\ main \in MainPoints
    /\ thread_shutdown \in BOOLEAN /\ fd \in {"open", "closed"}

\* Mutation: has_work starts as false.
InitIdle == /\ has_work = FALSE /\ waiting_for_work = FALSE

InitApp == has_work = TRUE /\ waiting_for_work = FALSE

(* The constructor of local_hcd has opened the driver.                     *)
Init ==
    /\ inbox = <<>> /\ registered = FALSE /\ enqueued = 0
    /\ _lock = "none" /\ has_work_mutex = "none"
    /\ InitApp
    /\ bg = "none" /\ main = "construct" /\ cont = FALSE
    /\ thread_shutdown = FALSE /\ fd = "open"

-----------------------------------------------------------------------------
(* The background thread.                                                  *)

BgLock ==
    /\ bg = "idle" /\ enqueued < MaxWorks /\ _lock = "none"
    /\ _lock' = "bg" /\ bg' = "enqueue"
    /\ UNCHANGED <<queueVars, has_work_mutex, appVars, main, cont, lifeVars>>

(* enqueue_work, then on_work_enqueued calls what is registered.           *)
BgEnqueue ==
    /\ bg = "enqueue"
    /\ inbox' = Append(inbox, FALSE) /\ enqueued' = enqueued + 1
    /\ bg' = IF registered THEN "callback" ELSE "unlock"
    /\ UNCHANGED <<registered, _lock, has_work_mutex, appVars, main, cont, lifeVars>>

CallbackLock ==
    /\ bg = "callback" /\ has_work_mutex = "none"
    /\ has_work_mutex' = "bg" /\ bg' = "signal"
    /\ UNCHANGED <<queueVars, _lock, appVars, main, cont, lifeVars>>

\* Mutation: has_work is set only for a thread that does not wait.
CallbackElse ==
    /\ bg = "signal"
    /\ IF waiting_for_work
       THEN /\ waiting_for_work' = FALSE /\ UNCHANGED has_work
            /\ main' = IF main = "asleep" THEN "awake" ELSE main
       ELSE has_work' = TRUE /\ UNCHANGED <<waiting_for_work, main>>
    /\ has_work_mutex' = "none" /\ bg' = "unlock"
    /\ UNCHANGED <<queueVars, _lock, cont, lifeVars>>

(* signal_work_enqueued; pthread_cond_signal is lost if nobody waits.      *)
CallbackSignal ==
    /\ bg = "signal"
    /\ has_work' = TRUE /\ waiting_for_work' = FALSE
    /\ main' = IF waiting_for_work /\ main = "asleep" THEN "awake" ELSE main
    /\ has_work_mutex' = "none" /\ bg' = "unlock"
    /\ UNCHANGED <<queueVars, _lock, cont, lifeVars>>

BgUnlock ==
    /\ bg = "unlock"
    /\ _lock' = "none" /\ bg' = "idle"
    /\ UNCHANGED <<queueVars, has_work_mutex, appVars, main, cont, lifeVars>>

(* cancel_process_urb_work for a work in the inbox: marked, but not removed*)
BgCancel(i) ==
    /\ bg = "idle" /\ _lock = "none" /\ i \in DOMAIN inbox
    /\ inbox' = [inbox EXCEPT ![i] = TRUE]
    /\ UNCHANGED <<registered, enqueued, _lock, has_work_mutex, appVars, bg, main, cont, lifeVars>>

(* The loop of bg_thread_start ends.                                       *)
BgExit ==
    /\ bg = "idle" /\ thread_shutdown
    /\ bg' = "exited"
    /\ UNCHANGED <<queueVars, _lock, has_work_mutex, appVars, main, cont, lifeVars>>

-----------------------------------------------------------------------------
(* The main thread.                                                        *)

(* init_bg_thread.  If there is no thread to be had the constructor throws;*)
(* the destructor does not run then, and fd stays open.                    *)
CreateThread ==
    /\ main = "construct"
    /\ \/ bg' = "idle" /\ main' = "start"
       \/ main' = "gone" /\ UNCHANGED bg
    /\ UNCHANGED <<queueVars, _lock, has_work_mutex, appVars, cont, lifeVars>>

(* add_work_enqueued_callback; works may have been enqueued before.        *)
Register ==
    /\ main = "start" /\ _lock = "none"
    /\ registered' = TRUE /\ main' = "top"
    /\ UNCHANGED <<inbox, enqueued, _lock, has_work_mutex, appVars, bg, cont, lifeVars>>

(* It looks at has_work only if next_work has not promised more.           *)
Top ==
    /\ main = "top"
    /\ IF cont THEN main' = "next" /\ UNCHANGED has_work_mutex
               ELSE /\ has_work_mutex = "none"
                    /\ has_work_mutex' = "main" /\ main' = "check"
    /\ UNCHANGED <<queueVars, _lock, appVars, bg, cont, lifeVars>>

(* pthread_cond_wait releases the mutex and sleeps in one step.            *)
Wait ==
    /\ main = "check" /\ ~has_work
    /\ waiting_for_work' = TRUE
    /\ has_work_mutex' = "none" /\ main' = "asleep"
    /\ UNCHANGED <<queueVars, _lock, has_work, bg, cont, lifeVars>>

TakeFlag ==
    /\ main = "check" /\ has_work
    /\ has_work' = FALSE /\ main' = "unlock"
    /\ UNCHANGED <<queueVars, _lock, has_work_mutex,
                   waiting_for_work, bg, cont, lifeVars>>

SpuriousWakeup ==
    /\ main = "asleep" /\ main' = "awake"
    /\ UNCHANGED <<queueVars, _lock, has_work_mutex, appVars, bg, cont, lifeVars>>

Awake ==
    /\ main = "awake" /\ has_work_mutex = "none"
    /\ has_work_mutex' = "main" /\ main' = "unlock"
    /\ UNCHANGED <<queueVars, _lock, appVars, bg, cont, lifeVars>>

\* Mutation: next_work is called before has_work_mutex is released.
HoldMutex ==
    /\ main = "unlock" /\ main' = "next"
    /\ UNCHANGED <<queueVars, _lock, has_work_mutex, appVars, bg, cont, lifeVars>>

Unlock ==
    /\ main = "unlock"
    /\ has_work_mutex' = "none" /\ main' = "next"
    /\ UNCHANGED <<queueVars, _lock, appVars, bg, cont, lifeVars>>

\* Mutation: next_work never promises more.
NeverMore(rest) == FALSE

More(rest) == rest # <<>>

(* next_work: canceled works at the front are deleted; the answer tells    *)
(* whether the inbox still holds any work, canceled or not.                *)
NextWork ==
    /\ main = "next" /\ _lock = "none"
    /\ \E i \in DOMAIN inbox :
          /\ ~inbox[i] /\ \A j \in 1..(i - 1) : inbox[j]
          /\ inbox' = SubSeq(inbox, i + 1, Len(inbox))
          /\ cont' = More(inbox') /\ main' = "work"
    /\ UNCHANGED <<registered, enqueued, _lock, has_work_mutex, appVars, bg, lifeVars>>

NextWorkNone ==
    /\ main = "next" /\ _lock = "none"
    /\ \A i \in DOMAIN inbox : inbox[i]
    /\ inbox' = <<>> /\ cont' = FALSE /\ main' = "top"
    /\ UNCHANGED <<registered, enqueued, _lock, has_work_mutex, appVars, bg, lifeVars>>

(* What the work asks for, then finish_work.                               *)
Finish ==
    /\ main = "work" /\ _lock = "none"
    /\ main' = "top"
    /\ UNCHANGED <<queueVars, _lock, has_work_mutex, appVars, bg, cont, lifeVars>>

(* The program has had enough; it removes its callback, or, as the example *)
(* does when it returns, it does not.                                      *)
Leave ==
    /\ main = "top" /\ main' \in {"leave", "join"}
    /\ UNCHANGED <<queueVars, _lock, has_work_mutex, appVars, bg, cont, lifeVars>>

\* Mutation: remove_work_enqueued_callback does not take the lock.
RemoveUnlocked ==
    /\ main = "leave"
    /\ registered' = FALSE /\ main' = "join"
    /\ UNCHANGED <<inbox, enqueued, _lock, has_work_mutex, appVars, bg, cont, lifeVars>>

RemoveCallback ==
    /\ main = "leave" /\ _lock = "none"
    /\ registered' = FALSE /\ main' = "join"
    /\ UNCHANGED <<inbox, enqueued, _lock, has_work_mutex, appVars, bg, cont, lifeVars>>

\* Mutation: join_bg_thread does not set thread_shutdown.
JoinSilently ==
    /\ main = "join" /\ main' = "joining"
    /\ UNCHANGED <<queueVars, _lock, has_work_mutex, appVars, bg, cont, lifeVars>>

(* The destructor of local_hcd: join_bg_thread, then usb_vhci_close.       *)
Join ==
    /\ main = "join" /\ main' = "joining"
    /\ thread_shutdown' = TRUE
    /\ UNCHANGED <<queueVars, _lock, has_work_mutex, appVars, bg, cont, fd>>

\* Mutation: pthread_join is missing.
JoinedAtOnce ==
    /\ main = "joining" /\ main' = "close"
    /\ thread_shutdown' = FALSE
    /\ UNCHANGED <<queueVars, _lock, has_work_mutex, appVars, bg, cont, fd>>

Joined ==
    /\ main = "joining" /\ bg = "exited"
    /\ thread_shutdown' = FALSE /\ main' = "close"
    /\ UNCHANGED <<queueVars, _lock, has_work_mutex, appVars, bg, cont, fd>>

Close ==
    /\ main = "close" /\ main' = "delete"
    /\ fd' = "closed"
    /\ UNCHANGED <<queueVars, _lock, has_work_mutex, appVars, bg, cont, thread_shutdown>>

(* The destructor of hcd: there is no thread to join any more; the works   *)
(* are deleted.                                                            *)
DeleteWorks ==
    /\ main = "delete" /\ main' = "gone"
    /\ inbox' = <<>>
    /\ UNCHANGED <<registered, enqueued, _lock, has_work_mutex, appVars, bg, cont, lifeVars>>

(* Nothing is left to do, and the main thread sleeps or is gone.           *)
Idle ==
    /\ \/ enqueued = MaxWorks /\ bg = "idle" /\ main = "asleep"
       \/ main = "gone"
    /\ UNCHANGED vars

-----------------------------------------------------------------------------
BgStep   == BgEnqueue \/ CallbackLock \/ CallbackSignal \/ BgUnlock \/ BgExit
Serve    == \/ Register \/ Top \/ Wait \/ TakeFlag \/ Awake \/ Unlock
            \/ NextWork \/ NextWorkNone \/ Finish
Live     == CreateThread \/ RemoveCallback \/ Join \/ Joined \/ Close \/ DeleteWorks
MainStep == Serve \/ Live

Next ==
    \/ BgLock \/ BgStep \/ \E i \in DOMAIN inbox : BgCancel(i)
    \/ MainStep \/ SpuriousWakeup \/ Leave
    \/ Idle

(* Both threads are scheduled.  No work has to be enqueued or canceled, no *)
(* wakeup has to be spurious, and the program need not leave its loop.     *)
Spec == Init /\ [][Next]_vars /\ WF_vars(BgStep) /\ WF_vars(MainStep)

-----------------------------------------------------------------------------
(* No wakeup is lost: while the main thread sleeps and the background      *)
(* thread is outside the lock, the inbox is empty.  This rests on has_work *)
(* being true before the callback is registered, on the flag being set     *)
(* whether or not anyone waits, and on the answer of next_work.            *)
NoLostWakeup == main = "asleep" /\ bg = "idle" => inbox = <<>>

(* Every work leaves the inbox in the end: the callback takes one lock     *)
(* while the background thread holds the other, but the main thread never  *)
(* holds both, so they do not block each other; and no work has to wait for*)
(* the next one to be announced.                                           *)
EveryWorkTaken ==
    \A k \in 1..MaxWorks :
        enqueued >= k ~> enqueued - Len(inbox) >= k \/ main \in Leaving

(* When remove_work_enqueued_callback has returned the callback is not     *)
(* running and will not be called: the program may destroy what it uses.   *)
NoCallbackAfterRemoval == ~registered => bg \notin {"callback", "signal"}

(* The driver stays open, and the works exist, as long as there is a thread*)
(* that uses them.                                                         *)
OutlivesThread ==
    bg \notin {"none", "exited"} => fd = "open" /\ main \notin {"delete", "gone"}

(* The destructor returns: the thread sees thread_shutdown, whatever it is *)
(* doing, and waits for nothing that the main thread holds meanwhile.      *)
DestructorReturns == main = "join" ~> main = "gone"
=============================================================================
