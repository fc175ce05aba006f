---------------------------- MODULE UrbLifecycle ----------------------------
(***************************************************************************)
(* What the library promises about the life of an urb, without queues,     *)
(* threads, memory or ports.  The kernel hands an urb to the library, which*)
(* holds it, hands it out to a user at most once, and completes it exactly *)
(* once: when the user has finished it, or, if the usb core wants it back  *)
(* before a user has got it, at once.  A user who has it already is given a*)
(* notice instead, one for every time the core asks.  What the library     *)
(* cannot route, or cannot read the data of, it may drop, until the driver *)
(* is closed.                                                              *)
(***************************************************************************)
CONSTANT Urbs

VARIABLES
    place,      \* where each urb is
    wanted,     \* the urbs the usb core wants back
    noticed,    \* the urbs whose user has a notice waiting for him
    closed      \* the controller is gone

vars == <<place, wanted, noticed, closed>>

Places == {"new", "library", "user", "dropped", "completed"}

Init ==
    /\ place = [x \in Urbs |-> "new"]
    /\ wanted = {} /\ noticed = {} /\ closed = FALSE

Move(x, from, to) ==
    ~closed /\ place[x] = from /\ place' = [place EXCEPT ![x] = to]

Submit(x) ==
    /\ Move(x, "new", "library") \/ Move(x, "new", "dropped")
    /\ UNCHANGED <<wanted, noticed, closed>>

(* The usb core gives up on an urb it still waits for.                     *)
Unlink(x) ==
    /\ ~closed /\ place[x] \in {"library", "user", "dropped"}
    /\ x \notin wanted
    /\ wanted' = wanted \cup {x}
    /\ UNCHANGED <<place, noticed, closed>>

Drop(x) == Move(x, "library", "dropped") /\ UNCHANGED <<wanted, noticed, closed>>

HandOut(x) == Move(x, "library", "user") /\ UNCHANGED <<wanted, noticed, closed>>

(* The user answers the urb; it is too late to want it back.               *)
Finish(x) ==
    /\ Move(x, "user", "completed")
    /\ wanted' = wanted \ {x}
    /\ UNCHANGED <<noticed, closed>>

(* No user has seen the urb: it is completed, and nobody will.             *)
TakeBack(x) ==
    /\ x \in wanted /\ Move(x, "library", "completed")
    /\ wanted' = wanted \ {x}
    /\ UNCHANGED <<noticed, closed>>

(* A user has it: he is told.                                              *)
Notify(x) ==
    /\ ~closed /\ x \in wanted /\ place[x] = "user"
    /\ wanted' = wanted \ {x} /\ noticed' = noticed \cup {x}
    /\ UNCHANGED <<place, closed>>

(* The user takes the notice, though he may have finished the urb by now.  *)
Deliver(x) ==
    /\ ~closed /\ x \in noticed
    /\ noticed' = noticed \ {x}
    /\ UNCHANGED <<place, wanted, closed>>

(* The library knows nothing of an urb it has dropped.                     *)
Ignore(x) ==
    /\ ~closed /\ x \in wanted /\ place[x] = "dropped"
    /\ wanted' = wanted \ {x}
    /\ UNCHANGED <<place, noticed, closed>>

(* Closing the driver completes what the library and the users have.       *)
Close ==
    /\ ~closed /\ closed' = TRUE
    /\ place' = [x \in Urbs |-> IF place[x] \in {"library", "user"}
                                THEN "completed" ELSE place[x]]
    /\ wanted' = {} /\ noticed' = {}

Next ==
    \/ \E x \in Urbs : \/ Submit(x) \/ Unlink(x) \/ Drop(x) \/ HandOut(x)
                       \/ Finish(x) \/ TakeBack(x) \/ Notify(x) \/ Deliver(x)
                       \/ Ignore(x)
    \/ Close

Spec == Init /\ [][Next]_vars
=============================================================================
