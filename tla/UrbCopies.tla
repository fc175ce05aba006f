----------------------------- MODULE UrbCopies -----------------------------
(***************************************************************************)
(* Copies of urbs and of the works that own them: the copy constructors,   *)
(* assignments and destructors of class urb and class process_urb_work, of *)
(* which any new may throw bad_alloc in the middle.                        *)
(*                                                                         *)
(* Every urb here has a buffer, and an isochronous one packets as well.  An*)
(* object is on the heap as long as a pointer should lead to it; reading or*)
(* deleting what is not there any more is undefined behaviour, after which *)
(* nothing can be said and the model stops.                                *)
(***************************************************************************)
EXTENDS Integers, FiniteSets

CONSTANTS
    Works,          \* the process_urb_work objects of a program
    Blocks,         \* the blocks the heap can give out
    Data            \* what a buffer or the packets may hold

Null == 0

ASSUME BlocksAssumption == Blocks \subseteq Nat \ {Null} /\ IsFiniteSet(Blocks)
ASSUME DataAssumption == Data \subseteq STRING \ {"none", "junk"}

VARIABLES
    heap,           \* what each block holds
    urb,            \* process_urb_work::urb; Null: there is no such work
    undefined,      \* undefined behaviour was met
    \* history
    meant,          \* what the urb of each work should hold
    broken,         \* what an assignment that failed has made of a work
    leaky           \* an isochronous urb could not be constructed

vars == <<heap, urb, undefined, meant, broken, leaky>>

Free       == [kind |-> "free"]
Array(x)   == [kind |-> "array", data |-> x]
Urb(iso, buffer, packets) ==
    [kind |-> "urb", iso |-> iso, buffer |-> buffer, packets |-> packets]

AllData  == Data \cup {"junk"}
Contents == [buffer : AllData, packets : AllData \cup {"none"}]

Nothing  == [buffer |-> "junk", packets |-> "none"]

TypeOK ==
    /\ heap \in [Blocks -> {Free} \cup {Array(x) : x \in AllData} \cup
                     {Urb(iso, b, p) : iso \in BOOLEAN, b, p \in Blocks \cup {Null}}]
    /\ urb \in [Works -> Blocks \cup {Null}]
    /\ undefined \in BOOLEAN
    /\ meant \in [Works -> Contents]
    /\ broken \in [Works -> {"no", "junk", "empty", "dangling"}]
    /\ leaky \in BOOLEAN

Init ==
    /\ heap = [b \in Blocks |-> Free]
    /\ urb = [w \in Works |-> Null]
    /\ undefined = FALSE
    /\ meant = [w \in Works |-> Nothing]
    /\ broken = [w \in Works |-> "no"]
    /\ leaky = FALSE

-----------------------------------------------------------------------------
(* Class urb, on a heap h.  What a function that allocates may leave behind*)
(* is a set of outcomes: every new may throw.                              *)

FreeBlocks(h) == {b \in Blocks : h[b] = Free}
New(h)        == CHOOSE b \in FreeBlocks(h) : TRUE
Room(h)       == Cardinality(FreeBlocks(h)) >= 3

Done(h, u)  == [heap |-> h, urb |-> u, threw |-> FALSE]
Threw(h, u) == [heap |-> h, urb |-> u, threw |-> TRUE]

Attach(h, u, array, x) == [h EXCEPT ![New(h)] = Array(x), ![u][array] = New(h)]

\* Mutations: _cpy takes every urb for an isochronous one; it allocates the
\* packets, but does not copy them.
CpyPackets(h, u, iso, x) ==
    LET bare == [h EXCEPT ![u] = Urb(iso, Null, Null)]
    IN  IF Room(bare)
        THEN {Done(Attach(Attach(bare, u, "buffer", x.buffer), u, "packets", x.packets), u)}
        ELSE {Threw(bare, u)}
CpyBuffer(h, u, iso, x) ==
    LET bare   == [h EXCEPT ![u] = Urb(iso, Null, Null)]
        buffer == Attach(bare, u, "buffer", x.buffer)
    IN  IF Room(bare)
        THEN {Done(IF iso THEN Attach(buffer, u, "packets", "junk") ELSE buffer, u)}
        ELSE {Threw(bare, u)}

(* _cpy: the pointers of the urb in block u are null, and get copies of the*)
(* buffer and the packets one after the other.                             *)
Cpy(h, u, iso, x) ==
    LET bare   == [h EXCEPT ![u] = Urb(iso, Null, Null)]
        buffer == Attach(bare, u, "buffer", x.buffer)
    IN  {Threw(bare, u)}
        \cup (IF ~Room(bare) THEN {}
              ELSE IF iso THEN {Threw(buffer, u),
                                Done(Attach(buffer, u, "packets", x.packets), u)}
              ELSE {Done(buffer, u)})

(* new urb(...), which copies; if its constructor throws, the memory of the*)
(* object is released, but its destructor does not run.                    *)
NewUrb(h, iso, x) ==
    {Threw(h, Null)}
    \cup {IF o.threw THEN Threw([o.heap EXCEPT ![o.urb] = Free], Null) ELSE o :
             o \in IF Room(h) THEN Cpy(h, New(h), iso, x) ELSE {}}

\* Mutation: the assignment does not delete what the urb had.
ArraysKept(h, u) == h

DeleteArrays(h, u) ==
    [b \in Blocks |-> IF b \in {h[u].buffer, h[u].packets} THEN Free ELSE h[b]]

DeleteUrb(h, u) == [DeleteArrays(h, u) EXCEPT ![u] = Free]

IsUrb(h, u) == u # Null /\ h[u].kind = "urb"

Whole(h, u) ==
    /\ IsUrb(h, u)
    /\ h[u].buffer # Null /\ h[h[u].buffer].kind = "array"
    /\ h[u].iso => h[u].packets # Null /\ h[h[u].packets].kind = "array"

ContentsOf(h, u) ==
    [buffer  |-> h[h[u].buffer].data,
     packets |-> IF h[u].iso THEN h[h[u].packets].data ELSE "none"]

-----------------------------------------------------------------------------
(* The works.                                                              *)

Exists(w)   == ~undefined /\ urb[w] # Null
Missing(w)  == ~undefined /\ urb[w] = Null
Owns(w)     == Exists(w) /\ broken[w] # "dangling" /\ IsUrb(heap, urb[w])
Readable(w) == Owns(w) /\ Whole(heap, urb[w])

(* w has got the new urb of outcome o, which holds x.                      *)
Constructed(w, o, x, how) ==
    /\ ~o.threw /\ heap' = o.heap
    /\ urb' = [urb EXCEPT ![w] = o.urb]
    /\ meant' = [meant EXCEPT ![w] = x]
    /\ broken' = [broken EXCEPT ![w] = how]
    /\ UNCHANGED <<undefined, leaky>>

NotConstructed(o, iso) ==
    /\ o.threw /\ heap' = o.heap
    /\ leaky' = (leaky \/ iso)
    /\ UNCHANGED <<urb, undefined, meant>>

(* A work around an urb that is made from what the kernel sent.            *)
Construct(w, x) ==
    /\ Missing(w)
    /\ \E o \in NewUrb(heap, x.packets # "none", x) :
          \/ Constructed(w, o, x, "no")
          \/ NotConstructed(o, x.packets # "none") /\ UNCHANGED broken

\* Mutation: process_urb_work has no copy constructor of its own.
CopyPointer(w, v) ==
    /\ Missing(w) /\ Readable(v)
    /\ Constructed(w, Done(heap, urb[v]), meant[v], broken[v])

(* The copy constructor of process_urb_work.                               *)
Copy(w, v) ==
    /\ Missing(w) /\ Readable(v)
    /\ \E o \in NewUrb(heap, heap[urb[v]].iso, ContentsOf(heap, urb[v])) :
          \/ Constructed(w, o, meant[v], broken[v])
          \/ NotConstructed(o, heap[urb[v]].iso) /\ UNCHANGED broken

(* process_urb_work::operator=.  If it throws, the pointer dangles; a work *)
(* that is assigned to itself reads the urb it has just deleted.           *)
AssignWork(w, v) ==
    /\ Owns(w) /\ Readable(v)
    /\ IF w = v
       THEN /\ undefined' = TRUE /\ broken' = [broken EXCEPT ![w] = "dangling"]
            /\ UNCHANGED <<heap, urb, meant, leaky>>
       ELSE \E o \in NewUrb(DeleteUrb(heap, urb[w]), heap[urb[v]].iso,
                            ContentsOf(heap, urb[v])) :
               \/ Constructed(w, o, meant[v], broken[v])
               \/ /\ NotConstructed(o, heap[urb[v]].iso)
                  /\ broken' = [broken EXCEPT ![w] = "dangling"]

(* urb::operator= on the urbs of two works.  If it throws, the urb is left *)
(* without arrays; if it is assigned to itself, _cpy copies the arrays it  *)
(* has just allocated onto themselves.                                     *)
AssignUrb(w, v) ==
    /\ Owns(w) /\ Readable(v)
    /\ LET x == IF w = v THEN [buffer |-> "junk", packets |-> "junk"]
                ELSE ContentsOf(heap, urb[v])
       IN  \E o \in Cpy(DeleteArrays(heap, urb[w]), urb[w], heap[urb[v]].iso, x) :
              /\ heap' = o.heap
              /\ meant' = [meant EXCEPT ![w] = meant[v]]
              /\ broken' = [broken EXCEPT ![w] = IF o.threw THEN "empty"
                                                 ELSE IF w = v THEN "junk" ELSE broken[v]]
    /\ UNCHANGED <<urb, undefined, leaky>>

(* A user writes through get_buffer or sets the results of the packets.    *)
Write(w, array, x) ==
    /\ Readable(w) /\ heap[urb[w]][array] # Null
    /\ heap' = [heap EXCEPT ![heap[urb[w]][array]] = Array(x)]
    /\ meant' = [meant EXCEPT ![w][array] = x]
    /\ UNCHANGED <<urb, undefined, broken, leaky>>

(* The destructors; an urb without arrays can be destroyed.                *)
Destroy(w) ==
    /\ Owns(w)
    /\ heap' = DeleteUrb(heap, urb[w]) /\ urb' = [urb EXCEPT ![w] = Null]
    /\ meant' = [meant EXCEPT ![w] = Nothing] /\ broken' = [broken EXCEPT ![w] = "no"]
    /\ UNCHANGED <<undefined, leaky>>

(* A work is read whose urb is not whole, or one is assigned to or         *)
(* destroyed whose pointer dangles.                                        *)
Misuse(w) ==
    /\ Exists(w) /\ ~Readable(w)
    /\ undefined' = TRUE
    /\ UNCHANGED <<heap, urb, meant, broken, leaky>>

Undefined == undefined /\ UNCHANGED vars

Next ==
    \/ \E w \in Works, b \in Data, p \in Data \cup {"none"} :
          Construct(w, [buffer |-> b, packets |-> p])
    \/ \E w, v \in Works : Copy(w, v) \/ AssignWork(w, v) \/ AssignUrb(w, v)
    \/ \E w \in Works, array \in {"buffer", "packets"}, x \in Data : Write(w, array, x)
    \/ \E w \in Works : Destroy(w) \/ Misuse(w)
    \/ Undefined

Spec == Init /\ [][Next]_vars

-----------------------------------------------------------------------------
(* However works and urbs are copied, assigned and destroyed, and whatever *)
(* allocation throws: behaviour is undefined only for a work that is left  *)
(* over from an assignment that threw, or was assigned to itself.          *)
UndefinedOnlyIfBroken ==
    undefined => \E w \in Works : broken[w] \in {"empty", "dangling"}

(* A copy is deep: every urb holds what was last written to it or to what  *)
(* it was copied from, and no write to another, and no end of another,     *)
(* changes that, unless the urb was assigned to itself or its last         *)
(* assignment threw.                                                       *)
ValuesKept ==
    ~undefined =>
        \A w \in Works :
            urb[w] # Null /\ broken[w] = "no" =>
                Whole(heap, urb[w]) /\ ContentsOf(heap, urb[w]) = meant[w]

(* Nothing leaks but the buffer of an isochronous urb for whose packets    *)
(* there was no memory.                                                    *)
Owned == UNION {{urb[w], heap[urb[w]].buffer, heap[urb[w]].packets} :
                    w \in {v \in Works : Owns(v)}}

LeaksOnlyBuffers ==
    ~undefined =>
        \A b \in Blocks \ Owned :
            heap[b] = Free \/ (leaky /\ heap[b].kind = "array")
=============================================================================
