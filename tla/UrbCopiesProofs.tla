-------------------------- MODULE UrbCopiesProofs --------------------------
(***************************************************************************)
(* Proofs that copies of urbs are deep, that they leak no more than the    *)
(* buffers of urbs that could not be made, and that behaviour is undefined *)
(* only for what a failed assignment or one to itself has left over: for   *)
(* any works, any heap and any data.                                       *)
(***************************************************************************)
EXTENDS UrbCopies, FiniteSetTheorems, TLAPS

Heaps == [Blocks -> {Free} \cup {Array(x) : x \in AllData} \cup
              {Urb(iso, b, p) : iso \in BOOLEAN, b, p \in Blocks \cup {Null}}]

(* The blocks of an urb, and what holds of an urb that a pointer leads to, *)
(* be it whole or not.                                                     *)
Parts(h, u) == {u, h[u].buffer, h[u].packets} \ {Null}

Sound(h, u) ==
    /\ u \in Blocks /\ h[u].kind = "urb"
    /\ h[u].buffer # u /\ h[u].packets # u
    /\ \A c \in Parts(h, u) \ {u} : c \in Blocks /\ h[c].kind = "array"
    /\ h[u].buffer = h[u].packets => h[u].packets = Null
    /\ ~h[u].iso => h[u].packets = Null

(* Every work whose pointer does not dangle has an urb of its own; if no   *)
(* assignment to it has failed the urb is whole, and holds what it should. *)
Live(w) == urb[w] # Null /\ broken[w] # "dangling"

UrbsSound   == \A w \in Works : Live(w) => Sound(heap, urb[w])
UrbsApart   == \A w, v \in Works :
                  Live(w) /\ Live(v) /\ w # v => Parts(heap, urb[w]) \cap Parts(heap, urb[v]) = {}
UrbsWhole   == \A w \in Works : Live(w) /\ broken[w] # "empty" => Whole(heap, urb[w])
UrbsRight   == \A w \in Works : Live(w) /\ broken[w] = "no" => ContentsOf(heap, urb[w]) = meant[w]
BlocksOwned == \A b \in Blocks :
                  \/ heap[b] = Free
                  \/ leaky /\ heap[b].kind = "array"
                  \/ \E w \in Works : Live(w) /\ b \in Parts(heap, urb[w])

Shape == UrbsSound /\ UrbsApart /\ UrbsWhole /\ UrbsRight /\ BlocksOwned

IInv == TypeOK /\ UndefinedOnlyIfBroken /\ (~undefined => Shape)

LEMMA TypedNext ==
    ASSUME heap' \in Heaps, urb' \in [Works -> Blocks \cup {Null}], undefined' \in BOOLEAN,
           meant' \in [Works -> Contents],
           broken' \in [Works -> {"no", "junk", "empty", "dangling"}], leaky' \in BOOLEAN
    PROVE  TypeOK'
BY DEF TypeOK, Heaps

LEMMA Typed ==
    ASSUME TypeOK
    PROVE  /\ heap \in Heaps /\ urb \in [Works -> Blocks \cup {Null}] /\ undefined \in BOOLEAN
           /\ meant \in [Works -> Contents]
           /\ broken \in [Works -> {"no", "junk", "empty", "dangling"}] /\ leaky \in BOOLEAN
BY DEF TypeOK, Heaps

-----------------------------------------------------------------------------
(* The heap.                                                               *)

LEMMA RoomForTwo ==
    ASSUME NEW h \in Heaps, Room(h)
    PROVE  /\ FreeBlocks(h) # {}
           /\ \A a : FreeBlocks(h) \ {a} # {}
<1> DEFINE F == FreeBlocks(h)
<1>1. IsFiniteSet(F)
  <2>1. F \subseteq Blocks
    BY DEF FreeBlocks
  <2> QED  BY <2>1, BlocksAssumption, FS_Subset
<1>2. Cardinality(F) \in Nat /\ Cardinality(F) >= 3
  BY <1>1, FS_CardinalityType DEF Room
<1> HIDE DEF F
<1>3. F # {}
  BY <1>2, FS_EmptySet
<1>4. ASSUME NEW a PROVE F \ {a} # {}
  <2>1. IsFiniteSet(F \ {a}) /\ Cardinality(F \ {a}) = IF a \in F THEN Cardinality(F) - 1 ELSE Cardinality(F)
    BY <1>1, FS_RemoveElement
  <2>2. Cardinality(F \ {a}) # 0
    BY <1>2, <2>1
  <2> QED  BY <2>2, FS_EmptySet
<1> QED  BY <1>3, <1>4 DEF F

(* An urb reads the same on every heap that agrees on its blocks.          *)
LEMMA Stable ==
    ASSUME NEW h, NEW g, NEW u, Sound(h, u), \A c \in Parts(h, u) : g[c] = h[c], Null \notin Blocks
    PROVE  /\ Sound(g, u) /\ Parts(g, u) = Parts(h, u) /\ g[u] = h[u]
           /\ Whole(g, u) <=> Whole(h, u)
           /\ Whole(h, u) => ContentsOf(g, u) = ContentsOf(h, u)
<1>1. u \in Parts(h, u)
  BY DEF Sound, Parts
<1>2. g[u] = h[u]
  BY <1>1
<1>3. Parts(g, u) = Parts(h, u)
  BY <1>2 DEF Parts
<1>4. Sound(g, u)
  BY <1>2, <1>3 DEF Sound
<1>5. /\ h[u].buffer # Null => g[h[u].buffer] = h[h[u].buffer]
      /\ h[u].packets # Null => g[h[u].packets] = h[h[u].packets]
  BY DEF Parts
<1>6. Whole(g, u) <=> Whole(h, u)
  BY <1>2, <1>5 DEF Whole, IsUrb
<1>7. Whole(h, u) => ContentsOf(g, u) = ContentsOf(h, u)
  BY <1>2, <1>5 DEF Whole, ContentsOf
<1> QED  BY <1>2, <1>3, <1>4, <1>6, <1>7

(* What the array array of the urb in u is attached to.                    *)
LEMMA AttachEffect ==
    ASSUME NEW h \in Heaps, NEW u \in Blocks, h[u].kind = "urb", FreeBlocks(h) # {},
           NEW array \in {"buffer", "packets"}, NEW x \in AllData
    PROVE  /\ New(h) \in Blocks /\ h[New(h)] = Free /\ New(h) # u
           /\ Attach(h, u, array, x) \in Heaps
           /\ Attach(h, u, array, x)[u].kind = "urb" /\ Attach(h, u, array, x)[u].iso = h[u].iso
           /\ array = "buffer" => /\ Attach(h, u, array, x)[u].buffer = New(h)
                                  /\ Attach(h, u, array, x)[u].packets = h[u].packets
           /\ array = "packets" => /\ Attach(h, u, array, x)[u].packets = New(h)
                                   /\ Attach(h, u, array, x)[u].buffer = h[u].buffer
           /\ Attach(h, u, array, x)[New(h)] = Array(x)
           /\ \A c \in Blocks \ {u, New(h)} : Attach(h, u, array, x)[c] = h[c]
<1>1. New(h) \in FreeBlocks(h)
  BY DEF New
<1>2. New(h) \in Blocks /\ h[New(h)] = Free /\ New(h) # u
  BY <1>1 DEF FreeBlocks, Free
<1> DEFINE n == New(h)
           g == Attach(h, u, array, x)
<1>3. g = [[h EXCEPT ![n] = Array(x)] EXCEPT ![u][array] = n]
  BY DEF Attach
<1> HIDE DEF n, g
<1>4. n \in Blocks /\ n # u
  BY <1>2 DEF n
<1>5. /\ g[u] = [h[u] EXCEPT ![array] = n] /\ g[n] = Array(x)
      /\ \A c \in Blocks \ {u, n} : g[c] = h[c]
  BY <1>3, <1>4 DEF Heaps
<1>6. PICK iso \in BOOLEAN, b \in Blocks \cup {Null}, p \in Blocks \cup {Null} :
          h[u] = [kind |-> "urb", iso |-> iso, buffer |-> b, packets |-> p]
  BY DEF Heaps, Free, Array, Urb
<1>7. g \in Heaps
  <2>1. g[u] \in {Urb(i, c, d) : i \in BOOLEAN, c, d \in Blocks \cup {Null}}
    BY <1>4, <1>5, <1>6 DEF Urb
  <2>2. g[n] \in {Array(y) : y \in AllData}
    BY <1>5
  <2> DEFINE S == {Free} \cup {Array(y) : y \in AllData} \cup
                     {Urb(i, d, e) : i \in BOOLEAN, d, e \in Blocks \cup {Null}}
  <2>3. g[u] \in S /\ g[n] \in S
    BY <2>1, <2>2
  <2>4. h \in [Blocks -> S] /\ Heaps = [Blocks -> S]
    BY DEF Heaps
  <2> HIDE DEF S
  <2>5. g = [c \in Blocks |-> g[c]]
    BY <1>3, <2>4
  <2>6. \A c \in Blocks : g[c] \in S
    BY <1>5, <2>3, <2>4
  <2> QED  BY <2>4, <2>5, <2>6
<1>8. /\ g[u].kind = "urb" /\ g[u].iso = h[u].iso
      /\ array = "buffer" => g[u].buffer = n /\ g[u].packets = h[u].packets
      /\ array = "packets" => g[u].packets = n /\ g[u].buffer = h[u].buffer
  BY <1>5, <1>6
<1> QED  BY <1>2, <1>5, <1>7, <1>8 DEF n, g

(* _cpy in block u: what it attaches was free before, and it leaves the    *)
(* other blocks alone; if it does not throw the urb is whole.              *)
Outcome(h, u, iso, x, g, threw) ==
    /\ g \in Heaps
    /\ Sound(g, u) /\ g[u].iso = iso
    /\ \A c \in Parts(g, u) \ {u} : h[c] = Free
    /\ \A c \in Blocks \ Parts(g, u) : g[c] = h[c]
    /\ ~threw => /\ Whole(g, u) /\ g[g[u].buffer].data = x.buffer
                 /\ iso => g[g[u].packets].data = x.packets
    /\ threw /\ ~iso => Parts(g, u) = {u}

LEMMA CpyOutcome ==
    ASSUME NEW h \in Heaps, NEW u \in Blocks, NEW iso \in BOOLEAN,
           NEW x, x.buffer \in AllData, iso => x.packets \in AllData,
           NEW o \in Cpy(h, u, iso, x)
    PROVE  /\ o.urb = u /\ o.threw \in BOOLEAN
           /\ Outcome(h, u, iso, x, o.heap, o.threw)
<1> DEFINE bare   == [h EXCEPT ![u] = Urb(iso, Null, Null)]
           buffer == Attach(bare, u, "buffer", x.buffer)
           both   == Attach(buffer, u, "packets", x.packets)
<1>1. u # Null /\ Null \notin Blocks
  BY BlocksAssumption
<1>2. bare \in Heaps /\ bare[u] = Urb(iso, Null, Null) /\ \A c \in Blocks \ {u} : bare[c] = h[c]
  <2> DEFINE S == {Free} \cup {Array(y) : y \in AllData} \cup
                     {Urb(i, d, e) : i \in BOOLEAN, d, e \in Blocks \cup {Null}}
  <2>1. h \in [Blocks -> S] /\ Heaps = [Blocks -> S]
    BY DEF Heaps
  <2>2. Urb(iso, Null, Null) \in S
    OBVIOUS
  <2> HIDE DEF S
  <2> QED  BY <2>1, <2>2
<1> HIDE DEF bare
<1>3. Outcome(h, u, iso, x, bare, TRUE)
  <2>1. /\ bare[u].kind = "urb" /\ bare[u].buffer = Null /\ bare[u].packets = Null
        /\ bare[u].iso = iso
    BY <1>2 DEF Urb
  <2>2. Parts(bare, u) = {u}
    BY <1>1, <2>1 DEF Parts
  <2>3. Sound(bare, u)
    BY <1>1, <2>1, <2>2 DEF Sound
  <2> QED  BY <1>2, <2>1, <2>2, <2>3 DEF Outcome
<1>4. ASSUME Room(bare)
      PROVE  /\ buffer \in Heaps /\ FreeBlocks(buffer) # {}
             /\ buffer[u].kind = "urb" /\ buffer[u].packets = Null /\ buffer[u].iso = iso
             /\ buffer[u].buffer = New(bare) /\ New(bare) \in Blocks \ {u} /\ h[New(bare)] = Free
             /\ buffer[New(bare)] = Array(x.buffer)
             /\ \A c \in Blocks \ {u, New(bare)} : buffer[c] = h[c]
  <2>1. FreeBlocks(bare) # {} /\ FreeBlocks(bare) \ {New(bare)} # {}
    BY <1>2, <1>4, RoomForTwo
  <2>2. bare[u].kind = "urb"
    BY <1>2 DEF Urb
  <2>3. /\ New(bare) \in Blocks /\ bare[New(bare)] = Free /\ New(bare) # u
        /\ buffer \in Heaps
        /\ buffer[u].kind = "urb" /\ buffer[u].packets = bare[u].packets
        /\ buffer[u].iso = bare[u].iso /\ buffer[u].buffer = New(bare)
        /\ buffer[New(bare)] = Array(x.buffer)
        /\ \A c \in Blocks \ {u, New(bare)} : buffer[c] = bare[c]
    BY <1>2, <2>1, <2>2, AttachEffect
  <2> HIDE DEF buffer
  <2>4. /\ buffer[u].kind = "urb" /\ buffer[u].packets = Null /\ buffer[u].iso = iso
        /\ buffer[u].buffer = New(bare)
    BY <1>2, <2>3 DEF Urb
  <2>5. FreeBlocks(buffer) # {}
    <3>1. PICK c \in FreeBlocks(bare) : c # New(bare)
      BY <2>1
    <3>2. c \in Blocks /\ bare[c] = Free /\ c # u
      BY <2>2, <3>1 DEF FreeBlocks, Free
    <3>3. buffer[c] = Free
      BY <2>3, <3>1, <3>2
    <3> QED  BY <3>2, <3>3 DEF FreeBlocks
  <2> QED  BY <1>2, <2>3, <2>4, <2>5
<1>5. ASSUME Room(bare) PROVE Outcome(h, u, iso, x, buffer, iso)
  <2>1. Parts(buffer, u) = {u, New(bare)}
    BY <1>1, <1>4, <1>5 DEF Parts
  <2>2. Sound(buffer, u)
    BY <1>1, <1>4, <1>5, <2>1 DEF Sound, Array
  <2>3. ~iso => Whole(buffer, u)
    BY <1>1, <1>4, <1>5 DEF Whole, IsUrb, Array
  <2>4. buffer[buffer[u].buffer].data = x.buffer
    BY <1>4, <1>5 DEF Array
  <2> HIDE DEF buffer
  <2> QED  BY <1>4, <1>5, <2>1, <2>2, <2>3, <2>4 DEF Outcome
<1>6. ASSUME Room(bare), iso PROVE Outcome(h, u, iso, x, both, FALSE)
  <2> HIDE DEF buffer
  <2>1. /\ New(buffer) \in Blocks /\ buffer[New(buffer)] = Free /\ New(buffer) # u
        /\ both \in Heaps
        /\ both[u].kind = "urb" /\ both[u].buffer = buffer[u].buffer
        /\ both[u].iso = buffer[u].iso /\ both[u].packets = New(buffer)
        /\ both[New(buffer)] = Array(x.packets)
        /\ \A c \in Blocks \ {u, New(buffer)} : both[c] = buffer[c]
    BY <1>4, <1>6, AttachEffect
  <2> HIDE DEF both
  <2>2. New(buffer) # New(bare)
    BY <1>4, <1>6, <2>1 DEF Array, Free
  <2>3. /\ both[u].kind = "urb" /\ both[u].iso = iso
        /\ both[u].buffer = New(bare) /\ both[u].packets = New(buffer)
    BY <1>4, <1>6, <2>1
  <2>4. /\ both[New(bare)] = Array(x.buffer) /\ h[New(buffer)] = Free
        /\ \A c \in Blocks \ {u, New(bare), New(buffer)} : both[c] = h[c]
    BY <1>4, <1>6, <2>1, <2>2
  <2>5. Parts(both, u) = {u, New(bare), New(buffer)}
    BY <1>1, <1>4, <1>6, <2>1, <2>3 DEF Parts
  <2>6. both[New(bare)].kind = "array" /\ both[New(buffer)].kind = "array"
    BY <2>1, <2>4 DEF Array
  <2>7. Sound(both, u)
    BY <1>4, <1>6, <2>1, <2>2, <2>3, <2>5, <2>6 DEF Sound
  <2>8. Whole(both, u)
    BY <1>1, <1>4, <1>6, <2>1, <2>3, <2>6 DEF Whole, IsUrb
  <2>9. both[both[u].buffer].data = x.buffer /\ both[both[u].packets].data = x.packets
    BY <2>1, <2>3, <2>4 DEF Array
  <2> QED  BY <1>4, <1>6, <2>1, <2>3, <2>4, <2>5, <2>7, <2>8, <2>9 DEF Outcome
<1>7. \/ o = Threw(bare, u)
      \/ Room(bare) /\ iso /\ o = Threw(buffer, u)
      \/ Room(bare) /\ iso /\ o = Done(both, u)
      \/ Room(bare) /\ ~iso /\ o = Done(buffer, u)
  BY DEF Cpy, bare
<1> HIDE DEF buffer, both
<1>8. CASE o = Threw(bare, u)
  <2>1. o.urb = u /\ o.heap = bare /\ o.threw = TRUE
    BY <1>8 DEF Threw
  <2> QED  BY <1>3, <2>1
<1>9. CASE Room(bare) /\ iso /\ o = Threw(buffer, u)
  <2>1. o.urb = u /\ o.heap = buffer /\ o.threw = TRUE
    BY <1>9 DEF Threw
  <2> QED  BY <1>5, <1>9, <2>1 DEF Outcome
<1>10. CASE Room(bare) /\ iso /\ o = Done(both, u)
  <2>1. o.urb = u /\ o.heap = both /\ o.threw = FALSE
    BY <1>10 DEF Done
  <2> QED  BY <1>6, <1>10, <2>1
<1>11. CASE Room(bare) /\ ~iso /\ o = Done(buffer, u)
  <2>1. o.urb = u /\ o.heap = buffer /\ o.threw = FALSE
    BY <1>11 DEF Done
  <2> QED  BY <1>5, <1>11, <2>1 DEF Outcome
<1> QED  BY <1>7, <1>8, <1>9, <1>10, <1>11

(* new urb: it throws and leaves at most one array behind, that of an      *)
(* isochronous urb; or there is a whole urb in free blocks.                *)
LEMMA NewUrbOutcome ==
    ASSUME NEW h \in Heaps, NEW iso \in BOOLEAN,
           NEW x, x.buffer \in AllData, iso => x.packets \in AllData,
           NEW o \in NewUrb(h, iso, x)
    PROVE  \/ /\ o.threw = TRUE /\ o.heap \in Heaps
              /\ \A c \in Blocks : \/ o.heap[c] = h[c]
                                   \/ iso /\ h[c] = Free /\ o.heap[c].kind = "array"
           \/ /\ o.threw = FALSE /\ o.urb \in Blocks /\ h[o.urb] = Free
              /\ Outcome(h, o.urb, iso, x, o.heap, FALSE)
<1>1. CASE o = Threw(h, Null)
  BY <1>1 DEF Threw
<1>2. ASSUME Room(h), NEW p \in Cpy(h, New(h), iso, x),
             o = IF p.threw THEN Threw([p.heap EXCEPT ![p.urb] = Free], Null) ELSE p
      PROVE  \/ /\ o.threw = TRUE /\ o.heap \in Heaps
                /\ \A c \in Blocks : \/ o.heap[c] = h[c]
                                     \/ iso /\ h[c] = Free /\ o.heap[c].kind = "array"
             \/ /\ o.threw = FALSE /\ o.urb \in Blocks /\ h[o.urb] = Free
                /\ Outcome(h, o.urb, iso, x, o.heap, FALSE)
  <2>1. New(h) \in Blocks /\ h[New(h)] = Free
    BY <1>2, RoomForTwo DEF New, FreeBlocks
  <2>2. p.urb = New(h) /\ p.threw \in BOOLEAN /\ Outcome(h, New(h), iso, x, p.heap, p.threw)
    BY <1>2, <2>1, CpyOutcome
  <2>3. CASE p.threw
    <3>1. o.threw = TRUE /\ o.heap = [p.heap EXCEPT ![New(h)] = Free]
      BY <1>2, <2>2, <2>3 DEF Threw
    <3> DEFINE S == {Free} \cup {Array(y) : y \in AllData} \cup
                       {Urb(i, d, e) : i \in BOOLEAN, d, e \in Blocks \cup {Null}}
    <3>2. p.heap \in [Blocks -> S] /\ Heaps = [Blocks -> S] /\ Free \in S
      <4>1. p.heap \in Heaps
        BY <2>2 DEF Outcome
      <4> QED  BY <4>1 DEF Heaps
    <3> HIDE DEF S
    <3>3. /\ o.heap \in Heaps /\ o.heap[New(h)] = h[New(h)]
          /\ \A c \in Blocks \ {New(h)} : o.heap[c] = p.heap[c]
      BY <2>1, <3>1, <3>2
    <3>4. ASSUME NEW c \in Blocks \ {New(h)}
          PROVE  o.heap[c] = h[c] \/ (iso /\ h[c] = Free /\ o.heap[c].kind = "array")
      <4>1. CASE c \in Parts(p.heap, New(h))
        <5>1. iso
          BY <2>2, <2>3, <3>4, <4>1 DEF Outcome
        <5>2. h[c] = Free /\ p.heap[c].kind = "array"
          BY <2>2, <3>4, <4>1 DEF Outcome, Sound
        <5> QED  BY <3>3, <5>1, <5>2
      <4>2. CASE c \notin Parts(p.heap, New(h))
        BY <2>2, <3>3, <4>2 DEF Outcome
      <4> QED  BY <4>1, <4>2
    <3>5. \A c \in Blocks : \/ o.heap[c] = h[c]
                            \/ iso /\ h[c] = Free /\ o.heap[c].kind = "array"
      <4>1. ASSUME NEW c \in Blocks, c = New(h)
            PROVE  o.heap[c] = h[c]
        <5>1. o.heap[New(h)] = h[New(h)]
          BY <3>3
        <5> QED  BY <5>1, <4>1
      <4> QED  BY ONLY <3>4, <4>1
    <3> QED  BY <3>1, <3>3, <3>5
  <2>4. CASE ~p.threw
    BY <1>2, <2>1, <2>2, <2>4
  <2> QED  BY <2>3, <2>4
<1> QED  BY <1>1, <1>2 DEF NewUrb

(* The destructors free the blocks of an urb and no other.                 *)
LEMMA DeleteEffect ==
    ASSUME NEW h \in Heaps, NEW u, Sound(h, u)
    PROVE  /\ DeleteUrb(h, u) \in Heaps /\ DeleteArrays(h, u) \in Heaps
           /\ \A c \in Parts(h, u) : DeleteUrb(h, u)[c] = Free
           /\ \A c \in Parts(h, u) \ {u} : DeleteArrays(h, u)[c] = Free
           /\ DeleteArrays(h, u)[u] = h[u]
           /\ \A c \in Blocks \ Parts(h, u) : /\ DeleteUrb(h, u)[c] = h[c]
                                              /\ DeleteArrays(h, u)[c] = h[c]
<1> DEFINE S == {Free} \cup {Array(y) : y \in AllData} \cup
                   {Urb(i, d, e) : i \in BOOLEAN, d, e \in Blocks \cup {Null}}
           g == DeleteArrays(h, u)
<1>1. h \in [Blocks -> S] /\ Heaps = [Blocks -> S] /\ Free \in S
  BY DEF Heaps
<1>2. u \in Blocks /\ u # Null /\ Parts(h, u) \subseteq Blocks /\ u \in Parts(h, u)
  BY BlocksAssumption DEF Sound, Parts
<1> HIDE DEF S
<1>3. g \in [Blocks -> S]
  BY <1>1 DEF DeleteArrays
<1>4. u \notin {h[u].buffer, h[u].packets}
  BY DEF Sound
<1>5. /\ \A c \in Parts(h, u) \ {u} : g[c] = Free
      /\ \A c \in Blocks \ Parts(h, u) : g[c] = h[c]
      /\ g[u] = h[u]
  <2>1. g = [b \in Blocks |-> IF b \in {h[u].buffer, h[u].packets} THEN Free ELSE h[b]]
    BY DEF DeleteArrays
  <2> HIDE DEF g
  <2>2. \A c \in Blocks : g[c] = IF c \in {h[u].buffer, h[u].packets} THEN Free ELSE h[c]
    BY <2>1
  <2>3. \A c \in Parts(h, u) \ {u} : c \in {h[u].buffer, h[u].packets} /\ c \in Blocks
    BY <1>2 DEF Parts
  <2>4. \A c \in Blocks \ Parts(h, u) : c \notin {h[u].buffer, h[u].packets}
    BY BlocksAssumption DEF Parts
  <2> QED  BY <1>2, <1>4, <2>2, <2>3, <2>4
<1> HIDE DEF g
<1>6. DeleteUrb(h, u) = [g EXCEPT ![u] = Free]
  BY DEF DeleteUrb, g
<1>7. DeleteUrb(h, u) \in Heaps /\ DeleteUrb(h, u)[u] = Free
      /\ \A c \in Blocks \ {u} : DeleteUrb(h, u)[c] = g[c]
  BY <1>1, <1>2, <1>3, <1>6
<1> QED  BY <1>1, <1>2, <1>3, <1>5, <1>7 DEF g

-----------------------------------------------------------------------------
(* What the works have.                                                    *)

LEMMA ContentsTyped ==
    ASSUME NEW h \in Heaps, NEW u, Sound(h, u), Whole(h, u)
    PROVE  /\ ContentsOf(h, u) \in Contents /\ h[u].iso \in BOOLEAN
           /\ ContentsOf(h, u).buffer \in AllData
           /\ h[u].iso => ContentsOf(h, u).packets \in AllData
           /\ ~h[u].iso => ContentsOf(h, u).packets = "none"
<1>1. \A c \in Blocks : h[c].kind = "array" => h[c].data \in AllData
  BY DEF Heaps, Free, Array, Urb
<1>2. \A c \in Blocks : h[c].kind = "urb" => h[c].iso \in BOOLEAN
  BY DEF Heaps, Free, Array, Urb
<1>3. h[h[u].buffer].data \in AllData /\ (h[u].iso => h[h[u].packets].data \in AllData)
  BY <1>1 DEF Sound, Whole, Parts
<1>4. h[u].iso \in BOOLEAN
  BY <1>2 DEF Sound
<1> QED  BY <1>3, <1>4 DEF ContentsOf, Contents

(* One work w has changed: what it has now is sound and shares no block    *)
(* with the others, whose blocks are as they were; nothing else is left    *)
(* over.                                                                   *)
LEMMA OneChanged ==
    ASSUME TypeOK, Shape, NEW w \in Works,
           \A v \in Works \ {w} :
               urb'[v] = urb[v] /\ broken'[v] = broken[v] /\ meant'[v] = meant[v],
           \A v \in Works \ {w} : Live(v) =>
               \A c \in Parts(heap, urb[v]) : heap'[c] = heap[c],
           Live(w)' => /\ Sound(heap', urb'[w])
                       /\ broken'[w] # "empty" => Whole(heap', urb'[w])
                       /\ broken'[w] = "no" => ContentsOf(heap', urb'[w]) = meant'[w]
                       /\ \A v \in Works \ {w} : Live(v) =>
                             Parts(heap', urb'[w]) \cap Parts(heap, urb[v]) = {},
           \A b \in Blocks :
               \/ heap'[b] = Free
               \/ leaky' /\ heap'[b].kind = "array"
               \/ Live(w)' /\ b \in Parts(heap', urb'[w])
               \/ \E v \in Works \ {w} : Live(v) /\ b \in Parts(heap, urb[v])
    PROVE  Shape'
<1>1. \A v \in Works : Live(v)' <=> urb'[v] # Null /\ broken'[v] # "dangling"
  BY DEF Live
<1>2. \A v \in Works \ {w} : Live(v)' <=> Live(v)
  BY <1>1 DEF Live
<1>3. ASSUME NEW v \in Works \ {w}, Live(v)
      PROVE  /\ Sound(heap', urb'[v]) /\ Parts(heap', urb'[v]) = Parts(heap, urb[v])
             /\ Whole(heap', urb'[v]) <=> Whole(heap, urb[v])
             /\ Whole(heap, urb[v]) => ContentsOf(heap', urb'[v]) = ContentsOf(heap, urb[v])
  <2>1. Sound(heap, urb[v]) /\ urb'[v] = urb[v] /\ Null \notin Blocks
    BY <1>3, BlocksAssumption DEF Shape, UrbsSound
  <2> QED  BY <1>3, <2>1, Stable
<1>4. UrbsSound'
  BY <1>2, <1>3 DEF UrbsSound
<1>5. UrbsApart'
  BY <1>2, <1>3 DEF Shape, UrbsApart
<1>6. UrbsWhole'
  BY <1>2, <1>3 DEF Shape, UrbsWhole
<1>7. UrbsRight'
  BY <1>2, <1>3 DEF Shape, UrbsRight, UrbsWhole
<1>8. BlocksOwned'
  BY <1>2, <1>3 DEF Shape, BlocksOwned
<1> QED  BY <1>4, <1>5, <1>6, <1>7, <1>8 DEF Shape

(* A work gets a new urb that is made on the heap h, on which the others   *)
(* are as they were and nothing else is left over; or new throws.          *)
LEMMA BuildKeeps ==
    ASSUME TypeOK, Shape, NEW w \in Works, NEW h \in Heaps, NEW iso \in BOOLEAN,
           NEW x, x.buffer \in AllData, iso => x.packets \in AllData,
           NEW o \in NewUrb(h, iso, x), heap' = o.heap,
           \A v \in Works \ {w} :
               urb'[v] = urb[v] /\ broken'[v] = broken[v] /\ meant'[v] = meant[v],
           \A v \in Works \ {w} : Live(v) => \A c \in Parts(heap, urb[v]) : h[c] = heap[c],
           \A b \in Blocks :
               \/ h[b] = Free
               \/ leaky /\ h[b].kind = "array"
               \/ \E v \in Works \ {w} : Live(v) /\ b \in Parts(heap, urb[v]),
           leaky => leaky', o.threw /\ iso => leaky',
           o.threw => ~Live(w)',
           ~o.threw => /\ urb'[w] = o.urb /\ broken'[w] # "dangling"
                       /\ broken'[w] = "no" => meant'[w] =
                              [buffer |-> x.buffer, packets |-> IF iso THEN x.packets ELSE "none"]
    PROVE  heap' \in Heaps /\ Shape'
<1>1. \A v \in Works \ {w} : Live(v) => \A c \in Parts(heap, urb[v]) :
          c \in Blocks /\ h[c] # Free
  <2> SUFFICES ASSUME NEW v \in Works \ {w}, Live(v), NEW c \in Parts(heap, urb[v])
               PROVE  c \in Blocks /\ h[c] # Free
    OBVIOUS
  <2>1. Sound(heap, urb[v]) /\ h[c] = heap[c]
    BY DEF Shape, UrbsSound
  <2>2. c \in Blocks /\ heap[c].kind \in {"urb", "array"}
    BY <2>1 DEF Sound
  <2> QED  BY <2>1, <2>2 DEF Free
<1>2. CASE o.threw
  <2>1. /\ heap' \in Heaps
        /\ \A c \in Blocks : \/ heap'[c] = h[c]
                             \/ iso /\ h[c] = Free /\ heap'[c].kind = "array"
    BY <1>2, NewUrbOutcome
  <2>2. \A v \in Works \ {w} : Live(v) => \A c \in Parts(heap, urb[v]) : heap'[c] = heap[c]
    BY <1>1, <2>1
  <2>3. ASSUME NEW b \in Blocks
        PROVE  \/ heap'[b] = Free
               \/ leaky' /\ heap'[b].kind = "array"
               \/ \E v \in Works \ {w} : Live(v) /\ b \in Parts(heap, urb[v])
    BY <1>2, <2>1
  <2>4. ~Live(w)'
    BY <1>2
  <2> QED  BY <2>1, <2>2, <2>3, <2>4, OneChanged
<1>3. CASE ~o.threw
  <2> DEFINE u == o.urb
  <2>1. u \in Blocks /\ h[u] = Free /\ Outcome(h, u, iso, x, heap', FALSE)
    BY <1>3, NewUrbOutcome
  <2>2. urb'[w] = u
    BY <1>3
  <2> HIDE DEF u
  <2>3. \A c \in Parts(heap', u) : h[c] = Free
    BY <2>1 DEF Outcome
  <2>4. \A v \in Works \ {w} : Live(v) =>
            /\ Parts(heap', u) \cap Parts(heap, urb[v]) = {}
            /\ \A c \in Parts(heap, urb[v]) : heap'[c] = heap[c]
    BY <1>1, <2>1, <2>3 DEF Outcome
  <2>5. /\ Sound(heap', u) /\ Whole(heap', u) /\ heap'[u].iso = iso
        /\ heap'[heap'[u].buffer].data = x.buffer
        /\ iso => heap'[heap'[u].packets].data = x.packets
    BY <2>1 DEF Outcome
  <2>6. broken'[w] = "no" => ContentsOf(heap', u) = meant'[w]
    BY <1>3, <2>5 DEF ContentsOf
  <2>7. ASSUME NEW b \in Blocks
        PROVE  \/ heap'[b] = Free
               \/ leaky' /\ heap'[b].kind = "array"
               \/ b \in Parts(heap', u)
               \/ \E v \in Works \ {w} : Live(v) /\ b \in Parts(heap, urb[v])
    BY <2>1 DEF Outcome
  <2>8. Live(w)'
    BY <1>3, <2>1, <2>2, BlocksAssumption DEF Live
  <2> QED  BY <2>1, <2>2, <2>4, <2>5, <2>6, <2>7, <2>8, OneChanged DEF Outcome
<1> QED  BY <1>2, <1>3

LEMMA MakeKeeps ==
    ASSUME TypeOK, ~undefined, Shape, NEW w \in Works, NEW h \in Heaps, NEW iso \in BOOLEAN,
           NEW x, x.buffer \in AllData, iso => x.packets \in AllData,
           NEW o \in NewUrb(h, iso, x), NEW m \in Contents, NEW how \in {"no", "junk", "empty"},
           how = "no" => m = [buffer |-> x.buffer, packets |-> IF iso THEN x.packets ELSE "none"],
           \A v \in Works \ {w} : Live(v) => \A c \in Parts(heap, urb[v]) : h[c] = heap[c],
           \A b \in Blocks :
               \/ h[b] = Free
               \/ leaky /\ h[b].kind = "array"
               \/ \E v \in Works \ {w} : Live(v) /\ b \in Parts(heap, urb[v]),
           \/ Constructed(w, o, m, how)
           \/ /\ NotConstructed(o, iso)
              /\ \/ urb[w] = Null /\ broken' = broken
                 \/ broken' = [broken EXCEPT ![w] = "dangling"]
    PROVE  IInv'
<1>1. heap' = o.heap /\ undefined' = undefined /\ leaky' \in BOOLEAN /\ (leaky => leaky')
  BY DEF Constructed, NotConstructed, TypeOK
<1>2. \/ o.threw = TRUE
      \/ o.threw = FALSE /\ o.urb \in Blocks
  BY NewUrbOutcome
<1>3. CASE Constructed(w, o, m, how)
  <2>1. o.threw = FALSE /\ o.urb \in Blocks
    BY <1>2, <1>3 DEF Constructed
  <2>2. /\ urb' \in [Works -> Blocks \cup {Null}] /\ meant' \in [Works -> Contents]
        /\ broken' \in [Works -> {"no", "junk", "empty", "dangling"}]
        /\ urb'[w] = o.urb /\ broken'[w] = how /\ meant'[w] = m
        /\ \A v \in Works \ {w} :
               urb'[v] = urb[v] /\ broken'[v] = broken[v] /\ meant'[v] = meant[v]
    BY <1>3, <2>1 DEF Constructed, TypeOK
  <2>3. heap' \in Heaps /\ Shape'
    BY <1>1, <2>1, <2>2, BuildKeeps
  <2> QED  BY <1>1, <2>2, <2>3 DEF IInv, TypeOK, Heaps, UndefinedOnlyIfBroken
<1>4. CASE NotConstructed(o, iso)
  <2>1. o.threw = TRUE /\ urb' = urb /\ meant' = meant /\ (iso => leaky')
    BY <1>2, <1>4 DEF NotConstructed
  <2>2. CASE Constructed(w, o, m, how)
    BY <1>3, <2>2
  <2>3. CASE ~Constructed(w, o, m, how)
    <3>1. /\ broken' \in [Works -> {"no", "junk", "empty", "dangling"}]
          /\ \A v \in Works \ {w} : broken'[v] = broken[v]
          /\ urb[w] = Null \/ broken'[w] = "dangling"
      BY <2>3 DEF TypeOK
    <3>2. ~Live(w)'
      BY <2>1, <3>1 DEF Live
    <3>3. heap' \in Heaps /\ Shape'
      BY <1>1, <2>1, <3>1, <3>2, BuildKeeps
    <3> QED  BY <1>1, <2>1, <3>1, <3>3 DEF IInv, TypeOK, Heaps, UndefinedOnlyIfBroken
  <2> QED  BY <2>2, <2>3
<1> QED  BY <1>3, <1>4

LEMMA NothingMissing ==
    ASSUME TypeOK, Shape, NEW w \in Works, urb[w] = Null
    PROVE  /\ heap \in Heaps
           /\ \A b \in Blocks :
               \/ heap[b] = Free
               \/ leaky /\ heap[b].kind = "array"
               \/ \E v \in Works \ {w} : Live(v) /\ b \in Parts(heap, urb[v])
<1>1. heap \in Heaps
  BY DEF TypeOK, Heaps
<1>2. ~Live(w)
  BY DEF Live
<1> QED  BY <1>1, <1>2 DEF Shape, BlocksOwned

LEMMA ConstructKeeps ==
    ASSUME IInv, NEW w \in Works, NEW b \in Data, NEW p \in Data \cup {"none"},
           Construct(w, [buffer |-> b, packets |-> p])
    PROVE  IInv'
<1> DEFINE x == [buffer |-> b, packets |-> p]
           iso == p # "none"
<1>1. /\ x \in Contents /\ x.buffer \in AllData /\ (iso => x.packets \in AllData)
      /\ x = [buffer |-> x.buffer, packets |-> IF iso THEN x.packets ELSE "none"]
  BY DEF Contents, AllData
<1>2. ~undefined /\ urb[w] = Null /\ TypeOK /\ Shape
  BY DEF Construct, Missing, IInv
<1>3. PICK o \in NewUrb(heap, iso, x) :
          \/ Constructed(w, o, x, "no")
          \/ NotConstructed(o, iso) /\ UNCHANGED broken
  BY DEF Construct
<1>4. iso \in BOOLEAN
  OBVIOUS
<1> HIDE DEF x, iso
<1> QED  BY <1>1, <1>2, <1>3, <1>4, MakeKeeps, NothingMissing

(* What a work holds that can be read.                                     *)
LEMMA ReadableHolds ==
    ASSUME IInv, NEW v \in Works, Readable(v)
    PROVE  /\ ~undefined /\ TypeOK /\ Shape /\ heap \in Heaps
           /\ Live(v) /\ Sound(heap, urb[v]) /\ Whole(heap, urb[v])
           /\ heap[urb[v]].iso \in BOOLEAN
           /\ meant[v] \in Contents /\ broken[v] \in {"no", "junk", "empty"}
           /\ ContentsOf(heap, urb[v]).buffer \in AllData
           /\ heap[urb[v]].iso => ContentsOf(heap, urb[v]).packets \in AllData
           /\ broken[v] = "no" =>
                  meant[v] = [buffer  |-> ContentsOf(heap, urb[v]).buffer,
                              packets |-> IF heap[urb[v]].iso
                                          THEN ContentsOf(heap, urb[v]).packets ELSE "none"]
<1>1. ~undefined /\ TypeOK /\ Shape /\ heap \in Heaps
  BY DEF IInv, Readable, Owns, Exists, TypeOK, Heaps
<1>2. Live(v) /\ Whole(heap, urb[v])
  BY DEF Readable, Owns, Exists, Live
<1>3. Sound(heap, urb[v])
  BY <1>1, <1>2 DEF Shape, UrbsSound
<1>4. meant[v] \in Contents /\ broken[v] \in {"no", "junk", "empty"}
  BY <1>1, <1>2 DEF TypeOK, Live
<1>5. broken[v] = "no" => meant[v] = ContentsOf(heap, urb[v])
  BY <1>1, <1>2 DEF Shape, UrbsRight
<1>6. /\ heap[urb[v]].iso \in BOOLEAN
      /\ ContentsOf(heap, urb[v]).buffer \in AllData
      /\ heap[urb[v]].iso => ContentsOf(heap, urb[v]).packets \in AllData
  BY <1>1, <1>2, <1>3, ContentsTyped
<1>7. ContentsOf(heap, urb[v]) =
          [buffer  |-> ContentsOf(heap, urb[v]).buffer,
           packets |-> IF heap[urb[v]].iso THEN ContentsOf(heap, urb[v]).packets ELSE "none"]
  BY DEF ContentsOf
<1> QED  BY <1>1, <1>2, <1>3, <1>4, <1>5, <1>6, <1>7

LEMMA CopyKeeps ==
    ASSUME IInv, NEW w \in Works, NEW v \in Works, Copy(w, v)
    PROVE  IInv'
<1> DEFINE x == ContentsOf(heap, urb[v])
           iso == heap[urb[v]].iso
<1>1. urb[w] = Null /\ Readable(v)
  BY DEF Copy, Missing
<1>2. PICK o \in NewUrb(heap, iso, x) :
          \/ Constructed(w, o, meant[v], broken[v])
          \/ NotConstructed(o, iso) /\ UNCHANGED broken
  BY DEF Copy
<1>3. /\ ~undefined /\ TypeOK /\ Shape /\ heap \in Heaps
      /\ iso \in BOOLEAN /\ meant[v] \in Contents /\ broken[v] \in {"no", "junk", "empty"}
      /\ x.buffer \in AllData /\ (iso => x.packets \in AllData)
      /\ broken[v] = "no" => meant[v] = [buffer  |-> x.buffer,
                                         packets |-> IF iso THEN x.packets ELSE "none"]
  BY <1>1, ReadableHolds
<1> HIDE DEF x, iso
<1> QED  BY <1>1, <1>2, <1>3, MakeKeeps, NothingMissing

(* What is left of the heap when the urb of w is deleted.                  *)
LEMMA DeletedApart ==
    ASSUME TypeOK, Shape, NEW w \in Works, Live(w),
           NEW h, h = DeleteUrb(heap, urb[w]) \/ h = DeleteArrays(heap, urb[w])
    PROVE  /\ h \in Heaps /\ Sound(heap, urb[w])
           /\ \A v \in Works \ {w} : Live(v) => \A c \in Parts(heap, urb[v]) : h[c] = heap[c]
           /\ \A b \in Blocks :
                  \/ h[b] = Free
                  \/ leaky /\ h[b].kind = "array"
                  \/ h = DeleteArrays(heap, urb[w]) /\ b = urb[w]
                  \/ \E v \in Works \ {w} : Live(v) /\ b \in Parts(heap, urb[v])
<1>1. heap \in Heaps /\ Sound(heap, urb[w])
  <2>1. heap \in Heaps
    BY DEF TypeOK, Heaps
  <2>2. Sound(heap, urb[w])
    BY DEF Shape, UrbsSound
  <2> QED  BY <2>1, <2>2
<1>2. /\ h \in Heaps
      /\ \A c \in Parts(heap, urb[w]) \ {urb[w]} : h[c] = Free
      /\ h = DeleteArrays(heap, urb[w]) \/ h[urb[w]] = Free
      /\ \A c \in Blocks \ Parts(heap, urb[w]) : h[c] = heap[c]
  <2>1. urb[w] \in Parts(heap, urb[w])
    BY <1>1, BlocksAssumption DEF Sound, Parts
  <2> QED  BY <1>1, <2>1, DeleteEffect
<1>3. ASSUME NEW v \in Works \ {w}, Live(v), NEW c \in Parts(heap, urb[v])
      PROVE  h[c] = heap[c]
  <2>1. c \in Blocks
    BY <1>3 DEF Shape, UrbsSound, Sound
  <2>2. c \notin Parts(heap, urb[w])
    BY <1>3 DEF Shape, UrbsApart
  <2> QED  BY <1>2, <2>1, <2>2
<1>4. ASSUME NEW b \in Blocks
      PROVE  \/ h[b] = Free
             \/ leaky /\ h[b].kind = "array"
             \/ h = DeleteArrays(heap, urb[w]) /\ b = urb[w]
             \/ \E v \in Works \ {w} : Live(v) /\ b \in Parts(heap, urb[v])
  <2>1. CASE b \in Parts(heap, urb[w])
    BY <1>2, <2>1
  <2>2. CASE b \notin Parts(heap, urb[w])
    <3>1. h[b] = heap[b]
      BY <1>2, <2>2
    <3> QED  BY <2>2, <3>1 DEF Shape, BlocksOwned
  <2> QED  BY <2>1, <2>2
<1> QED  BY <1>1, <1>2, <1>3, <1>4

LEMMA AssignWorkKeeps ==
    ASSUME IInv, NEW w \in Works, NEW v \in Works, AssignWork(w, v)
    PROVE  IInv'
<1>1. Readable(v) /\ Live(w)
  BY DEF AssignWork, Owns, Exists, Live
<1>2. CASE w = v
  BY <1>1, <1>2, ReadableHolds DEF AssignWork, IInv, TypeOK, UndefinedOnlyIfBroken
<1>3. CASE w # v
  <2> DEFINE x == ContentsOf(heap, urb[v])
             iso == heap[urb[v]].iso
             h == DeleteUrb(heap, urb[w])
  <2>1. PICK o \in NewUrb(h, iso, x) :
            \/ Constructed(w, o, meant[v], broken[v])
            \/ /\ NotConstructed(o, iso)
               /\ broken' = [broken EXCEPT ![w] = "dangling"]
    BY <1>3 DEF AssignWork
  <2>2. /\ ~undefined /\ TypeOK /\ Shape
        /\ iso \in BOOLEAN /\ meant[v] \in Contents /\ broken[v] \in {"no", "junk", "empty"}
        /\ x.buffer \in AllData /\ (iso => x.packets \in AllData)
        /\ broken[v] = "no" => meant[v] = [buffer  |-> x.buffer,
                                           packets |-> IF iso THEN x.packets ELSE "none"]
    BY <1>1, ReadableHolds
  <2>3. /\ h \in Heaps
        /\ \A z \in Works \ {w} : Live(z) => \A c \in Parts(heap, urb[z]) : h[c] = heap[c]
        /\ \A b \in Blocks :
               \/ h[b] = Free
               \/ leaky /\ h[b].kind = "array"
               \/ \E z \in Works \ {w} : Live(z) /\ b \in Parts(heap, urb[z])
    <3>1. urb[w] \in Parts(heap, urb[w]) /\ h[urb[w]] = Free
      <4>1. Sound(heap, urb[w]) /\ heap \in Heaps
        BY <1>1, <2>2 DEF Shape, UrbsSound, TypeOK, Heaps
      <4>2. urb[w] \in Parts(heap, urb[w])
        BY <4>1, BlocksAssumption DEF Sound, Parts
      <4> QED  BY <4>1, <4>2, DeleteEffect
    <3> QED  BY <1>1, <2>2, <3>1, DeletedApart
  <2> HIDE DEF x, iso, h
  <2> QED  BY <2>1, <2>2, <2>3, MakeKeeps
<1> QED  BY <1>2, <1>3

LEMMA AssignUrbKeeps ==
    ASSUME IInv, NEW w \in Works, NEW v \in Works, AssignUrb(w, v)
    PROVE  IInv'
<1> DEFINE x == IF w = v THEN [buffer |-> "junk", packets |-> "junk"]
                ELSE ContentsOf(heap, urb[v])
           iso == heap[urb[v]].iso
           h == DeleteArrays(heap, urb[w])
           u == urb[w]
<1>1. Readable(v) /\ Live(w)
  BY DEF AssignUrb, Owns, Exists, Live
<1>2. PICK o \in Cpy(h, u, iso, x) :
          /\ heap' = o.heap
          /\ meant' = [meant EXCEPT ![w] = meant[v]]
          /\ broken' = [broken EXCEPT ![w] = IF o.threw THEN "empty"
                                             ELSE IF w = v THEN "junk" ELSE broken[v]]
          /\ UNCHANGED <<urb, undefined, leaky>>
  BY DEF AssignUrb
<1>3. /\ ~undefined /\ TypeOK /\ Shape
      /\ iso \in BOOLEAN /\ meant[v] \in Contents /\ broken[v] \in {"no", "junk", "empty"}
      /\ x.buffer \in AllData /\ (iso => x.packets \in AllData)
      /\ w # v /\ broken[v] = "no" =>
            meant[v] = [buffer |-> x.buffer, packets |-> IF iso THEN x.packets ELSE "none"]
  BY <1>1, ReadableHolds DEF AllData
<1>4. /\ h \in Heaps /\ u \in Blocks
      /\ \A z \in Works \ {w} : Live(z) => \A c \in Parts(heap, urb[z]) : h[c] = heap[c]
      /\ \A b \in Blocks \ {u} :
             \/ h[b] = Free
             \/ leaky /\ h[b].kind = "array"
             \/ \E z \in Works \ {w} : Live(z) /\ b \in Parts(heap, urb[z])
  BY <1>1, <1>3, DeletedApart DEF Sound
<1> HIDE DEF x, iso, h
<1>5. /\ o.threw \in BOOLEAN
      /\ Outcome(h, u, iso, x, heap', o.threw)
  BY <1>2, <1>3, <1>4, CpyOutcome
<1>6. /\ meant' \in [Works -> Contents]
      /\ broken' \in [Works -> {"no", "junk", "empty", "dangling"}]
      /\ broken'[w] = IF o.threw THEN "empty" ELSE IF w = v THEN "junk" ELSE broken[v]
      /\ meant'[w] = meant[v]
      /\ \A z \in Works \ {w} :
             urb'[z] = urb[z] /\ broken'[z] = broken[z] /\ meant'[z] = meant[z]
  BY <1>2, <1>3 DEF TypeOK
<1>7. ASSUME NEW z \in Works \ {w}, Live(z)
      PROVE  /\ Parts(heap', u) \cap Parts(heap, urb[z]) = {}
             /\ \A c \in Parts(heap, urb[z]) : heap'[c] = heap[c]
  <2>1. ASSUME NEW c \in Parts(heap, urb[z])
        PROVE  c \in Blocks /\ h[c] # Free /\ c # u
    <3>1. Sound(heap, urb[z]) /\ h[c] = heap[c] /\ Sound(heap, u)
      BY <1>1, <1>3, <1>4, <1>7 DEF Shape, UrbsSound
    <3>2. c \in Blocks /\ heap[c].kind \in {"urb", "array"}
      BY <3>1 DEF Sound
    <3>3. u \in Parts(heap, u)
      BY <3>1, BlocksAssumption DEF Sound, Parts
    <3> QED  BY <1>1, <1>3, <1>7, <3>1, <3>2, <3>3 DEF Free, Shape, UrbsApart
  <2>2. \A c \in Parts(heap', u) \ {u} : h[c] = Free
    BY <1>5 DEF Outcome
  <2>3. \A c \in Parts(heap, urb[z]) : c \notin Parts(heap', u)
    BY <2>1, <2>2
  <2> QED  BY <1>4, <1>5, <1>7, <2>1, <2>3 DEF Outcome
<1>8. /\ Sound(heap', u) /\ heap'[u].iso = iso
      /\ ~o.threw => /\ Whole(heap', u) /\ heap'[heap'[u].buffer].data = x.buffer
                     /\ iso => heap'[heap'[u].packets].data = x.packets
  BY <1>5 DEF Outcome
<1>9. broken'[w] = "no" => ContentsOf(heap', u) = meant'[w]
  BY <1>3, <1>6, <1>8 DEF ContentsOf
<1>10. broken'[w] # "empty" => Whole(heap', u)
  BY <1>6, <1>8
<1>11. ASSUME NEW b \in Blocks
       PROVE  \/ heap'[b] = Free
              \/ leaky' /\ heap'[b].kind = "array"
              \/ b \in Parts(heap', u)
              \/ \E z \in Works \ {w} : Live(z) /\ b \in Parts(heap, urb[z])
  <2>1. CASE b \notin Parts(heap', u)
    <3>1. heap'[b] = h[b]
      BY <1>5, <2>1 DEF Outcome
    <3>2. b # u
      BY <1>4, <2>1, BlocksAssumption DEF Parts
    <3> QED  BY <1>2, <1>4, <3>1, <3>2
  <2> QED  BY <2>1
<1>12. urb'[w] = u /\ Live(w)'
  BY <1>1, <1>2, <1>3, <1>6 DEF Live
<1> HIDE DEF u
<1>13. Shape'
  BY <1>3, <1>6, <1>7, <1>8, <1>9, <1>10, <1>11, <1>12, OneChanged
<1>14. heap' \in Heaps
  BY <1>5 DEF Outcome
<1> QED  BY <1>2, <1>3, <1>6, <1>13, <1>14 DEF IInv, TypeOK, Heaps, UndefinedOnlyIfBroken

LEMMA WriteKeeps ==
    ASSUME IInv, NEW w \in Works, NEW array \in {"buffer", "packets"}, NEW x \in Data,
           Write(w, array, x)
    PROVE  IInv'
<1> DEFINE u == urb[w]
           a == heap[u][array]
<1>1. Readable(w) /\ a # Null /\ heap' = [heap EXCEPT ![a] = Array(x)]
      /\ meant' = [meant EXCEPT ![w][array] = x]
      /\ UNCHANGED <<urb, undefined, broken, leaky>>
  BY DEF Write
<1>2. /\ ~undefined /\ TypeOK /\ Shape /\ heap \in Heaps
      /\ Live(w) /\ Sound(heap, u) /\ Whole(heap, u)
  BY <1>1, ReadableHolds
<1>3. a \in Parts(heap, u) /\ a # u /\ a \in Blocks
  <2>1. a = heap[u].buffer \/ a = heap[u].packets
    OBVIOUS
  <2> QED  BY <1>1, <1>2, <2>1 DEF Parts, Sound
<1>4. array = "packets" => heap[u].iso
  BY <1>1, <1>2 DEF Sound
<1>5. array = "buffer" => a # heap[u].packets
  BY <1>1, <1>2 DEF Sound
<1>6. array = "packets" => a # heap[u].buffer
  BY <1>1, <1>2 DEF Sound
<1>7. x \in AllData
  BY DEF AllData
<1>8. /\ heap' \in Heaps /\ heap'[a] = Array(x) /\ heap'[u] = heap[u]
      /\ \A c \in Blocks \ {a} : heap'[c] = heap[c]
  <2> DEFINE S == {Free} \cup {Array(y) : y \in AllData} \cup
                     {Urb(i, d, e) : i \in BOOLEAN, d, e \in Blocks \cup {Null}}
  <2>1. heap \in [Blocks -> S] /\ Heaps = [Blocks -> S] /\ Array(x) \in S /\ u \in Blocks
    BY <1>2, <1>7 DEF Heaps, Sound
  <2> HIDE DEF S, a, u
  <2> QED  BY <1>1, <1>3, <2>1
<1>9. meant' \in [Works -> Contents] /\ meant'[w] = [meant[w] EXCEPT ![array] = x]
      /\ \A v \in Works \ {w} : meant'[v] = meant[v]
  BY <1>1, <1>2, <1>7 DEF TypeOK, Contents
<1> HIDE DEF a
<1>10. ASSUME NEW v \in Works \ {w}, Live(v)
       PROVE  /\ Parts(heap, u) \cap Parts(heap, urb[v]) = {}
              /\ \A c \in Parts(heap, urb[v]) : heap'[c] = heap[c]
  <2>1. Parts(heap, u) \cap Parts(heap, urb[v]) = {} /\ Sound(heap, urb[v])
    BY <1>2, <1>10 DEF Shape, UrbsApart, UrbsSound
  <2>2. \A c \in Parts(heap, urb[v]) : c \in Blocks /\ c # a
    BY <1>3, <2>1 DEF Sound
  <2> QED  BY <1>8, <2>1, <2>2
<1>11. Parts(heap', u) = Parts(heap, u)
  BY <1>8 DEF Parts
<1>12. Sound(heap', u) /\ Whole(heap', u)
  BY <1>2, <1>3, <1>8, <1>11 DEF Sound, Whole, IsUrb, Array, Parts
<1>13. broken[w] = "no" => ContentsOf(heap', u) = meant'[w]
  <2> SUFFICES ASSUME broken[w] = "no" PROVE ContentsOf(heap', u) = meant'[w]
    OBVIOUS
  <2>1. ContentsOf(heap, u) = meant[w]
    BY <1>2 DEF Shape, UrbsRight
  <2>2. meant[w] = [buffer  |-> heap[heap[u].buffer].data,
                    packets |-> IF heap[u].iso THEN heap[heap[u].packets].data ELSE "none"]
    BY <2>1 DEF ContentsOf
  <2>3. /\ heap[u].buffer \in Blocks /\ (heap[u].iso => heap[u].packets \in Blocks)
        /\ heap'[a].data = x
    BY <1>2, <1>8 DEF Sound, Whole, Parts, Array
  <2>4. CASE array = "buffer"
    <3>1. a = heap[u].buffer
      BY <2>4 DEF a
    <3>2. /\ heap'[heap[u].buffer].data = x
          /\ heap[u].iso => heap'[heap[u].packets].data = heap[heap[u].packets].data
      BY <1>5, <1>8, <2>3, <2>4, <3>1
    <3>3. meant'[w] = [buffer |-> x, packets |-> meant[w].packets]
      BY <1>9, <2>2, <2>4
    <3> QED  BY <1>8, <2>2, <3>2, <3>3 DEF ContentsOf
  <2>5. CASE array = "packets"
    <3>1. a = heap[u].packets
      BY <2>5 DEF a
    <3>2. /\ heap'[heap[u].buffer].data = heap[heap[u].buffer].data
          /\ heap[u].iso /\ heap'[heap[u].packets].data = x
      BY <1>4, <1>6, <1>8, <2>3, <2>5, <3>1
    <3>3. meant'[w] = [buffer |-> meant[w].buffer, packets |-> x]
      BY <1>9, <2>2, <2>5
    <3> QED  BY <1>8, <2>2, <3>2, <3>3 DEF ContentsOf
  <2> QED  BY <2>4, <2>5
<1>14. ASSUME NEW b \in Blocks
       PROVE  \/ heap'[b] = Free
              \/ leaky' /\ heap'[b].kind = "array"
              \/ b \in Parts(heap', u)
              \/ \E v \in Works \ {w} : Live(v) /\ b \in Parts(heap, urb[v])
  <2>1. CASE b = a
    BY <1>3, <1>11, <2>1
  <2>2. CASE b # a
    <3>1. heap'[b] = heap[b] /\ leaky' = leaky
      BY <1>1, <1>8, <2>2
    <3>2. \/ heap[b] = Free
          \/ leaky /\ heap[b].kind = "array"
          \/ b \in Parts(heap, u)
          \/ \E v \in Works \ {w} : Live(v) /\ b \in Parts(heap, urb[v])
      BY <1>2 DEF Shape, BlocksOwned
    <3> QED  BY <1>11, <3>1, <3>2
  <2> QED  BY <2>1, <2>2
<1>15. urb'[w] = u /\ Live(w)' /\ broken' = broken /\ urb' = urb
  BY <1>1, <1>2 DEF Live
<1> HIDE DEF u
<1>16. Shape'
  <2>1. \A v \in Works \ {w} :
            urb'[v] = urb[v] /\ broken'[v] = broken[v] /\ meant'[v] = meant[v]
    BY <1>9, <1>15
  <2>2. \A v \in Works \ {w} : Live(v) =>
            /\ Parts(heap', urb'[w]) \cap Parts(heap, urb[v]) = {}
            /\ \A c \in Parts(heap, urb[v]) : heap'[c] = heap[c]
    BY <1>10, <1>11, <1>15
  <2>3. /\ Sound(heap', urb'[w]) /\ Whole(heap', urb'[w])
        /\ broken'[w] = "no" => ContentsOf(heap', urb'[w]) = meant'[w]
    BY <1>12, <1>13, <1>15
  <2> QED  BY <1>2, <1>14, <1>15, <2>1, <2>2, <2>3, OneChanged
<1> QED  BY <1>1, <1>2, <1>8, <1>9, <1>16 DEF IInv, TypeOK, Heaps, UndefinedOnlyIfBroken

LEMMA DestroyKeeps ==
    ASSUME IInv, NEW w \in Works, Destroy(w)
    PROVE  IInv'
<1>1. /\ ~undefined /\ Live(w) /\ TypeOK /\ Shape
      /\ heap' = DeleteUrb(heap, urb[w]) /\ urb' = [urb EXCEPT ![w] = Null]
      /\ meant' = [meant EXCEPT ![w] = Nothing] /\ broken' = [broken EXCEPT ![w] = "no"]
      /\ UNCHANGED <<undefined, leaky>>
  BY DEF Destroy, Owns, Exists, Live, IInv
<1>2. heap \in Heaps /\ Sound(heap, urb[w])
  <2>1. heap \in Heaps
    BY <1>1 DEF TypeOK, Heaps
  <2> QED  BY <1>1, <2>1 DEF Shape, UrbsSound
<1>3. /\ heap' \in Heaps /\ heap'[urb[w]] = Free
      /\ \A v \in Works \ {w} : Live(v) => \A c \in Parts(heap, urb[v]) : heap'[c] = heap[c]
      /\ \A b \in Blocks :
             \/ heap'[b] = Free
             \/ leaky /\ heap'[b].kind = "array"
             \/ b = urb[w]
             \/ \E v \in Works \ {w} : Live(v) /\ b \in Parts(heap, urb[v])
  <2>1. urb[w] \in Parts(heap, urb[w])
    BY <1>2, BlocksAssumption DEF Sound, Parts
  <2>2. heap'[urb[w]] = Free
    BY <1>1, <1>2, <2>1, DeleteEffect
  <2> QED  BY <1>1, <2>2, DeletedApart
<1>4. /\ urb' \in [Works -> Blocks \cup {Null}] /\ meant' \in [Works -> Contents]
      /\ broken' \in [Works -> {"no", "junk", "empty", "dangling"}]
      /\ urb'[w] = Null
      /\ \A v \in Works \ {w} :
             urb'[v] = urb[v] /\ broken'[v] = broken[v] /\ meant'[v] = meant[v]
  <2>1. Nothing \in Contents
    BY DEF Nothing, Contents, AllData
  <2> QED  BY <1>1, <2>1 DEF TypeOK
<1>5. ~Live(w)'
  BY <1>4 DEF Live
<1>6. Shape'
  BY <1>1, <1>3, <1>4, <1>5, OneChanged
<1>7. undefined' = FALSE /\ TypeOK'
  BY <1>1, <1>3, <1>4, Typed, TypedNext
<1> QED  BY <1>6, <1>7 DEF IInv, UndefinedOnlyIfBroken

(* What cannot be read was left over from an assignment that failed.       *)
LEMMA MisuseKeeps ==
    ASSUME IInv, NEW w \in Works, Misuse(w)
    PROVE  IInv'
<1>1. /\ ~undefined /\ urb[w] # Null /\ ~Readable(w) /\ TypeOK /\ Shape /\ undefined' = TRUE
      /\ UNCHANGED <<heap, urb, meant, broken, leaky>>
  BY DEF Misuse, Exists, IInv
<1>2. broken[w] \in {"empty", "dangling"}
  <2> SUFFICES ASSUME broken[w] \notin {"empty", "dangling"} PROVE FALSE
    OBVIOUS
  <2>1. Live(w)
    BY <1>1 DEF Live
  <2>2. Whole(heap, urb[w])
    BY <1>1, <2>1 DEF Shape, UrbsWhole
  <2> QED  BY <1>1, <2>2 DEF Readable, Owns, Exists, Whole
<1>3. UndefinedOnlyIfBroken'
  BY <1>1, <1>2 DEF UndefinedOnlyIfBroken
<1>4. TypeOK'
  BY <1>1, Typed, TypedNext
<1> QED  BY <1>1, <1>3, <1>4 DEF IInv

LEMMA InitHolds == Init => IInv
<1> SUFFICES ASSUME Init PROVE IInv
  OBVIOUS
<1> USE DEF Init
<1>1. TypeOK
  <2>1. Nothing \in Contents
    BY DEF Nothing, Contents, AllData
  <2>2. [b \in Blocks |-> Free] \in Heaps
    BY DEF Heaps
  <2>3. [w \in Works |-> Null] \in [Works -> Blocks \cup {Null}]
    OBVIOUS
  <2>4. heap \in Heaps /\ urb \in [Works -> Blocks \cup {Null}]
    BY <2>2, <2>3
  <2>5. undefined \in BOOLEAN /\ leaky \in BOOLEAN
    OBVIOUS
  <2>6. meant \in [Works -> Contents]
    BY <2>1
  <2>7. broken \in [Works -> {"no", "junk", "empty", "dangling"}]
    OBVIOUS
  <2> QED  BY ONLY <2>4, <2>5, <2>6, <2>7 DEF TypeOK, Heaps
<1>2. Shape
  BY DEF Shape, UrbsSound, UrbsApart, UrbsWhole, UrbsRight, BlocksOwned, Live
<1> QED  BY <1>1, <1>2 DEF IInv, UndefinedOnlyIfBroken

LEMMA StepKeeps ==
    ASSUME IInv, [Next]_vars
    PROVE  IInv'
<1>1. CASE \E w \in Works, b \in Data, p \in Data \cup {"none"} :
               Construct(w, [buffer |-> b, packets |-> p])
  BY <1>1, ConstructKeeps
<1>2. CASE \E w, v \in Works : Copy(w, v) \/ AssignWork(w, v) \/ AssignUrb(w, v)
  BY <1>2, CopyKeeps, AssignWorkKeeps, AssignUrbKeeps
<1>3. CASE \E w \in Works, array \in {"buffer", "packets"}, x \in Data : Write(w, array, x)
  BY <1>3, WriteKeeps
<1>4. CASE \E w \in Works : Destroy(w) \/ Misuse(w)
  BY <1>4, DestroyKeeps, MisuseKeeps
<1>5. CASE UNCHANGED vars
  <2> USE <1>5 DEF vars
  <2>1. TypeOK'
    BY DEF IInv, TypeOK
  <2>2. UndefinedOnlyIfBroken'
    BY DEF IInv, UndefinedOnlyIfBroken
  <2>3. Shape' <=> Shape
    BY DEF Shape, UrbsSound, UrbsApart, UrbsWhole, UrbsRight, BlocksOwned, Live
  <2> QED  BY <2>1, <2>2, <2>3 DEF IInv
<1>6. Undefined => UNCHANGED vars
  BY DEF Undefined
<1> QED  BY <1>1, <1>2, <1>3, <1>4, <1>5, <1>6 DEF Next

-----------------------------------------------------------------------------
(* The variables keep their types: a pointer of a work is null or a block, *)
(* and every block holds an urb, an array of data or nothing.              *)
THEOREM TypeCorrect == Spec => []TypeOK
<1>1. IInv => TypeOK
  BY DEF IInv
<1> QED  BY <1>1, InitHolds, StepKeeps, PTL DEF Spec

(* Copying, assigning and destroying urbs and works is safe, whatever new  *)
(* throws, but for what an assignment that threw has left over, and for a  *)
(* work assigned to itself (process_urb_work::operator=, urb::operator=).  *)
THEOREM UndefinedIfBroken == Spec => []UndefinedOnlyIfBroken
<1>1. IInv => UndefinedOnlyIfBroken
  BY DEF IInv
<1> QED  BY <1>1, InitHolds, StepKeeps, PTL DEF Spec

(* Copies are deep: no write to an urb and no end of an urb changes what   *)
(* another one holds (urb::_cpy and the copy constructors).                *)
THEOREM CopiesDeep == Spec => []ValuesKept
<1>1. IInv => ValuesKept
  <2> SUFFICES ASSUME IInv, ~undefined, NEW w \in Works, urb[w] # Null, broken[w] = "no"
               PROVE  Whole(heap, urb[w]) /\ ContentsOf(heap, urb[w]) = meant[w]
    BY DEF ValuesKept
  <2>1. Shape /\ Live(w)
    BY DEF IInv, Live
  <2> QED  BY <2>1 DEF Shape, UrbsWhole, UrbsRight
<1> QED  BY <1>1, InitHolds, StepKeeps, PTL DEF Spec

(* Nothing leaks but the buffer of an isochronous urb whose constructor had*)
(* no memory for the packets (urb::_cpy).                                  *)
THEOREM OnlyBuffersLeak == Spec => []LeaksOnlyBuffers
<1>1. IInv => LeaksOnlyBuffers
  <2> SUFFICES ASSUME IInv, ~undefined, NEW b \in Blocks \ Owned
               PROVE  heap[b] = Free \/ (leaky /\ heap[b].kind = "array")
    BY DEF LeaksOnlyBuffers
  <2>1. Shape
    BY DEF IInv
  <2>2. ASSUME NEW w \in Works, Live(w), b \in Parts(heap, urb[w]) PROVE FALSE
    <3>1. Owns(w)
      BY <2>1, <2>2 DEF Owns, Exists, Live, IsUrb, Shape, UrbsSound, Sound
    <3> QED  BY <2>2, <3>1 DEF Owned, Parts
  <2> QED  BY <2>1, <2>2 DEF Shape, BlocksOwned
<1> QED  BY <1>1, InitHolds, StepKeeps, PTL DEF Spec
=============================================================================
