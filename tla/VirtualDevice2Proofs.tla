------------------------ MODULE VirtualDevice2Proofs ------------------------
(***************************************************************************)
(* Proofs that the C example and the usb core agree on the address of the  *)
(* device, and that no request of the example is refused, as long as the   *)
(* core is not hasty: for any control requests and any number of commands. *)
(***************************************************************************)
EXTENDS VirtualDevice2, SequenceTheorems, TLAPS

Plug      == Connect("full")
Completed == ResetCompleted(TRUE)
Requests  == {Plug, Completed, Resumed}

(* The program leaves main only after a request was refused; while it      *)
(* answers there is something to answer.                                   *)
Control ==
    /\ pc = "answer" => todo # <<>>
    /\ pc = "data" => urb.state \in {"fetched", "unlinked"}
    /\ pc = "returned" => hasty

(* Nobody is connected to a port without power.  Between two reports the   *)
(* program knows the status of the port.                                   *)
Connected == "CONNECTION" \in port.status => "POWER" \in port.status
Current   == ~pending => stat = port

(* The requests are those of the usb core.                                 *)
Sound(k) == k.type = "CONTROL" /\ (IsIn(k) => k.rt >= 128)
UrbSound == urb # NoUrb => Sound(urb.urb)

(* A SET_ADDRESS that the program has accepted and not given back yet.     *)
Moved ==
    /\ pc = "giveback" /\ urb.state = "fetched"
    /\ AssignsAddress(urb.urb) /\ status = "SUCCESS"

MovedTo == Moved => urb.urb.val <= MaxAddress /\ adr = urb.urb.val

(* What is given up while its data are read leaves the address in doubt.   *)
DataHeld == pc = "data" /\ urb.state = "unlinked" /\ AssignsAddress(urb.urb) => doubt

(* A request that the port will take; a resume completes no other change.  *)
InOrder(q) == Accepts(q) /\ (q.change = {"C_SUSPEND"} => port.change = {})

Answerable(s) == s = <<>> \/ \E q \in Requests : s = <<q>> /\ InOrder(q)

(* A core that is not hasty does one thing at a time: a change of the port *)
(* is reported, answered and cleared before the next, and a request is sent*)
(* in between.                                                             *)
Quiet ==
    ~hasty =>
        /\ pending => pc = "fetch" /\ urb = NoUrb /\ Answerable(Answers(port, stat))
        /\ pc = "answer" => ~pending /\ urb = NoUrb /\ Answerable(todo)
        /\ urb # NoUrb => ~pending /\ pc # "answer" /\ port.change = {}
        /\ urb.state \in {"queued", "fetched"} => urb.urb.devadr = coreAdr

(* The address is that of the core: after the report that is on its way, or*)
(* when the SET_ADDRESS in hand is given back, or now.                     *)
Agreed ==
    ~hasty /\ ~doubt /\ coreAdr # NoAdr =>
        IF pending THEN AdrAfter(port) = coreAdr
        ELSE IF Moved THEN TRUE ELSE adr = coreAdr

IInv ==
    /\ TypeOK /\ Control /\ Connected /\ Current /\ UrbSound /\ MovedTo /\ DataHeld
    /\ Quiet /\ Agreed

USE DEF hubVars, devVars, vars

-----------------------------------------------------------------------------
(* What the requests and answers are.                                      *)

LEMMA RequestShapes ==
    /\ Plug = [status |-> {"CONNECTION"}, change |-> {"C_CONNECTION"}]
    /\ Completed = [status |-> {"ENABLE"}, change |-> {"C_RESET"}]
    /\ Resumed = [status |-> {}, change |-> {"C_SUSPEND"}]
<1>1. SpeedBits("full") = {}
  BY DEF SpeedBits
<1> QED  BY <1>1 DEF Plug, Completed, Connect, ResetCompleted, Resumed

LEMMA RequestFields ==
    ASSUME NEW q \in Requests
    PROVE  \/ q = Plug /\ q.status = {"CONNECTION"} /\ q.change = {"C_CONNECTION"}
           \/ q = Completed /\ q.status = {"ENABLE"} /\ q.change = {"C_RESET"}
           \/ q = Resumed /\ q.status = {} /\ q.change = {"C_SUSPEND"}
<1>1. CASE q = Plug
  BY <1>1, RequestShapes
<1>2. CASE q = Completed
  BY <1>2, RequestShapes
<1>3. CASE q = Resumed
  BY <1>3, RequestShapes
<1> QED  BY <1>1, <1>2, <1>3 DEF Requests

LEMMA RequestsDiffer ==
    Plug # Resumed /\ Completed # Resumed
    /\ Plug # Completed
<1>1. Plug \in Requests /\ Completed \in Requests /\ Resumed \in Requests
  BY DEF Requests
<1>2. {"C_CONNECTION"} # {"C_RESET"} /\ {"C_SUSPEND"} # {"C_RESET"}
      /\ {"C_SUSPEND"} # {"C_CONNECTION"}
  OBVIOUS
<1>3. /\ Plug.change = {"C_CONNECTION"} /\ Completed.change = {"C_RESET"}
      /\ Resumed.change = {"C_SUSPEND"}
  BY RequestShapes
<1> QED  BY <1>2, <1>3

(* At most one answer is called for when one bit has risen.                *)
LEMMA AnswersNone ==
    ASSUME NEW st, NEW prev, ~Rises("POWER", st, prev),
           ~(Rises("RESET", st, prev) /\ "CONNECTION" \in st.status),
           ~(st.resuming /\ ~prev.resuming /\ "CONNECTION" \in st.status)
    PROVE  Answers(st, prev) = <<>>
BY DEF Answers, When, Plug, Completed

LEMMA AnswersConnect ==
    ASSUME NEW st, NEW prev, Rises("POWER", st, prev), "RESET" \notin st.status, ~st.resuming
    PROVE  Answers(st, prev) = <<Plug>>
<1>1. /\ When(Rises("POWER", st, prev), Plug) = <<Plug>>
      /\ When(Rises("RESET", st, prev) /\ "CONNECTION" \in st.status, Completed) = <<>>
      /\ When(st.resuming /\ ~prev.resuming /\ "CONNECTION" \in st.status, Resumed) = <<>>
  BY DEF When, Rises
<1>2. <<Plug>> \in Seq({Plug})
  OBVIOUS
<1> QED  BY <1>1, <1>2, ConcatEmptySeq DEF Answers, Plug, Completed

LEMMA AnswersReset ==
    ASSUME NEW st, NEW prev, ~Rises("POWER", st, prev), ~st.resuming,
           Rises("RESET", st, prev), "CONNECTION" \in st.status
    PROVE  Answers(st, prev) = <<Completed>>
<1>1. /\ When(Rises("POWER", st, prev), Plug) = <<>>
      /\ When(Rises("RESET", st, prev) /\ "CONNECTION" \in st.status, Completed)
            = <<Completed>>
      /\ When(st.resuming /\ ~prev.resuming /\ "CONNECTION" \in st.status, Resumed) = <<>>
  BY DEF When
<1>2. <<Completed>> \in Seq({Completed})
  OBVIOUS
<1>3. <<>> \o <<Completed>> = <<Completed>>
  BY <1>2, ConcatEmptySeq
<1>4. <<Completed>> \o <<>> = <<Completed>>
  BY <1>2, ConcatEmptySeq
<1> QED  BY <1>1, <1>3, <1>4 DEF Answers, Plug, Completed

LEMMA AnswersResume ==
    ASSUME NEW st, NEW prev, ~Rises("POWER", st, prev), ~Rises("RESET", st, prev),
           st.resuming, ~prev.resuming, "CONNECTION" \in st.status
    PROVE  Answers(st, prev) = <<Resumed>>
<1>1. /\ When(Rises("POWER", st, prev), Plug) = <<>>
      /\ When(Rises("RESET", st, prev) /\ "CONNECTION" \in st.status, Completed) = <<>>
      /\ When(st.resuming /\ ~prev.resuming /\ "CONNECTION" \in st.status, Resumed)
            = <<Resumed>>
  BY DEF When
<1>2. <<Resumed>> \in Seq({Resumed}) /\ <<>> \in Seq({Resumed})
  OBVIOUS
<1>3. <<>> \o <<Resumed>> = <<Resumed>> /\ <<>> \o <<>> = <<>>
  BY <1>2, ConcatEmptySeq
<1> QED  BY <1>1, <1>3 DEF Answers, Plug, Completed

LEMMA AnswersType ==
    ASSUME NEW st, NEW prev
    PROVE  Answers(st, prev) \in Seq(Requests)
<1> DEFINE a == When(Rises("POWER", st, prev), Plug)
           b == When(Rises("RESET", st, prev) /\ "CONNECTION" \in st.status, Completed)
           c == When(st.resuming /\ ~prev.resuming /\ "CONNECTION" \in st.status, Resumed)
<1>1. a \in Seq(Requests) /\ b \in Seq(Requests) /\ c \in Seq(Requests)
  <2>1. <<>> \in Seq(Requests) /\ \A q \in Requests : <<q>> \in Seq(Requests)
    OBVIOUS
  <2>2. Plug \in Requests /\ Completed \in Requests /\ Resumed \in Requests
    BY DEF Requests
  <2> HIDE DEF Requests
  <2> QED  BY <2>1, <2>2 DEF When
<1> HIDE DEF a, b, c
<1>2. (a \o b) \o c \in Seq(Requests)
  BY <1>1, ConcatProperties
<1>3. Answers(st, prev) = (a \o b) \o c
  BY DEF Answers, a, b, c, Plug, Completed
<1> QED  BY <1>2, <1>3

(* A request is typed, keeps the power on, and calls for no further answer.*)
LEMMA RequestEffect ==
    ASSUME NEW q \in Requests, port \in PortStats, Request(q)
    PROVE  /\ port' \in PortStats
           /\ "POWER" \in port'.status
           /\ "RESET" \in port'.status => "RESET" \in port.status /\ q = Resumed
           /\ ~port'.resuming
           /\ port'.change = port.change \cup q.change
           /\ q = Completed => "ENABLE" \in port'.status
           /\ coreAdr' = IF q = Resumed THEN coreAdr
                         ELSE IF q = Plug THEN NoAdr ELSE 0
           /\ doubt' = (doubt /\ q = Resumed)
           /\ pending' = TRUE
<1>1. /\ ClearedBy("C_CONNECTION") = StatusBits \ {"POWER", "OVERCURRENT"}
      /\ ClearedBy("C_RESET") = {"RESET"}
      /\ ClearedBy("C_SUSPEND") = {"SUSPEND"}
  BY DEF ClearedBy
<1>2. /\ q.status \subseteq StatusBits /\ "POWER" \notin q.status /\ "RESET" \notin q.status
      /\ q.change \subseteq ChangeBits
  BY RequestFields DEF StatusBits, ChangeBits
<1> DEFINE cleared == UNION {ClearedBy(c) : c \in q.change}
<1>3. /\ "POWER" \notin cleared
      /\ q # Resumed => "RESET" \in cleared
  <2>1. \A c : q.change = {c} => cleared = ClearedBy(c)
    OBVIOUS
  <2> HIDE DEF cleared
  <2> QED  BY <1>1, <2>1, RequestFields DEF StatusBits
<1>4. /\ port'.status = (port.status \ cleared) \cup q.status
      /\ port'.change = port.change \cup q.change
      /\ port'.resuming = (port.resuming /\ q.change = {"C_OVERCURRENT"})
  BY DEF Request
<1>5. port' \in PortStats
  BY <1>2 DEF Request, PortStats
<1>6. ~port'.resuming
  <2>1. "C_OVERCURRENT" \notin q.change
    BY RequestFields
  <2> QED  BY <1>4, <2>1
<1>7. "POWER" \in port'.status
  BY <1>3, <1>4 DEF Request, Accepts
<1>8. "RESET" \in port'.status => "RESET" \in port.status /\ q = Resumed
  BY <1>2, <1>3, <1>4
<1>9. q = Completed => "ENABLE" \in port'.status
  BY <1>4, RequestFields, RequestsDiffer
<1>10. coreAdr' = IF q = Resumed THEN coreAdr
                  ELSE IF q = Plug THEN NoAdr ELSE 0
  BY RequestFields, RequestsDiffer DEF Request
<1>11. doubt' = (doubt /\ q = Resumed)
  BY RequestFields, RequestsDiffer DEF Request
<1> QED  BY <1>4, <1>5, <1>6, <1>7, <1>8, <1>9, <1>10, <1>11 DEF Request

-----------------------------------------------------------------------------
(* The initial state.                                                      *)
LEMMA InitHolds == Init => IInv
<1> SUFFICES ASSUME Init PROVE IInv
  OBVIOUS
<1> USE DEF Init, HubInit
<1>1. TypeOK
  <2>1. HubTypeOK
    <3>1. port \in PortStats
      BY DEF ZeroStat, PortStats
    <3>2. commands \in 0..MaxCommands
      BY MaxCommandsAssumption
    <3> QED  BY <3>1, <3>2 DEF HubTypeOK
  <2>2. <<>> \in Seq(Requests)
    OBVIOUS
  <2> QED  BY <2>1, <2>2 DEF TypeOK, Requests, Plug, Completed, ZeroStat, PortStats
<1>2. Control /\ Connected /\ Current /\ UrbSound /\ MovedTo /\ DataHeld
  BY DEF Control, Connected, Current, UrbSound, MovedTo, Moved, DataHeld, ZeroStat
<1>3. Quiet /\ Agreed
  BY DEF Quiet, Agreed, NoUrb
<1> QED  BY <1>1, <1>2, <1>3 DEF IInv

(* The answers to reports.                                                 *)
LEMMA FetchStatKeeps ==
    ASSUME IInv, FetchStat
    PROVE  IInv'
<1> USE DEF IInv, FetchStat
<1>1. TypeOK'
  <2>1. AdrAfter(port) \in Addresses \cup {NoAdr}
    BY DEF TypeOK, AdrAfter, Addresses, MaxAddress
  <2>2. todo' \in Seq(Requests)
    BY AnswersType
  <2> QED  BY <2>1, <2>2 DEF TypeOK, HubTypeOK, Requests, Plug, Completed
<1>2. (Control /\ Connected /\ Current /\ UrbSound /\ MovedTo /\ DataHeld)'
  BY DEF Control, Connected, Current, UrbSound, MovedTo, Moved, DataHeld
<1>3. Quiet'
  <2> SUFFICES ASSUME ~hasty PROVE Quiet'
    BY DEF Quiet
  <2>1. urb = NoUrb /\ Answerable(Answers(port, stat))
    BY DEF Quiet
  <2>3. todo' # <<>> => \E q \in Requests : todo' = <<q>> /\ InOrder(q)
    BY <2>1 DEF Answerable
  <2>4. \A q : InOrder(q) <=> InOrder(q)'
    BY DEF InOrder, Accepts
  <2>5. Answerable(todo)'
    BY <2>3, <2>4 DEF Answerable
  <2> QED  BY <2>1, <2>5 DEF Quiet, NoUrb
<1>4. Agreed'
  BY DEF Agreed, Moved
<1> QED  BY <1>1, <1>2, <1>3, <1>4

LEMMA AnswerKeeps ==
    ASSUME IInv, Answer
    PROVE  IInv'
<1> USE DEF IInv, Answer
<1> DEFINE q == Head(todo)
<1>1. todo # <<>> /\ todo \in Seq(Requests)
  BY DEF Control, TypeOK, Requests, Plug, Completed
<1>2. q \in Requests /\ Tail(todo) \in Seq(Requests)
  BY <1>1, HeadTailProperties
<1>3. Request(q) /\ port \in PortStats
  BY DEF TypeOK, HubTypeOK
<1> HIDE DEF q
<1>4. /\ port' \in PortStats /\ "POWER" \in port'.status
      /\ "RESET" \in port'.status => "RESET" \in port.status /\ q = Resumed
      /\ ~port'.resuming
      /\ port'.change = port.change \cup q.change
      /\ q = Completed => "ENABLE" \in port'.status
      /\ coreAdr' = IF q = Resumed THEN coreAdr ELSE IF q = Plug THEN NoAdr ELSE 0
      /\ doubt' = (doubt /\ q = Resumed)
      /\ pending' = TRUE
  BY <1>2, <1>3, RequestEffect
<1>5. urb' = urb /\ "POWER" \in port.status
  BY <1>3 DEF Request, Accepts
<1>6. TypeOK'
  <2>1. coreAdr' \in Addresses \cup {NoAdr}
    BY <1>4 DEF TypeOK, HubTypeOK, Addresses, MaxAddress
  <2>2. HubTypeOK'
    BY <1>4, <1>5, <2>1 DEF TypeOK, HubTypeOK
  <2> QED  BY <1>2, <2>2 DEF TypeOK, Requests, Plug, Completed, q
<1>7. (Control /\ Connected /\ Current /\ UrbSound /\ MovedTo /\ DataHeld)'
  BY <1>4, <1>5 DEF Control, Connected, Current, UrbSound, MovedTo, Moved, DataHeld
<1>8. ~hasty => /\ ~pending /\ urb = NoUrb /\ todo = <<q>> /\ InOrder(q)
  BY <1>1, HeadTailProperties DEF Quiet, Answerable, q
<1>9. Quiet'
  <2> SUFFICES ASSUME ~hasty PROVE Quiet'
    BY DEF Quiet
  <2>1. todo' = <<>> /\ pc' = "fetch"
    <3>1. Tail(<<q>>) = <<>>
      OBVIOUS
    <3> QED  BY <1>8, <3>1
  <2>2. stat' = port
    BY <1>8 DEF Current
  <2>3. Answers(port', stat') = <<>>
    <3>1. ~Rises("POWER", port', stat')
      BY <1>5, <2>2 DEF Rises
    <3>2. ~Rises("RESET", port', stat')
      BY <1>4, <2>2 DEF Rises
    <3> QED  BY <1>4, <3>1, <3>2, AnswersNone
  <2> QED  BY <1>4, <1>5, <1>8, <2>1, <2>3 DEF Quiet, Answerable, NoUrb
<1>10. Agreed'
  <2> SUFFICES ASSUME ~hasty, ~doubt', coreAdr' # NoAdr
               PROVE  AdrAfter(port)' = coreAdr'
    BY <1>4 DEF Agreed
  <2>1. CASE q = Resumed
    <3>1. q.change = {"C_SUSPEND"}
      BY <2>1, RequestShapes
    <3>2. port'.change = {"C_SUSPEND"}
      BY <1>4, <1>8, <3>1 DEF InOrder
    <3>3. AdrAfter(port)' = adr
      BY <3>2 DEF AdrAfter, ResetDone, ConnectionChanged
    <3> QED  BY <1>4, <1>8, <2>1, <3>3 DEF Agreed, Moved
  <2>2. CASE q = Completed
    <3>1. "C_RESET" \in port'.change
      BY <1>4, <2>2, RequestShapes
    <3>2. "RESET" \notin port'.status /\ "ENABLE" \in port'.status
      BY <1>4, <2>2, RequestsDiffer
    <3> QED  BY <1>4, <2>2, <3>1, <3>2, RequestsDiffer DEF AdrAfter, ResetDone
  <2> QED  BY <1>2, <1>4, <2>1, <2>2, RequestsDiffer DEF Requests
<1> QED  BY <1>6, <1>7, <1>9, <1>10

LEMMA AnswerRefusedKeeps ==
    ASSUME IInv, AnswerRefused
    PROVE  IInv'
<1> USE DEF IInv, AnswerRefused
<1>1. hasty
  <2> SUFFICES ASSUME ~hasty PROVE FALSE
    OBVIOUS
  <2>1. PICK q \in Requests : todo = <<q>> /\ InOrder(q)
    BY DEF Control, Quiet, Answerable
  <2>2. Head(todo) = q
    BY <2>1
  <2> QED  BY <2>1, <2>2 DEF InOrder
<1>2. TypeOK'
  BY DEF TypeOK, HubTypeOK
<1>3. (Control /\ Connected /\ Current /\ UrbSound /\ MovedTo /\ DataHeld)'
  BY <1>1 DEF Control, Connected, Current, UrbSound, MovedTo, Moved, DataHeld
<1>4. Quiet' /\ Agreed'
  BY <1>1 DEF Quiet, Agreed
<1> QED  BY <1>2, <1>3, <1>4

-----------------------------------------------------------------------------
(* The requests to the device.                                             *)

LEMMA SetAddressAgree ==
    ASSUME NEW k \in KernelUrbs, Sound(k)
    PROVE  IsSetAddress2(k) <=> AssignsAddress(k)
<1>1. k.epadr \in 0..255 /\ k.rt \in 0..255
  BY DEF KernelUrbs, Byte, MaxByte
<1>2. k.epadr % 128 = 0 <=> k.epadr = 0 \/ k.epadr = 128
  BY <1>1
<1>3. k.rt = 0 => ~IsIn(k)
  BY <1>1 DEF Sound
<1> QED  BY <1>1, <1>2, <1>3 DEF IsSetAddress2, AtEndpoint0, AssignsAddress, IsIn

LEMMA ProcessEffect ==
    ASSUME NEW k \in KernelUrbs, Sound(k), Process(k), adr \in Addresses \cup {NoAdr}
    PROVE  /\ status' \in {"PENDING", "SUCCESS", "STALL"}
           /\ adr' \in Addresses \cup {NoAdr}
           /\ ~AssignsAddress(k) => adr' = adr
           /\ AssignsAddress(k) => \/ status' = "SUCCESS" /\ adr' = k.val /\ k.val <= MaxAddress
                                   \/ status' = "STALL" /\ adr' = adr
<1>1. k.val \in Nat
  <2>1. k.val \in Word
    BY DEF KernelUrbs
  <2>2. \A n \in Word : n \in Nat
    BY DEF Word
  <2> QED  BY <2>1, <2>2
<1>2. CASE IsSetAddress2(k)
  <2>1. CASE k.val > MaxAddress
    BY <1>1, <1>2, <2>1, SetAddressAgree DEF Process
  <2>2. CASE ~(k.val > MaxAddress)
    <3>1. \A n \in Nat : ~(n > 127) => n \in 0..127
      OBVIOUS
    <3>2. k.val \in Addresses
      BY <1>1, <2>2, <3>1 DEF Addresses, MaxAddress
    <3>3. k.val <= MaxAddress
      BY <3>2 DEF Addresses, MaxAddress
    <3> QED  BY <1>2, <2>2, <3>2, <3>3, SetAddressAgree DEF Process
  <2> QED  BY <2>1, <2>2
<1>3. CASE ~IsSetAddress2(k)
  <2>1. ProcessUrb(k) \in {"PENDING", "SUCCESS", "STALL"}
    BY DEF ProcessUrb
  <2> QED  BY <1>3, <2>1, SetAddressAgree DEF Process
<1> QED  BY <1>2, <1>3

LEMMA UrbTyped ==
    ASSUME IInv, urb.state # "none"
    PROVE  urb # NoUrb /\ urb.urb \in KernelUrbs /\ Sound(urb.urb)
BY DEF IInv, TypeOK, HubTypeOK, UrbSound, Sound, NoUrb

(* What does not concern the urb in hand leaves the rest alone.            *)
LEMMA NotForMeKeeps ==
    ASSUME IInv, NotForMe
    PROVE  IInv'
<1> USE DEF IInv, NotForMe
<1>1. urb.urb \in KernelUrbs /\ Sound(urb.urb)
  BY UrbTyped
<1>2. urb' # NoUrb /\ urb'.state = "fetched" /\ urb'.urb = urb.urb
      /\ urb' \in [state : UrbStates, urb : KernelUrbs]
  BY <1>1 DEF TypeOK, HubTypeOK, NoUrb, UrbStates
<1>3. TypeOK'
  BY <1>2 DEF TypeOK, HubTypeOK
<1>4. (Control /\ Connected /\ Current /\ UrbSound /\ MovedTo /\ DataHeld)'
  BY <1>1, <1>2 DEF Control, Connected, Current, UrbSound, MovedTo, Moved, DataHeld, Sound
<1>5. Quiet'
  BY <1>1, <1>2, UrbTyped DEF Quiet
<1>6. Agreed'
  BY <1>2 DEF Agreed, Moved, Quiet, NoUrb
<1> QED  BY <1>3, <1>4, <1>5, <1>6

LEMMA FetchUrbKeeps ==
    ASSUME IInv, FetchUrb
    PROVE  IInv'
<1> USE DEF IInv, FetchUrb
<1>1. urb # NoUrb /\ urb.urb \in KernelUrbs /\ Sound(urb.urb)
  BY UrbTyped
<1>2. urb' # NoUrb /\ urb'.state = "fetched" /\ urb'.urb = urb.urb
      /\ urb' \in [state : UrbStates, urb : KernelUrbs]
  BY <1>1 DEF TypeOK, HubTypeOK, NoUrb, UrbStates
<1>3. \/ pc' = "data" /\ adr' = adr /\ status' = status
      \/ pc' = "giveback" /\ Process(urb.urb)
  OBVIOUS
<1>4. /\ status' \in {"PENDING", "SUCCESS", "STALL"}
      /\ adr' \in Addresses \cup {NoAdr}
      /\ ~AssignsAddress(urb.urb) => adr' = adr
      /\ pc' = "data" => adr' = adr
      /\ pc' = "giveback" /\ AssignsAddress(urb.urb) =>
            \/ status' = "SUCCESS" /\ adr' = urb.urb.val /\ urb.urb.val <= MaxAddress
            \/ status' = "STALL" /\ adr' = adr
  BY <1>1, <1>3, ProcessEffect DEF TypeOK
<1>5. TypeOK'
  <2>1. pc' \in {"data", "giveback"} /\ buffers' \in {"none", "live"}
    BY <1>3
  <2> QED  BY <1>2, <1>4, <2>1 DEF TypeOK, HubTypeOK
<1>6. (Control /\ Connected /\ Current /\ UrbSound /\ MovedTo /\ DataHeld)'
  BY <1>1, <1>2, <1>3, <1>4
  DEF Control, Connected, Current, UrbSound, MovedTo, Moved, DataHeld, Sound
<1>7. Quiet'
  BY <1>1, <1>2, <1>3 DEF Quiet
<1>8. Agreed'
  BY <1>1, <1>2, <1>3, <1>4 DEF Agreed, Moved, Quiet
<1> QED  BY <1>5, <1>6, <1>7, <1>8

LEMMA FetchDataKeeps ==
    ASSUME IInv, FetchData
    PROVE  IInv'
<1> USE DEF IInv, FetchData
<1>1. urb # NoUrb /\ urb.urb \in KernelUrbs /\ Sound(urb.urb)
  BY UrbTyped
<1>2. /\ status' \in {"PENDING", "SUCCESS", "STALL"}
      /\ adr' \in Addresses \cup {NoAdr}
      /\ ~AssignsAddress(urb.urb) => adr' = adr
      /\ AssignsAddress(urb.urb) =>
            \/ status' = "SUCCESS" /\ adr' = urb.urb.val /\ urb.urb.val <= MaxAddress
            \/ status' = "STALL" /\ adr' = adr
  BY <1>1, ProcessEffect DEF TypeOK
<1>3. TypeOK'
  BY <1>2 DEF TypeOK, HubTypeOK
<1>4. (Control /\ Connected /\ Current /\ UrbSound /\ MovedTo /\ DataHeld)'
  BY <1>2 DEF Control, Connected, Current, UrbSound, MovedTo, Moved, DataHeld
<1>5. Quiet'
  BY <1>1 DEF Quiet
<1>6. Agreed'
  BY <1>1, <1>2 DEF Agreed, Moved, Quiet
<1> QED  BY <1>3, <1>4, <1>5, <1>6

(* A SET_ADDRESS whose data could not be read is carried out all the same; *)
(* if it is gone, the core has given it up.                                *)
LEMMA FetchDataFailsKeeps ==
    ASSUME IInv, FetchDataFails
    PROVE  IInv'
<1> USE DEF IInv, FetchDataFails
<1>0. urb.state \in {"fetched", "unlinked"}
  BY DEF Control
<1>1. urb # NoUrb /\ urb.urb \in KernelUrbs /\ Sound(urb.urb)
  BY <1>0, UrbTyped
<1>2. /\ status' \in {"PENDING", "SUCCESS", "STALL"}
      /\ adr' \in Addresses \cup {NoAdr}
      /\ ~AssignsAddress(urb.urb) => adr' = adr
      /\ AssignsAddress(urb.urb) =>
            \/ status' = "SUCCESS" /\ adr' = urb.urb.val /\ urb.urb.val <= MaxAddress
            \/ status' = "STALL" /\ adr' = adr
  BY <1>1, ProcessEffect DEF TypeOK
<1>3. TypeOK'
  BY <1>2 DEF TypeOK, HubTypeOK
<1>4. (Control /\ Connected /\ Current /\ UrbSound /\ MovedTo /\ DataHeld)'
  BY <1>2 DEF Control, Connected, Current, UrbSound, MovedTo, Moved, DataHeld, NoUrb
<1>5. Quiet'
  BY <1>1 DEF Quiet, NoUrb
<1>6. Agreed'
  <2>1. CASE urb.state = "unlinked"
    BY <1>1, <1>2, <2>1 DEF Agreed, Moved, Quiet, DataHeld
  <2>2. CASE urb' = urb /\ urb.state = "fetched"
    BY <1>1, <1>2, <2>2 DEF Agreed, Moved, Quiet
  <2> QED  BY <1>0, <2>1, <2>2
<1> QED  BY <1>3, <1>4, <1>5, <1>6

LEMMA GivebackUrbKeeps ==
    ASSUME IInv, GivebackUrb
    PROVE  IInv'
<1> USE DEF IInv, GivebackUrb, Giveback
<1>1. Moved => urb.urb \in KernelUrbs /\ urb.urb.val <= MaxAddress /\ adr = urb.urb.val
  BY UrbTyped DEF Moved, MovedTo
<1>2. coreAdr' = IF Moved /\ coreAdr = urb.urb.devadr THEN urb.urb.val ELSE coreAdr
  BY DEF Moved
<1>3. coreAdr' \in Addresses \cup {NoAdr}
  BY <1>1, <1>2 DEF TypeOK, HubTypeOK
<1>4. TypeOK'
  BY <1>3 DEF TypeOK, HubTypeOK
<1>5. (Control /\ Connected /\ Current /\ UrbSound /\ MovedTo /\ DataHeld)'
  BY DEF Control, Connected, Current, UrbSound, MovedTo, Moved, DataHeld
<1>6. Quiet'
  BY <1>2 DEF Quiet, NoUrb, Moved
<1>7. Agreed'
  <2>1. ~Moved'
    BY DEF Moved
  <2>2. ~hasty => ~pending
    BY DEF Quiet
  <2>3. ~hasty /\ Moved => urb.urb.devadr = coreAdr
    BY DEF Quiet, Moved
  <2> QED  BY <1>1, <1>2, <2>1, <2>2, <2>3 DEF Agreed
<1> QED  BY <1>4, <1>5, <1>6, <1>7

LEMMA OthersKeep ==
    ASSUME IInv, Free \/ FetchCancel
    PROVE  IInv'
<1> USE DEF IInv
<1>1. CASE Free
  <2>1. pc' \in {"fetch", "crashed"}
    BY <1>1 DEF Free
  <2>2. TypeOK'
    BY <1>1, <2>1 DEF Free, TypeOK, HubTypeOK
  <2>3. (Control /\ Connected /\ Current /\ UrbSound /\ MovedTo /\ DataHeld)'
    BY <1>1, <2>1
    DEF Free, Control, Connected, Current, UrbSound, MovedTo, Moved, DataHeld
  <2>4. Quiet'
    BY <1>1, <2>1 DEF Free, Quiet
  <2>5. Agreed'
    BY <1>1, <2>1 DEF Free, Agreed, Moved, Quiet
  <2> QED  BY <2>2, <2>3, <2>4, <2>5
<1>2. CASE FetchCancel
  <2>1. urb # NoUrb /\ urb.urb \in KernelUrbs /\ Sound(urb.urb)
    BY <1>2, UrbTyped DEF FetchCancel
  <2>2. urb' # NoUrb /\ urb'.state = "canceling" /\ urb'.urb = urb.urb
        /\ urb' \in [state : UrbStates, urb : KernelUrbs]
    BY <1>2, <2>1 DEF FetchCancel, TypeOK, HubTypeOK, NoUrb, UrbStates
  <2>3. TypeOK'
    BY <1>2, <2>2 DEF FetchCancel, TypeOK, HubTypeOK
  <2>4. (Control /\ Connected /\ Current /\ UrbSound /\ MovedTo /\ DataHeld)'
    BY <1>2, <2>1, <2>2
    DEF FetchCancel, Control, Connected, Current, UrbSound, MovedTo, Moved, DataHeld, Sound
  <2>5. Quiet'
    BY <1>2, <2>1, <2>2 DEF FetchCancel, Quiet
  <2>6. Agreed'
    BY <1>2, <2>1, <2>2 DEF FetchCancel, Agreed, Moved, Quiet
  <2> QED  BY <2>3, <2>4, <2>5, <2>6
<1> QED  BY <1>1, <1>2

-----------------------------------------------------------------------------
(* The usb core.  If it is not hasty afterwards, all was settled before; or*)
(* it has switched the power off when the reports had been handled.        *)

LEMMA PortCommandKeeps ==
    ASSUME IInv, NEW st \in SUBSET StatusBits, NEW resuming \in BOOLEAN, NEW lost \in BOOLEAN,
           PortCommand(st, resuming, lost), UNCHANGED devVars, pc # "returned",
           hasty' \in BOOLEAN, "CONNECTION" \in st => "POWER" \in st,
           ~hasty' => /\ Handled(pc = "fetch")
                      /\ Answerable(Answers(port, stat))'
                      /\ ~lost => Settled(pc = "fetch") /\ ~hasty
    PROVE  IInv'
<1> USE DEF IInv, PortCommand, Command
<1>1. TypeOK'
  <2>1. port' \in PortStats
    BY DEF TypeOK, HubTypeOK, PortStats
  <2>2. commands' \in 0..MaxCommands
    BY MaxCommandsAssumption DEF TypeOK, HubTypeOK
  <2> QED  BY <2>1, <2>2 DEF TypeOK, HubTypeOK
<1>2. (Control /\ Connected /\ Current /\ UrbSound /\ MovedTo /\ DataHeld)'
  BY DEF Control, Connected, Current, UrbSound, MovedTo, Moved, DataHeld, TypeOK, HubTypeOK,
     PortStats
<1>3. Quiet'
  <2> SUFFICES ASSUME ~hasty' PROVE Quiet'
    BY DEF Quiet
  <2>1. pc = "fetch" /\ urb = NoUrb /\ Answerable(Answers(port, stat))'
    BY DEF Handled
  <2> QED  BY <2>1 DEF Quiet, NoUrb
<1>4. Agreed'
  <2> SUFFICES ASSUME ~hasty', ~doubt', coreAdr' # NoAdr
               PROVE  AdrAfter(port)' = coreAdr'
    BY DEF Agreed
  <2>1. ~lost
    OBVIOUS
  <2>2. port'.change = {}
    BY <2>1 DEF Settled, TypeOK, HubTypeOK, PortStats
  <2>3. AdrAfter(port)' = adr
    BY <2>2 DEF AdrAfter, ResetDone, ConnectionChanged
  <2> QED  BY <2>1, <2>3 DEF Settled, Handled, Agreed, Moved
<1> QED  BY <1>1, <1>2, <1>3, <1>4

(* While all is settled the program knows the port, so the commands of the *)
(* core call for the answer that fits.                                     *)
LEMMA KnownPort ==
    ASSUME IInv, Handled(pc = "fetch")
    PROVE  stat = port /\ urb = NoUrb /\ pc = "fetch" /\ port \in PortStats
BY DEF IInv, Handled, Current, TypeOK, HubTypeOK

LEMMA PowerOnKeeps ==
    ASSUME IInv, PowerOn(pc = "fetch"), UNCHANGED devVars, pc # "returned"
    PROVE  IInv'
<1> USE DEF PowerOn
<1>1. PortCommand({"POWER"}, FALSE, TRUE)
  OBVIOUS
<1>2. hasty' \in BOOLEAN
  BY DEF IInv, TypeOK, HubTypeOK
<1>3. ASSUME ~hasty'
      PROVE  Handled(pc = "fetch") /\ Answerable(Answers(port, stat))'
  <2>1. Settled(pc = "fetch") /\ Handled(pc = "fetch")
    BY <1>3 DEF Settled
  <2>2. stat' = port /\ port'.status = {"POWER"} /\ ~port'.resuming
    BY <2>1, KnownPort DEF PortCommand, PortStats
  <2>3. Answers(port, stat)' = <<Plug>>
    <3>1. Rises("POWER", port', stat') /\ "RESET" \notin port'.status
      BY <2>2 DEF Rises
    <3> QED  BY <2>2, <3>1, AnswersConnect
  <2>4. InOrder(Plug)'
    <3>1. Plug.change = {"C_CONNECTION"}
      BY RequestShapes
    <3>2. {"C_CONNECTION"} # {"C_ENABLE"} /\ {"C_CONNECTION"} # {"C_SUSPEND"}
      OBVIOUS
    <3> QED  BY <2>2, <3>1, <3>2 DEF InOrder, Accepts
  <2> QED  BY <2>1, <2>3, <2>4 DEF Answerable, Requests
<1>4. {"POWER"} \in SUBSET StatusBits
  BY DEF StatusBits
<1> QED  BY <1>1, <1>2, <1>3, <1>4, PortCommandKeeps

LEMMA PowerOffKeeps ==
    ASSUME IInv, PowerOff(pc = "fetch"), UNCHANGED devVars, pc # "returned"
    PROVE  IInv'
<1> USE DEF PowerOff
<1>1. PortCommand({}, FALSE, TRUE)
  OBVIOUS
<1>2. hasty' \in BOOLEAN
  OBVIOUS
<1>3. ASSUME ~hasty'
      PROVE  Handled(pc = "fetch") /\ Answerable(Answers(port, stat))'
  <2>1. Handled(pc = "fetch")
    BY <1>3
  <2>2. port'.status = {} /\ ~port'.resuming
    BY <2>1, KnownPort DEF PortCommand, PortStats
  <2>3. Answers(port, stat)' = <<>>
    BY <2>2, AnswersNone DEF Rises
  <2> QED  BY <2>1, <2>3 DEF Answerable
<1> QED  BY <1>1, <1>2, <1>3, PortCommandKeeps

LEMMA ResetKeeps ==
    ASSUME IInv, Reset(pc = "fetch"), UNCHANGED devVars, pc # "returned"
    PROVE  IInv'
<1> USE DEF Reset
<1> DEFINE st == (port.status \ {"ENABLE", "SUSPEND"}) \cup {"RESET"}
<1>1. PortCommand(st, FALSE, TRUE)
  OBVIOUS
<1>2. hasty' \in BOOLEAN
  BY DEF IInv, TypeOK, HubTypeOK
<1>3. ASSUME ~hasty'
      PROVE  Handled(pc = "fetch") /\ Answerable(Answers(port, stat))'
  <2>1. Settled(pc = "fetch") /\ Handled(pc = "fetch")
    BY <1>3 DEF Settled
  <2>2. stat' = port /\ port'.status = st /\ ~port'.resuming
    BY <2>1, KnownPort DEF PortCommand, PortStats
  <2>3. Answers(port, stat)' = <<Completed>>
    <3>1. /\ ~Rises("POWER", port', stat') /\ Rises("RESET", port', stat')
          /\ "CONNECTION" \in port'.status
      BY <2>2 DEF Rises
    <3> QED  BY <2>2, <3>1, AnswersReset
  <2>4. InOrder(Completed)'
    <3>1. Completed.change = {"C_RESET"}
      BY RequestShapes
    <3>2. {"C_RESET"} # {"C_ENABLE"} /\ {"C_RESET"} # {"C_SUSPEND"}
      OBVIOUS
    <3>3. "POWER" \in port'.status
      BY <2>2 DEF IInv, Connected
    <3> QED  BY <2>2, <3>1, <3>2, <3>3 DEF InOrder, Accepts
  <2> QED  BY <2>1, <2>3, <2>4 DEF Answerable, Requests
<1>4. st \in SUBSET StatusBits /\ ("CONNECTION" \in st => "POWER" \in st)
  BY DEF StatusBits, IInv, TypeOK, HubTypeOK, PortStats, Connected
<1> HIDE DEF st
<1> QED  BY <1>1, <1>2, <1>3, <1>4, PortCommandKeeps

LEMMA SuspendKeeps ==
    ASSUME IInv, Suspend(pc = "fetch"), UNCHANGED devVars, pc # "returned"
    PROVE  IInv'
<1> USE DEF Suspend
<1> DEFINE st == port.status \cup {"SUSPEND"}
<1>1. PortCommand(st, FALSE, FALSE)
  OBVIOUS
<1>2. hasty' \in BOOLEAN
  BY DEF IInv, TypeOK, HubTypeOK
<1>3. ASSUME ~hasty'
      PROVE  /\ Settled(pc = "fetch") /\ Handled(pc = "fetch") /\ ~hasty
             /\ Answerable(Answers(port, stat))'
  <2>1. Settled(pc = "fetch") /\ Handled(pc = "fetch") /\ ~hasty
    BY <1>3 DEF Settled
  <2>2. stat' = port /\ port'.status = st /\ ~port'.resuming
    BY <2>1, KnownPort DEF PortCommand, PortStats
  <2>3. Answers(port, stat)' = <<>>
    <3>1. ~Rises("POWER", port', stat') /\ ~Rises("RESET", port', stat')
      BY <2>2 DEF Rises
    <3> QED  BY <2>2, <3>1, AnswersNone
  <2> QED  BY <2>1, <2>3 DEF Answerable
<1>4. st \in SUBSET StatusBits /\ ("CONNECTION" \in st => "POWER" \in st)
  BY DEF StatusBits, IInv, TypeOK, HubTypeOK, PortStats, Connected
<1> HIDE DEF st
<1> QED  BY <1>1, <1>2, <1>3, <1>4, PortCommandKeeps

LEMMA ResumeKeeps ==
    ASSUME IInv, Resume(pc = "fetch"), UNCHANGED devVars, pc # "returned"
    PROVE  IInv'
<1> USE DEF Resume
<1>1. PortCommand(port.status, TRUE, FALSE)
  OBVIOUS
<1>2. hasty' \in BOOLEAN
  BY DEF IInv, TypeOK, HubTypeOK
<1>3. ASSUME ~hasty'
      PROVE  /\ Settled(pc = "fetch") /\ Handled(pc = "fetch") /\ ~hasty
             /\ Answerable(Answers(port, stat))'
  <2>1. Settled(pc = "fetch") /\ Handled(pc = "fetch") /\ ~hasty
    BY <1>3 DEF Settled
  <2>2. /\ stat' = port /\ port'.status = port.status /\ port'.resuming
        /\ port'.change = {} /\ ~stat'.resuming
    BY <2>1, KnownPort DEF PortCommand, PortStats, Settled
  <2>3. ~Rises("POWER", port', stat') /\ ~Rises("RESET", port', stat')
    BY <2>2 DEF Rises
  <2>4. CASE "CONNECTION" \in port.status
    <3>1. Answers(port, stat)' = <<Resumed>>
      BY <2>2, <2>3, <2>4, AnswersResume
    <3>2. "POWER" \in port'.status
      BY <2>2, <2>4 DEF IInv, Connected
    <3>3. Resumed.change = {"C_SUSPEND"}
      BY RequestShapes
    <3>4. {"C_SUSPEND"} # {"C_ENABLE"}
      OBVIOUS
    <3>5. InOrder(Resumed)'
      BY <2>2, <3>2, <3>3, <3>4 DEF InOrder, Accepts
    <3> QED  BY <2>1, <3>1, <3>5 DEF Answerable, Requests
  <2>5. CASE "CONNECTION" \notin port.status
    <3>1. Answers(port, stat)' = <<>>
      BY <2>2, <2>3, <2>5, AnswersNone
    <3> QED  BY <2>1, <3>1 DEF Answerable
  <2> QED  BY <2>4, <2>5
<1>4. /\ port.status \in SUBSET StatusBits
      /\ "CONNECTION" \in port.status => "POWER" \in port.status
  BY DEF IInv, TypeOK, HubTypeOK, PortStats, Connected
<1> QED  BY <1>1, <1>2, <1>3, <1>4, PortCommandKeeps

LEMMA ClearChangesKeeps ==
    ASSUME IInv, ClearChanges(pc = "fetch"), UNCHANGED devVars, pc # "returned"
    PROVE  IInv'
<1> USE DEF IInv, ClearChanges
<1>1. /\ port' \in PortStats /\ port'.change = {}
      /\ port'.status = port.status /\ port'.resuming = port.resuming
  BY DEF TypeOK, HubTypeOK, PortStats
<1>2. TypeOK'
  BY <1>1 DEF TypeOK, HubTypeOK
<1>3. (Control /\ Connected /\ Current /\ UrbSound /\ MovedTo /\ DataHeld)'
  BY <1>1 DEF Control, Connected, Current, UrbSound, MovedTo, Moved, DataHeld
<1>4. ~hasty' => /\ ~hasty /\ ~pending /\ pc = "fetch" /\ urb = NoUrb
  BY DEF Quiet
<1>5. Quiet'
  <2> SUFFICES ASSUME ~hasty' PROVE Quiet'
    BY DEF Quiet
  <2>1. stat' = port
    BY <1>4 DEF Current
  <2>2. Answers(port, stat)' = <<>>
    BY <1>1, <2>1, AnswersNone DEF Rises
  <2> QED  BY <1>4, <2>2 DEF Quiet, Answerable, NoUrb
<1>6. Agreed'
  <2>1. AdrAfter(port)' = adr
    BY <1>1 DEF AdrAfter, ResetDone, ConnectionChanged
  <2> QED  BY <1>4, <2>1 DEF Agreed, Moved
<1> QED  BY <1>2, <1>3, <1>5, <1>6

LEMMA SubmitKeeps ==
    ASSUME IInv, NEW k \in Urbs, Submit(pc = "fetch", k), UNCHANGED devVars, pc # "returned"
    PROVE  IInv'
<1> USE DEF IInv, Submit, Command
<1>1. k \in KernelUrbs /\ Sound(k)
  BY HubUrbsAssumption DEF Sound
<1>2. coreAdr \in Addresses
  BY DEF TypeOK, HubTypeOK
<1> DEFINE n == [k EXCEPT !.devadr = coreAdr]
<1>3. n \in KernelUrbs /\ Sound(n) /\ n.devadr = coreAdr
  BY <1>1, <1>2 DEF KernelUrbs, Sound, IsIn
<1>4. urb' = [state |-> "queued", urb |-> n]
  OBVIOUS
<1> HIDE DEF n
<1>5. /\ urb' # NoUrb /\ urb'.state = "queued" /\ urb'.urb = n
      /\ urb' \in [state : UrbStates, urb : KernelUrbs]
  BY <1>3, <1>4 DEF NoUrb, UrbStates
<1>6. TypeOK'
  <2>1. commands' \in 0..MaxCommands
    BY MaxCommandsAssumption DEF TypeOK, HubTypeOK
  <2> QED  BY <1>5, <2>1 DEF TypeOK, HubTypeOK
<1>7. pc # "data"
  BY DEF Control, NoUrb
<1>8. (Control /\ Connected /\ Current /\ UrbSound /\ MovedTo /\ DataHeld)'
  BY <1>3, <1>5, <1>7
  DEF Control, Connected, Current, UrbSound, MovedTo, Moved, DataHeld, Sound
<1>9. Quiet'
  BY <1>3, <1>5 DEF Quiet, Settled, Handled
<1>10. Agreed'
  BY <1>5 DEF Agreed, Moved, Settled, Handled, NoUrb
<1> QED  BY <1>6, <1>8, <1>9, <1>10

LEMMA UnlinkKeeps ==
    ASSUME IInv, Unlink, UNCHANGED devVars, pc # "returned"
    PROVE  IInv'
<1> USE DEF IInv, Unlink
<1>1. urb # NoUrb /\ urb.urb \in KernelUrbs /\ Sound(urb.urb)
  BY UrbTyped
<1>2. CASE urb.state = "queued"
  <2>1. urb' = NoUrb /\ doubt' = doubt /\ ~Moved
    BY <1>2 DEF Moved
  <2>2. TypeOK'
    BY <2>1 DEF TypeOK, HubTypeOK
  <2>3. (Control /\ Connected /\ Current /\ UrbSound /\ MovedTo /\ DataHeld)'
    BY <1>2, <2>1
    DEF Control, Connected, Current, UrbSound, MovedTo, Moved, DataHeld, NoUrb
  <2>4. Quiet'
    BY <1>1, <2>1 DEF Quiet, NoUrb
  <2>5. Agreed'
    BY <1>1, <2>1 DEF Agreed, Moved, Quiet, NoUrb
  <2> QED  BY <2>2, <2>3, <2>4, <2>5
<1>3. CASE urb.state = "fetched"
  <2>1. /\ urb' # NoUrb /\ urb'.state = "unlinked" /\ urb'.urb = urb.urb
        /\ urb' \in [state : UrbStates, urb : KernelUrbs]
        /\ doubt' = (doubt \/ AssignsAddress(urb.urb))
    BY <1>1, <1>3 DEF TypeOK, HubTypeOK, NoUrb, UrbStates
  <2>2. TypeOK'
    BY <2>1 DEF TypeOK, HubTypeOK, AssignsAddress
  <2>3. (Control /\ Connected /\ Current /\ UrbSound /\ MovedTo /\ DataHeld)'
    BY <1>1, <2>1
    DEF Control, Connected, Current, UrbSound, MovedTo, Moved, DataHeld, Sound
  <2>4. Quiet'
    BY <1>1, <2>1 DEF Quiet
  <2>5. Agreed'
    BY <1>1, <2>1 DEF Agreed, Moved, Quiet
  <2> QED  BY <2>2, <2>3, <2>4, <2>5
<1> QED  BY <1>2, <1>3

LEMMA CoreKeeps ==
    ASSUME IInv, CoreStep
    PROVE  IInv'
<1>1. UNCHANGED devVars /\ pc # "returned"
  BY DEF CoreStep, Ended
<1>2. CASE PowerOn(pc = "fetch")
  BY <1>1, <1>2, PowerOnKeeps
<1>3. CASE PowerOff(pc = "fetch")
  BY <1>1, <1>3, PowerOffKeeps
<1>4. CASE Reset(pc = "fetch")
  BY <1>1, <1>4, ResetKeeps
<1>5. CASE Suspend(pc = "fetch")
  BY <1>1, <1>5, SuspendKeeps
<1>6. CASE Resume(pc = "fetch")
  BY <1>1, <1>6, ResumeKeeps
<1>7. CASE ClearChanges(pc = "fetch")
  BY <1>1, <1>7, ClearChangesKeeps
<1>8. CASE \E k \in Urbs : Submit(pc = "fetch", k)
  BY <1>1, <1>8, SubmitKeeps
<1>9. CASE Unlink
  BY <1>1, <1>9, UnlinkKeeps
<1> QED  BY <1>2, <1>3, <1>4, <1>5, <1>6, <1>7, <1>8, <1>9 DEF CoreStep, Core

LEMMA StutterKeeps ==
    ASSUME IInv, UNCHANGED vars
    PROVE  IInv'
<1> USE DEF IInv
<1>1. TypeOK'
  BY DEF TypeOK, HubTypeOK
<1>2. (Control /\ Connected /\ Current /\ UrbSound /\ MovedTo /\ DataHeld)'
  BY DEF Control, Connected, Current, UrbSound, MovedTo, Moved, DataHeld
<1>3. Quiet'
  <2>1. Answers(port, stat)' = Answers(port, stat)
    BY DEF Answers, Rises
  <2>2. \A s : Answerable(s)' <=> Answerable(s)
    BY DEF Answerable, InOrder, Accepts
  <2> QED  BY <2>1, <2>2 DEF Quiet
<1>4. Agreed'
  BY DEF Agreed, Moved, AdrAfter
<1> QED  BY <1>1, <1>2, <1>3, <1>4

LEMMA StepKeeps ==
    ASSUME IInv, [Next]_vars
    PROVE  IInv'
<1>1. CASE FetchStat
  BY <1>1, FetchStatKeeps
<1>2. CASE Answer
  BY <1>2, AnswerKeeps
<1>3. CASE AnswerRefused
  BY <1>3, AnswerRefusedKeeps
<1>4. CASE NotForMe
  BY <1>4, NotForMeKeeps
<1>5. CASE FetchUrb
  BY <1>5, FetchUrbKeeps
<1>6. CASE FetchData
  BY <1>6, FetchDataKeeps
<1>7. CASE FetchDataFails
  BY <1>7, FetchDataFailsKeeps
<1>8. CASE GivebackUrb
  BY <1>8, GivebackUrbKeeps
<1>9. CASE Free \/ FetchCancel
  BY <1>9, OthersKeep
<1>10. CASE CoreStep
  BY <1>10, CoreKeeps
<1>11. CASE UNCHANGED vars
  BY <1>11, StutterKeeps
<1>12. FetchNothing \/ Terminated => UNCHANGED vars
  BY DEF FetchNothing, Terminated
<1> QED  BY <1>1, <1>2, <1>3, <1>4, <1>5, <1>6, <1>7, <1>8, <1>9, <1>10, <1>11, <1>12
         DEF Next, Loop

-----------------------------------------------------------------------------
(* The variables of the C example, of the hub and of the usb core keep     *)
(* their types; so the address of a device is never one that does not fit  *)
(* into 7 bits, whatever SET_ADDRESS says.                                 *)
THEOREM TypeCorrect == Spec => []TypeOK
<1>1. IInv => TypeOK
  BY DEF IInv
<1> QED  BY <1>1, InitHolds, StepKeeps, PTL DEF Spec

(* The device and the usb core agree on the address of the device whenever *)
(* all is settled, unless the core was hasty or has given up a SET_ADDRESS *)
(* since the last reset (main and process_urb of virtual_device2.c).       *)
THEOREM AddressesAgree == Spec => []AddressAgreed
<1>1. IInv => AddressAgreed
  <2> SUFFICES ASSUME IInv, Settled(pc = "fetch"), ~hasty, ~doubt, coreAdr # NoAdr
               PROVE  adr = coreAdr
    BY DEF AddressAgreed
  <2> QED  BY DEF IInv, Agreed, Settled, Handled, Moved
<1> QED  BY <1>1, InitHolds, StepKeeps, PTL DEF Spec

(* main returns 1 only if the port has changed behind the report that it   *)
(* answers: the hub takes every request that the edges of a report call for*)
THEOREM RefusedIfHasty == Spec => []RefusedOnlyIfHasty
<1>1. IInv => RefusedOnlyIfHasty
  BY DEF IInv, Control, RefusedOnlyIfHasty
<1> QED  BY <1>1, InitHolds, StepKeeps, PTL DEF Spec
=============================================================================
