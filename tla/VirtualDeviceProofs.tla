------------------------- MODULE VirtualDeviceProofs -------------------------
(***************************************************************************)
(* Proofs that the C++ example and the usb core agree on the address of the*)
(* device, and that no request of the main thread is refused, as long as   *)
(* the core is not hasty: for any control requests, any number of commands *)
(* and any requests of other threads.  What the C example sees in one step *)
(* is on its way here through two threads and a queue.  The triggers by    *)
(* which a port report is answered are those that a device in C computes.  *)
(***************************************************************************)
EXTENDS VirtualDevice, SequenceTheorems, TLAPS

Plug      == Connect("full")
Completed == ResetCompleted(TRUE)
Answering == {Plug, Completed, Resumed}

-----------------------------------------------------------------------------
(* What holds whether the core is hasty or not.                            *)

Control ==
    /\ bg = "stat" => wk.kind = "stat"
    /\ bg \in {"data", "route"} => wk.kind = "urb"
    /\ main = "call" => todo # <<>>
    /\ main \in {"answer", "call"} => work # None
    /\ main = "idle" => work = None /\ todo = <<>>
    /\ Ended => hasty

(* Nobody is connected to a port without power.                            *)
Connected == "CONNECTION" \in port.status => "POWER" \in port.status

(* Between two reports the library, or the background thread, knows the    *)
(* status of the port.                                                     *)
Current == ~pending => port = IF bg = "stat" THEN wk.stat ELSE stat

(* The requests are those of the usb core.                                 *)
Sound(k) ==
    /\ k.type = "CONTROL" /\ k.epadr \in {0, 128} /\ (IsIn(k) => k.rt >= 128)
    /\ AssignsAddress(k) => k.val <= MaxAddress

UrbSound == urb # NoUrb => Sound(urb.urb)

Basics == TypeOK /\ Control /\ Connected /\ Current /\ UrbSound

-----------------------------------------------------------------------------
(* What a core that is not hasty sees.                                     *)

(* A request that the port will take; a resume completes no other change.  *)
InOrder(q) == Accepts(q) /\ (q.change = {"C_SUSPEND"} => port.change = {})

(* There is at most one answer, and it is in order or pointless.           *)
Answerable(s) ==
    s = <<>> \/ \E q \in Answering :
                   /\ s = <<q>>
                   /\ InOrder(q) \/ (q # Plug /\ "CONNECTION" \notin port.status)

(* The main thread waits, or is about to.                                  *)
MainFree == main = "idle" \/ (main = "answer" /\ todo = <<>> /\ work.kind # "urb")

(* A change of the port on its way: not reported yet, reported to the      *)
(* background thread, queued, or being answered by the main thread.        *)
Changed ==
    /\ pending /\ bg = "fetch" /\ inbox = <<>> /\ urb = NoUrb /\ MainFree
    /\ Answerable(Answers(Triggers(port, stat)))

Fetched ==
    /\ ~pending /\ bg = "stat" /\ inbox = <<>> /\ urb = NoUrb /\ MainFree
    /\ Answerable(Answers(Triggers(port, stat)))

Queued ==
    /\ ~pending /\ bg = "fetch" /\ urb = NoUrb /\ MainFree
    /\ \E ts \in SUBSET TriggerFlags :
          inbox = <<[kind |-> "stat", triggers |-> ts]>> /\ Answerable(Answers(ts))

Replying ==
    /\ ~pending /\ bg = "fetch" /\ inbox = <<>> /\ urb = NoUrb
    /\ main \in {"answer", "call"} /\ work.kind = "stat"
    /\ todo # <<>> /\ Answerable(todo)
    /\ main = "call" => InOrder(Head(todo))

(* A request on its way: with the driver, with the background thread, in   *)
(* the inbox, with the main thread; or there is none any more, but perhaps *)
(* the traces of one that was canceled.                                    *)
UrbWork    == [kind |-> "urb", urb |-> FromKernel(urb.urb), canceled |-> FALSE]
CancelWork == [kind |-> "cancel"]

Calm == ~pending /\ (urb # NoUrb => port.change = {})

WithDriver == Calm /\ urb.state = "queued" /\ bg = "fetch" /\ inbox = <<>> /\ main = "idle"

WithBackground ==
    /\ Calm /\ urb.state \in {"fetched", "unlinked"} /\ bg \in {"data", "route"}
    /\ wk.urb = FromKernel(urb.urb) /\ inbox = <<>> /\ main = "idle"

InInbox ==
    /\ Calm /\ urb.state \in UrbStates \ {"queued"} /\ bg \in {"fetch", "cancel"}
    /\ bg = "cancel" => urb.state = "canceling"
    /\ inbox = <<UrbWork>> /\ main = "idle"

WithMain ==
    /\ Calm /\ urb.state \in UrbStates \ {"queued"}
    /\ main = "answer" /\ todo = <<>> /\ work = UrbWork
    /\ \/ bg = "fetch" /\ inbox = <<>>
       \/ bg = "cancel" /\ inbox = <<>> /\ urb.state = "canceling"
       \/ bg = "fetch" /\ inbox = <<CancelWork>> /\ urb.state = "canceling"

Gone ==
    /\ Calm /\ urb.state # "queued" /\ bg \in {"fetch", "cancel"} /\ MainFree
    /\ \/ inbox \in {<<>>, <<CancelWork>>}
       \/ Len(inbox) = 1 /\ Canceled(inbox[1])

Serving == WithDriver \/ WithBackground \/ InInbox \/ WithMain \/ Gone

(* It does one thing at a time.                                            *)
Quiet == ~hasty => Changed \/ Fetched \/ Queued \/ Replying \/ Serving

(* A request that it waits for was sent to the address it knows; one that  *)
(* it has given up and that may have assigned an address leaves a doubt.   *)
Exact ==
    ~hasty =>
        /\ urb.state \in {"queued", "fetched"} => urb.urb.devadr = coreAdr
        /\ urb.state \in {"unlinked", "canceling"} /\ AssignsAddress(urb.urb) => doubt

(* A SET_ADDRESS that the background thread has carried out and the main   *)
(* thread not given back yet.                                              *)
Moved ==
    /\ urb.state = "fetched" /\ AssignsAddress(urb.urb)
    /\ inbox = <<UrbWork>> \/ work.kind = "urb"

MovedTo == ~hasty /\ Moved => adr = urb.urb.val

(* The address is that of the core: after the report that is on its way, or*)
(* when the SET_ADDRESS in hand is given back, or now.                     *)
Agreed ==
    ~hasty /\ ~doubt /\ coreAdr # NoAdr =>
        IF pending \/ bg = "stat" THEN AdrAfter(port) = coreAdr
        ELSE IF Moved THEN TRUE ELSE adr = coreAdr

IInv == Basics /\ Quiet /\ Exact /\ MovedTo /\ Agreed

USE DEF hubVars, bgVars, portVars, mainVars, devVars, vars

-----------------------------------------------------------------------------
(* What the requests, triggers and answers are.                            *)

LEMMA RequestShapes ==
    /\ Plug = [status |-> {"CONNECTION"}, change |-> {"C_CONNECTION"}]
    /\ Completed = [status |-> {"ENABLE"}, change |-> {"C_RESET"}]
    /\ Resumed = [status |-> {}, change |-> {"C_SUSPEND"}]
<1>1. SpeedBits("full") = {}
  BY DEF SpeedBits
<1> QED  BY <1>1 DEF Plug, Completed, Connect, ResetCompleted, Resumed

LEMMA RequestsDiffer ==
    Plug # Resumed /\ Completed # Resumed /\ Plug # Completed
<1>1. {"C_CONNECTION"} # {"C_RESET"} /\ {"C_SUSPEND"} # {"C_RESET"}
      /\ {"C_SUSPEND"} # {"C_CONNECTION"}
  OBVIOUS
<1>2. /\ Plug.change = {"C_CONNECTION"} /\ Completed.change = {"C_RESET"}
      /\ Resumed.change = {"C_SUSPEND"}
  BY RequestShapes
<1> QED  BY <1>1, <1>2

LEMMA AnsweringRequests == Answering \subseteq PortRequests
BY DEF Answering, PortRequests, Plug, Completed

LEMMA AnsweringFields ==
    ASSUME NEW q \in Answering
    PROVE  \/ q = Plug /\ q.change = {"C_CONNECTION"}
           \/ q = Completed /\ q.change = {"C_RESET"}
           \/ q = Resumed /\ q.change = {"C_SUSPEND"}
<1>1. CASE q = Plug
  BY <1>1, RequestShapes
<1>2. CASE q = Completed
  BY <1>2, RequestShapes
<1>3. CASE q = Resumed
  BY <1>3, RequestShapes
<1> QED  BY <1>1, <1>2, <1>3 DEF Answering

(* A request says at least one change, and neither powers the port nor     *)
(* starts a reset.                                                         *)
LEMMA RequestFields ==
    ASSUME NEW q \in PortRequests
    PROVE  /\ q.status \subseteq StatusBits \ {"POWER", "RESET"}
           /\ q.change \subseteq ChangeBits /\ q.change # {}
<1>1. CASE q \in {Connect(rate) : rate \in {"low", "full", "high"}}
  <2>1. PICK rate \in {"low", "full", "high"} : q = Connect(rate)
    BY <1>1
  <2>2. SpeedBits(rate) \subseteq {"LOW_SPEED", "HIGH_SPEED"}
    BY DEF SpeedBits
  <2>3. q.status = {"CONNECTION"} \cup SpeedBits(rate) /\ q.change = {"C_CONNECTION"}
    BY <2>1 DEF Connect
  <2> QED  BY <2>2, <2>3 DEF StatusBits, ChangeBits
<1>2. CASE q \in {Disconnect, Disable, Resumed}
  <2>1. q.status = {} /\ q.change \in {{"C_CONNECTION"}, {"C_ENABLE"}, {"C_SUSPEND"}}
    BY <1>2 DEF Disconnect, Disable, Resumed
  <2> QED  BY <2>1 DEF ChangeBits
<1>3. CASE q \in {Overcurrent(set) : set \in BOOLEAN}
  <2>1. q.status \subseteq {"OVERCURRENT"} /\ q.change = {"C_OVERCURRENT"}
    BY <1>3 DEF Overcurrent
  <2> QED  BY <2>1 DEF StatusBits, ChangeBits
<1>4. CASE q \in {ResetCompleted(enable) : enable \in BOOLEAN}
  <2>1. q.status \subseteq {"ENABLE"} /\ q.change \subseteq {"C_RESET", "C_ENABLE"}
        /\ "C_RESET" \in q.change
    BY <1>4 DEF ResetCompleted
  <2> QED  BY <2>1 DEF StatusBits, ChangeBits
<1> QED  BY <1>1, <1>2, <1>3, <1>4 DEF PortRequests

(* A request is typed, keeps the power on, and calls for no further answer.*)
(* The device is to be found at 0 afterwards, where it was before, or not  *)
(* at all.                                                                 *)
LEMMA RequestEffect ==
    ASSUME NEW q \in PortRequests, Request(q), port \in PortStats, doubt \in BOOLEAN
    PROVE  /\ port' \in PortStats
           /\ "POWER" \in port.status /\ "POWER" \in port'.status
           /\ "RESET" \in port'.status => "RESET" \in port.status
           /\ port'.resuming => port.resuming
           /\ port'.change = port.change \cup q.change
           /\ \/ coreAdr' = NoAdr
              \/ coreAdr' = 0 /\ ResetDone(port')
              \/ /\ coreAdr' = coreAdr /\ doubt' = doubt
                 /\ q.change \subseteq {"C_SUSPEND", "C_OVERCURRENT"}
           /\ doubt' \in BOOLEAN /\ pending' = TRUE /\ urb' = urb
<1> DEFINE cleared == UNION {ClearedBy(c) : c \in q.change}
<1>1. \A c \in q.change : "POWER" \notin ClearedBy(c)
  BY RequestFields DEF ClearedBy, ChangeBits, StatusBits
<1>2. "POWER" \notin cleared
  BY <1>1
<1>3. "C_RESET" \in q.change => "RESET" \in cleared
  <2>1. "RESET" \in ClearedBy("C_RESET")
    BY DEF ClearedBy
  <2> QED  BY <2>1
<1> HIDE DEF cleared
<1>4. port' = [status |-> (port.status \ cleared) \cup q.status,
               change |-> port.change \cup q.change,
               resuming |-> port.resuming /\ q.change = {"C_OVERCURRENT"}]
  BY DEF Request, cleared
<1>5. /\ port'.status = (port.status \ cleared) \cup q.status
      /\ port'.change = port.change \cup q.change
      /\ port'.resuming = (port.resuming /\ q.change = {"C_OVERCURRENT"})
  BY <1>4
<1>6. port' \in PortStats
  <2>1. (port.status \ cleared) \cup q.status \in SUBSET StatusBits
    BY RequestFields DEF PortStats
  <2>2. port.change \cup q.change \in SUBSET ChangeBits
    BY RequestFields DEF PortStats
  <2> QED  BY <1>4, <2>1, <2>2 DEF PortStats
<1>7. "POWER" \in port.status /\ "POWER" \in port'.status
  BY <1>2, <1>5 DEF Request, Accepts
<1>8. /\ "RESET" \in port'.status => "RESET" \in port.status
      /\ "C_RESET" \in q.change => "RESET" \notin port'.status
  BY <1>3, <1>5, RequestFields
<1>9. port'.resuming => port.resuming
  BY <1>5
<1>10. CASE "C_RESET" \in q.change /\ "ENABLE" \in q.status
  <2>1. coreAdr' = 0 /\ ResetDone(port')
    BY <1>5, <1>8, <1>10 DEF Request, ResetDone
  <2> QED  BY <1>5, <1>6, <1>7, <1>8, <1>9, <2>1 DEF Request
<1>11. CASE /\ ~("C_RESET" \in q.change /\ "ENABLE" \in q.status)
            /\ q.change \subseteq {"C_SUSPEND", "C_OVERCURRENT"}
  <2>1. coreAdr' = coreAdr
    BY <1>11 DEF Request
  <2>2. doubt' = doubt
    BY <1>11 DEF Request
  <2> QED  BY <1>5, <1>6, <1>7, <1>8, <1>9, <1>11, <2>1, <2>2 DEF Request
<1>12. CASE /\ ~("C_RESET" \in q.change /\ "ENABLE" \in q.status)
            /\ ~(q.change \subseteq {"C_SUSPEND", "C_OVERCURRENT"})
  <2>1. coreAdr' = NoAdr
    BY <1>12 DEF Request
  <2> QED  BY <1>5, <1>6, <1>7, <1>8, <1>9, <2>1 DEF Request
<1> QED  BY <1>10, <1>11, <1>12

LEMMA TriggerBits ==
    ASSUME NEW st, NEW prev
    PROVE  /\ Triggers(st, prev) \in SUBSET TriggerFlags
           /\ "POWER_ON" \in Triggers(st, prev) <=> Rises("POWER", st, prev)
           /\ "RESET" \in Triggers(st, prev) <=> Rises("RESET", st, prev)
           /\ "RESUMING" \in Triggers(st, prev) <=> st.resuming /\ ~prev.resuming
BY DEF Triggers, TriggerFlags

(* usb_vhci_port_stat_triggers and the constructor of port_stat_work       *)
(* compute the same triggers for any two statuses: a device written in C   *)
(* and one written in C++ react to the same edges.                         *)
THEOREM TriggersAgree ==
    ASSUME NEW st \in PortStats, NEW prev \in PortStats
    PROVE  TriggersC(st, prev) = Triggers(st, prev)
<1> DEFINE T == TriggersC(st, prev)
           S == Triggers(st, prev)
<1>1. "DISABLE" \in T <=> "DISABLE" \in S
  BY DEF TriggersC, Triggers, TriggerFlags, Rises, Falls
<1>2. "SUSPEND" \in T <=> "SUSPEND" \in S
  BY DEF TriggersC, Triggers, TriggerFlags, Rises, Falls
<1>3. "RESUMING" \in T <=> "RESUMING" \in S
  BY DEF TriggersC, Triggers, TriggerFlags, Rises, Falls
<1>4. "RESET" \in T <=> "RESET" \in S
  BY DEF TriggersC, Triggers, TriggerFlags, Rises, Falls
<1>5. "POWER_ON" \in T <=> "POWER_ON" \in S
  BY DEF TriggersC, Triggers, TriggerFlags, Rises, Falls
<1>6. "POWER_OFF" \in T <=> "POWER_OFF" \in S
  BY DEF TriggersC, Triggers, TriggerFlags, Rises, Falls
<1>7. T \subseteq TriggerFlags /\ S \subseteq TriggerFlags
  BY DEF TriggersC, Triggers
<1> HIDE DEF T, S
<1>8. \A t \in TriggerFlags : t \in T <=> t \in S
  BY <1>1, <1>2, <1>3, <1>4, <1>5, <1>6 DEF TriggerFlags
<1>9. T = S
  BY <1>7, <1>8
<1> QED  BY <1>9 DEF T, S

(* At most one answer is called for when one bit has risen.                *)
LEMMA AnswersNone ==
    ASSUME NEW ts, "POWER_ON" \notin ts, "RESET" \notin ts, "RESUMING" \notin ts
    PROVE  Answers(ts) = <<>>
BY DEF Answers, When

LEMMA AnswersOne ==
    ASSUME NEW ts, NEW q,
           \/ q = Plug /\ "POWER_ON" \in ts /\ "RESET" \notin ts /\ "RESUMING" \notin ts
           \/ q = Completed /\ "POWER_ON" \notin ts /\ "RESET" \in ts /\ "RESUMING" \notin ts
           \/ q = Resumed /\ "POWER_ON" \notin ts /\ "RESET" \notin ts /\ "RESUMING" \in ts
    PROVE  Answers(ts) = <<q>>
<1> DEFINE a == When("POWER_ON" \in ts, Plug)
           b == When("RESET" \in ts, Completed)
           c == When("RESUMING" \in ts, Resumed)
<1>1. <<>> \in Seq({q}) /\ <<q>> \in Seq({q})
  OBVIOUS
<1>2. \/ a = <<q>> /\ b = <<>> /\ c = <<>>
      \/ a = <<>> /\ b = <<q>> /\ c = <<>>
      \/ a = <<>> /\ b = <<>> /\ c = <<q>>
  BY DEF When
<1>3. <<q>> \o <<>> = <<q>> /\ <<>> \o <<q>> = <<q>> /\ <<>> \o <<>> = <<>>
  BY <1>1, ConcatEmptySeq
<1> HIDE DEF a, b, c
<1>4. (a \o b) \o c = <<q>>
  BY <1>2, <1>3
<1> QED  BY <1>4 DEF Answers, a, b, c, Plug, Completed

LEMMA AnswersType ==
    ASSUME NEW ts
    PROVE  Answers(ts) \in Seq(Answering)
<1> DEFINE a == When("POWER_ON" \in ts, Plug)
           b == When("RESET" \in ts, Completed)
           c == When("RESUMING" \in ts, Resumed)
<1>1. a \in Seq(Answering) /\ b \in Seq(Answering) /\ c \in Seq(Answering)
  <2>1. <<>> \in Seq(Answering) /\ \A q \in Answering : <<q>> \in Seq(Answering)
    OBVIOUS
  <2>2. Plug \in Answering /\ Completed \in Answering /\ Resumed \in Answering
    BY DEF Answering
  <2> HIDE DEF Answering
  <2> QED  BY <2>1, <2>2 DEF When
<1> HIDE DEF a, b, c
<1>2. (a \o b) \o c \in Seq(Answering)
  BY <1>1, ConcatProperties
<1>3. Answers(ts) = (a \o b) \o c
  BY DEF Answers, a, b, c, Plug, Completed
<1> QED  BY <1>2, <1>3

-----------------------------------------------------------------------------
(* The requests of the usb core.                                           *)

LEMMA UrbTyped ==
    ASSUME Basics
    PROVE  /\ urb = NoUrb <=> urb.state = "none"
           /\ urb = NoUrb <=> urb.state \notin UrbStates
           /\ urb # NoUrb =>
                /\ urb \in [state : UrbStates, urb : KernelUrbs]
                /\ urb.urb \in KernelUrbs /\ Sound(urb.urb)
                /\ FromKernel(urb.urb) \in KernelUrbs
<1> USE DEF Basics, TypeOK, HubTypeOK, NoUrb
<1>1. "none" \notin UrbStates
  BY DEF UrbStates
<1>2. urb # NoUrb => urb \in [state : UrbStates, urb : KernelUrbs]
  OBVIOUS
<1>3. ASSUME NEW k \in KernelUrbs
      PROVE  FromKernel(k) \in KernelUrbs
  <2>1. 0 \in Byte /\ 0 \in Word
    BY DEF Byte, Word, MaxByte, MaxWord
  <2> QED  BY <2>1 DEF FromKernel, KernelUrbs
<1>4. urb # NoUrb => Sound(urb.urb)
  BY DEF UrbSound
<1> QED  BY <1>1, <1>2, <1>3, <1>4

(* The library recognises a SET_ADDRESS as the core does.                  *)
LEMMA SetAddressAgrees ==
    ASSUME NEW k \in KernelUrbs, Sound(k)
    PROVE  /\ FromKernel(k).devadr = k.devadr
           /\ IsSetAddress(FromKernel(k)) <=> AssignsAddress(k)
           /\ AssignsAddress(k) => /\ FromKernel(k).val = k.val
                                   /\ k.val \in Addresses
                                   /\ ProcessUrb(FromKernel(k)) = "SUCCESS"
<1> DEFINE u == FromKernel(k)
<1>1. /\ u.type = k.type /\ u.epadr = k.epadr /\ u.devadr = k.devadr
      /\ u.rt = k.rt /\ u.r = k.r /\ u.val = k.val
  BY DEF FromKernel, KernelUrbs, Sound
<1> HIDE DEF u
<1>2. k.epadr \in {0, 128} /\ k.type = "CONTROL"
  BY DEF Sound
<1>3. EndpointNumber(u) = 0
  BY <1>1, <1>2 DEF EndpointNumber
<1>4. k.rt = 0 => k.epadr = 0
  BY <1>2 DEF Sound, IsIn
<1>5. IsSetAddress(u) <=> AssignsAddress(k)
  BY <1>1, <1>2, <1>3, <1>4 DEF IsSetAddress, AssignsAddress
<1>6. AssignsAddress(k) => k.val \in Addresses
  <2>1. k.val \in Word
    BY DEF KernelUrbs
  <2>2. \A n \in Word : n \in Nat
    BY DEF Word
  <2>3. \A n \in Nat : n <= MaxAddress => n \in Addresses
    BY DEF Addresses, MaxAddress
  <2> QED  BY <2>1, <2>2, <2>3 DEF Sound
<1>7. AssignsAddress(k) => ProcessUrb(u) = "SUCCESS"
  BY <1>1, <1>2, <1>3 DEF ProcessUrb, AssignsAddress
<1> QED  BY <1>1, <1>5, <1>6, <1>7 DEF u

(* What is given back leaves no request behind, and moves the device only  *)
(* if it was a SET_ADDRESS that succeeded.                                 *)
LEMMA GivebackEffect ==
    ASSUME Basics, NEW status, Giveback(status)
    PROVE  /\ HubTypeOK'
           /\ urb' = IF urb.state = "queued" THEN urb ELSE NoUrb
           /\ \/ coreAdr' = coreAdr
              \/ /\ urb.state = "fetched" /\ AssignsAddress(urb.urb)
                 /\ status = "SUCCESS" /\ coreAdr' = urb.urb.val
<1> USE DEF Giveback
<1>1. \/ coreAdr' = coreAdr
      \/ /\ urb.state = "fetched" /\ AssignsAddress(urb.urb)
         /\ status = "SUCCESS" /\ coreAdr' = urb.urb.val
  OBVIOUS
<1>2. coreAdr' \in Addresses \cup {NoAdr}
  <2>1. urb.state = "fetched" /\ AssignsAddress(urb.urb) => urb.urb.val \in Addresses
    BY UrbTyped, SetAddressAgrees DEF NoUrb
  <2> QED  BY <1>1, <2>1 DEF Basics, TypeOK, HubTypeOK
<1>3. HubTypeOK'
  BY <1>2 DEF Basics, TypeOK, HubTypeOK
<1> QED  BY <1>1, <1>3

LEMMA AdrTyped ==
    ASSUME Basics, NEW st
    PROVE  AdrAfter(st) \in Addresses \cup {NoAdr}
BY DEF Basics, TypeOK, AdrAfter, Addresses, MaxAddress

LEMMA TodoType ==
    Seq({Connect("full"), ResetCompleted(TRUE), Resumed}) = Seq(Answering)
BY DEF Answering, Plug, Completed

LEMMA WorksTyped ==
    /\ \A ts \in SUBSET TriggerFlags : [kind |-> "stat", triggers |-> ts] \in Works
    /\ \A u \in KernelUrbs, c \in BOOLEAN : [kind |-> "urb", urb |-> u, canceled |-> c] \in Works
    /\ CancelWork \in Works
BY DEF Works, CancelWork

(* The answers that are in order depend on the port only.                  *)
LEMMA SameAnswers ==
    ASSUME port' = port
    PROVE  \A s : Answerable(s)' <=> Answerable(s)
BY DEF Answerable, InOrder, Accepts

-----------------------------------------------------------------------------
(* The initial state.                                                      *)
LEMMA InitHolds == Init => IInv
<1> SUFFICES ASSUME Init PROVE IInv
  OBVIOUS
<1> USE DEF Init, HubInit
<1>1. TypeOK
  <2>1. ZeroStat \in PortStats
    BY DEF ZeroStat, PortStats
  <2>2. HubTypeOK
    <3>1. commands \in 0..MaxCommands
      BY MaxCommandsAssumption
    <3> QED  BY <2>1, <3>1 DEF HubTypeOK
  <2>3. inbox \in Seq(Works) /\ todo \in Seq(Answering)
    OBVIOUS
  <2>4. others \in 0..MaxOthers
    BY MaxOthersAssumption
  <2> QED  BY <2>1, <2>2, <2>3, <2>4, TodoType DEF TypeOK
<1>2. Control /\ Connected /\ Current /\ UrbSound
  BY DEF Control, Connected, Current, UrbSound, Ended, ZeroStat
<1>3. Gone
  BY DEF Gone, Calm, MainFree, NoUrb
<1>4. Exact /\ MovedTo /\ Agreed
  BY DEF Exact, MovedTo, Moved, Agreed, NoUrb
<1> QED  BY <1>1, <1>2, <1>3, <1>4 DEF IInv, Basics, Quiet, Serving

-----------------------------------------------------------------------------
(* The background thread.                                                  *)

LEMMA FetchStatKeeps ==
    ASSUME IInv, FetchStat, UNCHANGED <<others, unplugged>>
    PROVE  IInv'
<1> USE DEF IInv, FetchStat
<1>1. Basics'
  <2>1. TypeOK'
    <3>1. wk' \in Reported
      BY DEF Basics, TypeOK, HubTypeOK, Reported
    <3> QED  BY <3>1 DEF Basics, TypeOK, HubTypeOK
  <2>2. (Control /\ Connected /\ Current /\ UrbSound)'
    BY DEF Basics, Control, Ended, Connected, Current, UrbSound
  <2> QED  BY <2>1, <2>2 DEF Basics
<1>2. Quiet'
  <2> SUFFICES ASSUME ~hasty PROVE Fetched'
    BY DEF Quiet
  <2>1. Changed
    BY DEF Quiet, Fetched, Queued, Replying, Serving, WithDriver, WithBackground, InInbox,
       WithMain, Gone, Calm
  <2>2. Answerable(Answers(Triggers(port, stat)))'
    BY <2>1, SameAnswers DEF Changed
  <2> QED  BY <2>1, <2>2 DEF Changed, Fetched, MainFree
<1>3. (Exact /\ MovedTo /\ Agreed)'
  BY DEF Exact, MovedTo, Moved, Agreed, UrbWork, AdrAfter
<1> QED  BY <1>1, <1>2, <1>3

LEMMA EnqueueStatKeeps ==
    ASSUME IInv, EnqueueStat, UNCHANGED <<others, unplugged>>
    PROVE  IInv'
<1> USE DEF IInv, EnqueueStat
<1>1. wk.stat \in PortStats
  BY DEF Basics, Control, TypeOK, None, Reported
<1>2. PICK ts \in SUBSET TriggerFlags : ts = Triggers(wk.stat, stat)
  BY TriggerBits
<1> DEFINE w == [kind |-> "stat", triggers |-> ts]
<1>3. w \in Works
  BY <1>2, WorksTyped
<1>4. inbox' = Append(inbox, w)
  BY <1>2 DEF ReportedTriggers
<1> HIDE DEF w
<1>5. Basics'
  <2>1. TypeOK'
    <3>1. inbox' \in Seq(Works)
      BY <1>3, <1>4, AppendProperties DEF Basics, TypeOK
    <3>2. adr' \in Addresses \cup {NoAdr}
      BY AdrTyped
    <3> QED  BY <1>1, <3>1, <3>2 DEF Basics, TypeOK, HubTypeOK
  <2>2. (Control /\ Connected /\ Current /\ UrbSound)'
    BY DEF Basics, Control, Ended, Connected, Current, UrbSound
  <2> QED  BY <2>1, <2>2 DEF Basics
<1>6. ~hasty => Fetched
  BY DEF Quiet, Changed, Queued, Replying, Serving, WithDriver, WithBackground, InInbox,
     WithMain, Gone, Calm
<1>7. ~hasty => wk.stat = port
  BY <1>6 DEF Fetched, Basics, Current
<1>8. Quiet'
  <2> SUFFICES ASSUME ~hasty PROVE Queued'
    BY DEF Quiet
  <2>1. inbox' = <<w>>
    <3>1. inbox = <<>>
      BY <1>6 DEF Fetched
    <3> QED  BY <1>4, <3>1
  <2>2. Answerable(Answers(ts))'
    <3>1. ts = Triggers(port, stat)
      BY <1>2, <1>7
    <3>2. Answerable(Answers(ts))
      BY <1>6, <3>1 DEF Fetched
    <3> QED  BY <3>2, SameAnswers
  <2> QED  BY <1>2, <1>6, <2>1, <2>2 DEF Fetched, Queued, MainFree, w
<1>9. (Exact /\ MovedTo)'
  BY <1>6 DEF Exact, MovedTo, Moved, Fetched, NoUrb
<1>10. Agreed'
  BY <1>6, <1>7 DEF Agreed, Moved, Fetched, NoUrb
<1> QED  BY <1>5, <1>8, <1>9, <1>10

LEMMA FetchUrbKeeps ==
    ASSUME IInv, FetchUrb, UNCHANGED <<others, unplugged>>
    PROVE  IInv'
<1> USE DEF IInv, FetchUrb
<1>1. urb # NoUrb /\ urb.urb \in KernelUrbs /\ Sound(urb.urb)
      /\ FromKernel(urb.urb) \in KernelUrbs
  BY UrbTyped DEF UrbStates
<1>2. urb' # NoUrb /\ urb'.state = "fetched" /\ urb'.urb = urb.urb
      /\ urb' \in [state : UrbStates, urb : KernelUrbs]
  BY <1>1 DEF Basics, TypeOK, HubTypeOK, NoUrb, UrbStates
<1>3. wk' = [kind |-> "urb", urb |-> FromKernel(urb.urb)] /\ bg' \in {"data", "route"}
  OBVIOUS
<1>4. Basics'
  <2>1. TypeOK'
    BY <1>1, <1>2, <1>3 DEF Basics, TypeOK, HubTypeOK
  <2>2. (Control /\ Connected /\ Current /\ UrbSound)'
    BY <1>1, <1>2, <1>3 DEF Basics, Control, Ended, Connected, Current, UrbSound, Sound
  <2> QED  BY <2>1, <2>2 DEF Basics
<1>5. ~hasty => WithDriver
  BY <1>1 DEF Quiet, Changed, Fetched, Queued, Replying, Serving, WithBackground, InInbox,
     WithMain, Gone, Calm
<1>6. Quiet'
  <2> SUFFICES ASSUME ~hasty PROVE WithBackground'
    BY DEF Quiet, Serving
  <2> QED  BY <1>1, <1>2, <1>3, <1>5 DEF WithDriver, WithBackground, Calm
<1>7. Exact'
  BY <1>2 DEF Exact
<1>8. ~hasty => ~Moved /\ ~Moved'
  BY <1>2, <1>5 DEF Moved, WithDriver, Basics, Control, None
<1>9. (MovedTo /\ Agreed)'
  BY <1>3, <1>5, <1>8 DEF MovedTo, Agreed, WithDriver, Calm
<1> QED  BY <1>4, <1>6, <1>7, <1>9

LEMMA FetchDataKeeps ==
    ASSUME IInv, FetchData, UNCHANGED <<others, unplugged>>
    PROVE  IInv'
<1> USE DEF IInv, FetchData
<1>1. \/ urb' = urb /\ bg' = "route" /\ wk' = wk
      \/ urb' = NoUrb /\ urb.state # "fetched" /\ bg' = "fetch" /\ wk' = None
  OBVIOUS
<1>2. Basics'
  <2>1. TypeOK'
    BY <1>1 DEF Basics, TypeOK, HubTypeOK
  <2>2. (Control /\ Connected /\ Current /\ UrbSound)'
    BY <1>1 DEF Basics, Control, Ended, Connected, Current, UrbSound
  <2> QED  BY <2>1, <2>2 DEF Basics
<1>3. ~hasty => WithBackground
  BY DEF Quiet, Changed, Fetched, Queued, Replying, Serving, WithDriver, InInbox,
     WithMain, Gone
<1>4. Quiet'
  <2> SUFFICES ASSUME ~hasty PROVE Serving'
    BY DEF Quiet
  <2>1. CASE urb' = urb /\ bg' = "route" /\ wk' = wk
    BY <1>3, <2>1 DEF Serving, WithBackground, Calm
  <2>2. CASE urb' = NoUrb /\ bg' = "fetch"
    BY <1>3, <2>2 DEF Serving, WithBackground, Gone, Calm, MainFree, NoUrb
  <2> QED  BY <1>1, <2>1, <2>2
<1>5. Exact'
  BY <1>1 DEF Exact, NoUrb
<1>6. ~hasty => ~Moved /\ ~Moved'
  BY <1>1, <1>3 DEF Moved, WithBackground, Basics, Control, None, NoUrb
<1>7. (MovedTo /\ Agreed)'
  BY <1>1, <1>3, <1>6 DEF MovedTo, Agreed, WithBackground, Calm
<1> QED  BY <1>2, <1>4, <1>5, <1>7

LEMMA RouteKeeps ==
    ASSUME IInv, Route, UNCHANGED <<others, unplugged>>
    PROVE  IInv'
<1> USE DEF IInv, Route
<1> DEFINE w == [kind |-> "urb", urb |-> wk.urb, canceled |-> FALSE]
<1>1. wk.urb \in KernelUrbs
  BY DEF Basics, Control, TypeOK, None, Reported
<1>2. w \in Works
  BY <1>1, WorksTyped
<1>3. \/ wk.urb.devadr # adr /\ adr' = adr /\ inbox' = inbox
      \/ /\ wk.urb.devadr = adr /\ inbox' = Append(inbox, w)
         /\ adr' = IF IsSetAddress(wk.urb) /\ wk.urb.val <= MaxAddress
                   THEN wk.urb.val ELSE adr
  OBVIOUS
<1> HIDE DEF w
<1>4. Basics'
  <2>1. inbox' \in Seq(Works)
    <3>1. inbox \in Seq(Works)
      BY DEF Basics, TypeOK
    <3>2. Append(inbox, w) \in Seq(Works)
      BY <1>2, <3>1, AppendProperties
    <3> QED  BY <1>3, <3>1, <3>2
  <2>2. adr' \in Addresses \cup {NoAdr}
    <3>1. wk.urb.val \in Word
      BY <1>1 DEF KernelUrbs
    <3>2. \A n \in Word : n \in Nat
      BY DEF Word
    <3>3. \A n \in Nat : n <= MaxAddress => n \in Addresses
      BY DEF Addresses, MaxAddress
    <3> QED  BY <1>3, <3>1, <3>2, <3>3 DEF Basics, TypeOK
  <2>3. TypeOK'
    BY <2>1, <2>2 DEF Basics, TypeOK, HubTypeOK
  <2>4. (Control /\ Connected /\ Current /\ UrbSound)'
    BY DEF Basics, Control, Ended, Connected, Current, UrbSound
  <2> QED  BY <2>3, <2>4 DEF Basics
<1>5. ~hasty =>
        /\ WithBackground /\ urb # NoUrb /\ urb.urb \in KernelUrbs /\ Sound(urb.urb)
        /\ main = "idle" /\ work.kind # "urb" /\ w = UrbWork
        /\ inbox' \in {<<>>, <<w>>}
  <2> SUFFICES ASSUME ~hasty
               PROVE  /\ WithBackground /\ urb # NoUrb /\ urb.urb \in KernelUrbs
                      /\ Sound(urb.urb) /\ main = "idle" /\ work.kind # "urb"
                      /\ w = UrbWork /\ inbox' \in {<<>>, <<w>>}
    OBVIOUS
  <2>1. WithBackground
    BY DEF Quiet, Changed, Fetched, Queued, Replying, Serving, WithDriver, InInbox,
       WithMain, Gone
  <2>2. urb # NoUrb /\ urb.urb \in KernelUrbs /\ Sound(urb.urb)
    BY <2>1, UrbTyped DEF WithBackground, UrbStates
  <2>3. main = "idle" /\ work.kind # "urb"
    BY <2>1 DEF WithBackground, Basics, Control, None
  <2>4. w = UrbWork
    BY <2>1 DEF WithBackground, UrbWork, w
  <2>5. inbox = <<>>
    BY <2>1 DEF WithBackground
  <2>6. inbox' \in {<<>>, <<w>>}
    BY <1>3, <2>5
  <2> QED  BY <2>1, <2>2, <2>3, <2>4, <2>6
<1>6. Quiet'
  <2> SUFFICES ASSUME ~hasty PROVE InInbox' \/ Gone'
    BY DEF Quiet, Serving
  <2>1. CASE inbox' = <<>>
    BY <1>5, <2>1 DEF WithBackground, Gone, Calm, MainFree
  <2>2. CASE inbox' = <<w>>
    <3>1. UrbWork' = w
      BY <1>5 DEF UrbWork
    <3> QED  BY <1>5, <2>2, <3>1 DEF WithBackground, InInbox, Calm, UrbStates
  <2> QED  BY <1>5, <2>1, <2>2
<1>7. Exact'
  BY DEF Exact
<1>8. ASSUME ~hasty
      PROVE  /\ ~Moved
             /\ IF Moved' THEN adr' = urb.urb.val
                ELSE adr' = adr \/ (urb.state = "unlinked" /\ AssignsAddress(urb.urb))
  <2>1. ~Moved
    BY <1>5, <1>8 DEF Moved, WithBackground
  <2>2. CASE wk.urb.devadr # adr
    <3>1. adr' = adr /\ inbox' = <<>>
      BY <1>3, <1>5, <1>8, <2>2 DEF WithBackground
    <3>2. ~Moved'
      BY <1>5, <1>8, <3>1 DEF Moved
    <3> QED  BY <2>1, <3>1, <3>2
  <2>3. CASE wk.urb.devadr = adr
    <3>1. wk.urb = FromKernel(urb.urb)
      BY <1>5, <1>8 DEF WithBackground
    <3>2. CASE AssignsAddress(urb.urb)
      <4>1. urb.urb.val <= MaxAddress
        BY <1>5, <1>8, <3>2 DEF Sound
      <4>2. adr' = urb.urb.val
        BY <1>3, <1>5, <1>8, <2>3, <3>1, <3>2, <4>1, SetAddressAgrees
      <4>3. inbox' = <<w>> /\ UrbWork' = w
        BY <1>3, <1>5, <1>8, <2>3 DEF WithBackground, UrbWork
      <4>4. urb.state = "fetched" => Moved'
        BY <3>2, <4>3 DEF Moved
      <4> QED  BY <1>5, <1>8, <2>1, <3>2, <4>2, <4>4 DEF WithBackground
    <3>3. CASE ~AssignsAddress(urb.urb)
      <4>1. adr' = adr
        BY <1>3, <1>5, <1>8, <2>3, <3>1, <3>3, SetAddressAgrees
      <4>2. ~Moved'
        BY <3>3 DEF Moved
      <4> QED  BY <2>1, <4>1, <4>2
    <3> QED  BY <3>2, <3>3
  <2> QED  BY <2>2, <2>3
<1>9. MovedTo'
  BY <1>8 DEF MovedTo
<1>10. Agreed'
  <2> SUFFICES ASSUME ~hasty, ~doubt, coreAdr # NoAdr
               PROVE  ~pending /\ (Moved' \/ adr' = coreAdr)
    BY DEF Agreed
  <2>1. ~pending /\ adr = coreAdr
    BY <1>5, <1>8 DEF Agreed, WithBackground, Calm
  <2>2. Moved' \/ adr' = adr
    BY <1>8 DEF Exact
  <2> QED  BY <2>1, <2>2
<1> QED  BY <1>4, <1>6, <1>7, <1>9, <1>10

LEMMA FetchCancelKeeps ==
    ASSUME IInv, FetchCancel, UNCHANGED <<others, unplugged>>
    PROVE  IInv'
<1> USE DEF IInv, FetchCancel
<1>1. urb # NoUrb /\ urb.urb \in KernelUrbs /\ Sound(urb.urb)
  BY UrbTyped DEF UrbStates
<1>2. urb' # NoUrb /\ urb'.state = "canceling" /\ urb'.urb = urb.urb
      /\ urb' \in [state : UrbStates, urb : KernelUrbs]
  BY <1>1 DEF Basics, TypeOK, HubTypeOK, NoUrb, UrbStates
<1>3. Basics'
  <2>1. TypeOK'
    BY <1>2 DEF Basics, TypeOK, HubTypeOK
  <2>2. (Control /\ Connected /\ Current /\ UrbSound)'
    BY <1>1, <1>2 DEF Basics, Control, Ended, Connected, Current, UrbSound, Sound
  <2> QED  BY <2>1, <2>2 DEF Basics
<1>4. ~hasty => InInbox \/ (WithMain /\ inbox = <<>>) \/ Gone
  BY <1>1 DEF Quiet, Changed, Fetched, Queued, Replying, Serving, WithDriver,
     WithBackground, WithMain
<1>5. UrbWork' = UrbWork
  BY <1>2 DEF UrbWork
<1>6. Quiet'
  <2> SUFFICES ASSUME ~hasty PROVE Serving'
    BY DEF Quiet
  <2>1. CASE InInbox
    BY <1>1, <1>2, <1>5, <2>1 DEF InInbox, Serving, Calm, UrbStates
  <2>2. CASE WithMain /\ inbox = <<>>
    BY <1>1, <1>2, <1>5, <2>2 DEF WithMain, Serving, Calm, UrbStates
  <2>3. CASE Gone
    BY <1>1, <1>2, <2>3 DEF Gone, Serving, Calm, MainFree
  <2> QED  BY <1>4, <2>1, <2>2, <2>3
<1>7. Exact'
  BY <1>2 DEF Exact, AssignsAddress
<1>8. ~Moved /\ ~Moved'
  BY <1>2 DEF Moved
<1>9. (MovedTo /\ Agreed)'
  BY <1>4, <1>8 DEF MovedTo, Agreed, InInbox, WithMain, Gone, Calm
<1> QED  BY <1>3, <1>6, <1>7, <1>9

(* What cancel_process_urb_work does to the inbox.                         *)
LEMMA EntryReplaced ==
    ASSUME NEW S, NEW s \in Seq(S), NEW i \in 1..Len(s), NEW e \in S
    PROVE  /\ [s EXCEPT ![i] = e] \in Seq(S)
           /\ Len([s EXCEPT ![i] = e]) = Len(s)
           /\ [s EXCEPT ![i] = e][i] = e
<1> DEFINE t == [s EXCEPT ![i] = e]
<1>1. /\ t \in Seq(S) /\ Len(t) = Len(s)
      /\ \A j \in 1..Len(s) : t[j] = IF j = i THEN e ELSE s[j]
  BY ExceptSeq
<1> HIDE DEF t
<1>2. t[i] = e
  BY <1>1
<1> QED  BY <1>1, <1>2 DEF t

LEMMA CanceledInInbox ==
    ASSUME Basics, NEW i \in AliveUrbs
    PROVE  /\ i \in 1..Len(inbox) /\ inbox[i].kind = "urb" /\ ~Canceled(inbox[i])
           /\ \A s : s = [inbox EXCEPT ![i].canceled = TRUE] =>
                    s \in Seq(Works) /\ Len(s) = Len(inbox) /\ Canceled(s[i])
<1>1. i \in 1..Len(inbox) /\ inbox[i].kind = "urb" /\ ~Canceled(inbox[i])
      /\ inbox \in Seq(Works)
  BY DEF AliveUrbs, Basics, TypeOK
<1>2. inbox[i] \in Works
  BY <1>1
<1>3. inbox[i] \in [kind : {"urb"}, urb : KernelUrbs, canceled : BOOLEAN]
  <2>1. ASSUME NEW w \in Works, w.kind = "urb"
        PROVE  w \in [kind : {"urb"}, urb : KernelUrbs, canceled : BOOLEAN]
    BY <2>1 DEF Works
  <2> QED  BY <1>1, <1>2, <2>1
<1> DEFINE w == [inbox[i] EXCEPT !.canceled = TRUE]
<1>4. w \in Works /\ Canceled(w)
  <2>1. w \in [kind : {"urb"}, urb : KernelUrbs, canceled : BOOLEAN]
    BY <1>3
  <2>2. w.kind = "urb" /\ w.canceled
    BY <1>3
  <2> QED  BY <2>1, <2>2 DEF Works, Canceled
<1>5. [inbox EXCEPT ![i].canceled = TRUE] = [inbox EXCEPT ![i] = w]
  OBVIOUS
<1> HIDE DEF w
<1> DEFINE t == [inbox EXCEPT ![i] = w]
<1>6. t \in Seq(Works) /\ Len(t) = Len(inbox) /\ t[i] = w
  BY <1>1, <1>4, EntryReplaced
<1> HIDE DEF t
<1>7. \A s : s = t => s \in Seq(Works) /\ Len(s) = Len(inbox) /\ Canceled(s[i])
  BY <1>4, <1>6
<1> QED  BY <1>1, <1>5, <1>7 DEF t

LEMMA CancelKeeps ==
    ASSUME IInv, Cancel, UNCHANGED <<others, unplugged>>
    PROVE  IInv'
<1> USE DEF IInv, Cancel
<1>1. CASE \E i \in AliveUrbs :
              inbox' = [inbox EXCEPT ![i].canceled = TRUE] /\ Giveback("CANCELED")
  <2>1. PICK i \in AliveUrbs : inbox' = [inbox EXCEPT ![i].canceled = TRUE]
    BY <1>1
  <2>2. /\ i \in 1..Len(inbox) /\ inbox[i].kind = "urb" /\ ~Canceled(inbox[i])
        /\ inbox' \in Seq(Works) /\ Len(inbox') = Len(inbox) /\ Canceled(inbox'[i])
    BY <2>1, CanceledInInbox
  <2>3. /\ HubTypeOK' /\ coreAdr' = coreAdr
        /\ urb' = IF urb.state = "queued" THEN urb ELSE NoUrb
        /\ UNCHANGED <<port, pending, commands, hasty, doubt>>
    BY <1>1, GivebackEffect DEF Giveback
  <2>4. Basics'
    <3>1. TypeOK'
      BY <2>2, <2>3 DEF Basics, TypeOK
    <3>2. (Control /\ Connected /\ Current /\ UrbSound)'
      BY <2>3 DEF Basics, Control, Ended, Connected, Current, UrbSound
    <3> QED  BY <3>1, <3>2 DEF Basics
  <2>5. ~hasty => InInbox
    <3>1. inbox # <<>>
      BY <2>2
    <3>2. ~(Len(inbox) = 1 /\ Canceled(inbox[1]))
      BY <2>2
    <3>3. inbox # <<CancelWork>>
      BY <2>2 DEF CancelWork
    <3> QED  BY <3>1, <3>2, <3>3 DEF Quiet, Changed, Fetched, Queued, Replying, Serving,
             WithDriver, WithBackground, WithMain, Gone
  <2>6. ~hasty => urb.state = "canceling" /\ urb' = NoUrb
    BY <2>3, <2>5 DEF InInbox
  <2>7. Quiet'
    <3> SUFFICES ASSUME ~hasty PROVE Gone'
      BY <2>3 DEF Quiet, Serving
    <3>1. i = 1 /\ Len(inbox) = 1
      <4>1. inbox = <<UrbWork>>
        BY <2>5 DEF InInbox
      <4>2. Len(inbox) = 1
        BY <4>1
      <4> QED  BY <2>2, <4>2
    <3>2. Len(inbox') = 1 /\ Canceled(inbox'[1])
      BY <2>2, <3>1
    <3> QED  BY <2>3, <2>5, <2>6, <3>2 DEF InInbox, Gone, Calm, MainFree, NoUrb
  <2>8. (Exact /\ MovedTo)' /\ (~hasty => ~Moved /\ ~Moved')
    BY <2>3, <2>6 DEF Exact, MovedTo, Moved, NoUrb
  <2>9. Agreed'
    BY <2>3, <2>5, <2>8 DEF Agreed, InInbox, Calm
  <2> QED  BY <2>4, <2>7, <2>8, <2>9
<1>2. CASE /\ AliveUrbs = {}
           /\ \/ work.kind = "urb" /\ inbox' = Append(inbox, CancelWork)
              \/ work.kind # "urb" /\ inbox' = inbox
           /\ UNCHANGED hubVars
  <2>1. inbox \in Seq(Works)
    BY DEF Basics, TypeOK
  <2>2. inbox' \in Seq(Works)
    <3>1. Append(inbox, CancelWork) \in Seq(Works)
      BY <2>1, WorksTyped, AppendProperties
    <3> QED  BY <1>2, <2>1, <3>1
  <2>3. Basics'
    <3>1. TypeOK'
      BY <1>2, <2>2 DEF Basics, TypeOK, HubTypeOK
    <3>2. (Control /\ Connected /\ Current /\ UrbSound)'
      BY <1>2 DEF Basics, Control, Ended, Connected, Current, UrbSound
    <3> QED  BY <3>1, <3>2 DEF Basics
  <2>4. ~InInbox
    <3> SUFFICES ASSUME inbox = <<UrbWork>> PROVE FALSE
      BY DEF InInbox
    <3>1. 1 \in DOMAIN inbox /\ inbox[1] = UrbWork
      OBVIOUS
    <3>2. 1 \in AliveUrbs
      BY <3>1 DEF AliveUrbs, Canceled, UrbWork
    <3> QED  BY <1>2, <3>2
  <2>5. ~hasty => \/ WithMain /\ inbox = <<>> /\ urb.state = "canceling" /\ work.kind = "urb"
                  \/ Gone /\ work.kind # "urb"
    <3>1. WithMain => work.kind = "urb"
      BY DEF WithMain, UrbWork
    <3>2. Gone => work.kind # "urb"
      BY DEF Gone, MainFree, Basics, Control, None
    <3>3. ~hasty => (WithMain /\ inbox = <<>> /\ urb.state = "canceling") \/ Gone
      BY <2>4 DEF Quiet, Changed, Fetched, Queued, Replying, Serving, WithDriver,
         WithBackground, WithMain
    <3> QED  BY <3>1, <3>2, <3>3
  <2>6. Quiet'
    <3> SUFFICES ASSUME ~hasty PROVE Serving'
      BY <1>2 DEF Quiet
    <3>1. CASE WithMain /\ inbox = <<>> /\ urb.state = "canceling" /\ work.kind = "urb"
      <4>1. inbox' = <<CancelWork>>
        BY <1>2, <3>1
      <4> QED  BY <1>2, <3>1, <4>1 DEF WithMain, Serving, Calm, UrbWork, CancelWork
    <3>2. CASE Gone /\ work.kind # "urb"
      BY <1>2, <3>2 DEF Gone, Serving, Calm, MainFree
    <3> QED  BY <2>5, <3>1, <3>2
  <2>7. Exact'
    BY <1>2 DEF Exact
  <2>8. ~hasty => (Moved' <=> Moved)
    <3> SUFFICES ASSUME ~hasty, urb.state = "fetched" PROVE Moved' <=> Moved
      BY <1>2 DEF Moved
    <3>1. Gone /\ inbox' = inbox
      BY <1>2, <2>5
    <3> QED  BY <1>2, <3>1 DEF Moved, UrbWork
  <2>9. (MovedTo /\ Agreed)'
    BY <1>2, <2>5, <2>8 DEF MovedTo, Agreed, WithMain, Gone, Calm
  <2> QED  BY <2>3, <2>6, <2>7, <2>9
<1> QED  BY <1>1, <1>2 DEF CancelWork

-----------------------------------------------------------------------------
(* The main thread.                                                        *)

LEMMA NextWorkKeeps ==
    ASSUME IInv, NextWork, UNCHANGED <<others, unplugged>>
    PROVE  IInv'
<1> USE DEF IInv, NextWork
<1>1. PICK i \in DOMAIN inbox :
          /\ ~Canceled(inbox[i]) /\ work' = inbox[i]
          /\ inbox' = SubSeq(inbox, i + 1, Len(inbox))
  OBVIOUS
<1>2. inbox \in Seq(Works) /\ i \in 1..Len(inbox) /\ work' \in Works
  BY <1>1 DEF Basics, TypeOK
<1>3. Basics'
  <2>1. inbox' \in Seq(Works)
    <3>1. \A j \in (i + 1)..Len(inbox) : inbox[j] \in Works
      BY <1>2
    <3> QED  BY <1>1, <1>2, <3>1, SubSeqProperties
  <2>2. todo' \in Seq(Answering)
    <3>1. <<>> \in Seq(Answering)
      OBVIOUS
    <3> QED  BY <3>1, AnswersType
  <2>3. TypeOK'
    BY <1>2, <2>1, <2>2, TodoType DEF Basics, TypeOK, HubTypeOK
  <2>4. work' # None
    BY <1>2 DEF Works, None
  <2>5. (Control /\ Connected /\ Current /\ UrbSound)'
    BY <2>4 DEF Basics, Control, Ended, Connected, Current, UrbSound
  <2> QED  BY <2>3, <2>5 DEF Basics
<1>4. ASSUME NEW x, inbox = <<x>>
      PROVE  work' = x /\ inbox' = <<>> /\ ~Canceled(x)
  <2>1. Len(inbox) = 1 /\ inbox[1] = x
    BY <1>4
  <2>2. i = 1
    BY <1>2, <2>1
  <2> QED  BY <1>1, <2>1, <2>2
<1>5. inbox # <<>>
  BY <1>2
<1>6. ~hasty => Queued \/ InInbox \/ (Gone /\ inbox = <<CancelWork>>)
  <2>1. ~(Len(inbox) = 1 /\ Canceled(inbox[1]))
    BY <1>1, <1>2
  <2> QED  BY <1>5, <2>1 DEF Quiet, Changed, Fetched, Replying, Serving, WithDriver,
           WithBackground, WithMain, Gone
<1>7. Quiet' /\ (~hasty => (Moved' <=> Moved))
  <2> SUFFICES ASSUME ~hasty
               PROVE  (Queued' \/ Replying' \/ Serving') /\ (Moved' <=> Moved)
    BY DEF Quiet
  <2>1. CASE Queued
    <3>1. PICK ts \in SUBSET TriggerFlags :
              /\ inbox = <<[kind |-> "stat", triggers |-> ts]>> /\ Answerable(Answers(ts))
      BY <2>1 DEF Queued
    <3>2. work' = [kind |-> "stat", triggers |-> ts] /\ inbox' = <<>>
      BY <1>4, <3>1
    <3>3. work'.kind = "stat" /\ work'.triggers = ts
      BY <3>2
    <3>4. todo' = Answers(ts) /\ Answerable(todo)'
      <4>1. todo' = Answers(ts)
        BY <3>3
      <4> QED  BY <3>1, <4>1, SameAnswers
    <3>5. Replying' \/ Gone'
      BY <2>1, <3>2, <3>3, <3>4 DEF Queued, Replying, Gone, Calm, MainFree, NoUrb
    <3>6. ~Moved' /\ ~Moved
      BY <2>1 DEF Moved, Queued, NoUrb
    <3> QED  BY <3>5, <3>6 DEF Serving
  <2>2. CASE InInbox
    <3>1. work' = UrbWork /\ inbox' = <<>> /\ UrbWork' = UrbWork
      BY <1>4, <2>2 DEF InInbox, UrbWork
    <3>2. work'.kind = "urb"
      BY <3>1 DEF UrbWork
    <3>3. todo' = <<>>
      BY <3>2
    <3>4. WithMain'
      BY <2>2, <3>1, <3>3 DEF InInbox, WithMain, Calm
    <3>5. Moved' <=> Moved
      BY <2>2, <3>2 DEF Moved, InInbox
    <3> QED  BY <3>4, <3>5 DEF Serving
  <2>3. CASE Gone /\ inbox = <<CancelWork>>
    <3>1. work' = CancelWork /\ inbox' = <<>>
      BY <1>4, <2>3
    <3>2. work'.kind = "cancel" /\ todo' = <<>>
      BY <3>1 DEF CancelWork
    <3>3. Gone'
      BY <2>3, <3>1, <3>2 DEF Gone, Calm, MainFree
    <3>4. work.kind # "urb" /\ inbox # <<UrbWork>>
      BY <2>3 DEF Basics, Control, None, UrbWork, CancelWork
    <3>5. ~Moved' /\ ~Moved
      BY <3>1, <3>2, <3>4 DEF Moved
    <3> QED  BY <3>3, <3>5 DEF Serving
  <2> QED  BY <1>6, <2>1, <2>2, <2>3
<1>8. Exact' /\ MovedTo'
  BY <1>7 DEF Exact, MovedTo
<1>9. Agreed'
  <2>1. AdrAfter(port)' = AdrAfter(port)
    BY DEF AdrAfter
  <2> QED  BY <1>7, <2>1 DEF Agreed
<1> QED  BY <1>3, <1>7, <1>8, <1>9

LEMMA NextWorkNoneKeeps ==
    ASSUME IInv, NextWorkNone, UNCHANGED <<others, unplugged>>
    PROVE  IInv'
<1> USE DEF IInv, NextWorkNone
<1>1. Basics'
  <2>1. inbox' \in Seq(Works)
    OBVIOUS
  <2>2. TypeOK'
    BY <2>1 DEF Basics, TypeOK, HubTypeOK
  <2>3. (Control /\ Connected /\ Current /\ UrbSound)'
    BY DEF Basics, Control, Ended, Connected, Current, UrbSound
  <2> QED  BY <2>2, <2>3 DEF Basics
<1>2. ASSUME NEW x, inbox = <<x>>
      PROVE  Canceled(x)
  <2>1. 1 \in DOMAIN inbox /\ inbox[1] = x
    BY <1>2
  <2> QED  BY <2>1
<1>3. inbox # <<UrbWork>> /\ inbox # <<CancelWork>>
      /\ \A ts : inbox # <<[kind |-> "stat", triggers |-> ts]>>
  BY <1>2 DEF Canceled, UrbWork, CancelWork
<1>4. ~hasty => Gone
  BY <1>3 DEF Quiet, Changed, Fetched, Queued, Replying, Serving, WithDriver,
     WithBackground, InInbox, WithMain
<1>5. Quiet'
  <2> SUFFICES ASSUME ~hasty PROVE Gone'
    BY DEF Quiet, Serving
  <2> QED  BY <1>4 DEF Gone, Calm, MainFree
<1>6. ~Moved' /\ ~Moved
  BY <1>3 DEF Moved, Basics, Control, None
<1>7. (Exact /\ MovedTo)'
  BY <1>6 DEF Exact, MovedTo
<1>8. Agreed'
  <2>1. AdrAfter(port)' = AdrAfter(port)
    BY DEF AdrAfter
  <2> QED  BY <1>6, <2>1 DEF Agreed
<1> QED  BY <1>1, <1>5, <1>7, <1>8

(* While the core is not hasty the main thread answers one report with one *)
(* request, and the library knows the port.                                *)
LEMMA OneAnswer ==
    ASSUME IInv, ~hasty, main \in {"answer", "call"}, todo # <<>>
    PROVE  /\ Replying /\ stat = port
           /\ \E q \in Answering : /\ todo = <<q>> /\ Head(todo) = q /\ Tail(todo) = <<>>
                                   /\ InOrder(q) \/ (q # Plug /\ "CONNECTION" \notin port.status)
<1>1. Replying
  BY DEF IInv, Quiet, Changed, Fetched, Queued, Serving, WithDriver, WithBackground,
     InInbox, WithMain, Gone, MainFree
<1>2. stat = port
  BY <1>1 DEF Replying, IInv, Basics, Current
<1>3. PICK q \in Answering :
          /\ todo = <<q>>
          /\ InOrder(q) \/ (q # Plug /\ "CONNECTION" \notin port.status)
  BY <1>1 DEF Replying, Answerable
<1>4. Head(todo) = q /\ Tail(todo) = <<>>
  BY <1>3
<1> QED  BY <1>1, <1>2, <1>3, <1>4

LEMMA TailTyped ==
    ASSUME IInv, todo # <<>>
    PROVE  Head(todo) \in Answering /\ Tail(todo) \in Seq(Answering)
<1>1. todo \in Seq(Answering)
  BY TodoType DEF IInv, Basics, TypeOK
<1> QED  BY <1>1, HeadTailProperties

LEMMA DecideKeeps ==
    ASSUME IInv, Decide, UNCHANGED <<others, unplugged>>
    PROVE  IInv'
<1> USE DEF IInv, Decide
<1>1. \/ Pointless(Head(todo)) /\ todo' = Tail(todo) /\ main' = main
      \/ ~Pointless(Head(todo)) /\ main' = "call" /\ todo' = todo
  OBVIOUS
<1>2. Basics'
  <2>1. TypeOK'
    BY <1>1, TailTyped, TodoType DEF Basics, TypeOK, HubTypeOK
  <2>2. (Control /\ Connected /\ Current /\ UrbSound)'
    BY <1>1 DEF Basics, Control, Ended, Connected, Current, UrbSound
  <2> QED  BY <2>1, <2>2 DEF Basics
<1>3. Quiet'
  <2> SUFFICES ASSUME ~hasty PROVE Replying' \/ Gone'
    BY DEF Quiet, Serving
  <2>1. PICK q \in Answering :
            /\ todo = <<q>> /\ Head(todo) = q /\ Tail(todo) = <<>>
            /\ InOrder(q) \/ (q # Plug /\ "CONNECTION" \notin port.status)
    BY OneAnswer
  <2>2. Replying /\ stat = port
    BY OneAnswer
  <2>3. CASE Pointless(Head(todo))
    BY <1>1, <2>1, <2>2, <2>3 DEF Replying, Gone, Calm, MainFree, NoUrb
  <2>4. CASE ~Pointless(Head(todo))
    <3>1. InOrder(q)
      BY <2>1, <2>2, <2>4 DEF Pointless, Plug
    <3>2. InOrder(Head(todo))' /\ Answerable(todo)'
      BY <1>1, <2>1, <2>4, <3>1 DEF Answerable, InOrder, Accepts
    <3> QED  BY <1>1, <2>2, <2>4, <3>2 DEF Replying
  <2> QED  BY <2>3, <2>4
<1>4. (Exact /\ MovedTo /\ Agreed)'
  BY DEF Exact, MovedTo, Moved, UrbWork, Agreed, AdrAfter
<1> QED  BY <1>2, <1>3, <1>4

LEMMA CallThrowsKeeps ==
    ASSUME IInv, CallThrows, UNCHANGED <<others, unplugged>>
    PROVE  IInv'
<1> USE DEF IInv, CallThrows
<1>1. hasty
  <2>1. ~hasty => Replying
    BY OneAnswer DEF Basics, Control
  <2> QED  BY <2>1 DEF Replying, InOrder
<1>2. Basics'
  <2>1. TypeOK'
    BY DEF Basics, TypeOK, HubTypeOK
  <2>2. (Control /\ Connected /\ Current /\ UrbSound)'
    BY <1>1 DEF Basics, Control, Ended, Connected, Current, UrbSound
  <2> QED  BY <2>1, <2>2 DEF Basics
<1>3. (Quiet /\ Exact /\ MovedTo /\ Agreed)'
  BY <1>1 DEF Quiet, Exact, MovedTo, Agreed
<1> QED  BY <1>2, <1>3

(* What a request of the program leaves behind, at any time and while all  *)
(* is handled.                                                             *)
LEMMA RequestTyped ==
    ASSUME Basics, NEW q \in PortRequests, Request(q), hasty' \in BOOLEAN,
           UNCHANGED <<commands, bg, wk, stat>>
    PROVE  HubTypeOK' /\ Connected' /\ Current' /\ UrbSound'
<1> USE DEF Basics, TypeOK, HubTypeOK
<1>1. /\ port' \in PortStats /\ "POWER" \in port'.status
      /\ doubt' \in BOOLEAN /\ pending' = TRUE /\ urb' = urb
      /\ coreAdr' = NoAdr \/ coreAdr' = 0 \/ coreAdr' = coreAdr
  BY RequestEffect
<1>2. coreAdr' \in Addresses \cup {NoAdr}
  <2>1. 0 \in Addresses
    BY DEF Addresses, MaxAddress
  <2> QED  BY <1>1, <2>1
<1>3. HubTypeOK'
  BY <1>1, <1>2
<1>4. Connected' /\ Current' /\ UrbSound'
  BY <1>1 DEF Connected, Current, UrbSound
<1> QED  BY <1>3, <1>4

LEMMA RequestSettles ==
    ASSUME IInv, ~hasty, NEW q \in PortRequests, Request(q),
           ~pending, bg = "fetch", urb = NoUrb,
           q.change \subseteq {"C_SUSPEND", "C_OVERCURRENT"} => port.change = {},
           UNCHANGED <<stat, adr>>
    PROVE  /\ Answers(Triggers(port, stat))' = <<>>
           /\ ~doubt' /\ coreAdr' # NoAdr => AdrAfter(port)' = coreAdr'
<1> USE DEF IInv, Basics, TypeOK, HubTypeOK
<1>1. stat' = port
  BY DEF Current
<1>2. /\ "POWER" \in port.status
      /\ "RESET" \in port'.status => "RESET" \in port.status
      /\ port'.resuming => port.resuming
      /\ port'.change = port.change \cup q.change
      /\ \/ coreAdr' = NoAdr
         \/ coreAdr' = 0 /\ ResetDone(port')
         \/ /\ coreAdr' = coreAdr /\ doubt' = doubt
            /\ q.change \subseteq {"C_SUSPEND", "C_OVERCURRENT"}
  BY RequestEffect
<1>3. Answers(Triggers(port, stat))' = <<>>
  <2>1. ~Rises("POWER", port', stat') /\ ~Rises("RESET", port', stat')
        /\ ~(port'.resuming /\ ~stat'.resuming)
    BY <1>1, <1>2 DEF Rises
  <2>2. /\ "POWER_ON" \notin Triggers(port', stat') /\ "RESET" \notin Triggers(port', stat')
        /\ "RESUMING" \notin Triggers(port', stat')
    BY <2>1, TriggerBits
  <2> QED  BY <2>2, AnswersNone
<1>4. ASSUME ~doubt', coreAdr' # NoAdr
      PROVE  AdrAfter(port)' = coreAdr'
  <2>1. CASE coreAdr' = 0 /\ ResetDone(port')
    BY <2>1 DEF AdrAfter
  <2>2. CASE /\ coreAdr' = coreAdr /\ doubt' = doubt
             /\ q.change \subseteq {"C_SUSPEND", "C_OVERCURRENT"}
    <3>1. "C_RESET" \notin port'.change /\ "C_CONNECTION" \notin port'.change
      BY <1>2, <2>2
    <3>2. AdrAfter(port)' = adr
      BY <3>1 DEF AdrAfter, ResetDone, ConnectionChanged
    <3>3. adr = coreAdr
      BY <1>4, <2>2 DEF Agreed, Moved, NoUrb
    <3> QED  BY <2>2, <3>2, <3>3
  <2> QED  BY <1>2, <1>4, <2>1, <2>2
<1> QED  BY <1>3, <1>4

LEMMA CallKeeps ==
    ASSUME IInv, Call, UNCHANGED <<others, unplugged>>
    PROVE  IInv'
<1> USE DEF IInv, Call
<1> DEFINE q == Head(todo)
<1>1. q \in Answering /\ q \in PortRequests /\ Tail(todo) \in Seq(Answering)
  BY TailTyped, AnsweringRequests DEF Basics, Control
<1>2. Request(q)
  OBVIOUS
<1> HIDE DEF q
<1>3. Basics'
  <2>1. HubTypeOK' /\ Connected' /\ Current' /\ UrbSound'
    BY <1>1, <1>2, RequestTyped DEF Basics, TypeOK, HubTypeOK
  <2>2. TypeOK'
    BY <1>1, <2>1, TodoType DEF Basics, TypeOK
  <2>3. Control'
    <3>1. work # None
      BY DEF Basics, Control
    <3> QED  BY <3>1 DEF Basics, Control, Ended
  <2> QED  BY <2>1, <2>2, <2>3 DEF Basics
<1>4. ASSUME ~hasty
      PROVE  /\ Replying /\ Tail(todo) = <<>> /\ InOrder(q)
             /\ q.change \subseteq {"C_SUSPEND", "C_OVERCURRENT"} => port.change = {}
  <2>1. Replying /\ Tail(todo) = <<>>
    BY <1>4, OneAnswer DEF Basics, Control
  <2>2. InOrder(q)
    BY <2>1 DEF Replying, q
  <2>3. q.change \subseteq {"C_SUSPEND", "C_OVERCURRENT"} => q.change = {"C_SUSPEND"}
    BY <1>1, AnsweringFields
  <2> QED  BY <2>1, <2>2, <2>3 DEF InOrder
<1>5. pending' = TRUE /\ urb' = urb
  BY <1>2 DEF Request
<1>6. ASSUME ~hasty
      PROVE  /\ Answers(Triggers(port, stat))' = <<>>
             /\ ~doubt' /\ coreAdr' # NoAdr => AdrAfter(port)' = coreAdr'
  BY <1>1, <1>2, <1>4, <1>6, RequestSettles DEF Replying
<1>7. Quiet'
  <2> SUFFICES ASSUME ~hasty PROVE Changed'
    BY DEF Quiet
  <2> QED  BY <1>4, <1>5, <1>6 DEF Replying, Changed, MainFree, Answerable
<1>8. (Exact /\ MovedTo)'
  BY <1>4, <1>5 DEF Exact, MovedTo, Moved, Replying, NoUrb
<1>9. Agreed'
  BY <1>5, <1>6 DEF Agreed
<1> QED  BY <1>3, <1>7, <1>8, <1>9

(* An urb is given back; a report or a cancel leaves no trace.             *)
LEMMA FinishKeeps ==
    ASSUME IInv, Finish, UNCHANGED <<others, unplugged>>
    PROVE  IInv'
<1> USE DEF IInv, Finish
<1>1. CASE work.kind = "urb"
  <2>1. Giveback(ProcessUrb(work.urb))
    BY <1>1
  <2>2. /\ HubTypeOK'
        /\ urb' = IF urb.state = "queued" THEN urb ELSE NoUrb
        /\ \/ coreAdr' = coreAdr
           \/ /\ urb.state = "fetched" /\ AssignsAddress(urb.urb)
              /\ coreAdr' = urb.urb.val
        /\ UNCHANGED <<port, pending, commands, hasty, doubt>>
    BY <2>1, GivebackEffect DEF Giveback
  <2>3. Basics'
    <3>1. TypeOK'
      BY <2>2 DEF Basics, TypeOK
    <3>2. (Control /\ Connected /\ Current /\ UrbSound)'
      BY <2>2 DEF Basics, Control, Ended, Connected, Current, UrbSound
    <3> QED  BY <3>1, <3>2 DEF Basics
  <2>4. ~hasty => WithMain /\ urb' = NoUrb
    <3>1. ~hasty => WithMain
      BY <1>1 DEF Quiet, Changed, Fetched, Queued, Replying, Serving, WithDriver,
         WithBackground, InInbox, Gone, MainFree
    <3> QED  BY <2>2, <3>1 DEF WithMain
  <2>5. Quiet'
    <3> SUFFICES ASSUME ~hasty PROVE Gone'
      BY <2>2 DEF Quiet, Serving
    <3> QED  BY <2>2, <2>4 DEF WithMain, Gone, Calm, MainFree, CancelWork, NoUrb
  <2>6. (Exact /\ MovedTo)' /\ (~hasty => ~Moved')
    BY <2>2, <2>4 DEF Exact, MovedTo, Moved, NoUrb
  <2>7. Agreed'
    <3> SUFFICES ASSUME ~hasty, ~doubt, coreAdr' # NoAdr
                 PROVE  ~pending /\ bg # "stat" /\ adr = coreAdr'
      BY <2>2, <2>6 DEF Agreed
    <3>1. ~pending /\ bg # "stat"
      BY <2>4 DEF WithMain, Calm
    <3>2. CASE Moved
      <4>1. urb.urb \in KernelUrbs /\ Sound(urb.urb)
        BY <3>2, UrbTyped DEF Moved, UrbStates
      <4>2. urb.urb.devadr = coreAdr /\ adr = urb.urb.val
        BY <3>2 DEF Exact, MovedTo, Moved
      <4>3. ProcessUrb(work.urb) = "SUCCESS"
        <5>1. work.urb = FromKernel(urb.urb)
          BY <2>4 DEF WithMain, UrbWork
        <5> QED  BY <3>2, <4>1, <5>1, SetAddressAgrees DEF Moved
      <4>4. coreAdr' = urb.urb.val
        BY <2>1, <3>2, <4>2, <4>3 DEF Giveback, Moved
      <4> QED  BY <3>1, <4>2, <4>4
    <3>3. CASE ~Moved
      <4>1. coreAdr' = coreAdr
        BY <1>1, <2>2, <3>3 DEF Moved
      <4>2. adr = coreAdr
        BY <3>1, <3>3, <4>1 DEF Agreed
      <4> QED  BY <3>1, <4>1, <4>2
    <3> QED  BY <3>2, <3>3
  <2> QED  BY <2>3, <2>5, <2>6, <2>7
<1>2. CASE work.kind # "urb"
  <2>1. UNCHANGED hubVars
    BY <1>2
  <2>2. Basics'
    <3>1. TypeOK'
      BY <2>1 DEF Basics, TypeOK, HubTypeOK
    <3>2. (Control /\ Connected /\ Current /\ UrbSound)'
      BY <2>1 DEF Basics, Control, Ended, Connected, Current, UrbSound
    <3> QED  BY <3>1, <3>2 DEF Basics
  <2>3. ~hasty => Changed \/ Fetched \/ Queued \/ Gone
    BY <1>2 DEF Quiet, Replying, Serving, WithDriver, WithBackground, InInbox, WithMain,
       UrbWork
  <2>4. Quiet'
    <3> SUFFICES ASSUME ~hasty PROVE (Changed \/ Fetched \/ Queued \/ Gone)'
      BY <2>1 DEF Quiet, Serving
    <3>1. /\ Answerable(Answers(Triggers(port, stat)))' <=>
                Answerable(Answers(Triggers(port, stat)))
          /\ \A ts : Answerable(Answers(ts))' <=> Answerable(Answers(ts))
      BY <2>1, SameAnswers
    <3>2. CASE Changed
      BY <2>1, <3>1, <3>2 DEF Changed, MainFree
    <3>3. CASE Fetched
      BY <2>1, <3>1, <3>3 DEF Fetched, MainFree
    <3>4. CASE Queued
      BY <2>1, <3>1, <3>4 DEF Queued, MainFree
    <3>5. CASE Gone
      BY <2>1, <3>5 DEF Gone, Calm, MainFree
    <3> QED  BY <2>3, <3>2, <3>3, <3>4, <3>5
  <2>5. Moved' <=> Moved
    BY <1>2, <2>1 DEF Moved, UrbWork, None
  <2>6. (Exact /\ MovedTo)'
    BY <2>1, <2>5 DEF Exact, MovedTo
  <2>7. Agreed'
    <3>1. AdrAfter(port)' = AdrAfter(port)
      BY <2>1 DEF AdrAfter
    <3> QED  BY <2>1, <2>5, <3>1 DEF Agreed
  <2> QED  BY <2>2, <2>4, <2>6, <2>7
<1> QED  BY <1>1, <1>2

-----------------------------------------------------------------------------
(* The usb core.  If it is not hasty afterwards, all was handled before, and*)
(* the command leaves the port on its way to the background thread.        *)

(* While all is handled the library knows the port.                        *)
LEMMA KnownPort ==
    ASSUME IInv, Handled(Idle)
    PROVE  /\ stat = port /\ port \in PortStats /\ ~pending /\ urb = NoUrb
           /\ bg = "fetch" /\ inbox = <<>> /\ main = "idle"
BY DEF IInv, Handled, Idle, Basics, Current, TypeOK, HubTypeOK

LEMMA PortCommandKeeps ==
    ASSUME IInv, NEW st \in SUBSET StatusBits, NEW resuming \in BOOLEAN, NEW lost \in BOOLEAN,
           PortCommand(st, resuming, lost), UNCHANGED <<devVars, others>>,
           unplugged' \in BOOLEAN, ~Ended,
           hasty' \in BOOLEAN, "CONNECTION" \in st => "POWER" \in st,
           ~hasty' => /\ Handled(Idle)
                      /\ Answerable(Answers(Triggers(port, stat)))'
                      /\ ~lost => Settled(Idle) /\ ~hasty
    PROVE  IInv'
<1> USE DEF IInv, PortCommand, Command
<1>1. port' = [status |-> st, change |-> port.change, resuming |-> resuming]
      /\ port' \in PortStats
  BY DEF Basics, TypeOK, HubTypeOK, PortStats
<1>2. Basics'
  <2>1. commands' \in 0..MaxCommands
    BY MaxCommandsAssumption DEF Basics, TypeOK, HubTypeOK
  <2>2. TypeOK'
    BY <1>1, <2>1 DEF Basics, TypeOK, HubTypeOK
  <2>3. (Control /\ Connected /\ Current /\ UrbSound)'
    BY <1>1 DEF Basics, Control, Ended, Connected, Current, UrbSound
  <2> QED  BY <2>2, <2>3 DEF Basics
<1>3. Quiet'
  <2> SUFFICES ASSUME ~hasty' PROVE Changed'
    BY DEF Quiet
  <2> QED  BY KnownPort DEF Changed, MainFree
<1>4. (Exact /\ MovedTo)'
  BY KnownPort DEF Exact, MovedTo, Moved, NoUrb
<1>5. Agreed'
  <2> SUFFICES ASSUME ~hasty', ~doubt', coreAdr' # NoAdr
               PROVE  AdrAfter(port)' = coreAdr'
    BY DEF Agreed
  <2>1. ~lost
    OBVIOUS
  <2>2. Settled(Idle) /\ ~hasty
    BY <2>1
  <2>3. port'.change = {}
    BY <1>1, <2>2 DEF Settled
  <2>4. AdrAfter(port)' = adr
    BY <2>3 DEF AdrAfter, ResetDone, ConnectionChanged
  <2>5. adr = coreAdr
    BY <2>1, <2>2, KnownPort DEF Agreed, Moved, NoUrb, Settled
  <2> QED  BY <2>1, <2>4, <2>5
<1> QED  BY <1>2, <1>3, <1>4, <1>5

LEMMA PowerOnKeeps ==
    ASSUME IInv, PowerOn(Idle), UNCHANGED <<devVars, others>>, unplugged' \in BOOLEAN, ~Ended
    PROVE  IInv'
<1> USE DEF PowerOn
<1>1. PortCommand({"POWER"}, FALSE, TRUE)
  OBVIOUS
<1>2. hasty' \in BOOLEAN
  BY DEF IInv, Basics, TypeOK, HubTypeOK
<1>3. ASSUME ~hasty'
      PROVE  Handled(Idle) /\ Answerable(Answers(Triggers(port, stat)))'
  <2>1. Handled(Idle)
    BY <1>3 DEF Settled
  <2>2. /\ stat' = port /\ port'.status = {"POWER"} /\ ~port'.resuming
        /\ "POWER" \notin port.status
    BY <2>1, KnownPort DEF PortCommand, PortStats
  <2>3. Answers(Triggers(port, stat))' = <<Plug>>
    <3>1. Rises("POWER", port', stat') /\ ~Rises("RESET", port', stat')
      BY <2>2 DEF Rises
    <3>2. /\ "POWER_ON" \in Triggers(port', stat') /\ "RESET" \notin Triggers(port', stat')
          /\ "RESUMING" \notin Triggers(port', stat')
      BY <2>2, <3>1, TriggerBits
    <3> QED  BY <3>2, AnswersOne
  <2>4. InOrder(Plug)'
    <3>1. Plug.change = {"C_CONNECTION"}
      BY RequestShapes
    <3>2. {"C_CONNECTION"} # {"C_ENABLE"} /\ {"C_CONNECTION"} # {"C_SUSPEND"}
      OBVIOUS
    <3> QED  BY <2>2, <3>1, <3>2 DEF InOrder, Accepts
  <2> QED  BY <2>1, <2>3, <2>4 DEF Answerable, Answering
<1>4. {"POWER"} \in SUBSET StatusBits
  BY DEF StatusBits
<1> QED  BY <1>1, <1>2, <1>3, <1>4, PortCommandKeeps

LEMMA PowerOffKeeps ==
    ASSUME IInv, PowerOff(Idle), UNCHANGED <<devVars, others>>, unplugged' \in BOOLEAN, ~Ended
    PROVE  IInv'
<1> USE DEF PowerOff
<1>1. PortCommand({}, FALSE, TRUE)
  OBVIOUS
<1>2. hasty' \in BOOLEAN
  OBVIOUS
<1>3. ASSUME ~hasty'
      PROVE  Handled(Idle) /\ Answerable(Answers(Triggers(port, stat)))'
  <2>1. Handled(Idle)
    BY <1>3
  <2>2. port'.status = {} /\ ~port'.resuming
    BY <2>1, KnownPort DEF PortCommand, PortStats
  <2>3. Answers(Triggers(port, stat))' = <<>>
    <3>1. /\ "POWER_ON" \notin Triggers(port', stat') /\ "RESET" \notin Triggers(port', stat')
          /\ "RESUMING" \notin Triggers(port', stat')
      BY <2>2, TriggerBits DEF Rises
    <3> QED  BY <3>1, AnswersNone
  <2> QED  BY <2>1, <2>3 DEF Answerable
<1> QED  BY <1>1, <1>2, <1>3, PortCommandKeeps

LEMMA ResetKeeps ==
    ASSUME IInv, Reset(Idle), UNCHANGED <<devVars, others>>, unplugged' \in BOOLEAN, ~Ended
    PROVE  IInv'
<1> USE DEF Reset
<1> DEFINE st == (port.status \ {"ENABLE", "SUSPEND"}) \cup {"RESET"}
<1>1. PortCommand(st, FALSE, TRUE)
  OBVIOUS
<1>2. hasty' \in BOOLEAN
  BY DEF IInv, Basics, TypeOK, HubTypeOK
<1>3. ASSUME ~hasty'
      PROVE  Handled(Idle) /\ Answerable(Answers(Triggers(port, stat)))'
  <2>1. Handled(Idle)
    BY <1>3 DEF Settled
  <2>2. stat' = port /\ port'.status = st /\ ~port'.resuming
    BY <2>1, KnownPort DEF PortCommand, PortStats
  <2>3. Answers(Triggers(port, stat))' = <<Completed>>
    <3>1. /\ ~Rises("POWER", port', stat') /\ Rises("RESET", port', stat')
      BY <2>2 DEF Rises
    <3>2. /\ "POWER_ON" \notin Triggers(port', stat') /\ "RESET" \in Triggers(port', stat')
          /\ "RESUMING" \notin Triggers(port', stat')
      BY <2>2, <3>1, TriggerBits
    <3> QED  BY <3>2, AnswersOne
  <2>4. InOrder(Completed)'
    <3>1. Completed.change = {"C_RESET"}
      BY RequestShapes
    <3>2. {"C_RESET"} # {"C_ENABLE"} /\ {"C_RESET"} # {"C_SUSPEND"}
      OBVIOUS
    <3>3. "POWER" \in port'.status
      BY <2>2 DEF IInv, Basics, Connected
    <3> QED  BY <2>2, <3>1, <3>2, <3>3 DEF InOrder, Accepts
  <2> QED  BY <2>1, <2>3, <2>4 DEF Answerable, Answering
<1>4. st \in SUBSET StatusBits /\ ("CONNECTION" \in st => "POWER" \in st)
  BY DEF StatusBits, IInv, Basics, TypeOK, HubTypeOK, PortStats, Connected
<1> HIDE DEF st
<1> QED  BY <1>1, <1>2, <1>3, <1>4, PortCommandKeeps

LEMMA SuspendKeeps ==
    ASSUME IInv, Suspend(Idle), UNCHANGED <<devVars, others>>, unplugged' \in BOOLEAN, ~Ended
    PROVE  IInv'
<1> USE DEF Suspend
<1> DEFINE st == port.status \cup {"SUSPEND"}
<1>1. PortCommand(st, FALSE, FALSE)
  OBVIOUS
<1>2. hasty' \in BOOLEAN
  BY DEF IInv, Basics, TypeOK, HubTypeOK
<1>3. ASSUME ~hasty'
      PROVE  /\ Settled(Idle) /\ Handled(Idle) /\ ~hasty
             /\ Answerable(Answers(Triggers(port, stat)))'
  <2>1. Settled(Idle) /\ Handled(Idle) /\ ~hasty
    BY <1>3 DEF Settled
  <2>2. stat' = port /\ port'.status = st /\ ~port'.resuming
    BY <2>1, KnownPort DEF PortCommand, PortStats
  <2>3. Answers(Triggers(port, stat))' = <<>>
    <3>1. ~Rises("POWER", port', stat') /\ ~Rises("RESET", port', stat')
      BY <2>2 DEF Rises
    <3>2. /\ "POWER_ON" \notin Triggers(port', stat') /\ "RESET" \notin Triggers(port', stat')
          /\ "RESUMING" \notin Triggers(port', stat')
      BY <2>2, <3>1, TriggerBits
    <3> QED  BY <3>2, AnswersNone
  <2> QED  BY <2>1, <2>3 DEF Answerable
<1>4. st \in SUBSET StatusBits /\ ("CONNECTION" \in st => "POWER" \in st)
  BY DEF StatusBits, IInv, Basics, TypeOK, HubTypeOK, PortStats, Connected
<1> HIDE DEF st
<1> QED  BY <1>1, <1>2, <1>3, <1>4, PortCommandKeeps

LEMMA ResumeKeeps ==
    ASSUME IInv, Resume(Idle), UNCHANGED <<devVars, others>>, unplugged' \in BOOLEAN, ~Ended
    PROVE  IInv'
<1> USE DEF Resume
<1>1. PortCommand(port.status, TRUE, FALSE)
  OBVIOUS
<1>2. hasty' \in BOOLEAN
  BY DEF IInv, Basics, TypeOK, HubTypeOK
<1>3. ASSUME ~hasty'
      PROVE  /\ Settled(Idle) /\ Handled(Idle) /\ ~hasty
             /\ Answerable(Answers(Triggers(port, stat)))'
  <2>1. Settled(Idle) /\ Handled(Idle) /\ ~hasty
    BY <1>3 DEF Settled
  <2>2. /\ stat' = port /\ port'.status = port.status /\ port'.resuming
        /\ port'.change = {} /\ ~stat'.resuming
    BY <2>1, KnownPort DEF PortCommand, PortStats, Settled
  <2>3. Answers(Triggers(port, stat))' = <<Resumed>>
    <3>1. ~Rises("POWER", port', stat') /\ ~Rises("RESET", port', stat')
      BY <2>2 DEF Rises
    <3>2. /\ "POWER_ON" \notin Triggers(port', stat') /\ "RESET" \notin Triggers(port', stat')
          /\ "RESUMING" \in Triggers(port', stat')
      BY <2>2, <3>1, TriggerBits
    <3> QED  BY <3>2, AnswersOne
  <2>4. InOrder(Resumed)' \/ (Resumed # Plug /\ "CONNECTION" \notin port'.status)
    <3>1. Resumed.change = {"C_SUSPEND"}
      BY RequestShapes
    <3>2. {"C_SUSPEND"} # {"C_ENABLE"}
      OBVIOUS
    <3>3. "CONNECTION" \in port'.status => "POWER" \in port'.status
      BY <2>2 DEF IInv, Basics, Connected
    <3> QED  BY <2>2, <3>1, <3>2, <3>3, RequestsDiffer DEF InOrder, Accepts
  <2> QED  BY <2>1, <2>3, <2>4 DEF Answerable, Answering
<1>4. /\ port.status \in SUBSET StatusBits
      /\ "CONNECTION" \in port.status => "POWER" \in port.status
  BY DEF IInv, Basics, TypeOK, HubTypeOK, PortStats, Connected
<1> QED  BY <1>1, <1>2, <1>3, <1>4, PortCommandKeeps

LEMMA ClearChangesKeeps ==
    ASSUME IInv, ClearChanges(Idle), UNCHANGED <<devVars, others>>, unplugged' \in BOOLEAN,
           ~Ended
    PROVE  IInv'
<1> USE DEF IInv, ClearChanges
<1>1. /\ port' \in PortStats /\ port'.change = {}
      /\ port'.status = port.status /\ port'.resuming = port.resuming
  BY DEF Basics, TypeOK, HubTypeOK, PortStats
<1>2. Basics'
  <2>1. hasty' \in BOOLEAN
    BY DEF Basics, TypeOK, HubTypeOK
  <2>2. TypeOK'
    BY <1>1, <2>1 DEF Basics, TypeOK, HubTypeOK
  <2>3. (Control /\ Connected /\ Current /\ UrbSound)'
    BY <1>1 DEF Basics, Control, Ended, Connected, Current, UrbSound
  <2> QED  BY <2>2, <2>3 DEF Basics
<1>3. ASSUME ~hasty'
      PROVE  ~hasty /\ Handled(Idle)
  <2>1. ~hasty /\ ~pending /\ Idle
    BY <1>3
  <2>2. urb = NoUrb
    <3>1. Calm
      BY <2>1 DEF Quiet, Changed, Fetched, Queued, Replying, Serving, WithDriver,
         WithBackground, InInbox, WithMain, Gone, Idle
    <3> QED  BY <3>1 DEF Calm
  <2> QED  BY <2>1, <2>2 DEF Handled
<1>4. Quiet'
  <2> SUFFICES ASSUME ~hasty' PROVE Changed'
    BY DEF Quiet
  <2>1. /\ stat' = port /\ bg = "fetch" /\ inbox = <<>> /\ main = "idle" /\ urb = NoUrb
    BY <1>3, KnownPort
  <2>2. Answers(Triggers(port, stat))' = <<>>
    <3>1. /\ "POWER_ON" \notin Triggers(port', stat') /\ "RESET" \notin Triggers(port', stat')
          /\ "RESUMING" \notin Triggers(port', stat')
      BY <1>1, <2>1, TriggerBits DEF Rises
    <3> QED  BY <3>1, AnswersNone
  <2> QED  BY <2>1, <2>2 DEF Changed, MainFree, Answerable
<1>5. (Exact /\ MovedTo)'
  BY <1>3, KnownPort DEF Exact, MovedTo, Moved, NoUrb
<1>6. Agreed'
  <2> SUFFICES ASSUME ~hasty', ~doubt, coreAdr # NoAdr
               PROVE  AdrAfter(port)' = coreAdr
    BY DEF Agreed
  <2>1. AdrAfter(port)' = adr
    BY <1>1 DEF AdrAfter, ResetDone, ConnectionChanged
  <2>2. adr = coreAdr
    BY <1>3, KnownPort DEF Agreed, Moved, NoUrb
  <2> QED  BY <2>1, <2>2
<1> QED  BY <1>2, <1>4, <1>5, <1>6

LEMMA SubmitKeeps ==
    ASSUME IInv, NEW k \in Urbs, Submit(Idle, k), UNCHANGED <<devVars, others>>,
           unplugged' \in BOOLEAN, ~Ended
    PROVE  IInv'
<1> USE DEF IInv, Submit, Command
<1>1. k \in KernelUrbs /\ Sound(k)
  <2>1. k \in KernelUrbs /\ k.type = "CONTROL" /\ (IsIn(k) => k.rt >= 128)
    BY HubUrbsAssumption
  <2>2. k.epadr \in {0, 128} /\ (IsSetAddress(k) => k.val <= MaxAddress)
    BY DeviceUrbsAssumption
  <2>3. AssignsAddress(k) => IsSetAddress(k)
    BY DEF AssignsAddress, IsSetAddress, EndpointNumber
  <2> QED  BY <2>1, <2>2, <2>3 DEF Sound
<1>2. coreAdr \in Addresses
  BY DEF Basics, TypeOK, HubTypeOK
<1> DEFINE n == [k EXCEPT !.devadr = coreAdr]
<1>3. n \in KernelUrbs /\ n.devadr = coreAdr
  BY <1>1, <1>2 DEF KernelUrbs
<1>4. Sound(n)
  BY <1>1 DEF KernelUrbs, Sound, IsIn, AssignsAddress
<1>5. urb' = [state |-> "queued", urb |-> n]
  OBVIOUS
<1> HIDE DEF n
<1>6. /\ urb' # NoUrb /\ urb'.state = "queued" /\ urb'.urb = n
      /\ urb' \in [state : UrbStates, urb : KernelUrbs]
  BY <1>3, <1>5 DEF NoUrb, UrbStates
<1>7. Basics'
  <2>1. commands' \in 0..MaxCommands /\ hasty' \in BOOLEAN
    BY MaxCommandsAssumption DEF Basics, TypeOK, HubTypeOK
  <2>2. TypeOK'
    BY <1>6, <2>1 DEF Basics, TypeOK, HubTypeOK
  <2>3. (Control /\ Connected /\ Current /\ UrbSound)'
    BY <1>4, <1>6 DEF Basics, Control, Ended, Connected, Current, UrbSound, Sound
  <2> QED  BY <2>2, <2>3 DEF Basics
<1>8. ASSUME ~hasty'
      PROVE  /\ ~hasty /\ ~pending /\ port.change = {}
             /\ bg = "fetch" /\ inbox = <<>> /\ main = "idle"
  BY <1>8 DEF Settled, Handled, Idle
<1>9. Quiet'
  <2> SUFFICES ASSUME ~hasty' PROVE WithDriver'
    BY DEF Quiet, Serving
  <2> QED  BY <1>6, <1>8 DEF WithDriver, Calm
<1>10. (Exact /\ MovedTo)' /\ ~Moved'
  BY <1>3, <1>6 DEF Exact, MovedTo, Moved
<1>11. Agreed'
  <2> SUFFICES ASSUME ~hasty', ~doubt PROVE adr = coreAdr
    BY <1>8, <1>10 DEF Agreed
  <2> QED  BY <1>8 DEF Agreed, Moved, NoUrb
<1> QED  BY <1>7, <1>9, <1>10, <1>11

LEMMA UnlinkKeeps ==
    ASSUME IInv, Unlink, UNCHANGED <<devVars, others>>, unplugged' \in BOOLEAN, ~Ended
    PROVE  IInv'
<1> USE DEF IInv, Unlink
<1>1. urb # NoUrb /\ urb.urb \in KernelUrbs /\ Sound(urb.urb)
  BY UrbTyped DEF UrbStates
<1>2. CASE urb.state = "queued"
  <2>1. urb' = NoUrb /\ doubt' = doubt /\ ~Moved
    BY <1>2 DEF Moved
  <2>2. Basics'
    <3>1. TypeOK'
      BY <2>1 DEF Basics, TypeOK, HubTypeOK
    <3>2. (Control /\ Connected /\ Current /\ UrbSound)'
      BY <2>1 DEF Basics, Control, Ended, Connected, Current, UrbSound
    <3> QED  BY <3>1, <3>2 DEF Basics
  <2>3. ~hasty => WithDriver
    BY <1>1, <1>2 DEF Quiet, Changed, Fetched, Queued, Replying, Serving, WithBackground,
       InInbox, WithMain, Gone
  <2>4. Quiet'
    <3> SUFFICES ASSUME ~hasty PROVE Gone'
      BY DEF Quiet, Serving
    <3> QED  BY <2>1, <2>3 DEF WithDriver, Gone, Calm, MainFree, NoUrb
  <2>5. (Exact /\ MovedTo)' /\ ~Moved'
    BY <2>1 DEF Exact, MovedTo, Moved, NoUrb
  <2>6. Agreed'
    BY <2>1, <2>3, <2>5 DEF Agreed, WithDriver, Calm
  <2> QED  BY <2>2, <2>4, <2>5, <2>6
<1>3. CASE urb.state = "fetched"
  <2>1. /\ urb' # NoUrb /\ urb'.state = "unlinked" /\ urb'.urb = urb.urb
        /\ urb' \in [state : UrbStates, urb : KernelUrbs]
        /\ doubt' = (doubt \/ AssignsAddress(urb.urb))
    BY <1>1, <1>3 DEF Basics, TypeOK, HubTypeOK, NoUrb, UrbStates
  <2>2. Basics'
    <3>1. doubt' \in BOOLEAN
      BY <2>1 DEF Basics, TypeOK, HubTypeOK, AssignsAddress
    <3>2. TypeOK'
      BY <2>1, <3>1 DEF Basics, TypeOK, HubTypeOK
    <3>3. (Control /\ Connected /\ Current /\ UrbSound)'
      BY <1>1, <2>1 DEF Basics, Control, Ended, Connected, Current, UrbSound, Sound
    <3> QED  BY <3>2, <3>3 DEF Basics
  <2>3. ~hasty => \/ WithBackground
                  \/ InInbox
                  \/ WithMain /\ inbox = <<>> /\ bg = "fetch"
                  \/ Gone
    BY <1>1, <1>3 DEF Quiet, Changed, Fetched, Queued, Replying, Serving, WithDriver, WithMain
  <2>4. UrbWork' = UrbWork
    BY <2>1 DEF UrbWork
  <2>5. Quiet'
    <3> SUFFICES ASSUME ~hasty PROVE Serving'
      BY DEF Quiet
    <3>1. CASE WithBackground
      BY <1>1, <2>1, <3>1 DEF Serving, WithBackground, Calm
    <3>2. CASE InInbox
      BY <1>1, <1>3, <2>1, <2>4, <3>2 DEF Serving, InInbox, Calm, UrbStates
    <3>3. CASE WithMain /\ inbox = <<>> /\ bg = "fetch"
      BY <1>1, <2>1, <2>4, <3>3 DEF Serving, WithMain, Calm, UrbStates
    <3>4. CASE Gone
      BY <1>1, <2>1, <3>4 DEF Serving, Gone, Calm, MainFree
    <3> QED  BY <2>3, <3>1, <3>2, <3>3, <3>4
  <2>6. Exact'
    BY <2>1 DEF Exact
  <2>7. ~Moved'
    BY <2>1 DEF Moved
  <2>8. MovedTo'
    BY <2>7 DEF MovedTo
  <2>9. Agreed'
    <3> SUFFICES ASSUME ~hasty, ~doubt', coreAdr # NoAdr
                 PROVE  ~pending /\ bg # "stat" /\ adr = coreAdr
      BY <2>7 DEF Agreed
    <3>1. ~pending /\ bg # "stat"
      BY <2>3 DEF WithBackground, InInbox, WithMain, Gone, Calm
    <3>2. ~doubt /\ ~Moved
      BY <2>1 DEF Moved
    <3> QED  BY <3>1, <3>2 DEF Agreed
  <2> QED  BY <2>2, <2>5, <2>6, <2>8, <2>9
<1> QED  BY <1>2, <1>3

LEMMA CoreKeeps ==
    ASSUME IInv, CoreStep
    PROVE  IInv'
<1>1. UNCHANGED <<devVars, others>> /\ unplugged' \in BOOLEAN /\ ~Ended
  BY DEF CoreStep, IInv, Basics, TypeOK
<1>2. CASE PowerOn(Idle)
  BY <1>1, <1>2, PowerOnKeeps
<1>3. CASE PowerOff(Idle)
  BY <1>1, <1>3, PowerOffKeeps
<1>4. CASE Reset(Idle)
  BY <1>1, <1>4, ResetKeeps
<1>5. CASE Suspend(Idle)
  BY <1>1, <1>5, SuspendKeeps
<1>6. CASE Resume(Idle)
  BY <1>1, <1>6, ResumeKeeps
<1>7. CASE ClearChanges(Idle)
  BY <1>1, <1>7, ClearChangesKeeps
<1>8. CASE \E k \in Urbs : Submit(Idle, k)
  BY <1>1, <1>8, SubmitKeeps
<1>9. CASE Unlink
  BY <1>1, <1>9, UnlinkKeeps
<1> QED  BY <1>2, <1>3, <1>4, <1>5, <1>6, <1>7, <1>8, <1>9 DEF CoreStep, Core

-----------------------------------------------------------------------------
(* Other threads, and the whole.                                           *)

LEMMA StutterKeeps ==
    ASSUME IInv, UNCHANGED <<hubVars, devVars>>,
           others' \in 0..MaxOthers, unplugged' \in BOOLEAN
    PROVE  IInv'
<1> USE DEF IInv
<1>1. Basics'
  <2>1. TypeOK'
    BY DEF Basics, TypeOK, HubTypeOK
  <2>2. (Control /\ Connected /\ Current /\ UrbSound)'
    BY DEF Basics, Control, Ended, Connected, Current, UrbSound
  <2> QED  BY <2>1, <2>2 DEF Basics
<1>2. Quiet'
  <2> SUFFICES ASSUME ~hasty
               PROVE  (Changed \/ Fetched \/ Queued \/ Replying \/ Serving)'
    BY DEF Quiet
  <2>1. /\ Answerable(Answers(Triggers(port, stat)))' <=>
              Answerable(Answers(Triggers(port, stat)))
        /\ \A s : Answerable(s)' <=> Answerable(s)
    BY SameAnswers
  <2>2. CASE Changed
    BY <2>1, <2>2 DEF Changed, MainFree
  <2>3. CASE Fetched
    BY <2>1, <2>3 DEF Fetched, MainFree
  <2>4. CASE Queued
    BY <2>1, <2>4 DEF Queued, MainFree
  <2>5. CASE Replying
    <3>1. Answerable(todo)' <=> Answerable(todo)
      BY <2>1
    <3>2. main = "call" => InOrder(Head(todo))'
      BY <2>5 DEF Replying, InOrder, Accepts
    <3> QED  BY <2>5, <3>1, <3>2 DEF Replying
  <2>6. CASE Serving
    BY <2>6 DEF Serving, WithDriver, WithBackground, InInbox, WithMain, Gone, Calm, MainFree,
       UrbWork
  <2> QED  BY <2>2, <2>3, <2>4, <2>5, <2>6 DEF Quiet
<1>3. (Exact /\ MovedTo /\ Agreed)'
  BY DEF Exact, MovedTo, Moved, UrbWork, Agreed, AdrAfter
<1> QED  BY <1>1, <1>2, <1>3

(* What another thread asks for while all is settled calls for no answer;  *)
(* at any other time the core is hasty from then on.                       *)
LEMMA OtherThreadKeeps ==
    ASSUME IInv, OtherThread
    PROVE  IInv'
<1> USE DEF IInv
<1>1. PICK p \in 0..2, q \in OtherRequests :
          /\ others < MaxOthers /\ others' = others + 1
          /\ IF p = 1 /\ Accepts(q)
             THEN /\ Request(q) /\ hasty' = (hasty \/ ~Settled(Idle))
                  /\ unplugged' = IF "C_CONNECTION" \in q.change THEN q = Disconnect
                                  ELSE unplugged
             ELSE UNCHANGED <<port, pending, urb, coreAdr, hasty, doubt, unplugged>>
          /\ UNCHANGED <<commands, devVars>>
  BY DEF OtherThread
<1>2. others' \in 0..MaxOthers /\ unplugged' \in BOOLEAN
  <2>1. others \in 0..MaxOthers /\ others < MaxOthers /\ others' = others + 1
    BY <1>1 DEF Basics, TypeOK
  <2>2. others' \in 0..MaxOthers
    BY <2>1, MaxOthersAssumption
  <2>3. unplugged' \in {unplugged, TRUE, FALSE}
    BY <1>1
  <2> QED  BY <2>2, <2>3 DEF Basics, TypeOK
<1>3. CASE ~(p = 1 /\ Accepts(q))
  BY <1>1, <1>2, <1>3, StutterKeeps
<1>4. CASE p = 1 /\ Accepts(q)
  <2>1. q \in PortRequests /\ Request(q) /\ hasty' = (hasty \/ ~Settled(Idle))
        /\ UNCHANGED <<commands, devVars>>
    BY <1>1, <1>4, OtherRequestsAssumption
  <2>2. pending' = TRUE /\ urb' = urb
    BY <2>1 DEF Request
  <2>3. Basics'
    <3>1. hasty' \in BOOLEAN
      BY <2>1 DEF Basics, TypeOK, HubTypeOK
    <3>2. HubTypeOK' /\ Connected' /\ Current' /\ UrbSound'
      BY <2>1, <3>1, RequestTyped
    <3>3. TypeOK'
      BY <1>2, <2>1, <3>2 DEF Basics, TypeOK
    <3>4. Control'
      BY <2>1 DEF Basics, Control, Ended
    <3> QED  BY <3>2, <3>3, <3>4 DEF Basics
  <2>4. ASSUME ~hasty'
        PROVE  /\ ~hasty /\ ~pending /\ urb = NoUrb /\ port.change = {}
               /\ bg = "fetch" /\ inbox = <<>> /\ main = "idle"
    BY <2>1, <2>4 DEF Settled, Handled, Idle
  <2>5. ASSUME ~hasty'
        PROVE  /\ Answers(Triggers(port, stat))' = <<>>
               /\ ~doubt' /\ coreAdr' # NoAdr => AdrAfter(port)' = coreAdr'
    BY <2>1, <2>4, <2>5, RequestSettles
  <2>6. Quiet'
    <3> SUFFICES ASSUME ~hasty' PROVE Changed'
      BY DEF Quiet
    <3> QED  BY <2>1, <2>2, <2>4, <2>5 DEF Changed, MainFree, Answerable
  <2>7. (Exact /\ MovedTo)'
    BY <2>2, <2>4 DEF Exact, MovedTo, Moved, NoUrb
  <2>8. Agreed'
    BY <2>2, <2>5 DEF Agreed
  <2> QED  BY <2>3, <2>6, <2>7, <2>8
<1> QED  BY <1>3, <1>4

LEMMA StepKeeps ==
    ASSUME IInv, [Next]_vars
    PROVE  IInv'
<1>1. CASE BgStep
  <2>1. UNCHANGED <<others, unplugged>>
    BY <1>1 DEF BgStep
  <2> QED  BY <1>1, <2>1, FetchStatKeeps, EnqueueStatKeeps, FetchUrbKeeps, FetchDataKeeps,
           RouteKeeps, FetchCancelKeeps, CancelKeeps DEF BgStep
<1>2. CASE MainStep
  <2>1. UNCHANGED <<others, unplugged>>
    BY <1>2 DEF MainStep
  <2> QED  BY <1>2, <2>1, NextWorkKeeps, NextWorkNoneKeeps, DecideKeeps, CallKeeps,
           CallThrowsKeeps, FinishKeeps DEF MainStep
<1>3. CASE CoreStep
  BY <1>3, CoreKeeps
<1>4. CASE OtherThread
  BY <1>4, OtherThreadKeeps
<1>5. CASE UNCHANGED vars
  <2>1. others' \in 0..MaxOthers /\ unplugged' \in BOOLEAN
    BY <1>5 DEF IInv, Basics, TypeOK
  <2> QED  BY <1>5, <2>1, StutterKeeps
<1>6. Waiting => UNCHANGED vars
  BY DEF Waiting
<1> QED  BY <1>1, <1>2, <1>3, <1>4, <1>5, <1>6 DEF Next

-----------------------------------------------------------------------------
(* The variables of the C++ example, of both threads, of the hub and of the*)
(* usb core keep their types, whatever the core and other threads do.      *)
THEOREM TypeCorrect == Spec => []TypeOK
<1>1. IInv => TypeOK
  BY DEF IInv, Basics
<1> QED  BY <1>1, InitHolds, StepKeeps, PTL DEF Spec

(* The address that bg_work keeps for the port (port_info::adr) is the one *)
(* the usb core uses whenever all is settled, unless the core was hasty or *)
(* has given up a SET_ADDRESS since the last reset.                        *)
THEOREM AddressesAgree == Spec => []AddressAgreed
<1>1. IInv => AddressAgreed
  <2> SUFFICES ASSUME IInv, Settled(Idle), ~hasty, ~doubt, coreAdr # NoAdr
               PROVE  adr = coreAdr
    BY DEF AddressAgreed
  <2> QED  BY KnownPort DEF IInv, Agreed, Settled, Moved, NoUrb
<1> QED  BY <1>1, InitHolds, StepKeeps, PTL DEF Spec

(* No exception of the library ends the example, however late its main     *)
(* thread answers a report, unless the core was hasty (main of             *)
(* virtual_device.cpp, which catches none).                                *)
THEOREM RefusedIfHasty == Spec => []RefusedOnlyIfHasty
<1>1. IInv => RefusedOnlyIfHasty
  BY DEF IInv, Basics, Control, RefusedOnlyIfHasty
<1> QED  BY <1>1, InitHolds, StepKeeps, PTL DEF Spec
=============================================================================
