-------------------------- MODULE UrbStatusProofs --------------------------
(***************************************************************************)
(* Proofs about the answer to an urb, for any number of packets, any length*)
(* of the buffer and any value a user may set as a status.                 *)
(***************************************************************************)
EXTENDS UrbStatus, FiniteSetTheorems, TLAPS

(* What the kernel has got is what the urb still says, since nothing is set*)
(* after the giveback; and after set_iso_results the error count and the   *)
(* status are those of the packets.                                        *)
Given ==
    /\ gb.done \in BOOLEAN
    /\ gb.done =>
          /\ gb.status = ToErrno(status, iso)
          /\ gb.errors = IF iso THEN errors ELSE 0
          /\ gb.packets = [i \in DOMAIN packets |-> ToErrno(packets[i], FALSE)]

Settled ==
    settled =>
        /\ iso
        /\ errors = Cardinality(Failed)
        /\ status = ResultStatus(Cardinality(Failed))

IInv == TypeOK /\ Given /\ Settled

-----------------------------------------------------------------------------
(* The conversions.                                                        *)

(* The conversion of a status is 0 for success and for nothing else.       *)
LEMMA ZeroIsSuccess ==
    ASSUME NEW s, NEW isIso \in BOOLEAN
    PROVE  ToErrno(s, isIso) = "0" <=> s = "SUCCESS"
  BY DEF ToErrno, Errno, IsoErrno

(* Only the type of the urb makes the conversion EXDEV or EINVAL.          *)
LEMMA NotIso ==
    ASSUME NEW s
    PROVE  ToErrno(s, FALSE) \notin {"EXDEV", "EINVAL"}
  BY DEF ToErrno, Errno

(* No two codes share an errno of their own, and none has the EPROTO or the*)
(* EINVAL of another by accident.                                          *)
LEMMA ErrnoInjective ==
    ASSUME NEW s \in DOMAIN Errno, NEW t \in DOMAIN Errno, Errno[s] = Errno[t]
    PROVE  s = t
  BY DEF Errno

LEMMA ErrnoReadsBack ==
    ASSUME NEW s \in DOMAIN Errno, NEW isIso \in BOOLEAN
    PROVE  FromErrno(Errno[s], isIso) = s
<1>1. Errno[s] \notin {"EINVAL", "ENOENT"}
  BY DEF Errno
<1>2. (CHOOSE t \in DOMAIN Errno : Errno[t] = Errno[s]) = s
  BY ErrnoInjective
<1> QED  BY <1>1, <1>2 DEF FromErrno

LEMMA IsoErrnoReadsBack ==
    /\ FromErrno("EXDEV", TRUE) = "ERROR"
    /\ FromErrno("EINVAL", TRUE) = "ALL_ISO_PACKETS_FAILED"
<1>1. \A s \in DOMAIN Errno : Errno[s] # "EXDEV"
  BY DEF Errno
<1> QED  BY <1>1 DEF FromErrno

(* Reading back the conversion of a status.                                *)
LEMMA StatusReadsBack ==
    ASSUME NEW s \in Statuses, NEW isIso \in BOOLEAN
    PROVE  \/ FromErrno(ToErrno(s, isIso), isIso) = s
           \/ /\ ~isIso /\ s \in DOMAIN IsoErrno
              /\ FromErrno(ToErrno(s, isIso), isIso) = "BIT_STUFF"
<1>1. DOMAIN Errno \cap DOMAIN IsoErrno = {}
  BY DEF Errno, IsoErrno
<1>2. CASE s \in DOMAIN Errno
  BY <1>1, <1>2, ErrnoReadsBack DEF ToErrno
<1>3. CASE s \in DOMAIN IsoErrno /\ isIso
  <2>1. /\ ToErrno(s, isIso) = IsoErrno[s]
        /\ \/ s = "ERROR" /\ IsoErrno[s] = "EXDEV"
           \/ s = "ALL_ISO_PACKETS_FAILED" /\ IsoErrno[s] = "EINVAL"
    BY <1>3 DEF ToErrno, IsoErrno
  <2> QED  BY <1>3, <2>1, IsoErrnoReadsBack
<1>4. CASE s \in DOMAIN IsoErrno /\ ~isIso
  <2>1. /\ ToErrno(s, isIso) = "EPROTO"
        /\ "BIT_STUFF" \in DOMAIN Errno /\ Errno["BIT_STUFF"] = "EPROTO"
    BY <1>1, <1>4 DEF ToErrno, Errno
  <2>2. FromErrno("EPROTO", isIso) = "BIT_STUFF"
    BY <2>1, ErrnoReadsBack
  <2> QED  BY <1>4, <2>1, <2>2
<1> QED  BY <1>2, <1>3, <1>4 DEF Statuses

-----------------------------------------------------------------------------
(* The packets.                                                            *)

LEMMA PacketCount ==
    ASSUME TypeOK
    PROVE  /\ IsFiniteSet(DOMAIN packets) /\ IsFiniteSet(Failed)
           /\ Cardinality(DOMAIN packets) \in 0..MaxPackets
           /\ Cardinality(Failed) \in 0..MaxPackets
           /\ Cardinality(Failed) = Cardinality(DOMAIN packets) <=> Failed = DOMAIN packets
<1>1. PICK n \in 0..MaxPackets : DOMAIN packets = 1..n
  BY DEF TypeOK
<1>2. IsFiniteSet(DOMAIN packets) /\ Cardinality(DOMAIN packets) = n
  BY <1>1, BoundsAssumption, FS_Interval
<1>3. Failed \subseteq DOMAIN packets
  BY DEF Failed
<1>4. /\ IsFiniteSet(Failed) /\ Cardinality(Failed) <= Cardinality(DOMAIN packets)
      /\ Cardinality(Failed) = Cardinality(DOMAIN packets) => Failed = DOMAIN packets
  BY <1>2, <1>3, FS_Subset
<1>5. Cardinality(Failed) \in Nat
  BY <1>4, FS_CardinalityType
<1> QED  BY <1>1, <1>2, <1>4, <1>5, BoundsAssumption

-----------------------------------------------------------------------------
(* The invariant.                                                          *)

LEMMA TypeStep ==
    ASSUME IInv, [Next]_vars
    PROVE  TypeOK'
<1> USE DEF IInv
<1>1. CASE UNCHANGED vars \/ Done \/ Giveback
  BY <1>1 DEF vars, urbVars, Done, Giveback, TypeOK
<1>2. ASSUME NEW s \in Values, SetStatus(s)
      PROVE  TypeOK'
  BY <1>2 DEF SetStatus, urbVars, TypeOK
<1>3. ASSUME NEW i \in DOMAIN packets, NEW s \in Values, SetIsoStatus(i, s)
      PROVE  TypeOK'
  <2>1. PICK n \in 0..MaxPackets : packets \in [1..n -> Values \cup {"PENDING"}]
    BY DEF TypeOK
  <2>2. packets' \in [1..n -> Values \cup {"PENDING"}]
    BY <1>3, <2>1 DEF SetIsoStatus
  <2> QED  BY <1>3, <2>2 DEF SetIsoStatus, urbVars, TypeOK
<1>4. ASSUME NEW n \in 0..length, SetBufferActual(n)
      PROVE  TypeOK'
  <2>1. n \in 0..MaxLength
    BY BoundsAssumption DEF TypeOK
  <2> QED  BY <1>4, <2>1 DEF SetBufferActual, urbVars, TypeOK
<1>5. ASSUME NEW n \in 0..Cardinality(DOMAIN packets), SetErrorCount(n)
      PROVE  TypeOK'
  <2>1. Cardinality(DOMAIN packets) \in 0..MaxPackets
    BY PacketCount
  <2>2. n \in 0..MaxPackets
    BY <2>1, BoundsAssumption
  <2> QED  BY <1>5, <2>2 DEF SetErrorCount, urbVars, TypeOK
<1>6. CASE SetIsoResults
  <2>1. errors' \in 0..MaxPackets
    BY <1>6, PacketCount DEF SetIsoResults
  <2>2. status' \in Statuses
    BY <1>6 DEF SetIsoResults, ResultStatus, Statuses, Errno, IsoErrno
  <2> QED  BY <1>6, <2>1, <2>2 DEF SetIsoResults, urbVars, TypeOK
<1> QED  BY <1>1, <1>2, <1>3, <1>4, <1>5, <1>6 DEF Next

LEMMA Keeps ==
    ASSUME IInv, [Next]_vars
    PROVE  Given' /\ Settled'
<1> USE DEF IInv
<1>1. CASE UNCHANGED vars \/ Done
  <2>1. UNCHANGED <<iso, packets, errors, status, settled, gb>>
    BY <1>1 DEF vars, urbVars, Done
  <2>2. Given'
    BY <2>1 DEF Given, ToErrno
  <2>3. Settled'
    BY <2>1 DEF Settled, Failed, ResultStatus
  <2> QED  BY <2>2, <2>3
<1>2. CASE Giveback
  <2>1. /\ gb'.done = TRUE /\ gb'.status = ToErrno(status, iso)
        /\ gb'.errors = (IF iso THEN errors ELSE 0)
        /\ gb'.packets = [i \in DOMAIN packets |-> ToErrno(packets[i], FALSE)]
    BY <1>2 DEF Giveback
  <2>2. UNCHANGED <<iso, packets, errors, status, settled>>
    BY <1>2 DEF Giveback, urbVars
  <2>3. ToErrno(status, iso)' = ToErrno(status, iso)
        /\ \A i : ToErrno(packets[i], FALSE)' = ToErrno(packets[i], FALSE)
    BY <2>2 DEF ToErrno
  <2>4. Given'
    BY <2>1, <2>2, <2>3 DEF Given
  <2>5. Settled'
    BY <2>2 DEF Settled, Failed, ResultStatus
  <2> QED  BY <2>4, <2>5
<1>3. CASE SetIsoResults
  BY <1>3 DEF SetIsoResults, urbVars, Given, Settled, Failed, ResultStatus
<1>4. CASE ~gb.done /\ gb' = gb /\ ~settled'
  BY <1>4 DEF Given, Settled
<1> QED
  BY <1>1, <1>2, <1>3, <1>4
  DEF Next, SetStatus, SetIsoStatus, SetBufferActual, SetErrorCount

LEMMA Invariant == Spec => []IInv
<1>1. Init => IInv
  <2> SUFFICES ASSUME Init
               PROVE  IInv
    OBVIOUS
  <2>1. PICK n \in 0..MaxPackets : packets = [i \in 1..n |-> "PENDING"]
    BY DEF Init
  <2>2. packets \in [1..n -> Values \cup {"PENDING"}]
    BY <2>1
  <2>3. status \in Statuses
    BY DEF Init, Statuses, Errno
  <2>4. errors \in 0..MaxPackets /\ actual \in 0..MaxLength
    BY BoundsAssumption DEF Init
  <2>5. TypeOK
    BY <2>2, <2>3, <2>4 DEF Init, TypeOK
  <2> QED  BY <2>5 DEF Init, IInv, NoGiveback, Given, Settled
<1>2. IInv /\ [Next]_vars => IInv'
  BY TypeStep, Keeps DEF IInv
<1> QED  BY <1>1, <1>2, PTL DEF Spec

-----------------------------------------------------------------------------
(* The fields of an urb keep their types: the error count and the length   *)
(* stay within the number of packets and the length of the buffer.         *)
THEOREM TypeCorrect == Spec => []TypeOK
<1>1. IInv => TypeOK
  BY DEF IInv
<1> QED  BY <1>1, Invariant, PTL

(* The kernel is told that an urb or a packet succeeded if and only if the *)
(* user said so, whatever else the user may have set.                      *)
THEOREM FailureNeverHidden == Spec => []FailureKept
<1>1. IInv => FailureKept
  BY ZeroIsSuccess DEF IInv, TypeOK, Given, FailureKept
<1> QED  BY <1>1, Invariant, PTL

(* No packet, and no urb that is not isochronous, gets an errno that only  *)
(* an isochronous urb may have.                                            *)
THEOREM IsoErrnoOnlyForIso == Spec => []IsoOnly
<1>1. IInv => IsoOnly
  BY NotIso DEF IInv, TypeOK, Given, IsoOnly
<1> QED  BY <1>1, Invariant, PTL

(* After set_iso_results the error count, the status of the urb and those  *)
(* of its packets agree in what the kernel gets, although they are counted *)
(* and converted in different places.                                      *)
THEOREM IsoAnswersAgree == Spec => []IsoAnswer
<1>1. ASSUME IInv, gb.done, settled
      PROVE  /\ gb.errors = Cardinality({i \in DOMAIN gb.packets : gb.packets[i] # "0"})
             /\ gb.status = "EINVAL" <=> \A i \in DOMAIN gb.packets : gb.packets[i] # "0"
             /\ gb.status \in {"0", "EINVAL"}
  <2>1. /\ gb.packets = [i \in DOMAIN packets |-> ToErrno(packets[i], FALSE)]
        /\ iso /\ gb.errors = Cardinality(Failed)
        /\ gb.status = ToErrno(ResultStatus(Cardinality(Failed)), TRUE)
    BY <1>1 DEF IInv, Given, Settled, TypeOK
  <2>2. \A i \in DOMAIN packets : gb.packets[i] # "0" <=> packets[i] # "SUCCESS"
    BY <2>1, ZeroIsSuccess
  <2>3. {i \in DOMAIN gb.packets : gb.packets[i] # "0"} = Failed
    BY <2>1, <2>2 DEF Failed
  <2>4. gb.status = IF Failed = DOMAIN packets THEN "EINVAL" ELSE "0"
    BY <1>1, <2>1, PacketCount DEF IInv, ResultStatus, ToErrno, Errno, IsoErrno
  <2>5. Failed = DOMAIN packets <=> \A i \in DOMAIN gb.packets : gb.packets[i] # "0"
    BY <2>1, <2>2 DEF Failed
  <2> QED  BY <2>1, <2>3, <2>4, <2>5
<1>2. IInv => IsoAnswer
  BY <1>1 DEF IsoAnswer
<1> QED  BY <1>2, Invariant, PTL

(* The kernel's errno, read back, is the status the user set, but for two  *)
(* codes that an urb of another type than isochronous cannot express.      *)
THEOREM ResultReadsBack == Spec => []ReadsBack
<1>1. IInv => ReadsBack
  BY StatusReadsBack DEF IInv, TypeOK, Given, ReadsBack
<1> QED  BY <1>1, Invariant, PTL
=============================================================================
