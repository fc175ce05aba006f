------------------------------ MODULE UrbStatus ------------------------------
(***************************************************************************)
(* The answer to one urb: what a user sets in the urb object of a work,    *)
(* set_iso_results, and what usb_vhci_giveback makes of it for the kernel. *)
(* Status codes and errno values are names.                                *)
(***************************************************************************)
EXTENDS Integers, FiniteSets

CONSTANTS
    MaxPackets,     \* bound: packets of an isochronous urb
    MaxLength,      \* bound: length of the buffer
    Values          \* the values users set as a status

ASSUME BoundsAssumption == MaxPackets \in Nat /\ MaxLength \in Nat
ASSUME ValuesAssumption == Values \subseteq STRING

VARIABLES
    iso, in, length,        \* the urb: type, direction, buffer_length
    packets,                \* status of each packet
    errors, status, actual, \* error_count, status, buffer_actual
    settled,                \* history: set_iso_results was the last change
    gb                      \* what the ioctl got: struct usb_vhci_ioc_giveback

urbVars == <<iso, in, length>>
vars == <<urbVars, packets, errors, status, actual, settled, gb>>

(* The status codes with an errno of their own.                            *)
Errno == [SUCCESS             |-> "0",
          PENDING             |-> "EINPROGRESS",
          SHORT_PACKET        |-> "EREMOTEIO",
          CANCELED            |-> "ECONNRESET",
          TIMEDOUT            |-> "ETIMEDOUT",
          DEVICE_DISABLED     |-> "ESHUTDOWN",
          DEVICE_DISCONNECTED |-> "ENODEV",
          BIT_STUFF           |-> "EPROTO",
          CRC                 |-> "EILSEQ",
          NO_RESPONSE         |-> "ETIME",
          BABBLE              |-> "EOVERFLOW",
          STALL               |-> "EPIPE",
          BUFFER_OVERRUN      |-> "ECOMM",
          BUFFER_UNDERRUN     |-> "ENOSR"]

IsoErrno == [ERROR |-> "EXDEV", ALL_ISO_PACKETS_FAILED |-> "EINVAL"]

Statuses == DOMAIN Errno \cup DOMAIN IsoErrno

\* Mutations: iso_urb is not looked at; an unknown status is a success.
ToErrnoAlwaysIso(s, isIso) ==
    IF s \in DOMAIN IsoErrno THEN IsoErrno[s]
    ELSE IF s \in DOMAIN Errno THEN Errno[s] ELSE "EPROTO"
ToErrnoLenient(s, isIso) ==
    IF isIso /\ s \in DOMAIN IsoErrno THEN IsoErrno[s]
    ELSE IF s \in DOMAIN Errno THEN Errno[s] ELSE "0"

(* usb_vhci_to_errno; whatever else a status is becomes EPROTO.            *)
ToErrno(s, isIso) ==
    IF isIso /\ s \in DOMAIN IsoErrno THEN IsoErrno[s]
    ELSE IF s \in DOMAIN Errno THEN Errno[s] ELSE "EPROTO"

(* usb_vhci_from_errno.                                                    *)
FromErrno(e, isIso) ==
    IF isIso /\ e = "EINVAL" THEN "ALL_ISO_PACKETS_FAILED"
    ELSE IF e = "ENOENT" THEN "CANCELED"
    ELSE IF \E s \in DOMAIN Errno : Errno[s] = e
         THEN CHOOSE s \in DOMAIN Errno : Errno[s] = e
    ELSE "ERROR"

NoGiveback == [done |-> FALSE]

TypeOK ==
    /\ iso \in BOOLEAN /\ in \in BOOLEAN /\ length \in 0..MaxLength
    /\ \E n \in 0..MaxPackets : packets \in [1..n -> Values \cup {"PENDING"}]
    /\ errors \in 0..MaxPackets
    /\ status \in Values \cup Statuses
    /\ actual \in 0..MaxLength
    /\ settled \in BOOLEAN

(* An urb as bg_work queues it: only an isochronous one has packets, and   *)
(* only if it has a buffer, or the constructor would have thrown.          *)
Init ==
    /\ iso \in BOOLEAN /\ in \in BOOLEAN /\ length \in 0..MaxLength
    /\ \E n \in 0..MaxPackets :
          /\ n = 0 \/ (iso /\ length > 0)
          /\ packets = [i \in 1..n |-> "PENDING"]
    /\ errors = 0 /\ status = "PENDING"
    /\ actual = IF iso \/ ~in THEN length ELSE 0
    /\ settled = FALSE /\ gb = NoGiveback

-----------------------------------------------------------------------------
SetStatus(s) ==
    /\ ~gb.done
    /\ status' = s /\ settled' = FALSE
    /\ UNCHANGED <<urbVars, packets, errors, actual, gb>>

SetIsoStatus(i, s) ==
    /\ ~gb.done
    /\ packets' = [packets EXCEPT ![i] = s] /\ settled' = FALSE
    /\ UNCHANGED <<urbVars, errors, status, actual, gb>>

SetBufferActual(n) ==
    /\ ~gb.done
    /\ actual' = n /\ settled' = FALSE
    /\ UNCHANGED <<urbVars, packets, errors, status, gb>>

(* set_iso_error_count.                                                    *)
SetErrorCount(n) ==
    /\ ~gb.done
    /\ errors' = n /\ settled' = FALSE
    /\ UNCHANGED <<urbVars, packets, status, actual, gb>>

\* Mutations: only stalls count as errors; the loop runs once too often.
FailedStall == {i \in DOMAIN packets : packets[i] = "STALL"}
FailedTooFar ==
    {i \in 1..(Cardinality(DOMAIN packets) + 1) :
        i \in DOMAIN packets => packets[i] # "SUCCESS"}

Failed == {i \in DOMAIN packets : packets[i] # "SUCCESS"}

ResultStatus(n) ==
    IF n = Cardinality(DOMAIN packets) THEN "ALL_ISO_PACKETS_FAILED"
    ELSE "SUCCESS"

(* set_iso_results; on another type of urb it throws, and changes nothing. *)
SetIsoResults ==
    /\ ~gb.done /\ iso
    /\ errors' = Cardinality(Failed)
    /\ status' = ResultStatus(Cardinality(Failed))
    /\ actual' = IF in THEN length ELSE actual
    /\ settled' = TRUE
    /\ UNCHANGED <<urbVars, packets, gb>>

(* usb_vhci_giveback, called by finish_work.                               *)
Giveback ==
    /\ ~gb.done
    /\ gb' = [done    |-> TRUE,
              status  |-> ToErrno(status, iso),
              actual  |-> actual,
              errors  |-> IF iso THEN errors ELSE 0,
              packets |-> [i \in DOMAIN packets |-> ToErrno(packets[i], FALSE)],
              data    |-> in /\ actual > 0]
    /\ UNCHANGED <<urbVars, packets, errors, status, actual, settled>>

Done == gb.done /\ UNCHANGED vars

Next ==
    \/ \E s \in Values : SetStatus(s)
    \/ \E i \in DOMAIN packets, s \in Values : SetIsoStatus(i, s)
    \/ \E n \in 0..length : SetBufferActual(n)
    \/ \E n \in 0..Cardinality(DOMAIN packets) : SetErrorCount(n)
    \/ SetIsoResults \/ Giveback \/ Done

Spec == Init /\ [][Next]_vars

-----------------------------------------------------------------------------
(* After set_iso_results the kernel gets one consistent answer: as many    *)
(* errors as there are packets with an errno, and EINVAL for the urb if and*)
(* only if no packet succeeded, although the packets and the urb go through*)
(* different conversions.                                                  *)
IsoAnswer ==
    gb.done /\ settled =>
        /\ gb.errors = Cardinality({i \in DOMAIN gb.packets : gb.packets[i] # "0"})
        /\ gb.status = "EINVAL" <=> \A i \in DOMAIN gb.packets : gb.packets[i] # "0"
        /\ gb.status \in {"0", "EINVAL"}

(* No failure is passed to the kernel as a success, and no success as a    *)
(* failure, whatever value the user sets.                                  *)
FailureKept ==
    gb.done =>
        /\ gb.status = "0" <=> status = "SUCCESS"
        /\ \A i \in DOMAIN packets : gb.packets[i] = "0" <=> packets[i] = "SUCCESS"

(* What only an isochronous urb can have, EXDEV and EINVAL, is never the   *)
(* result of another urb or of a packet.                                   *)
IsoOnly ==
    gb.done =>
        /\ ~iso => gb.status \notin {"EXDEV", "EINVAL"}
        /\ \A i \in DOMAIN packets : gb.packets[i] \notin {"EXDEV", "EINVAL"}

(* Reading a result back gives the status the user set, but for the codes  *)
(* that share an errno with another: an error, or the failure of all       *)
(* packets, of anything but an isochronous urb reads as a bit stuff error. *)
ReadsBack ==
    gb.done /\ status \in Statuses =>
        \/ FromErrno(gb.status, iso) = status
        \/ ~iso /\ status \in DOMAIN IsoErrno /\ FromErrno(gb.status, iso) = "BIT_STUFF"
=============================================================================
