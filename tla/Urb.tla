-------------------------------- MODULE Urb --------------------------------
(***************************************************************************)
(* USB request blocks as the kernel hands them to user space, and what     *)
(* usb_vhci_fetch_work_timeout and class usb::urb make of them.  The data  *)
(* themselves are left out: a request keeps the fields the library decides *)
(* by.                                                                     *)
(***************************************************************************)
EXTENDS Integers

UrbTypes == {"ISO", "INT", "CONTROL", "BULK"}

MaxByte    == 255
MaxWord    == 65535
MaxAddress == 127

Byte      == 0..MaxByte
Word      == 0..MaxWord
Addresses == 0..MaxAddress

(* A request as struct usb_vhci_ioc_work carries it.  The kernel fills the *)
(* set-up packet (rt, r, val) and the packet count of every request,       *)
(* whatever its type; "OTHER" stands for a type code the library does not  *)
(* know.                                                                   *)
KernelUrbs ==
    [type   : UrbTypes \cup {"OTHER"},
     epadr  : Byte,      \* endpoint address, bit 7 is the direction
     devadr : Addresses,
     rt     : Byte,      \* bmRequestType
     r      : Byte,      \* bRequest
     val    : Word,    \* wValue
     len    : Nat,         \* buffer_length
     pkts   : Nat]         \* packet_count

KnownType(k) == k.type \in UrbTypes

(* The switch of usb_vhci_fetch_work_timeout: the user-space urb is zeroed *)
(* and gets the fields of its own type only.                               *)
FromKernel(k) ==
    [k EXCEPT !.pkts = IF k.type = "ISO" THEN @ ELSE 0,
              !.rt   = IF k.type = "CONTROL" THEN @ ELSE 0,
              !.r    = IF k.type = "CONTROL" THEN @ ELSE 0,
              !.val  = IF k.type = "CONTROL" THEN @ ELSE 0]

IsIn(u) == u.epadr >= 128

\* Mutation: the directions are swapped.
BufferActualIn(u) == IF IsIn(u) THEN u.len ELSE 0

(* buffer_actual of a freshly fetched urb. *)
BufferActual(u) == IF ~IsIn(u) \/ u.type = "ISO" THEN u.len ELSE 0

(* The return value of usb_vhci_fetch_work_timeout: the contents of the    *)
(* buffer or the iso packets are still to be read with usb_vhci_fetch_data.*)
NeedsData(u) == BufferActual(u) # 0 \/ u.pkts # 0

(* urb::_chk throws on an isochronous urb with packets and no buffer.      *)
Rejected(u) == u.type = "ISO" /\ u.pkts # 0 /\ u.len = 0

(* urb::get_endpoint_number: epadr & 0x07. *)
EndpointNumber(u) == u.epadr % 8

(* The test by which bg_work recognises a SET_ADDRESS request. *)
IsSetAddress(u) ==
    u.type = "CONTROL" /\ EndpointNumber(u) = 0 /\ u.rt = 0 /\ u.r = 5
=============================================================================
