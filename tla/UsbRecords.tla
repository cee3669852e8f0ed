----------------------------- MODULE UsbRecords -----------------------------
(***************************************************************************)
(* The usbmon records the capture analysers read.  A record is             *)
(*   [dev, ep, type, urb, status, len, payload]                            *)
(* with type "S" (submit), "C" (completion) or "E" (submission error), and *)
(* a payload of gs_usb host frames [ch, echo, dlc, fits].  A row to which  *)
(* tshark gave a needed field empty is dropped by every analyser before    *)
(* anything is counted, and is no record here.                             *)
(***************************************************************************)
EXTENDS Integers, Sequences, FiniteSets

CONSTANTS Devices,   \* (bus, device address) pairs, numbered in their order
          Endpoints, \* endpoint addresses; bit 7 set means IN
          Urbs,      \* URB identifiers: kernel addresses, used again and again
          Channels,  \* CAN channels of the adapter
          EchoIds    \* echo ids the host gives its requests

ASSUME RecordsAssumption ==
  /\ Devices \subseteq Nat /\ Endpoints \subseteq 0..255
  /\ EchoIds \subseteq Nat
  /\ IsFiniteSet(Urbs) /\ IsFiniteSet(Channels) /\ IsFiniteSet(EchoIds)

Keys == Devices \X Endpoints
Key(r) == <<r.dev, r.ep>>
In(ep) == ep >= 128

(* The echo id of a frame that was received from the bus: 0xFFFFFFFF.      *)
RX_ECHO_ID == -1

(* Python's None for a timestamp or a frame number.                        *)
None == -1

FrameType == [ch : Channels, echo : EchoIds \cup {RX_ECHO_ID}, dlc : Nat, fits : BOOLEAN]
RecordType ==
  [dev : Devices, ep : Endpoints, type : {"S", "C", "E"}, urb : Urbs,
   status : Int, len : Nat, payload : Seq(FrameType)]

Larger(a, b) == IF a < b THEN b ELSE a

(* The elements of a payload before the first that stops the decoder, when *)
(* stops are the places of those that do.                                  *)
FramesUntil(payload, stops) ==
  SubSeq(payload, 1, Cardinality({k \in DOMAIN payload : (1..k) \cap stops = {}}))
=============================================================================
