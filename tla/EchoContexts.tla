---------------------------- MODULE EchoContexts ----------------------------
(***************************************************************************)
(* analyze_usbcan_echo.py: the frames inside the bulk payloads, request by *)
(* request.  A TX request (OUT submit) opens a context for its channel and *)
(* echo id; the frame the device echoes (good IN completion) closes it.    *)
(***************************************************************************)
EXTENDS UsbRecords

Contexts == Channels \X EchoIds

VARIABLES echo,  \* device -> statistics (new_device)
          row,   \* the record being decoded
          rest   \* its host frames not yet looked at

echoVars == <<echo, row, rest>>

NewDevice ==
  [in_records |-> 0, tx_requests |-> 0, echoes |-> 0, device_rx |-> 0,
   orphans |-> 0, duplicates |-> 0, matched |-> 0,
   outstanding |-> {}, max_outstanding |-> 0,
   by_channel |-> [c \in Channels |-> 0]]

NoRow == [dev |-> 0, ep |-> 0, type |-> "none", status |-> 0]

EchoInit == /\ echo = [d \in Devices |-> NewDevice]
            /\ row = NoRow
            /\ rest = <<>>

-----------------------------------------------------------------------------
(* host_frames walks the payload frame by frame and stops at the first one *)
(* that does not fit.                                                      *)
HostFrames(payload) == FramesUntil(payload, {j \in DOMAIN payload : ~payload[j].fits})

(* A record: an IN record is counted, and its payload decoded.             *)
EchoRow(r) ==
  /\ rest = <<>>
  /\ echo' = [echo EXCEPT ![r.dev].in_records = IF In(r.ep) THEN @ + 1 ELSE @]
  /\ row' = [dev |-> r.dev, ep |-> r.ep, type |-> r.type, status |-> r.status]
  /\ rest' = HostFrames(r.payload)

(* A device frame: the context it names is closed, or it is an orphan.     *)
EchoFrom(s, f) ==
  LET c == <<f.ch, f.echo>>
  IN  IF f.echo = RX_ECHO_ID THEN [s EXCEPT !.device_rx = @ + 1]
      ELSE IF c \in s.outstanding
      THEN [s EXCEPT !.echoes = @ + 1, !.matched = @ + 1,
                     !.outstanding = @ \ {c}, !.by_channel[f.ch] = @ - 1]
      ELSE [s EXCEPT !.echoes = @ + 1, !.orphans = @ + 1]

(* Mutant: the channel's count goes up for a repeated request too.         *)
RequestCountedTwice(s, f) ==
  LET c == <<f.ch, f.echo>>
  IN  [s EXCEPT !.tx_requests = @ + 1,
                !.duplicates = IF c \in s.outstanding THEN @ + 1 ELSE @,
                !.by_channel[f.ch] = @ + 1,
                !.outstanding = @ \cup {c},
                !.max_outstanding = LET now == Cardinality(s.outstanding \cup {c})
                                    IN  IF @ < now THEN now ELSE @]

(* A host frame: a context is opened, or was open already.                 *)
RequestFrom(s, f) ==
  LET c == <<f.ch, f.echo>>
  IN  [s EXCEPT !.tx_requests = @ + 1,
                !.duplicates = IF c \in s.outstanding THEN @ + 1 ELSE @,
                !.by_channel[f.ch] = IF c \in s.outstanding THEN @ ELSE @ + 1,
                !.outstanding = @ \cup {c},
                !.max_outstanding = LET now == Cardinality(s.outstanding \cup {c})
                                    IN  IF @ < now THEN now ELSE @]

(* The frames that count: those of good IN completions, and the requests   *)
(* of OUT submits.                                                         *)
Counts(r, f) ==
  IF In(r.ep) THEN r.type \in {"C", "E"} /\ r.status = 0
  ELSE r.type = "S" /\ f.echo # RX_ECHO_ID

EchoFrame ==
  /\ rest # <<>>
  /\ rest' = Tail(rest)
  /\ echo' = IF Counts(row, Head(rest))
             THEN [echo EXCEPT ![row.dev] =
                     IF In(row.ep) THEN EchoFrom(@, Head(rest)) ELSE RequestFrom(@, Head(rest))]
             ELSE echo
  /\ UNCHANGED row

-----------------------------------------------------------------------------
(* The target of the report: the device with the most IN records, the one  *)
(* seen first when there are several; order lists them as seen.            *)
EchoTarget(order) ==
  LET top == {j \in DOMAIN order :
                \A other \in DOMAIN order :
                  echo[order[other]].in_records <= echo[order[j]].in_records}
  IN  {order[j] : j \in {m \in top : \A other \in top : m <= other}}
=============================================================================
