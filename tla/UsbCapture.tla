----------------------------- MODULE UsbCapture -----------------------------
(***************************************************************************)
(* One capture read by the four analysers of its USB records.  They are    *)
(* separate programs that share nothing but the file; reading them side by *)
(* side, record by record, makes every prefix of every capture a state, in *)
(* which their numbers can be compared with the records themselves and     *)
(* with one another.                                                       *)
(***************************************************************************)
EXTENDS UrbHealth, EchoContexts, UrbTimeline, GsFrames, FiniteSetsExt

CONSTANTS Records,    \* records the capture may contain
          Steps,      \* ticks that may pass between two of them
          MaxRecords  \* bound on the length of the capture
ASSUME CaptureAssumption ==
  Records \subseteq RecordType /\ Steps \subseteq Nat /\ MaxRecords \in Nat

VARIABLES capture \* the records read so far, each with its time
vars == <<urbVars, echoVars, timelineVars, gsVars, capture>>

Init == UrbInit /\ EchoInit /\ TimelineInit /\ GsInit /\ capture = <<>>

Now == IF capture = <<>> THEN 0 ELSE capture[Len(capture)].time

(* The next record, at time t.  Its frame number is its place.             *)
Record(r, t) ==
  /\ Len(capture) < MaxRecords
  /\ UrbRow(r, t, Len(capture) + 1)
  /\ EchoRow(r)
  /\ TimelineRow(r, t)
  /\ GsRow(r, t)
  /\ capture' = Append(capture, [time |-> t, rec |-> r])

(* The frames of its payload, one by one in each of the two decoders.      *)
EchoDecodes == EchoFrame /\ UNCHANGED <<urbVars, timelineVars, gsVars, capture>>
GsDecodes == rest = <<>> /\ GsFrame /\ UNCHANGED <<urbVars, echoVars, timelineVars, capture>>

Next == \/ \E r \in Records, step \in Steps : Record(r, Now + step)
        \/ EchoDecodes
        \/ GsDecodes

Spec == Init /\ [][Next]_vars

-----------------------------------------------------------------------------
(* The capture itself, as a reader of it would speak of it.                *)
Is(j, k) == Key(capture[j].rec) = k
Submit(j) == capture[j].rec.type = "S"
Good(j) == ~Submit(j) /\ capture[j].rec.status = 0
Bad(j) == ~Submit(j) /\ capture[j].rec.status # 0
SameUrb(i, j) == Key(capture[i].rec) = Key(capture[j].rec) /\ capture[i].rec.urb = capture[j].rec.urb

(* The first of the records after j that submit j's URB again, or None.    *)
Resubmission(j) ==
  LET later == {m \in DOMAIN capture : m > j /\ Submit(m) /\ SameUrb(j, m)}
  IN  IF later = {} THEN None ELSE CHOOSE m \in later : \A other \in later : m <= other

Decoded == rest = <<>> /\ gsrest = <<>>
-----------------------------------------------------------------------------
(* Type invariant.                                                         *)
UrbStatsType ==
  [records : Nat, submits : Nat, completes : Nat, failed : Nat,
   lengths : SUBSET Nat, pending : SUBSET Urbs, max_pending : Nat, orphans : Nat,
   last : Int, last_error : Int, ok_after_error : Nat]
EchoStatsType ==
  [in_records : Nat, tx_requests : Nat, echoes : Nat, device_rx : Nat,
   orphans : Nat, duplicates : Nat, matched : Nat,
   outstanding : SUBSET Contexts, max_outstanding : Nat,
   by_channel : [Channels -> Int]]
RowType == [dev : Devices, ep : Endpoints, type : {"S", "C", "E"}, status : Int]
TypeOK ==
  /\ urb \in [Keys -> UrbStatsType]
  /\ echo \in [Devices -> EchoStatsType]
  /\ rest \in Seq(FrameType)
  /\ rest # <<>> => row \in RowType

(* An endpoint's pending set is the URBs whose latest record there is a    *)
(* submit, and its orphans are the completions that no submit preceded:    *)
(* streaming over reused URB identifiers loses and invents none            *)
(* (analyze_usbcan_urb.py:147-160).                                        *)
PendingIsReal ==
  \A k \in Keys :
    LET mine == {j \in DOMAIN capture : Is(j, k)}
        latest(j, S) == j \in S /\ \A m \in S : SameUrb(m, j) => m <= j
    IN  /\ urb[k].pending =
             {capture[j].rec.urb : j \in {m \in mine : Submit(m) /\ latest(m, mine)}}
        /\ urb[k].orphans =
             Cardinality({j \in mine : /\ ~Submit(j)
                                       /\ ~\E m \in mine : /\ m < j /\ Submit(m) /\ SameUrb(m, j)
                                                           /\ latest(m, {x \in mine : x < j})})

(* The error list is the failed completions in their order, each with the  *)
(* first later submit of the same URB on the same endpoint; so the report  *)
(* that says the traffic recovered from every error is right, and the      *)
(* completions it counts after the last error are those after it           *)
(* (analyze_usbcan_urb.py:140-184, compare_usbcan_captures.py:87-93).      *)
ErrorsTold ==
  /\ {errors[j].frame : j \in DOMAIN errors} = {j \in DOMAIN capture : Bad(j)}
  /\ \A i, j \in DOMAIN errors : i < j => errors[i].frame < errors[j].frame
  /\ \A j \in DOMAIN errors :
       /\ errors[j].resubmit = Resubmission(errors[j].frame)
       /\ errors[j].resubmit # None => errors[j].delay = capture[errors[j].resubmit].time - errors[j].time
  /\ \A j \in DOMAIN Windows(Len(errors), 1, 2) :
       LET window == Windows(Len(errors), 1, 2)[j]
           shown == {m \in DOMAIN capture : window.start <= capture[m].time /\ capture[m].time <= window.end}
       IN  {window.frame} \cup (IF errors[j].resubmit # None /\ errors[j].delay <= 2
                                THEN {errors[j].resubmit} ELSE {}) \subseteq shown
  /\ \A k \in UrbTarget :
       LET bad == {j \in DOMAIN capture : Is(j, k) /\ Bad(j)}
       IN  /\ "recovered" \in AfterClaims(k) =>
                /\ \A j \in bad : Resubmission(j) # None
                /\ urb[k].ok_after_error =
                     Cardinality({j \in DOMAIN capture : /\ Is(j, k) /\ Good(j)
                                                         /\ \A m \in bad : m < j})
           /\ "none submitted again" \in BeforeClaims(k) =>
                bad # {} /\ \A j \in bad : Resubmission(j) = None

(* Every request is outstanding, repeated or answered, every echo answers  *)
(* a request or is an orphan, and each channel's count is the number of    *)
(* its contexts, whatever ids are reused, lost or echoed twice             *)
(* (analyze_usbcan_echo.py:104-139).                                       *)
Conserved(s) ==
  /\ s.tx_requests = Cardinality(s.outstanding) + s.duplicates + s.matched
  /\ s.echoes = s.orphans + s.matched
  /\ \A c \in Channels : s.by_channel[c] = Cardinality({x \in s.outstanding : x[1] = c})
EchoConservation == \A d \in Devices : Conserved(echo[d])

(* The contexts open at the end are those whose last frame was a request,  *)
(* so an adapter that leaks contexts is told from one that echoes late.    *)
Asks(j, x) == LET r == capture[j].rec
              IN  ~In(r.ep) /\ r.type = "S" /\ \E f \in 1..Len(HostFrames(r.payload)) :
                    <<r.payload[f].ch, r.payload[f].echo>> = x
Answers(j, x) == LET r == capture[j].rec
                 IN  In(r.ep) /\ r.type # "S" /\ r.status = 0 /\ \E f \in 1..Len(HostFrames(r.payload)) :
                       <<r.payload[f].ch, r.payload[f].echo>> = x
OutstandingIsReal ==
  rest = <<>> =>
    \A d \in Devices :
      echo[d].outstanding =
        {x \in Contexts : \E j \in DOMAIN capture :
           /\ capture[j].rec.dev = d /\ Asks(j, x)
           /\ \A m \in DOMAIN capture : m > j /\ capture[m].rec.dev = d => ~Answers(m, x)}

(* The longest gap of an endpoint is the longest time between neighbouring *)
(* good completions, failures and submits in between notwithstanding; it   *)
(* has a bucket for each interval in which it has a record, and each row,  *)
(* like its totals, counts the records of its own ticks and no other       *)
(* (analyze_usbcan_timeline.py:89-119).                                    *)
Tally(S) == [records |-> Cardinality(S),
             submits |-> Cardinality({j \in S : Submit(j)}),
             ok |-> Cardinality({j \in S : Good(j)}),
             failed |-> Cardinality({j \in S : Bad(j)})]
GapIsReal ==
  \A k \in Keys :
    LET mine == {j \in DOMAIN capture : Is(j, k)}
        good == {j \in mine : Good(j)}
        next(j) == CHOOSE m \in good : m > j /\ \A x \in good : x > j => m <= x
        gaps == {capture[next(j)].time - capture[j].time : j \in {g \in good : \E m \in good : m > g}}
        slot(j) == capture[j].time \div interval
    IN  /\ \A g \in gaps : g <= line[k].max_gap
        /\ line[k].max_gap \in gaps \cup {0}
        /\ DOMAIN bucket[k] = {slot(j) : j \in mine}
        /\ \A b \in DOMAIN bucket[k] : bucket[k][b] = Tally({j \in mine : slot(j) = b})
        /\ \A field \in DOMAIN NewBucket : line[k][field] = Tally(mine)[field]

(* Unless two IN endpoints are equally busy, the comparison and the        *)
(* timeline speak of the same endpoint, and so of the same numbers, and    *)
(* the echo report of the device it belongs to                             *)
(* (analyze_usbcan_urb.py:234, _timeline.py:126, _echo.py:148).            *)
Busiest == {k \in Keys : /\ In(k[2]) /\ urb[k].records > 0
                         /\ \A other \in Keys : In(other[2]) => urb[other].records <= urb[k].records}
SameNumbers(k) ==
  /\ line[k].records = urb[k].records /\ line[k].submits = urb[k].submits
  /\ line[k].ok + line[k].failed = urb[k].completes
  /\ line[k].failed = urb[k].failed
SameEverywhere == \A k \in Keys : SameNumbers(k)
TargetsAgree ==
  /\ Cardinality(Busiest) <= 1 => UrbTarget = TimelineTarget
  /\ (Cardinality(Busiest) = 1 /\ Cardinality({e \in Endpoints : In(e)}) = 1) =>
       EchoTarget([j \in DOMAIN seen |-> seen[j][1]]) = {k[1] : k \in Busiest}
  /\ SameEverywhere

(* On a capture whose payloads are requests and good completions with      *)
(* possible DLCs, the two frame decoders count the same frames.            *)
Plain(r) ==
  /\ r.payload # <<>> => (IF In(r.ep) THEN r.type # "S" /\ r.status = 0 ELSE r.type = "S")
  /\ \A f \in DOMAIN r.payload : r.payload[f].dlc <= 15 /\ (In(r.ep) \/ r.payload[f].echo # RX_ECHO_ID)
FramesAgree ==
  (Decoded /\ \A j \in DOMAIN capture : Plain(capture[j].rec)) =>
    /\ gs.tx = MapThenSumSet(LAMBDA d : echo[d].tx_requests, Devices)
    /\ gs.rx = MapThenSumSet(LAMBDA d : echo[d].device_rx + echo[d].echoes, Devices)
    /\ gs.frames = MapThenSumSet(LAMBDA c : gs.channels[c], Channels)

(* Each of the two counts every frame its own rule reads of a record, and  *)
(* none twice: of the whole capture, of a channel, and of a device by what *)
(* the frame was (analyze_ethercan_pcap.py:80-110, 248-286,                *)
(* analyze_usbcan_echo.py:88-139).  A spot is a record and a frame in it.  *)
HostSpots == UNION {{j} \X (1..Len(HostFrames(capture[j].rec.payload))) : j \in DOMAIN capture}
GsSpots == UNION {{j} \X (1..Len(GsDecode(capture[j].rec.payload))) : j \in DOMAIN capture}
Carrier(s) == capture[s[1]].rec
Spotted(s) == capture[s[1]].rec.payload[s[2]]
Outward(S) == {s \in S : ~In(Carrier(s).ep)}
Inward(S) == {s \in S : In(Carrier(s).ep)}
OnChannel(S, c) == {s \in S : Spotted(s).ch = c}
Requests(S, d) == {s \in Outward(S) : /\ Carrier(s).dev = d /\ Carrier(s).type = "S"
                                      /\ Spotted(s).echo # RX_ECHO_ID}
Heard(S, d) == {s \in Inward(S) : /\ Carrier(s).dev = d /\ Carrier(s).type # "S"
                                  /\ Carrier(s).status = 0}
Echoed(S, d) == {s \in Heard(S, d) : Spotted(s).echo # RX_ECHO_ID}
FramesTold == Decoded =>
  /\ gs.frames = Cardinality(GsSpots)
  /\ gs.tx = Cardinality(Outward(GsSpots)) /\ gs.rx = Cardinality(Inward(GsSpots))
  /\ \A c \in Channels : gs.channels[c] = Cardinality(OnChannel(GsSpots, c))
  /\ \A d \in Devices :
       /\ echo[d].tx_requests = Cardinality(Requests(HostSpots, d))
       /\ echo[d].echoes = Cardinality(Echoed(HostSpots, d))
       /\ echo[d].device_rx = Cardinality(Heard(HostSpots, d) \ Echoed(HostSpots, d))

(* However tcpdump cut the capture into the files of its ring, and wherever*)
(* the ring's names had wrapped, the files are read in the order they were *)
(* written, if no two of them start at the same tick                       *)
(* (analyze_ethercan_pcap.py:178-195).                                     *)
RingSlots == 3
RingFiles(cuts, first) ==
  LET place(c) == Cardinality({b \in cuts : b <= c})
  IN  {[slot |-> (first + place(c)) % RingSlots,
        start |-> IF c > Len(capture) THEN None ELSE capture[c].time,
        written |-> place(c)] : c \in cuts}
RingInOrder == Decoded =>
  \A cuts \in SUBSET (1..Len(capture) + 1), first \in 0..RingSlots - 1 :
    LET files == RingFiles(cuts, first)
        distinct == \A a, b \in files : a # b => a.start # b.start
        order == ResolveCapturePaths(files)
    IN  (Cardinality(cuts) \in 1..RingSlots /\ distinct) =>
          \A j \in DOMAIN order : order[j].written = j
=============================================================================
