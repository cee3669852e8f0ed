------------------------------ MODULE GsFrames ------------------------------
(***************************************************************************)
(* analyze_ethercan_pcap.py, run without filters: every gs_usb host frame  *)
(* of the capture, whatever the stage and the status of the URB that       *)
(* carried it.                                                             *)
(***************************************************************************)
EXTENDS UsbRecords

VARIABLES gs,     \* the counters of analyse()
          gsrow,  \* where the frames being counted came from
          gsrest  \* the decoded frames of that record still to count

gsVars == <<gs, gsrow, gsrest>>

GsInit ==
  /\ gs = [frames |-> 0, tx |-> 0, rx |-> 0, channels |-> [c \in Channels |-> 0],
           first |-> None, last |-> None,
           gap_count |-> 0, gap_sum |-> 0, gap_max |-> None]
  /\ gsrow = [ep |-> 0, time |-> 0]
  /\ gsrest = <<>>

(* _frames_from_usb_payload stops at a frame that does not fit, and at a   *)
(* DLC above 15, which "cannot identify a reliable frame boundary".        *)
GsDecode(payload) == FramesUntil(payload, {j \in DOMAIN payload : ~payload[j].fits \/ payload[j].dlc > 15})

GsRow(r, t) ==
  /\ gsrest = <<>>
  /\ gsrow' = [ep |-> r.ep, time |-> t]
  /\ gsrest' = GsDecode(r.payload)
  /\ UNCHANGED gs

(* The gap to the frame before enters the statistics unless it is negative.*)
WithGap(s, t) ==
  LET gap == t - s.last
  IN  IF s.first = None THEN [s EXCEPT !.first = t, !.last = t]
      ELSE IF gap < 0 THEN [s EXCEPT !.last = t]
      ELSE [s EXCEPT !.last = t, !.gap_count = @ + 1, !.gap_sum = @ + gap,
                     !.gap_max = Larger(@, gap)]

GsFrame ==
  /\ gsrest # <<>>
  /\ gs' = WithGap([gs EXCEPT !.frames = @ + 1,
                              !.rx = IF In(gsrow.ep) THEN @ + 1 ELSE @,
                              !.tx = IF In(gsrow.ep) THEN @ ELSE @ + 1,
                              !.channels[Head(gsrest).ch] = @ + 1],
                   gsrow.time)
  /\ gsrest' = Tail(gsrest)
  /\ UNCHANGED gsrow
-----------------------------------------------------------------------------
(* A ring of files is given in any order; each is named by its slot, and   *)
(* starts at the time of its first record, or None (math.inf) without one. *)
Ranked(files, before(_, _)) ==
  [j \in 1..Cardinality(files) |->
     CHOOSE f \in files : Cardinality({g \in files : before(g, f)}) = j - 1]

(* Mutant: the files are read by name.                                     *)
ResolveByName(files) == Ranked(files, LAMBDA a, b : a.slot < b.slot)

(* resolve_capture_paths: by the time of the first record, the empty file  *)
(* last, and by name where that leaves a choice.                           *)
Sooner(a, b) == a.start # None /\ (b.start = None \/ a.start < b.start)
Precedes(a, b) == Sooner(a, b) \/ (a.start = b.start /\ a.slot < b.slot)
ResolveCapturePaths(files) == Ranked(files, Precedes)
=============================================================================
