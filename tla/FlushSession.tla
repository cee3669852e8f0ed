---------------------------- MODULE FlushSession ----------------------------
(***************************************************************************)
(* The incremental files of one running session: capture/flush_session.sh, *)
(* the writers it reads behind - candump into can.log, tcpdump into the    *)
(* ring - and the teardown that replaces its results: 06_can_asc.sh's full *)
(* conversion and 05_usb_pcap.sh's copy.                                   *)
(*                                                                         *)
(* can.log is its size: line i carries time i and takes LineBytes bytes.   *)
(* can.asc is a sequence of a Header and of times relative to the first    *)
(* frame.  A ring file is the number of writes it has seen.                *)
(***************************************************************************)
EXTENDS Integers, Sequences

CONSTANTS
  MaxLine,     \* bound: lines candump writes
  NFiles,      \* FILE_COUNT: the ring is usbcan.pcap0 .. NFiles-1
  MaxWrite,    \* bound: writes per ring file
  MaxClock,    \* bound: seconds that pass
  Faults

FaultKinds == {"term_in_flush", "cp_fails"}

ASSUME FlushAssumption ==
  /\ MaxLine \in Nat /\ MaxWrite \in Nat /\ MaxClock \in Nat \ {0}
  /\ NFiles \in Nat \ {0}
  /\ Faults \subseteq FaultKinds

Files == 0..(NFiles - 1)

LineBytes == 2
Lines(b) == b \div LineBytes

VARIABLES
  size, asc,                  \* bytes of can.log; can.asc
  fpc,                        \* where flush_session.sh is
  offset, session_t0, chunk,  \* its offset, first time (0: unset), last line read
  pipe,                       \* what awk | cat still has to append to can.asc
  todo, name, seen, last,     \* files left in this pass, $name, mtime, ring_mtime_*
  mirror, tmp,                \* the session's copies and its .tmp files
  content, older, mtime, cur, \* the ring: writes, those before mtime's second
  clock,
  can_asc, written,           \* 06_can_asc.sh and how far its log2asc is
  teardown                    \* the orchestrator's progress

log_vars == <<size, asc, offset, session_t0, chunk, pipe>>
mirror_vars == <<todo, name, seen, last, mirror, tmp>>
ring_vars == <<content, older, mtime, cur, clock>>
down_vars == <<can_asc, written, teardown>>
vars == <<fpc, log_vars, mirror_vars, ring_vars, down_vars>>

Header == -1
TypeOK ==
  /\ size \in 0..(LineBytes * MaxLine) /\ offset \in 0..(LineBytes * MaxLine)
  /\ asc \in Seq(Int) /\ pipe \in Seq(Int)
  /\ fpc \in {"sleeping", "converting", "appending", "mirroring", "copying", "dead"}
  /\ session_t0 \in 0..MaxLine /\ chunk \in 0..MaxLine
  /\ todo \subseteq Files /\ name \in Files
  /\ seen \in 0..MaxClock /\ last \in [Files -> 0..MaxClock]
  /\ mirror \in [Files -> 0..MaxWrite] /\ tmp \subseteq Files
  /\ content \in [Files -> 0..MaxWrite] /\ older \in [Files -> 0..MaxWrite]
  /\ mtime \in [Files -> 0..MaxClock] /\ clock \in 0..MaxClock
  /\ cur \in Files
  /\ can_asc \in {"capturing", "ending", "writing", "done"} /\ written \in Nat
  /\ teardown \in {"up", "joining", "copying", "done"}

Init ==
  /\ size = 0 /\ asc = <<>> /\ pipe = <<>>
  /\ fpc = "sleeping" /\ offset = 0 /\ session_t0 = 0 /\ chunk = 0
  /\ todo = {} /\ name = 0 /\ seen = 0 /\ last = [f \in Files |-> 0]
  /\ mirror = [f \in Files |-> 0] /\ tmp = {}
  /\ content = [f \in Files |-> 0] /\ older = [f \in Files |-> 0]
  /\ mtime = [f \in Files |-> 0] /\ clock = 1 /\ cur = 0
  /\ can_asc = "capturing" /\ written = 0 /\ teardown = "up"

-----------------------------------------------------------------------------
(* log2asc on lines a..b: a header, then times counted from line a.        *)
Log2asc(a, b) == [k \in 1..(b - a + 2) |-> IF k = 1 THEN Header ELSE k - 2]

Conversion == Log2asc(1, Lines(size))

-----------------------------------------------------------------------------
(* The writers.                                                            *)

(* candump's output reaches the file in blocks: a line may be cut.         *)
CandumpWrites ==
  /\ can_asc = "capturing" /\ size < LineBytes * MaxLine
  /\ size' = size + 1
  /\ UNCHANGED <<fpc, asc, offset, session_t0, chunk, pipe, mirror_vars,
                 ring_vars, down_vars>>

(* tcpdump appends to its current file or goes on to the next, which it    *)
(* truncates; either way that file has a new content and a new mtime.      *)
TcpdumpWrites ==
  /\ teardown \in {"up", "joining"}
  /\ cur' \in {cur, (cur + 1) % NFiles}
  /\ content[cur'] < MaxWrite
  /\ content' = [content EXCEPT ![cur'] = @ + 1]
  /\ older' = [older EXCEPT ![cur'] = IF mtime[cur'] = clock THEN @ ELSE content[cur']]
  /\ mtime' = [mtime EXCEPT ![cur'] = clock]
  /\ UNCHANGED <<fpc, log_vars, mirror_vars, clock, down_vars>>

SecondPasses ==
  /\ clock < MaxClock /\ clock' = clock + 1
  /\ UNCHANGED <<fpc, log_vars, mirror_vars, content, older, mtime, cur, down_vars>>

-----------------------------------------------------------------------------
(* flush_session.sh: the incremental conversion.                           *)

(* Mutant: a log that ends inside a line is left for the next tick.        *)
ReadWholeLogOnly ==
  /\ fpc = "sleeping"
  /\ size > offset /\ size % LineBytes = 0
  /\ chunk' = Lines(size)
  /\ session_t0' = IF session_t0 = 0 THEN Lines(offset) + 1 ELSE session_t0
  /\ fpc' = "converting"
  /\ UNCHANGED <<size, asc, offset, pipe, mirror_vars, ring_vars, down_vars>>

(* A chunk of whole lines is there and starts at a line's start; the first *)
(* one fixes the session's time origin.                                    *)
ReadChunk ==
  /\ fpc = "sleeping"
  /\ LineBytes * Lines(size) > offset /\ offset % LineBytes = 0
  /\ chunk' = Lines(size)
  /\ session_t0' = IF session_t0 = 0 THEN Lines(offset) + 1 ELSE session_t0
  /\ fpc' = "converting"
  /\ UNCHANGED <<size, asc, offset, pipe, mirror_vars, ring_vars, down_vars>>

NothingNew ==
  /\ fpc = "sleeping"
  /\ LineBytes * Lines(size) <= offset \/ offset % LineBytes # 0
  /\ fpc' = "mirroring" /\ todo' = {f \in Files : content[f] > 0}
  /\ UNCHANGED <<log_vars, name, seen, last, mirror, tmp, ring_vars, down_vars>>

Shifted(s, d) == [k \in DOMAIN s |-> IF s[k] = Header THEN Header ELSE s[k] + d]

(* Mutant: the chunk's own timeline, not rebased.                          *)
ConvertWithoutRebase ==
  /\ fpc = "converting"
  /\ LET piece == Log2asc(Lines(offset) + 1, chunk)
     IN pipe' = IF offset = 0 THEN piece ELSE Tail(piece)
  /\ fpc' = "appending"
  /\ UNCHANGED <<size, asc, offset, session_t0, chunk, mirror_vars, ring_vars,
                 down_vars>>

(* log2asc on the chunk, rebased by awk, its header dropped but for the    *)
(* first; on failure the same bytes are retried at the next tick.          *)
ConvertChunk ==
  /\ fpc = "converting"
  /\ LET first == Lines(offset) + 1
         piece == Shifted(Log2asc(first, chunk), first - session_t0)
     IN \/ /\ fpc' = "appending"
           /\ pipe' = IF offset = 0 THEN piece ELSE Tail(piece)
           /\ UNCHANGED todo
        \/ /\ fpc' = "mirroring" /\ todo' = {f \in Files : content[f] > 0}
           /\ UNCHANGED pipe
  /\ UNCHANGED <<size, asc, offset, session_t0, chunk, name, seen, last, mirror, tmp,
                 ring_vars, down_vars>>

(* The pipeline appends (O_APPEND), whether or not its shell still lives.  *)
PipeAppends ==
  /\ pipe # <<>>
  /\ asc' = Append(asc, Head(pipe)) /\ pipe' = Tail(pipe)
  /\ UNCHANGED <<fpc, size, offset, session_t0, chunk, mirror_vars, ring_vars,
                 down_vars>>

(* Mutant: the offset moves to the log's size.                             *)
OffsetToLogSize ==
  /\ fpc = "appending" /\ pipe = <<>>
  /\ offset' = size
  /\ fpc' = "mirroring" /\ todo' = {f \in Files : content[f] > 0}
  /\ UNCHANGED <<size, asc, session_t0, chunk, pipe, name, seen, last, mirror, tmp,
                 ring_vars, down_vars>>

ChunkAppended ==
  /\ fpc = "appending" /\ pipe = <<>>
  /\ offset' = LineBytes * chunk
  /\ fpc' = "mirroring" /\ todo' = {f \in Files : content[f] > 0}
  /\ UNCHANGED <<size, asc, session_t0, chunk, pipe, name, seen, last, mirror, tmp,
                 ring_vars, down_vars>>

(* flush_session.sh: the ring mirror.                                      *)

(* Mutant: the time of the pass stands in for the file's mtime.            *)
StatByClock(f) ==
  /\ fpc = "mirroring" /\ f \in todo
  /\ todo' = todo \ {f} /\ name' = f /\ seen' = clock
  /\ IF mtime[f] # last[f]
       THEN fpc' = "copying" /\ tmp' = tmp \union {f}
       ELSE UNCHANGED <<fpc, tmp>>
  /\ UNCHANGED <<log_vars, last, mirror, ring_vars, down_vars>>

StatFile(f) ==
  /\ fpc = "mirroring" /\ f \in todo
  /\ todo' = todo \ {f} /\ name' = f /\ seen' = mtime[f]
  /\ IF mtime[f] # last[f]
       THEN fpc' = "copying" /\ tmp' = tmp \union {f}
       ELSE UNCHANGED <<fpc, tmp>>
  /\ UNCHANGED <<log_vars, last, mirror, ring_vars, down_vars>>

(* cp to name.tmp and mv over the copy; the mtime read before is recorded  *)
(* even when the cp has failed.                                            *)
CopyFile ==
  /\ fpc = "copying"
  /\ fpc' = "mirroring"
  /\ last' = [last EXCEPT ![name] = seen]
  /\ \/ mirror' = [mirror EXCEPT ![name] = content[name]] /\ tmp' = tmp \ {name}
     \/ "cp_fails" \in Faults /\ UNCHANGED <<mirror, tmp>>
  /\ UNCHANGED <<log_vars, todo, name, seen, ring_vars, down_vars>>

PassDone ==
  /\ fpc = "mirroring" /\ todo = {}
  /\ fpc' = "sleeping"
  /\ UNCHANGED <<log_vars, mirror_vars, ring_vars, down_vars>>

-----------------------------------------------------------------------------
(* The teardown.                                                           *)

(* The orchestrator's TERMs.  The flush shell dies wherever it is; the     *)
(* pipeline or cp it runs is no child of the orchestrator and lives on.    *)
SignalChildren ==
  /\ teardown = "up" /\ teardown' = "joining"
  /\ "term_in_flush" \in Faults \/ fpc = "sleeping"
  /\ can_asc' = "ending" /\ fpc' = "dead"
  /\ UNCHANGED <<log_vars, mirror_vars, ring_vars, written>>

(* finish: candump writes out its buffer and ends; a log with frames is    *)
(* converted from its start, into a can.asc opened for writing.            *)
CandumpEnds ==
  /\ can_asc = "ending"
  /\ size' = size + (size % LineBytes)
  /\ IF size' = 0 THEN can_asc' = "done" /\ UNCHANGED asc
                  ELSE can_asc' = "writing" /\ asc' = <<>>
  /\ UNCHANGED <<fpc, offset, session_t0, chunk, pipe, mirror_vars, ring_vars,
                 written, teardown>>

(* log2asc writes at its own position, over what another may have put there. *)
ConversionWrites ==
  /\ can_asc = "writing" /\ written < Len(Conversion)
  /\ written' = written + 1
  /\ asc' = IF written' <= Len(asc)
              THEN [asc EXCEPT ![written'] = Conversion[written']]
              ELSE Append(asc, Conversion[written'])
  /\ UNCHANGED <<fpc, size, offset, session_t0, chunk, pipe, mirror_vars,
                 ring_vars, can_asc, teardown>>

ConversionDone ==
  /\ can_asc = "writing" /\ written = Len(Conversion)
  /\ can_asc' = "done"
  /\ UNCHANGED <<fpc, log_vars, mirror_vars, ring_vars, written, teardown>>

(* The bare wait: 06 and tcpdump have ended.                               *)
Join ==
  /\ teardown = "joining" /\ can_asc = "done"
  /\ teardown' = "copying"
  /\ UNCHANGED <<fpc, log_vars, mirror_vars, ring_vars, can_asc, written>>

(* 05_usb_pcap.sh.                                                         *)
CopyRing ==
  /\ teardown = "copying" /\ teardown' = "done"
  /\ mirror' = content
  /\ UNCHANGED <<fpc, log_vars, todo, name, seen, last, tmp, ring_vars, can_asc,
                 written>>

-----------------------------------------------------------------------------
Flush == ReadChunk \/ NothingNew \/ ConvertChunk \/ ChunkAppended
         \/ (\E f \in Files : StatFile(f)) \/ CopyFile \/ PassDone

Teardown == CandumpEnds \/ ConversionWrites \/ ConversionDone \/ Join \/ CopyRing

Next == CandumpWrites \/ TcpdumpWrites \/ SecondPasses \/ Flush \/ PipeAppends
        \/ SignalChildren \/ Teardown

Spec == Init /\ [][Next]_vars

(* The flush loop and the teardown run on; log2asc does not fail for ever. *)
FairSpec ==
  /\ Spec
  /\ WF_vars(Flush) /\ WF_vars(PipeAppends) /\ WF_vars(Teardown)
  /\ SF_vars(ConvertChunk /\ fpc' = "appending")

-----------------------------------------------------------------------------
(* What a reader finds in can.asc while the session runs is, at every      *)
(* moment, a prefix of the conversion of can.log as a whole: one header,   *)
(* one timeline that never restarts, no frame twice, none left out.        *)
IncrementalIsPrefix ==
  can_asc \in {"capturing", "ending"} =>
    /\ Len(asc) <= Len(Conversion)
    /\ \A k \in 1..Len(asc) : asc[k] = Conversion[k]

(* Between two passes the offset says exactly what can.asc holds, so that  *)
(* a failed conversion is retried and a successful one never repeated.     *)
OffsetMatchesAsc ==
  fpc = "sleeping" =>
    asc = IF offset = 0 THEN <<>> ELSE Log2asc(1, Lines(offset))

(* A mirrored file lags its ring file by one second's writes at most: once *)
(* its mtime is recorded, the copy holds everything written before that    *)
(* second and some of it ("Whenever a ring file's mtime changes, its       *)
(* current full content replaces the session's copy") - unless the copy    *)
(* failed, which its .tmp file still shows.                                *)
MirrorLagsOneSecond ==
  \A f \in Files \ tmp :
    (fpc = "sleeping" /\ last[f] = mtime[f] /\ last[f] > 0) => mirror[f] > older[f]

(* The teardown's full conversion and copy replace the incremental results *)
(* of a flush that was not in the middle of a pass, failed copies and all. *)
TeardownOverwrites ==
  (teardown = "done" /\ pipe = <<>>) =>
    /\ size > 0 => asc = Conversion
    /\ mirror = content

(* "Teardown still performs the authoritative full log2asc conversion and  *)
(* pcap copy, which overwrite these incremental results": once all         *)
(* processes are quiet, nothing of the flush is left in the directory.     *)
TeardownAuthoritative == TeardownOverwrites /\ (teardown = "done" => tmp = {})

(* can.asc stays usable mid-capture: every line of can.log appears in it   *)
(* while the session runs, or the teardown has begun.                      *)
MidCaptureUsable ==
  \A n \in 1..MaxLine :
    (Lines(size) >= n) ~> (Len(asc) > n \/ teardown # "up")
=============================================================================
