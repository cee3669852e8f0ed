--------------------------- MODULE SevenDimensions ---------------------------
(***************************************************************************)
(* analyze_seven_dimensions.py on a session directory, during and after    *)
(* the recording, more than once and perhaps interrupted.  A recorded line *)
(* is known by its place in log, the session's lines in the order they     *)
(* were written; its form is what the parsers can tell of it, t the time   *)
(* it bears and number a second number that is read as a time in it: by    *)
(* another parser, or (inference) by its own, before the date it bears.    *)
(***************************************************************************)
EXTENDS Integers, Sequences, FiniteSets

CONSTANTS Lines,    \* lines the recorder may write: [file, form, t, number]
          Started,  \* manifest: started_at_unix
          Ended,    \* manifest: ended_at_unix, once the session has ended
          MaxLines, \* bound on the lines of a session
          MaxRuns   \* bound on the runs of the program

NoTime == 0

ASSUME SevenDimensionsAssumption ==
  /\ Lines \subseteq [file : {"can.log", "bms-status", "dmesg", "hpm-uart", "thermal",
                              "inference", "can-details", "usbcan.pcap"},
                      form : {"log", "native", "mark", "broken", "untimed", "seconds"},
                      t : Nat \ {NoTime}, number : Nat]
  /\ Started \in Nat \ {NoTime} /\ Ended \in Nat \ {NoTime} /\ Started <= Ended

(* DIMENSION_OUTPUTS, in its order.                                        *)
Dimensions == <<"can-asc", "bms", "dmesg", "hpm-uart", "thermal",
                "inference-session", "can-details", "usb-pcap">>
Outputs == {Dimensions[j] : j \in DOMAIN Dimensions}

VARIABLES log, ended,   \* the session directory: lines, end in the manifest
          run, stage,   \* runs begun; where this one is
          endRead,      \* ended_at_unix as this run has read it
          keepOutside,  \* --keep-outside
          rows, dropped,\* events of this run
          todo,         \* dimensions whose file is still to be written
          out, summary  \* the files written: rows by dimension, summary.json

dimVars == <<log, ended, run, stage, endRead, keepOutside, rows, dropped, todo, out, summary>>

NoFile == [run |-> 0, rows |-> <<>>]
NoSummary == [run |-> 0, outputs |-> [d \in {} |-> 0], events |-> 0, dropped |-> 0,
              ended |-> NoTime]

DimInit == /\ log = <<>> /\ ended = NoTime /\ run = 0 /\ stage = "idle"
           /\ endRead = NoTime /\ keepOutside = FALSE
           /\ rows = {} /\ dropped = 0 /\ todo = {}
           /\ out = [d \in Outputs |-> NoFile] /\ summary = NoSummary

(* The recorder writes a line, or ends the session (external).             *)
WriteLine == /\ ended = NoTime /\ Len(log) < MaxLines
             /\ \E l \in Lines : log' = Append(log, l)
             /\ UNCHANGED <<ended, run, stage, endRead, keepOutside, rows, dropped, todo, out, summary>>
EndSession == /\ ended = NoTime /\ ended' = Ended
              /\ UNCHANGED <<log, run, stage, endRead, keepOutside, rows, dropped, todo, out, summary>>

-----------------------------------------------------------------------------
(* event: a row, unless it has no time.  parser, line and part, the place  *)
(* of its parser, its line there and the row among those of the line, are  *)
(* the order in which the rows are appended.                               *)
Event(dim, parser, t, i, part) ==
  IF t = NoTime THEN {}
  ELSE {[dim |-> dim, parser |-> parser, t |-> t, line |-> i, part |-> part]}

(* The rows a parser makes of the lines of a file it recognises.           *)
LinesOf(file, form) == {i \in DOMAIN log : log[i].file = file /\ log[i].form = form}
Parsed(dim, parser, is) == UNION {Event(dim, parser, log[i].t, i, 1) : i \in is}

ParseCan == Parsed("can-asc", 3, LinesOf("can.log", "log")) \* not the native buses
ParseMarkedSnapshot == Parsed("bms", 4, LinesOf("bms-status", "mark"))
ParseBms == Parsed("bms", 5, LinesOf("bms-status", "log"))
ParseDmesg == Parsed("dmesg", 6, LinesOf("dmesg", "log"))
ParseUnixLines(dim, parser) == Parsed(dim, parser, LinesOf(dim, "log"))

(* The first bracketed number of a line is its time, whatever date stands  *)
(* beside it.  Without one the date is; a date to the whole second matches *)
(* the expression but not the format, and the line is dropped.             *)
Bracketed == {i \in DOMAIN log : log[i].file = "inference" /\ log[i].number # NoTime}
ParseBracketed ==
  UNION {Event("inference-session", 10, log[i].number, i, 1) : i \in Bracketed}
ParseDated == Parsed("inference-session", 10, LinesOf("inference", "log") \ Bracketed)
ParseInference == ParseBracketed \cup ParseDated

(* A line of dmesg whose text starts with a number is a Unix line too.     *)
ParseUnixDmesg == UNION {Event("dmesg", 7, log[i].number, i, 1) : i \in LinesOf("dmesg", "log")}

(* Records one after the other, up to the first that is not JSON.          *)
ParseCanDetails ==
  Parsed("can-details", 11, {i \in LinesOf("can-details", "log") :
                               \A j \in LinesOf("can-details", "broken") : i < j})

(* The first and the last packet of each capture file.                     *)
ParseUsb ==
  LET packets(i) == Event("usb-pcap", 12, log[i].t, i, 1)
                    \cup Event("usb-pcap", 12, log[i].number, i, 2)
  IN  UNION {packets(i) : i \in LinesOf("usbcan.pcap", "log")}

AllRows ==
  UNION { Event("session", 1, Started, 0, 1), Event("bms", 2, Started, 0, 1),
          ParseCan, ParseMarkedSnapshot, ParseBms, ParseDmesg, ParseUnixDmesg,
          ParseUnixLines("hpm-uart", 8), ParseUnixLines("thermal", 9),
          ParseInference, ParseCanDetails, ParseUsb,
          Event("session", 13, ended, 0, 1) }

(* Mutant: the end of the window does not belong to it.                    *)
InWindowOpen(r) == ended = NoTime \/ (Started <= r.t /\ r.t < ended)

(* drop_outside_window: while the session goes on nothing is dropped.      *)
InWindow(r) == ended = NoTime \/ (Started <= r.t /\ r.t <= ended)

(* rows.sort: by time, and in the order of reading where times are equal.  *)
(* Rows are listed in this order: the j-th has j - 1 before it.            *)
RowBefore(a, b) ==
  \/ a.t < b.t
  \/ a.t = b.t /\ \/ a.parser < b.parser
                  \/ a.parser = b.parser /\ a.line < b.line
                  \/ a.parser = b.parser /\ a.line = b.line /\ a.part < b.part
Sorted(R) == [j \in 1..Cardinality(R) |->
                CHOOSE r \in R : Cardinality({q \in R : RowBefore(q, r)}) = j - 1]
Of(dim, R) == {r \in R : r.dim = dim}
DimensionsOf(R) == {r.dim : r \in R} \ {"session"}

(* A run reads everything, drops, and has a file to write for each         *)
(* dimension that has rows.                                                *)
Begin(keep) ==
  /\ stage = "idle" /\ run < MaxRuns
  /\ run' = run + 1 /\ keepOutside' = keep /\ endRead' = ended
  /\ rows' = IF keep THEN AllRows ELSE {r \in AllRows : InWindow(r)}
  /\ dropped' = Cardinality(AllRows) - Cardinality(rows')
  /\ todo' = DimensionsOf(rows')
  /\ stage' = "writing"
  /\ UNCHANGED <<log, ended, out, summary>>

(* The next file in the order of the dimensions; it replaces the one that  *)
(* an earlier run has written.                                             *)
WriteOutput ==
  /\ stage = "writing"
  /\ \E j \in DOMAIN Dimensions :
       LET d == Dimensions[j]
       IN  /\ d \in todo /\ \A i \in 1..j - 1 : Dimensions[i] \notin todo
           /\ out' = [out EXCEPT ![d] = [run |-> run, rows |-> Sorted(Of(d, rows))]]
           /\ todo' = todo \ {d}
  /\ UNCHANGED <<log, ended, run, stage, endRead, keepOutside, rows, dropped, summary>>

(* Mutant: the summary is written before the last file.                    *)
AlmostWritten == Cardinality(todo) <= 1

(* summary.json comes after the last file.  The one with all rows that     *)
(* --merged asks for is left out.                                          *)
AllWritten == todo = {}

WriteSummary ==
  /\ stage = "writing" /\ AllWritten
  /\ summary' = [run |-> run,
                 outputs |-> [d \in DimensionsOf(rows) |-> Cardinality(Of(d, rows))],
                 events |-> Cardinality(rows), dropped |-> dropped,
                 ended |-> endRead]
  /\ stage' = "idle"
  /\ UNCHANGED <<log, ended, run, endRead, keepOutside, rows, dropped, todo, out>>

(* The program is interrupted, or the disk is full: what is written stays. *)
Interrupted ==
  /\ stage = "writing" /\ stage' = "idle"
  /\ UNCHANGED <<log, ended, run, endRead, keepOutside, rows, dropped, todo, out, summary>>

DimNext == \/ WriteLine \/ EndSession \/ WriteOutput \/ WriteSummary \/ Interrupted
           \/ \E keep \in BOOLEAN : Begin(keep)

DimSpec == DimInit /\ [][DimNext]_dimVars
-----------------------------------------------------------------------------
(* A summary speaks of files that are there: each file it lists was        *)
(* written by its run or a later one that was interrupted, and if by its   *)
(* own holds as many rows as it says, which add up to the events it counts *)
(* but for those of the session itself (analyze_seven_dimensions.py:       *)
(* 237-264).                                                               *)
Listed == DOMAIN summary.outputs
Own == {d \in Listed : out[d].run = summary.run}
SummaryTruthful ==
  summary.run > 0 =>
    /\ \A d \in Listed : out[d].run >= summary.run
    /\ \A d \in Own : Len(out[d].rows) = summary.outputs[d]
    /\ Own = Listed =>
         LET told == UNION {{d} \X DOMAIN out[d].rows : d \in Listed}
         IN  summary.events = Cardinality(told) + (IF summary.ended = NoTime THEN 1 ELSE 2)

(* After the session has ended, and unless --keep-outside, the files hold  *)
(* every line whose time is within it once and no other, in the order of   *)
(* their times.  Excepted are the lines of can-details after a broken      *)
(* record, a second row for the lines of dmesg that start with a number    *)
(* within the session, and of the inference log the lines dated to the     *)
(* whole second, which have no row, and those with a number in brackets,   *)
(* which are told by that number and not by their date                     *)
(* (analyze_seven_dimensions.py:49-200).                                   *)
Finished == /\ stage = "idle" /\ summary.run > 0 /\ summary.run = run
            /\ summary.ended # NoTime /\ ~keepOutside
Source == [f \in {l.file : l \in Lines} |->
             CASE f = "can.log" -> "can-asc" [] f = "bms-status" -> "bms"
               [] f = "inference" -> "inference-session" [] f = "usbcan.pcap" -> "usb-pcap"
               [] OTHER -> f]
Within(t) == Started <= t /\ t <= Ended
Stamp(i) == IF i \in Bracketed THEN log[i].number ELSE log[i].t
Shown(i) == /\ Within(Stamp(i))
            /\ \/ log[i].form = "log" \/ i \in Bracketed
               \/ log[i].form = "mark" /\ log[i].file = "bms-status"
            /\ log[i].file = "can-details" =>
                 ~\E j \in 1..i : log[j].file = "can-details" /\ log[j].form = "broken"
ShownAgain(i) == /\ Within(log[i].number)
                 /\ log[i].form = "log" /\ log[i].file \in {"dmesg", "usbcan.pcap"}
EveryLineTold ==
  Finished =>
    \A i \in DOMAIN log :
      LET d == Source[log[i].file]
          held == {j \in DOMAIN out[d].rows : out[d].run = run /\ out[d].rows[j].line = i}
      IN  /\ Cardinality(held) = (IF Shown(i) THEN 1 ELSE 0) + (IF ShownAgain(i) THEN 1 ELSE 0)
          /\ \A a, b \in DOMAIN out[d].rows : a < b => out[d].rows[a].t <= out[d].rows[b].t
=============================================================================
