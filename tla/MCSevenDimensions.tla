-------------------------- MODULE MCSevenDimensions --------------------------
(* A session from 3 to 5: lines of before, of its bounds, within and after. *)
EXTENDS SevenDimensions
Line(file, form, t, number) == [file |-> file, form |-> form, t |-> t, number |-> number]
MCLines == {
  Line("can.log", "log", 5, NoTime), Line("can.log", "native", 4, NoTime),
  Line("bms-status", "mark", 3, NoTime), Line("bms-status", "log", 4, NoTime),
  Line("dmesg", "log", 4, 1),       \* the text starts with a number
  Line("dmesg", "log", 2, NoTime),    \* from the buffer of before
  Line("hpm-uart", "log", 6, NoTime),
  Line("inference", "log", 3, NoTime),
  Line("inference", "log", 4, 1),     \* dated within, and "[1]" in its text
  Line("inference", "seconds", 4, NoTime),
  Line("inference", "seconds", 2, 5),
  Line("can-details", "log", 4, NoTime), Line("can-details", "broken", 4, NoTime),
  Line("usbcan.pcap", "log", 2, 5) }
===============================================================================
