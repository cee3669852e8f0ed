------------------------------ MODULE MCBootRom ------------------------------
(* Sectors of four bytes, chunks of three, the flash mapped at 16.          *)
EXTENDS BootRom

File(a, n) == [addr |-> a, size |-> n]
MCFiles == {
  << File(0, 3) >>,
  << File(8, 1), File(1, 5) >>,   \* in the order given, not that of addresses
  << File(0, 4), File(4, 2) >>,   \* adjacent sectors
  << File(0, 5), File(4, 1) >>,   \* a sector in common
  << File(0, 2), File(2, 2) >>,
  << File(0, 3), File(16, 2) >> } \* the same place, written two ways

Opts(sel, strength, size) ==
  [probe |-> 0, pad_power_on |-> 0, pad_config |-> 0, qes |-> 0, misc |-> 0, freq |-> 5,
   voltage |-> 0, group |-> 0, selection |-> sel, strength |-> strength, size |-> size]
MCOption == [words |-> 2, options |-> [Opts(0, 0, 0) EXCEPT !.group = 1]]
MCImages == {
  NoHeader,
  [words |-> 3, options |-> Opts(1, 3, 2)],
  [words |-> 1, options |-> Opts(1, 0, 0)],   \* a word more than is announced
  [words |-> 2, options |-> Opts(3, 0, 0)] }  \* a selection without a name
===============================================================================
