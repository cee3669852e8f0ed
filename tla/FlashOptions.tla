---------------------------- MODULE FlashOptions ----------------------------
(***************************************************************************)
(* What hpmtool works out before it talks to the chip: whether the files   *)
(* of write_flash overlap, where they go, and the flash configuration,     *)
(* read from the image, turned into option names and back into words.      *)
(* Values are kept by field; a name stands for the value it is a key of.   *)
(***************************************************************************)
EXTENDS Integers, Sequences, FiniteSets

CONSTANTS FLASH_SECTOR_SIZE, \* unit of erase; divides XPI0_START
          XPI0_START,        \* where the flash is mapped
          Option             \* the chip class's OPTION, or NoHeader if it has none

(* A header is the number of words announced and the fields of the words.  *)
Fields == {"probe", "pad_power_on", "pad_config", "qes", "misc", "freq",
           "voltage", "group", "selection", "strength", "size"}
NoHeader == [words |-> -1, options |-> [x \in {"probe"} |-> 0]]
Headers == [words : Nat, options : [Fields -> Nat]] \cup {NoHeader}
None == -1

ASSUME FlashAssumption ==
  /\ FLASH_SECTOR_SIZE \in Nat \ {0, 1} /\ XPI0_START \in Nat
  /\ Option \in Headers
  /\ XPI0_START % FLASH_SECTOR_SIZE = 0

-----------------------------------------------------------------------------
SectorStart(f) == f.addr - (f.addr % FLASH_SECTOR_SIZE)
SectorEnd(f) ==
  ((f.addr + f.size + FLASH_SECTOR_SIZE - 1) \div FLASH_SECTOR_SIZE) * FLASH_SECTOR_SIZE - 1

(* sorted(pairs, key=address): equal addresses stay in the order given.    *)
Before(files, i, j) ==
  files[i].addr < files[j].addr \/ (files[i].addr = files[j].addr /\ i < j)
Follows(files, i, j) ==
  /\ Before(files, i, j)
  /\ ~\E m \in DOMAIN files : Before(files, i, m) /\ Before(files, m, j)

(* Mutant: the length of a file is not counted.                            *)
DetectedOverlapOfAddresses(files) ==
  \E i, j \in DOMAIN files :
    Follows(files, i, j) /\ SectorStart(files[j]) < SectorStart(files[i])

(* The files in the order of their addresses: does one start before the    *)
(* last sector of the one before it has ended?                             *)
DetectedOverlap(files) ==
  \E i, j \in DOMAIN files :
    Follows(files, i, j) /\ SectorStart(files[j]) < SectorEnd(files[i])

(* _flash_addr: an address below the mapping is an offset into it.         *)
FlashAddr(addr) == IF addr >= XPI0_START THEN addr ELSE XPI0_START + addr

Place(f) == FlashAddr(f.addr)..FlashAddr(f.addr) + f.size - 1

-----------------------------------------------------------------------------
(* The values that have a name in the tables.                              *)
Named == [probe |-> {0, 1, 2, 3, 4, 5, 6, 8, 10}, pad_power_on |-> 0..3, pad_config |-> 0..3,
          qes |-> 0..4, misc |-> 0..3, freq |-> 1..8, voltage |-> 0..1,
          group |-> 0..1, selection |-> 0..2, size |-> 0..2]

(* Mutant: the selection is not taken from the image.                      *)
DetectedWithoutSelection(o) ==
  [x \in DOMAIN o |-> IF x = "selection" THEN 0
                      ELSE IF x = "strength" THEN o[x] % 16
                      ELSE IF o[x] \in Named[x] THEN o[x] ELSE None]

(* get_item_key for each field; None when the value has no name.  The      *)
(* drive strength is a number, of which four bits are taken.               *)
DetectedOptions(o) ==
  [x \in DOMAIN o |-> IF x = "strength" THEN o[x] % 16
                      ELSE IF o[x] \in Named[x] THEN o[x] ELSE None]

(* What write_flash starts from: the header of the image, or the class's.  *)
Header(image) == IF image = NoHeader THEN Option ELSE image

(* An image without a header for a class without OPTION, and a value       *)
(* without a name, each end the program in a Python exception.             *)
Configurable(image) ==
  /\ Header(image) # NoHeader
  /\ \A x \in DOMAIN Named : DetectedOptions(Header(image).options)[x] # None

(* The options of read_flash, which has no image: the defaults.            *)
DefaultOptions == [probe |-> 0, pad_power_on |-> 0, pad_config |-> 0, qes |-> 0, misc |-> 0,
                   freq |-> 6, voltage |-> 0, group |-> 0, selection |-> 0,
                   strength |-> 0, size |-> 0]

(* build_flash_configuration: as many words are announced as are not zero  *)
(* from the first on.                                                      *)
BuiltConfig(o) ==
  LET zero(fields) == \A x \in fields : o[x] = 0
      first == zero({"probe", "pad_power_on", "pad_config", "qes", "misc", "freq"})
      second == zero({"voltage", "group", "selection", "strength"})
      words == IF ~first /\ ~second /\ o.size # 0 THEN 3
               ELSE IF ~first /\ ~second THEN 2
               ELSE IF ~first THEN 1 ELSE 0
  IN  [words |-> words, options |-> o]

(* The options a configuration brings about in the chip, which reads the   *)
(* announced words and no more (external).                                 *)
Effective(c) ==
  [x \in DOMAIN c.options |->
     IF \/ c.words = 0
        \/ c.words < 2 /\ x \in {"voltage", "group", "selection", "strength"}
        \/ c.words < 3 /\ x = "size"
     THEN 0 ELSE c.options[x]]
=============================================================================
