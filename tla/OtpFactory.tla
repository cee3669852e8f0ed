----------------------------- MODULE OtpFactory -----------------------------
(***************************************************************************)
(* The commands of hpmtool.py that burn the one-time fuses of the HPM      *)
(* chip.  One host runs one command at a time; what it has burned survives *)
(* it, so the state that matters is what an interrupted, failed or         *)
(* repeated command leaves in the fuses.  A fuse word is the set of its    *)
(* bits that are set; word 0 is HARD_LOCK, whose bit b locks the words     *)
(* 4b .. 4b+3, and word 1 is LIFECYCLE.                                    *)
(***************************************************************************)
EXTENDS Integers, Sequences, FiniteSets, SequencesExt

CONSTANTS Words,    \* the fuse words of this instance; 0..127 on the chip
          Values,   \* what random.randint can return
          Files,    \* CSV files: sequences of <<word, value>> or malformed rows
          Faults    \* subset of {"read", "write", "crash"}

Bits == 0..31
Blank == {}

(* The dictionary read_csv makes of a file: a row of another length is     *)
(* skipped, and a repeated word keeps its place and takes the last value.  *)
ReadCsv(lines) ==
  LET Add(rows, r) ==
        IF \E k \in DOMAIN rows : rows[k][1] = r[1]
        THEN [k \in DOMAIN rows |-> IF rows[k][1] = r[1] THEN r ELSE rows[k]]
        ELSE Append(rows, r)
  IN  FoldLeft(Add, <<>>, SelectSeq(lines, LAMBDA r : Len(r) = 2))

Tables == {ReadCsv(f) : f \in Files}

ASSUME WordsAssumption == Words \subseteq 0..127 /\ {0, 1} \subseteq Words
ASSUME ValuesAssumption == Values \subseteq SUBSET Bits
ASSUME FilesAssumption == Tables \subseteq Seq(Int \X SUBSET Bits)
ASSUME FaultsAssumption == Faults \subseteq {"read", "write", "crash"}

-----------------------------------------------------------------------------
(* Word ranges and bit masks, as the commands spell them.                  *)
UidWords == 8..11
UuidWords == 88..91
MkWords == 112..119
RandomWords == (UidWords \cup UuidWords \cup MkWords) \cap Words

FactoryLock == {28, 29} \cup {22} \cup {2} \cup {1} \cup {4}
FactoryLife == {0, 28}               \* 0x10000001
FullLock == {1, 2, 3, 4, 22, 24, 28, 29} \* 0x3140001E
FinalLife == {0, 1, 28, 29}          \* 0x30000003

KeyCommands == {"debugkey", "exipkey", "signhash"}
CsvCommands == KeyCommands \cup {"otp_write", "factory"}

(* The words a command accepts a CSV row for.                              *)
Accepts(c, w) ==
  \/ c = "debugkey"  /\ w \in 12..15
  \/ c = "exipkey"   /\ w \in 96..99
  \/ c = "signhash"  /\ w \in 80..87
  \/ c = "otp_write" /\ w \in 0..127
  \/ c = "factory"   /\ (w = 7 \/ w = 64 \/ w \in 32..63)

(* The lock bit a key command sets when it is done; signhash sets none.    *)
KeyLock(c) == IF c = "debugkey" THEN {3} ELSE IF c = "exipkey" THEN {24} ELSE {}

VARIABLES fuse,     \* the chip: word -> set of bits burned
          cmd,      \* the command running, or "none"
          pc,       \* where in that command
          todo,     \* factory: random words still to visit
          table,    \* the CSV dictionary, in order
          i,        \* the row looked at next
          lockview, \* lock_value (otp_write: actual_value)
          verdict,  \* the banner otp_lifecycle_enable printed last
          raw       \* "yes" once otp_write burned word 0 or 1 as told

host == <<cmd, pc, todo, table, i, lockview>>
vars == <<fuse, cmd, pc, todo, table, i, lockview, verdict, raw>>

Idle == /\ cmd' = "none" /\ pc' = "idle" /\ todo' = {} /\ table' = <<>>
        /\ i' = 1 /\ lockview' = {}

Init == /\ fuse \in [Words -> {Blank}]
        /\ cmd = "none" /\ pc = "idle" /\ todo = {} /\ table = <<>>
        /\ i = 1 /\ lockview = {}
        /\ verdict = "none" /\ raw = "no"

-----------------------------------------------------------------------------
(* The chip: programming a word sets bits, and a locked word ignores it.   *)
Locked(w) == (w \div 4) \in fuse[0]
Programmed(w, v) == IF Locked(w) THEN fuse ELSE [fuse EXCEPT ![w] = @ \cup v]

(* write_memory: its result is dropped by every caller, and an exception   *)
(* is caught by them, so a lost write goes on like a good one.             *)
WriteMemory(w, v) ==
  \/ fuse' = Programmed(w, v)
  \/ "write" \in Faults /\ fuse' = fuse

(* read_memory answers with the word; a word the chip does not have, or a  *)
(* fault, makes it an error.                                               *)
MayRead(w) == w \in Words
MayFail(w) == w \notin Words \/ "read" \in Faults

-----------------------------------------------------------------------------
(* A CSV command other than factory: read HARD_LOCK, then the file.        *)
StartRows(c, f) ==
  /\ cmd = "none" /\ c \in CsvCommands \ {"factory"}
  /\ cmd' = c /\ pc' = "burn" /\ table' = ReadCsv(f) /\ i' = 1
  /\ lockview' = fuse[0]
  /\ UNCHANGED <<fuse, todo, verdict, raw>>

(* factory refuses a chip whose HARD_LOCK or LIFECYCLE is not blank.       *)
StartFactory(f) ==
  /\ cmd = "none" /\ fuse[0] = Blank /\ fuse[1] = Blank
  /\ cmd' = "factory" /\ pc' = "fill" /\ todo' = RandomWords
  /\ table' = ReadCsv(f) /\ i' = 1 /\ lockview' = {}
  /\ UNCHANGED <<fuse, verdict, raw>>

(* factory puts a random number in each blank identity or key word.        *)
FillWord ==
  /\ pc = "fill"
  /\ IF todo = {}
     THEN pc' = "burn" /\ UNCHANGED <<todo, fuse>>
     ELSE \E w \in todo :
            /\ \A v \in todo : w <= v
            /\ todo' = todo \ {w}
            /\ pc' = pc
            /\ \/ MayFail(w) /\ UNCHANGED fuse
               \/ fuse[w] # Blank /\ UNCHANGED fuse
               \/ fuse[w] = Blank /\ \E v \in Values : WriteMemory(w, v)
  /\ UNCHANGED <<cmd, table, i, lockview, verdict, raw>>

-----------------------------------------------------------------------------
Word == table[i][1]
Value == table[i][2]

(* The lock test of the row: factory has none, the others test the number  *)
(* they hold, which in otp_write is the word read last.                    *)
SaysLocked == cmd # "factory" /\ (Word \div 4) \in lockview

(* The row is passed over: out of range, said to be locked, or unreadable. *)
SkipRow ==
  /\ pc = "burn" /\ i <= Len(table)
  /\ ~Accepts(cmd, Word) \/ SaysLocked \/ MayFail(Word)
  /\ i' = i + 1
  /\ UNCHANGED <<fuse, cmd, pc, todo, table, lockview, verdict, raw>>

(* Mutant: a differing word is programmed whatever it holds.               *)
MayBurnAnything == fuse[Word] # Value

(* Only otp_write programs a word that already holds something: word 0.    *)
MayBurn == fuse[Word] = Blank \/ (cmd = "otp_write" /\ Word = 0)

(* The word is read, and programmed when it differs and is blank.          *)
BurnRow ==
  /\ pc = "burn" /\ i <= Len(table)
  /\ Accepts(cmd, Word) /\ ~SaysLocked /\ MayRead(Word)
  /\ IF fuse[Word] # Value /\ MayBurn
     THEN WriteMemory(Word, Value)
     ELSE UNCHANGED fuse
  /\ lockview' = IF cmd = "otp_write" THEN fuse[Word] ELSE lockview
  /\ raw' = IF fuse' # fuse /\ Word \in {0, 1} THEN "yes" ELSE raw
  /\ i' = i + 1
  /\ UNCHANGED <<cmd, pc, todo, table, verdict>>

(* otp_write ends here; the others go on to verify.                        *)
RowsDone ==
  /\ pc = "burn" /\ i > Len(table)
  /\ IF cmd = "otp_write" THEN Idle
     ELSE pc' = "verify" /\ UNCHANGED <<cmd, todo, table, i, lockview>>
  /\ UNCHANGED <<fuse, verdict, raw>>

-----------------------------------------------------------------------------
(* A row is compared unless a key command holds it out of range or locked; *)
(* factory and signhash compare every row.                                 *)
Compares(c, w) ==
  \/ c \in {"factory", "signhash"}
  \/ Accepts(c, w) /\ (w \div 4) \notin lockview

(* Mutant: the loop remembers only its last comparison.                    *)
RowsMatchLast == LET k == Len(table)
                 IN  k > 0 /\ Compares(cmd, table[k][1]) =>
                       table[k][1] \in Words /\ fuse[table[k][1]] = table[k][2]

RowsMatch == \A k \in 1..Len(table) :
               Compares(cmd, table[k][1]) =>
                 table[k][1] \in Words /\ fuse[table[k][1]] = table[k][2]

Filled == \A w \in RandomWords : fuse[w] # Blank

(* Mutant: the identity and key words are not looked at again.             *)
VerifiedUnfilled ==
  /\ pc = "verify"
  /\ RowsMatch
  /\ IF KeyLock(cmd) \subseteq lockview /\ cmd # "factory"
     THEN Idle
     ELSE pc' = "lock" /\ UNCHANGED <<cmd, todo, table, i, lockview>>
  /\ UNCHANGED <<fuse, verdict, raw>>

(* Only reads, so it is one step: everything is as it should be and the    *)
(* command goes on to its lock, or it returns.                             *)
Verified ==
  /\ pc = "verify"
  /\ cmd = "factory" => Filled
  /\ RowsMatch
  /\ IF KeyLock(cmd) \subseteq lockview /\ cmd # "factory"
     THEN Idle
     ELSE pc' = "lock" /\ UNCHANGED <<cmd, todo, table, i, lockview>>
  /\ UNCHANGED <<fuse, verdict, raw>>

NotVerified ==
  /\ pc = "verify"
  /\ "read" \in Faults \/ ~RowsMatch \/ (cmd = "factory" /\ ~Filled)
  /\ Idle
  /\ UNCHANGED <<fuse, verdict, raw>>

(* HARD_LOCK is written with the bits held plus the command's own; after   *)
(* it factory still has LIFECYCLE to write, unless the write raised.       *)
WriteLock ==
  /\ pc = "lock"
  /\ LET lock == IF cmd = "factory" THEN FactoryLock ELSE lockview \cup KeyLock(cmd)
     IN  WriteMemory(0, lock)
  /\ \/ cmd = "factory" /\ pc' = "life" /\ UNCHANGED <<cmd, todo, table, i, lockview>>
     \/ (cmd = "factory" => "write" \in Faults) /\ Idle
  /\ UNCHANGED <<verdict, raw>>

WriteLife ==
  /\ pc = "life"
  /\ WriteMemory(1, FactoryLife)
  /\ Idle
  /\ UNCHANGED <<verdict, raw>>

-----------------------------------------------------------------------------
(* otp_exip_enable: bit 12 of word 24 is set on what was read there.       *)
ExipEnable ==
  /\ cmd = "none" /\ 24 \in Words
  /\ WriteMemory(24, fuse[24] \cup {12})
  /\ UNCHANGED <<cmd, pc, todo, table, i, lockview, verdict, raw>>

(* Mutant: the exact value of HARD_LOCK is not asked for.                  *)
StartLifecycleUnlocked ==
  /\ cmd = "none"
  /\ cmd' = "lifecycle" /\ pc' = "final" /\ lockview' = fuse[0]
  /\ UNCHANGED <<fuse, todo, table, i, verdict, raw>>

(* otp_lifecycle_enable: only on a chip with exactly the full lock.        *)
StartLifecycle ==
  /\ cmd = "none" /\ fuse[0] = FullLock
  /\ cmd' = "lifecycle" /\ pc' = "final" /\ lockview' = fuse[0]
  /\ UNCHANGED <<fuse, todo, table, i, verdict, raw>>

WriteFinal ==
  /\ pc = "final"
  /\ WriteMemory(1, fuse[1] \cup FinalLife)
  /\ \/ pc' = "banner" /\ UNCHANGED <<cmd, todo, table, i, lockview>>
     \/ "write" \in Faults /\ Idle
  /\ UNCHANGED <<verdict, raw>>

Banner ==
  /\ pc = "banner"
  /\ \/ verdict' = IF fuse[1] = FinalLife THEN "PASS" ELSE "FAIL"
     \/ "read" \in Faults /\ verdict' = verdict
  /\ Idle
  /\ UNCHANGED <<fuse, raw>>

(* The host dies, is interrupted, or an exception ends the command.        *)
Crash ==
  /\ "crash" \in Faults /\ cmd # "none"
  /\ Idle
  /\ UNCHANGED <<fuse, verdict, raw>>

Start == \E f \in Files : StartFactory(f) \/ \E c \in CsvCommands : StartRows(c, f)

Next == \/ Start \/ FillWord \/ SkipRow \/ BurnRow \/ RowsDone
        \/ Verified \/ NotVerified \/ WriteLock \/ WriteLife
        \/ ExipEnable \/ StartLifecycle \/ WriteFinal \/ Banner
        \/ Crash

Spec == Init /\ [][Next]_vars

-----------------------------------------------------------------------------

(* otp_dump reads the fuses block by block and puts zeros for a block one  *)
(* of whose mask bits is set in HARD_LOCK.                                 *)
DumpMask(w) ==
  CASE w \in 12..15   -> {3}
    [] w \in 96..99   -> {24}
    [] w \in 100..103 -> {25}
    [] w \in 104..107 -> {26}
    [] w \in 108..111 -> {27}
    [] w \in 112..119 -> {28, 29}
    [] w \in 120..127 -> {30, 31}
    [] OTHER          -> {}
Dumped(w) == IF DumpMask(w) \cap fuse[0] # {} THEN Blank ELSE fuse[w]

(* otp_summary prints dashes for a key block that is_locked finds locked,  *)
(* testing the bit of the block's own words, and the dumped words else;    *)
(* the line of the public key hash prints word 85 in the place of 86.      *)
Dashes == {-1}
KeyBlock(w) == w \in 12..15 \/ w \in 96..119
Printed(w) == IF KeyBlock(w) /\ Locked(w) THEN Dashes
              ELSE Dumped(IF w = 86 THEN 85 ELSE w)
-----------------------------------------------------------------------------
(* Type invariant.                                                         *)
TypeOK ==
  /\ fuse \in [Words -> SUBSET Bits]
  /\ cmd \in CsvCommands \cup {"none", "lifecycle"}
  /\ pc \in {"idle", "fill", "burn", "verify", "lock", "life", "final", "banner"}
  /\ todo \subseteq RandomWords
  /\ table \in Seq(Int \X SUBSET Bits)
  /\ i \in Nat \ {0}
  /\ lockview \subseteq Bits
  /\ verdict \in {"none", "PASS", "FAIL"}
  /\ raw \in {"yes", "no"}

(* A chip whose identity and key region is locked, or whose life cycle has *)
(* left blank, has a number in every identity and key word, whatever was   *)
(* interrupted, lost or repeated on the way (factory verifies before its   *)
(* lock); raw writes of words 0 and 1 are the operator's own affair.       *)
LifecycleMeansFilled ==
  raw = "no" => (fuse[1] # Blank \/ fuse[0] \cap FactoryLock # {} => Filled)

(* The PASS banner means a finished chip: every lock of the full set is    *)
(* set, the life cycle is final, and no identity or key word is blank.     *)
PassMeansFinished ==
  verdict = "PASS" /\ raw = "no" =>
    FullLock \subseteq fuse[0] /\ fuse[1] = FinalLife /\ Filled

(* When a key command locks its key, every word of the key that its file   *)
(* lists holds what the file says: a lost or failed write never ends in a  *)
(* locked wrong key.                                                       *)
SealedKeysMatch ==
  [][(cmd \in KeyCommands /\ fuse'[0] # fuse[0]) =>
       \A k \in 1..Len(table) :
         Accepts(cmd, table[k][1]) => fuse'[table[k][1]] = table[k][2]]_vars

(* No command programs a second value over a word that holds one, so a     *)
(* command run again after a crash keeps what the first run burned (words  *)
(* 0, 1 and 24 collect bits and are meant to be written again).            *)
BurnedStays ==
  [][\A w \in Words \ {0, 1, 24} : fuse[w] # Blank => fuse'[w] = fuse[w]]_vars

(* The summary's figures are the chip's: what it does not replace by       *)
(* dashes it read, so its two lock tests agree.  The two halves of the     *)
(* master key share one block of the dump, so they must be locked alike;   *)
(* word 86 is not printed at all.                                          *)
SummaryTruthful ==
  (28 \in fuse[0] <=> 29 \in fuse[0]) =>
    \A w \in Words \ {86} : Printed(w) \in {Dashes, fuse[w]}

(* The comment on otp_write's test says it tells whether the 4-word region *)
(* is locked.                                                              *)
LockTestIsTrue ==
  (cmd = "otp_write" /\ pc = "burn" /\ i <= Len(table)) => (SaysLocked <=> Locked(Word))
=============================================================================
