------------------------------ MODULE OtpProofs ------------------------------
(* Proofs about OtpFactory, for any fuse words, values, files and faults.  *)
EXTENDS OtpFactory, TLAPS

USE WordsAssumption, ValuesAssumption, FilesAssumption

(* Where each command can be.                                              *)
Control ==
  /\ cmd = "none" <=> pc = "idle"
  /\ pc \in {"fill", "life"} => cmd = "factory"
  /\ pc = "burn" => cmd \in CsvCommands
  /\ pc \in {"verify", "lock"} => cmd \in KeyCommands \cup {"factory"}
  /\ pc \in {"final", "banner"} <=> cmd = "lifecycle"

(* What a command has established about the chip by the time it locks.     *)
Established ==
  /\ cmd = "factory" /\ pc \in {"lock", "life"} => Filled
  /\ cmd \in KeyCommands => lockview = fuse[0]
  /\ cmd = "lifecycle" => FullLock \subseteq fuse[0]
  /\ cmd = "factory" => ~(verdict = "PASS" /\ raw = "no")
  /\ cmd \in KeyCommands /\ pc = "lock" =>
       \A k \in 1..Len(table) :
         Accepts(cmd, table[k][1]) =>
           table[k][1] \in Words /\ fuse[table[k][1]] = table[k][2]

IInv == TypeOK /\ Control /\ Established /\ LifecycleMeansFilled /\ PassMeansFinished

-----------------------------------------------------------------------------
(* To program a word adds bits to it and leaves the others alone.          *)
LEMMA Writing ==
  ASSUME TypeOK, NEW w \in Words, NEW v \in SUBSET Bits, WriteMemory(w, v)
  PROVE  /\ fuse' \in [Words -> SUBSET Bits]
         /\ \A x \in Words : x # w => fuse'[x] = fuse[x]
         /\ \A x \in Words : fuse[x] \subseteq fuse'[x]
         /\ fuse'[w] \subseteq fuse[w] \cup v
<1>1. fuse \in [Words -> SUBSET Bits]
  BY DEF TypeOK
<1>2. CASE fuse' = fuse
  BY <1>1, <1>2
<1>3. CASE fuse' = [fuse EXCEPT ![w] = @ \cup v]
  BY <1>1, <1>3
<1> QED BY <1>2, <1>3 DEF WriteMemory, Programmed

(* The rows of a file are numbers and sets of bits.                        *)
LEMMA Rows ==
  ASSUME TypeOK
  PROVE  \A k \in 1..Len(table) : table[k][1] \in Int /\ table[k][2] \in SUBSET Bits
<1>1. table \in Seq(Int \X SUBSET Bits)
  BY DEF TypeOK
<1>2. \A k \in 1..Len(table) : table[k] \in Int \X SUBSET Bits
  BY <1>1
<1> QED BY <1>2

LEMMA RowAtI ==
  ASSUME TypeOK, i <= Len(table)
  PROVE  Word \in Int /\ Value \in SUBSET Bits
<1>1. table \in Seq(Int \X SUBSET Bits) /\ i \in Nat \ {0}
  BY DEF TypeOK
<1>2. Len(table) \in Nat
  BY <1>1
<1>3. i \in 1..Len(table)
  BY <1>1, <1>2
<1> QED BY <1>3, Rows DEF Word, Value

LEMMA Masks ==
  /\ FactoryLock \in SUBSET Bits /\ FactoryLife \in SUBSET Bits
  /\ FullLock \in SUBSET Bits /\ FinalLife \in SUBSET Bits
  /\ \A c \in KeyCommands : KeyLock(c) \in SUBSET Bits /\ KeyLock(c) \cap FactoryLock = {}
  /\ 0 \in Words /\ 1 \in Words
BY DEF FactoryLock, FactoryLife, FullLock, FinalLife, Bits, KeyCommands, KeyLock

(* A word with something in it is never rewritten except 0, 1 and 24, so   *)
(* Filled is kept by every step: none of those is an identity or key word. *)
LEMMA FilledStays ==
  ASSUME TypeOK, fuse' \in [Words -> SUBSET Bits],
         \A x \in Words : fuse[x] \subseteq fuse'[x], Filled
  PROVE  Filled'
<1>1. \A w \in RandomWords : w \in Words
  BY DEF RandomWords
<1> QED BY <1>1 DEF Filled, Blank

LEMMA OtherWords == \A w \in RandomWords : w # 0 /\ w # 1 /\ w # 24
BY DEF RandomWords, UidWords, UuidWords, MkWords

-----------------------------------------------------------------------------
(* Every step only adds bits to the fuses, and says which word.            *)
Grows == /\ fuse' \in [Words -> SUBSET Bits]
         /\ \A x \in Words : fuse[x] \subseteq fuse'[x]

LEMMA FillGrows == ASSUME TypeOK, Control, FillWord
                   PROVE  /\ Grows
                          /\ \A w \in Words : fuse[w] # Blank \/ w \notin RandomWords => fuse'[w] = fuse[w]
<1>1. todo \subseteq RandomWords /\ RandomWords \subseteq Words /\ fuse \in [Words -> SUBSET Bits]
  BY DEF TypeOK, RandomWords
<1>2. CASE fuse' = fuse
  BY <1>1, <1>2 DEF Grows
<1>3. CASE fuse' # fuse
  <2>1. PICK w \in todo : fuse[w] = Blank /\ \E v \in Values : WriteMemory(w, v)
    BY <1>3 DEF FillWord
  <2>2. PICK v \in Values : WriteMemory(w, v)
    BY <2>1
  <2>3. w \in Words /\ w \in RandomWords /\ v \in SUBSET Bits
    BY <1>1
  <2> QED BY <2>1, <2>2, <2>3, Writing DEF Grows
<1> QED BY <1>2, <1>3

LEMMA BurnGrows == ASSUME TypeOK, BurnRow
                   PROVE  /\ Grows
                          /\ Word \in Words /\ Accepts(cmd, Word)
                          /\ \A w \in Words : w # Word => fuse'[w] = fuse[w]
                          /\ Word # 0 /\ fuse[Word] # Blank => fuse' = fuse
<1>1. Word \in Words /\ Accepts(cmd, Word) /\ Value \in SUBSET Bits /\ fuse \in [Words -> SUBSET Bits]
  BY RowAtI DEF BurnRow, MayRead, TypeOK
<1>2. CASE fuse' = fuse
  BY <1>1, <1>2 DEF Grows
<1>3. CASE WriteMemory(Word, Value) /\ MayBurn
  <2>1. /\ fuse' \in [Words -> SUBSET Bits]
        /\ \A x \in Words : x # Word => fuse'[x] = fuse[x]
        /\ \A x \in Words : fuse[x] \subseteq fuse'[x]
    BY <1>1, <1>3, Writing
  <2> QED BY <1>1, <1>3, <2>1 DEF Grows, MayBurn
<1> QED BY <1>2, <1>3 DEF BurnRow
-----------------------------------------------------------------------------
LEMMA InitIInv == Init => IInv
<1> SUFFICES ASSUME Init PROVE IInv
  OBVIOUS
<1>1. fuse \in [Words -> SUBSET Bits]
  BY DEF Init, Blank
<1>2. TypeOK
  BY <1>1 DEF Init, TypeOK, CsvCommands
<1>3. Control /\ Established
  BY DEF Init, Control, Established, KeyCommands
<1>4. LifecycleMeansFilled /\ PassMeansFinished
  BY Masks DEF Init, LifecycleMeansFilled, PassMeansFinished, Blank
<1> QED BY <1>2, <1>3, <1>4 DEF IInv

(* A step that leaves the fuses, the banner and raw alone, and leaves the  *)
(* command idle.                                                           *)
LEMMA IdleIInv ==
  ASSUME IInv, Idle, Grows, raw' \in {"yes", "no"}, verdict' \in {"none", "PASS", "FAIL"},
         LifecycleMeansFilled', PassMeansFinished'
  PROVE  IInv'
<1>1. TypeOK'
  BY DEF Idle, Grows, TypeOK, IInv, CsvCommands
<1>2. Control' /\ Established'
  BY DEF Idle, Control, Established, KeyCommands
<1> QED BY <1>1, <1>2 DEF IInv

(* A step that writes neither word 0 nor word 1 keeps what they imply.     *)
LEMMA LocksKept ==
  ASSUME IInv, Grows, fuse'[0] = fuse[0], fuse'[1] = fuse[1], raw' = raw, verdict' = verdict
  PROVE  LifecycleMeansFilled' /\ PassMeansFinished'
<1>1. Filled => Filled'
  BY FilledStays DEF IInv, Grows
<1> QED BY <1>1 DEF IInv, LifecycleMeansFilled, PassMeansFinished

LEMMA SameFuses == ASSUME TypeOK, UNCHANGED fuse PROVE Grows
BY DEF TypeOK, Grows

LEMMA StartIInv == ASSUME IInv, Start PROVE IInv'
<1>0. Grows /\ UNCHANGED <<fuse, verdict, raw>>
  BY SameFuses DEF Start, StartFactory, StartRows, IInv
<1>1. LifecycleMeansFilled' /\ PassMeansFinished'
  BY <1>0, LocksKept
<1>2. PICK f \in Files : StartFactory(f) \/ \E c \in CsvCommands : StartRows(c, f)
  BY DEF Start
<1>3. ReadCsv(f) \in Seq(Int \X SUBSET Bits)
  BY DEF Tables
<1>4. fuse \in [Words -> SUBSET Bits] /\ fuse[0] \subseteq Bits
  BY Masks DEF IInv, TypeOK
<1>5. CASE StartFactory(f)
  <2>1. TypeOK'
    BY <1>3, <1>4, <1>5 DEF StartFactory, IInv, TypeOK, CsvCommands
  <2>2. ~(FullLock \subseteq fuse[0])
    BY <1>5 DEF StartFactory, FullLock, Blank
  <2>3. Control' /\ Established'
    BY <1>5, <2>2 DEF StartFactory, IInv, Control, Established, KeyCommands, PassMeansFinished
  <2> QED BY <1>1, <2>1, <2>3 DEF IInv
<1>6. ASSUME NEW c \in CsvCommands, StartRows(c, f) PROVE IInv'
  <2>1. TypeOK'
    BY <1>3, <1>4, <1>6 DEF StartRows, IInv, TypeOK
  <2>2. Control' /\ Established'
    BY <1>6 DEF StartRows, IInv, Control, Established, KeyCommands, CsvCommands
  <2> QED BY <1>1, <2>1, <2>2 DEF IInv
<1> QED BY <1>2, <1>5, <1>6

LEMMA FillIInv == ASSUME IInv, FillWord PROVE IInv'
<1>1. Grows /\ fuse'[0] = fuse[0] /\ fuse'[1] = fuse[1]
  BY FillGrows, OtherWords, Masks DEF IInv
<1>2. UNCHANGED <<cmd, table, i, lockview, verdict, raw>> /\ pc = "fill" /\ cmd = "factory"
  BY DEF FillWord, IInv, Control
<1>3. LifecycleMeansFilled' /\ PassMeansFinished'
  BY <1>1, <1>2, LocksKept
<1>4. pc' \in {"fill", "burn"} /\ todo' \subseteq todo
  BY DEF FillWord
<1>5. TypeOK'
  BY <1>1, <1>2, <1>4 DEF IInv, TypeOK, Grows
<1>6. Control' /\ Established'
  BY <1>1, <1>2, <1>4 DEF IInv, Control, Established, CsvCommands, KeyCommands
<1> QED BY <1>3, <1>5, <1>6 DEF IInv

LEMMA SkipIInv == ASSUME IInv, SkipRow \/ RowsDone PROVE IInv'
<1>1. Grows /\ UNCHANGED <<fuse, verdict, raw>>
  BY SameFuses DEF SkipRow, RowsDone, IInv
<1>2. LifecycleMeansFilled' /\ PassMeansFinished'
  BY <1>1, LocksKept
<1>3. CASE Idle
  BY <1>1, <1>2, <1>3, IdleIInv DEF IInv, TypeOK
<1>4. CASE SkipRow
  <2>1. TypeOK'
    BY <1>4, <1>1 DEF SkipRow, IInv, TypeOK
  <2>2. Control' /\ Established'
    BY <1>4 DEF SkipRow, IInv, Control, Established
  <2> QED BY <1>2, <2>1, <2>2 DEF IInv
<1>5. CASE RowsDone /\ cmd # "otp_write"
  <2>1. pc' = "verify" /\ UNCHANGED <<cmd, todo, table, i, lockview>> /\ pc = "burn"
    BY <1>5 DEF RowsDone
  <2>2. TypeOK'
    BY <1>1, <2>1 DEF IInv, TypeOK
  <2>3. Control' /\ Established'
    BY <1>1, <1>5, <2>1 DEF IInv, Control, Established, CsvCommands
  <2> QED BY <1>2, <2>2, <2>3 DEF IInv
<1> QED BY <1>3, <1>4, <1>5 DEF RowsDone

LEMMA BurnIInv == ASSUME IInv, BurnRow PROVE IInv'
<1>1. /\ Grows /\ Word \in Words /\ Accepts(cmd, Word)
      /\ \A w \in Words : w # Word => fuse'[w] = fuse[w]
  BY BurnGrows DEF IInv
<1>2. pc = "burn" /\ UNCHANGED <<cmd, pc, todo, table, verdict>> /\ i' = i + 1
  BY DEF BurnRow
<1>3. cmd # "otp_write" => Word \notin {0, 1}
  BY <1>1 DEF Accepts
<1>4. Filled => Filled'
  BY <1>1, FilledStays DEF IInv, Grows
<1>5. raw' \in {"yes", "no"} /\ (raw' = "no" => raw = "no" /\ fuse'[0] = fuse[0] /\ fuse'[1] = fuse[1])
  BY <1>1, Masks DEF BurnRow, IInv, TypeOK
<1>6. LifecycleMeansFilled' /\ PassMeansFinished'
  BY <1>2, <1>4, <1>5 DEF IInv, LifecycleMeansFilled, PassMeansFinished
<1>7. fuse[Word] \in SUBSET Bits
  BY <1>1 DEF IInv, TypeOK
<1>8. TypeOK'
  BY <1>1, <1>2, <1>5, <1>7 DEF BurnRow, IInv, TypeOK, Grows
<1>9. cmd # "otp_write" => lockview' = lockview /\ fuse'[0] = fuse[0]
  BY <1>1, <1>3, Masks DEF BurnRow
<1>10. Control' /\ Established'
  BY <1>2, <1>5, <1>9 DEF IInv, Control, Established, CsvCommands, KeyCommands
<1> QED BY <1>6, <1>8, <1>10 DEF IInv
(* The rows a key command verified are the rows its lock is written for.   *)
LEMMA KeyRegion ==
  \A c \in KeyCommands, w \in Int :
    Accepts(c, w) => KeyLock(c) = {} \/ KeyLock(c) = {w \div 4}
<1>1. \A w \in 12..15 : w \div 4 = 3
  OBVIOUS
<1>2. \A w \in 96..99 : w \div 4 = 24
  OBVIOUS
<1> QED BY <1>1, <1>2 DEF Accepts, KeyLock, KeyCommands

LEMMA VerifyIInv == ASSUME IInv, Verified \/ NotVerified \/ Crash PROVE IInv'
<1>1. Grows /\ UNCHANGED <<fuse, verdict, raw>>
  BY SameFuses DEF Verified, NotVerified, Crash, IInv
<1>2. LifecycleMeansFilled' /\ PassMeansFinished'
  BY <1>1, LocksKept
<1>3. CASE Idle
  BY <1>1, <1>2, <1>3, IdleIInv DEF IInv, TypeOK
<1>4. CASE Verified /\ ~Idle
  <2>1. /\ pc = "verify" /\ pc' = "lock" /\ UNCHANGED <<cmd, todo, table, i, lockview>>
        /\ cmd = "factory" => Filled
        /\ RowsMatch
        /\ cmd # "factory" => ~(KeyLock(cmd) \subseteq lockview)
    BY <1>4 DEF Verified
  <2>2. TypeOK'
    BY <1>1, <2>1 DEF IInv, TypeOK
  <2>3. ASSUME cmd \in KeyCommands, NEW k \in 1..Len(table), Accepts(cmd, table[k][1])
        PROVE  table[k][1] \in Words /\ fuse[table[k][1]] = table[k][2]
    <3>1. cmd # "factory" /\ table[k][1] \in Int
      BY <2>3, Rows DEF KeyCommands, IInv
    <3>2. (table[k][1] \div 4) \notin lockview
      BY <2>1, <2>3, <3>1, KeyRegion
    <3>3. Compares(cmd, table[k][1])
      BY <2>3, <3>2 DEF Compares
    <3> QED BY <2>1, <3>3 DEF RowsMatch
  <2>4. Filled' <=> Filled
    BY <1>1 DEF Filled
  <2>5. Established'
    BY <1>1, <2>1, <2>3, <2>4 DEF IInv, Established, KeyCommands
  <2>6. Control'
    BY <2>1 DEF IInv, Control
  <2> QED BY <1>2, <2>2, <2>5, <2>6 DEF IInv
<1> QED BY <1>3, <1>4 DEF Verified, NotVerified, Crash

LEMMA LockIInv == ASSUME IInv, WriteLock PROVE IInv'
<1> DEFINE lock == IF cmd = "factory" THEN FactoryLock ELSE lockview \cup KeyLock(cmd)
<1>1. pc = "lock" /\ cmd \in KeyCommands \cup {"factory"} /\ WriteMemory(0, lock)
      /\ UNCHANGED <<verdict, raw>>
  BY DEF WriteLock, IInv, Control
<1>2. lockview \subseteq Bits /\ lock \in SUBSET Bits
  BY <1>1, Masks DEF IInv, TypeOK
<1>3. /\ Grows /\ \A x \in Words : x # 0 => fuse'[x] = fuse[x]
      /\ fuse'[0] \subseteq fuse[0] \cup lock
  BY <1>1, <1>2, Masks, Writing DEF IInv, Grows
<1>4. Filled => Filled'
  BY <1>3, FilledStays DEF IInv, Grows
<1>5. fuse'[1] = fuse[1] /\ fuse[0] \subseteq fuse'[0]
  BY <1>3, Masks DEF Grows
<1>6. CASE cmd = "factory"
  <2>1. Filled'
    BY <1>1, <1>4, <1>6 DEF IInv, Established
  <2>2. LifecycleMeansFilled' /\ PassMeansFinished'
    BY <1>1, <1>5, <1>6, <2>1 DEF IInv, Established, LifecycleMeansFilled, PassMeansFinished
  <2>3. CASE Idle
    BY <1>1, <1>3, <2>2, <2>3, IdleIInv DEF IInv, TypeOK
  <2>4. CASE pc' = "life" /\ UNCHANGED <<cmd, todo, table, i, lockview>>
    <3>1. TypeOK'
      BY <1>1, <1>3, <2>4 DEF IInv, TypeOK, Grows
    <3>2. Control' /\ Established'
      BY <1>1, <1>6, <2>1, <2>4 DEF IInv, Control, Established, KeyCommands
    <3> QED BY <2>2, <3>1, <3>2 DEF IInv
  <2> QED BY <2>3, <2>4 DEF WriteLock
<1>7. CASE cmd \in KeyCommands
  <2>1. Idle
    BY <1>7 DEF WriteLock, KeyCommands
  <2>2. fuse'[0] \cap FactoryLock \subseteq fuse[0]
    BY <1>3, <1>7, Masks DEF IInv, Established, KeyCommands
  <2>3. LifecycleMeansFilled'
    BY <1>1, <1>4, <1>5, <2>2 DEF IInv, LifecycleMeansFilled
  <2>4. PassMeansFinished'
    BY <1>1, <1>4, <1>5 DEF IInv, PassMeansFinished
  <2> QED BY <1>1, <1>3, <2>1, <2>3, <2>4, IdleIInv DEF IInv, TypeOK
<1> QED BY <1>1, <1>6, <1>7

LEMMA LifeIInv == ASSUME IInv, WriteLife PROVE IInv'
<1>1. pc = "life" /\ cmd = "factory" /\ WriteMemory(1, FactoryLife) /\ Idle /\ UNCHANGED <<verdict, raw>>
  BY DEF WriteLife, IInv, Control
<1>2. Grows
  BY <1>1, Masks, Writing DEF IInv, Grows
<1>3. Filled'
  BY <1>1, <1>2, FilledStays DEF IInv, Established, Grows
<1>4. LifecycleMeansFilled' /\ PassMeansFinished'
  BY <1>1, <1>3 DEF IInv, Established, LifecycleMeansFilled, PassMeansFinished
<1> QED BY <1>1, <1>2, <1>4, IdleIInv DEF IInv, TypeOK

LEMMA ExipWord == ASSUME TypeOK, 24 \in Words
                  PROVE  fuse[24] \cup {12} \in SUBSET Bits
<1>1. fuse[24] \in SUBSET Bits
  BY DEF TypeOK
<1>2. 12 \in Bits
  BY DEF Bits
<1> QED BY <1>1, <1>2

LEMMA ExipIInv == ASSUME IInv, ExipEnable PROVE IInv'
<1>1. /\ cmd = "none" /\ 24 \in Words /\ WriteMemory(24, fuse[24] \cup {12})
      /\ UNCHANGED <<cmd, pc, todo, table, i, lockview, verdict, raw>>
  BY DEF ExipEnable
<1>2. fuse[24] \cup {12} \in SUBSET Bits
  BY <1>1, ExipWord DEF IInv
<1>3. Grows /\ fuse'[0] = fuse[0] /\ fuse'[1] = fuse[1]
  BY <1>1, <1>2, Masks, Writing DEF IInv, Grows
<1>4. LifecycleMeansFilled' /\ PassMeansFinished'
  BY <1>1, <1>3, LocksKept
<1>5. TypeOK'
  BY <1>1, <1>3 DEF IInv, TypeOK, Grows
<1>6. Control' /\ Established'
  BY <1>1 DEF IInv, Control, Established, KeyCommands
<1> QED BY <1>4, <1>5, <1>6 DEF IInv

LEMMA FinalIInv == ASSUME IInv, StartLifecycle \/ WriteFinal \/ Banner PROVE IInv'
<1>1. CASE StartLifecycle
  <2>1. Grows /\ UNCHANGED <<fuse, verdict, raw>>
    BY <1>1, SameFuses DEF StartLifecycle, IInv
  <2>2. LifecycleMeansFilled' /\ PassMeansFinished'
    BY <2>1, LocksKept
  <2>3. TypeOK'
    BY <1>1, Masks DEF StartLifecycle, IInv, TypeOK
  <2>4. Control' /\ Established'
    BY <1>1 DEF StartLifecycle, IInv, Control, Established, KeyCommands, CsvCommands
  <2> QED BY <2>2, <2>3, <2>4 DEF IInv
<1>2. CASE WriteFinal
  <2>1. pc = "final" /\ cmd = "lifecycle" /\ WriteMemory(1, fuse[1] \cup FinalLife) /\ UNCHANGED <<verdict, raw>>
    BY <1>2 DEF WriteFinal, IInv, Control
  <2>2. fuse[1] \cup FinalLife \in SUBSET Bits
    BY Masks DEF IInv, TypeOK
  <2>3. /\ Grows /\ fuse'[0] = fuse[0]
        /\ fuse[1] \subseteq fuse'[1] /\ fuse'[1] \subseteq fuse[1] \cup FinalLife
    BY <2>1, <2>2, Masks, Writing DEF IInv, Grows
  <2>4. Filled => Filled'
    BY <2>3, FilledStays DEF IInv, Grows
  <2>5. FullLock \subseteq fuse[0] /\ FullLock \cap FactoryLock # {}
    BY <2>1 DEF IInv, Established, FullLock, FactoryLock
  <2>6. raw = "no" => Filled
    BY <2>5 DEF IInv, LifecycleMeansFilled, Blank
  <2>7. LifecycleMeansFilled' /\ PassMeansFinished'
    BY <2>1, <2>3, <2>4, <2>6 DEF IInv, LifecycleMeansFilled, PassMeansFinished
  <2>8. CASE Idle
    BY <2>1, <2>3, <2>7, <2>8, IdleIInv DEF IInv, TypeOK
  <2>9. CASE pc' = "banner" /\ UNCHANGED <<cmd, todo, table, i, lockview>>
    <3>1. TypeOK'
      BY <2>1, <2>3, <2>9 DEF IInv, TypeOK, Grows
    <3>2. Control' /\ Established'
      BY <2>1, <2>3, <2>9 DEF IInv, Control, Established, KeyCommands
    <3> QED BY <2>7, <3>1, <3>2 DEF IInv
  <2> QED BY <1>2, <2>8, <2>9 DEF WriteFinal
<1>3. CASE Banner
  <2>1. Grows /\ UNCHANGED <<fuse, raw>> /\ Idle /\ cmd = "lifecycle"
    BY <1>3, SameFuses DEF Banner, IInv, Control
  <2>2. verdict' = "PASS" => verdict = "PASS" \/ fuse[1] = FinalLife
    BY <1>3 DEF Banner
  <2>3. FullLock \subseteq fuse[0] /\ FullLock \cap FactoryLock # {}
    BY <2>1 DEF IInv, Established, FullLock, FactoryLock
  <2>4. Filled' <=> Filled
    BY <2>1 DEF Filled
  <2>5. LifecycleMeansFilled' /\ PassMeansFinished'
    BY <2>1, <2>2, <2>3, <2>4 DEF IInv, LifecycleMeansFilled, PassMeansFinished, Blank
  <2>6. verdict' \in {"none", "PASS", "FAIL"}
    BY <1>3 DEF Banner, IInv, TypeOK
  <2> QED BY <2>1, <2>5, <2>6, IdleIInv DEF IInv, TypeOK
<1> QED BY <1>1, <1>2, <1>3

LEMMA StepIInv == IInv /\ [Next]_vars => IInv'
<1> SUFFICES ASSUME IInv, [Next]_vars PROVE IInv'
  OBVIOUS
<1>1. CASE Next
  BY <1>1, StartIInv, FillIInv, SkipIInv, BurnIInv, VerifyIInv, LockIInv, LifeIInv, ExipIInv,
     FinalIInv DEF Next
<1>2. CASE UNCHANGED vars
  <2>1. TypeOK' /\ Control'
    BY <1>2 DEF vars, IInv, TypeOK, Control
  <2>2. Established'
    BY <1>2 DEF vars, IInv, Established, Filled
  <2>3. LifecycleMeansFilled' /\ PassMeansFinished'
    BY <1>2 DEF vars, IInv, LifecycleMeansFilled, PassMeansFinished, Filled
  <2> QED BY <2>1, <2>2, <2>3 DEF IInv
<1> QED BY <1>1, <1>2

(* The strengthening holds in every state of every run of the commands,    *)
(* whatever fails, crashes or is repeated (hpmtool.py:1735-2248).          *)
THEOREM Invariance == Spec => []IInv
BY InitIInv, StepIInv, PTL DEF Spec

-----------------------------------------------------------------------------
(* The fuses, the host's variables and its files stay in their types.      *)
THEOREM Typing == Spec => []TypeOK
<1>1. IInv => TypeOK
  BY DEF IInv
<1> QED BY <1>1, Invariance, PTL

(* No chip is locked or advanced with a blank identity or key word.        *)
THEOREM FilledBeforeLocked == Spec => []LifecycleMeansFilled
<1>1. IInv => LifecycleMeansFilled
  BY DEF IInv
<1> QED BY <1>1, Invariance, PTL

(* PASS is printed for finished chips only.                                *)
THEOREM PassIsTrue == Spec => []PassMeansFinished
<1>1. IInv => PassMeansFinished
  BY DEF IInv
<1> QED BY <1>1, Invariance, PTL
-----------------------------------------------------------------------------
(* Which actions touch the fuses at all, and which word of them.           *)
LEMMA Touched ==
  ASSUME IInv, [Next]_vars, fuse' # fuse
  PROVE  FillWord \/ BurnRow \/ WriteLock \/ WriteLife \/ ExipEnable \/ WriteFinal
BY DEF Next, vars, Start, StartFactory, StartRows, SkipRow, RowsDone, Verified, NotVerified,
       StartLifecycle, Banner, Crash

(* The lock is written to word 0, the life cycle to word 1.                *)
LEMMA LockTouches ==
  ASSUME IInv, WriteLock PROVE \A x \in Words : x # 0 => fuse'[x] = fuse[x]
<1> DEFINE lock == IF cmd = "factory" THEN FactoryLock ELSE lockview \cup KeyLock(cmd)
<1>1. cmd \in KeyCommands \cup {"factory"} /\ WriteMemory(0, lock)
  BY DEF WriteLock, IInv, Control
<1>2. lockview \subseteq Bits /\ lock \in SUBSET Bits
  BY <1>1, Masks DEF IInv, TypeOK
<1> QED BY <1>1, <1>2, Masks, Writing DEF IInv

LEMMA OthersTouch ==
  ASSUME IInv, WriteLife \/ ExipEnable \/ WriteFinal
  PROVE  \A x \in Words : x \notin {1, 24} => fuse'[x] = fuse[x]
<1>1. CASE WriteLife
  BY <1>1, Masks, Writing DEF WriteLife, IInv
<1>2. CASE ExipEnable
  <2>1. 24 \in Words /\ fuse[24] \cup {12} \in SUBSET Bits
    BY <1>2, ExipWord DEF ExipEnable, IInv
  <2> QED BY <1>2, <2>1, Writing DEF ExipEnable, IInv
<1>3. CASE WriteFinal
  <2>1. fuse[1] \cup FinalLife \in SUBSET Bits
    BY Masks DEF IInv, TypeOK
  <2> QED BY <1>3, <2>1, Masks, Writing DEF WriteFinal, IInv
<1> QED BY <1>1, <1>2, <1>3

(* What holds a value keeps it through every step.                         *)
LEMMA KeptStep ==
  ASSUME IInv, [Next]_vars
  PROVE  \A w \in Words \ {0, 1, 24} : fuse[w] # Blank => fuse'[w] = fuse[w]
<1> SUFFICES ASSUME NEW w \in Words \ {0, 1, 24}, fuse[w] # Blank, fuse' # fuse
             PROVE  fuse'[w] = fuse[w]
  OBVIOUS
<1>1. CASE FillWord
  BY <1>1, FillGrows DEF IInv
<1>2. CASE BurnRow
  <2>1. /\ Word \in Words /\ \A x \in Words : x # Word => fuse'[x] = fuse[x]
        /\ Word # 0 /\ fuse[Word] # Blank => fuse' = fuse
    BY <1>2, BurnGrows DEF IInv
  <2> QED BY <2>1
<1>3. CASE WriteLock
  BY <1>3, LockTouches
<1>4. CASE WriteLife \/ ExipEnable \/ WriteFinal
  BY <1>4, OthersTouch
<1> QED BY <1>1, <1>2, <1>3, <1>4, Touched

(* A word burned once keeps its value through retries and crashes.         *)
THEOREM NothingBurnedTwice == Spec => BurnedStays
<1>1. IInv /\ [Next]_vars =>
        [\A w \in Words \ {0, 1, 24} : fuse[w] # Blank => fuse'[w] = fuse[w]]_vars
  BY KeptStep
<1> QED BY <1>1, Invariance, PTL DEF Spec, BurnedStays

(* A key that is being locked has passed its verification row by row.      *)
LEMMA SealStep ==
  ASSUME IInv, [Next]_vars, cmd \in KeyCommands, fuse'[0] # fuse[0],
         NEW k \in 1..Len(table), Accepts(cmd, table[k][1])
  PROVE  fuse'[table[k][1]] = table[k][2]
<1>1. cmd # "none" /\ cmd # "factory" /\ cmd # "lifecycle" /\ cmd # "otp_write"
  BY DEF KeyCommands
<1>2. ~FillWord /\ ~WriteLife /\ ~ExipEnable /\ ~WriteFinal
  BY <1>1 DEF FillWord, WriteLife, ExipEnable, WriteFinal, IInv, Control
<1>3. ~BurnRow
  <2>1. SUFFICES ASSUME BurnRow PROVE FALSE
    OBVIOUS
  <2>2. Accepts(cmd, Word) /\ \A x \in Words : x # Word => fuse'[x] = fuse[x]
    BY <2>1, BurnGrows DEF IInv
  <2>3. Word # 0
    BY <1>1, <2>2 DEF Accepts
  <2> QED BY <2>2, <2>3, Masks
<1>4. WriteLock
  BY <1>2, <1>3, Touched
<1>5. pc = "lock"
  BY <1>4 DEF WriteLock
<1>6. table[k][1] \in Words /\ fuse[table[k][1]] = table[k][2]
  BY <1>5 DEF IInv, Established
<1>7. table[k][1] # 0
  BY <1>1 DEF Accepts
<1> QED BY <1>4, <1>6, <1>7, LockTouches

(* A key is locked only when its words are the file's.                     *)
THEOREM SealsAreVerified == Spec => SealedKeysMatch
<1>1. IInv /\ [Next]_vars =>
        [(cmd \in KeyCommands /\ fuse'[0] # fuse[0]) =>
           \A k \in 1..Len(table) :
             Accepts(cmd, table[k][1]) => fuse'[table[k][1]] = table[k][2]]_vars
  BY SealStep
<1> QED BY <1>1, Invariance, PTL DEF Spec, SealedKeysMatch
=============================================================================
