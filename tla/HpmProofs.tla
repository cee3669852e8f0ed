------------------------------ MODULE HpmProofs ------------------------------
(* Proofs about HpmControl, for any bound on the monitor's deaths and any  *)
(* set of faults.                                                          *)
EXTENDS HpmControl, TLAPS

(* A program "owes" a write when it comes before the next place where it   *)
(* may stop; one that died owes what its next start does first.            *)
MonitorOwesBootLow == {"down", "start_boot", "boot0"} \union Phase1
FlasherOwesBootLow == Programming \union {"normal", "r_boot", "killed", "torn"}

MonitorOwesReset ==
  {"down", "start_boot", "start_reset", "boot0", "reset2"} \union Phase1
FlasherOwesReset == FlasherOwesBootLow \union {"rehold", "r_reset"}

FlasherAtRest == {"leave", "idle", "done", "failed"}

(* A high BOOT, a held chip and a chip in its BootROM are each somebody's  *)
(* to put right, whichever of the two wrote last.                          *)
BootOwed == boot = 1 => mpc \in MonitorOwesBootLow \/ fpc \in FlasherOwesBootLow
RomOwed == chip = "rom" => mpc \in MonitorOwesReset \/ fpc \in FlasherOwesReset
ReleaseOwed == reset = 0 => mpc \notin Watching \/ fpc \notin FlasherAtRest
HeldIsLow == chip = "held" <=> reset = 0

UsbTellsChip ==
  /\ usb = Firmware => chip = "firmware"
  /\ usb = BootROM => chip = "rom"

WriteTracked ==
  /\ fpc = "writing" => handle \in {"open", "lost"}
  /\ fpc \in Leaving \union {"done"} => flash = "new" \/ handle \in {"lost", "refused"}

IInv == TypeOK /\ BootOwed /\ RomOwed /\ ReleaseOwed /\ HeldIsLow
        /\ UsbTellsChip /\ WriteTracked

USE HpmAssumption

LEMMA InitIInv == Init => IInv
BY DEF Init, IInv, TypeOK, BootOwed, RomOwed, ReleaseOwed, HeldIsLow, UsbTellsChip,
       WriteTracked, Startup, Phase1, Phase2, Watching, Programming, Leaving, Restoring,
       Ended, Firmware, BootROM

(* The invariant through the steps of each program.                        *)
LEMMA MonitorIInv ==
  ASSUME IInv, Monitor \/ MonitorDies
  PROVE  IInv'
<1> USE DEF IInv, TypeOK, BootOwed, RomOwed, ReleaseOwed, HeldIsLow, UsbTellsChip,
            WriteTracked, Startup, Phase1, Phase2, Watching, Programming, Leaving,
            Restoring, Ended, Firmware, BootROM, MonitorOwesBootLow, FlasherOwesBootLow,
            MonitorOwesReset, FlasherOwesReset, FlasherAtRest, board
<1>1. CASE StartupReset
  BY <1>1 DEF StartupReset, MonitorDrives, DriveBoot, DriveReset
<1>2. CASE Look
  BY <1>2 DEF Look
<1>3. CASE ResetTwice
  BY <1>3 DEF ResetTwice, MonitorDrives, DriveBoot, DriveReset
<1>4. CASE SleepEnds
  BY <1>4 DEF SleepEnds
<1>5. CASE MonitorRestarts
  BY <1>5 DEF MonitorRestarts
<1>6. CASE MonitorDies
  BY <1>6 DEF MonitorDies
<1> QED BY <1>1, <1>2, <1>3, <1>4, <1>5, <1>6 DEF Monitor

LEMMA FlasherIInv ==
  ASSUME IInv, Flasher \/ OperatorFlashes \/ Signal \/ Killed
  PROVE  IInv'
<1> USE DEF IInv, TypeOK, BootOwed, RomOwed, ReleaseOwed, HeldIsLow, UsbTellsChip,
            WriteTracked, Startup, Phase1, Phase2, Watching, Programming, Leaving,
            Restoring, Ended, Firmware, BootROM, MonitorOwesBootLow, FlasherOwesBootLow,
            MonitorOwesReset, FlasherOwesReset, FlasherAtRest, board
<1>1. CASE EnterBootROM
  BY <1>1 DEF EnterBootROM, FlashDrives, DriveBoot, DriveReset
<1>2. CASE EraseFlash
  BY <1>2 DEF EraseFlash
<1>3. CASE WriteFlash
  BY <1>3 DEF WriteFlash
<1>4. CASE WriteBegins \/ WriteEnds
  BY <1>4 DEF WriteBegins, WriteEnds
<1>5. CASE ReturnToNormalBoot
  BY <1>5 DEF ReturnToNormalBoot, FlashDrives, DriveBoot, DriveReset
<1>6. CASE Leave
  BY <1>6 DEF Leave
<1>7. CASE RestoreNormalBoot
  BY <1>7 DEF RestoreNormalBoot, FlashDrives, DriveBoot, DriveReset
<1>8. CASE OperatorFlashes
  BY <1>8 DEF OperatorFlashes
<1>9. CASE Signal
  BY <1>9 DEF Signal
<1>10. CASE Killed
  BY <1>10 DEF Killed
<1> QED
  BY <1>1, <1>2, <1>3, <1>4, <1>5, <1>6, <1>7, <1>8, <1>9, <1>10 DEF Flasher

LEMMA Inductive == IInv /\ [Next]_vars => IInv'
<1> SUFFICES ASSUME IInv, [Next]_vars PROVE IInv'
  OBVIOUS
<1>1. CASE Monitor \/ MonitorDies
  BY <1>1, MonitorIInv
<1>2. CASE Flasher \/ OperatorFlashes \/ Signal \/ Killed
  BY <1>2, FlasherIInv
<1>3. CASE Enumerates \/ FirmwareHangs
  BY <1>3 DEF Enumerates, FirmwareHangs, IInv, TypeOK, BootOwed, RomOwed,
              ReleaseOwed, HeldIsLow, UsbTellsChip, WriteTracked,
              Firmware, BootROM
<1>4. CASE UNCHANGED vars
  BY <1>4 DEF vars, IInv, TypeOK, BootOwed, RomOwed, ReleaseOwed, HeldIsLow,
              UsbTellsChip, WriteTracked, Firmware, BootROM
<1> QED BY <1>1, <1>2, <1>3, <1>4 DEF Next

LEMMA AlwaysIInv == Spec => []IInv
BY InitIInv, Inductive, PTL DEF Spec

(* The lines, the chip and both programs stay within their types.          *)
THEOREM HpmTyping == Spec => []TypeOK
<1>1. IInv => TypeOK
  BY DEF IInv
<1> QED BY <1>1, AlwaysIInv, PTL

(* Two programs that share no lock leave normal boot behind, in every      *)
(* interleaving of their writes, their deaths and their signals.           *)
THEOREM NormalBootRestored == Spec => []QuietMeansNormalBoot
<1>1. IInv => QuietMeansNormalBoot
  BY DEF IInv, TypeOK, BootOwed, RomOwed, ReleaseOwed, HeldIsLow,
         QuietMeansNormalBoot, Watching, Phase1, Programming, FlasherAtRest,
         MonitorOwesBootLow, FlasherOwesBootLow, MonitorOwesReset, FlasherOwesReset
<1> QED BY <1>1, AlwaysIInv, PTL

(* Unless the chip refused a command or was reset while it was open, Done  *)
(* means that this run's firmware is written (flash_hpm.sh:103-116).       *)
THEOREM DoneIsHonestUndisturbed == Spec => []DoneUnlessDisturbed
<1>1. IInv => DoneUnlessDisturbed
  BY DEF IInv, WriteTracked, DoneUnlessDisturbed, Leaving
<1> QED BY <1>1, AlwaysIInv, PTL
=============================================================================
