------------------------------ MODULE HpmControl ------------------------------
(***************************************************************************)
(* The two GPIO lines of the HPM controller and the two programs that      *)
(* drive them: bin/hpm_sreset.sh --monitor, kept up by hpm-sreset.service, *)
(* and bin/flash_hpm.sh, run by an operator, with the two hpmtool.py calls *)
(* it makes.  Neither program takes a lock.                                *)
(*                                                                         *)
(* A step of this module is one write to a brightness file, one lsusb, or  *)
(* one side of a USB transfer; the sleeps between them are the steps of    *)
(* the others.                                                             *)
(***************************************************************************)
EXTENDS Naturals

CONSTANTS
  MaxKill,   \* bound: deaths of the monitor
  Faults

FaultKinds == {"signal", "second_signal", "kill", "hang", "refusal"}

ASSUME HpmAssumption == MaxKill \in Nat /\ Faults \subseteq FaultKinds

Firmware == "1209:2323"
BootROM == "34b7:0008"

VARIABLES
  boot, reset,   \* the lines: hpm_boot_enable and hpm_reset
  chip,          \* what the HPM runs since reset was last released
  usb,           \* the id it has enumerated with
  flash,         \* its flash: the old image, part of one, or all of this run's
  mpc,           \* where the monitor is
  fpc,           \* where flash_hpm.sh is
  handle,        \* write_flash's USB device; "refused": it failed a command
  kills

board == <<boot, reset, chip, usb>>
vars == <<boot, reset, chip, usb, flash, mpc, fpc, handle, kills>>

Startup == {"start_boot", "start_reset", "start_run"}
Phase1 == {"boot1", "reset1", "run1"}
Phase2 == {"boot0", "reset2", "run2"}
Watching == {"look", "nap", "wait"}

Programming == {"hold", "boot", "release", "erase", "write", "writing"}
Leaving == {"normal", "rehold", "rerun", "leave"}
Restoring == {"r_boot", "r_reset", "r_run"}
Ended == {"idle", "done", "failed", "killed", "torn"}

TypeOK ==
  /\ boot \in {0, 1} /\ reset \in {0, 1}
  /\ chip \in {"held", "rom", "firmware", "silent"}
  /\ usb \in {"none", Firmware, BootROM}
  /\ flash \in {"old", "part", "new"}
  /\ mpc \in {"down"} \union Startup \union Phase1 \union Phase2 \union Watching
  /\ fpc \in Programming \union Leaving \union Restoring \union Ended
  /\ handle \in {"closed", "open", "lost", "refused"}
  /\ kills \in 0..MaxKill

Init ==
  /\ boot = 0 /\ reset = 1 /\ chip = "firmware" /\ usb = "none" /\ flash = "old"
  /\ mpc = "start_boot" /\ fpc = "idle" /\ handle = "closed" /\ kills = 0

-----------------------------------------------------------------------------
(* The board.                                                              *)

DriveBoot(level) == boot' = level /\ UNCHANGED <<reset, chip, usb, handle>>

(* Low holds the chip and takes it off the bus; the rising edge latches    *)
(* BOOT and starts the BootROM or what the flash holds.                    *)
DriveReset(level) ==
  /\ reset' = level
  /\ chip' = IF level = 0 THEN "held"
             ELSE IF reset = 1 THEN chip
             ELSE IF boot = 1 THEN "rom"
             ELSE IF flash = "part" THEN "silent" ELSE "firmware"
  /\ usb' = IF level = 0 THEN "none" ELSE usb
  /\ handle' = IF level = 0 /\ handle = "open" THEN "lost" ELSE handle
  /\ UNCHANGED boot

Enumerates ==
  /\ usb = "none"
  /\ \/ chip = "firmware" /\ usb' = Firmware
     \/ chip = "rom" /\ usb' = BootROM
  /\ UNCHANGED <<boot, reset, chip, flash, mpc, fpc, handle, kills>>

(* The firmware stops and drops off the bus: the chip runs, but is silent. *)
FirmwareHangs ==
  /\ "hang" \in Faults
  /\ usb = Firmware /\ usb' = "none" /\ chip' = "silent"
  /\ UNCHANGED <<boot, reset, flash, mpc, fpc, handle, kills>>

-----------------------------------------------------------------------------
(* hpm_sreset.sh --monitor.                                                *)

MonitorDrives(from, drives, to) ==
  /\ mpc = from /\ drives /\ mpc' = to
  /\ UNCHANGED <<flash, fpc, kills>>

StartupReset ==
  \/ MonitorDrives("start_boot", DriveBoot(0), "start_reset")
  \/ MonitorDrives("start_reset", DriveReset(0), "start_run")
  \/ MonitorDrives("start_run", DriveReset(1), "look")

(* Mutant: an HPM in its BootROM counts as found.                          *)
LookForAnyHpm ==
  /\ mpc = "look"
  /\ mpc' = IF usb # "none" THEN "nap" ELSE "boot1"
  /\ UNCHANGED <<board, flash, fpc, handle, kills>>

(* lsusb -d 1209:2323 *)
Look ==
  /\ mpc = "look"
  /\ mpc' = IF usb = Firmware THEN "nap" ELSE "boot1"
  /\ UNCHANGED <<board, flash, fpc, handle, kills>>

(* Mutant: BOOT goes low again without a second reset.                     *)
ResetOnce ==
  \/ MonitorDrives("boot1", DriveBoot(1), "reset1")
  \/ MonitorDrives("reset1", DriveReset(0), "run1")
  \/ MonitorDrives("run1", DriveReset(1), "boot0")
  \/ MonitorDrives("boot0", DriveBoot(0), "wait")

(* The --reset child: through the BootROM, then into normal boot.          *)
ResetTwice ==
  \/ MonitorDrives("boot1", DriveBoot(1), "reset1")
  \/ MonitorDrives("reset1", DriveReset(0), "run1")
  \/ MonitorDrives("run1", DriveReset(1), "boot0")
  \/ MonitorDrives("boot0", DriveBoot(0), "reset2")
  \/ MonitorDrives("reset2", DriveReset(0), "run2")
  \/ MonitorDrives("run2", DriveReset(1), "wait")

(* sleep 5, or sleep 10 after a reset: firmware that starts enumerates     *)
(* within it.                                                              *)
SleepEnds ==
  /\ \/ mpc = "nap"
     \/ mpc = "wait" /\ (chip = "firmware" => usb = Firmware)
  /\ mpc' = "look"
  /\ UNCHANGED <<board, flash, fpc, handle, kills>>

(* The monitor and its child die wherever they are; Restart=always.        *)
MonitorDies ==
  /\ mpc # "down" /\ kills < MaxKill
  /\ mpc' = "down" /\ kills' = kills + 1
  /\ UNCHANGED <<board, flash, fpc, handle>>

MonitorRestarts ==
  /\ mpc = "down" /\ mpc' = "start_boot"
  /\ UNCHANGED <<board, flash, fpc, handle, kills>>

-----------------------------------------------------------------------------
(* flash_hpm.sh.                                                           *)

OperatorFlashes ==
  /\ fpc \in Ended /\ fpc' = "hold"
  /\ handle' = "closed"
  /\ flash' = IF flash = "new" THEN "old" ELSE flash
  /\ UNCHANGED <<boot, reset, chip, usb, mpc, kills>>

FlashDrives(from, drives, to) ==
  /\ fpc = from /\ drives /\ fpc' = to
  /\ UNCHANGED <<flash, mpc, kills>>

EnterBootROM ==
  \/ FlashDrives("hold", DriveReset(0), "boot")
  \/ FlashDrives("boot", DriveBoot(1), "release")
  \/ FlashDrives("release", DriveReset(1), "erase")

(* hpmtool opens the BootROM's HID device or exits with an error.  The     *)
(* erase_flash command does nothing else.                                  *)
EraseFlash ==
  /\ fpc = "erase"
  /\ fpc' = IF usb = BootROM THEN "write" ELSE "r_boot"
  /\ UNCHANGED <<board, flash, mpc, handle, kills>>

(* Mutant: no device is not an error.                                      *)
WriteFlashAnyway ==
  /\ fpc = "write"
  /\ IF usb = BootROM
       THEN fpc' = "writing" /\ handle' = "open"
       ELSE fpc' = "normal" /\ UNCHANGED handle
  /\ UNCHANGED <<boot, reset, chip, usb, flash, mpc, kills>>

WriteFlash ==
  /\ fpc = "write"
  /\ IF usb = BootROM
       THEN fpc' = "writing" /\ handle' = "open"
       ELSE fpc' = "r_boot" /\ UNCHANGED handle
  /\ UNCHANGED <<boot, reset, chip, usb, flash, mpc, kills>>

(* The chip has taken the first of the data.                               *)
WriteBegins ==
  /\ fpc = "writing" /\ handle = "open" /\ flash # "part"
  /\ flash' = "part"
  /\ UNCHANGED <<board, mpc, fpc, handle, kills>>

(* write_memory's result is not looked at: hpmtool exits 0 when all is     *)
(* written, when the chip is gone and when it has refused a command.  Only *)
(* without the chip's properties, which are asked for first, does it crash.*)
WriteEnds ==
  /\ fpc = "writing"
  /\ \/ /\ handle = "open" /\ flash = "part"
        /\ flash' = "new" /\ handle' = "closed" /\ fpc' = "normal"
     \/ /\ handle = "open" /\ "refusal" \in Faults
        /\ handle' = "refused" /\ fpc' \in {"normal", "r_boot"} /\ UNCHANGED flash
     \/ handle = "lost" /\ fpc' \in {"normal", "r_boot"} /\ UNCHANGED <<flash, handle>>
  /\ UNCHANGED <<boot, reset, chip, usb, mpc, kills>>

ReturnToNormalBoot ==
  \/ FlashDrives("normal", DriveBoot(0), "rehold")
  \/ FlashDrives("rehold", DriveReset(0), "rerun")
  \/ FlashDrives("rerun", DriveReset(1), "leave")

(* recovery_required=no and the traps are cleared.                         *)
Leave ==
  /\ fpc = "leave" /\ fpc' = "done"
  /\ UNCHANGED <<board, flash, mpc, handle, kills>>

(* restore_normal_boot, the EXIT trap.                                     *)
RestoreNormalBoot ==
  \/ FlashDrives("r_boot", DriveBoot(0), "r_reset")
  \/ FlashDrives("r_reset", DriveReset(0), "r_run")
  \/ FlashDrives("r_run", DriveReset(1), "failed")

(* HUP, INT or TERM: the handler exits, which runs the EXIT trap; a signal *)
(* that comes during the EXIT trap ends the shell there and then.  hpmtool *)
(* dies of the signal too, or has ended before the shell handles it.       *)
Signal ==
  /\ \/ "signal" \in Faults /\ fpc \in Programming \union Leaving /\ fpc' = "r_boot"
     \/ "second_signal" \in Faults /\ fpc \in Restoring /\ fpc' = "torn"
  /\ UNCHANGED <<board, flash, mpc, handle, kills>>

Killed ==
  /\ "kill" \in Faults
  /\ fpc \notin Ended /\ fpc' = "killed"
  /\ UNCHANGED <<board, flash, mpc, handle, kills>>

-----------------------------------------------------------------------------
Monitor == StartupReset \/ Look \/ ResetTwice \/ SleepEnds \/ MonitorRestarts

Flasher == EnterBootROM \/ EraseFlash \/ WriteFlash \/ WriteBegins \/ WriteEnds
           \/ ReturnToNormalBoot \/ Leave \/ RestoreNormalBoot

Next == Monitor \/ Flasher \/ Enumerates \/ OperatorFlashes
        \/ FirmwareHangs \/ MonitorDies \/ Signal \/ Killed

Spec == Init /\ [][Next]_vars

(* Both programs run on, and a chip that runs enumerates.  Nothing is      *)
(* assumed of write_flash: a chip that does not answer keeps it waiting.   *)
FairSpec == Spec /\ WF_vars(Monitor) /\ WF_vars(fpc # "writing" /\ Flasher)
            /\ WF_vars(Enumerates)

-----------------------------------------------------------------------------
(* However the two programs' writes interleave, once the monitor watches   *)
(* again and the flash script has ended by itself the lines are those of   *)
(* normal boot and the chip was released with them: not held, not in the   *)
(* BootROM.                                                                *)
QuietMeansNormalBoot ==
  (mpc \in Watching /\ fpc \in {"idle", "done", "failed"}) =>
    boot = 0 /\ reset = 1 /\ chip \in {"firmware", "silent"}

(* "Done." means that the firmware is written, unless the chip refused it  *)
(* or somebody reset the chip while write_flash had it open: no other way  *)
(* to fail is taken for success, whoever drives the lines meanwhile.       *)
DoneUnlessDisturbed ==
  fpc \in {"leave", "done"} => flash = "new" \/ handle \in {"lost", "refused"}

(* The monitor brings an HPM with a whole image back on the bus, whatever  *)
(* hung it or left its lines wrong, unless somebody is flashing it.        *)
HpmComesBack ==
  []<>(usb = Firmware \/ flash = "part" \/ fpc \notin Ended)

(* "Puts the HPM5E00 in USB BootROM mode, erases its flash, writes the     *)
(* firmware, then restores normal boot mode": a run that says Done has     *)
(* written the firmware.                                                   *)
DoneMeansFlashed == fpc = "done" => flash = "new"
=============================================================================
