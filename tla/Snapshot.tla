------------------------------- MODULE Snapshot -------------------------------
(***************************************************************************)
(* bin/save_usbcan_snapshot.sh beside the service it pauses, and the       *)
(* operator who may start and stop that service meanwhile.  The script's   *)
(* lock admits one run at a time, and a run that does not get it touches   *)
(* nothing, so there is one run here, over and over.                       *)
(*                                                                         *)
(* A snapshot is named by the second its run started in.                   *)
(***************************************************************************)
EXTENDS Naturals

CONSTANTS
  MaxClock,   \* bound: seconds in which a run may start
  Faults

FaultKinds == {"signal", "second_signal", "kill", "command_fails", "same_second"}

ASSUME SnapshotAssumption == MaxClock \in Nat \ {0} /\ Faults \subseteq FaultKinds

Seconds == 1..MaxClock

VARIABLES
  clock, last_run,   \* the time, and that of the last run
  service,           \* usbcan-capture.service
  pc, timestamp,     \* the run
  was_active, destination_created, snapshot_complete, archive_complete,
  destination, archive, sum,   \* per second: the directory, its .zip, the .sha256
  found,             \* what the run found the service to be
  meddled,           \* somebody else changed the service since
  finished           \* seconds whose run has printed its three paths

disk == <<destination, archive, sum>>
script == <<was_active, destination_created, snapshot_complete, archive_complete>>
ghosts == <<found, meddled, finished>>
time == <<clock, last_run>>
vars == <<time, service, pc, timestamp, script, disk, ghosts>>

Checking == {"checking", "looking", "pausing"}
Saving == {"creating", "created", "copying", "saved", "resuming", "resumed"}
Archiving == {"zipping", "summing", "closing"}
Cleaning == {"clean_directory", "clean_archive", "clean_service"}
Ended == {"idle", "done", "failed", "unstarted", "trap_cut", "torn", "killed"}

YesNo == {"yes", "no"}

TypeOK ==
  /\ clock \in Seconds /\ last_run \in 0..MaxClock /\ timestamp \in 0..MaxClock
  /\ service \in {"active", "stopping", "inactive", "restarting"}
  /\ pc \in Checking \union Saving \union Archiving \union Cleaning \union Ended
  /\ was_active \in YesNo /\ destination_created \in YesNo
  /\ snapshot_complete \in YesNo /\ archive_complete \in YesNo
  /\ destination \in [Seconds -> {"none", "empty", "part", "live", "quiet"}]
  /\ archive \in [Seconds -> {"none", "good"}]
  /\ sum \in [Seconds -> {"none", "cut", "blank", "good"}]
  /\ found \in {"active", "other"} /\ meddled \in YesNo
  /\ finished \subseteq Seconds

Init ==
  /\ clock = 1 /\ last_run = 0 /\ timestamp = 0
  /\ service \in {"active", "inactive", "restarting"}
  /\ pc = "idle"
  /\ was_active = "no" /\ destination_created = "no"
  /\ snapshot_complete = "no" /\ archive_complete = "no"
  /\ destination = [t \in Seconds |-> "none"]
  /\ archive = [t \in Seconds |-> "none"] /\ sum = [t \in Seconds |-> "none"]
  /\ found = "other" /\ meddled = "no" /\ finished = {}

-----------------------------------------------------------------------------
(* The service, the operator, the time.                                    *)

(* A recorder that failed is started again after five seconds.             *)
ServiceFails ==
  /\ service = "active" /\ service' = "restarting"
  /\ UNCHANGED <<time, pc, timestamp, script, disk, ghosts>>

ServiceReturns ==
  /\ service = "restarting" /\ service' = "active"
  /\ UNCHANGED <<time, pc, timestamp, script, disk, ghosts>>

ServiceStops ==
  /\ service = "stopping" /\ service' = "inactive"
  /\ UNCHANGED <<time, pc, timestamp, script, disk, ghosts>>

OperatorChanges ==
  /\ \/ service \in {"active", "restarting"} /\ service' = "stopping"
     \/ service = "inactive" /\ service' = "active"
  /\ meddled' = "yes"
  /\ UNCHANGED <<time, pc, timestamp, script, disk, found, finished>>

SecondPasses ==
  /\ clock < MaxClock /\ clock' = clock + 1
  /\ UNCHANGED <<last_run, service, pc, timestamp, script, disk, ghosts>>

-----------------------------------------------------------------------------
(* The run.                                                                *)

Goes(from, to) == pc = from /\ pc' = to

(* A command that fails ends the script, which runs the EXIT trap; one     *)
(* that fails in the trap ends the trap where it stands (set -e).          *)
MayFail == "command_fails" \in Faults
Fails(from) == MayFail /\ Goes(from, "clean_directory")
TrapFails(from) == MayFail /\ Goes(from, "trap_cut")

Start ==
  /\ pc \in Ended /\ pc' = "checking"
  /\ last_run < clock \/ "same_second" \in Faults
  /\ timestamp' = clock /\ last_run' = clock
  /\ was_active' = "no" /\ destination_created' = "no"
  /\ snapshot_complete' = "no" /\ archive_complete' = "no"
  /\ found' = "other" /\ meddled' = "no"
  /\ UNCHANGED <<clock, service, disk, finished>>

(* No ring, no zip, no space; or the directory is there already.           *)
Check ==
  /\ \/ Goes("checking", "looking") /\ destination[timestamp] = "none"
     \/ Goes("checking", "clean_directory")
  /\ UNCHANGED <<time, service, timestamp, script, disk, ghosts>>

(* systemctl is-active: a unit that waits to be restarted is not active.   *)
Look ==
  /\ IF service = "active"
       THEN Goes("looking", "pausing") /\ was_active' = "yes" /\ found' = "active"
       ELSE Goes("looking", "creating") /\ UNCHANGED <<was_active, found>>
  /\ meddled' = "no"
  /\ UNCHANGED <<time, service, timestamp, destination_created, snapshot_complete,
                 archive_complete, disk, finished>>

(* Mutant: the stop is only queued (--no-block).                           *)
PauseUnwaited ==
  /\ \/ Goes("pausing", "pausing") /\ service \in {"active", "restarting"}
        /\ service' = "stopping"
     \/ Goes("pausing", "creating") /\ service \in {"stopping", "inactive"}
        /\ UNCHANGED service
  /\ UNCHANGED <<time, timestamp, script, disk, ghosts>>

(* systemctl stop waits for the recorder's teardown.                       *)
Pause ==
  /\ \/ Goes("pausing", "pausing") /\ service \in {"active", "restarting"}
        /\ service' = "stopping"
     \/ Goes("pausing", "creating") /\ service = "inactive" /\ UNCHANGED service
     \/ Fails("pausing") /\ UNCHANGED service
  /\ UNCHANGED <<time, timestamp, script, disk, ghosts>>

(* install -d, and the assignment after it.                                *)
CreateDirectory ==
  /\ \/ /\ Goes("creating", "created")
        /\ destination' = [destination EXCEPT ![timestamp] = "empty"]
        /\ UNCHANGED destination_created
     \/ /\ Goes("created", "copying")
        /\ destination' = [destination EXCEPT ![timestamp] = "part"]
        /\ destination_created' = "yes"
     \/ Fails("creating") /\ UNCHANGED <<destination, destination_created>>
  /\ UNCHANGED <<time, service, timestamp, was_active, snapshot_complete,
                 archive_complete, archive, sum, ghosts>>

(* The manifest, the ring's files, and all the rest.                       *)
CopyEvidence ==
  /\ \/ /\ Goes("copying", "saved")
        /\ destination' = [destination EXCEPT ![timestamp] =
                             IF service = "inactive" THEN "quiet" ELSE "live"]
     \/ Fails("copying") /\ UNCHANGED destination
  /\ UNCHANGED <<time, service, timestamp, script, archive, sum, ghosts>>

MarkComplete ==
  /\ Goes("saved", "resuming")
  /\ snapshot_complete' = "yes"
  /\ UNCHANGED <<time, service, timestamp, was_active, destination_created,
                 archive_complete, disk, ghosts>>

(* systemctl start, which waits for a stop that is under way.              *)
StartIfActive ==
  IF was_active = "yes" THEN service # "stopping" /\ service' = "active"
                        ELSE UNCHANGED service

(* Mutant: was_active=no comes before the start.                           *)
ForgetThenResume ==
  /\ \/ Goes("resuming", "resumed") /\ was_active' = "no" /\ UNCHANGED service
     \/ /\ Goes("resumed", "zipping") /\ UNCHANGED was_active
        /\ IF found = "active" THEN service # "stopping" /\ service' = "active"
                               ELSE UNCHANGED service
  /\ UNCHANGED <<time, timestamp, destination_created, snapshot_complete,
                 archive_complete, disk, ghosts>>

Resume ==
  /\ \/ Goes("resuming", "resumed") /\ StartIfActive /\ UNCHANGED was_active
     \/ Fails("resuming") /\ was_active = "yes" /\ UNCHANGED <<service, was_active>>
     \/ Goes("resumed", "zipping") /\ was_active' = "no" /\ UNCHANGED service
  /\ UNCHANGED <<time, timestamp, destination_created, snapshot_complete,
                 archive_complete, disk, ghosts>>

(* zip, which puts the archive in place when it is whole; sha256sum, whose *)
(* failure inside printf's argument goes unnoticed: the line is written    *)
(* without its digest.                                                     *)
MakeArchive ==
  /\ \/ Goes("zipping", "summing") /\ archive' = [archive EXCEPT ![timestamp] = "good"]
        /\ UNCHANGED sum
     \/ Goes("summing", "closing") /\ UNCHANGED archive
        /\ \/ sum' = [sum EXCEPT ![timestamp] = "good"]
           \/ MayFail /\ sum' = [sum EXCEPT ![timestamp] = "blank"]
     \/ Fails("zipping") /\ UNCHANGED <<archive, sum>>
     \/ Fails("summing") /\ sum' = [sum EXCEPT ![timestamp] = "cut"]
        /\ UNCHANGED archive
  /\ UNCHANGED <<time, service, timestamp, script, destination, ghosts>>

(* archive_complete=yes, the traps go, the paths are printed.              *)
Finish ==
  /\ Goes("closing", "done")
  /\ archive_complete' = "yes"
  /\ finished' = finished \union {timestamp}
  /\ UNCHANGED <<time, service, timestamp, was_active, destination_created,
                 snapshot_complete, disk, found, meddled>>

-----------------------------------------------------------------------------
(* cleanup, the EXIT trap.                                                 *)

(* Mutant: the directory is left where it is.                              *)
KeepDirectory ==
  /\ Goes("clean_directory", "clean_archive")
  /\ UNCHANGED <<time, service, timestamp, script, disk, ghosts>>

CleanDirectory ==
  /\ LET Mine == destination_created = "yes" /\ snapshot_complete = "no" IN
     \/ /\ Goes("clean_directory", "clean_archive")
        /\ destination' = IF Mine THEN [destination EXCEPT ![timestamp] = "none"]
                                  ELSE destination
     \/ Mine /\ TrapFails("clean_directory") /\ UNCHANGED destination
  /\ UNCHANGED <<time, service, timestamp, script, archive, sum, ghosts>>

(* It runs only while archive_complete is still no.                        *)
CleanArchive ==
  /\ \/ /\ Goes("clean_archive", "clean_service")
        /\ archive' = [archive EXCEPT ![timestamp] = "none"]
     \/ TrapFails("clean_archive") /\ UNCHANGED archive
  /\ UNCHANGED <<time, service, timestamp, script, destination, sum, ghosts>>

(* Mutant: the trap puts the files right and no more.                      *)
LeaveServicePaused ==
  /\ Goes("clean_service", "failed")
  /\ UNCHANGED <<time, service, timestamp, script, disk, ghosts>>

(* A start that fails here is swallowed (|| true): the script ends as it   *)
(* would have, with the service as it is.                                  *)
CleanService ==
  /\ \/ Goes("clean_service", "failed") /\ StartIfActive
     \/ /\ MayFail /\ was_active = "yes" /\ Goes("clean_service", "unstarted")
        /\ UNCHANGED service
  /\ UNCHANGED <<time, timestamp, script, disk, ghosts>>

(* HUP, INT or TERM.  The shell handles it when its foreground command has *)
(* ended, before the next one: exit runs the EXIT trap.  A signal during   *)
(* that trap ends the script there.                                        *)
Signal ==
  /\ \/ /\ "signal" \in Faults
        /\ pc \in Checking \union Saving \union Archiving
        /\ pc' = "clean_directory"
     \/ "second_signal" \in Faults /\ pc \in Cleaning /\ pc' = "torn"
  /\ UNCHANGED <<time, service, timestamp, script, disk, ghosts>>

(* SIGKILL.  The command it ran keeps the lock, an open descriptor, and    *)
(* the end of that command is the end of the run.                          *)
Killed ==
  /\ "kill" \in Faults /\ pc \notin Ended /\ pc' = "killed"
  /\ UNCHANGED <<time, service, timestamp, script, disk, ghosts>>

-----------------------------------------------------------------------------
Run == Check \/ Look \/ Pause \/ CreateDirectory \/ CopyEvidence \/ MarkComplete
       \/ Resume \/ MakeArchive \/ Finish \/ CleanDirectory \/ CleanArchive
       \/ CleanService

Service == ServiceFails \/ ServiceReturns \/ ServiceStops

Next == Start \/ Run \/ Signal \/ Killed \/ Service \/ OperatorChanges \/ SecondPasses

Spec == Init /\ [][Next]_vars

(* The script runs on and the service's stop and restart come to an end.   *)
FairSpec == Spec /\ WF_vars(Run) /\ WF_vars(ServiceStops) /\ WF_vars(ServiceReturns)

-----------------------------------------------------------------------------
(* The script "restores the capture service to its original state": a run  *)
(* that found it active and ended by itself - done, refused, signalled     *)
(* once, or with any command of its own failing, its first start of the    *)
(* service too - leaves it active or about to restart, unless somebody     *)
(* else changed it meanwhile.  What it needs is that the trap's commands   *)
(* work: after a failing rm ("trap_cut") or a second failing start         *)
(* ("unstarted") the capture stays down.                                   *)
CaptureRestored ==
  (pc \in {"done", "failed"} /\ found = "active" /\ meddled = "no") =>
    service \in {"active", "restarting"}

(* While a run has the capture paused nobody writes the ring it copies:    *)
(* what it saved is a copy of a recorder that had stopped.                 *)
PausedCopyIsQuiet ==
  (pc \in Archiving /\ found = "active" /\ meddled = "no") =>
    destination[timestamp] = "quiet"

(* A run that ended by itself, and could remove what it had begun, leaves  *)
(* no half-filled directory: it is whole or gone - or empty, when the      *)
(* signal fell just after its creation.                                    *)
NoHalfSnapshot ==
  pc \in {"done", "failed", "unstarted"} => destination[timestamp] # "part"

(* What a run has announced stays: the directory, its archive, and the     *)
(* checksum that "sha256sum -c" is to be run with (README, snapshots) - or *)
(* the line without a digest that it wrote when sha256sum failed.          *)
AnnouncedStays ==
  \A t \in finished :
    /\ destination[t] \in {"live", "quiet"} /\ archive[t] = "good"
    /\ sum[t] \in {"good", "blank"}

(* The pause ends: a capture that a run stopped comes back, whatever else  *)
(* of the run fails, unless the run was killed or signalled again in its   *)
(* trap, a command of the trap itself failed, or somebody else has changed *)
(* the service.                                                            *)
PauseEnds ==
  (pc = "creating" /\ found = "active") ~>
    \/ service = "active" \/ meddled = "yes"
    \/ pc \in {"killed", "torn", "trap_cut", "unstarted"}
=============================================================================
