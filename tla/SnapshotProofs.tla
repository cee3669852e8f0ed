---------------------------- MODULE SnapshotProofs ----------------------------
(* Proofs about Snapshot, for any number of runs and every fault but the   *)
(* second run in one second, which AnnouncedStays excludes.                *)
EXTENDS Snapshot, TLAPS

USE SnapshotAssumption

Up == {"active", "restarting"}

(* What was_active stands for, step by step: a capture that the run found  *)
(* active is owed a start until it is up again.                            *)
StartOwed ==
  /\ found = "active" => pc \notin {"idle", "checking", "looking"}
  /\ was_active = "yes" => found = "active"
  /\ (found = "active" /\ pc \in {"pausing"} \union Saving) => was_active = "yes"
  /\ (found = "active" /\ pc \in Cleaning /\ meddled = "no") =>
       was_active = "yes" \/ service \in Up
  /\ (found = "active" /\ meddled = "no" /\
        pc \in {"resumed", "done", "failed"} \union Archiving) => service \in Up

(* The capture stays stopped while it is copied.                           *)
Paused ==
  /\ (found = "active" /\ meddled = "no" /\
        pc \in {"creating", "created", "copying", "saved", "resuming"}) =>
       service = "inactive"
  /\ (found = "active" /\ meddled = "no" /\
        pc \in {"saved", "resuming", "resumed"} \union Archiving) =>
       destination[timestamp] = "quiet"

Named == pc # "idle" => timestamp \in Seconds

IInv == TypeOK /\ StartOwed /\ Paused /\ Named

(* While every run has a second of its own: nothing has its name before it *)
(* starts, its flags tell cleanup about its directory in time, and what it *)
(* has made stays until it announces it.                                   *)
Fresh ==
  /\ pc # "idle" => timestamp = last_run
  /\ \A t \in Seconds : t > last_run => destination[t] = "none" /\ t \notin finished

FlagsTell ==
  /\ pc \in {"looking", "pausing", "creating", "created"} =>
       destination[timestamp] \in {"none", "empty"}
  /\ pc \in Checking \union {"creating", "created"} => snapshot_complete = "no"
  /\ pc \in {"copying", "saved"} => destination_created = "yes" /\ snapshot_complete = "no"
  /\ (pc # "idle" /\ destination[timestamp] = "part") =>
       \/ pc \in {"copying", "trap_cut", "torn", "killed"}
       \/ /\ pc = "clean_directory"
          /\ destination_created = "yes" /\ snapshot_complete = "no"

Whole(t) == destination[t] \in {"live", "quiet"}

Kept ==
  /\ pc \in {"saved", "resuming", "resumed"} \union Archiving => Whole(timestamp)
  /\ pc \in {"summing", "closing"} => archive[timestamp] = "good"
  /\ pc = "closing" => sum[timestamp] \in {"good", "blank"}
  /\ pc \in Checking \union Saving \union Archiving \union Cleaning =>
       timestamp \notin finished
  /\ AnnouncedStays

FInv == IInv /\ Fresh /\ FlagsTell /\ Kept

-----------------------------------------------------------------------------
LEMMA InitIInv == Init => IInv
BY DEF Init, IInv, TypeOK, StartOwed, Paused, Named, Seconds, Checking, Saving,
       Archiving, Cleaning, Ended, YesNo

(* Types through each step: the scalars, then the sets of files.           *)
LEMMA ScalarStep ==
  ASSUME TypeOK, Named, [Next]_vars
  PROVE  /\ (clock \in Seconds /\ last_run \in 0..MaxClock /\ timestamp \in 0..MaxClock)'
         /\ (service \in {"active", "stopping", "inactive", "restarting"})'
         /\ (pc \in Checking \union Saving \union Archiving \union Cleaning \union Ended)'
         /\ (was_active \in YesNo /\ destination_created \in YesNo)'
         /\ (snapshot_complete \in YesNo /\ archive_complete \in YesNo)'
         /\ (found \in {"active", "other"} /\ meddled \in YesNo)'
         /\ Named'
<1>1. /\ clock \in Seconds /\ last_run \in 0..MaxClock /\ timestamp \in 0..MaxClock
      /\ service \in {"active", "stopping", "inactive", "restarting"}
      /\ pc \in Checking \union Saving \union Archiving \union Cleaning \union Ended
      /\ was_active \in YesNo /\ destination_created \in YesNo
      /\ snapshot_complete \in YesNo /\ archive_complete \in YesNo
      /\ found \in {"active", "other"} /\ meddled \in YesNo
      /\ Named
  BY DEF TypeOK
<1> USE DEF Named, Checking, Saving, Archiving, Cleaning, Ended, YesNo,
            time, script, disk, ghosts, Goes, Fails,
            MayFail, TrapFails
<1>2. CASE UNCHANGED vars
  BY <1>1, <1>2 DEF vars
<1>3. CASE Start
  BY <1>1, <1>3 DEF Start, Seconds
<1>4. CASE Check \/ Look \/ Pause
  BY <1>1, <1>4 DEF Check, Look, Pause
<1>5. CASE CreateDirectory \/ CopyEvidence \/ MarkComplete
  BY <1>1, <1>5 DEF CreateDirectory, CopyEvidence, MarkComplete
<1>6. CASE Resume \/ MakeArchive \/ Finish
  BY <1>1, <1>6 DEF Resume, StartIfActive, MakeArchive, Finish
<1>7. CASE CleanDirectory \/ CleanArchive \/ CleanService
  BY <1>1, <1>7 DEF CleanDirectory, CleanArchive, CleanService, StartIfActive
<1>8. CASE Signal \/ Killed
  BY <1>1, <1>8 DEF Signal, Killed
<1>9. CASE Service \/ OperatorChanges
  BY <1>1, <1>9 DEF Service, ServiceFails, ServiceReturns, ServiceStops, OperatorChanges
<1>10. CASE SecondPasses
  BY <1>1, <1>10 DEF SecondPasses, Seconds
<1> QED
  BY <1>2, <1>3, <1>4, <1>5, <1>6, <1>7, <1>8, <1>9, <1>10 DEF Next, Run

LEMMA FileStep ==
  ASSUME TypeOK, Named, [Next]_vars
  PROVE  /\ destination' \in [Seconds -> {"none", "empty", "part", "live", "quiet"}]
         /\ archive' \in [Seconds -> {"none", "good"}]
         /\ sum' \in [Seconds -> {"none", "cut", "blank", "good"}]
         /\ finished' \subseteq Seconds
<1>1. /\ destination \in [Seconds -> {"none", "empty", "part", "live", "quiet"}]
      /\ archive \in [Seconds -> {"none", "good"}]
      /\ sum \in [Seconds -> {"none", "cut", "blank", "good"}]
      /\ finished \subseteq Seconds
  BY DEF TypeOK
<1> USE DEF disk, ghosts, Goes, Fails, MayFail, TrapFails
<1>2. CASE UNCHANGED vars
  BY <1>1, <1>2 DEF vars
<1>3. CASE CreateDirectory
  BY <1>1, <1>3 DEF CreateDirectory
<1>4. CASE CopyEvidence
  BY <1>1, <1>4 DEF CopyEvidence
<1>5. CASE MakeArchive
  BY <1>1, <1>5 DEF MakeArchive
<1>6. CASE CleanDirectory \/ CleanArchive
  BY <1>1, <1>6 DEF CleanDirectory, CleanArchive
<1>7. CASE Finish
  BY <1>1, <1>7 DEF Finish, Named
<1>8. CASE Start \/ Check \/ Look \/ Pause \/ MarkComplete \/ Resume \/ CleanService
  BY <1>1, <1>8 DEF Start, Check, Look, Pause, MarkComplete, Resume, CleanService
<1>9. CASE Signal \/ Killed \/ Service \/ OperatorChanges \/ SecondPasses
  BY <1>1, <1>9 DEF Signal, Killed, Service, ServiceFails, ServiceReturns, ServiceStops,
                    OperatorChanges, SecondPasses
<1> QED BY <1>2, <1>3, <1>4, <1>5, <1>6, <1>7, <1>8, <1>9 DEF Next, Run

LEMMA TypeStep == TypeOK /\ Named /\ [Next]_vars => TypeOK' /\ Named'
BY ScalarStep, FileStep DEF TypeOK

(* A step of the run, case by case: what it is owed and what it copies.    *)
LEMMA OwedStep ==
  ASSUME IInv, [Next]_vars
  PROVE  StartOwed' /\ Paused'
<1> USE DEF IInv, StartOwed, Paused, TypeOK, Named, Up, Checking, Saving, Archiving,
            Cleaning, Ended, YesNo, time, script, disk, ghosts, Goes, Fails,
            MayFail, TrapFails
<1>1. CASE UNCHANGED vars
  BY <1>1 DEF vars
<1>2. CASE Start
  BY <1>2 DEF Start
<1>3. CASE Check \/ Look \/ Pause
  BY <1>3 DEF Check, Look, Pause
<1>4. CASE CreateDirectory \/ CopyEvidence \/ MarkComplete
  BY <1>4 DEF CreateDirectory, CopyEvidence, MarkComplete
<1>5. CASE Resume
  BY <1>5 DEF Resume, StartIfActive
<1>6. CASE MakeArchive \/ Finish
  BY <1>6 DEF MakeArchive, Finish
<1>7. CASE CleanDirectory \/ CleanArchive
  BY <1>7 DEF CleanDirectory, CleanArchive
<1>8. CASE CleanService
  BY <1>8 DEF CleanService, StartIfActive
<1>9. CASE Signal \/ Killed
  BY <1>9 DEF Signal, Killed
<1>10. CASE Service
  BY <1>10 DEF Service, ServiceFails, ServiceReturns, ServiceStops
<1>11. CASE OperatorChanges \/ SecondPasses
  BY <1>11 DEF OperatorChanges, SecondPasses
<1> QED BY <1>1, <1>2, <1>3, <1>4, <1>5, <1>6, <1>7, <1>8, <1>9, <1>10, <1>11 DEF Next, Run

LEMMA AlwaysIInv == Spec => []IInv
<1>1. IInv /\ [Next]_vars => IInv'
  BY TypeStep, OwedStep DEF IInv
<1> QED BY InitIInv, <1>1, PTL DEF Spec

(* The clock, the run's flags and the files stay in their types.           *)
THEOREM SnapshotTyping == Spec => []TypeOK
<1>1. IInv => TypeOK
  BY DEF IInv
<1> QED BY <1>1, AlwaysIInv, PTL

(* A run that ends by itself, wherever it was refused, failed or was       *)
(* signalled, leaves a capture that it found active up again.  Excepted in *)
(* the property are the ends where the trap's own rm or its start failed.  *)
THEOREM ServiceRestored == Spec => []CaptureRestored
<1>1. IInv => CaptureRestored
  BY DEF IInv, StartOwed, CaptureRestored, Up
<1> QED BY <1>1, AlwaysIInv, PTL

(* What a run saves of a capture that it paused was not being written.     *)
THEOREM CopyIsQuiet == Spec => []PausedCopyIsQuiet
<1>1. IInv => PausedCopyIsQuiet
  BY DEF IInv, Paused, PausedCopyIsQuiet
<1> QED BY <1>1, AlwaysIInv, PTL

-----------------------------------------------------------------------------
LEMMA InitFInv == Init => FInv
<1> SUFFICES ASSUME Init PROVE FInv
  OBVIOUS
<1>1. Fresh /\ FlagsTell
  BY DEF Init, Fresh, FlagsTell, Checking
<1>2. Kept
  BY DEF Init, Kept, AnnouncedStays, Checking, Saving, Archiving, Cleaning
<1> QED BY <1>1, <1>2, InitIInv DEF FInv

(* The run's own steps change the files of its own second only.            *)
LEMMA FileInvStep ==
  ASSUME FInv, [Next]_vars, "same_second" \notin Faults
  PROVE  Fresh' /\ FlagsTell' /\ Kept'
<1>1. /\ clock \in Nat /\ last_run \in Nat /\ timestamp \in Nat
      /\ destination \in [Seconds -> {"none", "empty", "part", "live", "quiet"}]
      /\ archive \in [Seconds -> {"none", "good"}]
      /\ sum \in [Seconds -> {"none", "cut", "blank", "good"}] /\ finished \subseteq Seconds
  BY DEF FInv, IInv, TypeOK, Seconds
<1>2. pc # "idle" => timestamp \in Seconds
  BY DEF FInv, IInv, Named
<1>3. Fresh /\ FlagsTell /\ Kept
  BY DEF FInv
<1> USE DEF Fresh, FlagsTell, Kept, AnnouncedStays, Whole, Checking, Saving, Archiving,
            Cleaning, Ended, time, script, disk, ghosts, Goes, Fails,
            MayFail, TrapFails
<1>4. CASE UNCHANGED vars
  BY <1>1, <1>3, <1>4 DEF vars
<1>5. CASE Start
  <2>1. /\ timestamp' = clock /\ last_run' = clock /\ last_run < clock /\ clock \in Seconds
        /\ pc' = "checking" /\ snapshot_complete' = "no" /\ UNCHANGED <<disk, finished>>
    BY <1>5 DEF Start, FInv, IInv, TypeOK
  <2>2. destination[clock] = "none" /\ clock \notin finished
    BY <1>3, <2>1
  <2>3. Fresh'
    BY <1>1, <1>3, <2>1
  <2> QED BY <1>1, <1>3, <2>1, <2>2, <2>3
<1>6. CASE Check \/ Look \/ Pause
  BY <1>1, <1>2, <1>3, <1>6 DEF Check, Look, Pause
<1>7. CASE CreateDirectory
  <2>1. CASE pc = "creating" /\ pc' = "created"
    BY <1>1, <1>2, <1>3, <1>7, <2>1 DEF CreateDirectory
  <2>2. CASE pc = "created" /\ pc' = "copying"
    <3>1. /\ destination' = [destination EXCEPT ![timestamp] = "part"]
          /\ destination_created' = "yes"
          /\ UNCHANGED <<time, timestamp, snapshot_complete, archive, sum, finished>>
      BY <1>7, <2>2 DEF CreateDirectory
    <3>2. snapshot_complete = "no"
      BY <1>3, <2>2
    <3> QED BY <1>1, <1>2, <1>3, <2>2, <3>1, <3>2
  <2>3. CASE pc' = "clean_directory"
    BY <1>1, <1>2, <1>3, <1>7, <2>3 DEF CreateDirectory
  <2> QED BY <1>7, <2>1, <2>2, <2>3 DEF CreateDirectory
<1>8. CASE CopyEvidence \/ MarkComplete
  BY <1>1, <1>2, <1>3, <1>8 DEF CopyEvidence, MarkComplete
<1>9. CASE Resume
  BY <1>1, <1>2, <1>3, <1>9 DEF Resume
<1>10. CASE MakeArchive
  BY <1>1, <1>2, <1>3, <1>10 DEF MakeArchive
<1>11. CASE Finish
  BY <1>1, <1>2, <1>3, <1>11 DEF Finish
<1>12. CASE CleanDirectory
  BY <1>1, <1>2, <1>3, <1>12 DEF CleanDirectory
<1>13. CASE CleanArchive
  BY <1>1, <1>2, <1>3, <1>13 DEF CleanArchive
<1>14. CASE CleanService
  BY <1>1, <1>2, <1>3, <1>14 DEF CleanService
<1>15. CASE Signal \/ Killed
  BY <1>1, <1>2, <1>3, <1>15 DEF Signal, Killed
<1>16. CASE Service \/ OperatorChanges \/ SecondPasses
  BY <1>1, <1>2, <1>3, <1>16 DEF Service, ServiceFails, ServiceReturns, ServiceStops,
                                 OperatorChanges, SecondPasses
<1> QED
  BY <1>4, <1>5, <1>6, <1>7, <1>8, <1>9, <1>10, <1>11, <1>12, <1>13, <1>14, <1>15, <1>16
  DEF Next, Run

LEMMA AlwaysFInv ==
  ASSUME "same_second" \notin Faults
  PROVE  Spec => []FInv
<1>1. FInv /\ [Next]_vars => FInv'
  BY FileInvStep, TypeStep, OwedStep DEF FInv, IInv
<1> QED BY InitFInv, <1>1, PTL DEF Spec

(* What a run has announced stays, whatever later runs do and however they *)
(* end, as long as each has a second of its own.  The checksum it has      *)
(* announced is good unless sha256sum failed, which the run does not see.  *)
THEOREM AnnouncedIsKept ==
  ASSUME "same_second" \notin Faults
  PROVE  Spec => []AnnouncedStays
<1>1. FInv => AnnouncedStays
  BY DEF FInv, Kept
<1> QED BY <1>1, AlwaysFInv, PTL

(* A run that ends by itself, past its rm, leaves no half-filled directory.*)
THEOREM NothingHalfLeft ==
  ASSUME "same_second" \notin Faults
  PROVE  Spec => []NoHalfSnapshot
<1>1. FInv => NoHalfSnapshot
  BY DEF FInv, FlagsTell, NoHalfSnapshot
<1> QED BY <1>1, AlwaysFInv, PTL
=============================================================================
