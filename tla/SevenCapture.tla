----------------------------- MODULE SevenCapture -----------------------------
(***************************************************************************)
(* The life of the seven-dimension recorder: the orchestrator              *)
(* capture/capture_seven_dimensions.sh, the children it forks, the         *)
(* session directories it fills, and the systemd unit that starts, stops   *)
(* and restarts it (etc/systemd/system/usbcan-capture.service).            *)
(*                                                                         *)
(* A session is a number: session s is the s-th directory ever opened.     *)
(* What the files hold is reduced to how far their teardown got; the       *)
(* periodic flush is the subject of FlushSession, the removal of old       *)
(* directories that of SessionCleanup.                                     *)
(***************************************************************************)
EXTENDS Naturals

CONSTANTS
  MaxSession,   \* bound: directories opened in a behaviour
  MaxPoll,      \* USBCAN_CAN_WAIT_SECS / 2: polls before the ring gives up
  rotate_secs,  \* SESSION_MAX_DURATION_SECS; 0 turns rotation off
  Streams,      \* the other dimension processes and the periodic flush
  Faults        \* what the environment may do wrong in this instance

FaultKinds == {"stop_in_teardown", "late_tcpdump", "candump_dies", "straggler",
               "oom", "power", "timeout"}

ASSUME BoundAssumption == MaxSession \in Nat \ {0} /\ MaxPoll \in Nat
ASSUME RotateAssumption == rotate_secs \in Nat
ASSUME FaultAssumption == Faults \subseteq FaultKinds

Sessions == 1..MaxSession

(* The streams that are shells and start one command after the other: a    *)
(* TERM ends the shell at once, but not the command it is waiting for.     *)
(* The others exec their one command.                                      *)
Shells == Streams \ {"bms", "dmesg", "hpm_uart"}

VARIABLES
  unit,             \* systemd's view of usbcan-capture.service
  pc,               \* where the orchestrator is
  stop_requested, rotate_requested,  \* its two flags, set only by its traps
  session,          \* the directory it works on; 0 before the first
  timer,            \* the rotation timer's subshell
  ring, polls,      \* capture_usbcan_ring.sh, later the tcpdump it becomes
  can_asc,          \* 06_can_asc.sh
  screen,           \* 07_inference_screen.sh
  streams,          \* those of Streams that are alive
  late,             \* <<session, dimension>>: its shell is gone, a command is not
  interface,        \* /sys/class/net/$CAN_INTERFACE exists
  end_unix,         \* what the teardown noted of the time
  manifest, asc, pcap,   \* per session: manifest.json, can.asc, usbcan.pcap*
  logging           \* the session whose file GNU screen logs to; 0: log off

files == <<manifest, asc, pcap>>
children == <<ring, polls, can_asc, screen, streams>>
flags == <<stop_requested, rotate_requested>>
vars == <<unit, pc, flags, session, timer, children, late, interface, end_unix,
          files, logging>>

(* The steps of the teardown behind its wait.                              *)
Finishing == {"unlogging", "copying", "timing", "trimming", "appending", "deciding"}
Teardown == {"signalling", "joining"} \union Finishing

TypeOK ==
  /\ unit \in {"inactive", "active", "stopping", "restarting"}
  /\ pc \in {"exited", "opening", "launching", "capturing"} \union Teardown
  /\ stop_requested \in {"no", "yes"} /\ rotate_requested \in {"no", "yes"}
  /\ session \in 0..MaxSession
  /\ timer \in {"gone", "sleeping"}
  /\ ring \in {"off", "waiting", "running", "closing"}
  /\ polls \in 0..MaxPoll
  /\ can_asc \in {"off", "running", "converting"}
  /\ screen \in {"off", "waiting"}
  /\ streams \subseteq Streams
  /\ late \subseteq Sessions \X (Shells \union {"screen"})
  /\ end_unix \in {"unknown", "known"}
  /\ interface \in {"absent", "present"}
  /\ manifest \in [Sessions -> {"absent", "open", "trimmed", "garbled", "final"}]
  /\ asc \in [Sessions -> {"incremental", "converted", "mixed"}]
  /\ pcap \in [Sessions -> {"none", "partial", "early", "copied", "mixed"}]
  /\ logging \in 0..MaxSession

Init ==
  /\ unit = "inactive" /\ pc = "exited"
  /\ stop_requested = "no" /\ rotate_requested = "no"
  /\ session = 0 /\ timer = "gone"
  /\ ring = "off" /\ polls = 0 /\ can_asc = "off" /\ screen = "off"
  /\ streams = {} /\ late = {} /\ end_unix = "unknown"
  /\ interface \in {"absent", "present"}
  /\ manifest = [s \in Sessions |-> "absent"]
  /\ asc = [s \in Sessions |-> "incremental"]
  /\ pcap = [s \in Sessions |-> "none"]
  /\ logging = 0

(* The orchestrator has no child left; the control group has no process    *)
(* but the orchestrator.                                                   *)
Joined == ring = "off" /\ can_asc = "off" /\ screen = "off" /\ streams = {}
AllReaped == Joined /\ late = {}

-----------------------------------------------------------------------------
(* The unit.                                                               *)

(* systemctl start at boot, by hand, or five seconds after a failure: a new *)
(* process with both flags clear, once the old control group is empty.     *)
StartUnit ==
  /\ unit \in {"inactive", "restarting"} /\ pc = "exited" /\ AllReaped
  /\ session < MaxSession
  /\ unit' = "active" /\ pc' = "opening"
  /\ stop_requested' = "no" /\ rotate_requested' = "no"
  /\ UNCHANGED <<session, timer, children, late, interface, end_unix, files, logging>>

(* The orchestrator ends with an error: Restart=on-failure, unless the     *)
(* unit is being stopped.                                                  *)
ExitFailed == /\ pc' = "exited"
              /\ unit' = IF unit = "active" THEN "restarting" ELSE unit

(* KillSignal=SIGINT goes to every process of the control group.  Children *)
(* forked with & by a non-interactive shell ignore it, and so do their     *)
(* commands; tcpdump and candump install a handler once they run, and 06   *)
(* converts when candump ends.                                             *)
InterruptGroup ==
  /\ ring' = IF ring = "running" THEN "closing" ELSE ring
  /\ can_asc' = IF can_asc = "running" THEN "converting" ELSE can_asc
  /\ UNCHANGED <<polls, screen, streams, late>>

(* What the signal does to the orchestrator itself, beyond its trap: it    *)
(* cuts short a wait builtin, and kills the command in the foreground.     *)
(* Under set -e that exits; the teardown runs under set +e and goes on as  *)
(* if the screen log were off, the ring copied, the time known and the     *)
(* manifest trimmed.                                                       *)
StopEffect ==
  \/ pc = "joining" /\ pc' = "unlogging" /\ UNCHANGED <<pcap, logging>>
  \/ pc = "unlogging" /\ pc' = "copying" /\ logging' \in {0, logging} /\ UNCHANGED pcap
  \/ /\ pc = "copying" /\ pc' = "timing"
     /\ pcap' = [pcap EXCEPT ![session] = "partial"] /\ UNCHANGED logging
  \/ pc = "timing" /\ pc' = "trimming" /\ UNCHANGED <<pcap, logging>>
  \/ pc = "trimming" /\ pc' = "appending" /\ UNCHANGED <<pcap, logging>>
  \/ pc = "opening" /\ pc' = "exited" /\ UNCHANGED <<pcap, logging>>
  \/ pc # "joining" /\ UNCHANGED <<pc, pcap, logging>>

RequestStop ==
  /\ unit = "active"
  /\ pc \in Teardown => "stop_in_teardown" \in Faults
  /\ unit' = "stopping" /\ stop_requested' = "yes"
  /\ StopEffect
  /\ InterruptGroup
  /\ UNCHANGED <<rotate_requested, session, timer, interface, end_unix, manifest, asc>>

(* A stop while systemd waits to restart the unit: nothing to signal.      *)
CancelRestart ==
  /\ unit = "restarting" /\ unit' = "stopping"
  /\ UNCHANGED <<pc, flags, session, timer, children, late, interface,
                 end_unix, files, logging>>

UnitStopped ==
  /\ unit = "stopping" /\ pc = "exited" /\ AllReaped
  /\ unit' = "inactive"
  /\ UNCHANGED <<pc, flags, session, timer, children, late, interface,
                 end_unix, files, logging>>

KillEverything ==
  /\ pc' = "exited" /\ timer' = "gone"
  /\ ring' = "off" /\ can_asc' = "off" /\ screen' = "off" /\ streams' = {}
  /\ late' = {}
  /\ UNCHANGED <<polls, flags, session, end_unix, files>>

\* Mutant: KillMode=process, so the timeout spares the children.
StopTimeoutMainOnly ==
  /\ "timeout" \in Faults
  /\ unit = "stopping" /\ pc # "exited"
  /\ pc' = "exited" /\ timer' = "gone"
  /\ UNCHANGED <<unit, flags, session, children, late, interface, end_unix,
                 files, logging>>

(* TimeoutStopSec=300 has passed since the unit began to stop.             *)
StopTimeout ==
  /\ "timeout" \in Faults
  /\ unit = "stopping" /\ ~ (pc = "exited" /\ AllReaped)
  /\ KillEverything
  /\ UNCHANGED <<unit, interface, logging>>

(* The kernel kills the orchestrator.  systemd then clears the group: an   *)
(* INT now, a KILL for what still runs after the timeout.                  *)
OomKill ==
  /\ "oom" \in Faults
  /\ pc # "exited"
  /\ ExitFailed /\ timer' = "gone"
  /\ InterruptGroup
  /\ UNCHANGED <<flags, session, interface, end_unix, files, logging>>

ReapGroup ==
  /\ pc = "exited" /\ unit # "stopping" /\ ~ AllReaped
  /\ KillEverything
  /\ UNCHANGED <<unit, interface, logging>>

(* Power is cut: the processes, the screen session and the USB device go,  *)
(* the directories stay as they are.                                       *)
PowerLoss ==
  /\ "power" \in Faults
  /\ unit # "inactive"
  /\ KillEverything
  /\ unit' = "inactive" /\ interface' = "absent" /\ logging' = 0

-----------------------------------------------------------------------------
(* The orchestrator.                                                       *)

(* run_session up to the creation of manifest.json.  The preflight may     *)
(* refuse: the space is short, or the directory exists.                    *)
OpenSession ==
  /\ pc = "opening"
  /\ \/ /\ pc' = "launching" /\ session' = session + 1
        /\ manifest' = [manifest EXCEPT ![session + 1] = "open"]
        /\ end_unix' = "unknown"
        /\ UNCHANGED unit
     \/ ExitFailed /\ UNCHANGED <<session, manifest, end_unix>>
  /\ UNCHANGED <<flags, timer, children, late, interface, asc, pcap, logging>>

Launch ==
  /\ pc = "launching" /\ pc' = "capturing"
  /\ ring' = "waiting" /\ polls' = 0
  /\ can_asc' = "running" /\ screen' = "waiting" /\ streams' = Streams
  /\ timer' = IF rotate_secs > 0 THEN "sleeping" ELSE "gone"
  /\ UNCHANGED <<unit, flags, session, late, interface, end_unix, files, logging>>

\* Mutant: an exit from the trap instead of a flag.
LeaveAndExitOnStop ==
  /\ pc = "capturing" /\ "yes" \in {stop_requested, rotate_requested}
  /\ pc' = IF stop_requested = "yes" THEN "exited" ELSE "signalling"
  /\ timer' = "gone"
  /\ UNCHANGED <<unit, flags, session, children, late, interface, end_unix,
                 files, logging>>

\* Mutant: the loop tests only the stop flag.
LeaveOnStopOnly ==
  /\ pc = "capturing" /\ stop_requested = "yes"
  /\ pc' = "signalling" /\ timer' = "gone"
  /\ UNCHANGED <<unit, flags, session, children, late, interface, end_unix,
                 files, logging>>

(* The wait loop watches the two flags and nothing else; the first thing   *)
(* after it is to kill the timer and wait for it.                          *)
LeaveWaitLoop ==
  /\ pc = "capturing" /\ "yes" \in {stop_requested, rotate_requested}
  /\ pc' = "signalling" /\ timer' = "gone"
  /\ UNCHANGED <<unit, flags, session, children, late, interface, end_unix,
                 files, logging>>

\* Mutant: only the first dimension is signalled, not the whole array.
SignalFirstOnly ==
  /\ pc = "signalling" /\ pc' = "joining"
  /\ ring' = IF ring = "running" THEN "closing" ELSE ring
  /\ can_asc' = IF can_asc = "running" THEN "converting" ELSE can_asc
  /\ UNCHANGED <<unit, flags, session, timer, polls, screen, streams, late, interface,
                 end_unix, files, logging>>

(* One INT to the ring capture, one TERM to every dimension.  The ring     *)
(* script ignores the INT until tcpdump has replaced it, and 06 has a      *)
(* trap.  The other shells die, each perhaps leaving its last command.     *)
SignalChildren ==
  /\ pc = "signalling" /\ pc' = "joining"
  /\ ring' = IF ring = "running" THEN "closing" ELSE ring
  /\ can_asc' = IF can_asc = "running" THEN "converting" ELSE can_asc
  /\ screen' = "off" /\ streams' = {}
  /\ LET ended == (streams \intersect Shells)
                     \union {d \in {"screen"} : screen = "waiting"}
     IN \E left \in SUBSET ended :
          /\ left # {} => "straggler" \in Faults
          /\ late' = late \union ({session} \X left)
  /\ UNCHANGED <<unit, flags, session, timer, polls, interface, end_unix, files, logging>>

\* Mutant: wait for the ring capture's pid only.
JoinRingOnly ==
  /\ pc = "joining" /\ ring = "off"
  /\ pc' = "unlogging"
  /\ UNCHANGED <<unit, flags, session, timer, children, late, interface,
                 end_unix, files, logging>>

(* The bare wait of the teardown: it sees the children, not what they left. *)
Join ==
  /\ pc = "joining" /\ Joined
  /\ pc' = "unlogging"
  /\ UNCHANGED <<unit, flags, session, timer, children, late, interface,
                 end_unix, files, logging>>

\* Mutant: no screen -X log off.
SkipLogOff ==
  /\ pc = "unlogging" /\ pc' = "copying"
  /\ UNCHANGED <<unit, flags, session, timer, children, late, interface,
                 end_unix, files, logging>>

(* screen -X log off.                                                      *)
LogOff ==
  /\ pc = "unlogging" /\ pc' = "copying"
  /\ logging' = 0
  /\ UNCHANGED <<unit, flags, session, timer, children, late, interface,
                 end_unix, files>>

(* 05_usb_pcap.sh.  Copying from a ring that tcpdump still writes is an    *)
(* early copy.                                                             *)
CopyRing ==
  /\ pc = "copying" /\ pc' = "timing"
  /\ pcap' = [pcap EXCEPT ![session] = IF ring = "off" THEN "copied" ELSE "early"]
  /\ UNCHANGED <<unit, flags, session, timer, children, late, interface,
                 end_unix, manifest, asc, logging>>

(* end_unix=$(now).                                                        *)
TakeTime ==
  /\ pc = "timing" /\ pc' = "trimming"
  /\ end_unix' = "known"
  /\ UNCHANGED <<unit, flags, session, timer, children, late, interface, files, logging>>

(* sed -i '$d': drop the closing brace of the manifest ...                 *)
TrimManifest ==
  /\ pc = "trimming" /\ pc' = "appending"
  /\ manifest' = [manifest EXCEPT ![session] = "trimmed"]
  /\ UNCHANGED <<unit, flags, session, timer, children, late, interface,
                 end_unix, asc, pcap, logging>>

(* ... and append ended_at_unix, whatever it is, with a new one.           *)
AppendManifest ==
  /\ pc = "appending" /\ pc' = "deciding"
  /\ manifest' = [manifest EXCEPT ![session] =
                    IF @ = "trimmed" /\ end_unix = "known" THEN "final" ELSE "garbled"]
  /\ UNCHANGED <<unit, flags, session, timer, children, late, interface,
                 end_unix, asc, pcap, logging>>

(* The end of run_session and the main loop's decision.                    *)
Decide ==
  /\ pc = "deciding"
  /\ rotate_requested' = "no"
  /\ \/ /\ rotate_secs > 0 /\ stop_requested = "no"
        /\ pc' = "opening"
     \/ /\ rotate_secs = 0 \/ stop_requested = "yes"
        /\ pc' = "exited"
  /\ UNCHANGED <<unit, stop_requested, session, timer, children, late, interface,
                 end_unix, files, logging>>

-----------------------------------------------------------------------------
(* The children and the devices.                                           *)

(* The subshell sleeps, sends USR1 and ends.  The bound on sessions is     *)
(* here: in the last one the timer never fires.                            *)
TimerFires ==
  /\ timer = "sleeping" /\ session < MaxSession
  /\ timer' = "gone" /\ rotate_requested' = "yes"
  /\ UNCHANGED <<unit, pc, stop_requested, session, children, late, interface, end_unix,
                 files, logging>>

(* The poll finds the interface.  Unless the fault is allowed, no ring     *)
(* script execs tcpdump once the orchestrator has sent its only INT.       *)
InterfaceSeen == interface = "present" /\ (pc = "joining" => "late_tcpdump" \in Faults)

RingPoll ==
  /\ ring = "waiting"
  /\ \/ InterfaceSeen /\ ring' = "running" /\ UNCHANGED polls
     \/ ~ InterfaceSeen /\ polls < MaxPoll /\ polls' = polls + 1 /\ UNCHANGED ring
     \/ ~ InterfaceSeen /\ polls = MaxPoll /\ ring' = "off" /\ UNCHANGED polls
  /\ UNCHANGED <<unit, pc, flags, session, timer, can_asc, screen, streams,
                 late, interface, end_unix, files, logging>>

(* tcpdump has drained and closed its file after the INT, or gives up      *)
(* because the device is gone.                                             *)
RingEnds ==
  /\ ring = "closing" \/ (ring = "running" /\ interface = "absent")
  /\ ring' = "off"
  /\ UNCHANGED <<unit, pc, flags, session, timer, polls, can_asc, screen,
                 streams, late, interface, end_unix, files, logging>>

(* finish: log2asc over the whole of can.log.  It empties the file when it *)
(* starts; what a command left by the flush appended since then is in it.  *)
ConversionDone ==
  /\ can_asc = "converting" /\ can_asc' = "off"
  /\ \E a \in {"converted", "mixed"} :
       /\ a = "mixed" => asc[session] = "mixed"
       /\ asc' = [asc EXCEPT ![session] = a]
  /\ UNCHANGED <<unit, pc, flags, session, timer, ring, polls, screen, streams,
                 late, interface, end_unix, manifest, pcap, logging>>

(* candump fails: 06 dies without converting.                              *)
CandumpDies ==
  /\ "candump_dies" \in Faults
  /\ can_asc = "running" /\ can_asc' = "off"
  /\ UNCHANGED <<unit, pc, flags, session, timer, ring, polls, screen, streams,
                 late, interface, end_unix, files, logging>>

(* 07 found its screen session and turned logging on - which screen        *)
(* refuses while it is on already - or gave up.                            *)
ScreenEnds ==
  /\ screen = "waiting" /\ screen' = "off"
  /\ \/ logging' = IF logging = 0 THEN session ELSE logging
     \/ UNCHANGED logging
  /\ UNCHANGED <<unit, pc, flags, session, timer, ring, polls, can_asc, streams,
                 late, interface, end_unix, files>>

StreamDies(d) ==
  /\ d \in streams /\ streams' = streams \ {d}
  /\ UNCHANGED <<unit, pc, flags, session, timer, ring, polls, can_asc, screen,
                 late, interface, end_unix, files, logging>>

InterfaceToggles ==
  /\ interface' = IF interface = "absent" THEN "present" ELSE "absent"
  /\ UNCHANGED <<unit, pc, flags, session, timer, children, late, end_unix,
                 files, logging>>

(* A command whose shell is gone ends.  What it did until then: of the     *)
(* flush, awk appended to can.asc, or mv replaced a copied ring file by an *)
(* older one; of 07, screen was told to log.  The others write files that  *)
(* nobody else does.                                                       *)
LateEnds(s, d) ==
  /\ <<s, d>> \in late /\ late' = late \ {<<s, d>>}
  /\ \/ UNCHANGED <<asc, pcap, logging>>
     \/ d = "flush" /\ asc' = [asc EXCEPT ![s] = "mixed"] /\ UNCHANGED <<pcap, logging>>
     \/ /\ d = "flush" /\ pcap[s] # "none"
        /\ pcap' = [pcap EXCEPT ![s] = "mixed"] /\ UNCHANGED <<asc, logging>>
     \/ d = "screen" /\ logging = 0 /\ logging' = s /\ UNCHANGED <<asc, pcap>>
  /\ UNCHANGED <<unit, pc, flags, session, timer, children, interface, end_unix, manifest>>

-----------------------------------------------------------------------------
Orchestrator == OpenSession \/ Launch \/ LeaveWaitLoop \/ SignalChildren \/ Join
                \/ LogOff \/ CopyRing \/ TakeTime \/ TrimManifest \/ AppendManifest
                \/ Decide

Systemd == StartUnit \/ RequestStop \/ CancelRestart \/ UnitStopped
           \/ StopTimeout \/ OomKill \/ ReapGroup \/ PowerLoss

Child == TimerFires \/ RingPoll \/ RingEnds \/ ConversionDone \/ CandumpDies
         \/ ScreenEnds \/ (\E d \in Streams : StreamDies(d))
         \/ \E s \in Sessions, d \in Shells \union {"screen"} : LateEnds(s, d)

Next == Orchestrator \/ Systemd \/ Child \/ InterfaceToggles

Spec == Init /\ [][Next]_vars

(* A runnable process is scheduled: the orchestrator's next command, a     *)
(* poll, the exit of a signalled child, the timer's sleep, systemd's own   *)
(* timeouts.  Nothing is assumed of stops, faults or the device.           *)
Fairness ==
  /\ WF_vars(Orchestrator)
  /\ WF_vars(RingPoll) /\ WF_vars(ring = "closing" /\ RingEnds)
  /\ WF_vars(ConversionDone) /\ WF_vars(TimerFires)
  /\ WF_vars(UnitStopped) /\ WF_vars(StopTimeout) /\ WF_vars(ReapGroup)

FairSpec == Spec /\ Fairness

-----------------------------------------------------------------------------
(* Safety.                                                                 *)

(* A session starts from a clean slate: while one is opened or launched,   *)
(* no child of an earlier one is alive, its timer cannot fire into this    *)
(* one and no rotation request is left over.  The teardown's wait can be   *)
(* cut short by a signal, so this rests on the decision that follows it.   *)
(* Commands that outlive their shells may be there: the wait cannot see    *)
(* them.                                                                   *)
FreshSession ==
  pc \in {"opening", "launching"} =>
    Joined /\ timer = "gone" /\ rotate_requested = "no"

(* The manifest's end time is a promise: a session that carries it holds   *)
(* the full conversion of can.log and the copy of a ring that had stopped. *)
StampedSessionComplete ==
  \A s \in Sessions :
    manifest[s] = "final" => asc[s] = "converted" /\ pcap[s] = "copied"

(* When nothing is killed, every session before the current one carries    *)
(* its end time, and the current one too once the orchestrator has exited  *)
(* after opening it.                                                       *)
EarlierSessionsFinal ==
  \A s \in Sessions :
    s < session \/ (s = session /\ pc \in {"opening", "exited"})
      => manifest[s] = "final"

(* Screen logs into the directory being recorded or not at all: a finished *)
(* session directory stops growing (screen -X log off in the teardown,     *)
(* 07 being ended before it).                                              *)
ScreenLogsIntoLiveSession ==
  logging # 0 => logging = session /\ manifest[session] = "open"

-----------------------------------------------------------------------------
(* A session is live as long as the orchestrator, a child or a timer works *)
(* for it; commands that outlive their shells are kept apart.              *)
Live == IF pc \in {"exited", "opening"} /\ Joined /\ timer = "gone" THEN 0 ELSE session

LateSessions == {p[1] : p \in late}

Promise == INSTANCE RecorderPromise WITH opened <- session, live <- Live,
                                         late <- LateSessions,
                                         rotation <- rotate_requested

(* The recorder keeps its promise to those that clean, copy and analyse    *)
(* session directories, whatever fails: no child, timer or rotation of one *)
(* session reaches the next, no directory but the live one changes - save  *)
(* can.asc and the ring's copy while a command outlives its shell -, and   *)
(* the ring is copied and the manifest closed once, in this order          *)
(* (run_session and the main loop of capture_seven_dimensions.sh).         *)
PromiseKept == Promise!Spec

-----------------------------------------------------------------------------
(* Liveness.                                                               *)

(* A stop of a running capture ends with the manifest's end time written.  *)
StopFinalizes ==
  \A s \in Sessions :
    (session = s /\ pc = "capturing" /\ stop_requested = "yes") ~> (manifest[s] = "final")

(* No session's files grow without bound: with rotation on, a session      *)
(* other than the bound's last leaves the capturing state and is finished. *)
RotationBoundsSession ==
  \A s \in 1..(MaxSession - 1) :
    (session = s /\ pc = "capturing") ~> (manifest[s] = "final")

(* Stopping the unit always terminates, with nothing left running.         *)
StopTerminates == unit = "stopping" ~> (unit = "inactive" /\ AllReaped)

=============================================================================
