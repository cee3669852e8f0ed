# A formal model of robopi-analyze

robopi-analyze records the state of a robot (seven "dimensions": BMS, CAN
counters, kernel log, HPM serial log, USB packets, CAN frames, inference
output), keeps the recordings within limits, saves snapshots of faults,
resets and flashes the HPM controller, and analyses what was recorded. Most
of it is shell script: processes that signal, wait for, kill and restart each
other over a shared file system, under systemd. That part is what a unit test
reaches least, and what this project models first. The rest is Python: the
tool that programs the HPM chip, in flash and in fuses that cannot be
unburned, and the analyses whose numbers people act on.

The project holds TLA+ modules, TLC configurations for small instances, and
theorems checked by TLAPS for every value of the constants. `PROJECT.json`
maps each definition to the lines that it models, names a plausible bug
("mutant") that each property catches, and lists the hazards and findings.

## 1. Inventory

| Component | State | Operations | Interacts with | What is hard | What makes it correct |
|---|---|---|---|---|---|
| Seven-dimension recorder: `capture/capture_seven_dimensions.sh`, `capture/capture_usbcan_ring.sh`, `dimensions/*.sh`, `usbcan-capture.service` | two flags, the current session directory, the rotation timer, about nine child processes, `manifest.json` | open a session, launch, wait, tear down, decide; rotate; stop | systemd (start, INT to the group, timeout, restart), candump, tcpdump, screen, the cleanup, the flush | signals at any command, `wait` cut short by a trap, INT ignored by background jobs, kills and power loss between two file updates | a stop always ends; the sessions of its children do not overlap; an end time means that the files are complete |
| Incremental flush: `capture/flush_session.sh` | byte offset, first time, per-file mtimes | convert the new bytes, mirror changed ring files | candump and tcpdump as writers, the teardown as a second writer of its results | reading while it is written, retries, being killed mid-pass | `can.asc` is always a prefix of the whole conversion; the teardown's result wins |
| Session cleanup: `bin/cleanup_sessions.sh` | a sorted list of directories, a running sum | sweep by age and by size | the recorder, an operator's own pass | two passes at once, a removal interrupted half way | the budget and the age limit hold after a pass; the live session is never touched |
| HPM reset and flashing: `bin/hpm_sreset.sh`, `bin/flash_hpm.sh`, `hpm-sreset.service` | two GPIO lines (BOOT, RESET) | monitor and reset; flash | each other, the chip, USB | no lock between the two, signals and kills between two writes | normal boot is restored; "Done" is true |
| Emergency snapshot: `bin/save_usbcan_snapshot.sh` | four flags, directory, `.zip`, `.sha256` | pause the recorder, copy, resume, pack | the recorder's service, the operator | any command may fail, in the EXIT trap too, or be signalled; the flags lag one command behind | the recorder is running again; nothing half done stays; nothing announced goes |
| hpmtool, BootROM protocol and flash commands: `bin/hpmtool.py` | frames on their way, the command in hand, data read | overlap test, options from the image, connect, command, read | the chip's BootROM over HID or serial, whoever resets it | refusals, resets, late or lost frames, waits without a timeout, ignored results | a command that returns OK was carried out once, in its turn; what is saved or said to be written is whole |
| hpmtool, OTP commands: `bin/hpmtool.py` | the fuses (and the rows of a CSV file) | otp_write, key writers, factory, exip, life cycle, dump, summary | the chip | irreversible words written one after the other by commands that fail, crash and are run again | nothing is locked before it is whole and verified; nothing is burned over; the final banner is true |
| USB analysis: `analysis/analyze_usbcan_*.py`, `bin/analyze_ethercan_pcap.py`, `compare_usbcan_captures.py`, `extract_usbcan_error_windows.py` | per-endpoint and per-device counters, pending URBs, waiting errors, echo contexts | one pass over the records of a capture | pcap files, one another's reports | identifiers reused, rings that wrap, several programs that must agree | conservation: each submission, failure and echo is told once, of the right endpoint |
| ASC and session analysis: `analyze_can_asc.py`, `analyze_seven_dimensions.py`, `check_usbcan_snapshot.sh` | series, silences, events; output files and a summary | one pass over a recording; a run on a session directory | `can.asc`, sessions that may still be written | overlapping silences, attribution, window edges, interrupted and repeated runs | losses reported are losses and are found; a summary speaks of the files that are there |
| CAN restart, HPM serial log, dashboard, export, packaging | little | straight sequences or pure I/O | - | - | not modelled, see section 7 |

## 2. Modules

| Module | Models | Proofs |
|---|---|---|
| `SevenCapture` | recorder, children, unit | `SevenProofs` |
| `RecorderPromise` | abstract: what everything that handles session directories relies on; refined by `SevenCapture` | `SevenProofs` |
| `FlushSession` | flush, its writers, the teardown over its results | `FlushProofs` |
| `SessionCleanup` | cleanup passes beside a recorder | `CleanupProofs` |
| `HpmControl` | monitor, flash script, chip | `HpmProofs` |
| `Snapshot` | snapshot runs beside the service | `SnapshotProofs` |
| `OtpFactory` (`MCOtp`) | the fuse commands of hpmtool and the fuses | `OtpProofs` |
| `FlashOptions` | overlap test, addresses and flash configuration of hpmtool | - |
| `BootRom` (`MCBootRom`), extends `FlashOptions` | a run of write_flash or read_flash against the BootROM | `BootRomProofs` |
| `ReliableRequest` | abstract: what a user of `command()` relies on; refined by `BootRom` | - |
| `UsbRecords` | the records that all USB analysers read | - |
| `UrbHealth`, `EchoContexts`, `UrbTimeline`, `GsFrames` | one analyser each (`UrbHealth` with the comparison and the error windows) | - |
| `UsbCapture` (`MCUsb`), composes the four | one capture read by all of them | `UsbProofs` |
| `CanAsc` (`MCCanAsc`) | a recording and `analyze_can_asc.py` on it | `SevenProofs` |
| `SevenDimensions` (`MCSevenDimensions`) | a session directory and `analyze_seven_dimensions.py` on it | `SevenProofs` |

An action is one command of a script, or one event of a process the script
talks to; a step between two commands is where a signal, a kill or another
process comes in. Flags are the strings "yes" and "no", as they are in the
scripts (two that the scripts keep as 0 and 1 as well). Mutants stand
directly before the definition that they alter and are used by nothing.

**SevenCapture.** `pc` is the line of `run_session` or of the main loop:
`opening` (80-120), `launching` (122-147), `capturing` (149-154),
`signalling` and `joining` (161-163), `unlogging` (164), `copying` (165),
`timing` (166-167), `trimming` (168), `appending` (169-171), `deciding`
(174-186). `unit` is systemd's view. The
children that matter to the teardown have states of their own: `ring` is
`capture_usbcan_ring.sh`, which polls and then becomes tcpdump; `can_asc` is
`06_can_asc.sh`, which converts when candump ends; `screen` is
`07_inference_screen.sh`; `streams` are the rest. Four facts of the shell are
built in, because the behaviour turns on them: a background job of a
non-interactive shell ignores INT until the program that it execs installs a
handler; a trapped signal ends `wait` early; a signal to the group kills the
foreground command, which under `set -e` may end the script and under the
teardown's `set +e` does not - the log then stays on, the copy is partial or
the end time is empty; and the TERM of the teardown ends a shell but not the
command it waits for, which goes on as a grandchild that no `wait` sees
(`late`: of the flush it may still write `can.asc` or a copied ring file, of
07 it may still turn the log on). `Faults` selects what the environment does
wrong - commands that outlive their shells are the fault `straggler` -, so
that the same module serves an orderly instance and a hostile one.

**RecorderPromise** is the recorder as its readers see it: directories are
opened in turn, each only when the recorder has no child, no timer and no
request left of the one before, and only the last one changes - but for
`can.asc` and the copied ring of a session one of whose commands has outlived
its shell (`Leave`, `Straggle`), until it ends. `SevenCapture` maps to it
(`Promise`): `Live` is the session that some child, the timer or the main loop
still works on, `late` the sessions with such a command, and a request to
rotate is one that the main loop has yet to see.

**FlushSession.** `can.log` is its size in bytes, two bytes to a line, so
that it can end inside a line; `can.asc` is the sequence of times in it; a
ring file is the number of writes that it has seen, with its mtime in whole
seconds. `pipe` is what the pipeline `awk | cat >> can.asc` still has to
append, because it lives on when its shell is killed.

**SessionCleanup.** Sessions are numbered in the order of their start. A pass
takes its list once and then reads row by row; `rm -rf` is two steps, and a
directory half removed may have a new stamp, since its manifest is gone and
its mtime is fresh. `Passes` holds the recorder's pass and the operators'.

**HpmControl.** The chip latches BOOT at the rising edge of RESET; what it
runs decides what enumerates on USB. `mpc` and `fpc` are the monitor and
`flash_hpm.sh`, one state for each write to a brightness file. The monitor's
`--reset` child is part of the monitor: it dies with it. `write_flash` is
three steps: the device is opened, the chip takes the first of the data, and
the tool ends - with the image written, or refused (`refusal`), or with the
chip gone; in the last two cases it may still exit 0, since nobody looks at
the result of a write.

**Snapshot.** `pc` walks lines 48-131 and, in the `clean_*` states, the EXIT
trap (33-44). With `command_fails` every command of both may fail: one of the
run sends it into the trap - but for a failing `sha256sum`, which goes
unnoticed and leaves a line without a digest (`blank`) -, a failing `rm` ends
the trap where it stands (`trap_cut`), and a failing start at its end is
swallowed (`unstarted`). `found` and `meddled` are history variables: what `is-active`
said, and whether somebody else has changed the service since. `finished` is
the set of snapshots whose paths have been printed.

**OtpFactory.** A fuse word is the set of its burned bits, so that to program
is to add bits; word 0 is `HARD_LOCK`, whose bits lock four words each, word 1
the life cycle. One command runs at a time; a step is one irreversible write
with the reads before it, because between two of them the host may crash. The
fuses outlive the command, and any command may follow. `lockview` is the
number that a command takes for `HARD_LOCK`: read once by the key writers,
overwritten by each word in `otp_write`. `raw` remembers that an operator has
burned word 0 or 1 by hand, which no command can answer for. A lost write and
a failing read are in `Faults`. `otp_dump` and `otp_summary` change nothing
and are operators (`Dumped`, `Printed`). The four copies of the row loop in
the source are one set of actions; `map` names for each action the copy that
it is most directly read from.

**FlashOptions** and **BootRom.** A run from the command line to its end:
`DetectedOverlap` refuses files (it compares each with the one that `Follows`
it in the order of addresses), `DetectedOptions` and `BuiltConfig` take the
options from the image to names and to words again; then the tool (`Host`) and
the chip (`Chip`) exchange frames over two queues. A frame carries the number
of its request as a history label that neither side can read; the tool
recognises an answer by its command, as the code does. `pc` is where
`command_usb`, `command_serial` or `read_memory` waits; the two transports
differ in what one read returns, which is why they have actions of their own
(`TakeAck` and `UsbAnswer`; `SerialShort`, `SerialAnswer` and
`SerialTimeout`). The chip is external and does what the tool expects of it,
or refuses, answers with a bad status, is reset, loses a frame once, or
answers late: the members of `Faults`.

**ReliableRequest** promises one thing: requests in turn, each executed at
most once, and executed if it returned OK. `LoseTrust` is the one exception
that the code makes: a sync repeated before its answer has come.

**UsbRecords** to **UsbCapture.** The analysers share nothing but the file.
Each is a module with the variables of its pass and one action for a row (two
where a payload is walked frame by frame); `UsbCapture` lets them read the
same capture side by side, so that every prefix of every capture is a state,
and remembers the capture as a history variable. The properties compare the
streaming numbers with definitions over the whole capture, and the reports
with one another. `RingFiles` cuts the capture the way tcpdump's ring does;
`Ranked` is Python's `sorted`: the j-th file is the one with j - 1 before it.

**CanAsc.** The recording is written first, tick by tick, by periodic
transmitters; single frames are lost and channels halt, and what was really
lost is remembered. Then the program runs: it begins (or ends early), merges
one window of silence after the other, as the loop of `channel_idle_events`
does, and reports. It has no partner; the merge is in steps because its
correctness is a loop invariant. Medians are kept doubled and rates inverted,
so that all numbers are whole; the j-th of the gaps is found by its rank.

**SevenDimensions.** Lines are known by their place in the order of writing;
`Begin` is the reading part of a run, then come its files one by one and the
summary, and the run may be interrupted between any two; a file is written in
one step, so one that an interruption leaves truncated is not in the model.
The session goes on beside it. A line of the inference log has its date (`t`)
and perhaps a number in brackets (`number`), which the parser takes first
(`ParseBracketed`, `ParseDated`). A row carries the parser, the line and the part it comes from,
which is the order of appending; the rows of a run are a set, and a file lists
them by their rank in the order of `rows.sort` (`RowBefore`, `Sorted`).

## 3. Runs

| Run | Instance | Shows |
|---|---|---|
| `seven_faults` | 2 sessions, 1 poll, all faults | the refinement of `RecorderPromise`: sessions do not overlap, and what is closed stands but for the two files that a command left behind may touch; stopping always ends - with such commands, kills, power loss, timeouts and second stops anywhere |
| `seven_orderly` | 3 sessions, 2 streams, no faults | an end time means complete files; every session gets one; screen logs into the live session only; a stop and a rotation are carried out |
| `seven_hang` (violation) | 1 session, tcpdump may start late | the teardown's only INT is lost on a shell that is still polling: the stop never writes the end time |
| `flush` | 2 lines, 2 ring files, 2 seconds, failing conversions and copies | prefix, exact offset, mirror lag, every line appears |
| `hpm` | 2 deaths of the monitor, all faults | normal boot restored, Done honest unless the chip refused or was reset, the HPM comes back |
| `cleanup` | 2 passes, 3 sessions, sizes and times up to 3 | budget, live session |
| `snapshot` | 2 seconds, all faults but the repeated second | recorder restored, quiet copy, no half directory, the pause ends - whatever fails but the trap's own commands |
| `otp` | 11 words, 6 CSV files, 2 random values, all faults | nothing locked before it is whole, the banner true, keys sealed as verified, nothing burned over - through any sequence of commands |
| `bootrom` | 6 file lists, 4 headers, chunks of 3, 2 packets, 2 attempts, all faults | the refinement of `ReliableRequest`; files written and saved whole; configuration kept, for headers of the kinds that survive; the run ends or waits for ever in one of the waits without a timeout |
| `usb_capture` | all captures of 4 out of 8 records | pending and failed URBs, echo contexts, the chosen endpoint, the order of a ring |
| `can_asc` | 3 identifiers on 2 channels, 9 ticks, 2 losses, 3 halted ticks | silences told as they were; reported losses are real; losses of one identifier are found |
| `seven_dimensions` | 3 lines out of 14, 2 runs | a summary that is there is true; a completed run tells every line once, by the time its parser reads, in order |

Further configurations belong to the project and are run by hand, since they
state what is a theorem anyway, what is shallower, or what is known to fail:

| Configuration (module) | Shows |
|---|---|
| `seven_faults_more` (`SevenCapture`), `flush_more` (`FlushSession`), `hpm_more` (`HpmControl`), `cleanup_more` (`SessionCleanup`), `snapshot_more` (`Snapshot`), `otp_more` (`MCOtp`), `bootrom_more` (`MCBootRom`), `usb_capture_more` (`MCUsb`) | the type invariants; also `FreshSession`, `TeardownOverwrites`, `FreshAfterSweep`, `AnnouncedStays`, the true figures of `otp_summary` (`SummaryTruthful`), and the open contexts, gaps and frame counts of the USB analysers (`OutstandingIsReal`, `GapIsReal`, `FramesAgree`, `FramesTold`): pass |
| `seven_second_stop` (`SevenCapture`) | a stop during a rotation's teardown stamps a session that is still being converted: fails |
| `flush_term` (`FlushSession`) | a `.tmp` file, or late output of the pipeline, survives the teardown: fails |
| `hpm_interference` (`HpmControl`) | the monitor resets a chip that is being flashed, and the script says Done: fails |
| `cleanup_overlap` (`SessionCleanup`) | a leftover of one pass takes row 1 of another, which removes the newest session: fails |
| `snapshot_same_second` (`Snapshot`) | a refused run removes the archive of an earlier one: fails |
| `otp_locktest` (`MCOtp`) | the lock test of `otp_write` looks at another word: fails |
| `can_asc_hidden` (`MCCanAsc`) | another channel's silence hides a loss: fails |

Why the bounds are enough. Two sessions are what "the previous and the next"
takes, and the third of `seven_orderly` shows that the second is not special.
One poll more than none separates "still polling" from "running" and from
"gave up". Two lines of two bytes give every cut: before, inside and between
lines, with a chunk before and one after it; two ring files give a rotation
and a wrap; two seconds give a write in the recorded second and one after it.
Three sessions in the cleanup are the protected one, one that crosses the
budget and one behind it. Two deaths of the monitor give one in the middle of
the repair of another. Eleven fuse words are one of each region (two of a key,
so that a key can be half burned); among the files are a repeated word, a
blank line, a conflicting key and a lock burned by hand. Chunks of three
bytes make commands of one, two and three chunks; two packets are a first and
a last one; two attempts are a failed and a repeated one, and endless attempts
are cut at two; the file lists are
adjacent sectors, a shared sector, an order that is not that of addresses and
the two ways to name a place. Four records give a submit, a failure, another
endpoint's use of the same URB, and a resubmission; their payloads hold more
than one frame, one that does not fit and one with an impossible DLC. Nine
ticks hold a gap of two losses, and silences of two channels that overlap,
nest or touch. Three lines and two runs give a file that the second run
replaces, one that it does not, and a line written in between. What the bounds
cannot show, the proofs below do for all values. The constants that only cut
the search short (`MaxSession`, `MaxClock`, `MaxLine`, `MaxWrite`, `MaxKill`,
`MaxSize`, `MaxRecords`, `Horizon`, `MaxLost`, `MaxHalt`, `MaxLines`,
`MaxRuns`) are marked where they are declared. Deadlock is checked except
where the bounds or the program's own end stop the behaviour: the clocks of
the cleanup and the snapshot, the flush's log, and the five Python modules,
whose programs end.

Two choices of the hostile instances deserve a word. In `seven_orderly` a
ring script does not start tcpdump after the teardown's INT, and no stop
falls into a teardown; `seven_hang` and `seven_second_stop` show exactly these
two events. In `flush` the TERM falls between two passes of the flush;
`flush_term` shows the other case.

## 4. Fairness

Weak fairness only, of what a scheduler or a timer guarantees: the next
command of a script, the exit of a process that was signalled, the end of a
sleep, systemd's own timeouts and restarts. `FlushSession` adds one strong
assumption: a conversion that is retried for ever does not fail for ever.
Nothing is assumed of operators, of faults, or of the devices: the interface
may never appear, the recorder may fail at any time. In `BootRom` only
the tool is fair: it takes what has come, and a read that has a timeout times
out (`Host`). Nothing is assumed of the chip, which may fall silent at any
time; `RunEnds` says that the run then ends, or stays in one of the waits
without a timeout and nowhere else: any read over USB HID, the two loops over
a serial port, and the endless attempts of `--connect-attempts 0`. The other Python modules have
no liveness property: their programs are loops over finite input. `seven_hang`
is checked under the same fairness as the run that passes. `HpmControl` assumes
that a running chip enumerates, within the ten seconds that the monitor sleeps after
a reset; how long the real firmware takes is not in the repository. It does
not assume that `write_flash` ends, which waits without a timeout.

## 5. Proofs

All theorems hold for every value of the constants that satisfies the named
assumptions of the modules (types, finiteness, non-emptiness); the bounds of
the searches (`MaxLine`, `MaxRecords`...) are constants too, so a theorem holds
whatever they are. Six theorems exclude members of `Faults`, in their statement:

| Theorem | Excludes | Because |
|---|---|---|
| `StampMeansComplete` | a stop inside a teardown, a dying candump, a command that outlives its shell | `seven_second_stop` fails; when candump fails its script ends without converting; the flush's `awk`, `cat` or `mv` may write after the conversion and the copy |
| `NoSessionLeftOpen` (`NothingKilled`) | all but a dying candump, a late tcpdump and a command that outlives its shell | a recorder that is killed, or stopped while it tears down, leaves its session open |
| `ScreenLogsLive` (`LogOffRuns`) | kills of the recorder's shell, a stop inside a teardown, a command that outlives its shell | nobody turns screen's log off then, the signal kills `screen -X log off`, or 07's `screen -X log on` comes after it |
| `TeardownReplaces` (`NoTermInFlush`) | a TERM in the middle of a pass of the flush | `flush_term` fails |
| `AnnouncedIsKept`, `NothingHalfLeft` | two runs in one second | `snapshot_same_second` fails |

TLC finds a counterexample for each of these faults alone, so none is excluded
for the proof's sake. The argument is the usual one, an inductive invariant; these are the
strengthenings and why they are needed.

* `SevenProofs`, the recorder. `FreshSession` speaks of children, timer and
  request; it is not inductive: the teardown's `wait` can be cut short, so
  children may outlive it. `FreshInv` says that they do so only when a stop is
  known (`stop_requested`), which is what forbids the next session.
  `StampMeansComplete` adds what each state of the teardown has already
  finished. `FinalInv` and `ScreenInv` tie the manifest, and screen's log, to
  the line that the recorder is at: outside a session the last one is stamped,
  and the log is on only between launching and copying. A candump that dies, a
  late tcpdump and (for the log) power loss are allowed. `RecorderKeepsPromise`
  is the refinement: every step of `SevenCapture` is one of `RecorderPromise`
  or a stutter, whatever the faults. Its invariant (`PromiseInv`) says that
  the line the recorder is at tells how far the manifest and the ring of the
  live session are, so that a step that closes, copies or stamps finds what
  the abstract one requires. `ClosedSessionsStand` carries what
  `RecorderPromise` implies over to the recorder: the manifest of a session
  that is closed is never touched again, nor are its other files once no
  command of it is left behind.
* `SevenProofs`, the session analysis. A row is known by its parser, line and
  part (`RowKnown`), so the order of the rows is total on those of a run and
  their ranks list each of them once (`SortedLists`). `RunInv` says what a run
  has read and which files are its own, `SummaryInv` what a summary says of
  files that later runs may have replaced; `SummaryIsTrue` adds that the
  places in the files number the rows but those of the session (`RowsAddUp`).
  `EveryLineIsTold` goes through the parsers: those that read a line are its
  own, by one time, and at most one more (`ReadersOfLine`), and once the session has ended
  the log that was read is the log there is.
* `SevenProofs`, the CAN log. `RecInv` says what a log is: the times at which
  an identifier was due, its channel not halted and its frame not lost. The
  merge's loop invariant (`MergeInv`) is that the events made so far are
  apart, hold the windows done, are covered by silences at every moment, and
  begin no later than what is left; `SilencesAreTold` is what remains when
  nothing is left. `LossesAreReal` needs that a gap without other frames is
  such a silence (`GapIsSilence`) and that what lies in an event is explained
  by it; that the missed frames are counted right is arithmetic: a gap is a
  number of periods, and one frame fewer is due in it (`DueBetween`).
  `LossesAreReported` adds that a time between first and last lies in a gap
  (`InAGap`) and that without silences there are no events.
* `FlushProofs`. What has been appended and what the pipeline still holds are
  one stretch of a single timeline (`Follows`), as long as the script's
  position says (`Extent`), and the offset is at a line's start (`Cursor`).
  `OneTimeline` and `OffsetIsExact` read off this invariant. `MirrorLags` rests
  on `Lag`: the mtime is read before the copy, so it can only be older than
  what the copy holds, and a file's writes before its mtime's second are fewer
  than all its writes. `TeardownReplaces` follows the order of the teardown
  (`Replaced`): nothing is in the pipe after the TERM, the conversion has
  overwritten a prefix, the copies come after the join.
* `HpmProofs`. A line in the wrong state is "owed" a write by one of the two
  programs, the one that comes by a correcting write before it can stop; a
  dead monitor owes what its restart does first. With two unlocked programs
  either may have written last, so the debt is a disjunction. `Killed` and a
  second signal are allowed everywhere.
* `CleanupProofs`. Stamps follow the order of start except for directories
  half removed (`StampsOrdered`), so the rows a pass still has to read are
  older than the row that it protects (`RowsOlder`), unless that row is a
  removal's leftover - the exception that the violation run shows is real.
  `SweepInBudget` and `SweepExpires` look at the middle of the recorder's pass
  (`SweepInv`): what it has read and kept is within its running sum
  (`InBudget`) and within the retention (`Fresh`), and its list still tells the
  size of every directory (`Listed`), whatever other passes remove meanwhile.
  The sum over a set is the community modules' recursive one; that it does not
  depend on the order and grows with the set is proved from the set's
  subsets, of which a counterexample would have a smallest (`SmallestSet`).
* `SnapshotProofs`. `StartOwed` says at each step who will start the service
  again: the flag, the command that is next, or nobody, since it is up. The
  ends in which the trap itself was cut short or its start failed are not
  among those of the properties: nobody starts it again there.
  `Fresh`, `FlagsTell` and `Kept` say the same of the files; they need runs in
  seconds of their own.
* `OtpProofs`. No property is inductive by itself, since what makes a lock
  safe was established several writes earlier and must survive the writes in
  between. `Established` says what each command has verified by the time it
  locks and that it still holds: programming only adds bits (`Writing`), and
  words that must stay keep their value (`OtherWords`, `LockTouches`). The
  step lemmas go command by command; `NothingBurnedTwice` and
  `SealsAreVerified` are action properties read off the same invariant.
* `UsbProofs`. `EchoConserved` is an invariant of counters and sets; the
  lemmas say that opening and closing a context changes exactly one channel's
  cardinality. `SameNumbersEverywhere` is the agreement of two programs, by
  the same case split on one record in both; `SameTargets` adds that the
  endpoints are listed once each (`SeenInv`) and that a device's IN records
  are its IN endpoint's (`InRecords`), so that the three ways to choose a
  busiest one meet. `PendingTold` and `EveryErrorTold` compare the streaming
  state with definitions over the whole capture: `PendingAt`, and `ErrorAt`
  with `WaitingInv` - the errors that wait for a URB are exactly the entries
  without a resubmission - survive one record more, because only the record
  that is last can be new to a definition (`LaterGrows`). `RingReadInOrder`
  numbers the cuts of the capture (`Places`) and shows that the order of the
  first records' times is theirs (`CutsPrecede`), an empty file at the end.
  `OpenContextsTold` says that the contexts a stream holds open are those of
  which the last frame was a submission (`ReadingInv`, `OpenInv`, also in the
  middle of a payload). `TimelineTold` and `FramesCounted` are about sums:
  the buckets and gaps of the timeline are those of the whole capture
  (`BucketsAt`, `GapAt`), and each frame of each record is counted once under
  its kind (`GsReadingInv`, `CountInv`).
* `BootRomProofs`. `RequestsReliable` is the refinement: `BootRom`'s
  specification implies that of `ReliableRequest`, with the tool's `k` as the
  abstract turn. The invariant (`Token`) is that of a token: as long as no
  late answer can be about, at most one command's frames are on their way, in
  one direction, and whether the chip has carried it out follows from where
  the tool waits. A reset or a lost frame only removes the token; a sync that
  is repeated too early is the one step that breaks the invariant, and it is
  the abstract `LoseTrust`. On top of it, `Carried` says what the commands
  carried out so far have left in the chip: `FilesStand` needs that files the
  overlap test lets pass take no byte from each other, `ImageConfigures` that
  each field survives the way to a name and back. `SavedWhole` adds `ReadInv`:
  while a read is on, the packets collected and those that the chip still has
  to send are together the whole read.

Every safety property that a run of the table checks is a theorem, and so are
the three that `usb_capture_more` adds to it, `OutstandingIsReal`,
`GapIsReal` and `FramesTold`. `LossesAreReported` has hypotheses, stated in
the property: no silence of a channel looked at, no halt of the identifier's
own, and a median that is its period; with a silence `can_asc_hidden` shows
the loss hidden.

Model-checked only are the liveness properties (`StopTerminates`,
`StopFinalizes`, `RotationBoundsSession`, `MidCaptureUsable`, `HpmComesBack`,
`PauseEnds`, `RunEnds`), because fairness and ENABLED are outside the prover,
and `FramesAgree`, which compares the two decoders and holds for the captures
where they should agree; `FramesCounted` proves each decoder's own count. No
module under a theorem uses a RECURSIVE operator, which the SMT backend does
not take.

## 6. Findings

Each is listed in `PROJECT.json` with its line. Those that a configuration
shows: the lost INT (`seven_hang`), the cut-short wait (`seven_second_stop`),
the flush's leftovers (`flush_term`), the monitor that disturbs flashing
(`hpm_interference`), the newest session removed by overlapping passes
(`cleanup_overlap`), the archive removed by a refused run
(`snapshot_same_second`), the lock test of `otp_write` (`otp_locktest`), the
loss hidden by another channel (`can_asc_hidden`).

Read off the code while it was modelled, in the shell scripts: the recorder
that does not notice that all dimensions have died, a preflight that compares
MB with KiB, a constant `candump_status`, the mtime recorded after a failed
copy, an empty directory or a lone checksum after a signal at the wrong
command, an EXIT trap that a failing `rm` ends before the service is started,
a failing start that is swallowed, a checksum line without a digest announced
as one, commands that outlive the shells the teardown ends, a log left on or
an end time left empty by a stop in the teardown, and a snapshot check that
looks for a file under an old name. In
hpmtool: a chip erase and a read-back that are empty functions, results of
writes that nobody looks at, a chip that the factory command refuses for ever
after a crash between its last two writes or after a debug key, keys sealed
with words that no file listed, a row out of range that keeps the factory
from locking, word 85 printed for word 86, overlap tested on addresses before
they are mapped, drive strength and flash size that do not survive the way
through the options, a failed query that ends in a TypeError, a late answer
taken for the next command's, and reads over USB and two serial waits without
a timeout, beside attempts without an end. In the
analyses: two decoders that disagree on an impossible DLC, a division by a
duration of zero, a result file of an earlier run left in place, CAN
details lost behind one broken record, inference lines stamped with a number
in brackets that is no time, and others dropped because their date has no
fraction. Two places of `TUTORIAL.md` no longer describe the code: the files
said to appear only after the stop grow during the capture, and the last ten
sessions said to be kept are kept only within the age and size limits.

## 7. What is left out

Inside the models: the content of the dimension files, messages, options that
change nothing (`--dry-run`), argument checks that come before any effect.
The clock of `SessionCleanup` does not step back, and no two sessions start
in one second. A process that is killed while it writes one file leaves it
partial only where a script's logic depends on it. In `SevenDimensions` a file is
written whole or not at all, while the code truncates it first. In `BootRom`:
bytes that change on the way (frames are lost, late, or refused, and no
checksum is modelled), sectors (the modelled chip erases none, so files that
share one without overlapping are not told apart), how a port or a device is
found, the change of the baud rate, the upload of a boot firmware
(`--sign_boot`), the bytes of a SLIP frame and of a report, the abort that
follows a read. In the USB analyses: fields that tshark leaves empty (such
rows are dropped before anything is counted), latencies and rates; the
comparison's "recovered" is checked as what it computes, a resubmission after
the error, and not as completions that follow. In
`CanAsc`: the bus load, jitter figures, the tables' layout. In
`SevenDimensions`: the regular expressions, which a line's form stands for,
and the merged file.

Components without a model: `restart_can_interfaces.sh` (a straight sequence
whose only state is the links'), `check_usbcan_snapshot.sh` (prints what
exists), the HPM serial log (`stty` and `cat` under `Restart=always`), the
dashboard and the export (read-only, or an archive command), packaging.

## 8. What would come next

1. `SessionCleanup` and `Snapshot` composed with `RecorderPromise`, of which
   both assume parts.
2. `HpmControl`'s one-step write of the flash refined by `BootRom`, so that
   the monitor's resets meet the real protocol.
