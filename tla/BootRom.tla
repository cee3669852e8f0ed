------------------------------- MODULE BootRom -------------------------------
(***************************************************************************)
(* One run of hpmtool.py with write_flash or read_flash, over USB HID or a *)
(* serial port, against the boot ROM of the chip.  Each command is a       *)
(* request in chunks, each acknowledged, an acknowledgement with an        *)
(* answer, and for a read the data in packets.  Frames carry the number of *)
(* the request they belong to, which neither side can see; a command's     *)
(* bytes are its chunks.  The chip is external: what the tool expects of   *)
(* it, and the ways it may fail, taken from Faults.                        *)
(***************************************************************************)
EXTENDS FlashOptions

CONSTANTS UART_DATA_MAX, \* data bytes in a chunk, the same over USB
          Files,         \* lists of files write_flash may be given
          Images,        \* headers their first image may have
          Packets,       \* packets of the read
          Attempts,      \* connection attempts over a serial port; bound on endless ones
          Faults         \* subset of {"nak", "status", "reset", "lost", "late"}

ASSUME BootRomAssumption ==
  /\ UART_DATA_MAX \in Nat \ {0} /\ Packets \in Nat \ {0} /\ Attempts \in Nat \ {0}
  /\ Files \subseteq Seq([addr : Nat, size : Nat]) /\ Images \subseteq Headers
  /\ Faults \subseteq {"nak", "status", "reset", "lost", "late"}

VARIABLES hid, op, files, image, endless, \* the command line; --connect-attempts <= 0
          pc, k, sent, attempts,          \* where the tool is: command k, chunks sent
          results, buffer, saved,         \* what commands returned, data read, data saved
          outcome,                        \* how the run ended
          toChip, toHost,                 \* frames on their way
          executed, reading, gone,        \* the chip: commands carried out, packets to come
          conf, config, flash,            \* ... its SRAM, flash configuration and flash
          trusted, lost                   \* history: no late answers; a frame was lost

line == <<hid, op, files, image, endless>>
host == <<pc, k, sent, attempts, results, buffer, saved, outcome>>
chip == <<executed, reading, gone, conf, config, flash>>
vars == <<line, host, toChip, toHost, chip, trusted, lost>>

-----------------------------------------------------------------------------
(* The commands of the run.  Command 0 is the sync of a serial connect.    *)
Chunks(bytes) == (bytes + UART_DATA_MAX - 1) \div UART_DATA_MAX

WriteFile(j) == [cmd |-> "write", what |-> j, parts |-> Chunks(1 + files[j].size)]
Query     == [cmd |-> "query", what |-> 0, parts |-> 1]
WriteConf == [cmd |-> "write", what |-> 0, parts |-> 1]
Configure == [cmd |-> "configure", what |-> 0, parts |-> 1]
Read      == [cmd |-> "read", what |-> 0, parts |-> 1]

Script == <<Query, WriteConf, Configure>>
          \o (IF op = "write" THEN [j \in DOMAIN files |-> WriteFile(j)] ELSE <<Read>>)
Request(j) == IF j = 0 THEN Query ELSE Script[j]
Current == Request(k)

Options == IF op = "write" THEN DetectedOptions(Header(image).options) ELSE DefaultOptions

Init ==
  /\ hid \in BOOLEAN /\ op \in {"write", "read"} /\ files \in Files /\ image \in Images
  /\ endless \in BOOLEAN /\ (hid => ~endless)
  /\ pc = "send" /\ k = (IF hid THEN 1 ELSE 0) /\ sent = 0 /\ attempts = 0
  /\ results = <<>> /\ buffer = <<>> /\ saved = <<>>
  /\ outcome = IF op = "write" /\ DetectedOverlap(files) THEN "usage"
               ELSE IF op = "write" /\ ~Configurable(image) THEN "crashed" ELSE "running"
  /\ toChip = <<>> /\ toHost = <<>>
  /\ executed = {} /\ reading = 0 /\ gone = FALSE
  /\ conf = NoHeader /\ config = NoHeader /\ flash = [a \in {} |-> 0]
  /\ trusted = TRUE /\ lost = FALSE

-----------------------------------------------------------------------------
(* The tool.  A frame written to a chip that is gone arrives nowhere.      *)
Write(f) == toChip' = IF gone THEN toChip ELSE Append(toChip, f)

Chunk(n) == [kind |-> "data", req |-> k, part |-> n]
Ack      == [kind |-> "ack", req |-> k, part |-> 0]

(* A command begins: its first chunk.                                      *)
SendFirst ==
  /\ outcome = "running" /\ pc = "send"
  /\ Write(Chunk(1)) /\ sent' = 1
  /\ pc' = IF Current.parts = 1 THEN "answer" ELSE "ack"
  /\ UNCHANGED <<line, k, attempts, results, buffer, saved, outcome, toHost, chip, trusted, lost>>

(* A chunk is acknowledged: the next one.                                  *)
SendNext ==
  /\ outcome = "running" /\ pc = "ack"
  /\ toHost # <<>> /\ Head(toHost).kind = "ack" /\ toHost' = Tail(toHost)
  /\ Write(Chunk(sent + 1)) /\ sent' = sent + 1
  /\ pc' = IF sent + 1 = Current.parts THEN "answer" ELSE "ack"
  /\ UNCHANGED <<line, k, attempts, results, buffer, saved, outcome, chip, trusted, lost>>

(* A command returns.  The result of the sync only tells the stub from the *)
(* ROM; that of the query must be a pair; that of a read decides whether   *)
(* its data are saved; the others are ignored.                             *)
Returns(r) ==
  /\ k' = k + 1 /\ pc' = "send" /\ sent' = 0
  /\ results' = IF k = 0 THEN results ELSE Append(results, r)
  /\ outcome' = IF k = 1 /\ r = "error" THEN "crashed"
                ELSE IF k = Len(Script) THEN "done" ELSE "running"
  /\ UNCHANGED <<line, attempts, executed, gone, conf, config, flash, trusted, lost>>

Fails == /\ Returns("error")
         /\ reading' = 0
         /\ UNCHANGED <<buffer, saved>>

(* A chunk or a command is refused.                                        *)
Refused ==
  /\ outcome = "running"
  /\ pc = "ack" \/ (hid /\ pc = "answer")
  /\ toHost # <<>> /\ Head(toHost).kind # "ack"
  /\ toHost' = Tail(toHost)
  /\ Fails
  /\ UNCHANGED toChip

(* Over USB the acknowledgement and the answer are two reports.            *)
TakeAck ==
  /\ outcome = "running" /\ hid /\ pc = "answer"
  /\ toHost # <<>> /\ Head(toHost).kind = "ack" /\ toHost' = Tail(toHost)
  /\ pc' = "response"
  /\ UNCHANGED <<line, k, sent, attempts, results, buffer, saved, outcome, toChip, chip, trusted, lost>>

(* Mutant: the caller does not look at the status in the answer.           *)
VerdictOfCommand(f) ==
  IF f.kind = "answer" /\ Request(f.req).cmd = Current.cmd THEN "ok" ELSE "error"

(* What the command and its caller make of the answer: it must be to the   *)
(* same command, and its status 0.                                         *)
Verdict(f) ==
  IF f.kind = "answer" /\ Request(f.req).cmd = Current.cmd /\ f.part = 0 THEN "ok" ELSE "error"

(* The answer is taken.  The data of a read are still to come; otherwise   *)
(* the chip waits for no acknowledgement, and that and the abort are left  *)
(* out.                                                                    *)
Takes(f) ==
  \/ /\ Verdict(f) = "ok" /\ Current.cmd = "read"
     /\ pc' = "packets" /\ buffer' = <<>>
     /\ Write(Ack)
     /\ UNCHANGED <<line, k, sent, attempts, results, saved, outcome, chip, trusted, lost>>
  \/ /\ Verdict(f) = "ok" /\ Current.cmd # "read"
     /\ Returns("ok")
     /\ UNCHANGED <<buffer, saved, toChip, reading>>
  \/ /\ Verdict(f) = "error"
     /\ Fails
     /\ UNCHANGED toChip

UsbAnswer ==
  /\ outcome = "running" /\ hid /\ pc = "response"
  /\ toHost # <<>> /\ toHost' = Tail(toHost)
  /\ Takes(Head(toHost))

(* Over a serial line a packet is all that comes until the line is quiet.  *)
(* Without a data frame it is too short, and the tool reads on.            *)
Bursts == {n \in 1..Len(toHost) : n = Len(toHost) \/ "late" \in Faults}
Short(n) == \A j \in 1..n : toHost[j].kind \in {"ack", "nak"}
Leave(n) == toHost' = SubSeq(toHost, n + 1, Len(toHost))

SerialShort ==
  /\ outcome = "running" /\ ~hid /\ pc = "answer"
  /\ \E n \in Bursts : Short(n) /\ Leave(n)
  /\ UNCHANGED <<line, host, toChip, chip, trusted, lost>>

SerialAnswer ==
  /\ outcome = "running" /\ ~hid /\ pc = "answer"
  /\ \E n \in Bursts :
       /\ ~Short(n) /\ Leave(n)
       /\ \/ toHost[1].kind # "ack" /\ Fails /\ UNCHANGED toChip
          \/ toHost[1].kind = "ack" /\ n = 2 /\ Takes(toHost[2])
          \/ /\ toHost[1].kind = "ack" /\ n > 2 \* more than one answer: no check, no unpack
             /\ IF k = 0 THEN /\ Returns("ok") /\ UNCHANGED <<buffer, saved, toChip, reading>>
                ELSE /\ outcome' = "crashed"
                     /\ UNCHANGED <<line, pc, k, sent, attempts, results, buffer, saved,
                                    toChip, chip, trusted, lost>>

(* The line stays quiet for the time of a read.  While connecting the      *)
(* input is flushed and the sync sent again, Attempts times or endlessly;  *)
(* after that it is the end of the run.  Nothing more comes in time if the *)
(* chip has nothing to say, or answers late or never.                      *)
Silent == toHost = <<>> /\ \A j \in DOMAIN toChip : toChip[j].kind # "data"

SerialTimeout ==
  /\ outcome = "running" /\ ~hid /\ pc = "answer"
  /\ Silent \/ "late" \in Faults
  /\ IF k = 0 /\ (endless \/ attempts + 1 < Attempts)
     THEN /\ attempts < Attempts \* bound
          /\ attempts' = attempts + 1 /\ pc' = "send"
          /\ \E n \in 0..Len(toHost) : Leave(n)
          /\ trusted' = (trusted /\ Silent)
          /\ UNCHANGED outcome
     ELSE /\ outcome' = "fatal"
          /\ UNCHANGED <<pc, attempts, toHost, trusted>>
  /\ UNCHANGED <<line, k, sent, results, buffer, saved, toChip, chip, lost>>

(* Mutant: only the wait for an answer notices that the device is gone.    *)
WaitingForAnswer == pc \in {"answer", "response"}

(* A read from a USB device that is gone raises OSError, which a command   *)
(* turns into an error and read_memory does not.                           *)
Waiting == pc # "send"

Disconnected ==
  /\ outcome = "running" /\ hid /\ gone /\ toHost = <<>>
  /\ Waiting
  /\ IF pc = "packets"
     THEN /\ outcome' = "crashed"
          /\ UNCHANGED <<line, pc, k, sent, attempts, results, buffer, saved, chip, trusted, lost>>
     ELSE Fails
  /\ UNCHANGED <<toChip, toHost>>

(* Mutant: the read ends a packet early.                                   *)
LastPacketEarly(n) == n + 1 >= Packets

(* The read is over when all its bytes have come.                          *)
LastPacket(n) == n >= Packets

(* The next packet of a read.  Anything else ends it in an error over USB; *)
(* over a serial line it is too short to be a packet and the tool reads    *)
(* on.  Every packet is acknowledged; after the last the chip expects      *)
(* nothing.                                                                *)
TakePacket ==
  /\ outcome = "running" /\ pc = "packets"
  /\ toHost # <<>> /\ toHost' = Tail(toHost)
  /\ \/ /\ Head(toHost).kind = "packet"
        /\ LET data == Append(buffer, Head(toHost).part)
           IN  \/ /\ LastPacket(Len(data))
                  /\ buffer' = data /\ saved' = data
                  /\ Returns("ok")
                  /\ UNCHANGED <<toChip, reading>>
               \/ /\ ~LastPacket(Len(data))
                  /\ buffer' = data /\ Write(Ack)
                  /\ UNCHANGED <<line, pc, k, sent, attempts, results, saved, outcome,
                                 chip, trusted, lost>>
     \/ /\ Head(toHost).kind # "packet"
        /\ IF hid THEN Fails ELSE UNCHANGED <<line, host, chip, trusted, lost>>
        /\ UNCHANGED toChip

Host == \/ SendFirst \/ SendNext \/ Refused \/ TakeAck \/ UsbAnswer \/ SerialShort
        \/ SerialAnswer \/ SerialTimeout \/ Disconnected \/ TakePacket

-----------------------------------------------------------------------------
(* The chip (external).  It acknowledges each chunk, carries a complete    *)
(* request out and answers it, and sends the next packet of a read for     *)
(* each acknowledgement, or gives the read up.                             *)
Reply(kind, f, n) == [kind |-> kind, req |-> f.req, part |-> n]

CarryOut(f) ==
  LET r == Request(f.req)
  IN  /\ executed' = IF f.req = 0 THEN executed ELSE executed \cup {f.req}
      /\ conf' = IF r.cmd = "write" /\ r.what = 0 THEN BuiltConfig(Options) ELSE conf
      /\ config' = IF r.cmd = "configure" THEN conf ELSE config
      /\ flash' = IF r.cmd = "write" /\ r.what > 0
                  THEN [a \in DOMAIN flash \cup Place(files[r.what]) |->
                          IF a \in Place(files[r.what]) THEN r.what ELSE flash[a]]
                  ELSE flash
      /\ reading' = IF r.cmd = "read" THEN Packets ELSE 0

ChipTakesChunk ==
  /\ toChip # <<>> /\ Head(toChip).kind = "data" /\ toChip' = Tail(toChip)
  /\ LET f == Head(toChip)
         last == f.part = Request(f.req).parts
     IN  \/ /\ ~last
            /\ toHost' = Append(toHost, Reply("ack", f, 0))
            /\ reading' = 0 /\ UNCHANGED <<executed, conf, config, flash>>
         \/ /\ last /\ CarryOut(f)
            /\ toHost' = toHost \o <<Reply("ack", f, 0), Reply("answer", f, 0)>>
         \/ /\ last /\ "status" \in Faults
            /\ toHost' = toHost \o <<Reply("ack", f, 0), Reply("answer", f, 1)>>
            /\ reading' = 0 /\ UNCHANGED <<executed, conf, config, flash>>
         \/ /\ "nak" \in Faults
            /\ toHost' = Append(toHost, Reply("nak", f, 0))
            /\ reading' = 0 /\ UNCHANGED <<executed, conf, config, flash>>
  /\ UNCHANGED <<line, host, gone, trusted, lost>>

ChipTakesAck ==
  /\ toChip # <<>> /\ Head(toChip).kind = "ack" /\ toChip' = Tail(toChip)
  /\ IF reading > 0
     THEN \/ /\ toHost' = Append(toHost, Reply("packet", Head(toChip), Packets + 1 - reading))
             /\ reading' = reading - 1
          \/ /\ "nak" \in Faults
             /\ toHost' = Append(toHost, Reply("nak", Head(toChip), 0))
             /\ reading' = 0
     ELSE UNCHANGED <<toHost, reading>>
  /\ UNCHANGED <<line, host, executed, gone, conf, config, flash, trusted, lost>>

Chip == ChipTakesChunk \/ ChipTakesAck

(* Somebody resets the chip (hpm-sreset.service does): it leaves the boot  *)
(* ROM, and what was sent to it is gone.                                   *)
Reset ==
  /\ "reset" \in Faults /\ ~gone /\ outcome = "running"
  /\ gone' = TRUE /\ toChip' = <<>> /\ reading' = 0
  /\ UNCHANGED <<line, host, toHost, executed, conf, config, flash, trusted, lost>>

(* Noise on the serial line eats a frame; a read cut short by its timeout  *)
(* drops one as well.  Once in a run.                                      *)
Lose ==
  /\ "lost" \in Faults /\ ~hid /\ ~lost /\ outcome = "running" /\ toHost # <<>>
  /\ toHost' = Tail(toHost) /\ lost' = TRUE
  /\ UNCHANGED <<line, host, toChip, chip, trusted>>

Next == Host \/ Chip \/ Reset \/ Lose

Spec == Init /\ [][Next]_vars

(* The tool runs on when it can.  Nothing is assumed of the chip, which    *)
(* may fall silent at any time; that no time-out of the serial port is     *)
(* waited for in vain takes the fault "late".                              *)
FairSpec == Spec /\ WF_vars(Host)
-----------------------------------------------------------------------------
(* Type invariant.                                                         *)
Frames == [kind : {"data", "ack", "nak", "answer", "packet"}, req : Nat, part : Nat]
TypeOK ==
  /\ hid \in BOOLEAN /\ op \in {"write", "read"} /\ files \in Files /\ image \in Images
  /\ endless \in BOOLEAN
  /\ pc \in {"send", "ack", "answer", "response", "packets"}
  /\ k \in Nat /\ sent \in Nat /\ attempts \in Nat
  /\ results \in Seq({"ok", "error"}) /\ buffer \in Seq(Nat) /\ saved \in Seq(Nat)
  /\ outcome \in {"running", "done", "usage", "crashed", "fatal"}
  /\ toChip \in Seq(Frames) /\ toHost \in Seq(Frames)
  /\ executed \subseteq Nat /\ reading \in Nat /\ gone \in BOOLEAN
  /\ trusted \in BOOLEAN /\ lost \in BOOLEAN

(* A command that returned HPM_OK was carried out by the chip, in its turn *)
(* and once, whatever is refused, reset or lost, unless a late answer to   *)
(* the sync of a serial connection is still about: the two transports keep *)
(* the promise of ReliableRequest (hpmtool.py:486-603, 632-646).           *)
Requests == INSTANCE ReliableRequest WITH turn <- k
Reliable == Requests!Spec

(* read_flash saves a file only when it holds every packet of the read in  *)
(* their order (hpmtool.py:795-820, 951-958).                              *)
FileIsWhole ==
  (saved # <<>> /\ trusted) => /\ saved = [j \in 1..Packets |-> j]
                              /\ outcome = "done"

(* When every write returned HPM_OK each file stands where it was to go:   *)
(* no later write has touched a byte of it (hpmtool.py:941-949, 2698-2707).*)
(* Addresses of the two ways to write them, as an offset and mapped, are   *)
(* not compared by the tool and must not be mixed.                         *)
AllOk == outcome = "done" /\ trusted /\ \A j \in DOMAIN results : results[j] = "ok"
OneWay == \A i, j \in DOMAIN files : (files[i].addr >= XPI0_START) <=> (files[j].addr >= XPI0_START)
FlashHoldsFiles ==
  (AllOk /\ op = "write" /\ OneWay) =>
    \A j \in DOMAIN files : \A a \in Place(files[j]) : a \in DOMAIN flash /\ flash[a] = j

(* ... and the chip works with the configuration of the image: what was    *)
(* read from its header, named, looked up and packed again is the same     *)
(* (hpmtool.py:864-894, 2366-2402).  Three kinds of header are not kept: a *)
(* drive strength of more than four bits, a value in a word that is not    *)
(* announced, and a flash size after a second word of zero.                *)
Kept(h) == /\ h.options.strength < 16
           /\ h.options = Effective(h)
           /\ h.options.size # 0 =>
                \E x \in {"voltage", "group", "selection", "strength"} : h.options[x] # 0
ConfigIsImages ==
  (AllOk /\ op = "write" /\ Kept(Header(image))) =>
    Effective(config) = Effective(Header(image))

(* The run ends, whatever the chip does or no longer does, unless it stays *)
(* for ever in one of the waits that have no timeout: any read from a USB  *)
(* device that is there but says nothing, the two loops over a serial line *)
(* for the acknowledgement of a chunk and for a packet, and connecting     *)
(* with --connect-attempts 0 (hpmtool.py:453, 507-511, 668, 790-800).      *)
Unanswered ==
  \/ hid /\ ~gone /\ pc # "send" /\ toHost = <<>>
  \/ ~hid /\ pc \in {"ack", "packets"} /\ toHost = <<>>
  \/ ~hid /\ endless /\ k = 0
RunEnds == <>(outcome # "running") \/ <>[]Unanswered
=============================================================================
