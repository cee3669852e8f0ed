--------------------------- MODULE RecorderPromise ---------------------------
(***************************************************************************)
(* What everything that handles session directories relies on: the         *)
(* recorder opens them in turn, each only when it has no child, no timer   *)
(* and no request to rotate left of the one before, and works on the last  *)
(* one only.  In that one the ring is copied once, then the manifest is    *)
(* closed, once; but the conversion may come late.  A closed directory may *)
(* be in any state: the recorder may have died at any time.                *)
(*                                                                         *)
(* What it cannot promise: a command that outlives the shell which started *)
(* it may still write can.asc and the copy of the ring, of a closed        *)
(* directory too, until it ends.                                           *)
(***************************************************************************)
EXTENDS Naturals

CONSTANT MaxSession \* bound: directories opened in a behaviour

VARIABLES opened,   \* directories opened so far
          live,     \* the one the recorder still works on; 0: none
          late,     \* those for which commands run that it no longer knows of
          rotation, \* somebody has asked for the next one
          manifest, asc, pcap  \* per directory: how far its files are

promiseVars == <<opened, live, late, rotation, manifest, asc, pcap>>

Init == /\ opened = 0 /\ live = 0 /\ late = {} /\ rotation = "no"
        /\ manifest = [s \in 1..MaxSession |-> "absent"]
        /\ asc = [s \in 1..MaxSession |-> "incremental"]
        /\ pcap = [s \in 1..MaxSession |-> "none"]

Open == /\ live = 0 /\ rotation = "no" /\ opened < MaxSession
        /\ opened' = opened + 1 /\ live' = opened'
        /\ manifest[opened'] = "absent"
        /\ manifest' = [manifest EXCEPT ![opened'] = "open"]
        /\ UNCHANGED <<late, rotation, asc, pcap>>

Ask == /\ live # 0 /\ rotation' = "yes"
       /\ UNCHANGED <<opened, live, late, manifest, asc, pcap>>
Forget == /\ rotation' = "no"
          /\ UNCHANGED <<opened, live, late, manifest, asc, pcap>>

Copy == /\ live # 0 /\ manifest[live] = "open" /\ pcap[live] = "none"
        /\ \E c \in {"partial", "early", "copied"} : pcap' = [pcap EXCEPT ![live] = c]
        /\ UNCHANGED <<opened, live, late, rotation, manifest, asc>>

Trim == /\ live # 0 /\ manifest[live] = "open" /\ pcap[live] # "none"
        /\ manifest' = [manifest EXCEPT ![live] = "trimmed"]
        /\ UNCHANGED <<opened, live, late, rotation, asc, pcap>>

Stamp == /\ live # 0 /\ manifest[live] \in {"open", "trimmed"} /\ pcap[live] # "none"
         /\ \E m \in {"final", "garbled"} :
              /\ m = "final" => manifest[live] = "trimmed"
              /\ manifest' = [manifest EXCEPT ![live] = m]
         /\ UNCHANGED <<opened, live, late, rotation, asc, pcap>>

(* The conversion ends, perhaps as the last process of the session.        *)
Convert == /\ live # 0 /\ live' \in {live, 0}
           /\ \E a \in {"converted", "mixed"} : asc' = [asc EXCEPT ![live] = a]
           /\ UNCHANGED <<opened, late, rotation, manifest, pcap>>

Close == /\ live # 0 /\ live' = 0 /\ rotation' \in {rotation, "no"}
         /\ late' \subseteq late
         /\ UNCHANGED <<opened, manifest, asc, pcap>>

(* Commands of the live session are left to themselves.                    *)
Leave == /\ live # 0 /\ late' = late \union {live}
         /\ UNCHANGED <<opened, live, rotation, manifest, asc, pcap>>

(* A command left to itself ends: it has written one of two files, or none. *)
Straggle(s) ==
  /\ s \in late /\ late' \in {late, late \ {s}}
  /\ \/ asc' = [asc EXCEPT ![s] = "mixed"] /\ UNCHANGED pcap
     \/ pcap[s] # "none" /\ pcap' = [pcap EXCEPT ![s] = "mixed"] /\ UNCHANGED asc
     \/ UNCHANGED <<asc, pcap>>
  /\ UNCHANGED <<opened, live, rotation, manifest>>

(* All of them are killed with the recorder.                               *)
Clear == /\ late' = {}
         /\ UNCHANGED <<opened, live, rotation, manifest, asc, pcap>>

Next == Open \/ Ask \/ Forget \/ Copy \/ Trim \/ Stamp \/ Convert \/ Close
        \/ Leave \/ (\E s \in 1..MaxSession : Straggle(s)) \/ Clear

Spec == Init /\ [][Next]_promiseVars
-----------------------------------------------------------------------------
(* What a user of the directories may conclude.  A directory that is not   *)
(* live is never touched again, but to be opened once in its turn, and but *)
(* for can.asc and the ring's copy while a command of it still runs ...    *)
ClosedStands ==
  [][\A s \in 1..MaxSession :
       s # live => /\ s \notin late => UNCHANGED <<asc[s], pcap[s]>>
                   /\ \/ UNCHANGED manifest[s]
                      \/ s = opened + 1 /\ s = live' /\ UNCHANGED <<asc[s], pcap[s]>>]_promiseVars

(* ... and an end time stays, with the copy that it stands for, once no    *)
(* command of the session runs.                                            *)
StampStands ==
  [][\A s \in 1..MaxSession :
       manifest[s] \in {"final", "garbled"} =>
         UNCHANGED manifest[s] /\ (s \notin late => UNCHANGED pcap[s])]_promiseVars
=============================================================================
