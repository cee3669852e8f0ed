---------------------------- MODULE SessionCleanup ----------------------------
(***************************************************************************)
(* bin/cleanup_sessions.sh on one session root, and the recorder that runs *)
(* it before each session and writes the newest one.  The command is also  *)
(* installed for the operator, so passes may overlap each other and a      *)
(* running session.                                                        *)
(*                                                                         *)
(* Sessions are numbered in the order they start.                          *)
(***************************************************************************)
EXTENDS Integers, FiniteSets, FiniteSetsExt

CONSTANTS
  Passes,         \* processes that run the cleanup; Service is the recorder's
  Service,
  Retention,      \* SESSION_RETENTION_DAYS
  MaxTotal,       \* SESSION_MAX_TOTAL_MB
  MaxSession,     \* bound: sessions started
  MaxSize,        \* bound: what one session grows to
  MaxClock,       \* bound: units of time
  Faults

FaultKinds == {"interrupt", "disk_full"}

ASSUME CleanupAssumption ==
  /\ Service \in Passes
  /\ Retention \in Nat /\ MaxTotal \in Nat
  /\ MaxSession \in Nat /\ MaxSize \in Nat /\ MaxClock \in Nat \ {0}
  /\ Faults \subseteq FaultKinds

Ids == 1..MaxSession

VARIABLES
  sessions,   \* the directories seven-* on disk
  stamp,      \* started_at_unix, or the mtime where the manifest has none
  size,       \* du -sk
  half,       \* directories an rm -rf has begun to take apart
  started,    \* sessions started so far; the last one may be live
  rec,        \* what the recorder is doing
  clock,
  pc,         \* per pass:
  rows,       \*   the rows of $list.sorted still to be read
  head,       \*   row 1, which is protected
  cutoff, cumulative_kb, over_budget,
  victim      \*   the directory being removed

disk == <<sessions, stamp, size, half>>
pass == <<pc, rows, head, cutoff, cumulative_kb, over_budget, victim>>
vars == <<disk, started, rec, clock, pass>>

Row(s) == [id |-> s, stamp |-> stamp[s], size |-> size[s],
           half |-> IF s \in half THEN "yes" ELSE "no"]

RowType == [id : Ids, stamp : 0..MaxClock, size : 0..MaxSize, half : {"yes", "no"}]
NoRow == [id |-> 0, stamp |-> 0, size |-> 0, half |-> "no"]

Live == IF rec = "recording" THEN started ELSE 0

TypeOK ==
  /\ sessions \subseteq Ids /\ half \subseteq sessions
  /\ stamp \in [Ids -> 0..MaxClock] /\ size \in [Ids -> 0..MaxSize]
  /\ started \in 0..MaxSession /\ clock \in 1..MaxClock
  /\ rec \in {"off", "cleaning", "swept", "unswept", "recording"}
  /\ pc \in [Passes -> {"idle", "listing", "reading", "removing"}]
  /\ rows \in [Passes -> SUBSET RowType]
  /\ head \in [Passes -> RowType \union {NoRow}]
  /\ cutoff \in [Passes -> Int] /\ cumulative_kb \in [Passes -> Nat]
  /\ over_budget \in [Passes -> {"yes", "no"}]
  /\ victim \in [Passes -> Ids \union {0}]

Init ==
  /\ sessions = {} /\ half = {}
  /\ stamp = [s \in Ids |-> 0] /\ size = [s \in Ids |-> 0]
  /\ started = 0 /\ rec = "off" /\ clock = 1
  /\ pc = [p \in Passes |-> "idle"] /\ rows = [p \in Passes |-> {}]
  /\ head = [p \in Passes |-> NoRow]
  /\ cutoff = [p \in Passes |-> 0] /\ cumulative_kb = [p \in Passes |-> 0]
  /\ over_budget = [p \in Passes |-> "no"] /\ victim = [p \in Passes |-> 0]

-----------------------------------------------------------------------------
(* The recorder: run_session's cleanup, then its directory and manifest.   *)

RecorderCleans ==
  /\ rec = "off" /\ rec' = "cleaning" /\ pc[Service] = "idle"
  /\ pc' = [pc EXCEPT ![Service] = "listing"]
  /\ UNCHANGED <<disk, started, clock, rows, head, cutoff, cumulative_kb,
                 over_budget, victim>>

(* No two sessions start in one second.  On a full disk the manifest stays *)
(* empty, the recorder exits and the directory is left.                    *)
OpenSession ==
  /\ rec \in {"swept", "unswept"} /\ started < MaxSession
  /\ \A s \in sessions \ half : stamp[s] < clock
  /\ started' = started + 1
  /\ sessions' = sessions \union {started'}
  /\ stamp' = [stamp EXCEPT ![started'] = clock]
  /\ rec' \in {"recording"} \union (IF "disk_full" \in Faults THEN {"off"} ELSE {})
  /\ UNCHANGED <<size, half, clock, pass>>

SessionGrows ==
  /\ rec = "recording" /\ size[started] < MaxSize
  /\ size' = [size EXCEPT ![started] = @ + 1]
  /\ UNCHANGED <<sessions, stamp, half, started, rec, clock, pass>>

(* A stop or a rotation. *)
SessionEnds ==
  /\ rec = "recording" /\ rec' = "off"
  /\ UNCHANGED <<disk, started, clock, pass>>

TimePasses ==
  /\ clock < MaxClock /\ clock' = clock + 1
  /\ UNCHANGED <<disk, started, rec, pass>>

-----------------------------------------------------------------------------
(* cleanup_sessions.sh.                                                    *)

OperatorCleans(p) ==
  /\ p # Service /\ pc[p] = "idle"
  /\ pc' = [pc EXCEPT ![p] = "listing"]
  /\ UNCHANGED <<disk, started, rec, clock, rows, head, cutoff, cumulative_kb,
                 over_budget, victim>>

(* The process and its variables are gone.                                 *)
Ends(p, outcome) ==
  /\ pc' = [pc EXCEPT ![p] = "idle"]
  /\ rows' = [rows EXCEPT ![p] = {}] /\ head' = [head EXCEPT ![p] = NoRow]
  /\ cumulative_kb' = [cumulative_kb EXCEPT ![p] = 0]
  /\ over_budget' = [over_budget EXCEPT ![p] = "no"]
  /\ victim' = [victim EXCEPT ![p] = 0]
  /\ rec' = IF p = Service THEN outcome ELSE rec

(* Mutant: sort without -r.                                                *)
Oldest(rs) == {r \in rs : \A q \in rs : q.stamp >= r.stamp}

Newest(rs) == {r \in rs : \A q \in rs : q.stamp <= r.stamp}

(* Mutant: row 1 is kept, but not counted.                                 *)
ProtectUncounted(p) ==
  LET listed == {Row(s) : s \in sessions}
  IN /\ pc[p] = "listing" /\ listed # {}
     /\ \E r \in Newest(listed) :
          /\ head' = [head EXCEPT ![p] = r]
          /\ rows' = [rows EXCEPT ![p] = listed \ {r}]
     /\ cumulative_kb' = [cumulative_kb EXCEPT ![p] = 0]
     /\ over_budget' = [over_budget EXCEPT ![p] = "no"]
     /\ cutoff' = [cutoff EXCEPT ![p] = clock - Retention]
     /\ pc' = [pc EXCEPT ![p] = "reading"]
     /\ UNCHANGED <<disk, started, rec, clock, victim>>

(* Every directory's stamp and size are listed and sorted; row 1 is kept   *)
(* and counted.                                                            *)
ListAndProtect(p) ==
  LET listed == {Row(s) : s \in sessions}
  IN /\ pc[p] = "listing"
     /\ IF listed = {}
          THEN Ends(p, "swept") /\ UNCHANGED cutoff
          ELSE \E r \in Newest(listed) :
                 /\ head' = [head EXCEPT ![p] = r]
                 /\ rows' = [rows EXCEPT ![p] = listed \ {r}]
                 /\ cumulative_kb' = [cumulative_kb EXCEPT ![p] = r.size]
                 /\ over_budget' = [over_budget EXCEPT ![p] =
                                      IF r.size <= MaxTotal THEN "no" ELSE "yes"]
                 /\ cutoff' = [cutoff EXCEPT ![p] = clock - Retention]
                 /\ pc' = [pc EXCEPT ![p] = "reading"]
                 /\ UNCHANGED <<rec, victim>>
     /\ UNCHANGED <<disk, started, clock>>

(* rm -rf begins on a directory that is still there: it gets a new mtime,  *)
(* which is its stamp as soon as the manifest is among the files gone.     *)
Remove(p, s) ==
  /\ victim' = [victim EXCEPT ![p] = s]
  /\ pc' = [pc EXCEPT ![p] = "removing"]
  /\ IF s \in sessions
       THEN half' = half \union {s} /\ stamp' \in {stamp, [stamp EXCEPT ![s] = clock]}
       ELSE UNCHANGED <<half, stamp>>

ReadRow(p) ==
  /\ pc[p] = "reading"
  /\ \E r \in Newest(rows[p]) :
       LET spent == cumulative_kb[p] + r.size
           settled == r.stamp < cutoff[p] \/ over_budget[p] = "yes"
       IN /\ rows' = [rows EXCEPT ![p] = @ \ {r}]
          /\ cumulative_kb' = [cumulative_kb EXCEPT ![p] = IF settled THEN @ ELSE spent]
          /\ over_budget' = [over_budget EXCEPT ![p] =
                               IF ~settled /\ spent > MaxTotal THEN "yes" ELSE @]
          /\ IF settled \/ spent > MaxTotal
               THEN Remove(p, r.id)
               ELSE UNCHANGED <<half, stamp, victim, pc>>
  /\ UNCHANGED <<sessions, size, started, rec, clock, head, cutoff>>

RemoveEnds(p) ==
  /\ pc[p] = "removing"
  /\ sessions' = sessions \ {victim[p]} /\ half' = half \ {victim[p]}
  /\ pc' = [pc EXCEPT ![p] = "reading"]
  /\ UNCHANGED <<stamp, size, started, rec, clock, rows, head, cutoff, cumulative_kb,
                 over_budget, victim>>

PassEnds(p) ==
  /\ pc[p] = "reading" /\ rows[p] = {}
  /\ Ends(p, "swept")
  /\ UNCHANGED <<disk, started, clock, cutoff>>

(* A signal or a failing rm ends the pass; the recorder goes on without it. *)
Interrupted(p) ==
  /\ "interrupt" \in Faults
  /\ pc[p] # "idle"
  /\ Ends(p, "unswept")
  /\ UNCHANGED <<disk, started, clock, cutoff>>

-----------------------------------------------------------------------------
Recorder == RecorderCleans \/ OpenSession \/ SessionGrows \/ SessionEnds

Cleanup(p) == OperatorCleans(p) \/ ListAndProtect(p) \/ ReadRow(p) \/ RemoveEnds(p)
              \/ PassEnds(p) \/ Interrupted(p)

Next == Recorder \/ TimePasses \/ \E p \in Passes : Cleanup(p)

Spec == Init /\ [][Next]_vars

-----------------------------------------------------------------------------
OnDisk == MapThenSumSet(LAMBDA s : size[s], sessions)

(* Rule 2: when the recorder opens a session after a whole pass, the disk  *)
(* holds one older session or no more than the budget - whatever another   *)
(* pass was doing meanwhile.                                               *)
BudgetAfterSweep ==
  rec = "swept" => Cardinality(sessions) <= 1 \/ OnDisk <= MaxTotal

(* Rule 1, with rule 3: an expired session survives a whole pass only when *)
(* it is the only one left.                                                *)
FreshAfterSweep ==
  rec = "swept" =>
    Cardinality(sessions) <= 1 \/ \A s \in sessions : stamp[s] >= cutoff[Service]

(* Rule 3 at work: no pass, of the recorder or an operator, sets about the *)
(* session being written or the newest one - unless row 1 was the leftover *)
(* of a removal.                                                           *)
BeginsToRemove(p) == pc[p] = "reading" /\ pc'[p] = "removing"
LiveNeverRemoved ==
  [][\A p \in Passes :
       BeginsToRemove(p) => \/ victim'[p] < head[p].id /\ victim'[p] # Live
                            \/ head[p].half = "yes"]_vars

(* "The newest session per root is never removed": a session goes only     *)
(* while a later one stays.                                                *)
NewestNeverRemoved ==
  [][\A s \in sessions \ sessions' : \E t \in sessions' : t > s]_vars
=============================================================================
