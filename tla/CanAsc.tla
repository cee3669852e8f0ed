------------------------------- MODULE CanAsc -------------------------------
(***************************************************************************)
(* analyze_can_asc.py on a session's can.asc: which identifiers are        *)
(* periodic, when whole channels were silent, and which gaps of a single   *)
(* identifier are reported as lost frames.  The log is written first, by   *)
(* periodic transmitters of which a frame may be lost and a whole channel  *)
(* may halt; what was really lost is remembered beside it.  Times are      *)
(* numbers of the clock; a median is kept doubled, so that it is whole.    *)
(***************************************************************************)
EXTENDS Integers, Sequences, FiniteSets, FiniteSetsExt

CONSTANTS Ids,       \* the frames on the buses: [ch, id, period, phase]
          Horizon,   \* end of the recording
          MaxLost,   \* bound on lost frames
          MaxHalt,   \* bound on halted channel ticks
          MinFrames, \* --min-frames
          SlowPeriod,\* the inverse of --min-rate
          Stall,     \* --stall-secs
          Idle,      \* --idle-secs
          Presence   \* the least tolerance of the presence table, one second

ASSUME CanAscAssumption ==
  /\ Ids \subseteq [ch : Nat, id : Nat, period : Nat \ {0}, phase : Nat]
  /\ Horizon \in Nat /\ Stall \in Nat \ {0} /\ Idle \in Nat \ {0} /\ Stall <= Idle

VARIABLES clock, series, lost, halted, \* the recording
          chosen,          \* the channels looked at, once the program runs
          windows, events, \* silences still to be merged, and merged
          report

recording == <<clock, series, lost, halted>>
ascVars == <<recording, chosen, windows, events, report>>

Buses == {k.ch : k \in Ids}
Due(k, t) == t >= k.phase /\ (t - k.phase) % k.period = 0
NoReport == [kind |-> "none"]

AscInit == /\ clock = 0
           /\ series = [k \in Ids |-> <<>>]  \* in the order of the log
           /\ lost = {} /\ halted = {}
           /\ chosen = {} /\ windows = {} /\ events = <<>> /\ report = NoReport

(* A tick of the recording: the channels of H are halted, the frames of L  *)
(* lost, and every other frame that is due comes into the log (external).  *)
Tick(H, L) ==
  /\ report = NoReport /\ chosen = {} /\ clock <= Horizon
  /\ L \subseteq {k \in Ids : Due(k, clock) /\ k.ch \notin H}
  /\ Cardinality(lost) + Cardinality(L) <= MaxLost
  /\ Cardinality(halted) + Cardinality(H) <= MaxHalt
  /\ series' = [k \in Ids |-> IF Due(k, clock) /\ k.ch \notin H /\ k \notin L
                               THEN Append(series[k], clock) ELSE series[k]]
  /\ lost' = lost \cup {<<k, clock>> : k \in L}
  /\ halted' = halted \cup {<<c, clock>> : c \in H}
  /\ clock' = clock + 1
  /\ UNCHANGED <<chosen, windows, events, report>>

-----------------------------------------------------------------------------
(* timing_stats: nothing for a single frame or a median of zero.  The i-th *)
(* of the gaps in the order of their lengths:                              *)
Gaps(s) == [j \in 1..Len(s) - 1 |-> s[j + 1] - s[j]]
Nth(g, i) ==
  CHOOSE v \in {g[j] : j \in DOMAIN g} :
    Cardinality({j \in DOMAIN g : g[j] < v}) < i /\ i <= Cardinality({j \in DOMAIN g : g[j] <= v})
TwiceMedian(s) ==
  LET g == Gaps(s)
      n == Len(g)
  IN  IF n % 2 = 1 THEN 2 * Nth(g, (n + 1) \div 2) ELSE Nth(g, n \div 2) + Nth(g, n \div 2 + 1)
HasMedian(s) == Len(s) >= 2 /\ TwiceMedian(s) > 0
Outliers(s) == Cardinality({j \in 1..Len(s) - 1 : Gaps(s)[j] > TwiceMedian(s)})

(* collect: the identifiers seen on these channels, and the time from      *)
(* the first frame to the last.                                            *)
Seen(chs) == {k \in Ids : k.ch \in chs /\ series[k] # <<>>}
Times(k) == {series[k][j] : j \in DOMAIN series[k]}
Stamps(ks) == UNION {Times(k) : k \in ks}
First(chs) == Min(Stamps(Seen(chs)))
Duration(chs) == Max(Stamps(Seen(chs))) - First(chs)

(* The identifiers of the periodicity table; the others are sporadic.      *)
Periodic(chs) ==
  {k \in Seen(chs) : /\ HasMedian(series[k]) /\ Len(series[k]) >= MinFrames
                        /\ Len(series[k]) * SlowPeriod >= Duration(chs)}

-----------------------------------------------------------------------------
(* merged_channel_gaps: where all identifiers of a channel are silent.     *)
Silences(c, min) ==
  LET stamps == Stamps({k \in Ids : k.ch = c})
  IN  {w \in [from : stamps, to : stamps, chans : {{c}}] :
         /\ w.to - w.from >= min
         /\ \A t \in stamps : ~(w.from < t /\ t < w.to)}

(* channel_idle_events: the windows of all channels in order; one that     *)
(* begins before the last event has ended becomes part of it.              *)
Earlier(v, w) == v.from < w.from \/ (v.from = w.from /\ v.to < w.to)
LastOf(evs) == evs[Len(evs)]
Joins(evs, w) == evs # <<>> /\ w.from <= LastOf(evs).to

(* Mutant: the end of the event is that of the window added last.          *)
MergedToLast(evs, w) ==
  IF Joins(evs, w)
  THEN [evs EXCEPT ![Len(evs)] = [from |-> @.from, to |-> w.to, chans |-> @.chans \cup w.chans]]
  ELSE Append(evs, w)

Merged(evs, w) ==
  IF Joins(evs, w)
  THEN [evs EXCEPT ![Len(evs)] = [from |-> @.from, to |-> Max({@.to, w.to}),
                                  chans |-> @.chans \cup w.chans]]
  ELSE Append(evs, w)

(* mostly_inside: half of the span or more lies in one of the events.      *)
MostlyInside(evs, a, b) ==
  b > a /\ \E e \in evs :
             LET overlap == Min({b, e.to}) - Max({a, e.from})
             IN  overlap > 0 /\ 2 * overlap >= b - a

(* What a gap is put down to: one of more than one and a half times the    *)
(* period lies in a bus-idle window, in a halt of a channel, or is an      *)
(* anomaly.                                                                *)
Events == {events[i] : i \in DOMAIN events}
Oversized(k, j) == 4 * Gaps(series[k])[j] > 3 * TwiceMedian(series[k])

(* Mutant: a halt shorter than --idle-secs explains no gap.                *)
CauseIdleOnly(k, j) ==
  LET inside(evs) == MostlyInside(evs, series[k][j], series[k][j + 1])
  IN  IF ~Oversized(k, j) THEN "normal"
      ELSE IF inside({e \in Events : e.to - e.from >= Idle}) THEN "idle"
      ELSE "anomaly"

Cause(k, j) ==
  LET inside(evs) == MostlyInside(evs, series[k][j], series[k][j + 1])
  IN  IF ~Oversized(k, j) THEN "normal"
      ELSE IF inside({e \in Events : e.to - e.from >= Idle}) THEN "idle"
      ELSE IF inside(Events) THEN "stall" ELSE "anomaly"

(* Mutant: the frame that ends the gap is counted as lost.                 *)
MissedWithLast(k, j) == (2 * Gaps(series[k])[j]) \div TwiceMedian(series[k])

(* The frames missed in it: the gap in periods, rounded half to even, less *)
(* one.                                                                    *)
Missed(k, j) ==
  LET n == 2 * Gaps(series[k])[j]
      d == TwiceMedian(series[k])
      q == n \div d
      up == \/ 2 * (n % d) > d
            \/ 2 * (n % d) = d /\ q % 2 = 1
      rounded == IF up THEN q + 1 ELSE q
  IN  Max({0, rounded - 1})

(* The presence table: an identifier that comes late or leaves early by    *)
(* more than three periods, and a second.                                  *)
Tolerance(k) == IF HasMedian(series[k]) THEN Max({3 * TwiceMedian(series[k]), 2 * Presence})
                ELSE 2 * Presence
ComesLate(k) == 2 * (series[k][1] - First(chosen)) > Tolerance(k)
LeavesEarly(k) ==
  2 * (First(chosen) + Duration(chosen) - LastOf(series[k])) > Tolerance(k)

(* The program on the finished log, for all channels or one of them.  With *)
(* no frame it says so; frames of one instant only end in a division by 0. *)
Begins(chs) ==
  /\ report = NoReport /\ chosen = {} /\ clock > Horizon
  /\ LET fails == Seen(chs) = {} \/ Duration(chs) = 0
     IN  /\ report' = IF ~fails THEN NoReport
                      ELSE [kind |-> IF Seen(chs) = {} THEN "no frames" ELSE "crashed"]
         /\ chosen' = IF fails THEN {} ELSE chs
         /\ windows' = IF fails THEN {} ELSE UNION {Silences(c, Stall) : c \in chs}
  /\ UNCHANGED <<recording, events>>

(* The next window in the order of their starts, and of their ends.        *)
MergeNext ==
  /\ \E w \in windows : /\ \A v \in windows : ~Earlier(v, w)
                        /\ events' = Merged(events, w)
                        /\ windows' = windows \ {w}
  /\ UNCHANGED <<recording, chosen, report>>

Reports ==
  /\ report = NoReport /\ chosen # {} /\ windows = {}
  /\ LET gaps == UNION {{k} \X (1..Len(series[k]) - 1) : k \in Periodic(chosen)}
         of(cause) == {g \in gaps : Cause(g[1], g[2]) = cause}
     IN  report' = [kind |-> "report", periodic |-> Periodic(chosen),
                    outliers |-> [k \in Periodic(chosen) |-> Outliers(series[k])],
                    idle |-> Cardinality(of("idle")),
                    anomalies |-> {[key |-> g[1], at |-> g[2], missed |-> Missed(g[1], g[2])] :
                                   g \in of("anomaly")},
                    late |-> {k \in Seen(chosen) : ComesLate(k)},
                    early |-> {k \in Seen(chosen) : LeavesEarly(k)}]
  /\ UNCHANGED <<recording, chosen, windows, events>>

AscNext == \/ \E H \in SUBSET Buses, L \in SUBSET Ids : Tick(H, L)
           \/ \E chs \in {Buses} \cup {{c} : c \in Buses} : Begins(chs)
           \/ MergeNext
           \/ Reports

AscSpec == AscInit /\ [][AscNext]_ascVars
-----------------------------------------------------------------------------
Reported == report.kind = "report"
Between(k, j) == {t \in 0..Horizon : series[k][j] < t /\ t < series[k][j + 1]}

(* The silences are told as they were: the events follow each other apart, *)
(* each silence of a channel is in one of them that names the channel, and *)
(* at every moment of an event one of its channels was silent              *)
(* (analyze_can_asc.py:103-137).                                           *)
SilencesTold ==
  Reported =>
    /\ \A i, j \in DOMAIN events : i < j => events[i].to < events[j].from
    /\ \A c \in chosen : \A w \in Silences(c, Stall) :
         \E e \in Events : e.from <= w.from /\ w.to <= e.to /\ c \in e.chans
    /\ \A e \in Events : \A t \in e.from..e.to - 1 :
         \E c \in e.chans : \E w \in Silences(c, Stall) :
           /\ w.from <= t /\ t < w.to
           /\ e.from <= w.from /\ w.to <= e.to

(* A gap of at least Stall that is reported as lost frames is one during   *)
(* which other identifiers of the channel kept transmitting, and as many   *)
(* frames are said to be missed as did not come, when the median is the    *)
(* period (analyze_can_asc.py:240-262).                                    *)
LossIsReal ==
  Reported => \A a \in report.anomalies :
    LET between == Between(a.key, a.at)
    IN  /\ Gaps(series[a.key])[a.at] >= Stall =>
             \E k \in Ids \ {a.key} : k.ch = a.key.ch /\ Times(k) \cap between # {}
        /\ TwiceMedian(series[a.key]) = 2 * a.key.period =>
             a.missed = Cardinality({t \in between : Due(a.key, t)})

(* And lost frames are reported: as long as no channel looked at falls     *)
(* silent, and that of the identifier is not halted, every frame that it   *)
(* lost between two that came is counted in an anomaly                     *)
(* (analyze_can_asc.py:13-15, 244-262).                                    *)
LossIsReported ==
  Reported => \A k \in report.periodic :
    (/\ \A c \in chosen : Silences(c, Stall) = {}
     /\ \A h \in halted : h[1] # k.ch
     /\ TwiceMedian(series[k]) = 2 * k.period)
    => \A l \in lost : (l[1] = k /\ series[k][1] < l[2] /\ l[2] < LastOf(series[k])) =>
         \E a \in report.anomalies : /\ a.key = k /\ l[2] \in Between(k, a.at)
                                     /\ a.missed = Cardinality({m \in lost : m[1] = k /\ m[2] \in Between(k, a.at)})

(* What the program says of its anomalies: a gap during which other        *)
(* identifiers of the channel kept transmitting is one.  Not so when       *)
(* another channel was silent at the time.                                 *)
OtherIdsKeptTransmitting(k, j) ==
  \A w \in Silences(k.ch, Stall) : w.to <= series[k][j] \/ series[k][j + 1] <= w.from
SingleIdGapIsAnomaly ==
  Reported => \A k \in report.periodic : \A j \in 1..Len(series[k]) - 1 :
    (Oversized(k, j) /\ OtherIdsKeptTransmitting(k, j)) =>
      \E a \in report.anomalies : a.key = k /\ a.at = j
=============================================================================
