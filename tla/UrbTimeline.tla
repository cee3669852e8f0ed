----------------------------- MODULE UrbTimeline -----------------------------
(***************************************************************************)
(* analyze_usbcan_timeline.py: the same records again, counted in buckets  *)
(* of interval ticks, with the longest time between two good completions   *)
(* of an endpoint.                                                         *)
(***************************************************************************)
EXTENDS UsbRecords

CONSTANT interval  \* width of a bucket, in ticks
ASSUME IntervalAssumption == interval \in Nat \ {0}

VARIABLES line,    \* endpoint -> statistics (new_endpoint)
          bucket,  \* endpoint -> bucket number -> counts (new_bucket)
          seen     \* the endpoints in the order they first appeared

timelineVars == <<line, bucket, seen>>

NewLine == [records |-> 0, submits |-> 0, ok |-> 0, failed |-> 0,
            last_ok |-> None, max_gap |-> 0, gap_end |-> None]
NewBucket == [records |-> 0, submits |-> 0, ok |-> 0, failed |-> 0]

TimelineInit == /\ line = [k \in Keys |-> NewLine]
                /\ bucket = [k \in Keys |-> <<>>]
                /\ seen = <<>>

(* A record's part in the statistics of its endpoint.                      *)
Counted(s, r, t) ==
  LET ok == r.type # "S" /\ r.status = 0
      wider == ok /\ s.last_ok # None /\ t - s.last_ok > s.max_gap
  IN  [s EXCEPT !.records = @ + 1,
                !.submits = IF r.type = "S" THEN @ + 1 ELSE @,
                !.ok = IF ok THEN @ + 1 ELSE @,
                !.failed = IF r.type # "S" /\ ~ok THEN @ + 1 ELSE @,
                !.max_gap = IF wider THEN t - s.last_ok ELSE @,
                !.gap_end = IF wider THEN t ELSE @,
                !.last_ok = IF ok THEN t ELSE @]

(* ... and in those of its bucket, made when its first record comes.       *)
InBucket(b, r) ==
  LET ok == r.type # "S" /\ r.status = 0
  IN  [b EXCEPT !.records = @ + 1,
                !.submits = IF r.type = "S" THEN @ + 1 ELSE @,
                !.ok = IF ok THEN @ + 1 ELSE @,
                !.failed = IF r.type # "S" /\ ~ok THEN @ + 1 ELSE @]

TimelineRow(r, t) ==
  LET k == Key(r)
      at == t \div interval
      known == DOMAIN bucket[k]
  IN  /\ line' = [line EXCEPT ![k] = Counted(@, r, t)]
      /\ bucket' = [bucket EXCEPT ![k] =
                      [b \in known \cup {at} |->
                         IF b = at THEN InBucket(IF at \in known THEN @[at] ELSE NewBucket, r)
                         ELSE @[b]]]
      /\ seen' = IF \E j \in DOMAIN seen : seen[j] = k THEN seen ELSE Append(seen, k)

(* The target: of the IN endpoints with the most records the first seen;   *)
(* none at all ends the program with an error.                             *)
TimelineTarget ==
  LET ins == {j \in DOMAIN seen : In(seen[j][2])}
      top == {j \in ins : \A other \in ins : line[seen[other]].records <= line[seen[j]].records}
  IN  {seen[j] : j \in {m \in top : \A other \in top : m <= other}}
=============================================================================
