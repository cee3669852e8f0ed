------------------------------ MODULE UrbHealth ------------------------------
(***************************************************************************)
(* analyze_usbcan_urb.py and the two tools that read its result: one pass  *)
(* over the usbmon records of a capture, kept in one statistics record per *)
(* endpoint, a list of failed completions, and the errors that wait for    *)
(* their URB to be submitted again.  A record is a row that tshark gave    *)
(* all its fields; rows without are dropped before anything is counted.    *)
(***************************************************************************)
EXTENDS UsbRecords

VARIABLES urb,     \* endpoint -> statistics (_new_endpoint)
          errors,  \* failed completions, in order
          waiting  \* endpoint and URB -> indices of errors not resubmitted

urbVars == <<urb, errors, waiting>>

NewEndpoint ==
  [records |-> 0, submits |-> 0, completes |-> 0, failed |-> 0,
   lengths |-> {}, pending |-> {}, max_pending |-> 0, orphans |-> 0,
   last |-> None, last_error |-> None, ok_after_error |-> 0]

UrbInit == /\ urb = [k \in Keys |-> NewEndpoint]
           /\ errors = <<>>
           /\ waiting = [k \in Keys |-> [u \in Urbs |-> {}]]

-----------------------------------------------------------------------------
(* What a submit record does to its endpoint's statistics.                 *)
Submitted(s, r, t) ==
  LET pending == s.pending \cup {r.urb}
  IN  [s EXCEPT !.records = @ + 1, !.last = t, !.submits = @ + 1,
                !.lengths = @ \cup {r.len}, !.pending = pending,
                !.max_pending = Larger(@, Cardinality(pending))]

(* Mutant: a failed completion leaves its URB pending.                     *)
CompletedOnSuccess(s, r, t) ==
  LET matched == r.urb \in s.pending
      done == [s EXCEPT !.records = @ + 1, !.last = t, !.completes = @ + 1,
                        !.pending = IF r.status = 0 THEN @ \ {r.urb} ELSE @,
                        !.orphans = IF matched THEN @ ELSE @ + 1]
  IN  IF r.status = 0
      THEN [done EXCEPT !.ok_after_error = IF s.last_error = None THEN @ ELSE @ + 1]
      ELSE [done EXCEPT !.failed = @ + 1, !.last_error = t, !.ok_after_error = 0]

(* What a completion (C) or a submission error (E) does to them.           *)
Completed(s, r, t) ==
  LET matched == r.urb \in s.pending
      done == [s EXCEPT !.records = @ + 1, !.last = t, !.completes = @ + 1,
                        !.pending = @ \ {r.urb},
                        !.orphans = IF matched THEN @ ELSE @ + 1]
  IN  IF r.status = 0
      THEN [done EXCEPT !.ok_after_error = IF s.last_error = None THEN @ ELSE @ + 1]
      ELSE [done EXCEPT !.failed = @ + 1, !.last_error = t, !.ok_after_error = 0]

UrbStats(r, t) ==
  urb' = [urb EXCEPT ![Key(r)] = IF r.type = "S" THEN Submitted(@, r, t) ELSE Completed(@, r, t)]

(* Mutant: an error is told by its URB alone, whatever the endpoint.       *)
UrbErrorsByUrb(r, t, n) ==
  \/ /\ r.type = "S"
     /\ errors' = [j \in DOMAIN errors |->
                     IF errors[j].urb = r.urb /\ errors[j].resubmit = None
                     THEN [errors[j] EXCEPT !.resubmit = n, !.delay = t - errors[j].time]
                     ELSE errors[j]]
     /\ waiting' = [waiting EXCEPT ![Key(r)][r.urb] = {}]
  \/ /\ r.type # "S" /\ r.status = 0
     /\ UNCHANGED <<errors, waiting>>
  \/ /\ r.type # "S" /\ r.status # 0
     /\ errors' = Append(errors, [frame |-> n, time |-> t, key |-> Key(r), urb |-> r.urb,
                                  resubmit |-> None, delay |-> None])
     /\ waiting' = [waiting EXCEPT ![Key(r)][r.urb] = @ \cup {Len(errors) + 1}]

(* A submit answers the errors that wait for its URB; a failed completion  *)
(* is listed and waits.  n is the record's frame number.                   *)
UrbErrors(r, t, n) ==
  \/ /\ r.type = "S"
     /\ errors' = [j \in DOMAIN errors |->
                     IF j \in waiting[Key(r)][r.urb]
                     THEN [errors[j] EXCEPT !.resubmit = n, !.delay = t - errors[j].time]
                     ELSE errors[j]]
     /\ waiting' = [waiting EXCEPT ![Key(r)][r.urb] = {}]
  \/ /\ r.type # "S" /\ r.status = 0
     /\ UNCHANGED <<errors, waiting>>
  \/ /\ r.type # "S" /\ r.status # 0
     /\ errors' = Append(errors, [frame |-> n, time |-> t, key |-> Key(r), urb |-> r.urb,
                                  resubmit |-> None, delay |-> None])
     /\ waiting' = [waiting EXCEPT ![Key(r)][r.urb] = @ \cup {Len(errors) + 1}]

UrbRow(r, t, n) == UrbStats(r, t) /\ UrbErrors(r, t, n)

-----------------------------------------------------------------------------
(* The report: one entry per endpoint seen, in the order of their keys.    *)
Before(a, b) == a[1] < b[1] \/ (a[1] = b[1] /\ a[2] < b[2])

SeenUrb == {k \in Keys : urb[k].records > 0}

Resubmitted(k) == Cardinality({j \in DOMAIN errors : errors[j].key = k /\ errors[j].resubmit # None})
NotResubmitted(k) == Cardinality({j \in DOMAIN errors : errors[j].key = k /\ errors[j].resubmit = None})

(* Mutant: the busiest endpoint of either direction.                       *)
UrbTargetEitherWay ==
  LET top == {k \in SeenUrb : \A other \in SeenUrb : urb[other].records <= urb[k].records}
  IN  {k \in top : \A other \in top : ~Before(other, k)}

(* target_bulk_in: the first of the IN endpoints with the most records.    *)
UrbTarget ==
  LET ins == {k \in SeenUrb : In(k[2])}
      top == {k \in ins : \A other \in ins : urb[other].records <= urb[k].records}
  IN  {k \in top : \A other \in top : ~Before(other, k)}

(* The rows of the comparison that draw a conclusion from a capture taken  *)
(* as the second one: what its Interpretation section says of the target.  *)
AfterClaims(k) ==
  (IF urb[k].failed = 0 THEN {"no failures", "resubmit not exercised"}
   ELSE {"failures"} \cup (IF Resubmitted(k) = urb[k].failed THEN {"recovered"} ELSE {}))
  \cup (IF 512 \in urb[k].lengths THEN {"512"} ELSE {"still short"})

(* ... and of a capture taken as the first one.                            *)
BeforeClaims(k) ==
  IF urb[k].failed > 0 /\ NotResubmitted(k) = urb[k].failed THEN {"none submitted again"} ELSE {}

(* The error list as write_error_csv writes it, and the window of records  *)
(* that extract_usbcan_error_windows cuts out around each of the first     *)
(* limit errors, before and after ticks wide.                              *)
Windows(limit, before, after) ==
  [j \in 1..(IF Len(errors) < limit THEN Len(errors) ELSE limit) |->
     [frame |-> errors[j].frame, start |-> errors[j].time - before, end |-> errors[j].time + after]]
=============================================================================
