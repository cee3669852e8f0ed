----------------------------- MODULE UsbProofs -----------------------------
(***************************************************************************)
(* Theorems about the analysers of one capture, for every set of records,  *)
(* every capture length and every bucket width: their statistics are well  *)
(* typed, the echo contexts are conserved, two programs that count the     *)
(* same records separately report the same numbers and name the same       *)
(* target, a URB said to be outstanding is one, no error goes unreported,  *)
(* and the files of a ring are read in the order they were written.        *)
(***************************************************************************)
EXTENDS UsbCapture, FiniteSetTheorems, SequenceTheorems, WellFoundedInduction, TLAPS

(* The capture's own type, needed for the type of every time derived.      *)
CaptureType == capture \in Seq([time : Nat, rec : RecordType])

(* The frames handed to the echo analyser are frames of the payload.       *)
LEMMA HostFramesType ==
  ASSUME NEW p \in Seq(FrameType)
  PROVE  HostFrames(p) \in Seq(FrameType)
<1> DEFINE good == {k \in DOMAIN p : (1..k) \cap {j \in DOMAIN p : ~p[j].fits} = {}}
<1>0. Len(p) \in Nat
  BY LenProperties
<1>1. IsFiniteSet(1..Len(p)) /\ Cardinality(1..Len(p)) = Len(p)
  <2>1. 1 \in Int /\ Len(p) \in Int
    BY <1>0
  <2> QED BY <1>0, <2>1, FS_Interval
<1>2. good \in SUBSET (1..Len(p))
  BY LenProperties
<1> HIDE DEF good
<1>3. Cardinality(good) \in 0..Len(p)
  <2>1. IsFiniteSet(good) /\ Cardinality(good) <= Cardinality(1..Len(p))
    BY <1>1, <1>2, FS_Subset
  <2>2. Cardinality(good) \in Nat
    BY <2>1, FS_CardinalityType
  <2> QED BY <1>0, <1>1, <2>1, <2>2
<1>4. \A i \in 1..Cardinality(good) : p[i] \in FrameType
  BY <1>3
<1>5. SubSeq(p, 1, Cardinality(good)) \in Seq(FrameType)
  BY <1>3, <1>4, SubSeqProperties
<1> QED BY <1>5 DEF HostFrames, FramesUntil, good

(* There are finitely many contexts and finitely many pending URBs.        *)
LEMMA FiniteContexts ==
  ASSUME NEW S \in SUBSET Contexts
  PROVE  IsFiniteSet(S) /\ Cardinality(S) \in Nat
BY RecordsAssumption, FS_Product, FS_Subset, FS_CardinalityType DEF Contexts

LEMMA FiniteUrbs ==
  ASSUME NEW S \in SUBSET Urbs
  PROVE  IsFiniteSet(S) /\ Cardinality(S) \in Nat
BY RecordsAssumption, FS_Subset, FS_CardinalityType

(* Every record is at a time that is a natural number.                     *)
LEMMA TimeType ==
  ASSUME CaptureType, NEW step \in Steps
  PROVE  Now + step \in Nat
<1>1. step \in Nat
  BY CaptureAssumption
<1>2. CASE capture = <<>>
  BY <1>1, <1>2 DEF Now
<1>3. CASE capture # <<>>
  <2>1. Len(capture) \in 1..Len(capture)
    <3>1. Len(capture) \in Nat /\ Len(capture) # 0
      BY <1>3, EmptySeq, LenProperties DEF CaptureType
    <3> QED BY <3>1
  <2>2. capture[Len(capture)] \in [time : Nat, rec : RecordType]
    BY <2>1, ElementOfSeq DEF CaptureType
  <2>3. capture[Len(capture)].time \in Nat
    BY <2>2
  <2> QED BY <1>1, <1>3, <2>3 DEF Now
<1> QED BY <1>2, <1>3
-----------------------------------------------------------------------------
(* A record keeps its type when a field gets a value of the field's type.  *)
LEMMA UrbFields ==
  \A s \in UrbStatsType :
    /\ \A v \in Nat : /\ [s EXCEPT !.records = v] \in UrbStatsType
                      /\ [s EXCEPT !.submits = v] \in UrbStatsType
                      /\ [s EXCEPT !.completes = v] \in UrbStatsType
                      /\ [s EXCEPT !.failed = v] \in UrbStatsType
                      /\ [s EXCEPT !.max_pending = v] \in UrbStatsType
                      /\ [s EXCEPT !.orphans = v] \in UrbStatsType
                      /\ [s EXCEPT !.ok_after_error = v] \in UrbStatsType
    /\ \A v \in Int : /\ [s EXCEPT !.last = v] \in UrbStatsType
                      /\ [s EXCEPT !.last_error = v] \in UrbStatsType
    /\ \A v \in SUBSET Nat : [s EXCEPT !.lengths = v] \in UrbStatsType
    /\ \A v \in SUBSET Urbs : [s EXCEPT !.pending = v] \in UrbStatsType
BY DEF UrbStatsType

LEMMA EchoFields ==
  \A s \in EchoStatsType :
    /\ \A v \in Nat : /\ [s EXCEPT !.in_records = v] \in EchoStatsType
                      /\ [s EXCEPT !.tx_requests = v] \in EchoStatsType
                      /\ [s EXCEPT !.echoes = v] \in EchoStatsType
                      /\ [s EXCEPT !.device_rx = v] \in EchoStatsType
                      /\ [s EXCEPT !.orphans = v] \in EchoStatsType
                      /\ [s EXCEPT !.duplicates = v] \in EchoStatsType
                      /\ [s EXCEPT !.matched = v] \in EchoStatsType
                      /\ [s EXCEPT !.max_outstanding = v] \in EchoStatsType
    /\ \A v \in SUBSET Contexts : [s EXCEPT !.outstanding = v] \in EchoStatsType
    /\ \A v \in [Channels -> Int] : [s EXCEPT !.by_channel = v] \in EchoStatsType
BY DEF EchoStatsType

-----------------------------------------------------------------------------
(* The statistics keep their types under each handler.                     *)
LEMMA SubmittedType ==
  ASSUME NEW s \in UrbStatsType, NEW r \in RecordType, NEW t \in Nat
  PROVE  Submitted(s, r, t) \in UrbStatsType
<1> DEFINE pending == s.pending \cup {r.urb}
           records == s.records + 1
           submits == s.submits + 1
           lengths == s.lengths \cup {r.len}
           max_pending == Larger(s.max_pending, Cardinality(pending))
<1>1. r.urb \in Urbs /\ r.len \in Nat
  BY DEF RecordType
<1>2. /\ pending \in SUBSET Urbs /\ lengths \in SUBSET Nat
      /\ records \in Nat /\ submits \in Nat /\ s.max_pending \in Nat
  BY <1>1 DEF UrbStatsType
<1>3. max_pending \in Nat
  BY <1>2, FiniteUrbs DEF Larger
<1>4. Submitted(s, r, t) =
        [s EXCEPT !.records = records, !.last = t, !.submits = submits,
                  !.lengths = lengths, !.pending = pending, !.max_pending = max_pending]
  BY DEF Submitted, UrbStatsType
<1>5. t \in Int
  OBVIOUS
<1> HIDE DEF pending, records, submits, lengths, max_pending
<1>6. [s EXCEPT !.records = records, !.last = t, !.submits = submits, !.lengths = lengths,
                !.pending = pending, !.max_pending = max_pending] \in UrbStatsType
  BY <1>2, <1>3, <1>5, UrbFields
<1> QED BY <1>4, <1>6

(* A completion keeps the statistics in their type.                        *)
LEMMA CompletedType ==
  ASSUME NEW s \in UrbStatsType, NEW r \in RecordType, NEW t \in Nat
  PROVE  Completed(s, r, t) \in UrbStatsType
<1> DEFINE records == s.records + 1
           completes == s.completes + 1
           pending == s.pending \ {r.urb}
           orphans == IF r.urb \in s.pending THEN s.orphans ELSE s.orphans + 1
           failed == s.failed + 1
           ok == IF s.last_error = None THEN s.ok_after_error ELSE s.ok_after_error + 1
           done == [s EXCEPT !.records = records, !.last = t, !.completes = completes,
                             !.pending = pending, !.orphans = orphans]
<1>1. /\ records \in Nat /\ completes \in Nat /\ pending \in SUBSET Urbs
      /\ orphans \in Nat /\ failed \in Nat /\ ok \in Nat
  BY DEF UrbStatsType
<1>0. done \in UrbStatsType
  <2>1. t \in Int
    OBVIOUS
  <2> HIDE DEF records, completes, pending, orphans
  <2> QED BY <1>1, <2>1, UrbFields
<1>2. CASE r.status = 0
  <2>1. Completed(s, r, t) = [done EXCEPT !.ok_after_error = ok]
    BY <1>2 DEF Completed, UrbStatsType
  <2> HIDE DEF done, ok
  <2>2. [done EXCEPT !.ok_after_error = ok] \in UrbStatsType
    BY <1>0, <1>1, UrbFields
  <2> QED BY <2>1, <2>2
<1>3. CASE r.status # 0
  <2>1. Completed(s, r, t) =
          [done EXCEPT !.failed = failed, !.last_error = t, !.ok_after_error = 0]
    BY <1>3 DEF Completed, UrbStatsType
  <2>2. t \in Int /\ 0 \in Nat
    OBVIOUS
  <2> HIDE DEF done, failed
  <2>3. [done EXCEPT !.failed = failed, !.last_error = t, !.ok_after_error = 0] \in UrbStatsType
    BY <1>0, <1>1, <2>2, UrbFields
  <2> QED BY <2>1, <2>3
<1> QED BY <1>2, <1>3

LEMMA EchoFromType ==
  ASSUME NEW s \in EchoStatsType, NEW f \in FrameType
  PROVE  EchoFrom(s, f) \in EchoStatsType
<1> DEFINE c == <<f.ch, f.echo>>
           echoes == s.echoes + 1
           matched == s.matched + 1
           orphans == s.orphans + 1
           device_rx == s.device_rx + 1
           outstanding == s.outstanding \ {c}
           by_channel == [s.by_channel EXCEPT ![f.ch] = @ - 1]
<1>1. f.ch \in Channels
  BY DEF FrameType
<1>2. /\ echoes \in Nat /\ matched \in Nat /\ orphans \in Nat /\ device_rx \in Nat
      /\ outstanding \in SUBSET Contexts /\ by_channel \in [Channels -> Int]
  BY <1>1 DEF EchoStatsType
<1>3. CASE f.echo = RX_ECHO_ID
  <2>1. EchoFrom(s, f) = [s EXCEPT !.device_rx = device_rx]
    BY <1>3 DEF EchoFrom, EchoStatsType
  <2> HIDE DEF device_rx
  <2>2. [s EXCEPT !.device_rx = device_rx] \in EchoStatsType
    BY <1>2, EchoFields
  <2> QED BY <2>1, <2>2
<1>4. CASE f.echo # RX_ECHO_ID /\ c \in s.outstanding
  <2>1. EchoFrom(s, f) = [s EXCEPT !.echoes = echoes, !.matched = matched,
                                   !.outstanding = outstanding, !.by_channel = by_channel]
    BY <1>4 DEF EchoFrom, EchoStatsType
  <2> HIDE DEF echoes, matched, outstanding, by_channel
  <2>2. [s EXCEPT !.echoes = echoes, !.matched = matched, !.outstanding = outstanding,
                  !.by_channel = by_channel] \in EchoStatsType
    BY <1>2, EchoFields
  <2> QED BY <2>1, <2>2
<1>5. CASE f.echo # RX_ECHO_ID /\ c \notin s.outstanding
  <2>1. EchoFrom(s, f) = [s EXCEPT !.echoes = echoes, !.orphans = orphans]
    BY <1>5 DEF EchoFrom, EchoStatsType
  <2> HIDE DEF echoes, orphans
  <2>2. [s EXCEPT !.echoes = echoes, !.orphans = orphans] \in EchoStatsType
    BY <1>2, EchoFields
  <2> QED BY <2>1, <2>2
<1> QED BY <1>3, <1>4, <1>5

LEMMA RequestFromType ==
  ASSUME NEW s \in EchoStatsType, NEW f \in FrameType, f.echo # RX_ECHO_ID
  PROVE  RequestFrom(s, f) \in EchoStatsType
<1> DEFINE c == <<f.ch, f.echo>>
           tx_requests == s.tx_requests + 1
           duplicates == IF c \in s.outstanding THEN s.duplicates + 1 ELSE s.duplicates
           by_channel == [s.by_channel EXCEPT ![f.ch] = IF c \in s.outstanding THEN @ ELSE @ + 1]
           outstanding == s.outstanding \cup {c}
           now == Cardinality(outstanding)
           max_outstanding == IF s.max_outstanding < now THEN now ELSE s.max_outstanding
<1>1. c \in Contexts /\ f.ch \in Channels
  BY DEF Contexts, FrameType
<1>2. /\ tx_requests \in Nat /\ duplicates \in Nat /\ s.max_outstanding \in Nat
      /\ outstanding \in SUBSET Contexts /\ by_channel \in [Channels -> Int]
  BY <1>1 DEF EchoStatsType
<1>3. max_outstanding \in Nat
  BY <1>2, FiniteContexts
<1>4. RequestFrom(s, f) =
        [s EXCEPT !.tx_requests = tx_requests, !.duplicates = duplicates,
                  !.by_channel = by_channel, !.outstanding = outstanding,
                  !.max_outstanding = max_outstanding]
  BY DEF RequestFrom, EchoStatsType
<1> HIDE DEF tx_requests, duplicates, by_channel, outstanding, max_outstanding
<1>5. [s EXCEPT !.tx_requests = tx_requests, !.duplicates = duplicates,
                !.by_channel = by_channel, !.outstanding = outstanding,
                !.max_outstanding = max_outstanding] \in EchoStatsType
  BY <1>2, <1>3, EchoFields
<1> QED BY <1>4, <1>5
-----------------------------------------------------------------------------
(* What opening or closing one context does to the number of contexts of   *)
(* a channel.                                                              *)
LEMMA OpenedOnChannel ==
  ASSUME NEW S \in SUBSET Contexts, NEW c \in Contexts, c \notin S, NEW h
  PROVE  Cardinality({x \in S \cup {c} : x[1] = h}) =
           IF c[1] = h THEN Cardinality({x \in S : x[1] = h}) + 1
           ELSE Cardinality({x \in S : x[1] = h})
<1> DEFINE T == {x \in S : x[1] = h}
<1>1. IsFiniteSet(T) /\ c \notin T
  <2>1. T \in SUBSET Contexts
    OBVIOUS
  <2> QED BY <2>1, FiniteContexts
<1>2. CASE c[1] = h
  <2>1. {x \in S \cup {c} : x[1] = h} = T \cup {c}
    BY <1>2
  <2> QED BY <1>1, <1>2, <2>1, FS_AddElement
<1>3. CASE c[1] # h
  <2>1. {x \in S \cup {c} : x[1] = h} = T
    BY <1>3
  <2> QED BY <1>3, <2>1
<1> QED BY <1>2, <1>3

LEMMA ClosedOnChannel ==
  ASSUME NEW S \in SUBSET Contexts, NEW c \in S, NEW h
  PROVE  Cardinality({x \in S \ {c} : x[1] = h}) =
           IF c[1] = h THEN Cardinality({x \in S : x[1] = h}) - 1
           ELSE Cardinality({x \in S : x[1] = h})
<1> DEFINE T == {x \in S : x[1] = h}
<1>1. IsFiniteSet(T)
  <2>1. T \in SUBSET Contexts
    OBVIOUS
  <2> QED BY <2>1, FiniteContexts
<1>2. CASE c[1] = h
  <2>1. {x \in S \ {c} : x[1] = h} = T \ {c} /\ c \in T
    BY <1>2
  <2> QED BY <1>1, <1>2, <2>1, FS_RemoveElement
<1>3. CASE c[1] # h
  <2>1. {x \in S \ {c} : x[1] = h} = T
    BY <1>3
  <2> QED BY <1>3, <2>1
<1> QED BY <1>2, <1>3

(* An echo keeps the books: it closes a context or is an orphan.           *)
LEMMA EchoFromConserves ==
  ASSUME NEW s \in EchoStatsType, NEW f \in FrameType, Conserved(s)
  PROVE  Conserved(EchoFrom(s, f))
<1> DEFINE c == <<f.ch, f.echo>>
           S == s.outstanding
           e == EchoFrom(s, f)
<1>1. S \in SUBSET Contexts /\ f.ch \in Channels /\ c[1] = f.ch
  BY DEF EchoStatsType, FrameType
<1>2. CASE f.echo = RX_ECHO_ID \/ c \notin S
  <2>1. /\ e.tx_requests = s.tx_requests /\ e.duplicates = s.duplicates
        /\ e.matched = s.matched /\ e.outstanding = s.outstanding
        /\ e.by_channel = s.by_channel
        /\ \/ e.echoes = s.echoes /\ e.orphans = s.orphans
           \/ e.echoes = s.echoes + 1 /\ e.orphans = s.orphans + 1
    BY <1>2 DEF EchoFrom, EchoStatsType
  <2>2. s.echoes \in Nat /\ s.orphans \in Nat /\ s.matched \in Nat
    BY DEF EchoStatsType
  <2> HIDE DEF e
  <2>3. Conserved(e)
    BY <2>1, <2>2 DEF Conserved
  <2> QED BY <2>3 DEF e
<1>3. CASE f.echo # RX_ECHO_ID /\ c \in S
  <2>1. /\ e.tx_requests = s.tx_requests /\ e.duplicates = s.duplicates
        /\ e.matched = s.matched + 1 /\ e.outstanding = S \ {c}
        /\ e.by_channel = [s.by_channel EXCEPT ![f.ch] = @ - 1]
        /\ e.echoes = s.echoes + 1 /\ e.orphans = s.orphans
    BY <1>3 DEF EchoFrom, EchoStatsType
  <2>2. /\ s.echoes \in Nat /\ s.orphans \in Nat /\ s.matched \in Nat
        /\ s.tx_requests \in Nat /\ s.duplicates \in Nat
        /\ s.by_channel \in [Channels -> Int]
    BY DEF EchoStatsType
  <2>3. /\ Cardinality(S \ {c}) = Cardinality(S) - 1
        /\ Cardinality(S) \in Nat
    BY <1>1, <1>3, FiniteContexts, FS_RemoveElement
  <2> HIDE DEF e, S, c
  <2>4. e.tx_requests = Cardinality(e.outstanding) + e.duplicates + e.matched
    BY <2>1, <2>2, <2>3 DEF Conserved, S
  <2>5. e.echoes = e.orphans + e.matched
    BY <2>1, <2>2 DEF Conserved
  <2>6. ASSUME NEW h \in Channels
        PROVE  e.by_channel[h] = Cardinality({x \in e.outstanding : x[1] = h})
    <3>1. s.by_channel[h] = Cardinality({x \in S : x[1] = h})
      BY DEF Conserved, S
    <3>2. Cardinality({x \in S \ {c} : x[1] = h}) =
            IF c[1] = h THEN Cardinality({x \in S : x[1] = h}) - 1
            ELSE Cardinality({x \in S : x[1] = h})
      BY <1>1, <1>3, ClosedOnChannel
    <3>3. e.by_channel[h] = IF h = f.ch THEN s.by_channel[h] - 1 ELSE s.by_channel[h]
      BY <1>1, <2>1, <2>2
    <3> QED BY <1>1, <2>1, <3>1, <3>2, <3>3
  <2>7. Conserved(e)
    BY <2>4, <2>5, <2>6 DEF Conserved
  <2> QED BY <2>7 DEF e
<1> QED BY <1>2, <1>3

(* A request keeps them: it opens a context or repeats one.                *)
LEMMA RequestFromConserves ==
  ASSUME NEW s \in EchoStatsType, NEW f \in FrameType, f.echo # RX_ECHO_ID, Conserved(s)
  PROVE  Conserved(RequestFrom(s, f))
<1> DEFINE c == <<f.ch, f.echo>>
           S == s.outstanding
           e == RequestFrom(s, f)
<1>1. S \in SUBSET Contexts /\ c \in Contexts /\ f.ch \in Channels /\ c[1] = f.ch
  BY DEF EchoStatsType, FrameType, Contexts
<1>2. /\ e.tx_requests = s.tx_requests + 1
      /\ e.duplicates = (IF c \in S THEN s.duplicates + 1 ELSE s.duplicates)
      /\ e.matched = s.matched /\ e.outstanding = S \cup {c}
      /\ e.by_channel = [s.by_channel EXCEPT ![f.ch] = IF c \in S THEN @ ELSE @ + 1]
      /\ e.echoes = s.echoes /\ e.orphans = s.orphans
  BY DEF RequestFrom, EchoStatsType
<1>3. /\ s.echoes \in Nat /\ s.orphans \in Nat /\ s.matched \in Nat
      /\ s.tx_requests \in Nat /\ s.duplicates \in Nat
      /\ s.by_channel \in [Channels -> Int]
  BY DEF EchoStatsType
<1>4. /\ Cardinality(S) \in Nat
      /\ Cardinality(S \cup {c}) = IF c \in S THEN Cardinality(S) ELSE Cardinality(S) + 1
  BY <1>1, FiniteContexts, FS_AddElement
<1> HIDE DEF e, S, c
<1>5. e.tx_requests = Cardinality(e.outstanding) + e.duplicates + e.matched
  BY <1>2, <1>3, <1>4 DEF Conserved, S
<1>6. e.echoes = e.orphans + e.matched
  BY <1>2, <1>3 DEF Conserved
<1>7. ASSUME NEW h \in Channels
      PROVE  e.by_channel[h] = Cardinality({x \in e.outstanding : x[1] = h})
  <2>1. s.by_channel[h] = Cardinality({x \in S : x[1] = h})
    BY DEF Conserved, S
  <2>2. CASE c \in S
    <3>1. e.outstanding = S
      BY <1>2, <2>2
    <3>2. e.by_channel[h] = s.by_channel[h]
      BY <1>1, <1>2, <1>3, <2>2
    <3> QED BY <2>1, <3>1, <3>2
  <2>3. CASE c \notin S
    <3>1. Cardinality({x \in S \cup {c} : x[1] = h}) =
            IF c[1] = h THEN Cardinality({x \in S : x[1] = h}) + 1
            ELSE Cardinality({x \in S : x[1] = h})
      BY <1>1, <2>3, OpenedOnChannel
    <3>2. e.by_channel[h] = IF h = f.ch THEN s.by_channel[h] + 1 ELSE s.by_channel[h]
      BY <1>1, <1>2, <1>3, <2>3
    <3> QED BY <1>1, <1>2, <2>1, <3>1, <3>2
  <2> QED BY <2>2, <2>3
<1>8. Conserved(e)
  BY <1>5, <1>6, <1>7 DEF Conserved
<1> QED BY <1>8 DEF e
-----------------------------------------------------------------------------
TypeInv == TypeOK /\ CaptureType

LEMMA InitTyped == Init => TypeInv
<1> SUFFICES ASSUME Init PROVE TypeInv
  OBVIOUS
<1>1. urb \in [Keys -> UrbStatsType]
  <2>1. NewEndpoint \in UrbStatsType
    BY DEF NewEndpoint, UrbStatsType, None
  <2> QED BY <2>1 DEF Init, UrbInit
<1>2. echo \in [Devices -> EchoStatsType]
  <2>1. [c \in Channels |-> 0] \in [Channels -> Int]
    OBVIOUS
  <2>2. NewDevice \in EchoStatsType
    BY <2>1 DEF NewDevice, EchoStatsType
  <2> QED BY <2>2 DEF Init, EchoInit
<1>3. rest = <<>> /\ capture = <<>>
  BY DEF Init, EchoInit
<1>4. rest \in Seq(FrameType) /\ CaptureType
  BY <1>3, EmptySeq DEF CaptureType
<1> QED BY <1>1, <1>2, <1>3, <1>4 DEF TypeInv, TypeOK

(* A record is read: its handlers in the four programs.                    *)
LEMMA RecordTyped ==
  ASSUME TypeInv, NEW r \in Records, NEW step \in Steps, Record(r, Now + step)
  PROVE  TypeInv'
<1> DEFINE t == Now + step
<1>1. r \in RecordType /\ t \in Nat
  BY CaptureAssumption, TimeType DEF TypeInv
<1>2. Key(r) \in Keys /\ r.dev \in Devices /\ r.payload \in Seq(FrameType)
  BY <1>1 DEF Key, Keys, RecordType
<1>3. (urb \in [Keys -> UrbStatsType])'
  <2>1. urb' = [urb EXCEPT ![Key(r)] =
                  IF r.type = "S" THEN Submitted(@, r, t) ELSE Completed(@, r, t)]
    BY DEF Record, UrbRow, UrbStats
  <2>2. urb[Key(r)] \in UrbStatsType
    BY <1>2 DEF TypeInv, TypeOK
  <2>3. /\ Submitted(urb[Key(r)], r, t) \in UrbStatsType
        /\ Completed(urb[Key(r)], r, t) \in UrbStatsType
    BY <1>1, <2>2, SubmittedType, CompletedType
  <2> HIDE DEF t
  <2> QED BY <1>2, <2>1, <2>3 DEF TypeInv, TypeOK
<1>4. (echo \in [Devices -> EchoStatsType])'
  <2>1. echo' = [echo EXCEPT ![r.dev].in_records = IF In(r.ep) THEN @ + 1 ELSE @]
    BY DEF Record, EchoRow
  <2> DEFINE s == echo[r.dev]
             n == IF In(r.ep) THEN s.in_records + 1 ELSE s.in_records
  <2>2. s \in EchoStatsType
    BY <1>2 DEF TypeInv, TypeOK
  <2>3. n \in Nat
    BY <2>2 DEF EchoStatsType
  <2>4. [s EXCEPT !.in_records = n] \in EchoStatsType
    <3> HIDE DEF s, n
    <3> QED BY <2>2, <2>3, EchoFields
  <2>5. echo' = [echo EXCEPT ![r.dev] = [s EXCEPT !.in_records = n]]
    BY <2>1
  <2> HIDE DEF s, n
  <2> QED BY <1>2, <2>4, <2>5 DEF TypeInv, TypeOK
<1>5. (rest \in Seq(FrameType))'
  BY <1>2, HostFramesType DEF Record, EchoRow
<1>6. row' \in RowType
  BY <1>1 DEF Record, EchoRow, RowType, RecordType
<1>7. CaptureType'
  <2>1. [time |-> t, rec |-> r] \in [time : Nat, rec : RecordType]
    BY <1>1
  <2>2. capture' = Append(capture, [time |-> t, rec |-> r])
    BY DEF Record
  <2> HIDE DEF t
  <2> QED BY <2>1, <2>2, AppendProperties DEF TypeInv, CaptureType
<1> QED BY <1>3, <1>4, <1>5, <1>6, <1>7 DEF TypeInv, TypeOK

(* A frame is looked at: what it is, and what it does to its device.       *)
LEMMA FrameAtHand ==
  ASSUME TypeInv, EchoDecodes
  PROVE  /\ row \in RowType /\ Head(rest) \in FrameType /\ Tail(rest) \in Seq(FrameType)
         /\ echo[row.dev] \in EchoStatsType
<1>1. rest # <<>> /\ rest \in Seq(FrameType) /\ row \in RowType
  BY DEF TypeInv, TypeOK, EchoDecodes, EchoFrame
<1>2. Head(rest) \in FrameType /\ Tail(rest) \in Seq(FrameType)
  BY <1>1, HeadTailProperties
<1>3. row.dev \in Devices
  BY <1>1 DEF RowType
<1> QED BY <1>1, <1>2, <1>3 DEF TypeInv, TypeOK

LEMMA FrameCounted ==
  ASSUME TypeInv, EchoDecodes
  PROVE  \/ echo' = echo
         \/ echo' = [echo EXCEPT ![row.dev] = EchoFrom(@, Head(rest))]
         \/ /\ Head(rest).echo # RX_ECHO_ID
            /\ echo' = [echo EXCEPT ![row.dev] = RequestFrom(@, Head(rest))]
<1>1. CASE ~Counts(row, Head(rest))
  BY <1>1 DEF EchoDecodes, EchoFrame
<1>2. CASE Counts(row, Head(rest)) /\ In(row.ep)
  BY <1>2 DEF EchoDecodes, EchoFrame
<1>3. CASE Counts(row, Head(rest)) /\ ~In(row.ep)
  <2>1. Head(rest).echo # RX_ECHO_ID
    BY <1>3 DEF Counts
  <2>2. echo' = [echo EXCEPT ![row.dev] = RequestFrom(@, Head(rest))]
    BY <1>3 DEF EchoDecodes, EchoFrame
  <2> QED BY <2>1, <2>2
<1> QED BY <1>1, <1>2, <1>3

LEMMA EchoDecodesTyped ==
  ASSUME TypeInv, EchoDecodes
  PROVE  TypeInv'
<1>1. row \in RowType /\ row.dev \in Devices /\ Head(rest) \in FrameType
  BY FrameAtHand DEF RowType
<1>2. (echo \in [Devices -> EchoStatsType])'
  <2>1. echo \in [Devices -> EchoStatsType]
    BY DEF TypeInv, TypeOK
  <2>2. echo[row.dev] \in EchoStatsType
    BY FrameAtHand
  <2>3. CASE echo' = echo
    BY <2>1, <2>3
  <2>4. CASE echo' = [echo EXCEPT ![row.dev] = EchoFrom(@, Head(rest))]
    <3>1. EchoFrom(echo[row.dev], Head(rest)) \in EchoStatsType
      BY <1>1, <2>2, EchoFromType
    <3> QED BY <1>1, <2>1, <2>4, <3>1
  <2>5. CASE /\ Head(rest).echo # RX_ECHO_ID
             /\ echo' = [echo EXCEPT ![row.dev] = RequestFrom(@, Head(rest))]
    <3>1. RequestFrom(echo[row.dev], Head(rest)) \in EchoStatsType
      BY <1>1, <2>2, <2>5, RequestFromType
    <3> QED BY <1>1, <2>1, <2>5, <3>1
  <2> QED BY <2>3, <2>4, <2>5, FrameCounted
<1>3. (rest \in Seq(FrameType))' /\ row' = row
  BY FrameAtHand DEF EchoDecodes, EchoFrame
<1>4. UNCHANGED <<urb, capture>>
  BY DEF EchoDecodes, urbVars
<1> QED BY <1>1, <1>2, <1>3, <1>4 DEF TypeInv, TypeOK, CaptureType

(* The analysers' statistics are well typed in every state of every run.   *)
THEOREM UsbTyping == Spec => []TypeOK
<1>1. TypeInv /\ [Next]_vars => TypeInv'
  <2> SUFFICES ASSUME TypeInv, [Next]_vars PROVE TypeInv'
    OBVIOUS
  <2>1. ASSUME NEW r \in Records, NEW step \in Steps, Record(r, Now + step) PROVE TypeInv'
    BY <2>1, RecordTyped
  <2>2. CASE EchoDecodes
    BY <2>2, EchoDecodesTyped
  <2>3. CASE GsDecodes
    BY <2>3 DEF GsDecodes, urbVars, echoVars, TypeInv, TypeOK, CaptureType
  <2>4. CASE UNCHANGED vars
    BY <2>4 DEF vars, urbVars, echoVars, TypeInv, TypeOK, CaptureType
  <2> QED BY <2>1, <2>2, <2>3, <2>4 DEF Next
<1>2. TypeInv => TypeOK
  BY DEF TypeInv
<1> QED BY InitTyped, <1>1, <1>2, PTL DEF Spec

-----------------------------------------------------------------------------
(* Whatever capture is read, every request is outstanding, repeated or     *)
(* answered, every echo answers a request or is an orphan, and the number  *)
(* of contexts shown for a channel is that of its open contexts.           *)
LEMMA InitConserved == Init => EchoConservation
<1> SUFFICES ASSUME Init, NEW d \in Devices PROVE Conserved(echo[d])
  BY DEF EchoConservation
<1>1. echo[d] = NewDevice
  BY DEF Init, EchoInit
<1>2. ASSUME NEW h \in Channels PROVE {x \in {} : x[1] = h} = {}
  OBVIOUS
<1> QED BY <1>1, <1>2, FS_EmptySet DEF Conserved, NewDevice

LEMMA RecordConserves ==
  ASSUME TypeInv, EchoConservation, NEW r \in Records, NEW t, Record(r, t)
  PROVE  EchoConservation'
<1> SUFFICES ASSUME NEW d \in Devices PROVE Conserved(echo'[d])
  BY DEF EchoConservation
<1>1. r.dev \in Devices
  BY CaptureAssumption DEF RecordType
<1>2. echo' = [echo EXCEPT ![r.dev].in_records = IF In(r.ep) THEN @ + 1 ELSE @]
  BY DEF Record, EchoRow
<1>3. echo \in [Devices -> EchoStatsType] /\ Conserved(echo[d])
  BY DEF TypeInv, TypeOK, EchoConservation
<1>4. CASE d # r.dev
  BY <1>2, <1>3, <1>4
<1>5. CASE d = r.dev
  <2> DEFINE s == echo[d]
             n == IF In(r.ep) THEN s.in_records + 1 ELSE s.in_records
             e == [s EXCEPT !.in_records = n]
  <2>1. echo'[d] = e
    BY <1>2, <1>3, <1>5
  <2>2. s \in EchoStatsType
    BY <1>3
  <2>3. /\ e.tx_requests = s.tx_requests /\ e.duplicates = s.duplicates
        /\ e.matched = s.matched /\ e.outstanding = s.outstanding
        /\ e.by_channel = s.by_channel /\ e.echoes = s.echoes /\ e.orphans = s.orphans
    <3> HIDE DEF s, n
    <3> QED BY <2>2 DEF EchoStatsType
  <2>4. Conserved(e)
    <3> HIDE DEF e, n
    <3> QED BY <1>3, <2>3 DEF Conserved
  <2> QED BY <2>1, <2>4
<1> QED BY <1>4, <1>5

LEMMA EchoDecodesConserves ==
  ASSUME TypeInv, EchoConservation, EchoDecodes
  PROVE  EchoConservation'
<1> SUFFICES ASSUME NEW d \in Devices PROVE Conserved(echo'[d])
  BY DEF EchoConservation
<1>1. row.dev \in Devices /\ Head(rest) \in FrameType /\ echo[row.dev] \in EchoStatsType
  BY FrameAtHand DEF RowType
<1>2. /\ echo \in [Devices -> EchoStatsType]
      /\ Conserved(echo[d]) /\ Conserved(echo[row.dev])
  BY <1>1 DEF TypeInv, TypeOK, EchoConservation
<1>3. CASE echo' = echo
  BY <1>2, <1>3
<1>4. CASE echo' = [echo EXCEPT ![row.dev] = EchoFrom(@, Head(rest))]
  <2>1. Conserved(EchoFrom(echo[row.dev], Head(rest)))
    BY <1>1, <1>2, EchoFromConserves
  <2> QED BY <1>1, <1>2, <1>4, <2>1
<1>5. CASE /\ Head(rest).echo # RX_ECHO_ID
           /\ echo' = [echo EXCEPT ![row.dev] = RequestFrom(@, Head(rest))]
  <2>1. Conserved(RequestFrom(echo[row.dev], Head(rest)))
    BY <1>1, <1>2, <1>5, RequestFromConserves
  <2> QED BY <1>1, <1>2, <1>5, <2>1
<1> QED BY <1>3, <1>4, <1>5, FrameCounted

(* In captures of any length, with any ids reused, lost or echoed twice,   *)
(* requests and echoes balance (analyze_usbcan_echo.py:104-139).           *)
THEOREM EchoConserved == Spec => []EchoConservation
<1> DEFINE Inv == TypeInv /\ EchoConservation
<1>1. Init => Inv
  BY InitTyped, InitConserved
<1>2. Inv /\ [Next]_vars => Inv'
  <2> SUFFICES ASSUME Inv, [Next]_vars PROVE Inv'
    OBVIOUS
  <2>1. ASSUME NEW r \in Records, NEW step \in Steps, Record(r, Now + step) PROVE Inv'
    BY <2>1, RecordTyped, RecordConserves
  <2>2. CASE EchoDecodes
    BY <2>2, EchoDecodesTyped, EchoDecodesConserves
  <2>3. CASE GsDecodes \/ UNCHANGED vars
    <3>1. UNCHANGED <<urb, echo, row, rest, capture>>
      BY <2>3 DEF GsDecodes, vars, urbVars, echoVars
    <3> QED BY <3>1 DEF TypeInv, TypeOK, CaptureType, EchoConservation
  <2> QED BY <2>1, <2>2, <2>3 DEF Next
<1>3. Inv => EchoConservation
  OBVIOUS
<1> QED BY <1>1, <1>2, <1>3, PTL DEF Spec
-----------------------------------------------------------------------------
(* The timeline and the URB report count the same records in two programs  *)
(* and tell the same numbers of every endpoint.                            *)
LineType == [records : Nat, submits : Nat, ok : Nat, failed : Nat,
             last_ok : Int, max_gap : Int, gap_end : Int]
LineTyped == line \in [Keys -> LineType]

LEMMA LineFields ==
  \A s \in LineType :
    /\ \A v \in Nat : /\ [s EXCEPT !.records = v] \in LineType
                      /\ [s EXCEPT !.submits = v] \in LineType
                      /\ [s EXCEPT !.ok = v] \in LineType
                      /\ [s EXCEPT !.failed = v] \in LineType
    /\ \A v \in Int : /\ [s EXCEPT !.max_gap = v] \in LineType
                      /\ [s EXCEPT !.gap_end = v] \in LineType
                      /\ [s EXCEPT !.last_ok = v] \in LineType
BY DEF LineType

LEMMA CountedType ==
  ASSUME NEW s \in LineType, NEW r \in RecordType, NEW t \in Nat
  PROVE  Counted(s, r, t) \in LineType
<1> DEFINE good == r.type # "S" /\ r.status = 0
           wider == good /\ s.last_ok # None /\ t - s.last_ok > s.max_gap
           records == s.records + 1
           submits == IF r.type = "S" THEN s.submits + 1 ELSE s.submits
           ok == IF good THEN s.ok + 1 ELSE s.ok
           failed == IF r.type # "S" /\ ~good THEN s.failed + 1 ELSE s.failed
           max_gap == IF wider THEN t - s.last_ok ELSE s.max_gap
           gap_end == IF wider THEN t ELSE s.gap_end
           last_ok == IF good THEN t ELSE s.last_ok
<1>1. /\ records \in Nat /\ submits \in Nat /\ ok \in Nat /\ failed \in Nat
      /\ max_gap \in Int /\ gap_end \in Int /\ last_ok \in Int
  <2> HIDE DEF good, wider
  <2> QED BY DEF LineType
<1>2. Counted(s, r, t) =
        [s EXCEPT !.records = records, !.submits = submits, !.ok = ok, !.failed = failed,
                  !.max_gap = max_gap, !.gap_end = gap_end, !.last_ok = last_ok]
  BY DEF Counted, LineType
<1> HIDE DEF records, submits, ok, failed, max_gap, gap_end, last_ok
<1>3. [s EXCEPT !.records = records, !.submits = submits, !.ok = ok, !.failed = failed,
                !.max_gap = max_gap, !.gap_end = gap_end, !.last_ok = last_ok] \in LineType
  BY <1>1, LineFields
<1> QED BY <1>2, <1>3

LEMMA SameCount ==
  ASSUME NEW u \in UrbStatsType, NEW l \in LineType, NEW r \in RecordType, NEW t \in Nat,
         /\ l.records = u.records /\ l.submits = u.submits
         /\ l.ok + l.failed = u.completes /\ l.failed = u.failed,
         NEW v, v = IF r.type = "S" THEN Submitted(u, r, t) ELSE Completed(u, r, t),
         NEW m, m = Counted(l, r, t)
  PROVE  /\ m.records = v.records /\ m.submits = v.submits
         /\ m.ok + m.failed = v.completes /\ m.failed = v.failed
<1>1. /\ l.records \in Nat /\ l.submits \in Nat /\ l.ok \in Nat /\ l.failed \in Nat
      /\ u.records \in Nat /\ u.submits \in Nat /\ u.completes \in Nat /\ u.failed \in Nat
  BY DEF LineType, UrbStatsType
<1>2. CASE r.type = "S"
  <2>1. /\ v.records = u.records + 1 /\ v.submits = u.submits + 1
        /\ v.completes = u.completes /\ v.failed = u.failed
    BY <1>2 DEF Submitted, UrbStatsType
  <2>2. /\ m.records = l.records + 1 /\ m.submits = l.submits + 1
        /\ m.ok = l.ok /\ m.failed = l.failed
    BY <1>2 DEF Counted, LineType
  <2> QED BY <1>1, <2>1, <2>2
<1>3. CASE r.type # "S" /\ r.status = 0
  <2>1. /\ v.records = u.records + 1 /\ v.submits = u.submits
        /\ v.completes = u.completes + 1 /\ v.failed = u.failed
    BY <1>3 DEF Completed, UrbStatsType
  <2>2. /\ m.records = l.records + 1 /\ m.submits = l.submits
        /\ m.ok = l.ok + 1 /\ m.failed = l.failed
    BY <1>3 DEF Counted, LineType
  <2> QED BY <1>1, <2>1, <2>2
<1>4. CASE r.type # "S" /\ r.status # 0
  <2>1. /\ v.records = u.records + 1 /\ v.submits = u.submits
        /\ v.completes = u.completes + 1 /\ v.failed = u.failed + 1
    BY <1>4 DEF Completed, UrbStatsType
  <2>2. /\ m.records = l.records + 1 /\ m.submits = l.submits
        /\ m.ok = l.ok /\ m.failed = l.failed + 1
    BY <1>4 DEF Counted, LineType
  <2> QED BY <1>1, <2>1, <2>2
<1> QED BY <1>2, <1>3, <1>4

LEMMA RecordCountsTheSame ==
  ASSUME TypeInv, LineTyped, SameEverywhere,
         NEW r \in Records, NEW step \in Steps, Record(r, Now + step)
  PROVE  LineTyped' /\ SameEverywhere'
<1> DEFINE t == Now + step
           k == Key(r)
           u == IF r.type = "S" THEN Submitted(urb[k], r, t) ELSE Completed(urb[k], r, t)
<1>1. r \in RecordType /\ t \in Nat /\ k \in Keys
  BY CaptureAssumption, TimeType DEF TypeInv, Key, Keys, RecordType
<1>2. urb' = [urb EXCEPT ![k] = u] /\ line' = [line EXCEPT ![k] = Counted(@, r, t)]
  BY DEF Record, UrbRow, UrbStats, TimelineRow
<1>3. urb \in [Keys -> UrbStatsType] /\ line \in [Keys -> LineType]
  BY DEF TypeInv, TypeOK, LineTyped
<1>4. urb[k] \in UrbStatsType /\ line[k] \in LineType
  BY <1>1, <1>3
<1>5. SameNumbers(k)
  BY <1>1 DEF SameEverywhere
<1> HIDE DEF t, k
<1>6. LineTyped'
  BY <1>1, <1>2, <1>3, <1>4, CountedType DEF LineTyped
<1>7. ASSUME NEW j \in Keys PROVE SameNumbers(j)'
  <2>1. CASE j = k
    <3>1. urb'[j] = u /\ line'[j] = Counted(line[k], r, t)
      BY <1>1, <1>2, <1>3, <2>1
    <3>2. /\ line[k].records = urb[k].records /\ line[k].submits = urb[k].submits
          /\ line[k].ok + line[k].failed = urb[k].completes
          /\ line[k].failed = urb[k].failed
      BY <1>5 DEF SameNumbers
    <3>3. /\ line'[j].records = urb'[j].records /\ line'[j].submits = urb'[j].submits
          /\ line'[j].ok + line'[j].failed = urb'[j].completes
          /\ line'[j].failed = urb'[j].failed
      BY <1>1, <1>4, <3>1, <3>2, SameCount
    <3> QED BY <3>3 DEF SameNumbers
  <2>2. CASE j # k
    BY <1>2, <1>3, <2>2 DEF SameEverywhere, SameNumbers
  <2> QED BY <2>1, <2>2
<1> QED BY <1>6, <1>7 DEF SameEverywhere

(* The URB report and the timeline count the same records of each endpoint *)
(* (analyze_usbcan_urb.py:131-168, analyze_usbcan_timeline.py:89-119).     *)
THEOREM SameNumbersEverywhere == Spec => []SameEverywhere
<1> DEFINE Inv == TypeInv /\ LineTyped /\ SameEverywhere
<1>1. Init => Inv
  <2> SUFFICES ASSUME Init PROVE Inv
    OBVIOUS
  <2>1. NewLine \in LineType
    BY DEF NewLine, LineType, None
  <2>2. urb = [k \in Keys |-> NewEndpoint] /\ line = [k \in Keys |-> NewLine]
    BY DEF Init, UrbInit, TimelineInit
  <2>3. LineTyped
    BY <2>1, <2>2 DEF LineTyped
  <2>4. SameEverywhere
    BY <2>2 DEF SameEverywhere, SameNumbers, NewLine, NewEndpoint
  <2> QED BY <2>3, <2>4, InitTyped
<1>2. Inv /\ [Next]_vars => Inv'
  <2> SUFFICES ASSUME Inv, [Next]_vars PROVE Inv'
    OBVIOUS
  <2>1. ASSUME NEW r \in Records, NEW step \in Steps, Record(r, Now + step) PROVE Inv'
    BY <2>1, RecordTyped, RecordCountsTheSame
  <2>2. CASE EchoDecodes
    BY <2>2, EchoDecodesTyped
       DEF EchoDecodes, urbVars, timelineVars, LineTyped, SameEverywhere, SameNumbers
  <2>3. CASE GsDecodes \/ UNCHANGED vars
    <3>1. UNCHANGED <<urb, echo, row, rest, capture, line>>
      BY <2>3 DEF GsDecodes, vars, urbVars, echoVars, timelineVars
    <3> QED BY <3>1 DEF TypeInv, TypeOK, CaptureType, LineTyped, SameEverywhere, SameNumbers
  <2> QED BY <2>1, <2>2, <2>3 DEF Next
<1>3. Inv => SameEverywhere
  OBVIOUS
<1> QED BY <1>1, <1>2, <1>3, PTL DEF Spec
-----------------------------------------------------------------------------
(* What PendingIsReal says of one endpoint, in named parts: its records,   *)
(* the URBs whose latest record is a submit, and the completions without   *)
(* one.                                                                    *)
Latest(j, S) == j \in S /\ \A m \in S : SameUrb(m, j) => m <= j
Mine(k) == {j \in DOMAIN capture : Is(j, k)}
PendingNow(k) == {m \in Mine(k) : Submit(m) /\ Latest(m, Mine(k))}
Orphaned(k) ==
  {j \in Mine(k) : /\ ~Submit(j)
                   /\ ~\E m \in Mine(k) : /\ m < j /\ Submit(m) /\ SameUrb(m, j)
                                          /\ Latest(m, {x \in Mine(k) : x < j})}
PendingAt(k) ==
  /\ urb[k].pending = {capture[j].rec.urb : j \in PendingNow(k)}
  /\ urb[k].orphans = Cardinality(Orphaned(k))

(* One record more: the ones before it are as they were.                   *)
LEMMA Longer ==
  ASSUME CaptureType, NEW r \in RecordType, NEW t \in Nat,
         capture' = Append(capture, [time |-> t, rec |-> r])
  PROVE  LET n == Len(capture) + 1
         IN  /\ n \in Nat /\ n > 0 /\ DOMAIN capture = 1..n - 1 /\ DOMAIN capture' = 1..n
             /\ \A j \in 1..n - 1 : capture'[j] = capture[j]
             /\ capture'[n] = [time |-> t, rec |-> r]
             /\ \A j \in 1..n - 1 : capture[j] \in [time : Nat, rec : RecordType]
<1> DEFINE T == [time : Nat, rec : RecordType]
           e == [time |-> t, rec |-> r]
<1>1. e \in T /\ capture \in Seq(T) /\ capture' = Append(capture, e)
  BY DEF CaptureType
<1> HIDE DEF e, T
<1>2. /\ Len(Append(capture, e)) = Len(capture) + 1 /\ Append(capture, e) \in Seq(T)
      /\ \A i \in 1..Len(capture) : Append(capture, e)[i] = capture[i]
      /\ Append(capture, e)[Len(capture) + 1] = e
  BY <1>1, AppendProperties
<1>3. Len(capture) \in Nat /\ DOMAIN capture = 1..Len(capture)
      /\ \A j \in 1..Len(capture) : capture[j] \in T
  BY <1>1, LenProperties, ElementOfSeq
<1>4. DOMAIN capture' = 1..Len(capture) + 1
  BY <1>1, <1>2, LenProperties
<1> QED BY <1>1, <1>2, <1>3, <1>4 DEF e, T

(* A record of another endpoint changes nothing of this one's.             *)
LEMMA PendingOther ==
  ASSUME CaptureType, NEW r \in RecordType, NEW t \in Nat,
         capture' = Append(capture, [time |-> t, rec |-> r]),
         NEW k, k # Key(r), urb'[k] = urb[k], PendingAt(k)
  PROVE  PendingAt(k)'
<1>0. PICK n : n = Len(capture) + 1
  OBVIOUS
<1>1. /\ n \in Nat /\ DOMAIN capture = 1..n - 1 /\ DOMAIN capture' = 1..n
      /\ \A j \in 1..n - 1 : capture'[j] = capture[j]
      /\ capture'[n].rec = r
  BY <1>0, Longer
<1>2. /\ \A j \in 1..n - 1 : (Is(j, k)' <=> Is(j, k)) /\ (Submit(j)' <=> Submit(j))
      /\ ~Is(n, k)'
      /\ \A i, j \in 1..n - 1 : SameUrb(i, j)' <=> SameUrb(i, j)
  <2>1. ASSUME NEW j \in 1..n - 1
        PROVE  (Is(j, k)' <=> Is(j, k)) /\ (Submit(j)' <=> Submit(j))
    BY <1>1 DEF Is, Submit
  <2>2. ~Is(n, k)'
    BY <1>1 DEF Is
  <2>3. ASSUME NEW i \in 1..n - 1, NEW j \in 1..n - 1
        PROVE  SameUrb(i, j)' <=> SameUrb(i, j)
    BY <1>1 DEF SameUrb
  <2> QED BY <2>1, <2>2, <2>3
<1>3. Mine(k)' = Mine(k) /\ Mine(k) \subseteq 1..n - 1
  <2>1. \A j : j \in 1..n <=> j \in 1..n - 1 \/ j = n
    BY <1>1
  <2>2. Mine(k)' = {j \in 1..n : Is(j, k)'} /\ Mine(k) = {j \in 1..n - 1 : Is(j, k)}
    BY <1>1 DEF Mine
  <2> QED BY <1>2, <2>1, <2>2
<1>4. ASSUME NEW S \in SUBSET (1..n - 1), NEW j
      PROVE  Latest(j, S)' <=> Latest(j, S)
  BY <1>2 DEF Latest
<1>5. PendingNow(k)' = PendingNow(k)
  BY <1>2, <1>3, <1>4 DEF PendingNow
<1>6. {capture[j].rec.urb : j \in PendingNow(k)}' = {capture[j].rec.urb : j \in PendingNow(k)}
  <2>1. PendingNow(k) \subseteq 1..n - 1
    BY <1>3 DEF PendingNow
  <2> QED BY <1>1, <1>5, <2>1
<1>7. Orphaned(k)' = Orphaned(k)
  BY <1>2, <1>3, <1>4 DEF Orphaned
<1> QED BY <1>6, <1>7 DEF PendingAt

(* A record of this endpoint becomes the latest of its URB: a submit opens *)
(* it, a completion closes it, or is an orphan if it was not open.         *)
LEMMA PendingOwn ==
  ASSUME TypeInv, NEW r \in RecordType, NEW t \in Nat,
         capture' = Append(capture, [time |-> t, rec |-> r]),
         NEW k \in Keys, k = Key(r), PendingAt(k),
         urb'[k] = IF r.type = "S" THEN Submitted(urb[k], r, t) ELSE Completed(urb[k], r, t)
  PROVE  PendingAt(k)'
<1>0. PICK n : n = Len(capture) + 1
  OBVIOUS
<1>1. /\ n \in Nat /\ n > 0 /\ DOMAIN capture = 1..n - 1 /\ DOMAIN capture' = 1..n
      /\ \A j \in 1..n - 1 : capture'[j] = capture[j]
      /\ capture'[n].rec = r
  BY <1>0, Longer DEF TypeInv
<1>2. PICK M : M = Mine(k)
  OBVIOUS
<1>3. /\ M \subseteq 1..n - 1 /\ Mine(k)' = M \cup {n} /\ n \notin M
      /\ \A j \in M : /\ Submit(j)' <=> Submit(j)
                      /\ SameUrb(j, n)' <=> capture[j].rec.urb = r.urb
                      /\ SameUrb(n, j)' <=> capture[j].rec.urb = r.urb
      /\ \A i, j \in M : SameUrb(i, j)' <=> SameUrb(i, j)
      /\ SameUrb(n, n)' /\ (Submit(n)' <=> r.type = "S")
  <2>1. ASSUME NEW j \in 1..n - 1
        PROVE  (Is(j, k)' <=> Is(j, k)) /\ (Submit(j)' <=> Submit(j))
    BY <1>1 DEF Is, Submit
  <2>2. Is(n, k)' /\ (Submit(n)' <=> r.type = "S") /\ SameUrb(n, n)'
    BY <1>1 DEF Is, Submit, SameUrb
  <2>3. ASSUME NEW i \in 1..n - 1, NEW j \in 1..n - 1
        PROVE  SameUrb(i, j)' <=> SameUrb(i, j)
    BY <1>1 DEF SameUrb
  <2>4. M = {j \in 1..n - 1 : Is(j, k)} /\ Mine(k)' = {j \in 1..n : Is(j, k)'}
    BY <1>1, <1>2 DEF Mine
  <2>5. ASSUME NEW j \in M
        PROVE  /\ SameUrb(j, n)' <=> capture[j].rec.urb = r.urb
               /\ SameUrb(n, j)' <=> capture[j].rec.urb = r.urb
    BY <1>1, <2>4 DEF SameUrb, Is
  <2>6. /\ n \notin 1..n - 1
        /\ \A j : j \in 1..n <=> j \in 1..n - 1 \/ j = n
    BY <1>1
  <2>7. M \subseteq 1..n - 1 /\ Mine(k)' = M \cup {n} /\ n \notin M
    BY <2>1, <2>2, <2>4, <2>6
  <2> QED BY <2>1, <2>2, <2>3, <2>5, <2>7
<1>4. ASSUME NEW S \in SUBSET M, NEW j
      PROVE  Latest(j, S)' <=> Latest(j, S)
  BY <1>3 DEF Latest
<1>5. \A j \in M : Latest(j, M \cup {n})' <=> Latest(j, M) /\ capture[j].rec.urb # r.urb
  <2> TAKE j \in M
  <2>1. ~(n <= j)
    BY <1>1, <1>3
  <2> QED BY <1>3, <2>1 DEF Latest
<1>6. Latest(n, M \cup {n})'
  <2>1. \A m \in M \cup {n} : m <= n
    BY <1>1, <1>3
  <2> QED BY <2>1 DEF Latest
<1>7. PICK P : P = PendingNow(k)
  OBVIOUS
<1>8. /\ P = {m \in M : Submit(m) /\ Latest(m, M)}
      /\ PendingNow(k)' = {m \in P : capture[m].rec.urb # r.urb}
                            \cup (IF r.type = "S" THEN {n} ELSE {})
  <2>1. /\ PendingNow(k)' = {m \in M \cup {n} : Submit(m)' /\ Latest(m, M \cup {n})'}
        /\ P = {m \in M : Submit(m) /\ Latest(m, M)}
    BY <1>2, <1>3, <1>7 DEF PendingNow
  <2> QED BY <1>3, <1>5, <1>6, <2>1
<1> DEFINE urbs == {capture[j].rec.urb : j \in PendingNow(k)}
<1>8a. urbs' = (urbs \ {r.urb}) \cup (IF r.type = "S" THEN {r.urb} ELSE {})
  <2>1. PICK Q : Q = PendingNow(k)'
    OBVIOUS
  <2>2. urbs' = {capture'[j].rec.urb : j \in Q} /\ urbs = {capture[j].rec.urb : j \in P}
    BY <1>7, <2>1
  <2>3. \A j \in P : capture'[j] = capture[j]
    BY <1>1, <1>3, <1>8
  <2>4. capture'[n].rec.urb = r.urb
    BY <1>1
  <2>5. Q = {m \in P : capture[m].rec.urb # r.urb} \cup (IF r.type = "S" THEN {n} ELSE {})
    BY <1>8, <2>1
  <2>6. \A u : u \in urbs' <=> \E j \in Q : u = capture'[j].rec.urb
    BY <2>2
  <2>7. \A u : u \in urbs <=> \E j \in P : u = capture[j].rec.urb
    BY <2>2
  <2> HIDE DEF urbs
  <2>8. ASSUME NEW u
        PROVE  u \in urbs' <=> (u \in urbs /\ u # r.urb) \/ (r.type = "S" /\ u = r.urb)
    <3>1. u \in urbs' <=> \E j \in Q : u = capture'[j].rec.urb
      BY <2>6
    <3>2. u \in urbs <=> \E j \in P : u = capture[j].rec.urb
      BY <2>7
    <3>3. ASSUME NEW j \in Q, u = capture'[j].rec.urb
          PROVE  (u \in urbs /\ u # r.urb) \/ (r.type = "S" /\ u = r.urb)
      <4>1. CASE j \in P /\ capture[j].rec.urb # r.urb
        BY <2>3, <3>2, <3>3, <4>1
      <4>2. CASE r.type = "S" /\ j = n
        BY <2>4, <3>3, <4>2
      <4> QED BY <2>5, <3>3, <4>1, <4>2
    <3>4. ASSUME NEW j \in P, u = capture[j].rec.urb, u # r.urb
          PROVE  \E i \in Q : u = capture'[i].rec.urb
      <4>1. j \in Q
        BY <2>5, <3>4
      <4> QED BY <2>3, <3>4, <4>1
    <3>5. ASSUME r.type = "S", u = r.urb
          PROVE  \E i \in Q : u = capture'[i].rec.urb
      <4>1. n \in Q
        BY <2>5, <3>5
      <4> QED BY <2>4, <3>5, <4>1
    <3> QED BY <3>1, <3>2, <3>3, <3>4, <3>5
  <2>9. urbs' \subseteq (urbs \ {r.urb}) \cup (IF r.type = "S" THEN {r.urb} ELSE {})
    BY <2>8
  <2>10. (urbs \ {r.urb}) \cup (IF r.type = "S" THEN {r.urb} ELSE {}) \subseteq urbs'
    BY <2>8
  <2> QED BY <2>9, <2>10
<1>9. urb[k] \in UrbStatsType /\ urb[k].pending = urbs /\ urb[k].orphans = Cardinality(Orphaned(k))
      /\ urb[k].orphans \in Nat
  BY DEF TypeInv, TypeOK, PendingAt, UrbStatsType
<1>10. /\ urb'[k].pending = (urb[k].pending \ {r.urb}) \cup (IF r.type = "S" THEN {r.urb} ELSE {})
       /\ urb'[k].orphans = IF r.type # "S" /\ r.urb \notin urb[k].pending
                            THEN urb[k].orphans + 1 ELSE urb[k].orphans
  <2>1. CASE r.type = "S"
    BY <1>9, <2>1 DEF Submitted, UrbStatsType
  <2>2. CASE r.type # "S"
    BY <1>9, <2>2 DEF Completed, UrbStatsType
  <2> QED BY <2>1, <2>2
<1>11. /\ {x \in M \cup {n} : x < n} = M
       /\ \A j \in M : {x \in M \cup {n} : x < j} = {x \in M : x < j}
  <2>1. ~(n < n) /\ \A j \in M : j < n /\ ~(n < j) /\ j \in Nat
    BY <1>1, <1>3
  <2> QED BY <2>1
<1> DEFINE fed(j, S) == \E m \in S : m < j /\ Submit(m) /\ SameUrb(m, j) /\ Latest(m, {x \in S : x < j})
<1>12. fed(n, M \cup {n})' <=> r.urb \in urbs
  <2>1. ~(n < n) /\ \A m \in M : m < n
    BY <1>1, <1>3
  <2>2. fed(n, M \cup {n})' <=>
          \E m \in M : Submit(m) /\ capture[m].rec.urb = r.urb /\ Latest(m, M)
    BY <1>3, <1>4, <1>11, <2>1
  <2>3. r.urb \in urbs <=> \E m \in P : r.urb = capture[m].rec.urb
    BY <1>7
  <2> QED BY <1>8, <2>2, <2>3
<1>13. \A j \in M : fed(j, M \cup {n})' <=> fed(j, M)
  <2> TAKE j \in M
  <2>1. ~(n < j)
    BY <1>1, <1>3
  <2>2. {x \in M : x < j} \in SUBSET M
    OBVIOUS
  <2>3. \A m : Latest(m, {x \in M : x < j})' <=> Latest(m, {x \in M : x < j})
    BY <1>4, <2>2
  <2> QED BY <1>3, <1>11, <2>1, <2>3
<1> HIDE DEF urbs
<1>14. Orphaned(k)' = Orphaned(k) \cup (IF r.type # "S" /\ r.urb \notin urbs THEN {n} ELSE {})
  <2>1. /\ Orphaned(k)' = {j \in M \cup {n} : ~Submit(j)' /\ ~fed(j, M \cup {n})'}
        /\ Orphaned(k) = {j \in M : ~Submit(j) /\ ~fed(j, M)}
    BY <1>2, <1>3 DEF Orphaned
  <2> HIDE DEF fed
  <2> QED BY <1>3, <1>12, <1>13, <2>1
<1>15. IsFiniteSet(Orphaned(k)) /\ n \notin Orphaned(k)
  <2>1. Orphaned(k) \subseteq M
    BY <1>2 DEF Orphaned
  <2>2. IsFiniteSet(1..n - 1)
    BY <1>1, FS_Interval
  <2>3. Orphaned(k) \subseteq 1..n - 1
    BY <1>3, <2>1
  <2> QED BY <1>3, <2>1, <2>2, <2>3, FS_Subset
<1>16. Cardinality(Orphaned(k)') = IF r.type # "S" /\ r.urb \notin urbs
                                   THEN Cardinality(Orphaned(k)) + 1 ELSE Cardinality(Orphaned(k))
  BY <1>14, <1>15, FS_AddElement
<1>17. urb'[k].pending = urbs' /\ urb'[k].orphans = Cardinality(Orphaned(k)')
  BY <1>8a, <1>9, <1>10, <1>16
<1> QED BY <1>17 DEF PendingAt, urbs

(* So one record keeps the books of every endpoint.                        *)
LEMMA PendingStep ==
  ASSUME TypeInv, \A k \in Keys : PendingAt(k),
         NEW r \in Records, NEW step \in Steps, Record(r, Now + step)
  PROVE  \A k \in Keys : PendingAt(k)'
<1> TAKE k \in Keys
<1>1. PICK t : t = Now + step
  OBVIOUS
<1>2. r \in RecordType /\ t \in Nat /\ Key(r) \in Keys
  BY <1>1, CaptureAssumption, TimeType DEF TypeInv, Key, Keys, RecordType
<1>3. /\ capture' = Append(capture, [time |-> t, rec |-> r])
      /\ urb' = [urb EXCEPT ![Key(r)] = IF r.type = "S" THEN Submitted(@, r, t) ELSE Completed(@, r, t)]
  BY <1>1 DEF Record, UrbRow, UrbStats
<1>4. PendingAt(k) /\ urb \in [Keys -> UrbStatsType]
  BY DEF TypeInv, TypeOK
<1>5. CASE k = Key(r)
  <2>1. urb'[k] = IF r.type = "S" THEN Submitted(urb[k], r, t) ELSE Completed(urb[k], r, t)
    BY <1>3, <1>4, <1>5
  <2> QED BY <1>2, <1>3, <1>4, <1>5, <2>1, PendingOwn
<1>6. CASE k # Key(r)
  <2>1. urb'[k] = urb[k]
    BY <1>3, <1>4, <1>6
  <2> QED BY <1>2, <1>3, <1>4, <1>6, <2>1, PendingOther DEF TypeInv
<1> QED BY <1>5, <1>6

(* In captures of any length, whatever URB identifiers are reused, lost or *)
(* completed twice, the pending set is the URBs whose latest record there  *)
(* is a submit, and the orphans are the completions that no submit         *)
(* preceded (analyze_usbcan_urb.py:147-160).                               *)
THEOREM PendingTold == Spec => []PendingIsReal
<1> DEFINE PendingInv == \A k \in Keys : PendingAt(k)
           Inv == TypeInv /\ PendingInv
<1>1. Init => Inv
  <2> SUFFICES ASSUME Init PROVE PendingInv
    BY InitTyped
  <2>1. ASSUME NEW k \in Keys PROVE PendingAt(k)
    <3>1. capture = <<>> /\ urb[k] = NewEndpoint
      BY DEF Init, UrbInit
    <3>2. Mine(k) = {}
      BY <3>1 DEF Mine
    <3>3. PendingNow(k) = {} /\ Orphaned(k) = {}
      BY <3>2 DEF PendingNow, Orphaned
    <3> QED BY <3>1, <3>3, FS_EmptySet DEF PendingAt, NewEndpoint
  <2> QED BY <2>1
<1>2. Inv /\ [Next]_vars => Inv'
  <2> SUFFICES ASSUME Inv, [Next]_vars PROVE Inv'
    OBVIOUS
  <2>1. ASSUME NEW r \in Records, NEW step \in Steps, Record(r, Now + step) PROVE Inv'
    BY <2>1, RecordTyped, PendingStep
  <2>2. CASE EchoDecodes \/ GsDecodes \/ UNCHANGED vars
    <3>1. UNCHANGED <<urb, capture>>
      BY <2>2 DEF EchoDecodes, GsDecodes, vars, urbVars
    <3>2. TypeInv'
      <4>1. CASE EchoDecodes
        BY <4>1, EchoDecodesTyped
      <4>2. CASE GsDecodes \/ UNCHANGED vars
        <5>1. UNCHANGED <<urb, echo, row, rest, capture>>
          BY <4>2 DEF GsDecodes, vars, urbVars, echoVars
        <5> QED BY <5>1 DEF TypeInv, TypeOK, CaptureType
      <4> QED BY <2>2, <4>1, <4>2
    <3>3. \A k : PendingAt(k)' <=> PendingAt(k)
      BY <3>1 DEF PendingAt, PendingNow, Orphaned, Mine, Latest, Is, Submit, SameUrb
    <3> QED BY <3>2, <3>3
  <2> QED BY <2>1, <2>2 DEF Next
<1>3. Inv => PendingIsReal
  BY DEF PendingIsReal, PendingAt, PendingNow, Orphaned, Mine, Latest
<1> QED BY <1>1, <1>2, <1>3, PTL DEF Spec
-----------------------------------------------------------------------------
(* Some numbers have a least one: induction where it is needed.            *)
LEMMA LeastNat ==
  ASSUME NEW T \in SUBSET Nat, T # {}
  PROVE  \E x \in T : \A y \in T : x <= y
<1> DEFINE R == OpToRel(<, Nat)
<1>1. \A x, y \in Nat : x < y => <<x, y>> \in R
  BY DEF OpToRel
<1>2. IsWellFoundedOn(R, Nat)
  BY NatLessThanWellFounded
<1> HIDE DEF R
<1>3. PICK x \in T : \A y \in T : ~(<<y, x>> \in R)
  BY <1>2, WFMin
<1>4. x \in Nat /\ \A y \in T : y \in Nat /\ ~(y < x)
  BY <1>1, <1>3
<1>5. \A y \in T : x <= y
  BY <1>4
<1> QED BY <1>5

(* The endpoints seen are listed once each; and a device's IN records are  *)
(* those of its IN endpoint, if there is only one such address.            *)
SeenInv ==
  /\ seen \in Seq(Keys)
  /\ \A i, j \in DOMAIN seen : seen[i] = seen[j] => i = j
  /\ \A k \in Keys : line[k].records > 0 <=> \E j \in DOMAIN seen : seen[j] = k
OnlyIn(e) == e \in Endpoints /\ \A x \in Endpoints : In(x) <=> x = e
InRecords == \A e \in Endpoints, d \in Devices :
               OnlyIn(e) => echo[d].in_records = urb[<<d, e>>].records

(* A record lists its endpoint, or finds it listed.                        *)
LEMMA RecordSeen ==
  ASSUME TypeInv, LineTyped, SeenInv, NEW r \in Records, NEW step \in Steps, Record(r, Now + step)
  PROVE  SeenInv'
<1>1. PICK t : t = Now + step
  OBVIOUS
<1>2. PICK key : key = Key(r)
  OBVIOUS
<1>3. r \in RecordType /\ t \in Nat /\ key \in Keys
  BY <1>1, <1>2, CaptureAssumption, TimeType DEF TypeInv, Key, Keys, RecordType
<1>4. /\ line' = [line EXCEPT ![key] = Counted(@, r, t)]
      /\ seen' = IF \E j \in DOMAIN seen : seen[j] = key THEN seen ELSE Append(seen, key)
  BY <1>1, <1>2 DEF Record, TimelineRow
<1>5. line'[key].records > 0 /\ \A k \in Keys : k # key => line'[k] = line[k]
  <2>1. line[key] \in LineType /\ line \in [Keys -> LineType]
    BY <1>3 DEF LineTyped
  <2>2. line[key].records \in Nat /\ line'[key].records = line[key].records + 1
    BY <1>3, <1>4, <2>1 DEF Counted, LineType
  <2> QED BY <1>3, <1>4, <2>1, <2>2
<1>6. CASE \E j \in DOMAIN seen : seen[j] = key
  <2>1. seen' = seen
    BY <1>4, <1>6
  <2> QED BY <1>5, <1>6, <2>1 DEF SeenInv
<1>7. CASE ~ \E j \in DOMAIN seen : seen[j] = key
  <2>0. PICK n : n = Len(seen) + 1
    OBVIOUS
  <2>1. seen' = Append(seen, key) /\ seen \in Seq(Keys)
    BY <1>4, <1>7 DEF SeenInv
  <2>2. /\ Len(seen) \in Nat /\ DOMAIN seen = 1..Len(seen)
        /\ seen' \in Seq(Keys) /\ Len(seen') = n /\ DOMAIN seen' = 1..Len(seen')
        /\ \A i \in 1..Len(seen) : seen'[i] = seen[i]
        /\ seen'[n] = key
    BY <1>3, <2>0, <2>1, AppendProperties, LenProperties
  <2>3. \A j : j \in DOMAIN seen' <=> j \in DOMAIN seen \/ j = n
    BY <2>0, <2>2
  <2>4. \A i \in DOMAIN seen : seen'[i] = seen[i] /\ seen[i] # key
    BY <1>7, <2>2
  <2>5. \A i, j \in DOMAIN seen' : seen'[i] = seen'[j] => i = j
    BY <2>2, <2>3, <2>4 DEF SeenInv
  <2>6. \A k \in Keys : line'[k].records > 0 <=> \E j \in DOMAIN seen' : seen'[j] = k
    <3> TAKE k \in Keys
    <3>1. CASE k = key
      BY <1>5, <2>2, <2>3, <3>1
    <3>2. CASE k # key
      <4>1. line'[k].records > 0 <=> \E j \in DOMAIN seen : seen[j] = k
        BY <1>5, <3>2 DEF SeenInv
      <4> QED BY <2>2, <2>3, <2>4, <3>2, <4>1
    <3> QED BY <3>1, <3>2
  <2> QED BY <2>2, <2>5, <2>6 DEF SeenInv
<1> QED BY <1>6, <1>7

(* ... and is counted for its device as for its endpoint, if it is an IN.  *)
LEMMA RecordInRecords ==
  ASSUME TypeInv, InRecords, NEW r \in Records, NEW step \in Steps, Record(r, Now + step)
  PROVE  InRecords'
<1>1. PICK t : t = Now + step
  OBVIOUS
<1>2. PICK key : key = Key(r)
  OBVIOUS
<1>3. r \in RecordType /\ t \in Nat /\ key \in Keys /\ key = <<r.dev, r.ep>>
      /\ r.dev \in Devices /\ r.ep \in Endpoints
  BY <1>1, <1>2, CaptureAssumption, TimeType DEF TypeInv, Key, Keys, RecordType
<1>4. /\ urb' = [urb EXCEPT ![key] = IF r.type = "S" THEN Submitted(@, r, t) ELSE Completed(@, r, t)]
      /\ echo' = [echo EXCEPT ![r.dev].in_records = IF In(r.ep) THEN @ + 1 ELSE @]
  BY <1>1, <1>2 DEF Record, UrbRow, UrbStats, EchoRow
<1>5. /\ urb'[key].records = urb[key].records + 1
      /\ \A k \in Keys : k # key => urb'[k] = urb[k]
  <2>1. urb[key] \in UrbStatsType /\ urb \in [Keys -> UrbStatsType]
    BY <1>3 DEF TypeInv, TypeOK
  <2>2. CASE r.type = "S"
    <3>1. urb'[key] = Submitted(urb[key], r, t)
      BY <1>3, <1>4, <2>1, <2>2
    <3> QED BY <1>3, <1>4, <2>1, <3>1 DEF Submitted, UrbStatsType
  <2>3. CASE r.type # "S"
    <3>1. urb'[key] = Completed(urb[key], r, t)
      BY <1>3, <1>4, <2>1, <2>3
    <3> QED BY <1>3, <1>4, <2>1, <3>1 DEF Completed, UrbStatsType
  <2> QED BY <2>2, <2>3
<1>6. /\ echo'[r.dev].in_records = IF In(r.ep) THEN echo[r.dev].in_records + 1
                                   ELSE echo[r.dev].in_records
      /\ \A d \in Devices : d # r.dev => echo'[d] = echo[d]
  <2>1. echo[r.dev] \in EchoStatsType /\ echo \in [Devices -> EchoStatsType]
    BY <1>3 DEF TypeInv, TypeOK
  <2> QED BY <1>3, <1>4, <2>1 DEF EchoStatsType
<1> SUFFICES ASSUME NEW e \in Endpoints, NEW d \in Devices, OnlyIn(e)
             PROVE  echo'[d].in_records = urb'[<<d, e>>].records
  BY DEF InRecords, OnlyIn
<1>7. echo[d].in_records = urb[<<d, e>>].records /\ (In(r.ep) <=> r.ep = e) /\ <<d, e>> \in Keys
  BY <1>3 DEF InRecords, OnlyIn, Keys
<1>8. CASE d = r.dev
  <2>1. CASE r.ep = e
    BY <1>3, <1>5, <1>6, <1>7, <1>8, <2>1
  <2>2. CASE r.ep # e
    <3>1. <<d, e>> # key
      BY <1>3, <2>2
    <3> QED BY <1>5, <1>6, <1>7, <1>8, <2>2, <3>1
  <2> QED BY <2>1, <2>2
<1>9. CASE d # r.dev
  <2>1. <<d, e>> # key
    BY <1>3, <1>9
  <2> QED BY <1>5, <1>6, <1>7, <1>9, <2>1
<1> QED BY <1>8, <1>9

(* The frames of a payload are no records.                                 *)
LEMMA FramesInRecords ==
  ASSUME TypeInv, EchoDecodes, NEW d \in Devices
  PROVE  echo'[d].in_records = echo[d].in_records
<1>1. row.dev \in Devices /\ Head(rest) \in FrameType /\ echo[row.dev] \in EchoStatsType
  BY FrameAtHand DEF RowType
<1>2. echo \in [Devices -> EchoStatsType]
  BY DEF TypeInv, TypeOK
<1>3. CASE echo' = echo
  BY <1>3
<1>4. CASE echo' = [echo EXCEPT ![row.dev] = EchoFrom(@, Head(rest))]
  <2>1. EchoFrom(echo[row.dev], Head(rest)).in_records = echo[row.dev].in_records
    BY <1>1 DEF EchoFrom, EchoStatsType
  <2> QED BY <1>1, <1>2, <1>4, <2>1
<1>5. CASE echo' = [echo EXCEPT ![row.dev] = RequestFrom(@, Head(rest))]
  <2>1. RequestFrom(echo[row.dev], Head(rest)).in_records = echo[row.dev].in_records
    BY <1>1 DEF RequestFrom, EchoStatsType
  <2> QED BY <1>1, <1>2, <1>5, <2>1
<1> QED BY <1>3, <1>4, <1>5, FrameCounted

(* The inductive invariant of the three choices of a target.               *)
TargetsInv == TypeInv /\ LineTyped /\ SameEverywhere /\ SeenInv /\ InRecords

(* The endpoints the programs choose among are those with records,         *)
(* finitely many and all listed.                                           *)
LEMMA BusiestSeen ==
  ASSUME TargetsInv
  PROVE  /\ IsFiniteSet(Busiest)
         /\ \A k \in Keys : urb[k].records \in Nat /\ line[k].records = urb[k].records
         /\ \A j \in DOMAIN seen : seen[j] \in Keys /\ urb[seen[j]].records > 0
         /\ \A k \in Keys : urb[k].records > 0 => \E j \in DOMAIN seen : seen[j] = k
         /\ DOMAIN seen \subseteq Nat
<1>1. \A k \in Keys : urb[k].records \in Nat /\ line[k].records = urb[k].records
  BY DEF TargetsInv, TypeInv, TypeOK, UrbStatsType, SameEverywhere, SameNumbers
<1>2. Len(seen) \in Nat /\ DOMAIN seen = 1..Len(seen) /\ \A j \in DOMAIN seen : seen[j] \in Keys
  BY LenProperties, ElementOfSeq DEF TargetsInv, SeenInv
<1>3. /\ \A j \in DOMAIN seen : seen[j] \in Keys /\ urb[seen[j]].records > 0
      /\ \A k \in Keys : urb[k].records > 0 => \E j \in DOMAIN seen : seen[j] = k
  BY <1>1, <1>2 DEF TargetsInv, SeenInv
<1>4. IsFiniteSet(Busiest)
  <2>1. PICK D : D = DOMAIN seen
    OBVIOUS
  <2> DEFINE T == {seen[j] : j \in D}
             f == [j \in D |-> seen[j]]
  <2>2. f \in Surjection(D, T)
    BY DEF Surjection
  <2>3. IsFiniteSet(D)
    BY <1>2, <2>1, FS_Interval
  <2>4. Busiest \subseteq T
    BY <1>3, <2>1 DEF Busiest
  <2> HIDE DEF T, f
  <2>5. IsFiniteSet(T)
    BY <2>2, <2>3, FS_Surjection
  <2> QED BY <2>4, <2>5, FS_Subset
<1> QED BY <1>1, <1>2, <1>3, <1>4

(* One busiest IN endpoint: the first of it in the order of the keys, and  *)
(* the first of it in the order of appearance, is itself.                  *)
LEMMA SameTarget ==
  ASSUME TargetsInv, Cardinality(Busiest) <= 1
  PROVE  UrbTarget = TimelineTarget
<1>1. Busiest = {} \/ \E b : Busiest = {b}
  <2>1. Cardinality(Busiest) \in Nat /\ IsFiniteSet(Busiest)
    BY BusiestSeen, FS_CardinalityType
  <2>2. Cardinality(Busiest) = 0 \/ Cardinality(Busiest) = 1
    BY <2>1
  <2> QED BY <2>1, <2>2, FS_EmptySet, FS_Singleton
<1>2. UrbTarget = {k \in Busiest : \A other \in Busiest : ~Before(other, k)}
  <2> DEFINE ins == {k \in SeenUrb : In(k[2])}
             top == {k \in ins : \A other \in ins : urb[other].records <= urb[k].records}
  <2>1. top = Busiest
    <3>1. ASSUME NEW k \in top PROVE k \in Busiest
      <4>1. k \in Keys /\ In(k[2]) /\ urb[k].records > 0
        BY DEF SeenUrb
      <4>2. ASSUME NEW other \in Keys, In(other[2]) PROVE urb[other].records <= urb[k].records
        <5>1. CASE urb[other].records > 0
          BY <4>2, <5>1 DEF SeenUrb
        <5>2. CASE ~(urb[other].records > 0)
          BY <4>1, <5>2, BusiestSeen
        <5> QED BY <5>1, <5>2
      <4> QED BY <4>1, <4>2 DEF Busiest
    <3>2. ASSUME NEW k \in Busiest PROVE k \in top
      BY DEF Busiest, SeenUrb
    <3> QED BY <3>1, <3>2
  <2> HIDE DEF top
  <2>2. UrbTarget = {k \in top : \A other \in top : ~Before(other, k)}
    BY DEF UrbTarget, top
  <2> QED BY <2>1, <2>2
<1>3. PICK Tm : Tm = {j \in DOMAIN seen : seen[j] \in Busiest}
  OBVIOUS
<1>4. TimelineTarget = {seen[j] : j \in {m \in Tm : \A other \in Tm : m <= other}}
  <2> DEFINE ins == {j \in DOMAIN seen : In(seen[j][2])}
             top == {j \in ins : \A other \in ins : line[seen[other]].records <= line[seen[j]].records}
  <2>1. ASSUME NEW j \in top PROVE j \in Tm
    <3>1. seen[j] \in Keys /\ In(seen[j][2]) /\ urb[seen[j]].records > 0 /\ j \in DOMAIN seen
      BY BusiestSeen
    <3>2. ASSUME NEW other \in Keys, In(other[2])
          PROVE  urb[other].records <= urb[seen[j]].records
      <4>1. CASE urb[other].records > 0
        <5>1. PICK i \in DOMAIN seen : seen[i] = other
          BY <4>1, BusiestSeen
        <5>2. i \in ins
          BY <3>2, <5>1
        <5>3. line[seen[i]].records <= line[seen[j]].records
          BY <5>2
        <5> QED BY <3>1, <5>1, <5>3, BusiestSeen
      <4>2. CASE ~(urb[other].records > 0)
        BY <3>1, <4>2, BusiestSeen
      <4> QED BY <4>1, <4>2
    <3> QED BY <1>3, <3>1, <3>2 DEF Busiest
  <2>2. ASSUME NEW j \in Tm PROVE j \in top
    <3>1. seen[j] \in Busiest /\ j \in DOMAIN seen /\ seen[j] \in Keys
      BY <1>3, BusiestSeen
    <3>2. j \in ins
      BY <3>1 DEF Busiest
    <3>3. ASSUME NEW i \in ins PROVE line[seen[i]].records <= line[seen[j]].records
      BY <3>1, BusiestSeen DEF Busiest
    <3> QED BY <3>2, <3>3
  <2>3. top = Tm
    BY <2>1, <2>2
  <2> HIDE DEF top
  <2>4. TimelineTarget = {seen[j] : j \in {m \in top : \A other \in top : m <= other}}
    BY DEF TimelineTarget, top
  <2> QED BY <2>3, <2>4
<1>5. CASE Busiest = {}
  <2>1. Tm = {}
    BY <1>3, <1>5
  <2> QED BY <1>2, <1>4, <1>5, <2>1
<1>6. ASSUME NEW b, Busiest = {b} PROVE UrbTarget = TimelineTarget
  <2>1. b \in Keys /\ urb[b].records > 0
    BY <1>6 DEF Busiest
  <2>2. ~Before(b, b)
    <3>1. b[1] \in Devices /\ b[2] \in Endpoints
      BY <2>1 DEF Keys
    <3>2. b[1] \in Nat /\ b[2] \in 0..255
      BY <3>1, RecordsAssumption
    <3> QED BY <3>2 DEF Before
  <2>3. PICK i \in DOMAIN seen : seen[i] = b
    BY <2>1, BusiestSeen
  <2>4. Tm = {i}
    BY <1>3, <1>6, <2>3 DEF TargetsInv, SeenInv
  <2>5. i <= i
    BY BusiestSeen
  <2>6. TimelineTarget = {b}
    <3>1. {m \in Tm : \A other \in Tm : m <= other} = {i}
      BY <2>4, <2>5
    <3> QED BY <1>4, <2>3, <3>1
  <2>7. UrbTarget = {b}
    BY <1>2, <1>6, <2>2
  <2> QED BY <2>6, <2>7
<1> QED BY <1>1, <1>5, <1>6

(* ... and the device with the most IN records is the one it belongs to.   *)
LEMMA SameDevice ==
  ASSUME TargetsInv, Cardinality(Busiest) = 1, Cardinality({e \in Endpoints : In(e)}) = 1
  PROVE  EchoTarget([j \in DOMAIN seen |-> seen[j][1]]) = {k[1] : k \in Busiest}
<1>1. PICK b : Busiest = {b}
  BY BusiestSeen, FS_Singleton
<1>2. PICK e : {x \in Endpoints : In(x)} = {e}
  <2>1. IsFiniteSet(0..255)
    <3>1. 0 \in Int /\ 255 \in Int
      OBVIOUS
    <3> QED BY <3>1, FS_Interval
  <2>2. {x \in Endpoints : In(x)} \subseteq 0..255
    BY RecordsAssumption
  <2>3. IsFiniteSet({x \in Endpoints : In(x)})
    BY <2>1, <2>2, FS_Subset
  <2> QED BY <2>3, FS_Singleton
<1>3. OnlyIn(e) /\ e \in Endpoints /\ In(e)
  BY <1>2 DEF OnlyIn
<1>4. b \in Keys /\ b = <<b[1], e>> /\ b[1] \in Devices /\ urb[b].records > 0
      /\ \A k \in Keys : In(k[2]) => urb[k].records <= urb[b].records
  <2>1. b \in Busiest
    BY <1>1
  <2>2. b \in Keys /\ In(b[2]) /\ urb[b].records > 0
        /\ \A k \in Keys : In(k[2]) => urb[k].records <= urb[b].records
    BY <2>1 DEF Busiest
  <2>3. b[2] \in Endpoints /\ b = <<b[1], b[2]>> /\ b[1] \in Devices
    BY <2>2 DEF Keys
  <2>4. b[2] = e
    BY <1>2, <2>2, <2>3
  <2> QED BY <2>2, <2>3, <2>4
<1>5. ASSUME NEW d \in Devices
      PROVE  /\ echo[d].in_records = urb[<<d, e>>].records
             /\ <<d, e>> \in Keys
             /\ urb[<<d, e>>].records \in Nat
             /\ echo[d].in_records <= echo[b[1]].in_records
             /\ echo[b[1]].in_records <= echo[d].in_records => d = b[1]
  <2>1. <<d, e>> \in Keys /\ <<d, e>>[2] = e
    BY <1>3 DEF Keys
  <2>2. echo[d].in_records = urb[<<d, e>>].records /\ echo[b[1]].in_records = urb[b].records
    BY <1>3, <1>4 DEF TargetsInv, InRecords
  <2>3. urb[<<d, e>>].records \in Nat /\ urb[b].records \in Nat
    BY <1>4, <2>1, BusiestSeen
  <2>4. urb[<<d, e>>].records <= urb[b].records
    BY <1>3, <1>4, <2>1
  <2>5. ASSUME urb[b].records <= urb[<<d, e>>].records PROVE d = b[1]
    <3>1. urb[<<d, e>>].records = urb[b].records
      BY <2>3, <2>4, <2>5
    <3>2. <<d, e>> \in Busiest
      BY <1>3, <1>4, <2>1, <3>1 DEF Busiest
    <3> QED BY <1>1, <1>4, <3>2
  <2> QED BY <2>1, <2>2, <2>3, <2>4, <2>5
<1>6. PICK order : order = [j \in DOMAIN seen |-> seen[j][1]]
  OBVIOUS
<1>7. DOMAIN order = DOMAIN seen /\ \A j \in DOMAIN seen : order[j] = seen[j][1] /\ order[j] \in Devices
  <2>1. \A j \in DOMAIN seen : seen[j] \in Keys
    BY BusiestSeen
  <2> QED BY <1>6, <2>1 DEF Keys
<1>8. PICK top : top = {j \in DOMAIN order : \A other \in DOMAIN order :
                          echo[order[other]].in_records <= echo[order[j]].in_records}
  OBVIOUS
<1>9. PICK i \in DOMAIN order : order[i] = b[1]
  BY <1>4, <1>7, BusiestSeen
<1>10. i \in top
  BY <1>5, <1>7, <1>8, <1>9
<1>11. \A j \in top : order[j] = b[1]
  <2> TAKE j \in top
  <2>1. echo[order[i]].in_records <= echo[order[j]].in_records /\ order[j] \in Devices
    BY <1>7, <1>8, <1>9
  <2> QED BY <1>5, <1>9, <2>1
<1>12. top \in SUBSET Nat /\ top # {}
  BY <1>7, <1>8, <1>10, BusiestSeen
<1>13. PICK x \in top : \A y \in top : x <= y
  BY <1>12, LeastNat
<1>14. EchoTarget(order) = {order[j] : j \in {m \in top : \A other \in top : m <= other}}
  BY <1>8 DEF EchoTarget
<1>15. EchoTarget(order) = {b[1]}
  BY <1>11, <1>13, <1>14
<1> QED BY <1>1, <1>6, <1>15

(* Unless two IN endpoints are equally busy, the URB report and the        *)
(* timeline choose the same endpoint, and the echo report its device, in   *)
(* captures of any length from any number of devices                       *)
(* (analyze_usbcan_urb.py:234, _timeline.py:126, _echo.py:148).            *)
THEOREM SameTargets == Spec => []TargetsAgree
<1>1. Init => TargetsInv
  <2> SUFFICES ASSUME Init PROVE TargetsInv
    OBVIOUS
  <2>1. NewLine \in LineType
    BY DEF NewLine, LineType, None
  <2>2. /\ urb = [k \in Keys |-> NewEndpoint] /\ line = [k \in Keys |-> NewLine]
        /\ echo = [d \in Devices |-> NewDevice] /\ seen = <<>>
    BY DEF Init, UrbInit, TimelineInit, EchoInit
  <2>3. LineTyped
    BY <2>1, <2>2 DEF LineTyped
  <2>4. SameEverywhere
    BY <2>2 DEF SameEverywhere, SameNumbers, NewLine, NewEndpoint
  <2>5. SeenInv
    <3>1. seen \in Seq(Keys) /\ DOMAIN seen = {}
      BY <2>2, EmptySeq
    <3>2. \A k \in Keys : ~(line[k].records > 0)
      BY <2>2 DEF NewLine
    <3> QED BY <3>1, <3>2 DEF SeenInv
  <2>6. InRecords
    BY <2>2 DEF InRecords, NewDevice, NewEndpoint, Keys
  <2> QED BY <2>3, <2>4, <2>5, <2>6, InitTyped DEF TargetsInv
<1>2. TargetsInv /\ [Next]_vars => TargetsInv'
  <2> SUFFICES ASSUME TargetsInv, [Next]_vars PROVE TargetsInv'
    OBVIOUS
  <2>1. ASSUME NEW r \in Records, NEW step \in Steps, Record(r, Now + step) PROVE TargetsInv'
    BY <2>1, RecordTyped, RecordCountsTheSame, RecordSeen, RecordInRecords DEF TargetsInv
  <2>2. CASE EchoDecodes
    <3>1. UNCHANGED <<urb, line, seen, capture>> /\ TypeInv
      BY <2>2 DEF EchoDecodes, urbVars, timelineVars, TargetsInv
    <3>2. TypeInv'
      BY <2>2, <3>1, EchoDecodesTyped
    <3>3. InRecords'
      BY <2>2, <3>1, FramesInRecords DEF TargetsInv, InRecords, OnlyIn
    <3> QED BY <3>1, <3>2, <3>3 DEF TargetsInv, LineTyped, SameEverywhere, SameNumbers, SeenInv
  <2>3. CASE GsDecodes \/ UNCHANGED vars
    <3>1. UNCHANGED <<urb, echo, row, rest, capture, line, seen>>
      BY <2>3 DEF GsDecodes, vars, urbVars, echoVars, timelineVars
    <3> QED BY <3>1 DEF TargetsInv, TypeInv, TypeOK, CaptureType, LineTyped, SameEverywhere,
                        SameNumbers, SeenInv, InRecords, OnlyIn
  <2> QED BY <2>1, <2>2, <2>3 DEF Next
<1>3. TargetsInv => TargetsAgree
  BY SameTarget, SameDevice DEF TargetsAgree, TargetsInv
<1> QED BY <1>1, <1>2, <1>3, PTL DEF Spec
-----------------------------------------------------------------------------
(* The error list, entry by entry: a failed completion, with the first     *)
(* later submit of its URB on its endpoint if there is one; and the errors *)
(* that wait for such a submit are those that have none.                   *)
ErrorType == [frame : Nat, time : Nat, key : Keys, urb : Urbs, resubmit : Int, delay : Int]
Later(j) == {m \in DOMAIN capture : m > j /\ Submit(m) /\ SameUrb(j, m)}
ErrorAt(e) ==
  /\ e.frame \in DOMAIN capture /\ Bad(e.frame)
  /\ e.time = capture[e.frame].time
  /\ e.key = Key(capture[e.frame].rec) /\ e.urb = capture[e.frame].rec.urb
  /\ e.resubmit = None => Later(e.frame) = {}
  /\ e.resubmit # None => /\ e.resubmit \in Later(e.frame)
                          /\ \A m \in Later(e.frame) : e.resubmit <= m
                          /\ e.delay = capture[e.resubmit].time - e.time
ListedInv ==
  /\ errors \in Seq(ErrorType)
  /\ \A j \in DOMAIN errors : ErrorAt(errors[j])
  /\ \A i, j \in DOMAIN errors : i < j => errors[i].frame < errors[j].frame
  /\ \A m \in DOMAIN capture : Bad(m) => \E j \in DOMAIN errors : errors[j].frame = m
Open(k, u) == {j \in DOMAIN errors : /\ errors[j].key = k /\ errors[j].urb = u
                                     /\ errors[j].resubmit = None}
WaitingInv ==
  /\ waiting \in [Keys -> [Urbs -> SUBSET Nat]]
  /\ \A k \in Keys, u \in Urbs : waiting[k][u] = Open(k, u)

(* One record more: the judgements of the earlier records stand, and it    *)
(* may be a later submit of any of them.                                   *)
LEMMA LaterGrows ==
  ASSUME CaptureType, NEW r \in RecordType, NEW t \in Nat,
         capture' = Append(capture, [time |-> t, rec |-> r]),
         NEW n, n = Len(capture) + 1
  PROVE  /\ n \in Nat /\ n > 0 /\ n \notin DOMAIN capture /\ DOMAIN capture' = DOMAIN capture \cup {n}
         /\ \A j \in DOMAIN capture : j \in Nat /\ j < n /\ capture'[j] = capture[j]
         /\ capture'[n] = [time |-> t, rec |-> r]
         /\ \A j \in DOMAIN capture : /\ Bad(j)' <=> Bad(j)
                                      /\ Good(j)' <=> Good(j)
                                      /\ capture[j] \in [time : Nat, rec : RecordType]
                                      /\ \A k : Is(j, k)' <=> Is(j, k)
         /\ Bad(n)' <=> r.type # "S" /\ r.status # 0
         /\ Good(n)' <=> r.type # "S" /\ r.status = 0
         /\ \A k : Is(n, k)' <=> k = Key(r)
         /\ \A j \in DOMAIN capture :
              Later(j)' = Later(j) \cup (IF /\ r.type = "S" /\ Key(capture[j].rec) = Key(r)
                                            /\ capture[j].rec.urb = r.urb
                                         THEN {n} ELSE {})
         /\ Later(n)' = {}
<1>1. /\ n \in Nat /\ n > 0 /\ DOMAIN capture = 1..n - 1 /\ DOMAIN capture' = 1..n
      /\ \A j \in 1..n - 1 : capture'[j] = capture[j] /\ capture[j] \in [time : Nat, rec : RecordType]
      /\ capture'[n] = [time |-> t, rec |-> r]
  BY Longer
<1>2. PICK D : D = DOMAIN capture
  OBVIOUS
<1>3. /\ DOMAIN capture' = D \cup {n} /\ n \notin D /\ ~(n > n)
      /\ \A j \in D : /\ j \in Nat /\ j < n /\ ~(j > n) /\ n > j
                      /\ capture'[j] = capture[j] /\ capture[j] \in [time : Nat, rec : RecordType]
  BY <1>1, <1>2
<1>4. capture'[n].rec = r
  BY <1>1
<1>5. ASSUME NEW j \in D
      PROVE  /\ Bad(j)' <=> Bad(j)
             /\ Good(j)' <=> Good(j)
             /\ Submit(j)' <=> Submit(j)
             /\ \A k : Is(j, k)' <=> Is(j, k)
  BY <1>3 DEF Bad, Good, Submit, Is
<1>6. /\ Bad(n)' <=> r.type # "S" /\ r.status # 0
      /\ Good(n)' <=> r.type # "S" /\ r.status = 0
      /\ Submit(n)' <=> r.type = "S"
      /\ \A k : Is(n, k)' <=> k = Key(r)
  BY <1>4 DEF Bad, Good, Submit, Is
<1>7. ASSUME NEW j \in D
      PROVE  Later(j)' = Later(j) \cup (IF /\ r.type = "S" /\ Key(capture[j].rec) = Key(r)
                                           /\ capture[j].rec.urb = r.urb
                                        THEN {n} ELSE {})
  <2>1. \A m \in D : SameUrb(j, m)' <=> SameUrb(j, m)
    BY <1>3 DEF SameUrb
  <2>2. SameUrb(j, n)' <=> Key(capture[j].rec) = Key(r) /\ capture[j].rec.urb = r.urb
    BY <1>3, <1>4 DEF SameUrb
  <2>3. /\ Later(j)' = {m \in D \cup {n} : m > j /\ Submit(m)' /\ SameUrb(j, m)'}
        /\ Later(j) = {m \in D : m > j /\ Submit(m) /\ SameUrb(j, m)}
    BY <1>2, <1>3 DEF Later
  <2> QED BY <1>3, <1>5, <1>6, <2>1, <2>2, <2>3
<1>8. Later(n)' = {}
  BY <1>3 DEF Later
<1> QED BY <1>1, <1>2, <1>3, <1>5, <1>6, <1>7, <1>8

(* An entry stands when the record is no submit of its URB, or it had one. *)
LEMMA ErrorKept ==
  ASSUME CaptureType, NEW r \in RecordType, NEW t \in Nat,
         capture' = Append(capture, [time |-> t, rec |-> r]),
         NEW e \in ErrorType, ErrorAt(e),
         e.resubmit # None \/ ~(r.type = "S" /\ e.key = Key(r) /\ e.urb = r.urb)
  PROVE  ErrorAt(e)'
<1>1. PICK n : n = Len(capture) + 1
  OBVIOUS
<1>2. PICK f : f = e.frame
  OBVIOUS
<1>3. /\ f \in DOMAIN capture /\ f \in DOMAIN capture' /\ Bad(f)' /\ capture'[f] = capture[f]
      /\ e.time = capture[f].time
      /\ e.key = Key(capture[f].rec) /\ e.urb = capture[f].rec.urb
  BY <1>1, <1>2, LaterGrows DEF ErrorAt
<1>4. Later(f)' = Later(f) \cup (IF r.type = "S" /\ e.key = Key(r) /\ e.urb = r.urb
                                 THEN {n} ELSE {})
  BY <1>1, <1>3, LaterGrows
<1>5. ASSUME e.resubmit = None PROVE Later(f)' = {}
  BY <1>2, <1>4, <1>5 DEF ErrorAt
<1>6. ASSUME e.resubmit # None
      PROVE  /\ e.resubmit \in Later(f)' /\ \A m \in Later(f)' : e.resubmit <= m
             /\ e.delay = capture'[e.resubmit].time - e.time
  <2>1. /\ e.resubmit \in Later(f) /\ \A m \in Later(f) : e.resubmit <= m
        /\ e.delay = capture[e.resubmit].time - e.time
    BY <1>2, <1>6 DEF ErrorAt
  <2>2. e.resubmit \in DOMAIN capture
    BY <2>1 DEF Later
  <2>3. e.resubmit <= n /\ capture'[e.resubmit] = capture[e.resubmit]
    BY <1>1, <2>2, LaterGrows
  <2> QED BY <1>4, <2>1, <2>3
<1> QED BY <1>2, <1>3, <1>5, <1>6 DEF ErrorAt

(* An entry that waited gets the first submit of its URB.                  *)
LEMMA ErrorAnswered ==
  ASSUME CaptureType, NEW r \in RecordType, NEW t \in Nat,
         capture' = Append(capture, [time |-> t, rec |-> r]),
         NEW e \in ErrorType, ErrorAt(e), e.resubmit = None,
         r.type = "S", e.key = Key(r), e.urb = r.urb,
         NEW a, a = [e EXCEPT !.resubmit = Len(capture) + 1, !.delay = t - e.time]
  PROVE  ErrorAt(a)' /\ a \in ErrorType /\ a.resubmit # None
<1>1. PICK n : n = Len(capture) + 1
  OBVIOUS
<1>2. PICK f : f = e.frame
  OBVIOUS
<1>3. /\ f \in DOMAIN capture /\ Bad(f) /\ e.time = capture[f].time
      /\ e.key = Key(capture[f].rec) /\ e.urb = capture[f].rec.urb /\ Later(f) = {}
  BY <1>2 DEF ErrorAt
<1>4. /\ f \in DOMAIN capture' /\ Bad(f)' /\ capture'[f] = capture[f]
      /\ n \in Nat /\ n > 0 /\ capture'[n].time = t
  BY <1>1, <1>3, LaterGrows
<1>5. Later(f)' = {n}
  <2>1. \A j \in DOMAIN capture :
          Later(j)' = Later(j) \cup (IF /\ r.type = "S" /\ Key(capture[j].rec) = Key(r)
                                        /\ capture[j].rec.urb = r.urb
                                     THEN {n} ELSE {})
    BY <1>1, LaterGrows
  <2>2. r.type = "S" /\ Key(capture[f].rec) = Key(r) /\ capture[f].rec.urb = r.urb
    BY <1>3
  <2>3. Later(f)' = {} \cup {n}
    BY <1>3, <2>1, <2>2
  <2> QED BY <2>3
<1>6. /\ a.frame = f /\ a.time = e.time /\ a.key = e.key /\ a.urb = e.urb
      /\ a.resubmit = n /\ a.delay = t - e.time
  BY <1>1, <1>2 DEF ErrorType
<1>7. a \in ErrorType
  <2>1. t - e.time \in Int /\ n \in Int
    BY <1>4 DEF ErrorType
  <2> QED BY <1>1, <2>1 DEF ErrorType
<1>8. n # None /\ n <= n
  BY <1>4 DEF None
<1>9. ErrorAt(a)'
  BY <1>3, <1>4, <1>5, <1>6, <1>8 DEF ErrorAt
<1> QED BY <1>6, <1>7, <1>8, <1>9

(* A failed completion gets an entry; nothing is later than it yet.        *)
LEMMA ErrorNew ==
  ASSUME CaptureType, NEW r \in RecordType, NEW t \in Nat,
         capture' = Append(capture, [time |-> t, rec |-> r]),
         r.type # "S", r.status # 0, Key(r) \in Keys,
         NEW a, a = [frame |-> Len(capture) + 1, time |-> t, key |-> Key(r), urb |-> r.urb,
                     resubmit |-> None, delay |-> None]
  PROVE  ErrorAt(a)' /\ a \in ErrorType
<1>1. PICK n : n = Len(capture) + 1
  OBVIOUS
<1>2. /\ n \in Nat /\ n \in DOMAIN capture' /\ Bad(n)' /\ capture'[n] = [time |-> t, rec |-> r]
      /\ Later(n)' = {}
  BY <1>1, LaterGrows
<1>3. /\ a.frame = n /\ a.time = t /\ a.key = Key(r) /\ a.urb = r.urb /\ a.resubmit = None
  BY <1>1
<1>4. a \in ErrorType
  BY <1>1, <1>2 DEF ErrorType, None, RecordType
<1> QED BY <1>2, <1>3, <1>4 DEF ErrorAt

(* The three kinds of record: a submit answers the errors that wait for    *)
(* it, a good completion leaves the list alone, a failed one is put at its *)
(* end.                                                                    *)
LEMMA ErrorsOnSubmit ==
  ASSUME TypeInv, ListedInv, WaitingInv, NEW r \in RecordType, NEW t \in Nat, Key(r) \in Keys,
         capture' = Append(capture, [time |-> t, rec |-> r]), r.type = "S",
         UrbErrors(r, t, Len(capture) + 1)
  PROVE  ListedInv' /\ WaitingInv'
         /\ DOMAIN errors' = DOMAIN errors /\ \A j \in DOMAIN errors : errors'[j].key = errors[j].key
<1>1. PICK n : n = Len(capture) + 1
  OBVIOUS
<1>2. PICK key : key = Key(r)
  OBVIOUS
<1>3. PICK D : D = DOMAIN errors
  OBVIOUS
<1>4. PICK W : W = Open(key, r.urb)
  OBVIOUS
<1>5. r.urb \in Urbs /\ key \in Keys /\ waiting[key][r.urb] = W
  BY <1>2, <1>4 DEF RecordType, WaitingInv
<1>6. /\ errors' = [j \in D |-> IF j \in W
                                THEN [errors[j] EXCEPT !.resubmit = n, !.delay = t - errors[j].time]
                                ELSE errors[j]]
      /\ waiting' = [waiting EXCEPT ![key][r.urb] = {}]
  BY <1>1, <1>2, <1>3, <1>5 DEF UrbErrors
<1>7. Len(errors) \in Nat /\ D = 1..Len(errors) /\ \A j \in D : errors[j] \in ErrorType
  BY <1>3, LenProperties, ElementOfSeq DEF ListedInv
<1>8. \A j \in D : j \in W <=> errors[j].key = key /\ errors[j].urb = r.urb /\ errors[j].resubmit = None
  BY <1>3, <1>4 DEF Open
<1>9. ASSUME NEW j \in D
      PROVE  /\ errors'[j] \in ErrorType /\ ErrorAt(errors[j])'
             /\ errors'[j].frame = errors[j].frame /\ errors'[j].key = errors[j].key
             /\ errors'[j].urb = errors[j].urb
             /\ errors'[j].resubmit = None <=> j \notin W /\ errors[j].resubmit = None
  <2>1. PICK e : e = errors[j]
    OBVIOUS
  <2>2. PICK a : a = errors'[j]
    OBVIOUS
  <2>3. e \in ErrorType /\ ErrorAt(e)
    <3>1. ErrorAt(errors[j])
      BY <1>3 DEF ListedInv
    <3> QED BY <1>7, <2>1, <3>1
  <2>4. /\ a \in ErrorType /\ ErrorAt(a)' /\ a.frame = e.frame /\ a.key = e.key /\ a.urb = e.urb
        /\ a.resubmit = None <=> j \notin W /\ e.resubmit = None
    <3>1. CASE j \in W
      <4>1. a = [e EXCEPT !.resubmit = n, !.delay = t - e.time]
        BY <1>6, <2>1, <2>2, <3>1
      <4>2. e.key = Key(r) /\ e.urb = r.urb /\ e.resubmit = None
        BY <1>2, <1>8, <2>1, <3>1
      <4>3. ErrorAt(a)' /\ a \in ErrorType /\ a.resubmit # None
        BY <1>1, <2>3, <4>1, <4>2, ErrorAnswered DEF TypeInv
      <4>4. a.frame = e.frame /\ a.key = e.key /\ a.urb = e.urb
        BY <2>3, <4>1 DEF ErrorType
      <4> QED BY <3>1, <4>3, <4>4
    <3>2. CASE j \notin W
      <4>1. a = e
        BY <1>6, <2>1, <2>2, <3>2
      <4>2. e.resubmit # None \/ ~(r.type = "S" /\ e.key = Key(r) /\ e.urb = r.urb)
        BY <1>2, <1>8, <2>1, <3>2
      <4>3. ErrorAt(e)'
        BY <2>3, <4>2, ErrorKept DEF TypeInv
      <4> QED BY <2>3, <3>2, <4>1, <4>3
    <3> QED BY <3>1, <3>2
  <2>5. ErrorAt(errors[j])'
    BY <2>2, <2>4 DEF ErrorAt, Later
  <2> QED BY <2>1, <2>2, <2>4, <2>5
<1>10. DOMAIN errors' = D /\ errors' \in Seq(ErrorType)
  <2>1. errors' \in [1..Len(errors) -> ErrorType]
    BY <1>6, <1>7, <1>9
  <2> QED BY <1>6, <1>7, <2>1, SeqDef
<1>11. ListedInv'
  <2>1. \A i, j \in D : i < j => errors'[i].frame < errors'[j].frame
    BY <1>3, <1>9 DEF ListedInv
  <2>2. ASSUME NEW m \in DOMAIN capture', Bad(m)'
        PROVE  \E j \in D : errors'[j].frame = m
    <3>1. m \in DOMAIN capture /\ Bad(m)
      BY <1>1, <2>2, LaterGrows DEF TypeInv
    <3>2. PICK j \in D : errors[j].frame = m
      BY <1>3, <3>1 DEF ListedInv
    <3> QED BY <1>9, <3>2
  <2>3. \A j \in D : ErrorAt(errors[j])'
    BY <1>9
  <2> HIDE DEF ErrorAt
  <2> QED BY <1>10, <2>1, <2>2, <2>3 DEF ListedInv
<1>12. WaitingInv'
  <2>1. waiting' \in [Keys -> [Urbs -> SUBSET Nat]]
    BY <1>5, <1>6 DEF WaitingInv
  <2>2. ASSUME NEW k \in Keys, NEW u \in Urbs
        PROVE  waiting'[k][u] = Open(k, u)'
    <3>1. Open(k, u)' = {j \in D : errors[j].key = k /\ errors[j].urb = u
                                   /\ j \notin W /\ errors[j].resubmit = None}
      BY <1>9, <1>10 DEF Open
    <3>2. Open(k, u) = {j \in D : errors[j].key = k /\ errors[j].urb = u
                                  /\ errors[j].resubmit = None}
      BY <1>3 DEF Open
    <3>3. waiting[k][u] = Open(k, u)
      BY DEF WaitingInv
    <3>4. CASE k = key /\ u = r.urb
      <4>1. waiting'[k][u] = {}
        BY <1>5, <1>6, <3>4 DEF WaitingInv
      <4> QED BY <1>8, <3>1, <3>4, <4>1
    <3>5. CASE ~(k = key /\ u = r.urb)
      <4>1. waiting'[k][u] = waiting[k][u]
        BY <1>5, <1>6, <3>5 DEF WaitingInv
      <4> QED BY <1>8, <3>1, <3>2, <3>3, <3>5, <4>1
    <3> QED BY <3>4, <3>5
  <2> QED BY <2>1, <2>2 DEF WaitingInv
<1> QED BY <1>3, <1>9, <1>10, <1>11, <1>12

LEMMA ErrorsOnSuccess ==
  ASSUME TypeInv, ListedInv, WaitingInv, NEW r \in RecordType, NEW t \in Nat,
         capture' = Append(capture, [time |-> t, rec |-> r]), r.type # "S", r.status = 0,
         UNCHANGED <<errors, waiting>>
  PROVE  ListedInv' /\ WaitingInv'
<1>1. PICK n : n = Len(capture) + 1
  OBVIOUS
<1>2. PICK D : D = DOMAIN errors
  OBVIOUS
<1>3. \A j \in D : errors[j] \in ErrorType
  BY <1>2, LenProperties, ElementOfSeq DEF ListedInv
<1>4. ASSUME NEW j \in D PROVE ErrorAt(errors[j])'
  <2>1. PICK e : e = errors[j]
    OBVIOUS
  <2>2. e \in ErrorType /\ ErrorAt(e)
    <3>1. ErrorAt(errors[j])
      BY <1>2 DEF ListedInv
    <3> QED BY <1>3, <2>1, <3>1
  <2>3. ErrorAt(e)'
    BY <2>2, ErrorKept DEF TypeInv
  <2>4. e = errors'[j]
    BY <2>1
  <2> QED BY <2>3, <2>4 DEF ErrorAt, Later
<1>5. ASSUME NEW m \in DOMAIN capture', Bad(m)'
      PROVE  m \in DOMAIN capture /\ Bad(m)
  BY <1>1, <1>5, LaterGrows DEF TypeInv
<1>6. ListedInv'
  BY <1>2, <1>4, <1>5 DEF ListedInv
<1>7. WaitingInv'
  BY DEF WaitingInv, Open
<1> QED BY <1>6, <1>7

LEMMA ErrorsOnFailure ==
  ASSUME TypeInv, ListedInv, WaitingInv, NEW r \in RecordType, NEW t \in Nat, Key(r) \in Keys,
         capture' = Append(capture, [time |-> t, rec |-> r]), r.type # "S", r.status # 0,
         UrbErrors(r, t, Len(capture) + 1)
  PROVE  /\ ListedInv' /\ WaitingInv'
         /\ Len(errors) \in Nat /\ DOMAIN errors = 1..Len(errors)
         /\ DOMAIN errors' = DOMAIN errors \cup {Len(errors) + 1}
         /\ \A j \in DOMAIN errors : errors'[j] = errors[j]
         /\ errors'[Len(errors) + 1].key = Key(r)
<1>1. PICK n : n = Len(capture) + 1
  OBVIOUS
<1>2. PICK key : key = Key(r)
  OBVIOUS
<1>3. PICK D : D = DOMAIN errors
  OBVIOUS
<1>4. PICK L : L = Len(errors) + 1
  OBVIOUS
<1>5. PICK a : a = [frame |-> n, time |-> t, key |-> key, urb |-> r.urb,
                    resubmit |-> None, delay |-> None]
  OBVIOUS
<1>6. r.urb \in Urbs /\ key \in Keys
  BY <1>2 DEF RecordType
<1>7. /\ errors' = Append(errors, a)
      /\ waiting' = [waiting EXCEPT ![key][r.urb] = @ \cup {L}]
  BY <1>1, <1>2, <1>4, <1>5 DEF UrbErrors
<1>8. ErrorAt(a)' /\ a \in ErrorType
  BY <1>1, <1>2, <1>5, <1>6, ErrorNew DEF TypeInv
<1>9. /\ Len(errors) \in Nat /\ D = 1..Len(errors) /\ \A j \in D : errors[j] \in ErrorType
      /\ errors' \in Seq(ErrorType) /\ Len(errors') = L /\ DOMAIN errors' = 1..Len(errors')
      /\ \A i \in D : errors'[i] = errors[i]
      /\ errors'[L] = a
  BY <1>3, <1>4, <1>7, <1>8, LenProperties, ElementOfSeq, AppendProperties DEF ListedInv
<1>10. DOMAIN errors' = D \cup {L} /\ L \notin D /\ L \in Nat /\ \A j \in D : j < L /\ ~(L < j)
  BY <1>4, <1>9
<1>11. ASSUME NEW j \in D PROVE ErrorAt(errors[j])'
  <2>1. PICK e : e = errors[j]
    OBVIOUS
  <2>2. e \in ErrorType /\ ErrorAt(e)
    <3>1. ErrorAt(errors[j])
      BY <1>3 DEF ListedInv
    <3> QED BY <1>9, <2>1, <3>1
  <2>3. ErrorAt(e)'
    BY <2>2, ErrorKept DEF TypeInv
  <2>4. e = errors'[j]
    BY <1>9, <2>1
  <2> QED BY <2>3, <2>4 DEF ErrorAt, Later
<1>12. ErrorAt(errors[L])'
  <2>1. a = errors'[L] /\ L = L
    BY <1>9
  <2> QED BY <1>8, <2>1 DEF ErrorAt, Later
<1>13. \A j \in D \cup {L} : ErrorAt(errors[j])'
  BY <1>11, <1>12
<1>14. \A i, j \in D \cup {L} : i < j => errors'[i].frame < errors'[j].frame
  <2>1. \A i \in D : errors[i].frame < n
    <3> TAKE i \in D
    <3>1. errors[i].frame \in DOMAIN capture
      BY <1>3 DEF ListedInv, ErrorAt
    <3> QED BY <1>1, <3>1, LaterGrows DEF TypeInv
  <2>2. errors'[L].frame = n /\ ~(L < L)
    BY <1>5, <1>9, <1>10
  <2> QED BY <1>3, <1>9, <1>10, <2>1, <2>2 DEF ListedInv
<1>15. ASSUME NEW m \in DOMAIN capture', Bad(m)'
       PROVE  \E j \in D \cup {L} : errors'[j].frame = m
  <2>1. (m \in DOMAIN capture /\ Bad(m)) \/ m = n
    BY <1>1, <1>15, LaterGrows DEF TypeInv
  <2>2. CASE m \in DOMAIN capture /\ Bad(m)
    <3>1. PICK j \in D : errors[j].frame = m
      BY <1>3, <2>2 DEF ListedInv
    <3> QED BY <1>9, <3>1
  <2>3. CASE m = n
    <3>1. errors'[L].frame = n
      BY <1>5, <1>9
    <3> QED BY <2>3, <3>1
  <2> QED BY <2>1, <2>2, <2>3
<1>16. ListedInv'
  BY <1>9, <1>10, <1>13, <1>14, <1>15 DEF ListedInv
<1>17. WaitingInv'
  <2>1. waiting' \in [Keys -> [Urbs -> SUBSET Nat]]
    BY <1>6, <1>7, <1>10 DEF WaitingInv
  <2>2. ASSUME NEW k \in Keys, NEW u \in Urbs
        PROVE  waiting'[k][u] = Open(k, u)'
    <3>0. a.key = key /\ a.urb = r.urb /\ a.resubmit = None
      BY <1>5
    <3>1. Open(k, u)' = Open(k, u) \cup (IF k = key /\ u = r.urb THEN {L} ELSE {})
      <4>1. Open(k, u)' = {j \in D \cup {L} : /\ errors'[j].key = k /\ errors'[j].urb = u
                                              /\ errors'[j].resubmit = None}
        BY <1>10 DEF Open
      <4>2. Open(k, u) = {j \in D : errors[j].key = k /\ errors[j].urb = u /\ errors[j].resubmit = None}
        BY <1>3 DEF Open
      <4> QED BY <1>9, <1>10, <3>0, <4>1, <4>2
    <3>2. waiting[k][u] = Open(k, u)
      BY DEF WaitingInv
    <3>3. waiting'[k][u] = IF k = key /\ u = r.urb THEN waiting[k][u] \cup {L} ELSE waiting[k][u]
      BY <1>6, <1>7 DEF WaitingInv
    <3> QED BY <3>1, <3>2, <3>3
  <2> QED BY <2>1, <2>2 DEF WaitingInv
<1> QED BY <1>2, <1>3, <1>4, <1>5, <1>9, <1>10, <1>16, <1>17

(* Records are in the order of their times; and an endpoint's counters are *)
(* the number of its entries and of the good completions since the last    *)
(* failure.                                                                *)
InOrder == \A i, j \in DOMAIN capture : i <= j => capture[i].time <= capture[j].time
ErrorsOf(k) == {j \in DOMAIN errors : errors[j].key = k}
BadOf(k) == {j \in DOMAIN capture : Is(j, k) /\ Bad(j)}
GoodSince(k) == {j \in DOMAIN capture : /\ Is(j, k) /\ Good(j) /\ \A m \in BadOf(k) : m < j}
FailedAt(k) ==
  /\ urb[k].failed = Cardinality(ErrorsOf(k))
  /\ urb[k].last_error = None <=> BadOf(k) = {}
  /\ BadOf(k) # {} => urb[k].ok_after_error = Cardinality(GoodSince(k))
FailedInv == \A k \in Keys : FailedAt(k)

(* A record is not earlier than those before it.                           *)
LEMMA RecordInOrder ==
  ASSUME TypeInv, InOrder, NEW r \in RecordType, NEW step \in Steps,
         capture' = Append(capture, [time |-> Now + step, rec |-> r])
  PROVE  InOrder'
<1>0. PICK t : t = Now + step
  OBVIOUS
<1>1. PICK n : n = Len(capture) + 1
  OBVIOUS
<1>2. t \in Nat /\ step \in Nat /\ capture' = Append(capture, [time |-> t, rec |-> r])
  BY <1>0, TimeType, CaptureAssumption DEF TypeInv
<1>3. /\ n \in Nat /\ DOMAIN capture = 1..n - 1 /\ DOMAIN capture' = 1..n
      /\ \A j \in 1..n - 1 : capture'[j] = capture[j] /\ capture[j] \in [time : Nat, rec : RecordType]
      /\ capture'[n].time = t
  BY <1>1, <1>2, Longer DEF TypeInv
<1>4. \A j \in 1..n - 1 : capture[j].time <= t
  <2> TAKE j \in 1..n - 1
  <2>1. n - 1 \in DOMAIN capture /\ j <= n - 1 /\ j \in DOMAIN capture
    BY <1>3
  <2>2. capture # <<>>
    BY <2>1
  <2>3. Now = capture[n - 1].time
    <3>1. Len(capture) = n - 1
      <4>1. Len(capture) \in Nat
        BY LenProperties DEF TypeInv, CaptureType
      <4> QED BY <1>1, <4>1
    <3> QED BY <2>2, <3>1 DEF Now
  <2>4. capture[j].time <= capture[n - 1].time
    BY <2>1 DEF InOrder
  <2>5. capture[j].time \in Nat /\ capture[n - 1].time \in Nat
    BY <1>3, <2>1
  <2> QED BY <1>0, <1>2, <2>3, <2>4, <2>5
<1>5. ASSUME NEW i \in 1..n, NEW j \in 1..n, i <= j
      PROVE  capture'[i].time <= capture'[j].time
  <2>1. CASE j = n /\ i = n
    BY <1>2, <1>3, <2>1
  <2>2. CASE j = n /\ i # n
    <3>1. i \in 1..n - 1
      BY <1>3, <2>2
    <3> QED BY <1>3, <1>4, <2>2, <3>1
  <2>3. CASE j # n
    <3>1. i \in 1..n - 1 /\ j \in 1..n - 1
      BY <1>3, <1>5, <2>3
    <3> QED BY <1>3, <1>5, <3>1 DEF InOrder
  <2> QED BY <2>1, <2>2, <2>3
<1> QED BY <1>3, <1>5 DEF InOrder

(* What it adds to an endpoint's failures and to the successes after them. *)
LEMMA FailuresGrow ==
  ASSUME CaptureType, NEW r \in RecordType, NEW t \in Nat,
         capture' = Append(capture, [time |-> t, rec |-> r]),
         NEW n, n = Len(capture) + 1, NEW k
  PROVE  /\ BadOf(k)' = BadOf(k) \cup (IF k = Key(r) /\ r.type # "S" /\ r.status # 0
                                       THEN {n} ELSE {})
         /\ GoodSince(k)' = IF k = Key(r) /\ r.type # "S"
                            THEN IF r.status # 0 THEN {} ELSE GoodSince(k) \cup {n}
                            ELSE GoodSince(k)
         /\ IsFiniteSet(GoodSince(k)) /\ n \notin GoodSince(k)
<1>1. PICK D : D = DOMAIN capture
  OBVIOUS
<1>2. /\ DOMAIN capture' = D \cup {n} /\ n \notin D
      /\ \A j \in D : /\ j \in Nat /\ j < n
                      /\ Bad(j)' <=> Bad(j)
                      /\ Good(j)' <=> Good(j)
                      /\ Is(j, k)' <=> Is(j, k)
      /\ Bad(n)' <=> r.type # "S" /\ r.status # 0
      /\ Good(n)' <=> r.type # "S" /\ r.status = 0
      /\ Is(n, k)' <=> k = Key(r)
      /\ n \in Nat
  BY <1>1, LaterGrows
<1>3. BadOf(k)' = BadOf(k) \cup (IF k = Key(r) /\ r.type # "S" /\ r.status # 0 THEN {n} ELSE {})
  <2>1. /\ BadOf(k)' = {j \in D \cup {n} : Is(j, k)' /\ Bad(j)'}
        /\ BadOf(k) = {j \in D : Is(j, k) /\ Bad(j)}
    BY <1>1, <1>2 DEF BadOf
  <2> QED BY <1>2, <2>1
<1>4. PICK B : B = BadOf(k)
  OBVIOUS
<1>5. PICK C : C = BadOf(k)'
  OBVIOUS
<1>6. B \subseteq D /\ C = B \cup (IF k = Key(r) /\ r.type # "S" /\ r.status # 0 THEN {n} ELSE {})
  BY <1>1, <1>3, <1>4, <1>5 DEF BadOf
<1>7. /\ GoodSince(k)' = {j \in D \cup {n} : Is(j, k)' /\ Good(j)' /\ \A m \in C : m < j}
      /\ GoodSince(k) = {j \in D : Is(j, k) /\ Good(j) /\ \A m \in B : m < j}
  BY <1>1, <1>2, <1>4, <1>5 DEF GoodSince
<1>8. \A j \in D : ~(n < j)
  BY <1>2
<1>9. IsFiniteSet(GoodSince(k)) /\ n \notin GoodSince(k)
  <2>1. GoodSince(k) \subseteq D
    BY <1>7
  <2>2. IsFiniteSet(D)
    <3>1. Len(capture) \in Nat /\ D = 1..Len(capture) /\ 1 \in Int
      BY <1>1, LenProperties DEF CaptureType
    <3> QED BY <3>1, FS_Interval
  <2> QED BY <1>2, <2>1, <2>2, FS_Subset
<1>10. CASE k = Key(r) /\ r.type # "S" /\ r.status # 0
  <2>1. n \in C /\ ~Good(n)'
    BY <1>2, <1>6, <1>10
  <2>2. GoodSince(k)' = {}
    BY <1>7, <1>8, <2>1
  <2> QED BY <1>10, <2>2, <1>3, <1>9
<1>11. CASE ~(k = Key(r) /\ r.type # "S" /\ r.status # 0)
  <2>1. C = B
    BY <1>6, <1>11
  <2>2. \A m \in B : m < n
    BY <1>2, <1>6
  <2>3. GoodSince(k)' = IF k = Key(r) /\ r.type # "S" THEN GoodSince(k) \cup {n} ELSE GoodSince(k)
    BY <1>2, <1>7, <1>11, <2>1, <2>2
  <2> QED BY <1>3, <1>9, <1>11, <2>3
<1> QED BY <1>10, <1>11

(* The counters follow.                                                    *)
LEMMA FailedStep ==
  ASSUME TypeInv, ListedInv, WaitingInv, FailedInv,
         NEW r \in RecordType, NEW t \in Nat, Key(r) \in Keys,
         capture' = Append(capture, [time |-> t, rec |-> r]),
         UrbErrors(r, t, Len(capture) + 1), UrbStats(r, t)
  PROVE  FailedInv'
<1>1. PICK n : n = Len(capture) + 1
  OBVIOUS
<1> SUFFICES ASSUME NEW k \in Keys PROVE FailedAt(k)'
  BY DEF FailedInv
<1>2. urb[k] \in UrbStatsType /\ urb \in [Keys -> UrbStatsType]
  BY DEF TypeInv, TypeOK
<1>3. /\ k = Key(r) => urb'[k] = IF r.type = "S" THEN Submitted(urb[k], r, t)
                                 ELSE Completed(urb[k], r, t)
      /\ k # Key(r) => urb'[k] = urb[k]
  BY <1>2 DEF UrbStats
<1>4. /\ urb[k].failed = Cardinality(ErrorsOf(k))
      /\ urb[k].last_error = None <=> BadOf(k) = {}
      /\ BadOf(k) # {} => urb[k].ok_after_error = Cardinality(GoodSince(k))
  BY DEF FailedInv, FailedAt
<1>5. /\ BadOf(k)' = BadOf(k) \cup (IF k = Key(r) /\ r.type # "S" /\ r.status # 0
                                    THEN {n} ELSE {})
      /\ GoodSince(k)' = IF k = Key(r) /\ r.type # "S"
                         THEN IF r.status # 0 THEN {} ELSE GoodSince(k) \cup {n}
                         ELSE GoodSince(k)
      /\ IsFiniteSet(GoodSince(k)) /\ n \notin GoodSince(k)
  BY <1>1, FailuresGrow DEF TypeInv
<1>6. CASE r.type = "S"
  <2>1. ErrorsOf(k)' = ErrorsOf(k)
    BY <1>6, ErrorsOnSubmit DEF ErrorsOf
  <2>2. BadOf(k)' = BadOf(k) /\ GoodSince(k)' = GoodSince(k)
    BY <1>5, <1>6
  <2>3. /\ urb'[k].failed = urb[k].failed /\ urb'[k].last_error = urb[k].last_error
        /\ urb'[k].ok_after_error = urb[k].ok_after_error
    BY <1>2, <1>3, <1>6 DEF Submitted, UrbStatsType
  <2> QED BY <1>4, <2>1, <2>2, <2>3 DEF FailedAt
<1>7. CASE r.type # "S" /\ r.status = 0
  <2>1. errors' = errors
    BY <1>7 DEF UrbErrors
  <2>2. ErrorsOf(k)' = ErrorsOf(k)
    BY <2>1 DEF ErrorsOf
  <2>3. BadOf(k)' = BadOf(k)
    BY <1>5, <1>7
  <2>4. CASE k # Key(r)
    <3>1. GoodSince(k)' = GoodSince(k) /\ urb'[k] = urb[k]
      BY <1>3, <1>5, <2>4
    <3> QED BY <1>4, <2>2, <2>3, <3>1 DEF FailedAt
  <2>5. CASE k = Key(r)
    <3>1. Cardinality(GoodSince(k)') = Cardinality(GoodSince(k)) + 1
      <4>1. GoodSince(k)' = GoodSince(k) \cup {n}
        BY <1>5, <1>7, <2>5
      <4> QED BY <1>5, <4>1, FS_AddElement
    <3>2. /\ urb'[k].failed = urb[k].failed /\ urb'[k].last_error = urb[k].last_error
          /\ urb[k].last_error # None => urb'[k].ok_after_error = urb[k].ok_after_error + 1
      <4>1. urb'[k] = Completed(urb[k], r, t)
        BY <1>3, <1>7, <2>5
      <4> QED BY <1>2, <1>7, <4>1 DEF Completed, UrbStatsType
    <3> QED BY <1>4, <2>2, <2>3, <3>1, <3>2 DEF FailedAt
  <2> QED BY <2>4, <2>5
<1>8. CASE r.type # "S" /\ r.status # 0
  <2>1. PICK L : L = Len(errors) + 1
    OBVIOUS
  <2>2. PICK D : D = DOMAIN errors
    OBVIOUS
  <2>3. /\ L - 1 \in Nat /\ D = 1..L - 1 /\ L \in Int
        /\ DOMAIN errors' = D \cup {L}
        /\ \A j \in D : errors'[j] = errors[j]
        /\ errors'[L].key = Key(r)
    <3>1. /\ Len(errors) \in Nat /\ D = 1..Len(errors)
          /\ DOMAIN errors' = D \cup {L}
          /\ \A j \in D : errors'[j] = errors[j]
          /\ errors'[L].key = Key(r)
      BY <1>8, <2>1, <2>2, ErrorsOnFailure
    <3> QED BY <2>1, <3>1
  <2>4. L \notin D /\ IsFiniteSet(D)
    <3>1. 1 \in Int /\ L - 1 \in Int /\ L \notin 1..L - 1
      BY <2>3
    <3>2. IsFiniteSet(1..L - 1)
      BY <3>1, FS_Interval
    <3> QED BY <2>3, <3>1, <3>2
  <2>5. ErrorsOf(k)' = ErrorsOf(k) \cup (IF k = Key(r) THEN {L} ELSE {})
    <3>1. ErrorsOf(k)' = {j \in D \cup {L} : errors'[j].key = k}
          /\ ErrorsOf(k) = {j \in D : errors[j].key = k}
      BY <2>2, <2>3 DEF ErrorsOf
    <3> QED BY <2>3, <2>4, <3>1
  <2>6. IsFiniteSet(ErrorsOf(k)) /\ L \notin ErrorsOf(k)
    <3>1. ErrorsOf(k) \subseteq D
      BY <2>2 DEF ErrorsOf
    <3> QED BY <2>4, <3>1, FS_Subset
  <2>7. CASE k # Key(r)
    <3>1. GoodSince(k)' = GoodSince(k) /\ BadOf(k)' = BadOf(k)
          /\ ErrorsOf(k)' = ErrorsOf(k) /\ urb'[k] = urb[k]
      BY <1>3, <1>5, <2>5, <2>7
    <3> QED BY <1>4, <3>1 DEF FailedAt
  <2>8. CASE k = Key(r)
    <3>1. Cardinality(ErrorsOf(k)') = Cardinality(ErrorsOf(k)) + 1
      BY <2>5, <2>6, <2>8, FS_AddElement
    <3>2. BadOf(k)' # {} /\ GoodSince(k)' = {}
      BY <1>5, <1>8, <2>8
    <3>3. /\ urb'[k].failed = urb[k].failed + 1 /\ urb'[k].last_error = t
          /\ urb'[k].ok_after_error = 0
      BY <1>2, <1>3, <1>8, <2>8 DEF Completed, UrbStatsType
    <3>4. t # None
      BY DEF None
    <3> QED BY <1>4, <3>1, <3>2, <3>3, <3>4, FS_EmptySet DEF FailedAt
  <2> QED BY <2>7, <2>8
<1> QED BY <1>6, <1>7, <1>8

(* The inductive invariant of the error report.                            *)
ErrorsInv == TypeInv /\ ListedInv /\ WaitingInv /\ InOrder /\ FailedInv

(* One record keeps it.                                                    *)
LEMMA ErrorsStep ==
  ASSUME ErrorsInv, NEW r \in Records, NEW step \in Steps, Record(r, Now + step)
  PROVE  ErrorsInv'
<1>1. PICK t : t = Now + step
  OBVIOUS
<1>2. r \in RecordType /\ t \in Nat /\ Key(r) \in Keys
  BY <1>1, CaptureAssumption, TimeType DEF ErrorsInv, TypeInv, Key, Keys, RecordType
<1>3. /\ capture' = Append(capture, [time |-> t, rec |-> r])
      /\ UrbErrors(r, t, Len(capture) + 1) /\ UrbStats(r, t)
  BY <1>1 DEF Record, UrbRow
<1>4. TypeInv' /\ InOrder'
  BY <1>1, <1>2, <1>3, RecordTyped, RecordInOrder DEF ErrorsInv
<1>5. FailedInv'
  BY <1>2, <1>3, FailedStep DEF ErrorsInv
<1>6. ListedInv' /\ WaitingInv'
  <2>1. CASE r.type = "S"
    BY <1>2, <1>3, <2>1, ErrorsOnSubmit DEF ErrorsInv
  <2>2. CASE r.type # "S" /\ r.status = 0
    <3>1. UNCHANGED <<errors, waiting>>
      BY <1>3, <2>2 DEF UrbErrors
    <3> QED BY <1>2, <1>3, <2>2, <3>1, ErrorsOnSuccess DEF ErrorsInv
  <2>3. CASE r.type # "S" /\ r.status # 0
    BY <1>2, <1>3, <2>3, ErrorsOnFailure DEF ErrorsInv
  <2> QED BY <2>1, <2>2, <2>3
<1> QED BY <1>4, <1>5, <1>6 DEF ErrorsInv

(* What the invariant says of an entry: its resubmission, its place and    *)
(* time, the window cut out around it.                                     *)
LEMMA ResubmissionIs ==
  ASSUME ErrorsInv, NEW j \in DOMAIN errors
  PROVE  errors[j].resubmit = Resubmission(errors[j].frame)
<1>1. PICK f : f = errors[j].frame
  OBVIOUS
<1>2. PICK s : s = errors[j].resubmit
  OBVIOUS
<1>3. PICK later : later = Later(f)
  OBVIOUS
<1>4. /\ s = None => later = {}
      /\ s # None => s \in later /\ \A m \in later : s <= m
  BY <1>1, <1>2, <1>3 DEF ErrorsInv, ListedInv, ErrorAt
<1>5. Resubmission(f) = IF later = {} THEN None
                        ELSE CHOOSE m \in later : \A other \in later : m <= other
  BY <1>3 DEF Resubmission, Later
<1>6. CASE s = None
  BY <1>1, <1>2, <1>4, <1>5, <1>6
<1>7. CASE s # None
  <2>1. later \subseteq Int
    <3>1. DOMAIN capture \subseteq Int
      BY LenProperties DEF ErrorsInv, TypeInv, CaptureType
    <3> QED BY <1>3, <3>1 DEF Later
  <2>2. \A m \in later : (\A other \in later : m <= other) => m = s
    <3> TAKE m \in later
    <3> HAVE \A other \in later : m <= other
    <3>1. m <= s /\ s <= m /\ m \in Int /\ s \in Int
      BY <1>4, <1>7, <2>1
    <3> QED BY <3>1
  <2>3. s = CHOOSE m \in later : \A other \in later : m <= other
    BY <1>4, <1>7, <2>2
  <2>4. later # {}
    BY <1>4, <1>7
  <2> QED BY <1>1, <1>2, <1>5, <2>3, <2>4
<1> QED BY <1>6, <1>7

LEMMA ErrorFacts ==
  ASSUME ErrorsInv, NEW j \in DOMAIN errors
  PROVE  LET e == errors[j] IN
         /\ e \in ErrorType /\ e.frame \in DOMAIN capture /\ Bad(e.frame)
         /\ e.time = capture[e.frame].time /\ e.key = Key(capture[e.frame].rec)
         /\ e.resubmit # None => /\ e.resubmit \in DOMAIN capture
                                 /\ e.delay = capture[e.resubmit].time - e.time
                                 /\ e.time <= capture[e.resubmit].time
<1>1. PICK e : e = errors[j]
  OBVIOUS
<1>2. e \in ErrorType /\ ErrorAt(e)
  <2>1. errors[j] \in ErrorType
    BY LenProperties, ElementOfSeq DEF ErrorsInv, ListedInv
  <2>2. ErrorAt(errors[j])
    BY DEF ErrorsInv, ListedInv
  <2> QED BY <1>1, <2>1, <2>2
<1>3. ASSUME e.resubmit # None
      PROVE  /\ e.resubmit \in DOMAIN capture
             /\ e.delay = capture[e.resubmit].time - e.time
             /\ e.time <= capture[e.resubmit].time
  <2>1. PICK f : f = e.frame
    OBVIOUS
  <2>2. PICK s : s = e.resubmit
    OBVIOUS
  <2>3. f \in DOMAIN capture /\ s \in DOMAIN capture /\ s > f /\ e.time = capture[f].time
        /\ e.delay = capture[s].time - e.time
    BY <1>2, <1>3, <2>1, <2>2 DEF ErrorAt, Later
  <2>4. f <= s
    <3>1. f \in Int /\ s \in Int
      BY <2>3, LenProperties DEF ErrorsInv, TypeInv, CaptureType
    <3> QED BY <2>3, <3>1
  <2>5. capture[f].time <= capture[s].time
    BY <2>3, <2>4 DEF ErrorsInv, InOrder
  <2> QED BY <2>2, <2>3, <2>5
<1> QED BY <1>1, <1>2, <1>3 DEF ErrorAt

(* A window holds its error and an answer that came soon enough.           *)
LEMMA WindowsShow ==
  ASSUME ErrorsInv, NEW j \in DOMAIN Windows(Len(errors), 1, 2)
  PROVE  LET window == Windows(Len(errors), 1, 2)[j]
             shown == {m \in DOMAIN capture : window.start <= capture[m].time /\ capture[m].time <= window.end}
         IN  {window.frame} \cup (IF errors[j].resubmit # None /\ errors[j].delay <= 2
                                  THEN {errors[j].resubmit} ELSE {}) \subseteq shown
<1>1. Len(errors) \in Nat /\ DOMAIN errors = 1..Len(errors)
  BY LenProperties DEF ErrorsInv, ListedInv
<1>2. Windows(Len(errors), 1, 2) =
        [i \in 1..Len(errors) |-> [frame |-> errors[i].frame, start |-> errors[i].time - 1,
                                   end |-> errors[i].time + 2]]
  BY <1>1 DEF Windows
<1>3. j \in DOMAIN errors
  BY <1>1, <1>2
<1>4. PICK e : e = errors[j]
  OBVIOUS
<1>5. PICK window : window = Windows(Len(errors), 1, 2)[j]
  OBVIOUS
<1>6. window.frame = e.frame /\ window.start = e.time - 1 /\ window.end = e.time + 2
  BY <1>1, <1>2, <1>3, <1>4, <1>5
<1>7. /\ e.time \in Nat /\ e.frame \in DOMAIN capture /\ e.time = capture[e.frame].time
      /\ e.resubmit # None => /\ e.resubmit \in DOMAIN capture
                              /\ e.delay = capture[e.resubmit].time - e.time
                              /\ e.time <= capture[e.resubmit].time
  BY <1>3, <1>4, ErrorFacts DEF ErrorType
<1>8. \A m \in DOMAIN capture : capture[m].time \in Nat
  <2> TAKE m \in DOMAIN capture
  <2>1. capture[m] \in [time : Nat, rec : RecordType]
    BY LenProperties, ElementOfSeq DEF ErrorsInv, TypeInv, CaptureType
  <2> QED BY <2>1
<1> DEFINE shown == {m \in DOMAIN capture : window.start <= capture[m].time /\ capture[m].time <= window.end}
<1>9. e.frame \in shown
  BY <1>6, <1>7
<1>10. ASSUME e.resubmit # None, e.delay <= 2 PROVE e.resubmit \in shown
  <2>1. capture[e.resubmit].time \in Nat
    BY <1>7, <1>8, <1>10
  <2> QED BY <1>6, <1>7, <1>10, <2>1
<1> HIDE DEF shown
<1>11. {window.frame} \cup (IF e.resubmit # None /\ e.delay <= 2 THEN {e.resubmit} ELSE {}) \subseteq shown
  BY <1>6, <1>9, <1>10
<1> QED BY <1>4, <1>5, <1>11 DEF shown

(* What it says of an endpoint: its failures are its entries, so that all  *)
(* or none of them are answered when the counts say so.                    *)
LEMMA ErrorsCounted ==
  ASSUME ErrorsInv, NEW k \in Keys
  PROVE  /\ IsFiniteSet(ErrorsOf(k)) /\ urb[k].failed = Cardinality(ErrorsOf(k))
         /\ BadOf(k) = {errors[j].frame : j \in ErrorsOf(k)}
         /\ urb[k].failed \in Nat /\ (urb[k].failed > 0 <=> BadOf(k) # {})
         /\ BadOf(k) # {} => urb[k].ok_after_error = Cardinality(GoodSince(k))
<1>1. /\ urb[k].failed = Cardinality(ErrorsOf(k))
      /\ BadOf(k) # {} => urb[k].ok_after_error = Cardinality(GoodSince(k))
  BY DEF ErrorsInv, FailedInv, FailedAt
<1>2. IsFiniteSet(ErrorsOf(k))
  <2>1. Len(errors) \in Nat /\ DOMAIN errors = 1..Len(errors) /\ 1 \in Int
    BY LenProperties DEF ErrorsInv, ListedInv
  <2>2. IsFiniteSet(1..Len(errors))
    BY <2>1, FS_Interval
  <2>3. ErrorsOf(k) \subseteq 1..Len(errors)
    BY <2>1 DEF ErrorsOf
  <2> QED BY <2>2, <2>3, FS_Subset
<1>3. ASSUME NEW m \in BadOf(k) PROVE \E j \in ErrorsOf(k) : errors[j].frame = m
  <2>1. m \in DOMAIN capture /\ Bad(m) /\ Key(capture[m].rec) = k
    BY DEF BadOf, Is
  <2>2. PICK j \in DOMAIN errors : errors[j].frame = m
    BY <2>1 DEF ErrorsInv, ListedInv
  <2>3. errors[j].key = k
    BY <2>1, <2>2, ErrorFacts
  <2> QED BY <2>2, <2>3 DEF ErrorsOf
<1>4. ASSUME NEW j \in ErrorsOf(k) PROVE errors[j].frame \in BadOf(k)
  <2>1. j \in DOMAIN errors /\ errors[j].key = k
    BY DEF ErrorsOf
  <2>2. /\ errors[j].frame \in DOMAIN capture /\ Bad(errors[j].frame)
        /\ errors[j].key = Key(capture[errors[j].frame].rec)
    BY <2>1, ErrorFacts
  <2> QED BY <2>1, <2>2 DEF BadOf, Is
<1>5. BadOf(k) = {errors[j].frame : j \in ErrorsOf(k)}
  BY <1>3, <1>4
<1>6. urb[k].failed \in Nat
  BY <1>1, <1>2, FS_CardinalityType
<1>7. urb[k].failed = 0 <=> ErrorsOf(k) = {}
  BY <1>1, <1>2, FS_EmptySet
<1>8. ErrorsOf(k) = {} <=> BadOf(k) = {}
  BY <1>5
<1> QED BY <1>1, <1>2, <1>5, <1>6, <1>7, <1>8

(* What the comparison claims of an endpoint with errors is so.            *)
LEMMA ClaimsTrue ==
  ASSUME ErrorsInv, NEW k \in Keys
  PROVE  LET bad == {j \in DOMAIN capture : Is(j, k) /\ Bad(j)}
         IN  /\ "recovered" \in AfterClaims(k) =>
                  /\ \A j \in bad : Resubmission(j) # None
                  /\ urb[k].ok_after_error =
                       Cardinality({j \in DOMAIN capture : /\ Is(j, k) /\ Good(j)
                                                           /\ \A m \in bad : m < j})
             /\ "none submitted again" \in BeforeClaims(k) =>
                  bad # {} /\ \A j \in bad : Resubmission(j) = None
<1>1. PICK E : E = ErrorsOf(k)
  OBVIOUS
<1>2. /\ IsFiniteSet(E) /\ urb[k].failed = Cardinality(E)
      /\ BadOf(k) = {errors[j].frame : j \in E}
      /\ urb[k].failed \in Nat /\ (urb[k].failed > 0 <=> BadOf(k) # {})
      /\ BadOf(k) # {} => urb[k].ok_after_error = Cardinality(GoodSince(k))
  BY <1>1, ErrorsCounted
<1>3. \A j \in E : errors[j].resubmit = Resubmission(errors[j].frame)
  BY <1>1, ResubmissionIs DEF ErrorsOf
<1> DEFINE yes == {j \in DOMAIN errors : errors[j].key = k /\ errors[j].resubmit # None}
           no == {j \in DOMAIN errors : errors[j].key = k /\ errors[j].resubmit = None}
<1>4. yes \subseteq E /\ no \subseteq E
  BY <1>1 DEF ErrorsOf
<1>5. Resubmitted(k) = Cardinality(yes) /\ NotResubmitted(k) = Cardinality(no)
  BY DEF Resubmitted, NotResubmitted
<1> HIDE DEF yes, no
<1>6. ASSUME "recovered" \in AfterClaims(k)
      PROVE  /\ \A j \in BadOf(k) : Resubmission(j) # None
             /\ urb[k].ok_after_error = Cardinality(GoodSince(k))
  <2>1. urb[k].failed # 0 /\ Resubmitted(k) = urb[k].failed
    <3>1. "recovered" \notin (IF 512 \in urb[k].lengths THEN {"512"} ELSE {"still short"})
      OBVIOUS
    <3>2. "recovered" \in (IF urb[k].failed = 0 THEN {"no failures", "resubmit not exercised"}
                           ELSE {"failures"} \cup (IF Resubmitted(k) = urb[k].failed
                                                   THEN {"recovered"} ELSE {}))
      BY <1>6, <3>1 DEF AfterClaims
    <3>3. CASE urb[k].failed = 0
      BY <3>2, <3>3
    <3>4. CASE urb[k].failed # 0
      BY <3>2, <3>4
    <3> QED BY <3>3, <3>4
  <2>2. yes = E
    BY <1>2, <1>4, <1>5, <2>1, FS_Subset
  <2>3. \A j \in E : Resubmission(errors[j].frame) # None
    BY <1>3, <2>2 DEF yes
  <2>4. BadOf(k) # {}
    <3>1. urb[k].failed \in Nat /\ (urb[k].failed > 0 <=> BadOf(k) # {})
      BY <1>2
    <3>2. urb[k].failed > 0
      BY <2>1, <3>1
    <3> QED BY <3>1, <3>2
  <2> QED BY <1>2, <2>3, <2>4
<1>7. ASSUME "none submitted again" \in BeforeClaims(k)
      PROVE  BadOf(k) # {} /\ \A j \in BadOf(k) : Resubmission(j) = None
  <2>1. urb[k].failed > 0 /\ NotResubmitted(k) = urb[k].failed
    BY <1>7 DEF BeforeClaims
  <2>2. no = E
    BY <1>2, <1>4, <1>5, <2>1, FS_Subset
  <2>3. \A j \in E : Resubmission(errors[j].frame) = None
    BY <1>3, <2>2 DEF no
  <2> QED BY <1>2, <2>1, <2>3
<1> QED BY <1>6, <1>7 DEF BadOf, GoodSince

(* The error list's invariant, through every step.                         *)
LEMMA AlwaysErrors == Spec => []ErrorsInv
<1>1. Init => ErrorsInv
  <2> SUFFICES ASSUME Init PROVE ErrorsInv
    OBVIOUS
  <2>1. /\ capture = <<>> /\ errors = <<>> /\ urb = [k \in Keys |-> NewEndpoint]
        /\ waiting = [k \in Keys |-> [u \in Urbs |-> {}]]
    BY DEF Init, UrbInit
  <2>2. errors \in Seq(ErrorType) /\ DOMAIN errors = {} /\ DOMAIN capture = {}
    BY <2>1, EmptySeq
  <2>3. ListedInv /\ InOrder
    BY <2>2 DEF ListedInv, InOrder
  <2>4. WaitingInv
    BY <2>1, <2>2 DEF WaitingInv, Open
  <2>5. FailedInv
    <3> SUFFICES ASSUME NEW k \in Keys PROVE FailedAt(k)
      BY DEF FailedInv
    <3>1. ErrorsOf(k) = {} /\ BadOf(k) = {}
      BY <2>2 DEF ErrorsOf, BadOf
    <3>2. urb[k].failed = 0 /\ urb[k].last_error = None
      BY <2>1 DEF NewEndpoint
    <3> QED BY <3>1, <3>2, FS_EmptySet DEF FailedAt
  <2> QED BY <2>3, <2>4, <2>5, InitTyped DEF ErrorsInv
<1>2. ErrorsInv /\ [Next]_vars => ErrorsInv'
  <2> SUFFICES ASSUME ErrorsInv, [Next]_vars PROVE ErrorsInv'
    OBVIOUS
  <2>1. ASSUME NEW r \in Records, NEW step \in Steps, Record(r, Now + step) PROVE ErrorsInv'
    BY <2>1, ErrorsStep
  <2>2. CASE EchoDecodes \/ GsDecodes \/ UNCHANGED vars
    <3>1. UNCHANGED <<urb, errors, waiting, capture>>
      BY <2>2 DEF EchoDecodes, GsDecodes, vars, urbVars
    <3>2. TypeInv'
      <4>1. CASE EchoDecodes
        BY <4>1, EchoDecodesTyped DEF ErrorsInv
      <4>2. CASE GsDecodes \/ UNCHANGED vars
        <5>1. UNCHANGED <<urb, echo, row, rest, capture>>
          BY <4>2 DEF GsDecodes, vars, urbVars, echoVars
        <5> QED BY <5>1 DEF ErrorsInv, TypeInv, TypeOK, CaptureType
      <4> QED BY <2>2, <4>1, <4>2
    <3>3. ListedInv' /\ WaitingInv' /\ InOrder'
      BY <3>1 DEF ErrorsInv, ListedInv, WaitingInv, InOrder, Open, ErrorAt, Later,
                  Bad, Submit, SameUrb
    <3>4. FailedInv'
      BY <3>1 DEF ErrorsInv, FailedInv, FailedAt, ErrorsOf, BadOf, GoodSince, Is, Bad, Good, Submit
    <3> QED BY <3>2, <3>3, <3>4 DEF ErrorsInv
  <2> QED BY <2>1, <2>2 DEF Next
<1> QED BY <1>1, <1>2, PTL DEF Spec

(* In captures of any length, the error list is the failed completions in  *)
(* their order, each with the first later submit of the same URB on the    *)
(* same endpoint; every window shows its error and a quick answer to it;   *)
(* and the claims of recovery the comparison draws from the counts are     *)
(* true (analyze_usbcan_urb.py:140-184, compare_usbcan_captures.py:87-93). *)
THEOREM EveryErrorTold == Spec => []ErrorsTold
<1>1. ErrorsInv => ErrorsTold
  <2> SUFFICES ASSUME ErrorsInv PROVE ErrorsTold
    OBVIOUS
  <2>1. {errors[j].frame : j \in DOMAIN errors} = {j \in DOMAIN capture : Bad(j)}
    <3>1. \A j \in DOMAIN errors : errors[j].frame \in DOMAIN capture /\ Bad(errors[j].frame)
      BY ErrorFacts
    <3>2. \A m \in DOMAIN capture : Bad(m) => \E j \in DOMAIN errors : errors[j].frame = m
      BY DEF ErrorsInv, ListedInv
    <3> QED BY <3>1, <3>2
  <2>2. \A i, j \in DOMAIN errors : i < j => errors[i].frame < errors[j].frame
    BY DEF ErrorsInv, ListedInv
  <2>3. \A j \in DOMAIN errors :
          /\ errors[j].resubmit = Resubmission(errors[j].frame)
          /\ errors[j].resubmit # None =>
               errors[j].delay = capture[errors[j].resubmit].time - errors[j].time
    BY ResubmissionIs, ErrorFacts
  <2>4. UrbTarget \subseteq Keys
    BY DEF UrbTarget, SeenUrb
  <2> QED BY <2>1, <2>2, <2>3, <2>4, WindowsShow, ClaimsTrue DEF ErrorsTold
<1> QED BY <1>1, AlwaysErrors, PTL
-----------------------------------------------------------------------------
(* The ring of files: the c-th record begins the file whose place among    *)
(* the cuts is Place(C, c).  Reading by the time of the first record gives *)
(* every file its place back, because the capture is in time order.        *)
Place(C, c) == Cardinality({b \in C : b <= c})

(* A set in one-to-one correspondence with another has its size.           *)
LEMMA SameSize ==
  ASSUME NEW S, NEW T, IsFiniteSet(S), NEW f \in [S -> T],
         \A x, y \in S : f[x] = f[y] => x = y, \A t \in T : \E x \in S : f[x] = t
  PROVE  IsFiniteSet(T) /\ Cardinality(T) = Cardinality(S)
<1>1. f \in Bijection(S, T)
  BY DEF Bijection, Injection, Surjection, IsInjective
<1>2. ExistsBijection(S, T)
  BY <1>1 DEF ExistsBijection
<1> QED BY <1>2, FS_Bijection

(* Places number the cuts 1, 2, 3... from the first to the last.           *)
LEMMA Places ==
  ASSUME NEW C \in SUBSET Int, IsFiniteSet(C)
  PROVE  /\ \A c \in C : Place(C, c) \in 1..Cardinality(C)
                         /\ Cardinality({b \in C : b < c}) = Place(C, c) - 1
         /\ \A b, c \in C : b < c => Place(C, b) < Place(C, c)
         /\ \A j \in 1..Cardinality(C) : \E c \in C : Place(C, c) = j
<1>0. Cardinality(C) \in Nat
  BY FS_CardinalityType
<1>1. ASSUME NEW c \in C
      PROVE  /\ Place(C, c) \in 1..Cardinality(C) 
             /\ Cardinality({b \in C : b < c}) = Place(C, c) - 1
             /\ Cardinality({b \in C : b < c}) \in Nat
  <2>1. PICK U : U = {b \in C : b <= c}
    OBVIOUS
  <2>2. PICK V : V = {b \in C : b < c}
    OBVIOUS
  <2>3. U \in SUBSET C /\ c \in U /\ V = U \ {c}
    <3>1. c <= c /\ \A b \in C : b < c <=> (b <= c /\ b # c)
      OBVIOUS
    <3> QED BY <2>1, <2>2, <3>1
  <2>4. IsFiniteSet(U) /\ IsFiniteSet(V) /\ Cardinality(U) <= Cardinality(C)
    BY <2>3, FS_Subset
  <2>5. Cardinality(U) \in Nat /\ Cardinality(V) \in Nat
    BY <2>4, FS_CardinalityType
  <2>6. Cardinality(V) = Cardinality(U) - 1
    BY <2>3, <2>4, FS_RemoveElement
  <2> QED BY <1>0, <2>1, <2>2, <2>4, <2>5, <2>6 DEF Place
<1>2. ASSUME NEW b \in C, NEW c \in C, b < c PROVE Place(C, b) < Place(C, c)
  <2>1. PICK U : U = {a \in C : a <= b}
    OBVIOUS
  <2>2. PICK V : V = {a \in C : a < c}
    OBVIOUS
  <2>3. U \in SUBSET V /\ V \in SUBSET C
    <3>1. \A a \in C : a <= b => a < c
      BY <1>2
    <3> QED BY <2>1, <2>2, <3>1
  <2>4. IsFiniteSet(V)
    BY <2>3, FS_Subset
  <2>5. Cardinality(U) <= Cardinality(V)
    BY <2>3, <2>4, FS_Subset
  <2>6. Cardinality(V) = Place(C, c) - 1 /\ Place(C, b) \in Nat /\ Place(C, c) \in Nat
    <3>1. Place(C, c) \in 1..Cardinality(C) /\ Place(C, b) \in 1..Cardinality(C)
          /\ Cardinality(V) = Place(C, c) - 1
      BY <1>1, <2>2
    <3> QED BY <1>0, <3>1
  <2> QED BY <2>1, <2>5, <2>6 DEF Place
<1>3. ASSUME NEW j \in 1..Cardinality(C) PROVE \E c \in C : Place(C, c) = j
  <2>1. PICK f : f = [c \in C |-> Place(C, c)]
    OBVIOUS
  <2>2. f \in [C -> 1..Cardinality(C)]
    BY <1>1, <2>1
  <2>3. \A b, c \in C : f[b] = f[c] => b = c
    <3>1. ASSUME NEW b \in C, NEW c \in C, f[b] = f[c] PROVE b = c
      <4>1. Place(C, b) = Place(C, c) /\ Place(C, b) \in Int
        <5>1. Place(C, b) \in 1..Cardinality(C)
          BY <1>1
        <5> QED BY <1>0, <2>1, <3>1, <5>1
      <4>2. ~(b < c) /\ ~(c < b)
        BY <1>2, <4>1
      <4> QED BY <4>2
    <3> QED BY <3>1
  <2>4. f \in Injection(C, 1..Cardinality(C))
    BY <2>2, <2>3 DEF Injection, IsInjective
  <2>5. IsFiniteSet(1..Cardinality(C)) /\ Cardinality(1..Cardinality(C)) = Cardinality(C)
    <3>1. 1 \in Int /\ Cardinality(C) \in Int
      BY <1>0
    <3>2. Cardinality(1..Cardinality(C)) = IF 1 > Cardinality(C) THEN 0 ELSE Cardinality(C) - 1 + 1
      BY <3>1, FS_Interval
    <3> QED BY <1>0, <3>1, <3>2, FS_Interval
  <2>6. f \in Surjection(C, 1..Cardinality(C))
    BY <2>4, <2>5, FS_Injection
  <2> QED BY <2>1, <2>6 DEF Surjection
<1> QED BY <1>1, <1>2, <1>3

(* The file that begins at cut c, and the files of all the cuts.           *)
FileOf(C, first, c) ==
  [slot |-> (first + Place(C, c)) % RingSlots,
   start |-> IF c > Len(capture) THEN None ELSE capture[c].time,
   written |-> Place(C, c)]

FilesOf(C, first) == {FileOf(C, first, c) : c \in C}

(* No two files start at the same tick.                                    *)
StartApart(C, first) ==
  \A b, c \in C : FileOf(C, first, b) # FileOf(C, first, c)
                    => FileOf(C, first, b).start # FileOf(C, first, c).start

(* Then the files are ordered as their cuts are.                           *)
LEMMA CutsPrecede ==
  ASSUME CaptureType, InOrder, NEW C \in SUBSET (1..Len(capture) + 1), NEW first \in Nat,
         StartApart(C, first),
         NEW b \in C, NEW c \in C
  PROVE  /\ FileOf(C, first, b) = FileOf(C, first, c) => b = c
         /\ Precedes(FileOf(C, first, b), FileOf(C, first, c)) <=> b < c
<1>1. Len(capture) \in Nat /\ \A j \in 1..Len(capture) : capture[j].time \in Nat
  <2>1. Len(capture) \in Nat
    BY DEF CaptureType
  <2>2. \A j \in 1..Len(capture) : capture[j] \in [time : Nat, rec : RecordType]
    BY ElementOfSeq DEF CaptureType
  <2> QED BY <2>1, <2>2
<1>2. C \in SUBSET Int /\ IsFiniteSet(C)
  <2>1. 1 \in Int /\ Len(capture) + 1 \in Int
    BY <1>1
  <2>2. IsFiniteSet(1..Len(capture) + 1)
    BY <2>1, FS_Interval
  <2>3. IsFiniteSet(C)
    BY <2>2, FS_Subset
  <2>4. \A n \in 1..Len(capture) + 1 : n \in Int
    OBVIOUS
  <2> QED BY <2>3, <2>4
<1>3. ASSUME NEW x \in C, NEW y \in C, FileOf(C, first, x) = FileOf(C, first, y) PROVE x = y
  <2>1. Place(C, x) = Place(C, y) /\ Place(C, x) \in Int
    <3>1. Place(C, x) \in 1..Cardinality(C) /\ Cardinality(C) \in Nat
      BY <1>2, Places, FS_CardinalityType
    <3> QED BY <1>3, <3>1 DEF FileOf
  <2>2. \A u, v \in C : u < v => Place(C, u) < Place(C, v)
    BY <1>2, Places
  <2>3. ~(x < y) /\ ~(y < x) /\ x \in Int /\ y \in Int
    BY <1>2, <2>1, <2>2
  <2> QED BY <2>3
<1>4. ASSUME NEW x \in C, NEW y \in C, x < y
      PROVE  /\ Sooner(FileOf(C, first, x), FileOf(C, first, y))
             /\ ~Sooner(FileOf(C, first, y), FileOf(C, first, x))
             /\ FileOf(C, first, x).start # FileOf(C, first, y).start
  <2>1. x \in 1..Len(capture) /\ y \in 1..Len(capture) + 1
    BY <1>1, <1>4
  <2>2. FileOf(C, first, x).start = capture[x].time /\ capture[x].time \in Nat
    BY <1>1, <2>1 DEF FileOf
  <2>3. FileOf(C, first, x).start # FileOf(C, first, y).start
    <3>1. x # y
      BY <1>4, <2>1, <1>1
    <3> QED BY <1>3, <3>1 DEF StartApart
  <2>4. CASE y \in 1..Len(capture)
    <3>1. FileOf(C, first, y).start = capture[y].time /\ capture[y].time \in Nat
      BY <1>1, <2>4 DEF FileOf
    <3>2. capture[x].time <= capture[y].time
      <4>1. x \in DOMAIN capture /\ y \in DOMAIN capture
        BY <2>1, <2>4, LenProperties DEF CaptureType
      <4>2. x <= y
        BY <1>4, <2>1, <2>4
      <4> QED BY <4>1, <4>2 DEF InOrder
    <3> QED BY <2>2, <2>3, <3>1, <3>2 DEF Sooner, None
  <2>5. CASE y = Len(capture) + 1
    <3>1. FileOf(C, first, y).start = None
      BY <1>1, <2>5 DEF FileOf
    <3> QED BY <2>2, <2>3, <3>1 DEF Sooner, None
  <2> QED BY <1>1, <2>1, <2>4, <2>5
<1>5. b \in Int /\ c \in Int
  BY <1>2
<1>6. CASE b < c
  BY <1>3, <1>4, <1>6 DEF Precedes
<1>7. CASE c < b
  BY <1>3, <1>4, <1>5, <1>7 DEF Precedes
<1>8. CASE b = c
  <2>1. ~(FileOf(C, first, b).slot < FileOf(C, first, b).slot)
    <3>1. FileOf(C, first, b).slot \in Int
      <4>1. Place(C, b) \in 1..Cardinality(C) /\ Cardinality(C) \in Nat
        BY <1>2, Places, FS_CardinalityType
      <4> QED BY <4>1 DEF FileOf, RingSlots
    <3> QED BY <3>1
  <2>2. FileOf(C, first, b).start = None \/ FileOf(C, first, b).start \in Nat
    BY <1>1 DEF FileOf
  <2>3. ~Sooner(FileOf(C, first, b), FileOf(C, first, b))
    BY <2>2 DEF Sooner, None
  <2> QED BY <1>5, <1>8, <2>1, <2>3 DEF Precedes
<1> QED BY <1>5, <1>6, <1>7, <1>8

(* The files read before one of them: their number is its place, less one. *)
ReadBefore(F, f) == {g \in F : Precedes(g, f)}

EveryPlaceRead(F) ==
  \A j \in 1..Cardinality(F) : \E f \in F : Cardinality(ReadBefore(F, f)) = j - 1

WrittenInOrder(F) ==
  \A f \in F, j \in Nat : Cardinality(ReadBefore(F, f)) = j - 1 => f.written = j

(* Each place is a file's, and that file was the one written there.        *)
LEMMA CutsRank ==
  ASSUME CaptureType, InOrder, NEW C \in SUBSET (1..Len(capture) + 1), NEW first \in Nat,
         StartApart(C, first),
         NEW F, F = FilesOf(C, first)
  PROVE  /\ Cardinality(F) = Cardinality(C) /\ Cardinality(F) \in Nat
         /\ EveryPlaceRead(F)
         /\ WrittenInOrder(F)
<1>1. C \in SUBSET Int /\ IsFiniteSet(C)
  <2>1. Len(capture) \in Nat
    BY DEF CaptureType
  <2>2. 1 \in Int /\ Len(capture) + 1 \in Int
    BY <2>1
  <2>3. IsFiniteSet(1..Len(capture) + 1)
    BY <2>2, FS_Interval
  <2>4. IsFiniteSet(C)
    BY <2>3, FS_Subset
  <2>5. \A n \in 1..Len(capture) + 1 : n \in Int
    BY <2>1
  <2> QED BY <2>4, <2>5
<1>2. PICK file : file = [c \in C |-> FileOf(C, first, c)]
  OBVIOUS
<1>3. file \in [C -> F] /\ (\A f \in F : \E c \in C : file[c] = f)
      /\ \A b, c \in C : /\ file[b] = file[c] => b = c
                         /\ Precedes(file[b], file[c]) <=> b < c
  BY <1>2, CutsPrecede DEF FilesOf
<1>4. Cardinality(F) = Cardinality(C) /\ Cardinality(F) \in Nat
  <2>1. \A x, y \in C : file[x] = file[y] => x = y
    BY <1>3
  <2>2. IsFiniteSet(F) /\ Cardinality(F) = Cardinality(C)
    BY <1>1, <1>3, <2>1, SameSize
  <2> QED BY <2>2, FS_CardinalityType
<1>5. ASSUME NEW c \in C
      PROVE  Cardinality(ReadBefore(F, file[c])) = Place(C, c) - 1
  <2>1. PICK V : V = {b \in C : b < c}
    OBVIOUS
  <2>2. PICK G : G = ReadBefore(F, file[c])
    OBVIOUS
  <2>3. PICK earlier : earlier = [b \in V |-> file[b]]
    OBVIOUS
  <2>4. /\ earlier \in [V -> G]
        /\ \A x, y \in V : earlier[x] = earlier[y] => x = y
        /\ \A g \in G : \E b \in V : earlier[b] = g
    BY <1>3, <2>1, <2>2, <2>3 DEF ReadBefore
  <2>5. IsFiniteSet(V)
    BY <1>1, <2>1, FS_Subset
  <2>6. Cardinality(G) = Cardinality(V)
    BY <2>4, <2>5, SameSize
  <2>7. Cardinality(V) = Place(C, c) - 1
    BY <1>1, <2>1, Places
  <2> QED BY <2>2, <2>6, <2>7
<1>6. ASSUME NEW j \in 1..Cardinality(F)
      PROVE  \E f \in F : Cardinality(ReadBefore(F, f)) = j - 1
  <2>1. PICK c \in C : Place(C, c) = j
    BY <1>1, <1>4, Places
  <2>2. file[c] \in F /\ Cardinality(ReadBefore(F, file[c])) = j - 1
    BY <1>3, <1>5, <2>1
  <2> QED BY <2>2
<1>7. ASSUME NEW f \in F PROVE f.written = Cardinality(ReadBefore(F, f)) + 1
  <2>1. PICK c \in C : file[c] = f
    BY <1>3
  <2>2. f.written = Place(C, c)
    BY <1>2, <2>1 DEF FileOf
  <2>3. Place(C, c) \in 1..Cardinality(C)
    BY <1>1, Places
  <2> QED BY <1>4, <1>5, <2>1, <2>2, <2>3
<1>8. WrittenInOrder(F)
  <2> SUFFICES ASSUME NEW f \in F, NEW j \in Nat, Cardinality(ReadBefore(F, f)) = j - 1
               PROVE  f.written = j
    BY DEF WrittenInOrder
  <2>1. f.written = j - 1 + 1
    BY <1>7
  <2> QED BY <2>1
<1>9. EveryPlaceRead(F)
  BY <1>6 DEF EveryPlaceRead
<1> QED BY <1>4, <1>8, <1>9

(* So the j-th file read is the one that was written j-th.                 *)
LEMMA CutsInOrder ==
  ASSUME CaptureType, InOrder, NEW C \in SUBSET (1..Len(capture) + 1), NEW first \in Nat,
         StartApart(C, first),
         NEW j \in DOMAIN ResolveCapturePaths(FilesOf(C, first))
  PROVE  ResolveCapturePaths(FilesOf(C, first))[j].written = j
<1>1. PICK F : F = FilesOf(C, first)
  OBVIOUS
<1>2. PICK order : order = ResolveCapturePaths(F)
  OBVIOUS
<1>3. order = [n \in 1..Cardinality(F) |->
                 CHOOSE f \in F : Cardinality(ReadBefore(F, f)) = n - 1]
  BY <1>2 DEF ResolveCapturePaths, Ranked, ReadBefore
<1>4. /\ Cardinality(F) \in Nat
      /\ EveryPlaceRead(F)
      /\ WrittenInOrder(F)
  BY <1>1, CutsRank
<1>5. j \in 1..Cardinality(F)
  <2>1. j \in DOMAIN order
    BY <1>1, <1>2
  <2>2. DOMAIN order = 1..Cardinality(F)
    BY <1>3
  <2> QED BY <2>1, <2>2
<1>6. order[j] \in F /\ Cardinality(ReadBefore(F, order[j])) = j - 1
  <2>1. \E f \in F : Cardinality(ReadBefore(F, f)) = j - 1
    BY <1>4, <1>5 DEF EveryPlaceRead
  <2>2. order[j] = CHOOSE f \in F : Cardinality(ReadBefore(F, f)) = j - 1
    BY <1>3, <1>5
  <2> QED BY <2>1, <2>2
<1>7. order[j].written = j
  <2>1. j \in Nat
    BY <1>4, <1>5
  <2> QED BY <1>4, <1>6, <2>1 DEF WrittenInOrder
<1> QED BY <1>1, <1>2, <1>7

LEMMA RingRead == CaptureType /\ InOrder => RingInOrder
<1> SUFFICES ASSUME CaptureType, InOrder, NEW cuts \in SUBSET (1..Len(capture) + 1),
                    NEW first \in 0..RingSlots - 1,
                    \A a, b \in RingFiles(cuts, first) : a # b => a.start # b.start,
                    NEW j \in DOMAIN ResolveCapturePaths(RingFiles(cuts, first))
             PROVE  ResolveCapturePaths(RingFiles(cuts, first))[j].written = j
  BY DEF RingInOrder
<1>1. RingFiles(cuts, first) = FilesOf(cuts, first)
  BY DEF RingFiles, FilesOf, FileOf, Place
<1>2. first \in Nat
  BY DEF RingSlots
<1>3. StartApart(cuts, first)
  <2>1. \A c \in cuts : FileOf(cuts, first, c) \in FilesOf(cuts, first)
    BY DEF FilesOf
  <2> QED BY <1>1, <2>1 DEF StartApart
<1> QED BY <1>1, <1>2, <1>3, CutsInOrder

(* resolve_capture_paths (analyze_ethercan_pcap.py:178-195) reads the      *)
(* files of a ring in the order they were written, for every capture,      *)
(* every way of cutting it into files and every slot that the ring had     *)
(* reached, unless two files start at the same tick.                       *)
THEOREM RingReadInOrder == Spec => []RingInOrder
<1>1. ErrorsInv => RingInOrder
  BY RingRead DEF ErrorsInv, TypeInv
<1> QED BY <1>1, AlwaysErrors, PTL
-----------------------------------------------------------------------------
(* The frames a decoder reads of a payload are a prefix of it.             *)
LEMMA FramesPrefix ==
  ASSUME NEW p \in Seq(FrameType), NEW stops
  PROVE  LET q == FramesUntil(p, stops)
         IN  /\ q \in Seq(FrameType) /\ Len(q) \in Nat /\ Len(q) <= Len(p)
             /\ \A i \in 1..Len(q) : q[i] = p[i]
<1> DEFINE good == {k \in DOMAIN p : (1..k) \cap stops = {}}
<1>0. Len(p) \in Nat
  BY LenProperties
<1>1. IsFiniteSet(1..Len(p)) /\ Cardinality(1..Len(p)) = Len(p)
  <2>1. 1 \in Int /\ Len(p) \in Int
    BY <1>0
  <2> QED BY <1>0, <2>1, FS_Interval
<1>2. good \in SUBSET (1..Len(p))
  BY LenProperties
<1> HIDE DEF good
<1>3. Cardinality(good) \in 0..Len(p)
  <2>1. IsFiniteSet(good) /\ Cardinality(good) <= Cardinality(1..Len(p))
    BY <1>1, <1>2, FS_Subset
  <2>2. Cardinality(good) \in Nat
    BY <2>1, FS_CardinalityType
  <2> QED BY <1>0, <1>1, <2>1, <2>2
<1>4. \A i \in 1..Cardinality(good) : p[i] \in FrameType
  BY <1>3
<1>5. /\ SubSeq(p, 1, Cardinality(good)) \in Seq(FrameType)
      /\ Len(SubSeq(p, 1, Cardinality(good))) = Cardinality(good)
      /\ \A i \in 1..Cardinality(good) : SubSeq(p, 1, Cardinality(good))[i] = p[i]
  BY <1>3, <1>4, SubSeqProperties
<1>6. FramesUntil(p, stops) = SubSeq(p, 1, Cardinality(good))
  BY DEF FramesUntil, good
<1>7. PICK q : q = FramesUntil(p, stops)
  OBVIOUS
<1> QED BY <1>0, <1>3, <1>5, <1>6, <1>7

(* The host frames of record j, and how many of them have been looked at:  *)
(* all but the rest for the record read last, all for those before it.     *)
Frames(j) == HostFrames(capture[j].rec.payload)
Done(j) == IF j = Len(capture) THEN Len(Frames(j)) - Len(rest) ELSE Len(Frames(j))
(* The context a frame names.                                              *)
Ctx(f) == <<f.ch, f.echo>>
(* The records whose frames may ask, and those whose frames may answer.    *)
Asker(j) == ~In(capture[j].rec.ep) /\ capture[j].rec.type = "S"
Answerer(j) ==
  In(capture[j].rec.ep) /\ capture[j].rec.type # "S" /\ capture[j].rec.status = 0
(* Record j has a frame, already looked at, that names the context.        *)
Has(j, x) == \E f \in 1..Done(j) : Ctx(capture[j].rec.payload[f]) = x
(* Of the frames looked at so far, one of the device asked for the context *)
(* and no later record of it answered.                                     *)
OpenAt(d, x) ==
  \E j \in DOMAIN capture :
    /\ capture[j].rec.dev = d /\ Asker(j) /\ Has(j, x)
    /\ \A m \in DOMAIN capture : m > j /\ capture[m].rec.dev = d => ~(Answerer(m) /\ Has(m, x))

(* While frames are left, they are the last of the record read last, and   *)
(* the row is that record's.                                               *)
ReadingInv ==
  rest # <<>> =>
    LET n == Len(capture)
        r == capture[n].rec
    IN  /\ n > 0 /\ row = [dev |-> r.dev, ep |-> r.ep, type |-> r.type, status |-> r.status]
        /\ Len(rest) <= Len(Frames(n))
        /\ \A i \in 1..Len(rest) : rest[i] = r.payload[Done(n) + i]
(* OutstandingIsReal between two frames of one payload too.                *)
OpenInv == \A d \in Devices, x \in Contexts : x \in echo[d].outstanding <=> OpenAt(d, x)

(* A record on its own opens and closes nothing.                           *)
LEMMA RecordLeavesOpen ==
  ASSUME TypeInv, ReadingInv, OpenInv, NEW r \in Records, NEW step \in Steps, Record(r, Now + step)
  PROVE  ReadingInv' /\ OpenInv'
<1>0. PICK n : n = Len(capture) + 1
  OBVIOUS
<1>1. PICK t \in Nat : t = Now + step
  BY TimeType DEF TypeInv
<1>2. /\ r \in RecordType /\ r.payload \in Seq(FrameType)
      /\ capture' = Append(capture, [time |-> t, rec |-> r])
  BY <1>1, CaptureAssumption DEF Record, RecordType
<1>3. /\ n \in Nat /\ n > 0 /\ DOMAIN capture = 1..n - 1 /\ DOMAIN capture' = 1..n
      /\ \A j \in 1..n - 1 : capture'[j] = capture[j]
      /\ capture'[n].rec = r /\ Len(capture') = n
  <2>1. Len(capture') = n
    BY <1>0, <1>1, <1>2, Longer, LenProperties, AppendProperties DEF TypeInv, CaptureType
  <2> QED BY <1>0, <1>1, <1>2, <2>1, Longer DEF TypeInv
<1>4. /\ rest = <<>> /\ rest' = HostFrames(r.payload)
      /\ row' = [dev |-> r.dev, ep |-> r.ep, type |-> r.type, status |-> r.status]
      /\ echo' = [echo EXCEPT ![r.dev].in_records = IF In(r.ep) THEN @ + 1 ELSE @]
  BY DEF Record, EchoRow
<1>5. /\ Len(rest') \in Nat /\ Len(rest') <= Len(r.payload)
      /\ \A i \in 1..Len(rest') : rest'[i] = r.payload[i]
  BY <1>2, <1>4, FramesPrefix DEF HostFrames
<1>6. Frames(n)' = rest' /\ Done(n)' = 0
  BY <1>3, <1>4, <1>5 DEF Frames, Done
<1>7. ReadingInv'
  BY <1>3, <1>4, <1>5, <1>6 DEF ReadingInv
<1>8. ASSUME NEW j \in 1..n - 1
      PROVE  /\ (Asker(j)' <=> Asker(j)) /\ (Answerer(j)' <=> Answerer(j))
             /\ \A x : Has(j, x)' <=> Has(j, x)
  <2>1. capture'[j] = capture[j] /\ j # n /\ Len(<<>>) = 0
    BY <1>3
  <2>2. Len(Frames(j)) \in Nat
    <3>1. capture[j].rec.payload \in Seq(FrameType)
      BY <1>1, <1>2, <1>0, Longer DEF TypeInv, RecordType
    <3> QED BY <3>1, FramesPrefix DEF Frames, HostFrames
  <2>3. Done(j)' = Done(j)
    BY <1>3, <1>4, <2>1, <2>2 DEF Done, Frames
  <2> QED BY <2>1, <2>3 DEF Asker, Answerer, Has
<1>9. \A x : ~Has(n, x)'
  BY <1>6 DEF Has
<1>10. ASSUME NEW d \in Devices, NEW x \in Contexts
       PROVE  x \in echo'[d].outstanding <=> OpenAt(d, x)'
  <2>1. echo'[d].outstanding = echo[d].outstanding
    <3>1. echo \in [Devices -> EchoStatsType] /\ r.dev \in Devices
      BY <1>2 DEF TypeInv, TypeOK, RecordType
    <3>2. CASE d # r.dev
      BY <1>4, <3>1, <3>2
    <3>3. CASE d = r.dev
      <4> DEFINE s == echo[d]
                 k == IF In(r.ep) THEN s.in_records + 1 ELSE s.in_records
                 e == [s EXCEPT !.in_records = k]
      <4>1. echo'[d] = e /\ s \in EchoStatsType
        BY <1>4, <3>1, <3>3
      <4>2. e.outstanding = s.outstanding
        <5> HIDE DEF s, k
        <5> QED BY <4>1 DEF EchoStatsType
      <4> QED BY <4>1, <4>2
    <3> QED BY <3>2, <3>3
  <2>2. OpenAt(d, x)' <=> OpenAt(d, x)
    <3>1. \A j : j \in 1..n <=> (j \in 1..n - 1 \/ j = n)
      BY <1>3
    <3>2. \A j \in 1..n - 1 : Has(j, x)' <=> Has(j, x)
      BY <1>8
    <3>3. \A j \in 1..n - 1 : (Asker(j)' <=> Asker(j)) /\ (Answerer(j)' <=> Answerer(j))
      BY <1>8
    <3> QED BY <1>3, <1>9, <3>1, <3>2, <3>3 DEF OpenAt
  <2> QED BY <2>1, <2>2 DEF OpenInv
<1> QED BY <1>7, <1>10 DEF OpenInv

(* A request opens the context it names ...                                *)
LEMMA FrameOpens ==
  ASSUME NEW s \in EchoStatsType, NEW f \in FrameType, f.echo # RX_ECHO_ID
  PROVE  RequestFrom(s, f).outstanding = s.outstanding \cup {Ctx(f)}
<1> DEFINE c == <<f.ch, f.echo>>
<1>1. c = Ctx(f)
  BY DEF Ctx
<1> HIDE DEF c
<1> QED BY <1>1 DEF RequestFrom, EchoStatsType, c

(* ... and an echo closes it; a frame from the bus closes none.            *)
LEMMA FrameCloses ==
  ASSUME NEW s \in EchoStatsType, NEW f \in FrameType
  PROVE  EchoFrom(s, f).outstanding = s.outstanding \ {Ctx(f)}
<1>1. CASE f.echo = RX_ECHO_ID
  <2>1. Ctx(f) \notin Contexts
    BY <1>1, RecordsAssumption DEF Ctx, Contexts, RX_ECHO_ID
  <2>2. s.outstanding \subseteq Contexts
    BY DEF EchoStatsType
  <2> QED BY <1>1, <2>1, <2>2 DEF EchoFrom, EchoStatsType
<1>2. CASE f.echo # RX_ECHO_ID /\ Ctx(f) \in s.outstanding
  BY <1>2 DEF EchoFrom, EchoStatsType, Ctx
<1>3. CASE f.echo # RX_ECHO_ID /\ Ctx(f) \notin s.outstanding
  BY <1>3 DEF EchoFrom, EchoStatsType, Ctx
<1> QED BY <1>1, <1>2, <1>3

(* The frame at hand is the next of the record read last.                  *)
LEMMA NextFrame ==
  ASSUME TypeInv, ReadingInv, EchoDecodes
  PROVE  /\ Len(capture) \in DOMAIN capture /\ capture[Len(capture)].rec \in RecordType
         /\ row.dev = capture[Len(capture)].rec.dev
         /\ row.ep = capture[Len(capture)].rec.ep
         /\ row.type = capture[Len(capture)].rec.type
         /\ row.status = capture[Len(capture)].rec.status
         /\ Done(Len(capture)) \in Nat
         /\ Head(rest) = capture[Len(capture)].rec.payload[Done(Len(capture)) + 1]
         /\ Done(Len(capture))' = Done(Len(capture)) + 1
         /\ \A j \in DOMAIN capture : j # Len(capture) => Done(j)' = Done(j)
         /\ ReadingInv'
<1>0. PICK n : n = Len(capture)
  OBVIOUS
<1>1. rest # <<>> /\ rest' = Tail(rest) /\ UNCHANGED <<row, capture>>
  BY DEF EchoDecodes, EchoFrame
<1>2. /\ Len(rest) \in Nat \ {0} /\ Len(rest') = Len(rest) - 1 /\ Head(rest) = rest[1]
      /\ \A i \in 1..Len(rest) - 1 : rest'[i] = rest[i + 1]
  <2>1. rest \in Seq(FrameType)
    BY DEF TypeInv, TypeOK
  <2> QED BY <1>1, <2>1, HeadTailProperties, EmptySeq, LenProperties
<1>3. n \in Nat /\ n > 0 /\ n \in DOMAIN capture /\ capture[n].rec \in RecordType
  <2>1. n \in Nat /\ DOMAIN capture = 1..n
    BY <1>0, LenProperties DEF TypeInv, CaptureType
  <2>2. n > 0
    BY <1>0, <1>1 DEF ReadingInv
  <2>3. n \in 1..n
    BY <2>1, <2>2
  <2>4. capture[n] \in [time : Nat, rec : RecordType]
    BY <1>0, <2>3, ElementOfSeq DEF TypeInv, CaptureType
  <2> QED BY <2>1, <2>2, <2>3, <2>4
<1>4. PICK r : r = capture[n].rec
  OBVIOUS
<1>5. /\ row = [dev |-> r.dev, ep |-> r.ep, type |-> r.type, status |-> r.status]
      /\ Len(rest) <= Len(Frames(n)) /\ \A i \in 1..Len(rest) : rest[i] = r.payload[Done(n) + i]
  BY <1>0, <1>1, <1>4 DEF ReadingInv
<1>6. Len(Frames(n)) \in Nat /\ Frames(n)' = Frames(n)
  <2>1. r.payload \in Seq(FrameType)
    BY <1>3, <1>4 DEF RecordType
  <2> QED BY <1>1, <1>4, <2>1, FramesPrefix DEF Frames, HostFrames
<1>7. Done(n) = Len(Frames(n)) - Len(rest) /\ Done(n)' = Done(n) + 1 /\ Done(n) \in Nat
  <2>1. Done(n) = Len(Frames(n)) - Len(rest)
    BY <1>0 DEF Done
  <2>2. Done(n)' = Len(Frames(n)) - Len(rest')
    BY <1>0, <1>1, <1>6 DEF Done
  <2> QED BY <1>2, <1>5, <1>6, <2>1, <2>2
<1>8. Head(rest) = r.payload[Done(n) + 1]
  <2>1. 1 \in 1..Len(rest)
    BY <1>2
  <2> QED BY <1>2, <1>5, <2>1
<1>9. \A j \in DOMAIN capture : j # n => Done(j)' = Done(j)
  BY <1>0, <1>1 DEF Done, Frames
<1>10. ReadingInv'
  <2>1. Len(rest') <= Len(Frames(n))'
    BY <1>2, <1>5, <1>6
  <2>2. ASSUME NEW i \in 1..Len(rest') PROVE rest'[i] = r.payload[Done(n)' + i]
    <3>1. i \in Nat /\ i \in 1..Len(rest) - 1 /\ i + 1 \in 1..Len(rest)
      BY <1>2
    <3>2. rest'[i] = r.payload[Done(n) + (i + 1)]
      BY <1>2, <1>5, <3>1
    <3>3. Done(n) + (i + 1) = Done(n)' + i
      BY <1>7, <3>1
    <3> QED BY <3>2, <3>3
  <2> QED BY <1>0, <1>1, <1>3, <1>4, <1>5, <2>1, <2>2 DEF ReadingInv
<1>11. row.dev = r.dev /\ row.ep = r.ep /\ row.type = r.type /\ row.status = r.status
  BY <1>5
<1>12. Done(Len(capture)) = Done(n) /\ Done(Len(capture))' = Done(n)'
  BY <1>0, <1>1 DEF Done, Frames
<1> HIDE DEF Done
<1> QED BY <1>0, <1>3, <1>4, <1>7, <1>8, <1>9, <1>10, <1>11, <1>12

(* A frame opens and closes what the records say it does.                  *)
LEMMA FrameKeepsOpen ==
  ASSUME TypeInv, ReadingInv, OpenInv, EchoDecodes
  PROVE  OpenInv'
<1>0. PICK n : n = Len(capture)
  OBVIOUS
<1>1. PICK r : r = capture[n].rec
  OBVIOUS
<1>2. PICK f : f = Head(rest)
  OBVIOUS
<1>3. /\ n \in DOMAIN capture /\ r \in RecordType /\ capture' = capture
      /\ row.dev = r.dev /\ row.ep = r.ep /\ row.type = r.type /\ row.status = r.status
  BY <1>0, <1>1, NextFrame DEF EchoDecodes
<1>4. n \in Nat /\ DOMAIN capture = 1..n
  BY <1>0, LenProperties DEF TypeInv, CaptureType
<1>5. \A j \in DOMAIN capture : (Asker(j)' <=> Asker(j)) /\ (Answerer(j)' <=> Answerer(j))
  BY <1>3 DEF Asker, Answerer
<1>6. \A j \in DOMAIN capture : j # n => \A x : Has(j, x)' <=> Has(j, x)
  BY <1>0, <1>3, NextFrame DEF Has
<1>7. \A x : Has(n, x)' <=> Has(n, x) \/ x = Ctx(f)
  <2>1. PICK k : k = Done(n)
    OBVIOUS
  <2>2. k \in Nat /\ Done(n)' = k + 1 /\ f = r.payload[k + 1]
    <3>1. Len(capture)' = n
      BY <1>0, <1>3
    <3>2. Done(Len(capture))' = Done(n)'
      BY <1>0, <1>3 DEF Done, Frames
    <3> QED BY <1>0, <1>1, <1>2, <2>1, <3>2, NextFrame
  <2>3. \A i : i \in 1..k + 1 <=> i \in 1..k \/ i = k + 1
    BY <2>2
  <2>4. \A x : Has(n, x) <=> \E i \in 1..k : Ctx(r.payload[i]) = x
    BY <1>1, <2>1 DEF Has
  <2>5. \A x : Has(n, x)' <=> \E i \in 1..k + 1 : Ctx(r.payload[i]) = x
    BY <1>1, <1>3, <2>2 DEF Has, Ctx
  <2>6. PICK p : p = r.payload
    OBVIOUS
  <2>7. ASSUME NEW x PROVE (\E i \in 1..k + 1 : Ctx(p[i]) = x) <=> (\E i \in 1..k : Ctx(p[i]) = x) \/ x = Ctx(p[k + 1])
    BY <2>3
  <2> QED BY <2>2, <2>4, <2>5, <2>6, <2>7
<1>8. /\ f \in FrameType /\ r.dev \in Devices /\ echo \in [Devices -> EchoStatsType]
      /\ echo' = IF Counts(row, f)
                 THEN [echo EXCEPT ![r.dev] = IF In(r.ep) THEN EchoFrom(@, f) ELSE RequestFrom(@, f)]
                 ELSE echo
  <2>1. row.dev \in Devices
    BY FrameAtHand DEF RowType
  <2>2. echo' = IF Counts(row, Head(rest))
             THEN [echo EXCEPT ![row.dev] =
                     IF In(row.ep) THEN EchoFrom(@, Head(rest)) ELSE RequestFrom(@, Head(rest))]
             ELSE echo
    BY DEF EchoDecodes, EchoFrame
  <2> QED BY <1>2, <1>3, <2>1, <2>2, FrameAtHand DEF TypeInv, TypeOK
<1>9. SUFFICES ASSUME NEW d \in Devices, NEW x \in Contexts
               PROVE  x \in echo'[d].outstanding <=> OpenAt(d, x)'
  BY DEF OpenInv
<1>10. (x \in echo[d].outstanding <=> OpenAt(d, x)) /\ echo[d] \in EchoStatsType
  BY <1>8 DEF OpenInv
<1>11. ASSUME echo'[d].outstanding = echo[d].outstanding,
              \A j \in DOMAIN capture : /\ (Asker(j) /\ capture[j].rec.dev = d) => (Has(j, x)' <=> Has(j, x))
                                        /\ (Answerer(j) /\ capture[j].rec.dev = d) => (Has(j, x)' <=> Has(j, x))
       PROVE  x \in echo'[d].outstanding <=> OpenAt(d, x)'
  BY <1>3, <1>5, <1>10, <1>11 DEF OpenAt
<1>12. CASE d # r.dev
  BY <1>1, <1>6, <1>8, <1>11, <1>12
<1>13. CASE d = r.dev /\ x # Ctx(f)
  <2>1. \A j \in DOMAIN capture : Has(j, x)' <=> Has(j, x)
    BY <1>6, <1>7, <1>13
  <2>2. x \in echo'[d].outstanding <=> x \in echo[d].outstanding
    <3>1. CASE ~Counts(row, f)
      BY <1>8, <3>1
    <3>2. CASE Counts(row, f) /\ In(r.ep)
      BY <1>8, <1>10, <1>13, <3>2, FrameCloses
    <3>3. CASE Counts(row, f) /\ ~In(r.ep)
      <4>1. f.echo # RX_ECHO_ID
        BY <1>3, <3>3 DEF Counts
      <4> QED BY <1>8, <1>10, <1>13, <3>3, <4>1, FrameOpens
    <3> QED BY <3>1, <3>2, <3>3
  <2> QED BY <1>3, <1>5, <1>10, <2>1, <2>2 DEF OpenAt
<1>14. CASE d = r.dev /\ x = Ctx(f)
  <2>0. f.echo # RX_ECHO_ID
    BY <1>14, RecordsAssumption DEF Ctx, Contexts, RX_ECHO_ID
  <2>1. CASE Asker(n)
    <3>1. x \in echo'[d].outstanding
      <4>1. Counts(row, f) /\ ~In(r.ep)
        BY <1>1, <1>3, <2>0, <2>1 DEF Asker, Counts
      <4> QED BY <1>8, <1>10, <1>14, <2>0, <4>1, FrameOpens
    <3>2. ~Answerer(n)
      BY <2>1 DEF Asker, Answerer
    <3>3. \A m \in DOMAIN capture : ~(m > n)
      BY <1>4
    <3>4. OpenAt(d, x)'
      BY <1>1, <1>3, <1>5, <1>7, <1>14, <2>1, <3>3 DEF OpenAt
    <3> QED BY <3>1, <3>4
  <2>2. CASE Answerer(n)
    <3>1. x \notin echo'[d].outstanding
      <4>1. Counts(row, f) /\ In(r.ep)
        BY <1>1, <1>3, <2>0, <2>2 DEF Answerer, Counts, RecordType
      <4> QED BY <1>8, <1>10, <1>14, <4>1, FrameCloses
    <3>2. ~Asker(n)
      BY <2>2 DEF Asker, Answerer
    <3>3. \A m \in DOMAIN capture : m # n => n > m
      BY <1>4
    <3>4. ~OpenAt(d, x)'
      BY <1>1, <1>3, <1>5, <1>7, <1>14, <2>2, <3>2, <3>3 DEF OpenAt
    <3> QED BY <3>1, <3>4
  <2>3. CASE ~Asker(n) /\ ~Answerer(n)
    <3>1. ~Counts(row, f)
      BY <1>1, <1>3, <2>0, <2>3 DEF Asker, Answerer, Counts, RecordType
    <3>2. echo' = echo
      BY <1>8, <3>1
    <3> QED BY <1>6, <1>11, <2>3, <3>2
  <2> QED BY <2>1, <2>2, <2>3
<1> QED BY <1>12, <1>13, <1>14

(* The contexts the echo report calls open are those whose last frame was  *)
(* a request: an adapter that leaks contexts is told from one that echoes  *)
(* late, for every capture, every payload and every reuse of an id         *)
(* (analyze_usbcan_echo.py:104-139).                                       *)
THEOREM OpenContextsTold == Spec => []OutstandingIsReal
<1> DEFINE Inv == TypeInv /\ ReadingInv /\ OpenInv
<1>1. Init => Inv
  <2> SUFFICES ASSUME Init PROVE ReadingInv /\ OpenInv
    BY InitTyped
  <2>1. rest = <<>> /\ capture = <<>> /\ echo = [d \in Devices |-> NewDevice]
    BY DEF Init, EchoInit
  <2>2. ASSUME NEW d \in Devices, NEW x PROVE x \notin echo[d].outstanding /\ ~OpenAt(d, x)
    BY <2>1 DEF NewDevice, OpenAt
  <2> QED BY <2>1, <2>2 DEF ReadingInv, OpenInv
<1>2. Inv /\ [Next]_vars => Inv'
  <2> SUFFICES ASSUME Inv, [Next]_vars PROVE Inv'
    OBVIOUS
  <2>1. ASSUME NEW r \in Records, NEW step \in Steps, Record(r, Now + step) PROVE Inv'
    BY <2>1, RecordTyped, RecordLeavesOpen
  <2>2. CASE EchoDecodes
    BY <2>2, EchoDecodesTyped, NextFrame, FrameKeepsOpen
  <2>3. CASE GsDecodes \/ UNCHANGED vars
    <3>1. UNCHANGED <<urb, echo, row, rest, capture>>
      BY <2>3 DEF GsDecodes, vars, urbVars, echoVars
    <3>2. TypeInv' /\ ReadingInv'
      BY <3>1 DEF TypeInv, TypeOK, CaptureType, ReadingInv, Done, Frames
    <3>3. OpenInv'
      BY <3>1 DEF OpenInv, OpenAt, Asker, Answerer, Has, Done, Frames
    <3> QED BY <3>2, <3>3
  <2> QED BY <2>1, <2>2, <2>3 DEF Next
<1>3. Inv => OutstandingIsReal
  <2> SUFFICES ASSUME Inv, rest = <<>>, NEW d \in Devices
               PROVE  echo[d].outstanding =
        {x \in Contexts : \E j \in DOMAIN capture :
           /\ capture[j].rec.dev = d /\ Asks(j, x)
           /\ \A m \in DOMAIN capture : m > j /\ capture[m].rec.dev = d => ~Answers(m, x)}
    BY DEF OutstandingIsReal
  <2>1. echo[d].outstanding \subseteq Contexts
    BY DEF TypeInv, TypeOK, EchoStatsType
  <2>2. ASSUME NEW j \in DOMAIN capture PROVE Done(j) = Len(Frames(j))
    <3>0. capture[j] \in [time : Nat, rec : RecordType]
      BY ElementOfSeq, LenProperties DEF TypeInv, CaptureType
    <3>1. capture[j].rec.payload \in Seq(FrameType)
      BY <3>0 DEF RecordType
    <3>2. Len(Frames(j)) \in Nat
      BY <3>1, FramesPrefix DEF Frames, HostFrames
    <3>3. Len(rest) = 0
      OBVIOUS
    <3> QED BY <3>2, <3>3 DEF Done
  <2>3. ASSUME NEW j \in DOMAIN capture, NEW x
        PROVE  /\ Asks(j, x) <=> Asker(j) /\ Has(j, x)
               /\ Answers(j, x) <=> Answerer(j) /\ Has(j, x)
    BY <2>2 DEF Asks, Answers, Asker, Answerer, Has, Frames, Ctx
  <2>4. ASSUME NEW x \in Contexts
        PROVE  x \in echo[d].outstanding <=>
                 \E j \in DOMAIN capture :
                   /\ capture[j].rec.dev = d /\ Asks(j, x)
                   /\ \A m \in DOMAIN capture : m > j /\ capture[m].rec.dev = d => ~Answers(m, x)
    <3>1. x \in echo[d].outstanding <=> OpenAt(d, x)
      BY DEF OpenInv
    <3> QED BY <2>3, <3>1 DEF OpenAt
  <2> QED BY <2>1, <2>4
<1> QED BY <1>1, <1>2, <1>3, PTL DEF Spec
-----------------------------------------------------------------------------
(* The good completions of an endpoint, which of them are neighbours, and  *)
(* what the statistics s say of a set of them: the time of the last, and   *)
(* the longest gap between neighbours.                                     *)
GoodOf(k) == {j \in Mine(k) : Good(j)}
Adjacent(i, j, S) == /\ i \in S /\ j \in S /\ j > i
                     /\ \A x \in S : x > i => j <= x
Time(j) == capture[j].time
GapOver(s, S) ==
  /\ S = {} <=> s.last_ok = None
  /\ S # {} => \E j \in S : s.last_ok = Time(j) /\ \A x \in S : x <= j
  /\ \A i, j \in S : Adjacent(i, j, S) => Time(j) - Time(i) <= s.max_gap
  /\ \/ s.max_gap = 0
     \/ \E i, j \in S : Adjacent(i, j, S) /\ s.max_gap = Time(j) - Time(i)
GapAt(k) == GapOver(line[k], GoodOf(k))
(* The bucket of a record, the buckets of an endpoint and the records of   *)
(* each: a row counts the records of its slot.                             *)
Slot(j) == capture[j].time \div interval
Slots(k) == {Slot(j) : j \in Mine(k)}
InSlot(k, b) == {j \in Mine(k) : Slot(j) = b}
BucketsAt(k) ==
  /\ DOMAIN bucket[k] = Slots(k)
  /\ \A b \in DOMAIN bucket[k] : bucket[k][b] = Tally(InSlot(k, b))
  /\ \A field \in DOMAIN NewBucket : line[k][field] = Tally(Mine(k))[field]
(* The timeline's part of the inductive invariant.                         *)
TimelineAt(k) == GapAt(k) /\ BucketsAt(k)
TimelineInv == bucket = [k \in Keys |-> bucket[k]] /\ \A k \in Keys : TimelineAt(k)

(* A record is appended.                                                   *)
Recorded(r, t) == /\ r \in RecordType /\ t \in Nat
                  /\ capture' = Append(capture, [time |-> t, rec |-> r])

(* The records before it keep their endpoint, their slot and their kind.   *)
LEMMA OlderRecords ==
  ASSUME CaptureType, NEW r, NEW t, Recorded(r, t), NEW k, NEW n, n = Len(capture) + 1
  PROVE  /\ n \in Nat /\ n > 0 /\ n \notin Mine(k) /\ Mine(k) \subseteq 1..n - 1 /\ IsFiniteSet(Mine(k))
         /\ (k = Key(r) => Mine(k)' = Mine(k) \cup {n}) /\ (k # Key(r) => Mine(k)' = Mine(k))
         /\ \A j \in 1..n - 1 : /\ capture'[j] = capture[j] /\ capture[j].time \in Nat
                                /\ Slot(j)' = Slot(j)
                                /\ (Submit(j)' <=> Submit(j)) /\ (Good(j)' <=> Good(j))
                                /\ (Bad(j)' <=> Bad(j))
         /\ capture'[n].time = t /\ Slot(n)' = t \div interval
         /\ (Submit(n)' <=> r.type = "S") /\ (Good(n)' <=> r.type # "S" /\ r.status = 0)
         /\ (Bad(n)' <=> r.type # "S" /\ r.status # 0)
<1>1. /\ n \in Nat /\ n > 0 /\ DOMAIN capture = 1..n - 1 /\ DOMAIN capture' = 1..n
      /\ \A j \in 1..n - 1 : capture'[j] = capture[j]
      /\ \A j \in 1..n - 1 : capture[j] \in [time : Nat, rec : RecordType]
      /\ capture'[n].rec = r /\ capture'[n].time = t
  BY Longer DEF Recorded
<1>2. \A j \in 1..n - 1 : /\ capture'[j] = capture[j] /\ capture[j].time \in Nat
                          /\ Slot(j)' = Slot(j) /\ (Is(j, k)' <=> Is(j, k))
                          /\ (Submit(j)' <=> Submit(j)) /\ (Good(j)' <=> Good(j))
                          /\ (Bad(j)' <=> Bad(j))
  BY <1>1 DEF Slot, Is, Submit, Good, Bad
<1>3. /\ Slot(n)' = t \div interval /\ (Is(n, k)' <=> k = Key(r))
      /\ (Submit(n)' <=> r.type = "S") /\ (Good(n)' <=> r.type # "S" /\ r.status = 0)
      /\ (Bad(n)' <=> r.type # "S" /\ r.status # 0)
  BY <1>1 DEF Slot, Is, Submit, Good, Bad
<1>4. (k = Key(r) => Mine(k)' = Mine(k) \cup {n}) /\ (k # Key(r) => Mine(k)' = Mine(k))
  <2>1. \A j : j \in 1..n <=> j \in 1..n - 1 \/ j = n
    BY <1>1
  <2>2. Mine(k)' = {j \in 1..n : Is(j, k)'} /\ Mine(k) = {j \in 1..n - 1 : Is(j, k)}
    BY <1>1 DEF Mine
  <2> QED BY <1>2, <1>3, <2>1, <2>2
<1>5. Mine(k) \subseteq 1..n - 1 /\ n \notin Mine(k)
  BY <1>1 DEF Mine
<1>6. IsFiniteSet(Mine(k))
  <2>1. 1 \in Int /\ n - 1 \in Int
    BY <1>1
  <2>2. IsFiniteSet(1..n - 1)
    BY <2>1, FS_Interval
  <2> QED BY <1>5, <2>2, FS_Subset
<1> QED BY <1>1, <1>2, <1>3, <1>4, <1>5, <1>6

(* A count over them is as it was ...                                      *)
LEMMA TallySame ==
  ASSUME CaptureType, NEW r, NEW t, Recorded(r, t), NEW k, NEW S \in SUBSET Mine(k)
  PROVE  Tally(S)' = Tally(S)
<1>1. \A j \in S : (Submit(j)' <=> Submit(j)) /\ (Good(j)' <=> Good(j)) /\ (Bad(j)' <=> Bad(j))
  <2>1. PICK n : n = Len(capture) + 1
    OBVIOUS
  <2>2. S \subseteq 1..n - 1
    BY <2>1, OlderRecords
  <2> QED BY <2>1, <2>2, OlderRecords
<1>2. /\ {j \in S : Submit(j)'} = {j \in S : Submit(j)}
      /\ {j \in S : Good(j)'} = {j \in S : Good(j)}
      /\ {j \in S : Bad(j)'} = {j \in S : Bad(j)}
  BY <1>1
<1> QED BY <1>2 DEF Tally

(* ... and the counts of a bucket go up by the kind of the record,         *)
LEMMA BucketGrows ==
  ASSUME NEW r \in RecordType, NEW a \in Nat, NEW b \in Nat, NEW c \in Nat, NEW d \in Nat
  PROVE  InBucket([records |-> a, submits |-> b, ok |-> c, failed |-> d], r) =
           [records |-> a + 1, submits |-> IF r.type = "S" THEN b + 1 ELSE b,
            ok |-> IF r.type # "S" /\ r.status = 0 THEN c + 1 ELSE c,
            failed |-> IF r.type # "S" /\ r.status # 0 THEN d + 1 ELSE d]
<1>1. PICK s : s = [records |-> a, submits |-> b, ok |-> c, failed |-> d]
  OBVIOUS
<1>2. /\ s.records = a /\ s.submits = b /\ s.ok = c /\ s.failed = d
      /\ s \in [records : Nat, submits : Nat, ok : Nat, failed : Nat]
  BY <1>1
<1> DEFINE good == r.type # "S" /\ r.status = 0
           v1 == s.records + 1
           v2 == IF r.type = "S" THEN s.submits + 1 ELSE s.submits
           v3 == IF good THEN s.ok + 1 ELSE s.ok
           v4 == IF r.type # "S" /\ ~good THEN s.failed + 1 ELSE s.failed
<1>3. InBucket(s, r) = [s EXCEPT !.records = v1, !.submits = v2, !.ok = v3, !.failed = v4]
  BY DEF InBucket
<1>4. /\ v1 = a + 1 /\ v2 = IF r.type = "S" THEN b + 1 ELSE b
      /\ v3 = IF r.type # "S" /\ r.status = 0 THEN c + 1 ELSE c
      /\ v4 = IF r.type # "S" /\ r.status # 0 THEN d + 1 ELSE d
  BY <1>2
<1> HIDE DEF v1, v2, v3, v4
<1>5. [s EXCEPT !.records = v1, !.submits = v2, !.ok = v3, !.failed = v4] =
        [records |-> v1, submits |-> v2, ok |-> v3, failed |-> v4]
  <2>1. PICK s1 : s1 = [s EXCEPT !.records = v1]
    OBVIOUS
  <2>2. s1 = [records |-> v1, submits |-> b, ok |-> c, failed |-> d]
    BY <1>1, <2>1
  <2>3. PICK s2 : s2 = [s1 EXCEPT !.submits = v2]
    OBVIOUS
  <2>4. s2 = [records |-> v1, submits |-> v2, ok |-> c, failed |-> d]
    BY <2>2, <2>3
  <2>5. PICK s3 : s3 = [s2 EXCEPT !.ok = v3]
    OBVIOUS
  <2>6. s3 = [records |-> v1, submits |-> v2, ok |-> v3, failed |-> d]
    BY <2>4, <2>5
  <2>7. [s3 EXCEPT !.failed = v4] = [records |-> v1, submits |-> v2, ok |-> v3, failed |-> v4]
    BY <2>6
  <2> QED BY <2>1, <2>3, <2>5, <2>7
<1> QED BY <1>1, <1>3, <1>4, <1>5

(* as do those over any set of records that it joins.                      *)
LEMMA TallyOneMore ==
  ASSUME CaptureType, NEW r, NEW t, Recorded(r, t), NEW k, NEW S \in SUBSET Mine(k),
         NEW n, n = Len(capture) + 1
  PROVE  Tally(S \cup {n})' = InBucket(Tally(S), r)
<1>1. /\ n \notin S /\ IsFiniteSet(S)
      /\ \A j \in S : (Submit(j)' <=> Submit(j)) /\ (Good(j)' <=> Good(j)) /\ (Bad(j)' <=> Bad(j))
      /\ (Submit(n)' <=> r.type = "S") /\ (Good(n)' <=> r.type # "S" /\ r.status = 0)
      /\ (Bad(n)' <=> r.type # "S" /\ r.status # 0)
  <2>1. n \notin Mine(k) /\ IsFiniteSet(Mine(k))
    BY OlderRecords
  <2>2. IsFiniteSet(S)
    BY <2>1, FS_Subset
  <2>3. S \subseteq 1..n - 1
    BY OlderRecords
  <2>4. \A j \in S : (Submit(j)' <=> Submit(j)) /\ (Good(j)' <=> Good(j)) /\ (Bad(j)' <=> Bad(j))
    BY <2>3, OlderRecords
  <2> QED BY <2>1, <2>2, <2>4, OlderRecords
<1>2. PICK T : T = S \cup {n}
  OBVIOUS
<1>3. ASSUME NEW U \in SUBSET S
      PROVE  Cardinality(U) \in Nat /\ Cardinality(U \cup {n}) = Cardinality(U) + 1
  <2>1. IsFiniteSet(U) /\ n \notin U
    BY <1>1, FS_Subset
  <2> QED BY <2>1, FS_AddElement, FS_CardinalityType
<1>4. Cardinality(S) \in Nat /\ Cardinality(T) = Cardinality(S) + 1
  BY <1>2, <1>3
<1>5. PICK subs, goods, bads : /\ subs = {j \in S : Submit(j)} /\ goods = {j \in S : Good(j)}
                               /\ bads = {j \in S : Bad(j)}
  OBVIOUS
<1>6. subs \in SUBSET S /\ goods \in SUBSET S /\ bads \in SUBSET S
  BY <1>5
<1>7. /\ {j \in T : Submit(j)'} = IF r.type = "S" THEN subs \cup {n} ELSE subs
      /\ {j \in T : Good(j)'} = IF r.type # "S" /\ r.status = 0 THEN goods \cup {n} ELSE goods
      /\ {j \in T : Bad(j)'} = IF r.type # "S" /\ r.status # 0 THEN bads \cup {n} ELSE bads
  BY <1>1, <1>2, <1>5
<1>8. PICK a \in Nat, b \in Nat, c \in Nat, d \in Nat :
        /\ a = Cardinality(S) /\ b = Cardinality(subs) /\ c = Cardinality(goods) /\ d = Cardinality(bads)
  BY <1>3, <1>4, <1>6
<1>9. /\ Cardinality({j \in T : Submit(j)'}) = IF r.type = "S" THEN b + 1 ELSE b
      /\ Cardinality({j \in T : Good(j)'}) = IF r.type # "S" /\ r.status = 0 THEN c + 1 ELSE c
      /\ Cardinality({j \in T : Bad(j)'}) = IF r.type # "S" /\ r.status # 0 THEN d + 1 ELSE d
  BY <1>3, <1>6, <1>7, <1>8
<1>10. Tally(S) = [records |-> a, submits |-> b, ok |-> c, failed |-> d]
  BY <1>5, <1>8 DEF Tally
<1>11. Tally(T)' = [records |-> a + 1, submits |-> IF r.type = "S" THEN b + 1 ELSE b,
                    ok |-> IF r.type # "S" /\ r.status = 0 THEN c + 1 ELSE c,
                    failed |-> IF r.type # "S" /\ r.status # 0 THEN d + 1 ELSE d]
  BY <1>4, <1>8, <1>9 DEF Tally
<1>12. Tally(T)' = InBucket(Tally(S), r)
  <2>1. r \in RecordType
    BY DEF Recorded
  <2>2. InBucket([records |-> a, submits |-> b, ok |-> c, failed |-> d], r) = Tally(T)'
    BY <1>11, <2>1, BucketGrows
  <2> QED BY <1>10, <2>2
<1> QED BY <1>2, <1>12

(* A good completion joins those of its endpoint, as the last of them.     *)
LEMMA GoodGrow ==
  ASSUME CaptureType, NEW r, NEW t, Recorded(r, t), NEW k, NEW n, n = Len(capture) + 1
  PROVE  /\ n \in Nat /\ n \notin GoodOf(k) /\ GoodOf(k) \subseteq 1..n - 1
         /\ k = Key(r) /\ r.type # "S" /\ r.status = 0 => GoodOf(k)' = GoodOf(k) \cup {n}
         /\ ~(k = Key(r) /\ r.type # "S" /\ r.status = 0) => GoodOf(k)' = GoodOf(k)
         /\ \A j \in GoodOf(k) : Time(j)' = Time(j) /\ Time(j) \in Nat
         /\ Time(n)' = t
<1>1. /\ n \in Nat /\ n \notin Mine(k) /\ Mine(k) \subseteq 1..n - 1
      /\ (k = Key(r) => Mine(k)' = Mine(k) \cup {n}) /\ (k # Key(r) => Mine(k)' = Mine(k))
  BY OlderRecords
<1>2. \A j \in 1..n - 1 : capture'[j] = capture[j] /\ capture[j].time \in Nat /\ (Good(j)' <=> Good(j))
  BY OlderRecords
<1>3. capture'[n].time = t /\ (Good(n)' <=> r.type # "S" /\ r.status = 0)
  BY OlderRecords
<1>4. GoodOf(k)' = {j \in Mine(k)' : Good(j)'} /\ GoodOf(k) = {j \in Mine(k) : Good(j)}
  BY DEF GoodOf
<1>5. \A j \in Mine(k) : Good(j)' <=> Good(j)
  BY <1>1, <1>2
<1>6. /\ k = Key(r) /\ r.type # "S" /\ r.status = 0 => GoodOf(k)' = GoodOf(k) \cup {n}
      /\ ~(k = Key(r) /\ r.type # "S" /\ r.status = 0) => GoodOf(k)' = GoodOf(k)
  BY <1>1, <1>3, <1>4, <1>5
<1>7. GoodOf(k) \subseteq 1..n - 1 /\ n \notin GoodOf(k)
  BY <1>1, <1>4
<1> QED BY <1>1, <1>2, <1>3, <1>6, <1>7 DEF Time

(* Any other record leaves the gaps alone.                                 *)
LEMMA GapSame ==
  ASSUME CaptureType, NEW r, NEW t, Recorded(r, t), NEW k, GapAt(k),
         GoodOf(k)' = GoodOf(k),
         line'[k].last_ok = line[k].last_ok, line'[k].max_gap = line[k].max_gap
  PROVE  GapAt(k)'
<1>1. PICK S : S = GoodOf(k)
  OBVIOUS
<1>2. \A j \in S : Time(j)' = Time(j)
  BY <1>1, GoodGrow
<1> QED BY <1>1, <1>2 DEF GapAt, GapOver, Adjacent

(* It makes one pair of neighbours more, with the last one before it, and  *)
(* that pair is the only one Counted looks at.                             *)
LEMMA GapGrows ==
  ASSUME CaptureType, NEW r, NEW t, Recorded(r, t), NEW k, k = Key(r), GapAt(k),
         line[k] \in LineType, line'[k] = Counted(line[k], r, t), r.type # "S", r.status = 0
  PROVE  GapAt(k)'
<1>1. PICK n : n = Len(capture) + 1
  OBVIOUS
<1>2. PICK S : S = GoodOf(k)
  OBVIOUS
<1>3. PICK T : T = S \cup {n}
  OBVIOUS
<1>4. /\ n \in Nat /\ S \subseteq 1..n - 1 /\ GoodOf(k)' = T /\ Time(n)' = t /\ t \in Nat
      /\ \A j \in S : Time(j)' = Time(j) /\ Time(j) \in Nat
  BY <1>1, <1>2, <1>3, GoodGrow DEF Recorded
<1>5. PICK last, gap : last = line[k].last_ok /\ gap = line[k].max_gap
  OBVIOUS
<1>6. /\ last \in Int /\ gap \in Int
      /\ line'[k].last_ok = t
      /\ line'[k].max_gap = IF last # None /\ t - last > gap THEN t - last ELSE gap
  BY <1>5 DEF Counted, LineType
<1>7. GapOver(line[k], S)
  BY <1>2 DEF GapAt
<1>8. /\ S = {} <=> last = None
      /\ S # {} => \E j \in S : last = Time(j) /\ \A x \in S : x <= j
      /\ \A i, j \in S : Adjacent(i, j, S) => Time(j) - Time(i) <= gap
      /\ \/ gap = 0
         \/ \E i, j \in S : Adjacent(i, j, S) /\ gap = Time(j) - Time(i)
  BY <1>5, <1>7 DEF GapOver
<1>9. \A i, j \in S : Adjacent(i, j, T) <=> Adjacent(i, j, S)
  <2>1. \A x \in S : x \in Nat /\ x <= n
    BY <1>4
  <2> QED BY <1>3, <2>1 DEF Adjacent
<1>10. ASSUME NEW i \in T, NEW j \in T, Adjacent(i, j, T)
       PROVE  Time(j)' - Time(i)' <= line'[k].max_gap
  <2>1. i \in S
    BY <1>3, <1>4, <1>10 DEF Adjacent
  <2>2. CASE j \in S
    <3>1. Time(j) - Time(i) <= gap /\ Time(j)' - Time(i)' = Time(j) - Time(i)
      BY <1>4, <1>8, <1>9, <1>10, <2>1, <2>2
    <3>2. Time(j) - Time(i) \in Int
      BY <1>4, <2>1, <2>2
    <3> QED BY <1>4, <1>6, <3>1, <3>2
  <2>3. CASE j = n
    <3>1. PICK m \in S : last = Time(m) /\ \A x \in S : x <= m
      BY <1>8, <2>1
    <3>2. m = i
      <4>1. m \in T /\ m \in Nat /\ i \in Nat /\ m < n
        BY <1>3, <1>4, <2>1, <3>1
      <4>2. ~(m > i)
        BY <1>4, <1>10, <2>3, <4>1 DEF Adjacent
      <4> QED BY <2>1, <3>1, <4>1, <4>2
    <3>3. last # None
      BY <1>8, <2>1
    <3>4. Time(j)' - Time(i)' = t - last
      BY <1>4, <2>1, <2>3, <3>1, <3>2
    <3> QED BY <1>4, <1>6, <3>3, <3>4
  <2> QED BY <1>3, <2>2, <2>3
<1>11. \/ line'[k].max_gap = 0
       \/ \E i, j \in T : Adjacent(i, j, T) /\ line'[k].max_gap = Time(j)' - Time(i)'
  <2>1. CASE last # None /\ t - last > gap
    <3>1. PICK m \in S : last = Time(m) /\ \A x \in S : x <= m
      BY <1>8, <2>1
    <3>2. m \in T /\ n \in T /\ m < n /\ m \in Nat
      BY <1>3, <1>4
    <3>3. \A x \in T : x > m => n <= x
      BY <1>3, <1>4, <3>1, <3>2
    <3>4. Adjacent(m, n, T)
      BY <1>4, <3>2, <3>3 DEF Adjacent
    <3>5. line'[k].max_gap = Time(n)' - Time(m)'
      BY <1>4, <1>6, <2>1, <3>1
    <3> QED BY <3>2, <3>4, <3>5
  <2>2. CASE ~(last # None /\ t - last > gap)
    <3>1. line'[k].max_gap = gap
      BY <1>6, <2>2
    <3>2. CASE gap = 0
      BY <3>1, <3>2
    <3>3. CASE \E i, j \in S : Adjacent(i, j, S) /\ gap = Time(j) - Time(i)
      <4>1. PICK i \in S, j \in S : Adjacent(i, j, S) /\ gap = Time(j) - Time(i)
        BY <3>3
      <4>2. i \in T /\ j \in T /\ Adjacent(i, j, T) /\ gap = Time(j)' - Time(i)'
        BY <1>3, <1>4, <1>9, <4>1
      <4> QED BY <3>1, <4>2
    <3> QED BY <1>8, <3>2, <3>3
  <2> QED BY <2>1, <2>2
<1>12. line'[k].last_ok = Time(n)' /\ n \in T /\ \A x \in T : x <= n
  BY <1>3, <1>4, <1>6
<1>13. T # {} /\ t # None
  BY <1>3, <1>4 DEF None
<1> QED BY <1>4, <1>6, <1>10, <1>11, <1>12, <1>13 DEF GapAt, GapOver

(* A record joins its slot, and no other one changes.                      *)
LEMMA SlotGrows ==
  ASSUME CaptureType, NEW r, NEW t, Recorded(r, t), NEW k, NEW n, n = Len(capture) + 1,
         NEW at, at = t \div interval
  PROVE  /\ k = Key(r) => /\ InSlot(k, at)' = InSlot(k, at) \cup {n}
                          /\ \A b : b # at => InSlot(k, b)' = InSlot(k, b)
                          /\ Slots(k)' = Slots(k) \cup {at}
         /\ k # Key(r) => /\ \A b : InSlot(k, b)' = InSlot(k, b)
                          /\ Slots(k)' = Slots(k)
         /\ \A b : InSlot(k, b) \in SUBSET Mine(k)
         /\ at \notin Slots(k) => InSlot(k, at) = {}
<1>1. PICK M, N : M = Mine(k) /\ N = Mine(k)'
  OBVIOUS
<1>2. /\ M \subseteq 1..n - 1 /\ n \notin M
      /\ (k = Key(r) => N = M \cup {n}) /\ (k # Key(r) => N = M)
      /\ Slot(n)' = at
      /\ \A j \in 1..n - 1 : Slot(j)' = Slot(j)
  BY <1>1, OlderRecords
<1>3. \A j \in M : Slot(j)' = Slot(j)
  BY <1>2
<1>4. /\ \A b : InSlot(k, b)' = {j \in N : Slot(j)' = b} /\ InSlot(k, b) = {j \in M : Slot(j) = b}
      /\ Slots(k)' = {Slot(j)' : j \in N}
      /\ Slots(k) = {Slot(j) : j \in M}
  BY <1>1 DEF InSlot, Slots
<1>5. CASE k = Key(r)
  <2>1. N = M \cup {n}
    BY <1>2, <1>5
  <2>2. ASSUME NEW b, b # at PROVE InSlot(k, b)' = InSlot(k, b)
    <3>1. InSlot(k, b)' = {j \in N : Slot(j)' = b} /\ InSlot(k, b) = {j \in M : Slot(j) = b}
      BY <1>4
    <3>2. \A j \in N : Slot(j)' = b <=> j \in M /\ Slot(j) = b
      BY <1>2, <1>3, <2>1, <2>2
    <3>3. M \subseteq N
      BY <2>1
    <3> QED BY <3>1, <3>2, <3>3
  <2>3. InSlot(k, at)' = InSlot(k, at) \cup {n}
    <3>1. InSlot(k, at)' = {j \in N : Slot(j)' = at} /\ InSlot(k, at) = {j \in M : Slot(j) = at}
      BY <1>4
    <3>2. \A j \in N : Slot(j)' = at <=> j = n \/ (j \in M /\ Slot(j) = at)
      BY <1>2, <1>3, <2>1
    <3>3. M \subseteq N /\ n \in N
      BY <2>1
    <3> QED BY <3>1, <3>2, <3>3
  <2>4. {Slot(j)' : j \in N} = {Slot(j) : j \in M} \cup {at}
    BY <1>2, <1>3, <2>1
  <2> QED BY <1>1, <1>4, <1>5, <2>2, <2>3, <2>4
<1>6. CASE k # Key(r)
  <2>1. N = M
    BY <1>2, <1>6
  <2>2. ASSUME NEW b PROVE InSlot(k, b)' = InSlot(k, b)
    <3>1. InSlot(k, b)' = {j \in N : Slot(j)' = b} /\ InSlot(k, b) = {j \in M : Slot(j) = b}
      BY <1>4
    <3>2. \A j \in M : Slot(j)' = b <=> Slot(j) = b
      BY <1>3
    <3> QED BY <2>1, <3>1, <3>2
  <2>3. {Slot(j)' : j \in N} = {Slot(j) : j \in M}
    BY <1>3, <2>1
  <2> QED BY <1>1, <1>4, <1>6, <2>2, <2>3
<1> QED BY <1>1, <1>4, <1>5, <1>6

(* The counts of no records are those of a new bucket.                     *)
LEMMA TallyNone == Tally({}) = NewBucket
<1>1. {j \in {} : Submit(j)} = {} /\ {j \in {} : Good(j)} = {} /\ {j \in {} : Bad(j)} = {}
  OBVIOUS
<1> QED BY <1>1, FS_EmptySet DEF Tally, NewBucket

(* The totals of an endpoint go up as those of a bucket do.                *)
LEMMA CountedLikeBucket ==
  ASSUME NEW s \in LineType, NEW r \in RecordType, NEW t \in Nat, NEW b, NEW S, b = Tally(S),
         \A field \in DOMAIN NewBucket : s[field] = b[field]
  PROVE  \A field \in DOMAIN NewBucket : Counted(s, r, t)[field] = InBucket(b, r)[field]
<1>1. DOMAIN NewBucket = {"records", "submits", "ok", "failed"}
  BY DEF NewBucket
<1>2. s.records = b.records /\ s.submits = b.submits /\ s.ok = b.ok /\ s.failed = b.failed
  BY <1>1
<1>3. PICK w, x, y, z : b = [records |-> w, submits |-> x, ok |-> y, failed |-> z]
  BY DEF Tally
<1>4. /\ Counted(s, r, t).records = s.records + 1
      /\ Counted(s, r, t).submits = IF r.type = "S" THEN s.submits + 1 ELSE s.submits
      /\ Counted(s, r, t).ok = IF r.type # "S" /\ r.status = 0 THEN s.ok + 1 ELSE s.ok
      /\ Counted(s, r, t).failed = IF r.type # "S" /\ r.status # 0 THEN s.failed + 1 ELSE s.failed
  BY DEF Counted, LineType
<1>5. /\ InBucket(b, r).records = b.records + 1
      /\ InBucket(b, r).submits = IF r.type = "S" THEN b.submits + 1 ELSE b.submits
      /\ InBucket(b, r).ok = IF r.type # "S" /\ r.status = 0 THEN b.ok + 1 ELSE b.ok
      /\ InBucket(b, r).failed = IF r.type # "S" /\ r.status # 0 THEN b.failed + 1 ELSE b.failed
  BY <1>3 DEF InBucket
<1> QED BY <1>1, <1>2, <1>4, <1>5

(* A record of another endpoint leaves the buckets of this one alone ...   *)
LEMMA BucketsSame ==
  ASSUME CaptureType, NEW r, NEW t, Recorded(r, t), NEW k, k # Key(r), BucketsAt(k),
         bucket'[k] = bucket[k], line'[k] = line[k]
  PROVE  BucketsAt(k)'
<1>1. PICK n : n = Len(capture) + 1
  OBVIOUS
<1>2. PICK at : at = t \div interval
  OBVIOUS
<1>3. /\ Slots(k)' = Slots(k)
      /\ \A b : InSlot(k, b)' = InSlot(k, b) /\ InSlot(k, b) \in SUBSET Mine(k)
  BY <1>1, <1>2, SlotGrows
<1>4. Mine(k)' = Mine(k)
  BY <1>1, OlderRecords
<1>5. ASSUME NEW S \in SUBSET Mine(k) PROVE Tally(S)' = Tally(S)
  BY <1>5, TallySame
<1>6. Tally(Mine(k))' = Tally(Mine(k))
  <2>1. PICK S : S = Mine(k)
    OBVIOUS
  <2>2. Tally(S)' = Tally(S)
    BY <1>5, <2>1
  <2>3. Tally(Mine(k))' = Tally(S)'
    BY <1>4, <2>1 DEF Tally
  <2> QED BY <2>1, <2>2, <2>3
<1>7. ASSUME NEW b PROVE Tally(InSlot(k, b))' = Tally(InSlot(k, b))
  <2>1. PICK S : S = InSlot(k, b)
    OBVIOUS
  <2>2. Tally(S)' = Tally(S)
    BY <1>3, <1>5, <2>1
  <2>3. Tally(InSlot(k, b))' = Tally(S)'
    BY <1>3, <2>1 DEF Tally
  <2> QED BY <2>1, <2>2, <2>3
<1> QED BY <1>3, <1>6, <1>7 DEF BucketsAt

(* ... and one of its own is counted in its slot, new or not.              *)
LEMMA BucketsGrow ==
  ASSUME CaptureType, NEW r, NEW t, Recorded(r, t), NEW k, k = Key(r), BucketsAt(k),
         line[k] \in LineType, line'[k] = Counted(line[k], r, t),
         NEW at, at = t \div interval, NEW known, known = DOMAIN bucket[k],
         bucket'[k] = [b \in known \cup {at} |->
                         IF b = at THEN InBucket(IF at \in known THEN bucket[k][at] ELSE NewBucket, r)
                         ELSE bucket[k][b]]
  PROVE  BucketsAt(k)'
<1>1. PICK n : n = Len(capture) + 1
  OBVIOUS
<1>2. PICK M : M = Mine(k)
  OBVIOUS
<1>3. Mine(k)' = M \cup {n} /\ r \in RecordType /\ t \in Nat
  BY <1>1, <1>2, OlderRecords DEF Recorded
<1>4. /\ InSlot(k, at)' = InSlot(k, at) \cup {n}
      /\ \A b : b # at => InSlot(k, b)' = InSlot(k, b)
      /\ Slots(k)' = Slots(k) \cup {at}
      /\ \A b : InSlot(k, b) \in SUBSET M
      /\ at \notin Slots(k) => InSlot(k, at) = {}
  <2>1. /\ InSlot(k, at)' = InSlot(k, at) \cup {n}
        /\ \A b : b # at => InSlot(k, b)' = InSlot(k, b)
        /\ Slots(k)' = Slots(k) \cup {at}
    BY <1>1, SlotGrows
  <2>2. /\ \A b : InSlot(k, b) \in SUBSET Mine(k)
        /\ at \notin Slots(k) => InSlot(k, at) = {}
    BY <1>1, SlotGrows
  <2> QED BY <1>2, <2>1, <2>2
<1>5. /\ known = Slots(k)
      /\ \A b \in known : bucket[k][b] = Tally(InSlot(k, b))
      /\ \A field \in DOMAIN NewBucket : line[k][field] = Tally(M)[field]
  BY <1>2 DEF BucketsAt
<1>6. ASSUME NEW S \in SUBSET M
      PROVE  Tally(S)' = Tally(S) /\ Tally(S \cup {n})' = InBucket(Tally(S), r)
  BY <1>1, <1>2, <1>6, TallySame, TallyOneMore
<1>7. DOMAIN bucket'[k] = Slots(k)'
  BY <1>4, <1>5
<1>8. ASSUME NEW b \in known \cup {at} PROVE bucket'[k][b] = Tally(InSlot(k, b))'
  <2>1. PICK S : S = InSlot(k, b)
    OBVIOUS
  <2>2. S \in SUBSET M
    BY <1>4, <2>1
  <2>3. CASE b # at
    <3>1. bucket'[k][b] = Tally(S)
      BY <1>5, <2>1, <2>3
    <3>2. Tally(InSlot(k, b))' = Tally(S)'
      BY <1>4, <2>1, <2>3 DEF Tally
    <3> QED BY <1>6, <2>2, <3>1, <3>2
  <2>4. CASE b = at
    <3>1. (IF at \in known THEN bucket[k][at] ELSE NewBucket) = Tally(S)
      BY <1>4, <1>5, <2>1, <2>4, TallyNone
    <3>2. bucket'[k][b] = InBucket(Tally(S), r)
      BY <2>4, <3>1
    <3>3. Tally(InSlot(k, b))' = Tally(S \cup {n})'
      BY <1>4, <2>1, <2>4 DEF Tally
    <3> QED BY <1>6, <2>2, <3>2, <3>3
  <2> QED BY <2>3, <2>4
<1>9. \A field \in DOMAIN NewBucket : line'[k][field] = (Tally(Mine(k))')[field]
  <2>1. \A field \in DOMAIN NewBucket : Counted(line[k], r, t)[field] = InBucket(Tally(M), r)[field]
    BY <1>3, <1>5, CountedLikeBucket
  <2>2. Tally(Mine(k))' = Tally(M \cup {n})'
    BY <1>3 DEF Tally
  <2>3. Tally(M \cup {n})' = InBucket(Tally(M), r)
    BY <1>6
  <2> QED BY <2>1, <2>2, <2>3
<1>10. DOMAIN NewBucket = DOMAIN NewBucket'
  BY DEF NewBucket
<1> QED BY <1>7, <1>8, <1>9, <1>10 DEF BucketsAt

(* So a record keeps the invariant of every endpoint.                      *)
LEMMA RecordInTimeline ==
  ASSUME TypeInv, LineTyped, TimelineInv,
         NEW r \in Records, NEW step \in Steps, Record(r, Now + step)
  PROVE  TimelineInv'
<1>1. PICK t, key : t = Now + step /\ key = Key(r)
  OBVIOUS
<1>2. t \in Nat /\ r \in RecordType /\ key \in Keys
  BY <1>1, CaptureAssumption, TimeType DEF TypeInv, Key, Keys, RecordType
<1>3. Recorded(r, t) /\ CaptureType
  BY <1>1, <1>2 DEF Record, Recorded, TypeInv
<1>4. PICK at, known : at = t \div interval /\ known = DOMAIN bucket[key]
  OBVIOUS
<1>5. PICK own : own = [b \in known \cup {at} |->
                          IF b = at
                          THEN InBucket(IF at \in known THEN bucket[key][at] ELSE NewBucket, r)
                          ELSE bucket[key][b]]
  OBVIOUS
<1>6. line' = [line EXCEPT ![key] = Counted(line[key], r, t)] /\ bucket' = [bucket EXCEPT ![key] = own]
  BY <1>1, <1>4, <1>5 DEF Record, TimelineRow
<1>7. line \in [Keys -> LineType] /\ bucket = [k \in Keys |-> bucket[k]]
  BY DEF LineTyped, TimelineInv
<1>8. /\ bucket' = [k \in Keys |-> bucket'[k]]
      /\ bucket'[key] = own /\ line'[key] = Counted(line[key], r, t)
      /\ \A k \in Keys : k # key => bucket'[k] = bucket[k] /\ line'[k] = line[k]
  BY <1>2, <1>6, <1>7
<1>9. ASSUME NEW k \in Keys, k # key PROVE TimelineAt(k)'
  <2>1. GapAt(k) /\ BucketsAt(k)
    BY DEF TimelineInv, TimelineAt
  <2>2. PICK n : n = Len(capture) + 1
    OBVIOUS
  <2>3. GoodOf(k)' = GoodOf(k)
    BY <1>1, <1>3, <1>9, <2>2, GoodGrow
  <2>4. GapAt(k)'
    BY <1>3, <1>8, <1>9, <2>1, <2>3, GapSame
  <2>5. BucketsAt(k)'
    BY <1>1, <1>3, <1>8, <1>9, <2>1, BucketsSame
  <2> QED BY <2>4, <2>5 DEF TimelineAt
<1>10. TimelineAt(key)'
  <2>1. GapAt(key) /\ BucketsAt(key) /\ line[key] \in LineType
    BY <1>2, <1>7 DEF TimelineInv, TimelineAt
  <2>2. BucketsAt(key)'
    BY <1>1, <1>3, <1>4, <1>5, <1>8, <2>1, BucketsGrow
  <2>3. CASE r.type # "S" /\ r.status = 0
    BY <1>1, <1>3, <1>8, <2>1, <2>2, <2>3, GapGrows DEF TimelineAt
  <2>4. CASE ~(r.type # "S" /\ r.status = 0)
    <3>1. line'[key].last_ok = line[key].last_ok /\ line'[key].max_gap = line[key].max_gap
      BY <1>8, <2>1, <2>4 DEF Counted, LineType
    <3>2. PICK n : n = Len(capture) + 1
      OBVIOUS
    <3>3. GoodOf(key)' = GoodOf(key)
      BY <1>3, <2>4, <3>2, GoodGrow
    <3>4. GapAt(key)'
      BY <1>3, <2>1, <3>1, <3>3, GapSame
    <3> QED BY <2>2, <3>4 DEF TimelineAt
  <2> QED BY <2>3, <2>4
<1> QED BY <1>8, <1>9, <1>10 DEF TimelineInv

(* The neighbour of j, as GapIsReal chooses it, ...                        *)
Following(j, S) == CHOOSE m \in S : m > j /\ \A x \in S : x > j => m <= x

(* ... is there when anything follows, and is the only neighbour ...       *)
LEMMA FollowingAdjacent ==
  ASSUME NEW S \in SUBSET Nat, NEW j \in S
  PROVE  /\ (\E m \in S : m > j) => Adjacent(j, Following(j, S), S)
         /\ \A i \in S : Adjacent(j, i, S) => Following(j, S) = i
<1>1. ASSUME NEW m \in S, m > j PROVE Adjacent(j, Following(j, S), S)
  <2>1. PICK T : T = {x \in S : x > j}
    OBVIOUS
  <2>2. T \in SUBSET Nat /\ T # {}
    BY <1>1, <2>1
  <2>3. PICK least \in T : \A x \in T : least <= x
    BY <2>2, LeastNat
  <2>4. least \in S /\ least > j /\ \A x \in S : x > j => least <= x
    BY <2>1, <2>3
  <2> QED BY <2>4 DEF Following, Adjacent
<1>2. ASSUME NEW i \in S, Adjacent(j, i, S) PROVE Following(j, S) = i
  <2>1. i \in S /\ i > j /\ \A x \in S : x > j => i <= x
    BY <1>2 DEF Adjacent
  <2>2. PICK m : m = Following(j, S)
    OBVIOUS
  <2>3. m \in S /\ m > j /\ \A x \in S : x > j => m <= x
    BY <2>1, <2>2 DEF Following
  <2>4. i <= m /\ m <= i /\ i \in Nat /\ m \in Nat
    BY <2>1, <2>3
  <2> QED BY <2>2, <2>4
<1> QED BY <1>1, <1>2

(* ... so the gaps GapIsReal speaks of are those of the invariant.         *)
LEMMA GapsAdjacent ==
  ASSUME NEW s, NEW S \in SUBSET Nat, GapOver(s, S), NEW gaps,
         gaps = {Time(Following(j, S)) - Time(j) : j \in {g \in S : \E m \in S : m > g}}
  PROVE  (\A g \in gaps : g <= s.max_gap) /\ s.max_gap \in gaps \cup {0}
<1>1. ASSUME NEW g \in gaps PROVE g <= s.max_gap
  <2>1. PICK j \in S : (\E m \in S : m > j) /\ g = Time(Following(j, S)) - Time(j)
    BY <1>1
  <2>2. Adjacent(j, Following(j, S), S)
    BY <2>1, FollowingAdjacent
  <2>3. Following(j, S) \in S
    BY <2>2 DEF Adjacent
  <2> QED BY <2>1, <2>2, <2>3 DEF GapOver
<1>2. ASSUME NEW i \in S, NEW j \in S, Adjacent(i, j, S), s.max_gap = Time(j) - Time(i)
      PROVE  s.max_gap \in gaps
  <2>1. Following(i, S) = j /\ j > i
    BY <1>2, FollowingAdjacent DEF Adjacent
  <2> QED BY <1>2, <2>1
<1> QED BY <1>1, <1>2 DEF GapOver

(* The timeline tells the longest gap between neighbouring good            *)
(* completions of each endpoint, and in each row the records of its own    *)
(* interval, for every capture and every width of the intervals            *)
(* (analyze_usbcan_timeline.py:89-119).                                    *)
THEOREM TimelineTold == Spec => []GapIsReal
<1> DEFINE Inv == TypeInv /\ LineTyped /\ SameEverywhere /\ TimelineInv
<1>1. Init => Inv
  <2> SUFFICES ASSUME Init PROVE Inv
    OBVIOUS
  <2>1. NewLine \in LineType
    BY DEF NewLine, LineType, None
  <2>2. /\ urb = [k \in Keys |-> NewEndpoint] /\ line = [k \in Keys |-> NewLine]
        /\ bucket = [k \in Keys |-> <<>>] /\ capture = <<>>
    BY DEF Init, UrbInit, TimelineInit
  <2>3. LineTyped
    BY <2>1, <2>2 DEF LineTyped
  <2>4. SameEverywhere
    BY <2>2 DEF SameEverywhere, SameNumbers, NewLine, NewEndpoint
  <2>5. ASSUME NEW k \in Keys PROVE TimelineAt(k)
    <3>1. Mine(k) = {} /\ GoodOf(k) = {} /\ Slots(k) = {}
      BY <2>2 DEF Mine, GoodOf, Slots
    <3>2. GapAt(k)
      BY <2>2, <3>1 DEF GapAt, GapOver, NewLine, None
    <3>3. \A field \in DOMAIN NewBucket : NewLine[field] = NewBucket[field]
      BY DEF NewLine, NewBucket
    <3>4. BucketsAt(k)
      BY <2>2, <3>1, <3>3, TallyNone DEF BucketsAt
    <3> QED BY <3>2, <3>4 DEF TimelineAt
  <2>6. bucket = [k \in Keys |-> bucket[k]]
    BY <2>2
  <2> QED BY <2>3, <2>4, <2>5, <2>6, InitTyped DEF TimelineInv
<1>2. Inv /\ [Next]_vars => Inv'
  <2> SUFFICES ASSUME Inv, [Next]_vars PROVE Inv'
    OBVIOUS
  <2>1. ASSUME NEW r \in Records, NEW step \in Steps, Record(r, Now + step) PROVE Inv'
    BY <2>1, RecordTyped, RecordCountsTheSame, RecordInTimeline
  <2>2. ASSUME UNCHANGED <<urb, line, bucket, capture>>
        PROVE  LineTyped' /\ SameEverywhere' /\ TimelineInv'
    <3>1. LineTyped' /\ SameEverywhere'
      BY <2>2 DEF LineTyped, SameEverywhere, SameNumbers
    <3>2. TimelineInv'
      <4>1. ASSUME NEW k \in Keys PROVE GapAt(k)' /\ BucketsAt(k)'
        <5>1. \A j : /\ (Is(j, k)' <=> Is(j, k)) /\ (Good(j)' <=> Good(j)) /\ (Bad(j)' <=> Bad(j))
                     /\ (Submit(j)' <=> Submit(j)) /\ Slot(j)' = Slot(j) /\ Time(j)' = Time(j)
          BY <2>2 DEF Is, Good, Bad, Submit, Slot, Time
        <5>2. Mine(k)' = Mine(k)
          BY <2>2, <5>1 DEF Mine
        <5>3. GoodOf(k)' = GoodOf(k) /\ Slots(k)' = Slots(k) /\ \A b : InSlot(k, b)' = InSlot(k, b)
          BY <5>1, <5>2 DEF GoodOf, Slots, InSlot
        <5>4. /\ \A b : Tally(InSlot(k, b))' = Tally(InSlot(k, b))
              /\ Tally(Mine(k))' = Tally(Mine(k))
          <6>1. ASSUME NEW S
                PROVE  /\ {j \in S : Submit(j)'} = {j \in S : Submit(j)}
                       /\ {j \in S : Good(j)'} = {j \in S : Good(j)}
                       /\ {j \in S : Bad(j)'} = {j \in S : Bad(j)}
            BY <5>1
          <6> QED BY <5>2, <5>3, <6>1 DEF Tally
        <5>5. GapAt(k) /\ BucketsAt(k)
          BY DEF TimelineInv, TimelineAt
        <5>6. GapAt(k)'
          BY <2>2, <5>1, <5>3, <5>5 DEF GapAt, GapOver, Adjacent
        <5>7. BucketsAt(k)'
          BY <2>2, <5>2, <5>3, <5>4, <5>5 DEF BucketsAt
        <5> QED BY <5>6, <5>7
      <4> QED BY <2>2, <4>1 DEF TimelineInv, TimelineAt
    <3> QED BY <3>1, <3>2
  <2>3. CASE EchoDecodes
    BY <2>2, <2>3, EchoDecodesTyped DEF EchoDecodes, urbVars, timelineVars
  <2>4. CASE GsDecodes \/ UNCHANGED vars
    <3>1. UNCHANGED <<urb, echo, row, rest, capture, line, bucket>>
      BY <2>4 DEF GsDecodes, vars, urbVars, echoVars, timelineVars
    <3>2. TypeInv'
      BY <3>1 DEF TypeInv, TypeOK, CaptureType
    <3> QED BY <2>2, <3>1, <3>2
  <2> QED BY <2>1, <2>3, <2>4 DEF Next
<1>3. Inv => GapIsReal
  <2> SUFFICES ASSUME Inv, NEW k \in Keys
               PROVE  LET mine == {j \in DOMAIN capture : Is(j, k)}
                          good == {j \in mine : Good(j)}
                          next(j) == CHOOSE m \in good : m > j /\ \A x \in good : x > j => m <= x
                          gaps == {capture[next(j)].time - capture[j].time :
                                     j \in {g \in good : \E m \in good : m > g}}
                          slot(j) == capture[j].time \div interval
                      IN  /\ \A g \in gaps : g <= line[k].max_gap
                          /\ line[k].max_gap \in gaps \cup {0}
                          /\ DOMAIN bucket[k] = {slot(j) : j \in mine}
                          /\ \A b \in DOMAIN bucket[k] : bucket[k][b] = Tally({j \in mine : slot(j) = b})
                          /\ \A field \in DOMAIN NewBucket : line[k][field] = Tally(mine)[field]
    BY DEF GapIsReal
  <2> DEFINE mine == {j \in DOMAIN capture : Is(j, k)}
             good == {j \in mine : Good(j)}
             next(j) == CHOOSE m \in good : m > j /\ \A x \in good : x > j => m <= x
             gaps == {capture[next(j)].time - capture[j].time :
                        j \in {g \in good : \E m \in good : m > g}}
             slot(j) == capture[j].time \div interval
  <2>1. mine = Mine(k) /\ good = GoodOf(k) /\ \A j : slot(j) = Slot(j) /\ next(j) = Following(j, good)
    BY DEF Mine, GoodOf, Slot, Following
  <2>2. good \in SUBSET Nat
    <3>1. DOMAIN capture \subseteq Nat
      BY LenProperties DEF TypeInv, CaptureType
    <3> QED BY <3>1
  <2>3. GapOver(line[k], good) /\ BucketsAt(k)
    BY <2>1 DEF TimelineInv, TimelineAt, GapAt
  <2>4. gaps = {Time(Following(j, good)) - Time(j) : j \in {g \in good : \E m \in good : m > g}}
    BY DEF Time, Following
  <2>5. (\A g \in gaps : g <= line[k].max_gap) /\ line[k].max_gap \in gaps \cup {0}
    <3> HIDE DEF gaps, good
    <3> QED BY <2>2, <2>3, <2>4, GapsAdjacent
  <2>6. /\ DOMAIN bucket[k] = {slot(j) : j \in mine}
        /\ \A b \in DOMAIN bucket[k] : bucket[k][b] = Tally({j \in mine : slot(j) = b})
        /\ \A field \in DOMAIN NewBucket : line[k][field] = Tally(mine)[field]
    BY <2>3 DEF BucketsAt, Slots, InSlot, Slot, Mine
  <2> QED BY <2>5, <2>6
<1> QED BY <1>1, <1>2, <1>3, PTL DEF Spec
-----------------------------------------------------------------------------
(* The type of the other decoder's counters, and its place in the record   *)
(* read last: as Frames, Done and ReadingInv, for gsrest.                  *)
GsType == [frames : Nat, tx : Nat, rx : Nat, channels : [Channels -> Nat],
           first : Int, last : Int, gap_count : Int, gap_sum : Int, gap_max : Int]
GsFramesOf(j) == GsDecode(capture[j].rec.payload)
GsDone(j) == IF j = Len(capture) THEN Len(GsFramesOf(j)) - Len(gsrest) ELSE Len(GsFramesOf(j))
GsReadingInv ==
  /\ gs \in GsType /\ gsrow.time \in Nat /\ gsrest \in Seq(FrameType)
  /\ gsrest # <<>> =>
       LET n == Len(capture)
           r == capture[n].rec
       IN  /\ n > 0 /\ gsrow.ep = r.ep
           /\ Len(gsrest) <= Len(GsFramesOf(n))
           /\ \A i \in 1..Len(gsrest) : gsrest[i] = r.payload[GsDone(n) + i]

(* The gap statistics touch no counter of frames.                          *)
LEMMA WithGapKeeps ==
  ASSUME NEW s \in GsType, NEW t \in Nat
  PROVE  /\ WithGap(s, t) \in GsType
         /\ WithGap(s, t).frames = s.frames /\ WithGap(s, t).tx = s.tx /\ WithGap(s, t).rx = s.rx
         /\ WithGap(s, t).channels = s.channels
<1> DEFINE gap == t - s.last
           count == s.gap_count + 1
           sum == s.gap_sum + gap
           max == Larger(s.gap_max, gap)
<1>1. gap \in Int /\ count \in Int /\ sum \in Int /\ max \in Int /\ t \in Int
  BY DEF GsType, Larger
<1>2. WithGap(s, t) = IF s.first = None THEN [s EXCEPT !.first = t, !.last = t]
                      ELSE IF gap < 0 THEN [s EXCEPT !.last = t]
                      ELSE [s EXCEPT !.last = t, !.gap_count = count, !.gap_sum = sum, !.gap_max = max]
  BY DEF WithGap, GsType
<1> HIDE DEF gap, count, sum, max
<1>3. s \in GsType
  OBVIOUS
<1>4. WithGap(s, t) \in GsType
  <2>1. CASE s.first = None
    BY <1>1, <1>2, <1>3, <2>1 DEF GsType
  <2>2. CASE s.first # None /\ gap < 0
    BY <1>1, <1>2, <1>3, <2>2 DEF GsType
  <2>3. CASE s.first # None /\ ~(gap < 0)
    BY <1>1, <1>2, <1>3, <2>3 DEF GsType
  <2> QED BY <2>1, <2>2, <2>3
<1>5. /\ WithGap(s, t).frames = s.frames /\ WithGap(s, t).tx = s.tx /\ WithGap(s, t).rx = s.rx
      /\ WithGap(s, t).channels = s.channels
  <2>1. CASE s.first = None
    BY <1>2, <2>1 DEF GsType
  <2>2. CASE s.first # None /\ gap < 0
    BY <1>2, <2>2 DEF GsType
  <2>3. CASE s.first # None /\ ~(gap < 0)
    BY <1>2, <2>3 DEF GsType
  <2> QED BY <2>1, <2>2, <2>3
<1> QED BY <1>4, <1>5

(* A frame is counted once in all, once in its direction and once on its   *)
(* channel.                                                                *)
LEMMA GsCounted ==
  ASSUME GsReadingInv, GsFrame, NEW f \in FrameType, f = Head(gsrest)
  PROVE  /\ gs' \in GsType
         /\ gs'.frames = gs.frames + 1
         /\ gs'.rx = IF In(gsrow.ep) THEN gs.rx + 1 ELSE gs.rx
         /\ gs'.tx = IF In(gsrow.ep) THEN gs.tx ELSE gs.tx + 1
         /\ \A c \in Channels : gs'.channels[c] = IF c = f.ch THEN gs.channels[c] + 1 ELSE gs.channels[c]
<1> DEFINE frames == gs.frames + 1
           rx == IF In(gsrow.ep) THEN gs.rx + 1 ELSE gs.rx
           tx == IF In(gsrow.ep) THEN gs.tx ELSE gs.tx + 1
           channels == [gs.channels EXCEPT ![f.ch] = @ + 1]
<1>1. gs \in GsType /\ gsrow.time \in Nat /\ f.ch \in Channels
  BY DEF GsReadingInv, FrameType
<1>2. /\ frames \in Nat /\ rx \in Nat /\ tx \in Nat /\ channels \in [Channels -> Nat]
      /\ \A c \in Channels : channels[c] = IF c = f.ch THEN gs.channels[c] + 1 ELSE gs.channels[c]
  <2>1. gs.frames \in Nat /\ gs.rx \in Nat /\ gs.tx \in Nat /\ gs.channels \in [Channels -> Nat]
    BY <1>1 DEF GsType
  <2> QED BY <1>1, <2>1
<1>3. gs' = WithGap([gs EXCEPT !.frames = frames, !.rx = rx, !.tx = tx, !.channels = channels], gsrow.time)
  BY <1>1 DEF GsFrame, GsType
<1> HIDE DEF frames, rx, tx, channels
<1>4. PICK s : s = [gs EXCEPT !.frames = frames, !.rx = rx, !.tx = tx, !.channels = channels]
  OBVIOUS
<1>5. s \in GsType /\ s.frames = frames /\ s.rx = rx /\ s.tx = tx /\ s.channels = channels
  BY <1>1, <1>2, <1>4 DEF GsType
<1>6. /\ gs' \in GsType /\ gs'.frames = frames /\ gs'.rx = rx /\ gs'.tx = tx
      /\ gs'.channels = channels
  <2>1. gs' = WithGap(s, gsrow.time)
    BY <1>3, <1>4
  <2> QED BY <1>1, <1>5, <2>1, WithGapKeeps
<1> QED BY <1>2, <1>6 DEF frames, rx, tx

(* The frame at hand is the next of the record read last.                  *)
LEMMA NextGsFrame ==
  ASSUME TypeInv, GsReadingInv, GsFrame, capture' = capture, NEW n, n = Len(capture)
  PROVE  /\ n \in DOMAIN capture /\ capture[n].rec \in RecordType /\ n \in Nat
         /\ gsrow.ep = capture[n].rec.ep
         /\ GsDone(n) \in Nat /\ GsDone(n)' = GsDone(n) + 1
         /\ Head(gsrest) \in FrameType
         /\ Head(gsrest) = capture[n].rec.payload[GsDone(n) + 1]
         /\ \A j \in DOMAIN capture : j # n => GsDone(j)' = GsDone(j)
         /\ GsReadingInv'
<1>1. gsrest # <<>> /\ gsrest' = Tail(gsrest) /\ gsrow' = gsrow
  BY DEF GsFrame
<1>2. /\ Len(gsrest) \in Nat \ {0} /\ Len(gsrest') = Len(gsrest) - 1
      /\ Head(gsrest) = gsrest[1] /\ Head(gsrest) \in FrameType /\ gsrest' \in Seq(FrameType)
      /\ \A i \in 1..Len(gsrest) - 1 : gsrest'[i] = gsrest[i + 1]
  <2>1. gsrest \in Seq(FrameType)
    BY DEF GsReadingInv
  <2> QED BY <1>1, <2>1, HeadTailProperties, EmptySeq, LenProperties
<1>3. n \in Nat /\ n > 0 /\ n \in DOMAIN capture /\ capture[n].rec \in RecordType
  <2>1. n \in Nat /\ DOMAIN capture = 1..n
    BY LenProperties DEF TypeInv, CaptureType
  <2>2. n > 0
    BY <1>1 DEF GsReadingInv
  <2>3. n \in 1..n
    BY <2>1, <2>2
  <2>4. capture[n] \in [time : Nat, rec : RecordType]
    BY <2>3, ElementOfSeq DEF TypeInv, CaptureType
  <2> QED BY <2>1, <2>2, <2>3, <2>4
<1>4. PICK r : r = capture[n].rec
  OBVIOUS
<1>5. /\ gsrow.ep = r.ep /\ gsrow.time \in Nat
      /\ Len(gsrest) <= Len(GsFramesOf(n)) /\ \A i \in 1..Len(gsrest) : gsrest[i] = r.payload[GsDone(n) + i]
  BY <1>1, <1>4 DEF GsReadingInv
<1>6. Len(GsFramesOf(n)) \in Nat /\ GsFramesOf(n)' = GsFramesOf(n)
  <2>1. r.payload \in Seq(FrameType)
    BY <1>3, <1>4 DEF RecordType
  <2> QED BY <1>4, <2>1, FramesPrefix DEF GsFramesOf, GsDecode
<1>7. GsDone(n) = Len(GsFramesOf(n)) - Len(gsrest) /\ GsDone(n)' = GsDone(n) + 1 /\ GsDone(n) \in Nat
  <2>1. GsDone(n) = Len(GsFramesOf(n)) - Len(gsrest)
    BY DEF GsDone
  <2>2. GsDone(n)' = Len(GsFramesOf(n)) - Len(gsrest')
    BY <1>6 DEF GsDone
  <2> QED BY <1>2, <1>5, <1>6, <2>1, <2>2
<1>8. Head(gsrest) = r.payload[GsDone(n) + 1]
  <2>1. 1 \in 1..Len(gsrest)
    BY <1>2
  <2> QED BY <1>2, <1>5, <2>1
<1>9. \A j \in DOMAIN capture : j # n => GsDone(j)' = GsDone(j)
  BY DEF GsDone, GsFramesOf
<1>10. GsReadingInv'
  <2>1. Len(gsrest') <= Len(GsFramesOf(n))'
    BY <1>2, <1>5, <1>6
  <2>2. ASSUME NEW i \in 1..Len(gsrest') PROVE gsrest'[i] = r.payload[GsDone(n)' + i]
    <3>1. i \in Nat /\ i \in 1..Len(gsrest) - 1 /\ i + 1 \in 1..Len(gsrest)
      BY <1>2
    <3>2. gsrest'[i] = r.payload[GsDone(n) + (i + 1)]
      BY <1>2, <1>5, <3>1
    <3>3. GsDone(n) + (i + 1) = GsDone(n)' + i
      BY <1>7, <3>1
    <3> QED BY <3>2, <3>3
  <2>3. gs' \in GsType
    BY <1>2, GsCounted
  <2>4. Len(capture)' = n /\ (capture[n].rec)' = r
    BY <1>4
  <2>5. GsDone(Len(capture))' = GsDone(n)' /\ GsFramesOf(Len(capture))' = GsFramesOf(n)'
    BY DEF GsDone, GsFramesOf
  <2> QED BY <1>1, <1>2, <1>3, <1>4, <1>5, <2>1, <2>2, <2>3, <2>4, <2>5 DEF GsReadingInv
<1> QED BY <1>3, <1>4, <1>5, <1>2, <1>7, <1>8, <1>9, <1>10

(* The spots looked at so far, and FramesTold of them: it holds between    *)
(* two frames of one payload too.                                          *)
HostRead == UNION {{j} \X (1..Done(j)) : j \in DOMAIN capture}
GsRead == UNION {{j} \X (1..GsDone(j)) : j \in DOMAIN capture}
FromBus(S, d) == Heard(S, d) \ Echoed(S, d)
GsCounts(S) ==
  /\ IsFiniteSet(S)
  /\ gs.frames = Cardinality(S)
  /\ gs.tx = Cardinality(Outward(S)) /\ gs.rx = Cardinality(Inward(S))
  /\ \A c \in Channels : gs.channels[c] = Cardinality(OnChannel(S, c))
EchoCountsOf(S, d) ==
  /\ echo[d].tx_requests = Cardinality(Requests(S, d))
  /\ echo[d].echoes = Cardinality(Echoed(S, d))
  /\ echo[d].device_rx = Cardinality(FromBus(S, d))
EchoCounts(S) == IsFiniteSet(S) /\ \A d \in Devices : EchoCountsOf(S, d)
CountInv == EchoCounts(HostRead) /\ GsCounts(GsRead)

(* One element more makes one more.                                        *)
LEMMA OneMore ==
  ASSUME NEW A, IsFiniteSet(A), NEW x, x \notin A
  PROVE  Cardinality(A) \in Nat /\ Cardinality(A \cup {x}) = Cardinality(A) + 1
BY FS_AddElement, FS_CardinalityType

(* One spot more adds one to the count of each kind it is of: to those of  *)
(* the one decoder ...                                                     *)
LEMMA KindsGrow ==
  ASSUME NEW S, IsFiniteSet(S), NEW x, x \notin S, NEW T, T = S \cup {x},
         NEW r, r = Carrier(x), NEW f, f = Spotted(x), NEW c
  PROVE  /\ IsFiniteSet(T) /\ Cardinality(T) = Cardinality(S) + 1
         /\ Cardinality(Outward(T)) =
              IF In(r.ep) THEN Cardinality(Outward(S)) ELSE Cardinality(Outward(S)) + 1
         /\ Cardinality(Inward(T)) =
              IF In(r.ep) THEN Cardinality(Inward(S)) + 1 ELSE Cardinality(Inward(S))
         /\ Cardinality(OnChannel(T, c)) =
              IF f.ch = c THEN Cardinality(OnChannel(S, c)) + 1 ELSE Cardinality(OnChannel(S, c))
<1>1. IsFiniteSet(T) /\ Cardinality(T) = Cardinality(S) + 1
  BY OneMore, FS_AddElement
<1>2. ASSUME NEW U \in SUBSET S
      PROVE  Cardinality(U \cup {x}) = Cardinality(U) + 1
  BY OneMore, FS_Subset
<1>3. Outward(T) = IF In(r.ep) THEN Outward(S) ELSE Outward(S) \cup {x}
  BY DEF Outward
<1>4. Inward(T) = IF In(r.ep) THEN Inward(S) \cup {x} ELSE Inward(S)
  BY DEF Inward
<1>5. Cardinality(OnChannel(T, c)) =
        IF f.ch = c THEN Cardinality(OnChannel(S, c)) + 1 ELSE Cardinality(OnChannel(S, c))
  <2>1. OnChannel(T, c) = IF f.ch = c THEN OnChannel(S, c) \cup {x} ELSE OnChannel(S, c)
    BY DEF OnChannel
  <2>2. OnChannel(S, c) \in SUBSET S
    BY DEF OnChannel
  <2> QED BY <1>2, <2>1, <2>2
<1>6. Outward(S) \in SUBSET S /\ Inward(S) \in SUBSET S
  BY DEF Outward, Inward
<1> QED BY <1>1, <1>2, <1>3, <1>4, <1>5, <1>6

(* ... and to those of the other.                                          *)
LEMMA EchoKindsGrow ==
  ASSUME NEW S, IsFiniteSet(S), NEW x, x \notin S, NEW T, T = S \cup {x}, NEW d,
         NEW r, r = Carrier(x), NEW f, f = Spotted(x)
  PROVE  /\ Cardinality(Requests(T, d)) =
              IF r.dev = d /\ ~In(r.ep) /\ r.type = "S" /\ f.echo # RX_ECHO_ID
              THEN Cardinality(Requests(S, d)) + 1 ELSE Cardinality(Requests(S, d))
         /\ Cardinality(Echoed(T, d)) =
              IF r.dev = d /\ In(r.ep) /\ r.type # "S" /\ r.status = 0 /\ f.echo # RX_ECHO_ID
              THEN Cardinality(Echoed(S, d)) + 1 ELSE Cardinality(Echoed(S, d))
         /\ Cardinality(FromBus(T, d)) =
              IF r.dev = d /\ In(r.ep) /\ r.type # "S" /\ r.status = 0 /\ f.echo = RX_ECHO_ID
              THEN Cardinality(FromBus(S, d)) + 1 ELSE Cardinality(FromBus(S, d))
<1>1. ASSUME NEW U \in SUBSET S
      PROVE  Cardinality(U \cup {x}) = Cardinality(U) + 1
  BY OneMore, FS_Subset
<1>2. Requests(T, d) =
        IF r.dev = d /\ ~In(r.ep) /\ r.type = "S" /\ f.echo # RX_ECHO_ID
        THEN Requests(S, d) \cup {x} ELSE Requests(S, d)
  BY DEF Requests, Outward
<1>3. Echoed(T, d) =
        IF r.dev = d /\ In(r.ep) /\ r.type # "S" /\ r.status = 0 /\ f.echo # RX_ECHO_ID
        THEN Echoed(S, d) \cup {x} ELSE Echoed(S, d)
  BY DEF Echoed, Heard, Inward
<1>4. FromBus(T, d) =
        IF r.dev = d /\ In(r.ep) /\ r.type # "S" /\ r.status = 0 /\ f.echo = RX_ECHO_ID
        THEN FromBus(S, d) \cup {x} ELSE FromBus(S, d)
  <2>1. \A Q : FromBus(Q, d) = {s \in Q : /\ In(Carrier(s).ep) /\ Carrier(s).dev = d
                                          /\ Carrier(s).type # "S" /\ Carrier(s).status = 0
                                          /\ Spotted(s).echo = RX_ECHO_ID}
    BY DEF FromBus, Echoed, Heard, Inward
  <2>2. /\ FromBus(T, d) = {s \in T : /\ In(Carrier(s).ep) /\ Carrier(s).dev = d
                                      /\ Carrier(s).type # "S" /\ Carrier(s).status = 0
                                      /\ Spotted(s).echo = RX_ECHO_ID}
        /\ FromBus(S, d) = {s \in S : /\ In(Carrier(s).ep) /\ Carrier(s).dev = d
                                      /\ Carrier(s).type # "S" /\ Carrier(s).status = 0
                                      /\ Spotted(s).echo = RX_ECHO_ID}
    BY <2>1
  <2> QED BY <2>2
<1>5. Requests(S, d) \in SUBSET S /\ Echoed(S, d) \in SUBSET S /\ FromBus(S, d) \in SUBSET S
  BY DEF Requests, Echoed, FromBus, Heard, Inward, Outward
<1> QED BY <1>1, <1>2, <1>3, <1>4, <1>5

(* Spots in records that stay as they are keep their kinds.                *)
LEMMA KindsSame ==
  ASSUME NEW S, \A s \in S : capture'[s[1]] = capture[s[1]]
  PROVE  /\ Outward(S)' = Outward(S) /\ Inward(S)' = Inward(S)
         /\ \A c : OnChannel(S, c)' = OnChannel(S, c)
         /\ \A d : /\ Requests(S, d)' = Requests(S, d) /\ Echoed(S, d)' = Echoed(S, d)
                   /\ FromBus(S, d)' = FromBus(S, d)
<1>1. \A s \in S : Carrier(s)' = Carrier(s) /\ Spotted(s)' = Spotted(s)
  BY DEF Carrier, Spotted
<1>2. Outward(S)' = Outward(S) /\ Inward(S)' = Inward(S)
  BY <1>1 DEF Outward, Inward
<1>3. ASSUME NEW c PROVE OnChannel(S, c)' = OnChannel(S, c)
  BY <1>1 DEF OnChannel
<1>4. ASSUME NEW d
      PROVE  /\ Requests(S, d)' = Requests(S, d) /\ Echoed(S, d)' = Echoed(S, d)
             /\ FromBus(S, d)' = FromBus(S, d)
  <2>1. Outward(S) \subseteq S /\ Inward(S) \subseteq S
    BY DEF Outward, Inward
  <2>2. Requests(S, d)' = Requests(S, d)
    BY <1>1, <1>2, <2>1 DEF Requests
  <2>3. Heard(S, d)' = Heard(S, d) /\ Heard(S, d) \subseteq S
    BY <1>1, <1>2, <2>1 DEF Heard
  <2>4. Echoed(S, d)' = Echoed(S, d)
    BY <1>1, <2>3 DEF Echoed
  <2> QED BY <2>2, <2>3, <2>4 DEF FromBus
<1> QED BY <1>2, <1>3, <1>4

(* What a frame adds to the counters of its device: one from it ...        *)
LEMMA EchoFromCounts ==
  ASSUME NEW s \in EchoStatsType, NEW f \in FrameType
  PROVE  /\ EchoFrom(s, f).tx_requests = s.tx_requests
         /\ EchoFrom(s, f).echoes = IF f.echo = RX_ECHO_ID THEN s.echoes ELSE s.echoes + 1
         /\ EchoFrom(s, f).device_rx = IF f.echo = RX_ECHO_ID THEN s.device_rx + 1 ELSE s.device_rx
<1> DEFINE c == <<f.ch, f.echo>>
<1>1. CASE f.echo = RX_ECHO_ID
  BY <1>1 DEF EchoFrom, EchoStatsType
<1>2. CASE f.echo # RX_ECHO_ID /\ c \in s.outstanding
  BY <1>2 DEF EchoFrom, EchoStatsType
<1>3. CASE f.echo # RX_ECHO_ID /\ c \notin s.outstanding
  BY <1>3 DEF EchoFrom, EchoStatsType
<1> QED BY <1>1, <1>2, <1>3

(* ... and one to it.                                                      *)
LEMMA RequestFromCounts ==
  ASSUME NEW s \in EchoStatsType, NEW f \in FrameType
  PROVE  /\ RequestFrom(s, f).tx_requests = s.tx_requests + 1
         /\ RequestFrom(s, f).echoes = s.echoes /\ RequestFrom(s, f).device_rx = s.device_rx
<1> DEFINE c == <<f.ch, f.echo>>
<1> HIDE DEF c
<1> QED BY DEF RequestFrom, EchoStatsType, c

(* The first g[j] spots of every record j of D, ...                        *)
ReadOver(D, g) == UNION {{j} \X (1..g[j]) : j \in D}

(* ... which are one more when g is for one record, ...                    *)
LEMMA ReadOneMore ==
  ASSUME NEW D, NEW g, NEW h, NEW n \in D, g[n] \in Nat, h[n] = g[n] + 1,
         \A j \in D : j # n => h[j] = g[j]
  PROVE  /\ ReadOver(D, h) = ReadOver(D, g) \cup {<<n, g[n] + 1>>}
         /\ <<n, g[n] + 1>> \notin ReadOver(D, g)
<1>1. PICK k \in Nat : k = g[n]
  OBVIOUS
<1>2. \A i : i \in 1..k + 1 <=> i \in 1..k \/ i = k + 1
  OBVIOUS
<1>3. \A s : s \in ReadOver(D, g) <=> \E j \in D : \E i \in 1..g[j] : s = <<j, i>>
  BY DEF ReadOver
<1>4. \A s : s \in ReadOver(D, h) <=> \E j \in D : \E i \in 1..h[j] : s = <<j, i>>
  BY DEF ReadOver
<1>5. <<n, k + 1>> \notin ReadOver(D, g)
  BY <1>1, <1>3
<1>6. ASSUME NEW s PROVE s \in ReadOver(D, h) <=> s \in ReadOver(D, g) \/ s = <<n, k + 1>>
  <2>1. ASSUME s \in ReadOver(D, h) PROVE s \in ReadOver(D, g) \/ s = <<n, k + 1>>
    <3>1. PICK j \in D : \E i \in 1..h[j] : s = <<j, i>>
      BY <1>4, <2>1
    <3> QED BY <1>1, <1>2, <1>3, <3>1
  <2>2. ASSUME s \in ReadOver(D, g) PROVE s \in ReadOver(D, h)
    <3>1. PICK j \in D : \E i \in 1..g[j] : s = <<j, i>>
      BY <1>3, <2>2
    <3> QED BY <1>1, <1>2, <1>4, <3>1
  <2>3. <<n, k + 1>> \in ReadOver(D, h)
    BY <1>1, <1>2, <1>4
  <2> QED BY <2>1, <2>2, <2>3
<1> QED BY <1>1, <1>5, <1>6

(* ... and which are what has been looked at.                              *)
LEMMA ReadOverIs ==
  /\ HostRead = ReadOver(DOMAIN capture, [j \in DOMAIN capture |-> Done(j)])
  /\ GsRead = ReadOver(DOMAIN capture, [j \in DOMAIN capture |-> GsDone(j)])
BY DEF ReadOver, HostRead, GsRead

(* A record on its own brings frames to look at, and none looked at, ...   *)
LEMMA RecordReads ==
  ASSUME TypeInv, GsReadingInv, NEW r \in Records, NEW step \in Steps, Record(r, Now + step)
  PROVE  /\ HostRead' = HostRead /\ GsRead' = GsRead /\ GsReadingInv'
         /\ \A s \in HostRead \cup GsRead : capture'[s[1]] = capture[s[1]]
<1>0. PICK n : n = Len(capture) + 1
  OBVIOUS
<1>1. PICK t \in Nat : t = Now + step
  BY TimeType DEF TypeInv
<1>2. /\ r \in RecordType /\ r.payload \in Seq(FrameType)
      /\ capture' = Append(capture, [time |-> t, rec |-> r])
  BY <1>1, CaptureAssumption DEF Record, RecordType
<1>3. /\ n \in Nat /\ n > 0 /\ DOMAIN capture = 1..n - 1 /\ DOMAIN capture' = 1..n
      /\ \A j \in 1..n - 1 : capture'[j] = capture[j] /\ capture[j] \in [time : Nat, rec : RecordType]
      /\ capture'[n].rec = r
  BY <1>0, <1>1, <1>2, Longer DEF TypeInv
<1>4. Len(capture') = n /\ Len(capture) = n - 1
  <2>1. Len(capture) \in Nat /\ capture \in Seq([time : Nat, rec : RecordType])
    BY LenProperties DEF TypeInv, CaptureType
  <2> QED BY <1>0, <1>1, <1>2, <2>1, AppendProperties
<1>5. /\ rest = <<>> /\ rest' = HostFrames(r.payload)
      /\ gsrest = <<>> /\ gsrest' = GsDecode(r.payload) /\ gs' = gs
      /\ gsrow' = [ep |-> r.ep, time |-> t]
  BY <1>1 DEF Record, EchoRow, GsRow
<1>6. /\ Len(rest') \in Nat /\ gsrest' \in Seq(FrameType) /\ Len(gsrest') \in Nat
      /\ \A i \in 1..Len(gsrest') : gsrest'[i] = r.payload[i]
  BY <1>2, <1>5, FramesPrefix DEF HostFrames, GsDecode
<1>7. Frames(n)' = rest' /\ Done(n)' = 0 /\ GsFramesOf(n)' = gsrest' /\ GsDone(n)' = 0
  BY <1>3, <1>4, <1>5, <1>6 DEF Frames, Done, GsFramesOf, GsDone
<1>8. ASSUME NEW j \in 1..n - 1 PROVE Done(j)' = Done(j) /\ GsDone(j)' = GsDone(j)
  <2>1. capture[j].rec.payload \in Seq(FrameType)
    BY <1>3 DEF RecordType
  <2>2. Len(Frames(j)) \in Nat /\ Len(GsFramesOf(j)) \in Nat
    BY <2>1, FramesPrefix DEF Frames, HostFrames, GsFramesOf, GsDecode
  <2>3. capture'[j] = capture[j] /\ j # n /\ Len(<<>>) = 0
    BY <1>3
  <2>4. Frames(j)' = Frames(j) /\ GsFramesOf(j)' = GsFramesOf(j)
    BY <2>3 DEF Frames, GsFramesOf
  <2>5. Done(j) = Len(Frames(j)) /\ GsDone(j) = Len(GsFramesOf(j))
    BY <1>5, <2>2, <2>3 DEF Done, GsDone
  <2>6. Done(j)' = Len(Frames(j))' /\ GsDone(j)' = Len(GsFramesOf(j))'
    BY <1>4, <2>3 DEF Done, GsDone
  <2> QED BY <2>4, <2>5, <2>6
<1>9. \A j : j \in 1..n <=> j \in 1..n - 1 \/ j = n
  BY <1>3
<1>10. HostRead' = HostRead /\ GsRead' = GsRead
  <2>1. HostRead' = UNION {{j} \X (1..Done(j)') : j \in 1..n}
    BY <1>3 DEF HostRead
  <2>2. HostRead = UNION {{j} \X (1..Done(j)) : j \in 1..n - 1}
    BY <1>3 DEF HostRead
  <2>3. GsRead' = UNION {{j} \X (1..GsDone(j)') : j \in 1..n}
    BY <1>3 DEF GsRead
  <2>4. GsRead = UNION {{j} \X (1..GsDone(j)) : j \in 1..n - 1}
    BY <1>3 DEF GsRead
  <2>5. {n} \X (1..0) = {}
    OBVIOUS
  <2>6. HostRead' = HostRead
    BY <1>7, <1>8, <1>9, <2>1, <2>2, <2>5
  <2>7. GsRead' = GsRead
    BY <1>7, <1>8, <1>9, <2>3, <2>4, <2>5
  <2> QED BY <2>6, <2>7
<1>11. \A s \in HostRead \cup GsRead : capture'[s[1]] = capture[s[1]]
  <2>1. \A s \in HostRead \cup GsRead : s[1] \in DOMAIN capture
    BY DEF HostRead, GsRead
  <2> QED BY <1>3, <2>1
<1>12. GsReadingInv'
  <2>1. Len(gsrest') <= Len(GsFramesOf(n))'
    BY <1>6, <1>7
  <2>2. \A i \in 1..Len(gsrest') : gsrest'[i] = r.payload[0 + i]
    BY <1>6
  <2>3. gs' \in GsType /\ gsrow'.time \in Nat /\ gsrow'.ep = r.ep
    BY <1>5 DEF GsReadingInv
  <2>4. /\ Len(capture)' = n /\ (capture[Len(capture)].rec)' = r
        /\ GsFramesOf(Len(capture))' = GsFramesOf(n)' /\ GsDone(Len(capture))' = 0
    BY <1>3, <1>4, <1>7 DEF GsFramesOf, GsDone
  <2> QED BY <1>3, <1>6, <2>1, <2>2, <2>3, <2>4 DEF GsReadingInv
<1> QED BY <1>10, <1>11, <1>12

(* ... so it changes no count.                                             *)
LEMMA RecordCountsNone ==
  ASSUME TypeInv, GsReadingInv, CountInv,
         NEW r \in Records, NEW step \in Steps, Record(r, Now + step)
  PROVE  CountInv'
<1>1. PICK S, T : S = HostRead /\ T = GsRead
  OBVIOUS
<1>2. /\ HostRead' = S /\ GsRead' = T
      /\ \A s \in S : capture'[s[1]] = capture[s[1]]
      /\ \A s \in T : capture'[s[1]] = capture[s[1]]
  BY <1>1, RecordReads
<1>3. gs' = gs /\ GsCounts(T) /\ EchoCounts(S)
  BY <1>1 DEF Record, GsRow, CountInv
<1>4. GsCounts(T)'
  BY <1>2, <1>3, KindsSame DEF GsCounts
<1>5. ASSUME NEW d \in Devices PROVE EchoCountsOf(S, d)'
  <2>1. /\ Requests(S, d)' = Requests(S, d) /\ Echoed(S, d)' = Echoed(S, d)
        /\ FromBus(S, d)' = FromBus(S, d)
    BY <1>2, KindsSame
  <2>2. EchoCountsOf(S, d)
    BY <1>3 DEF EchoCounts
  <2>3. /\ echo'[d].tx_requests = echo[d].tx_requests
        /\ echo'[d].echoes = echo[d].echoes /\ echo'[d].device_rx = echo[d].device_rx
    <3>1. echo \in [Devices -> EchoStatsType] /\ r.dev \in Devices
      BY CaptureAssumption DEF TypeInv, TypeOK, RecordType
    <3>2. echo' = [echo EXCEPT ![r.dev].in_records = IF In(r.ep) THEN @ + 1 ELSE @]
      BY DEF Record, EchoRow
    <3>3. PICK k : k = IF In(r.ep) THEN echo[r.dev].in_records + 1 ELSE echo[r.dev].in_records
      OBVIOUS
    <3>4. echo' = [echo EXCEPT ![r.dev] = [echo[r.dev] EXCEPT !.in_records = k]]
      BY <3>1, <3>2, <3>3
    <3> QED BY <3>1, <3>4 DEF EchoStatsType
  <2> QED BY <2>1, <2>2, <2>3 DEF EchoCountsOf
<1>6. CountInv' <=> EchoCounts(S)' /\ GsCounts(T)'
  BY <1>2 DEF CountInv, EchoCounts, EchoCountsOf, GsCounts, Requests, Echoed, FromBus, Heard,
              Outward, Inward, OnChannel
<1> QED BY <1>3, <1>4, <1>5, <1>6 DEF EchoCounts

(* A frame of the echo decoder is counted as what it was ...               *)
LEMMA EchoFrameCounts ==
  ASSUME TypeInv, ReadingInv, CountInv, EchoDecodes
  PROVE  CountInv'
<1>1. PICK n, r, f, k : /\ n = Len(capture) /\ r = capture[n].rec /\ f = Head(rest) /\ k = Done(n)
  OBVIOUS
<1>2. PICK S, T, x : S = HostRead /\ T = GsRead /\ x = <<n, k + 1>>
  OBVIOUS
<1>3. /\ n \in DOMAIN capture /\ r \in RecordType /\ capture' = capture
      /\ row.dev = r.dev /\ row.ep = r.ep /\ row.type = r.type /\ row.status = r.status
      /\ f = r.payload[k + 1] /\ k \in Nat
  BY <1>1, NextFrame DEF EchoDecodes
<1>4. Done(n)' = k + 1 /\ \A j \in DOMAIN capture : j # n => Done(j)' = Done(j)
  <2>1. Done(Len(capture))' = Done(n)'
    BY <1>1, <1>3 DEF Done, Frames
  <2> QED BY <1>1, <2>1, NextFrame
<1>5. HostRead' = S \cup {x} /\ x \notin S
  <2>1. PICK D, g, h : /\ D = DOMAIN capture /\ g = [j \in D |-> Done(j)]
                       /\ h = [j \in D |-> Done(j)']
    OBVIOUS
  <2>2. n \in D /\ g[n] = k /\ g[n] \in Nat /\ h[n] = g[n] + 1 /\ \A j \in D : j # n => h[j] = g[j]
    BY <1>1, <1>3, <1>4, <2>1
  <2>3. ReadOver(D, h) = ReadOver(D, g) \cup {<<n, g[n] + 1>>} /\ <<n, g[n] + 1>> \notin ReadOver(D, g)
    BY <2>2, ReadOneMore
  <2>4. S = ReadOver(D, g)
    BY <1>2, <2>1, ReadOverIs
  <2>5. HostRead' = ReadOver(D, h)
    BY <1>3, <2>1 DEF HostRead, ReadOver
  <2> QED BY <1>2, <2>2, <2>3, <2>4, <2>5
<1>6. GsRead' = T /\ gs' = gs
  BY <1>2, <1>3 DEF EchoDecodes, gsVars, GsRead, GsDone, GsFramesOf
<1>7. GsCounts(GsRead)'
  <2>1. GsCounts(T)
    BY <1>2 DEF CountInv
  <2>2. \A s \in T : capture'[s[1]] = capture[s[1]]
    BY <1>3
  <2>3. GsCounts(T)'
    BY <1>6, <2>1, <2>2, KindsSame DEF GsCounts
  <2> QED BY <1>6, <2>3 DEF GsCounts, Outward, Inward, OnChannel
<1>8. PICK U : U = S \cup {x}
  OBVIOUS
<1>9. Carrier(x) = r /\ Spotted(x) = f
  BY <1>1, <1>2, <1>3 DEF Carrier, Spotted
<1>10. IsFiniteSet(S) /\ \A d \in Devices : EchoCountsOf(S, d)
  BY <1>2 DEF CountInv, EchoCounts
<1>11. /\ f \in FrameType /\ r.dev \in Devices /\ echo \in [Devices -> EchoStatsType]
       /\ echo' = IF Counts(row, f)
                  THEN [echo EXCEPT ![r.dev] = IF In(r.ep) THEN EchoFrom(@, f) ELSE RequestFrom(@, f)]
                  ELSE echo
  <2>1. row.dev \in Devices
    BY FrameAtHand DEF EchoDecodes, RowType
  <2>2. echo' = IF Counts(row, Head(rest))
             THEN [echo EXCEPT ![row.dev] =
                     IF In(row.ep) THEN EchoFrom(@, Head(rest)) ELSE RequestFrom(@, Head(rest))]
             ELSE echo
    BY DEF EchoDecodes, EchoFrame
  <2> QED BY <1>1, <1>3, <2>1, <2>2, FrameAtHand DEF TypeInv, TypeOK, EchoDecodes
<1>12. Counts(row, f) <=> IF In(r.ep) THEN r.type # "S" /\ r.status = 0
                          ELSE r.type = "S" /\ f.echo # RX_ECHO_ID
  BY <1>3 DEF Counts, RecordType
<1>13. ASSUME NEW d \in Devices
       PROVE  /\ echo'[d].tx_requests = Cardinality(Requests(U, d))
              /\ echo'[d].echoes = Cardinality(Echoed(U, d))
              /\ echo'[d].device_rx = Cardinality(FromBus(U, d))
  <2>1. PICK s, e : s = echo[d] /\ e = echo'[d]
    OBVIOUS
  <2>2. s \in EchoStatsType
    BY <1>11, <2>1
  <2>3. /\ s.tx_requests = Cardinality(Requests(S, d))
        /\ s.echoes = Cardinality(Echoed(S, d)) /\ s.device_rx = Cardinality(FromBus(S, d))
    BY <1>10, <2>1 DEF EchoCountsOf
  <2>4. /\ Cardinality(Requests(U, d)) =
             IF r.dev = d /\ ~In(r.ep) /\ r.type = "S" /\ f.echo # RX_ECHO_ID
             THEN s.tx_requests + 1 ELSE s.tx_requests
        /\ Cardinality(Echoed(U, d)) =
             IF r.dev = d /\ In(r.ep) /\ r.type # "S" /\ r.status = 0 /\ f.echo # RX_ECHO_ID
             THEN s.echoes + 1 ELSE s.echoes
        /\ Cardinality(FromBus(U, d)) =
             IF r.dev = d /\ In(r.ep) /\ r.type # "S" /\ r.status = 0 /\ f.echo = RX_ECHO_ID
             THEN s.device_rx + 1 ELSE s.device_rx
    <3>1. x \notin S
      BY <1>5
    <3> QED BY <1>8, <1>9, <1>10, <2>3, <3>1, EchoKindsGrow
  <2>5. CASE d # r.dev \/ ~Counts(row, f)
    <3>1. e = s
      BY <1>11, <2>1, <2>5
    <3> QED BY <1>12, <2>1, <2>4, <2>5, <3>1
  <2>6. CASE d = r.dev /\ Counts(row, f) /\ In(r.ep)
    <3>1. e = EchoFrom(s, f)
      BY <1>11, <2>1, <2>6
    <3>2. /\ e.tx_requests = s.tx_requests
          /\ e.echoes = IF f.echo = RX_ECHO_ID THEN s.echoes ELSE s.echoes + 1
          /\ e.device_rx = IF f.echo = RX_ECHO_ID THEN s.device_rx + 1 ELSE s.device_rx
      BY <1>11, <2>2, <3>1, EchoFromCounts
    <3> QED BY <1>12, <2>1, <2>4, <2>6, <3>2
  <2>7. CASE d = r.dev /\ Counts(row, f) /\ ~In(r.ep)
    <3>1. e = RequestFrom(s, f)
      BY <1>11, <2>1, <2>7
    <3>2. e.tx_requests = s.tx_requests + 1 /\ e.echoes = s.echoes /\ e.device_rx = s.device_rx
      BY <1>11, <2>2, <3>1, RequestFromCounts
    <3> QED BY <1>12, <2>1, <2>4, <2>7, <3>2
  <2> QED BY <2>5, <2>6, <2>7
<1>14. /\ \A s \in U : capture'[s[1]] = capture[s[1]]
       /\ IsFiniteSet(U)
  BY <1>3, <1>8, <1>10, FS_AddElement
<1>15. ASSUME NEW d \in Devices PROVE EchoCountsOf(U, d)'
  <2>1. /\ Requests(U, d)' = Requests(U, d) /\ Echoed(U, d)' = Echoed(U, d)
        /\ FromBus(U, d)' = FromBus(U, d)
    BY <1>14, KindsSame
  <2> QED BY <1>13, <2>1 DEF EchoCountsOf
<1>16. EchoCounts(HostRead)'
  BY <1>5, <1>8, <1>14, <1>15
     DEF EchoCounts, EchoCountsOf, Requests, Echoed, FromBus, Heard, Outward, Inward
<1> QED BY <1>7, <1>16 DEF CountInv

(* ... and one of the other decoder where it came from.                    *)
LEMMA GsFrameCounts ==
  ASSUME TypeInv, GsReadingInv, CountInv, GsDecodes
  PROVE  GsReadingInv' /\ CountInv'
<1>1. PICK n, r, f, k : /\ n = Len(capture) /\ r = capture[n].rec /\ f = Head(gsrest) /\ k = GsDone(n)
  OBVIOUS
<1>2. PICK S, T, x : S = HostRead /\ T = GsRead /\ x = <<n, k + 1>>
  OBVIOUS
<1>0. GsFrame /\ capture' = capture
  BY DEF GsDecodes
<1>3. /\ n \in DOMAIN capture /\ gsrow.ep = r.ep
      /\ f = r.payload[k + 1] /\ k \in Nat /\ f \in FrameType
      /\ GsDone(n)' = k + 1 /\ \A j \in DOMAIN capture : j # n => GsDone(j)' = GsDone(j)
      /\ GsReadingInv'
  BY <1>0, <1>1, NextGsFrame
<1>5. GsRead' = T \cup {x} /\ x \notin T
  <2>1. PICK D, g, h : /\ D = DOMAIN capture /\ g = [j \in D |-> GsDone(j)]
                       /\ h = [j \in D |-> GsDone(j)']
    OBVIOUS
  <2>2. n \in D /\ g[n] = k /\ g[n] \in Nat /\ h[n] = g[n] + 1 /\ \A j \in D : j # n => h[j] = g[j]
    BY <1>1, <1>3, <2>1
  <2>3. ReadOver(D, h) = ReadOver(D, g) \cup {<<n, g[n] + 1>>} /\ <<n, g[n] + 1>> \notin ReadOver(D, g)
    BY <2>2, ReadOneMore
  <2>4. T = ReadOver(D, g)
    BY <1>2, <2>1, ReadOverIs
  <2>5. GsRead' = ReadOver(D, h)
    BY <1>0, <2>1 DEF GsRead, ReadOver
  <2> QED BY <1>2, <2>2, <2>3, <2>4, <2>5
<1>6. HostRead' = S /\ echo' = echo
  BY <1>0, <1>2 DEF GsDecodes, echoVars, HostRead, Done, Frames
<1>7. EchoCounts(HostRead)'
  <2>1. EchoCounts(S)
    BY <1>2 DEF CountInv
  <2>2. \A s \in S : capture'[s[1]] = capture[s[1]]
    BY <1>0
  <2>3. EchoCounts(S)'
    BY <1>6, <2>1, <2>2, KindsSame DEF EchoCounts, EchoCountsOf
  <2> QED BY <1>6, <2>3 DEF EchoCounts, EchoCountsOf, Requests, Echoed, FromBus, Heard, Outward, Inward
<1>8. PICK U : U = T \cup {x}
  OBVIOUS
<1>9. Carrier(x) = r /\ Spotted(x) = f
  BY <1>1, <1>2, <1>3 DEF Carrier, Spotted
<1>10. GsCounts(T)
  BY <1>2 DEF CountInv
<1>11. /\ gs'.frames = gs.frames + 1
       /\ gs'.rx = IF In(r.ep) THEN gs.rx + 1 ELSE gs.rx
       /\ gs'.tx = IF In(r.ep) THEN gs.tx ELSE gs.tx + 1
       /\ \A c \in Channels : gs'.channels[c] = IF c = f.ch THEN gs.channels[c] + 1 ELSE gs.channels[c]
  BY <1>0, <1>1, <1>3, GsCounted
<1>12. ASSUME NEW c
       PROVE  /\ IsFiniteSet(U) /\ Cardinality(U) = Cardinality(T) + 1
              /\ Cardinality(Outward(U)) =
                   IF In(r.ep) THEN Cardinality(Outward(T)) ELSE Cardinality(Outward(T)) + 1
              /\ Cardinality(Inward(U)) =
                   IF In(r.ep) THEN Cardinality(Inward(T)) + 1 ELSE Cardinality(Inward(T))
              /\ Cardinality(OnChannel(U, c)) =
                   IF f.ch = c THEN Cardinality(OnChannel(T, c)) + 1 ELSE Cardinality(OnChannel(T, c))
  <2>1. IsFiniteSet(T) /\ x \notin T
    BY <1>5, <1>10 DEF GsCounts
  <2> QED BY <1>8, <1>9, <2>1, KindsGrow
<1>13. /\ gs'.frames = Cardinality(U)
       /\ gs'.tx = Cardinality(Outward(U)) /\ gs'.rx = Cardinality(Inward(U))
       /\ \A c \in Channels : gs'.channels[c] = Cardinality(OnChannel(U, c))
  BY <1>10, <1>11, <1>12 DEF GsCounts
<1>14. /\ Outward(U)' = Outward(U) /\ Inward(U)' = Inward(U)
       /\ \A c : OnChannel(U, c)' = OnChannel(U, c)
  <2>1. \A s \in U : capture'[s[1]] = capture[s[1]]
    BY <1>0
  <2> QED BY <2>1, KindsSame
<1>15. GsCounts(U)'
  BY <1>12, <1>13, <1>14 DEF GsCounts
<1>16. GsCounts(GsRead)'
  BY <1>5, <1>8, <1>15 DEF GsCounts, Outward, Inward, OnChannel
<1> QED BY <1>3, <1>7, <1>16 DEF CountInv

(* Both frame decoders count every frame that their rule reads of the      *)
(* capture, and none twice, for every capture and every payload            *)
(* (analyze_ethercan_pcap.py:80-110, 248-286,                              *)
(* analyze_usbcan_echo.py:88-139).                                         *)
THEOREM FramesCounted == Spec => []FramesTold
<1> DEFINE Inv == TypeInv /\ ReadingInv /\ OpenInv /\ GsReadingInv /\ CountInv
<1>1. Init => Inv
  <2> SUFFICES ASSUME Init PROVE Inv
    OBVIOUS
  <2>1. /\ rest = <<>> /\ capture = <<>> /\ echo = [d \in Devices |-> NewDevice]
        /\ gsrest = <<>> /\ gsrow.time = 0
        /\ gs = [frames |-> 0, tx |-> 0, rx |-> 0, channels |-> [c \in Channels |-> 0],
                 first |-> None, last |-> None,
                 gap_count |-> 0, gap_sum |-> 0, gap_max |-> None]
    BY DEF Init, EchoInit, GsInit
  <2>2. ReadingInv /\ OpenInv
    BY <2>1 DEF ReadingInv, OpenInv, OpenAt, NewDevice
  <2>3. GsReadingInv
    <3>1. gs \in GsType
      BY <2>1 DEF GsType, None
    <3> QED BY <2>1, <3>1, EmptySeq DEF GsReadingInv
  <2>4. HostRead = {} /\ GsRead = {}
    BY <2>1 DEF HostRead, GsRead
  <2>5. /\ Outward({}) = {} /\ Inward({}) = {} /\ \A c : OnChannel({}, c) = {}
        /\ \A d : Requests({}, d) = {} /\ Echoed({}, d) = {} /\ FromBus({}, d) = {}
    BY DEF Outward, Inward, OnChannel, Requests, Echoed, FromBus, Heard
  <2>6. IsFiniteSet({}) /\ Cardinality({}) = 0
    BY FS_EmptySet
  <2>7. GsCounts({})
    BY <2>1, <2>5, <2>6 DEF GsCounts
  <2>8. EchoCounts({})
    BY <2>1, <2>5, <2>6 DEF EchoCounts, EchoCountsOf, NewDevice
  <2> QED BY <2>2, <2>3, <2>4, <2>7, <2>8, InitTyped DEF CountInv
<1>2. Inv /\ [Next]_vars => Inv'
  <2> SUFFICES ASSUME Inv, [Next]_vars PROVE Inv'
    OBVIOUS
  <2>1. ASSUME NEW r \in Records, NEW step \in Steps, Record(r, Now + step) PROVE Inv'
    BY <2>1, RecordTyped, RecordLeavesOpen, RecordReads, RecordCountsNone
  <2>2. CASE EchoDecodes
    <3>1. UNCHANGED <<capture, gs, gsrow, gsrest>>
      BY <2>2 DEF EchoDecodes, gsVars
    <3>2. GsReadingInv'
      BY <3>1 DEF GsReadingInv, GsDone, GsFramesOf
    <3> QED BY <2>2, <3>2, EchoDecodesTyped, NextFrame, FrameKeepsOpen, EchoFrameCounts
  <2>3. ASSUME UNCHANGED <<urb, echo, row, rest, capture>> PROVE TypeInv' /\ ReadingInv' /\ OpenInv'
    <3>1. TypeInv' /\ ReadingInv'
      BY <2>3 DEF TypeInv, TypeOK, CaptureType, ReadingInv, Done, Frames
    <3>2. OpenInv'
      BY <2>3 DEF OpenInv, OpenAt, Asker, Answerer, Has, Done, Frames
    <3> QED BY <3>1, <3>2
  <2>4. CASE GsDecodes
    <3>1. UNCHANGED <<urb, echo, row, rest, capture>>
      BY <2>4 DEF GsDecodes, urbVars, echoVars
    <3> QED BY <2>3, <2>4, <3>1, GsFrameCounts
  <2>5. CASE UNCHANGED vars
    <3>1. UNCHANGED <<urb, echo, row, rest, capture, gs, gsrow, gsrest>>
      BY <2>5 DEF vars, urbVars, echoVars, gsVars
    <3>2. GsReadingInv'
      BY <3>1 DEF GsReadingInv, GsDone, GsFramesOf
    <3>3. HostRead' = HostRead /\ GsRead' = GsRead
      BY <3>1 DEF HostRead, GsRead, Done, GsDone, Frames, GsFramesOf
    <3>4. CountInv'
      <4>1. PICK S, T : S = HostRead /\ T = GsRead
        OBVIOUS
      <4>2. EchoCounts(S) /\ GsCounts(T)
        BY <4>1 DEF CountInv
      <4>3. EchoCounts(S)' /\ GsCounts(T)'
        BY <3>1, <4>2, KindsSame DEF EchoCounts, EchoCountsOf, GsCounts
      <4>4. EchoCounts(HostRead)' /\ GsCounts(GsRead)'
        BY <3>3, <4>1, <4>3 DEF EchoCounts, EchoCountsOf, GsCounts, Requests, Echoed, FromBus,
                                Heard, Outward, Inward, OnChannel
      <4> QED BY <4>4 DEF CountInv
    <3> QED BY <2>3, <3>1, <3>2, <3>4
  <2> QED BY <2>1, <2>2, <2>4, <2>5 DEF Next
<1>3. Inv => FramesTold
  <2> SUFFICES ASSUME Inv, Decoded
               PROVE  /\ gs.frames = Cardinality(GsSpots)
                      /\ gs.tx = Cardinality(Outward(GsSpots)) /\ gs.rx = Cardinality(Inward(GsSpots))
                      /\ \A c \in Channels : gs.channels[c] = Cardinality(OnChannel(GsSpots, c))
                      /\ \A d \in Devices :
                           /\ echo[d].tx_requests = Cardinality(Requests(HostSpots, d))
                           /\ echo[d].echoes = Cardinality(Echoed(HostSpots, d))
                           /\ echo[d].device_rx =
                                Cardinality(Heard(HostSpots, d) \ Echoed(HostSpots, d))
    BY DEF FramesTold
  <2>1. ASSUME NEW j \in DOMAIN capture
        PROVE  Done(j) = Len(Frames(j)) /\ GsDone(j) = Len(GsFramesOf(j))
    <3>0. capture[j] \in [time : Nat, rec : RecordType]
      BY ElementOfSeq, LenProperties DEF TypeInv, CaptureType
    <3>1. capture[j].rec.payload \in Seq(FrameType)
      BY <3>0 DEF RecordType
    <3>2. Len(Frames(j)) \in Nat /\ Len(GsFramesOf(j)) \in Nat
      BY <3>1, FramesPrefix DEF Frames, HostFrames, GsFramesOf, GsDecode
    <3>3. Len(rest) = 0 /\ Len(gsrest) = 0
      BY DEF Decoded
    <3> QED BY <3>2, <3>3 DEF Done, GsDone
  <2>2. HostSpots = HostRead /\ GsSpots = GsRead
    BY <2>1 DEF HostSpots, HostRead, GsSpots, GsRead, Frames, GsFramesOf
  <2>3. GsCounts(GsSpots) /\ EchoCounts(HostSpots)
    BY <2>2 DEF CountInv
  <2> QED BY <2>3 DEF GsCounts, EchoCounts, EchoCountsOf, FromBus
<1> QED BY <1>1, <1>2, <1>3, PTL DEF Spec
=============================================================================
