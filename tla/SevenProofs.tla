----------------------------- MODULE SevenProofs -----------------------------
(***************************************************************************)
(* Theorems about the recorder and what is read from its files afterwards. *)
(* Of SevenCapture, for any number of sessions, any poll limit, any        *)
(* rotation period, any set of stream processes and any set of faults.  Of *)
(* SevenDimensions, for every recording, any number of runs and wherever   *)
(* they are interrupted: the summary tells of the files that are there,    *)
(* and they hold every line.  Of CanAsc, for any identifiers, losses and   *)
(* halts: the silences are told, and the losses that are reported are      *)
(* those that happened.                                                    *)
(***************************************************************************)
EXTENDS SevenCapture, SevenDimensions, CanAsc,
        FiniteSetTheorems, SequenceTheorems, WellFoundedInduction, TLAPS
-----------------------------------------------------------------------------
(* The files of a session (SevenDimensions).                               *)

(* Sets with a bijection between them are of the same size.                *)
LEMMA SameSize ==
  ASSUME NEW S, NEW T, IsFiniteSet(S), NEW f \in [S -> T],
         \A x, y \in S : f[x] = f[y] => x = y, \A t \in T : \E x \in S : f[x] = t
  PROVE  IsFiniteSet(T) /\ Cardinality(T) = Cardinality(S)
<1>1. f \in Bijection(S, T)
  BY DEF Bijection, Injection, Surjection, IsInjective
<1>2. ExistsBijection(S, T)
  BY <1>1 DEF ExistsBijection
<1> QED BY <1>2, FS_Bijection

(* The rows of a run, whatever the recording was.                          *)
DimRow == [dim : Outputs \cup {"session"}, parser : 1..13, t : Nat, line : Nat, part : 1..2]
Ordered(R) == \A a, b \in R : a # b => RowBefore(a, b) \/ RowBefore(b, a)
Preceding(R, r) == {q \in R : RowBefore(q, r)}

(* The order of the rows is a strict one.                                  *)
LEMMA RowOrder ==
  /\ \A a \in DimRow : ~RowBefore(a, a)
  /\ \A a, b, c \in DimRow : RowBefore(a, b) /\ RowBefore(b, c) => RowBefore(a, c)
BY DEF DimRow, RowBefore

(* A row that comes after another has more rows before it.                 *)
LEMMA MoreRowsBefore ==
  ASSUME NEW R \in SUBSET DimRow, IsFiniteSet(R), NEW a \in R, NEW b \in R, RowBefore(a, b)
  PROVE  Cardinality(Preceding(R, a)) < Cardinality(Preceding(R, b))
<1>1. PICK A : A = Preceding(R, a)
  OBVIOUS
<1>2. PICK B : B = Preceding(R, b)
  OBVIOUS
<1>3. A \in SUBSET B /\ a \in B /\ a \notin A
  BY <1>1, <1>2, RowOrder DEF Preceding
<1>4. IsFiniteSet(B)
  BY <1>2, FS_Subset DEF Preceding
<1>5. IsFiniteSet(A) /\ Cardinality(A) <= Cardinality(B) /\ Cardinality(A) # Cardinality(B)
  BY <1>3, <1>4, FS_Subset
<1>6. Cardinality(A) \in Nat /\ Cardinality(B) \in Nat
  BY <1>4, <1>5, FS_CardinalityType
<1> QED BY <1>1, <1>2, <1>5, <1>6

(* A list of rows holds each of them once, in the order of their times.    *)
Lists(s, R) ==
  /\ s \in Seq(R) /\ Len(s) = Cardinality(R)
  /\ \A j, k \in DOMAIN s : s[j] = s[k] => j = k
  /\ \A r \in R : \E j \in DOMAIN s : s[j] = r
  /\ \A j, k \in DOMAIN s : j < k => s[j].t <= s[k].t

(* Sorted lists the rows of any finite set of them.                        *)
LEMMA SortedLists ==
  ASSUME NEW R \in SUBSET DimRow, IsFiniteSet(R), Ordered(R)
  PROVE  Lists(Sorted(R), R)
<1>0. PICK n : n = Cardinality(R)
  OBVIOUS
<1>1. n \in Nat
  BY <1>0, FS_CardinalityType
<1>2. PICK place : place = [r \in R |-> Cardinality(Preceding(R, r)) + 1]
  OBVIOUS
<1>3. ASSUME NEW r \in R PROVE place[r] \in 1..n /\ Cardinality(Preceding(R, r)) = place[r] - 1
  <2>1. PICK P : P = Preceding(R, r)
    OBVIOUS
  <2>2. P \in SUBSET R /\ r \notin P
    BY <2>1, RowOrder DEF Preceding
  <2>3. IsFiniteSet(P) /\ Cardinality(P) <= Cardinality(R) /\ Cardinality(P) # Cardinality(R)
    BY <2>2, FS_Subset
  <2>4. Cardinality(P) \in Nat
    BY <2>3, FS_CardinalityType
  <2>5. Cardinality(P) \in 0..n - 1
    BY <1>0, <1>1, <2>3, <2>4
  <2>6. place[r] = Cardinality(P) + 1
    BY <1>2, <2>1
  <2> QED BY <1>1, <2>1, <2>5, <2>6
<1>4. \A a, b \in R : RowBefore(a, b) => place[a] < place[b]
  <2> SUFFICES ASSUME NEW a \in R, NEW b \in R, RowBefore(a, b) PROVE place[a] < place[b]
    OBVIOUS
  <2>1. Cardinality(Preceding(R, a)) < Cardinality(Preceding(R, b))
    BY MoreRowsBefore
  <2>2. place[a] - 1 < place[b] - 1 /\ place[a] \in Int /\ place[b] \in Int
    BY <1>3, <2>1
  <2> QED BY <2>2
<1>5. \A a, b \in R : place[a] = place[b] => a = b
  <2> SUFFICES ASSUME NEW a \in R, NEW b \in R, a # b PROVE place[a] # place[b]
    OBVIOUS
  <2>1. place[a] \in Int /\ place[b] \in Int
    BY <1>3
  <2>2. place[a] < place[b] \/ place[b] < place[a]
    BY <1>4 DEF Ordered
  <2> QED BY <2>1, <2>2
<1>6. \A j \in 1..n : \E r \in R : place[r] = j
  <2>1. PICK T : T = {place[r] : r \in R}
    OBVIOUS
  <2>2. place \in [R -> T]
    BY <1>2, <2>1
  <2>3. Cardinality(T) = n
    BY <1>0, <1>5, <2>1, <2>2, SameSize
  <2>4. IsFiniteSet(1..n) /\ Cardinality(1..n) = n
    <3>1. 1 \in Int /\ n \in Int
      BY <1>1
    <3> QED BY <1>1, <3>1, FS_Interval
  <2>5. T \in SUBSET (1..n)
    BY <1>3, <2>1
  <2>6. T = 1..n
    BY <2>3, <2>4, <2>5, FS_Subset
  <2> QED BY <2>1, <2>6
<1>7. PICK s : s = Sorted(R)
  OBVIOUS
<1>8. DOMAIN s = 1..n /\ \A j \in 1..n : s[j] = CHOOSE r \in R : Cardinality(Preceding(R, r)) = j - 1
  BY <1>0, <1>7 DEF Sorted, Preceding
<1>9. ASSUME NEW j \in 1..n PROVE s[j] \in R /\ place[s[j]] = j
  <2>1. PICK r \in R : place[r] = j
    BY <1>6
  <2>2. Cardinality(Preceding(R, r)) = j - 1
    BY <1>3, <2>1
  <2>3. s[j] \in R /\ Cardinality(Preceding(R, s[j])) = j - 1
    BY <1>8, <2>2
  <2>4. place[s[j]] \in Int /\ j \in Int /\ place[s[j]] - 1 = j - 1
    BY <1>3, <2>3
  <2> QED BY <2>3, <2>4
<1>10. s \in Seq(R) /\ Len(s) = n
  <2>1. s = [j \in 1..n |-> s[j]]
    BY <1>7, <1>8 DEF Sorted
  <2>2. s \in Seq(R)
    BY <1>1, <1>9, <2>1, IsASeq
  <2> QED BY <1>1, <1>8, <2>2, LenProperties
<1>11. \A j, k \in 1..n : j < k => s[j].t <= s[k].t
  <2> SUFFICES ASSUME NEW j \in 1..n, NEW k \in 1..n, j < k PROVE s[j].t <= s[k].t
    OBVIOUS
  <2>1. s[j] \in R /\ s[k] \in R /\ place[s[j]] < place[s[k]]
    BY <1>9
  <2>2. ~RowBefore(s[k], s[j])
    <3>1. place[s[j]] \in Int /\ place[s[k]] \in Int
      BY <1>3, <2>1
    <3> QED BY <1>4, <2>1, <3>1
  <2>3. s[j] # s[k]
    BY <1>9
  <2>4. RowBefore(s[j], s[k])
    BY <2>1, <2>2, <2>3 DEF Ordered
  <2>5. s[j] \in DimRow /\ s[k] \in DimRow
    BY <2>1
  <2> QED BY <2>4, <2>5 DEF RowBefore, DimRow
<1>12. \A r \in R : \E j \in 1..n : s[j] = r
  BY <1>3, <1>5, <1>9
<1>13. \A j, k \in 1..n : s[j] = s[k] => j = k
  BY <1>9
<1> QED BY <1>0, <1>7, <1>8, <1>10, <1>11, <1>12, <1>13 DEF Lists

(* Which parser makes a row of a line, and the row it makes.               *)
DimOf == <<"session", "bms", "can-asc", "bms", "bms", "dmesg", "dmesg", "hpm-uart",
           "thermal", "inference-session", "can-details", "usb-pcap", "session">>
FileNamed == <<"", "", "can.log", "bms-status", "bms-status", "dmesg", "dmesg", "hpm-uart",
            "thermal", "inference", "can-details", "usbcan.pcap", "">>
TimeOf(p, i, k) == IF p \in {1, 2} THEN Started ELSE IF p = 13 THEN ended
                   ELSE IF p = 7 \/ k = 2 \/ (p = 10 /\ i \in Bracketed) THEN log[i].number
                   ELSE log[i].t
RowOf(p, i, k) == [dim |-> DimOf[p], parser |-> p, t |-> TimeOf(p, i, k), line |-> i, part |-> k]
Hidden(i) == \E j \in DOMAIN log : /\ log[j].file = "can-details" /\ log[j].form = "broken"
                                   /\ j <= i
Reads(p, i, k) ==
  /\ log[i].file = FileNamed[p] /\ TimeOf(p, i, k) # NoTime
  /\ \/ log[i].form = (IF p = 4 THEN "mark" ELSE "log")
     \/ p = 10 /\ i \in Bracketed
  /\ k = 2 => p = 12
  /\ p = 11 => ~Hidden(i)

(* What the parsers rely on.                                               *)
LogType == log \in Seq(Lines) /\ ended \in {NoTime, Ended}

(* A line that is read is one the recorder may write.                      *)
LEMMA LogLine ==
  ASSUME LogType, NEW i \in DOMAIN log
  PROVE  /\ i \in Nat /\ 1 <= i /\ i <= Len(log)
         /\ log[i] \in Lines /\ log[i].t \in Nat \ {NoTime} /\ log[i].number \in Nat
BY LenProperties, SevenDimensionsAssumption DEF LogType

(* A row of a parser that makes one of each line it recognises.            *)
LEMMA ParsedRow ==
  ASSUME LogType, NEW dim, NEW p, NEW is \in SUBSET DOMAIN log, NEW r
  PROVE  r \in Parsed(dim, p, is) <=>
           \E i \in is : r = [dim |-> dim, parser |-> p, t |-> log[i].t, line |-> i, part |-> 1]
<1>1. \A i \in is : log[i].t # NoTime
  BY LogLine
<1> QED BY <1>1 DEF Parsed, Event

(* The rows made of the lines of the log are those that some parser reads. *)
LEMMA LineRows ==
  ASSUME LogType, NEW r
  PROVE  /\ r \in ParseCan <=> \E i \in DOMAIN log : Reads(3, i, 1) /\ r = RowOf(3, i, 1)
         /\ r \in ParseMarkedSnapshot <=> \E i \in DOMAIN log : Reads(4, i, 1) /\ r = RowOf(4, i, 1)
         /\ r \in ParseBms <=> \E i \in DOMAIN log : Reads(5, i, 1) /\ r = RowOf(5, i, 1)
         /\ r \in ParseDmesg <=> \E i \in DOMAIN log : Reads(6, i, 1) /\ r = RowOf(6, i, 1)
         /\ r \in ParseUnixDmesg <=> \E i \in DOMAIN log : Reads(7, i, 1) /\ r = RowOf(7, i, 1)
         /\ r \in ParseUnixLines("hpm-uart", 8) <=> \E i \in DOMAIN log : Reads(8, i, 1) /\ r = RowOf(8, i, 1)
         /\ r \in ParseUnixLines("thermal", 9) <=> \E i \in DOMAIN log : Reads(9, i, 1) /\ r = RowOf(9, i, 1)
         /\ r \in ParseInference <=> \E i \in DOMAIN log : Reads(10, i, 1) /\ r = RowOf(10, i, 1)
         /\ r \in ParseCanDetails <=> \E i \in DOMAIN log : Reads(11, i, 1) /\ r = RowOf(11, i, 1)
         /\ r \in ParseUsb <=> \E i \in DOMAIN log, k \in 1..2 : Reads(12, i, k) /\ r = RowOf(12, i, k)
<1>1. \A f, m : LinesOf(f, m) \in SUBSET DOMAIN log
  BY DEF LinesOf
<1>2. \A i \in DOMAIN log : log[i].t # NoTime
  BY LogLine
<1>3. r \in ParseCan <=> \E i \in DOMAIN log : Reads(3, i, 1) /\ r = RowOf(3, i, 1)
  <2>1. r \in ParseCan <=> \E i \in LinesOf("can.log", "log") :
              r = [dim |-> "can-asc", parser |-> 3, t |-> log[i].t, line |-> i, part |-> 1]
    BY <1>1, ParsedRow DEF ParseCan
  <2> QED BY <1>2, <2>1 DEF LinesOf, Reads, RowOf, TimeOf, FileNamed, DimOf
<1>4. r \in ParseMarkedSnapshot <=> \E i \in DOMAIN log : Reads(4, i, 1) /\ r = RowOf(4, i, 1)
  <2>1. r \in ParseMarkedSnapshot <=> \E i \in LinesOf("bms-status", "mark") :
              r = [dim |-> "bms", parser |-> 4, t |-> log[i].t, line |-> i, part |-> 1]
    BY <1>1, ParsedRow DEF ParseMarkedSnapshot
  <2> QED BY <1>2, <2>1 DEF LinesOf, Reads, RowOf, TimeOf, FileNamed, DimOf
<1>5. r \in ParseBms <=> \E i \in DOMAIN log : Reads(5, i, 1) /\ r = RowOf(5, i, 1)
  <2>1. r \in ParseBms <=> \E i \in LinesOf("bms-status", "log") :
              r = [dim |-> "bms", parser |-> 5, t |-> log[i].t, line |-> i, part |-> 1]
    BY <1>1, ParsedRow DEF ParseBms
  <2> QED BY <1>2, <2>1 DEF LinesOf, Reads, RowOf, TimeOf, FileNamed, DimOf
<1>6. r \in ParseDmesg <=> \E i \in DOMAIN log : Reads(6, i, 1) /\ r = RowOf(6, i, 1)
  <2>1. r \in ParseDmesg <=> \E i \in LinesOf("dmesg", "log") :
              r = [dim |-> "dmesg", parser |-> 6, t |-> log[i].t, line |-> i, part |-> 1]
    BY <1>1, ParsedRow DEF ParseDmesg
  <2> QED BY <1>2, <2>1 DEF LinesOf, Reads, RowOf, TimeOf, FileNamed, DimOf
<1>7. r \in ParseUnixDmesg <=> \E i \in DOMAIN log : Reads(7, i, 1) /\ r = RowOf(7, i, 1)
  <2>1. r \in ParseUnixDmesg <=> \E i \in LinesOf("dmesg", "log") : log[i].number # NoTime /\
              r = [dim |-> "dmesg", parser |-> 7, t |-> log[i].number, line |-> i, part |-> 1]
    BY DEF ParseUnixDmesg, Event
  <2> QED BY <2>1 DEF LinesOf, Reads, RowOf, TimeOf, FileNamed, DimOf
<1>8. r \in ParseUnixLines("hpm-uart", 8) <=> \E i \in DOMAIN log : Reads(8, i, 1) /\ r = RowOf(8, i, 1)
  <2>1. r \in ParseUnixLines("hpm-uart", 8) <=> \E i \in LinesOf("hpm-uart", "log") :
              r = [dim |-> "hpm-uart", parser |-> 8, t |-> log[i].t, line |-> i, part |-> 1]
    BY <1>1, ParsedRow DEF ParseUnixLines
  <2> QED BY <1>2, <2>1 DEF LinesOf, Reads, RowOf, TimeOf, FileNamed, DimOf
<1>9. r \in ParseUnixLines("thermal", 9) <=> \E i \in DOMAIN log : Reads(9, i, 1) /\ r = RowOf(9, i, 1)
  <2>1. r \in ParseUnixLines("thermal", 9) <=> \E i \in LinesOf("thermal", "log") :
              r = [dim |-> "thermal", parser |-> 9, t |-> log[i].t, line |-> i, part |-> 1]
    BY <1>1, ParsedRow DEF ParseUnixLines
  <2> QED BY <1>2, <2>1 DEF LinesOf, Reads, RowOf, TimeOf, FileNamed, DimOf
<1>10. r \in ParseInference <=> \E i \in DOMAIN log : Reads(10, i, 1) /\ r = RowOf(10, i, 1)
  <2>1. PICK dated : dated = LinesOf("inference", "log") \ Bracketed
    OBVIOUS
  <2>2. r \in ParseDated <=> \E i \in dated :
          r = [dim |-> "inference-session", parser |-> 10, t |-> log[i].t, line |-> i, part |-> 1]
    <3>1. LinesOf("inference", "log") \ Bracketed \in SUBSET DOMAIN log
      BY <1>1
    <3> QED BY <2>1, <3>1, ParsedRow DEF ParseDated
  <2>3. r \in ParseBracketed <=>
          \E i \in Bracketed : r = [dim |-> "inference-session", parser |-> 10,
                                    t |-> log[i].number, line |-> i, part |-> 1]
    <3>1. \A i \in Bracketed : log[i].number # NoTime
      BY DEF Bracketed
    <3> QED BY <3>1 DEF ParseBracketed, Event
  <2>4. r \in ParseInference <=> r \in ParseBracketed \/ r \in ParseDated
    BY DEF ParseInference
  <2>5. \A i \in DOMAIN log : i \in dated <=> /\ log[i].file = "inference" /\ log[i].form = "log"
                                              /\ i \notin Bracketed
    BY <2>1 DEF LinesOf
  <2>6. /\ dated \subseteq DOMAIN log /\ Bracketed \subseteq DOMAIN log
        /\ \A i \in Bracketed : log[i].number # NoTime /\ log[i].file = "inference"
    BY <1>1, <2>1 DEF Bracketed
  <2>7. \A i \in DOMAIN log :
          /\ Reads(10, i, 1) <=> i \in dated \/ i \in Bracketed
          /\ i \in dated => RowOf(10, i, 1) = [dim |-> "inference-session", parser |-> 10,
                                               t |-> log[i].t, line |-> i, part |-> 1]
          /\ i \in Bracketed => RowOf(10, i, 1) = [dim |-> "inference-session", parser |-> 10,
                                                   t |-> log[i].number, line |-> i, part |-> 1]
    <3> SUFFICES ASSUME NEW i \in DOMAIN log
                 PROVE  /\ Reads(10, i, 1) <=> i \in dated \/ i \in Bracketed
                        /\ i \in dated => RowOf(10, i, 1) =
                             [dim |-> "inference-session", parser |-> 10,
                              t |-> log[i].t, line |-> i, part |-> 1]
                        /\ i \in Bracketed => RowOf(10, i, 1) =
                             [dim |-> "inference-session", parser |-> 10,
                              t |-> log[i].number, line |-> i, part |-> 1]
      OBVIOUS
    <3>1. DimOf[10] = "inference-session" /\ FileNamed[10] = "inference"
      BY DEF DimOf, FileNamed
    <3>2. TimeOf(10, i, 1) = IF i \in Bracketed THEN log[i].number ELSE log[i].t
      BY DEF TimeOf
    <3>3. TimeOf(10, i, 1) # NoTime
      BY <1>2, <2>6, <3>2
    <3>4. Reads(10, i, 1) <=> log[i].file = "inference" /\ (log[i].form = "log" \/ i \in Bracketed)
      BY <3>1, <3>3 DEF Reads
    <3> QED BY <2>5, <2>6, <3>1, <3>2, <3>4 DEF RowOf
  <2> QED BY <2>2, <2>3, <2>4, <2>6, <2>7
<1>11. r \in ParseCanDetails <=> \E i \in DOMAIN log : Reads(11, i, 1) /\ r = RowOf(11, i, 1)
  <2>1. PICK whole : whole = {i \in LinesOf("can-details", "log") :
                                \A j \in LinesOf("can-details", "broken") : i < j}
    OBVIOUS
  <2>2. r \in ParseCanDetails <=> \E i \in whole :
              r = [dim |-> "can-details", parser |-> 11, t |-> log[i].t, line |-> i, part |-> 1]
    BY <1>1, <2>1, ParsedRow DEF ParseCanDetails
  <2>3. \A i \in DOMAIN log : i \in whole <=> /\ log[i].file = "can-details" /\ log[i].form = "log"
                                              /\ ~Hidden(i)
    <3>1. \A j \in DOMAIN log : j \in Nat
      BY LogLine
    <3> QED BY <2>1, <3>1 DEF LinesOf, Hidden
  <2>4. whole \in SUBSET DOMAIN log
    BY <1>1, <2>1
  <2> QED BY <1>2, <2>2, <2>3, <2>4 DEF Reads, RowOf, TimeOf, FileNamed, DimOf
<1>12. r \in ParseUsb <=> \E i \in DOMAIN log, k \in 1..2 : Reads(12, i, k) /\ r = RowOf(12, i, k)
  <2>1. r \in ParseUsb <=> \E i \in LinesOf("usbcan.pcap", "log") :
          \/ log[i].t # NoTime /\
               r = [dim |-> "usb-pcap", parser |-> 12, t |-> log[i].t, line |-> i, part |-> 1]
          \/ log[i].number # NoTime /\
               r = [dim |-> "usb-pcap", parser |-> 12, t |-> log[i].number, line |-> i, part |-> 2]
    BY DEF ParseUsb, Event
  <2>2. \A k : k \in 1..2 <=> k = 1 \/ k = 2
    OBVIOUS
  <2> QED BY <1>2, <2>1, <2>2 DEF LinesOf, Reads, RowOf, TimeOf, FileNamed, DimOf
<1> QED BY <1>3, <1>4, <1>5, <1>6, <1>7, <1>8, <1>9, <1>10, <1>11, <1>12

(* The rows of a whole recording: those of its lines, and of the session.  *)
LEMMA RowsRead ==
  ASSUME LogType, NEW r
  PROVE  r \in AllRows <=>
           \/ \E p \in 3..12, i \in DOMAIN log, k \in 1..2 : Reads(p, i, k) /\ r = RowOf(p, i, k)
           \/ r = RowOf(1, 0, 1) \/ r = RowOf(2, 0, 1)
           \/ ended # NoTime /\ r = RowOf(13, 0, 1)
<1>1. r \in Event("session", 1, Started, 0, 1) <=> r = RowOf(1, 0, 1)
  BY SevenDimensionsAssumption DEF Event, RowOf, DimOf, TimeOf
<1>2. r \in Event("bms", 2, Started, 0, 1) <=> r = RowOf(2, 0, 1)
  BY SevenDimensionsAssumption DEF Event, RowOf, DimOf, TimeOf
<1>3. r \in Event("session", 13, ended, 0, 1) <=> ended # NoTime /\ r = RowOf(13, 0, 1)
  BY DEF Event, RowOf, DimOf, TimeOf
<1>4. PICK lines : lines = UNION {ParseCan, ParseMarkedSnapshot, ParseBms, ParseDmesg, ParseUnixDmesg,
                                  ParseUnixLines("hpm-uart", 8), ParseUnixLines("thermal", 9),
                                  ParseInference, ParseCanDetails, ParseUsb}
  OBVIOUS
<1>5. r \in AllRows <=> \/ r \in lines \/ r \in Event("session", 1, Started, 0, 1)
                        \/ r \in Event("bms", 2, Started, 0, 1)
                        \/ r \in Event("session", 13, ended, 0, 1)
  BY <1>4 DEF AllRows
<1>6. r \in lines <=> \/ r \in ParseCan \/ r \in ParseMarkedSnapshot \/ r \in ParseBms
                      \/ r \in ParseDmesg \/ r \in ParseUnixDmesg
                      \/ r \in ParseUnixLines("hpm-uart", 8) \/ r \in ParseUnixLines("thermal", 9)
                      \/ r \in ParseInference \/ r \in ParseCanDetails \/ r \in ParseUsb
  BY <1>4
<1>7. r \in lines <=> \E p \in 3..12, i \in DOMAIN log, k \in 1..2 : Reads(p, i, k) /\ r = RowOf(p, i, k)
  <2>1. ASSUME r \in lines
        PROVE  \E p \in 3..12, i \in DOMAIN log, k \in 1..2 : Reads(p, i, k) /\ r = RowOf(p, i, k)
    <3>1. 1 \in 1..2 /\ \A p \in {3, 4, 5, 6, 7, 8, 9, 10, 11, 12} : p \in 3..12
      OBVIOUS
    <3>2. ASSUME NEW p \in 3..12, \E i \in DOMAIN log : Reads(p, i, 1) /\ r = RowOf(p, i, 1)
          PROVE  \E q \in 3..12, i \in DOMAIN log, k \in 1..2 : Reads(q, i, k) /\ r = RowOf(q, i, k)
      BY <3>1, <3>2, Zenon
    <3>3. CASE r \in ParseCan
      <4>1. 3 \in 3..12 /\ \E i \in DOMAIN log : Reads(3, i, 1) /\ r = RowOf(3, i, 1)
        BY <3>1, <3>3, LineRows
      <4> QED BY <3>2, <4>1
    <3>4. CASE r \in ParseMarkedSnapshot
      <4>1. 4 \in 3..12 /\ \E i \in DOMAIN log : Reads(4, i, 1) /\ r = RowOf(4, i, 1)
        BY <3>1, <3>4, LineRows
      <4> QED BY <3>2, <4>1
    <3>5. CASE r \in ParseBms
      <4>1. 5 \in 3..12 /\ \E i \in DOMAIN log : Reads(5, i, 1) /\ r = RowOf(5, i, 1)
        BY <3>1, <3>5, LineRows
      <4> QED BY <3>2, <4>1
    <3>6. CASE r \in ParseDmesg
      <4>1. 6 \in 3..12 /\ \E i \in DOMAIN log : Reads(6, i, 1) /\ r = RowOf(6, i, 1)
        BY <3>1, <3>6, LineRows
      <4> QED BY <3>2, <4>1
    <3>7. CASE r \in ParseUnixDmesg
      <4>1. 7 \in 3..12 /\ \E i \in DOMAIN log : Reads(7, i, 1) /\ r = RowOf(7, i, 1)
        BY <3>1, <3>7, LineRows
      <4> QED BY <3>2, <4>1
    <3>8. CASE r \in ParseUnixLines("hpm-uart", 8)
      <4>1. 8 \in 3..12 /\ \E i \in DOMAIN log : Reads(8, i, 1) /\ r = RowOf(8, i, 1)
        BY <3>1, <3>8, LineRows
      <4> QED BY <3>2, <4>1
    <3>9. CASE r \in ParseUnixLines("thermal", 9)
      <4>1. 9 \in 3..12 /\ \E i \in DOMAIN log : Reads(9, i, 1) /\ r = RowOf(9, i, 1)
        BY <3>1, <3>9, LineRows
      <4> QED BY <3>2, <4>1
    <3>10. CASE r \in ParseInference
      <4>1. 10 \in 3..12 /\ \E i \in DOMAIN log : Reads(10, i, 1) /\ r = RowOf(10, i, 1)
        BY <3>1, <3>10, LineRows
      <4> QED BY <3>2, <4>1
    <3>11. CASE r \in ParseCanDetails
      <4>1. 11 \in 3..12 /\ \E i \in DOMAIN log : Reads(11, i, 1) /\ r = RowOf(11, i, 1)
        BY <3>1, <3>11, LineRows
      <4> QED BY <3>2, <4>1
    <3>12. CASE r \in ParseUsb
      <4>1. 12 \in 3..12 /\ \E i \in DOMAIN log, k \in 1..2 : Reads(12, i, k) /\ r = RowOf(12, i, k)
        BY <3>1, <3>12, LineRows
      <4> QED BY <4>1, Zenon
    <3> QED BY <1>6, <2>1, <3>3, <3>4, <3>5, <3>6, <3>7, <3>8, <3>9, <3>10, <3>11, <3>12
  <2>2. ASSUME NEW p \in 3..12, NEW i \in DOMAIN log, NEW k \in 1..2, Reads(p, i, k), r = RowOf(p, i, k)
        PROVE  r \in lines
    <3>1. k = 1 \/ p = 12
      BY <2>2 DEF Reads
    <3>2. p \in {3, 4, 5, 6, 7, 8, 9, 10, 11, 12}
      OBVIOUS
    <3> QED BY <1>6, <2>2, <3>1, <3>2, LineRows, Zenon
  <2> QED BY <2>1, <2>2
<1> QED BY <1>1, <1>2, <1>3, <1>5, <1>7

(* A row is known by its place in the order of reading.                    *)
LEMMA RowKnown ==
  ASSUME LogType, NEW r \in AllRows
  PROVE  /\ r = RowOf(r.parser, r.line, r.part)
         /\ r.parser \in 1..13 /\ r.line \in 0..Len(log) /\ r.part \in 1..2
         /\ r.t = TimeOf(r.parser, r.line, r.part) /\ r.t \in Nat
         /\ r.dim = DimOf[r.parser] /\ r.dim \in Outputs \cup {"session"}
         /\ r.dim = "session" <=> r.parser \in {1, 13}
         /\ r \in DimRow
<1>0. \A p \in 1..13 : /\ DimOf[p] \in Outputs \cup {"session"}
                       /\ DimOf[p] = "session" <=> p \in {1, 13}
  <2>1. \A p \in 1..13 : p \in {1, 2, 3, 4, 5, 6, 7, 8, 9, 10, 11, 12, 13}
    OBVIOUS
  <2>2. Outputs = {"can-asc", "bms", "dmesg", "hpm-uart", "thermal",
                   "inference-session", "can-details", "usb-pcap"}
    <3>1. DOMAIN Dimensions = {1, 2, 3, 4, 5, 6, 7, 8}
      BY DEF Dimensions
    <3> QED BY <3>1 DEF Outputs, Dimensions
  <2> QED BY <2>1, <2>2 DEF DimOf
<1>1. PICK p \in 1..13, i \in 0..Len(log), k \in 1..2 :
        r = RowOf(p, i, k) /\ (p \in 3..12 => i \in DOMAIN log)
  <2>1. CASE \E p \in 3..12, i \in DOMAIN log, k \in 1..2 : Reads(p, i, k) /\ r = RowOf(p, i, k)
    BY <2>1, LogLine, LenProperties
  <2>2. CASE r = RowOf(1, 0, 1) \/ r = RowOf(2, 0, 1) \/ r = RowOf(13, 0, 1)
    <3>1. 0 \in 0..Len(log)
      BY LenProperties DEF LogType
    <3> QED BY <2>2, <3>1
  <2> QED BY <2>1, <2>2, RowsRead
<1>2. r.parser = p /\ r.line = i /\ r.part = k /\ r.t = TimeOf(p, i, k) /\ r.dim = DimOf[p]
  BY <1>1 DEF RowOf
<1>3. TimeOf(p, i, k) \in Nat
  <2>1. CASE p \in 3..12
    BY <1>1, <2>1, LogLine DEF TimeOf
  <2>2. CASE p \in {1, 2, 13}
    <3>1. Started \in Nat /\ ended \in Nat
      BY SevenDimensionsAssumption DEF LogType, NoTime
    <3> QED BY <2>2, <3>1 DEF TimeOf
  <2> QED BY <2>1, <2>2
<1>4. i \in Nat
  BY LenProperties DEF LogType
<1>5. r \in DimRow
  BY <1>0, <1>1, <1>2, <1>3, <1>4 DEF DimRow, RowOf
<1> QED BY <1>0, <1>1, <1>2, <1>3, <1>5

(* What is always so of the rows of a run that has read m as the end.      *)
WellRead(R, m) ==
  /\ R \in SUBSET DimRow /\ IsFiniteSet(R) /\ Ordered(R)
  /\ Cardinality(Of("session", R)) = (IF m = NoTime THEN 1 ELSE 2)

(* There are finitely many rows, for each parser reads a finite log.       *)
LEMMA AllRowsFinite == LogType => IsFiniteSet(AllRows)
<1> SUFFICES ASSUME LogType PROVE IsFiniteSet(AllRows)
  OBVIOUS
<1>1. PICK T : T = ((1..13) \X (0..Len(log))) \X (1..2)
  OBVIOUS
<1>2. IsFiniteSet(T)
  <2>1. Len(log) \in Int /\ 0 \in Int /\ 1 \in Int /\ 2 \in Int /\ 13 \in Int
    BY LenProperties DEF LogType
  <2>2. IsFiniteSet(1..13) /\ IsFiniteSet(0..Len(log)) /\ IsFiniteSet(1..2)
    BY <2>1, FS_Interval
  <2>3. IsFiniteSet((1..13) \X (0..Len(log)))
    BY <2>2, FS_Product
  <2> QED BY <1>1, <2>2, <2>3, FS_Product
<1>3. PICK f : f = [r \in AllRows |-> << <<r.parser, r.line>>, r.part >>]
  OBVIOUS
<1>4. f \in [AllRows -> T]
  BY <1>1, <1>3, RowKnown
<1>5. \A a, b \in AllRows : f[a] = f[b] => a = b
  BY <1>3, RowKnown
<1>6. f \in Injection(AllRows, T)
  BY <1>4, <1>5 DEF Injection, IsInjective
<1> QED BY <1>2, <1>6, FS_Injection

(* The rows of the recording are as a run finds them, dropped or kept.     *)
LEMMA RowsWellRead ==
  ASSUME LogType, NEW R \in SUBSET AllRows,
         \A r \in AllRows : r.parser \in {1, 13} => r \in R
  PROVE  WellRead(R, ended)
<1>1. R \in SUBSET DimRow /\ IsFiniteSet(R)
  BY RowKnown, AllRowsFinite, FS_Subset
<1>2. Ordered(R)
  <2> SUFFICES ASSUME NEW a \in R, NEW b \in R, ~RowBefore(a, b), ~RowBefore(b, a) PROVE a = b
    BY DEF Ordered
  <2>1. a \in DimRow /\ b \in DimRow
    BY RowKnown
  <2>2. a.t = b.t /\ a.parser = b.parser /\ a.line = b.line /\ a.part = b.part
    <3>1. /\ a.t \in Nat /\ b.t \in Nat /\ a.parser \in Nat /\ b.parser \in Nat
          /\ a.line \in Nat /\ b.line \in Nat /\ a.part \in Nat /\ b.part \in Nat
      BY <2>1 DEF DimRow
    <3>2. a.t = b.t
      BY <3>1 DEF RowBefore
    <3>3. a.parser = b.parser
      BY <3>1, <3>2 DEF RowBefore
    <3>4. a.line = b.line
      BY <3>1, <3>2, <3>3 DEF RowBefore
    <3> QED BY <3>1, <3>2, <3>3, <3>4 DEF RowBefore
  <2> QED BY <2>2, RowKnown
<1>3. RowOf(1, 0, 1) \in Of("session", R)
  <2>1. RowOf(1, 0, 1) \in AllRows
    BY RowsRead
  <2> QED BY <2>1 DEF Of, RowOf, DimOf
<1>4. \A r \in Of("session", R) : r = RowOf(1, 0, 1) \/ (ended # NoTime /\ r = RowOf(13, 0, 1))
  <2> SUFFICES ASSUME NEW r \in Of("session", R)
               PROVE  r = RowOf(1, 0, 1) \/ (ended # NoTime /\ r = RowOf(13, 0, 1))
    OBVIOUS
  <2>1. r \in AllRows /\ r.parser \in {1, 13}
    BY RowKnown DEF Of
  <2>2. \A p \in 3..12 : \A i, k : r # RowOf(p, i, k)
    BY <2>1 DEF RowOf
  <2>3. r # RowOf(2, 0, 1)
    BY <2>1 DEF RowOf
  <2> QED BY <2>1, <2>2, <2>3, RowsRead
<1>5. CASE ended = NoTime
  <2>1. Of("session", R) = {RowOf(1, 0, 1)}
    BY <1>3, <1>4, <1>5
  <2> QED BY <1>1, <1>2, <1>5, <2>1, FS_Singleton DEF WellRead
<1>6. CASE ended # NoTime
  <2>1. RowOf(13, 0, 1) \in Of("session", R)
    <3>1. RowOf(13, 0, 1) \in AllRows
      BY <1>6, RowsRead
    <3> QED BY <3>1 DEF Of, RowOf, DimOf
  <2>2. Of("session", R) = {RowOf(1, 0, 1)} \cup {RowOf(13, 0, 1)}
    <3>1. \A r : r \in Of("session", R) <=> r = RowOf(1, 0, 1) \/ r = RowOf(13, 0, 1)
      BY <1>3, <1>4, <2>1
    <3> QED BY <3>1
  <2>3. RowOf(13, 0, 1) \notin {RowOf(1, 0, 1)}
    BY DEF RowOf
  <2>4. IsFiniteSet({RowOf(1, 0, 1)}) /\ Cardinality({RowOf(1, 0, 1)}) = 1
    BY FS_Singleton
  <2>5. Cardinality(Of("session", R)) = 1 + 1
    BY <2>2, <2>3, <2>4, FS_AddElement
  <2>6. Cardinality(Of("session", R)) = 2
    BY <2>5
  <2> QED BY <1>1, <1>2, <1>6, <2>6 DEF WellRead
<1> QED BY <1>5, <1>6

(* The pairs of a dimension and a place in its file number the rows that   *)
(* are not of the session.                                                 *)
FilePlaces(R, size) == UNION {{d} \X (1..size[d]) : d \in DimensionsOf(R)}

(* The rows of the files are in bijection with the rows listed in them.    *)
LEMMA FilesHoldRows ==
  ASSUME NEW R \in SUBSET DimRow, IsFiniteSet(R), Ordered(R)
  PROVE  \A d : Lists(Sorted(Of(d, R)), Of(d, R))
<1> SUFFICES ASSUME NEW d PROVE Lists(Sorted(Of(d, R)), Of(d, R))
  OBVIOUS
<1>1. PICK S : S = Of(d, R)
  OBVIOUS
<1>2. S \in SUBSET R
  BY <1>1 DEF Of
<1>3. IsFiniteSet(S) /\ Ordered(S) /\ S \in SUBSET DimRow
  BY <1>2, FS_Subset DEF Ordered
<1> QED BY <1>1, <1>3, SortedLists

(* What the files hold and the rows of the session are all the rows.       *)
LEMMA RowsAddUp ==
  ASSUME NEW R, NEW m, WellRead(R, m),
         NEW size, size = [d \in DimensionsOf(R) |-> Cardinality(Of(d, R))]
  PROVE  /\ Cardinality(R) = Cardinality(FilePlaces(R, size)) + (IF m = NoTime THEN 1 ELSE 2)
         /\ size \in [DimensionsOf(R) -> Nat]
<1>0. R \in SUBSET DimRow /\ IsFiniteSet(R) /\ Ordered(R)
  BY DEF WellRead
<1>1. PICK S : S = R \ Of("session", R)
  OBVIOUS
<1>2. S = {r \in R : r.dim # "session"}
  BY <1>1 DEF Of
<1>3. IsFiniteSet(S) /\ Cardinality(S) = Cardinality(R) - Cardinality(Of("session", R))
  <2>1. R \cap Of("session", R) = Of("session", R)
    BY DEF Of
  <2>2. PICK T : T = Of("session", R)
    OBVIOUS
  <2>3. IsFiniteSet(R \ T) /\ Cardinality(R \ T) = Cardinality(R) - Cardinality(R \cap T)
    BY <1>0, FS_Difference
  <2> QED BY <1>1, <2>1, <2>2, <2>3
<1>4. PICK P : P = FilePlaces(R, size)
  OBVIOUS
<1>5. PICK place : place = [r \in S |-> CHOOSE j \in DOMAIN Sorted(Of(r.dim, R)) : Sorted(Of(r.dim, R))[j] = r]
  OBVIOUS
<1>6. \A r \in S : /\ place[r] \in 1..size[r.dim] /\ Sorted(Of(r.dim, R))[place[r]] = r
                   /\ r.dim \in DimensionsOf(R)
  <2> SUFFICES ASSUME NEW r \in S
               PROVE  /\ place[r] \in 1..size[r.dim] /\ Sorted(Of(r.dim, R))[place[r]] = r
                      /\ r.dim \in DimensionsOf(R)
    OBVIOUS
  <2>1. r \in Of(r.dim, R) /\ r.dim \in DimensionsOf(R)
    BY <1>2 DEF Of, DimensionsOf
  <2>2. PICK s : s = Sorted(Of(r.dim, R))
    OBVIOUS
  <2>3. Lists(s, Of(r.dim, R))
    BY <1>0, <2>2, FilesHoldRows
  <2>4. \E j \in DOMAIN s : s[j] = r
    BY <2>1, <2>3 DEF Lists
  <2>5. place[r] \in DOMAIN s /\ s[place[r]] = r
    BY <1>5, <2>2, <2>4
  <2>6. DOMAIN s = 1..size[r.dim]
    BY <2>1, <2>3, LenProperties DEF Lists
  <2> QED BY <2>1, <2>2, <2>5, <2>6
<1>7. PICK f : f = [r \in S |-> <<r.dim, place[r]>>]
  OBVIOUS
<1>8. f \in [S -> P]
  BY <1>4, <1>6, <1>7 DEF FilePlaces
<1>9. \A a, b \in S : f[a] = f[b] => a = b
  BY <1>6, <1>7
<1>10. \A x \in P : \E r \in S : f[r] = x
  <2> SUFFICES ASSUME NEW x \in P PROVE \E r \in S : f[r] = x
    OBVIOUS
  <2>1. PICK d \in DimensionsOf(R) : x \in {d} \X (1..size[d])
    BY <1>4 DEF FilePlaces
  <2>2. PICK j \in 1..size[d] : x = <<d, j>>
    BY <2>1
  <2>3. PICK s : s = Sorted(Of(d, R))
    OBVIOUS
  <2>4. Lists(s, Of(d, R))
    BY <1>0, <2>3, FilesHoldRows
  <2>5. DOMAIN s = 1..size[d]
    BY <2>1, <2>4, LenProperties DEF Lists
  <2>6. s[j] \in Of(d, R)
    BY <2>2, <2>4, <2>5, ElementOfSeq DEF Lists
  <2>7. PICK r : r = s[j]
    OBVIOUS
  <2>8. r \in S /\ r.dim = d
    BY <1>2, <2>1, <2>6, <2>7 DEF Of, DimensionsOf
  <2>9. place[r] \in DOMAIN s /\ s[place[r]] = r
    BY <1>6, <2>3, <2>5, <2>8
  <2>10. place[r] = j
    BY <2>2, <2>4, <2>5, <2>7, <2>9 DEF Lists
  <2> QED BY <1>7, <2>2, <2>8, <2>10
<1>11. Cardinality(P) = Cardinality(S)
  BY <1>3, <1>8, <1>9, <1>10, SameSize
<1>12. size \in [DimensionsOf(R) -> Nat]
  <2>1. \A d : Of(d, R) \in SUBSET R
    BY DEF Of
  <2>2. \A d : Cardinality(Of(d, R)) \in Nat
    BY <1>0, <2>1, FS_Subset, FS_CardinalityType
  <2> QED BY <2>2
<1>13. Cardinality(R) \in Nat
  BY <1>0, FS_CardinalityType
<1>14. Cardinality(S) = Cardinality(R) - (IF m = NoTime THEN 1 ELSE 2)
  BY <1>3 DEF WellRead
<1>15. Cardinality(R) = Cardinality(S) + (IF m = NoTime THEN 1 ELSE 2)
  BY <1>13, <1>14
<1> QED BY <1>4, <1>11, <1>12, <1>15

(* The parser that reads a line's own time, and the second row of the      *)
(* lines that have two.                                                    *)
OwnParser(i) ==
  LET f == log[i].file
  IN  IF f = "can.log" THEN 3
      ELSE IF f = "bms-status" THEN (IF log[i].form = "mark" THEN 4 ELSE 5)
      ELSE IF f = "dmesg" THEN 6 ELSE IF f = "hpm-uart" THEN 8 ELSE IF f = "thermal" THEN 9
      ELSE IF f = "inference" THEN 10 ELSE IF f = "can-details" THEN 11 ELSE 12
SecondRow(i) == IF log[i].file = "dmesg" THEN RowOf(7, i, 1) ELSE RowOf(12, i, 2)

(* A line is read by its own parser, by a second one, and by no other.     *)
LEMMA ReadersOfLine ==
  ASSUME LogType, NEW i \in DOMAIN log, NEW p \in 3..12, NEW k \in 1..2
  PROVE  /\ Reads(p, i, k) =>
              /\ \/ p = OwnParser(i) /\ k = 1
                 \/ log[i].file = "dmesg" /\ p = 7 /\ k = 1
                 \/ log[i].file = "usbcan.pcap" /\ p = 12 /\ k = 2
              /\ DimOf[p] = Source[log[i].file]
         /\ (p = OwnParser(i) /\ k = 1 /\ Within(Stamp(i))) =>
              (Reads(p, i, k) <=> Shown(i))
         /\ \/ log[i].file = "dmesg" /\ p = 7 /\ k = 1
            \/ log[i].file = "usbcan.pcap" /\ p = 12 /\ k = 2
            => (Reads(p, i, k) /\ Within(log[i].number) <=> ShownAgain(i))
<1>0. /\ FileNamed[3] = "can.log" /\ FileNamed[4] = "bms-status" /\ FileNamed[5] = "bms-status"
      /\ FileNamed[6] = "dmesg" /\ FileNamed[7] = "dmesg" /\ FileNamed[8] = "hpm-uart"
      /\ FileNamed[9] = "thermal" /\ FileNamed[10] = "inference" /\ FileNamed[11] = "can-details"
      /\ FileNamed[12] = "usbcan.pcap"
      /\ DimOf[3] = "can-asc" /\ DimOf[4] = "bms" /\ DimOf[5] = "bms"
      /\ DimOf[6] = "dmesg" /\ DimOf[7] = "dmesg" /\ DimOf[8] = "hpm-uart"
      /\ DimOf[9] = "thermal" /\ DimOf[10] = "inference-session" /\ DimOf[11] = "can-details"
      /\ DimOf[12] = "usb-pcap"
  BY DEF FileNamed, DimOf
<1>1. p \in {3, 4, 5, 6, 7, 8, 9, 10, 11, 12} /\ k \in {1, 2}
  OBVIOUS
<1>2. log[i].file \in {"can.log", "bms-status", "dmesg", "hpm-uart", "thermal",
                       "inference", "can-details", "usbcan.pcap"}
  BY LogLine, SevenDimensionsAssumption
<1>3. log[i].file \in {l.file : l \in Lines}
  BY LogLine
<1>4. Hidden(i) <=> \E j \in 1..i : log[j].file = "can-details" /\ log[j].form = "broken"
  <2>1. DOMAIN log = 1..Len(log) /\ Len(log) \in Nat
    BY LenProperties DEF LogType
  <2>2. \A j : (j \in DOMAIN log /\ j <= i) <=> j \in 1..i
    BY <2>1
  <2> QED BY <2>2 DEF Hidden
<1>5. ~Within(NoTime) /\ log[i].t # NoTime
  BY LogLine, SevenDimensionsAssumption DEF Within, NoTime
<1>6. Source[log[i].file] =
        (IF log[i].file = "can.log" THEN "can-asc" ELSE IF log[i].file = "bms-status" THEN "bms"
         ELSE IF log[i].file = "inference" THEN "inference-session"
         ELSE IF log[i].file = "usbcan.pcap" THEN "usb-pcap" ELSE log[i].file)
  BY <1>2, <1>3 DEF Source
<1>7. Reads(p, i, k) =>
        /\ \/ p = OwnParser(i) /\ k = 1
           \/ log[i].file = "dmesg" /\ p = 7 /\ k = 1
           \/ log[i].file = "usbcan.pcap" /\ p = 12 /\ k = 2
        /\ DimOf[p] = Source[log[i].file]
  <2> SUFFICES ASSUME Reads(p, i, k)
               PROVE  /\ \/ p = OwnParser(i) /\ k = 1
                         \/ log[i].file = "dmesg" /\ p = 7 /\ k = 1
                         \/ log[i].file = "usbcan.pcap" /\ p = 12 /\ k = 2
                      /\ DimOf[p] = Source[log[i].file]
    OBVIOUS
  <2>1. log[i].file = FileNamed[p] /\ (k = 2 => p = 12)
        /\ (log[i].form = (IF p = 4 THEN "mark" ELSE "log") \/ p = 10)
    BY DEF Reads
  <2> QED BY <1>0, <1>1, <1>6, <2>1 DEF OwnParser
<1>8. (p = OwnParser(i) /\ k = 1 /\ Within(Stamp(i))) => (Reads(p, i, k) <=> Shown(i))
  <2> SUFFICES ASSUME p = OwnParser(i), k = 1, Within(Stamp(i))
               PROVE  Reads(p, i, k) <=> Shown(i)
    OBVIOUS
  <2>1. p # 7 /\ (p = 11 <=> log[i].file = "can-details") /\ log[i].file = FileNamed[p]
        /\ (p = 4 <=> log[i].file = "bms-status" /\ log[i].form = "mark")
    BY <1>0, <1>2 DEF OwnParser
  <2>0. /\ i \in Bracketed => log[i].file = "inference"
        /\ p = 10 <=> log[i].file = "inference"
    BY <1>0, <1>2 DEF OwnParser, Bracketed
  <2>2. TimeOf(p, i, k) = Stamp(i)
    BY <1>1, <2>0, <2>1 DEF TimeOf, Stamp
  <2>3. Reads(p, i, k) <=> /\ \/ log[i].form = (IF p = 4 THEN "mark" ELSE "log")
                              \/ i \in Bracketed
                           /\ log[i].file = "can-details" => ~Hidden(i)
    BY <1>5, <2>0, <2>1, <2>2 DEF Reads
  <2>4. Shown(i) <=> /\ \/ log[i].form = "log" \/ i \in Bracketed
                        \/ log[i].form = "mark" /\ log[i].file = "bms-status"
                     /\ log[i].file = "can-details" => ~Hidden(i)
    BY <1>4 DEF Shown
  <2>5. i \in Bracketed => p # 4
    BY <2>0
  <2> QED BY <2>1, <2>3, <2>4, <2>5
<1>9. \/ log[i].file = "dmesg" /\ p = 7 /\ k = 1
      \/ log[i].file = "usbcan.pcap" /\ p = 12 /\ k = 2
      => (Reads(p, i, k) /\ Within(log[i].number) <=> ShownAgain(i))
  <2> SUFFICES ASSUME \/ log[i].file = "dmesg" /\ p = 7 /\ k = 1
                      \/ log[i].file = "usbcan.pcap" /\ p = 12 /\ k = 2
               PROVE  Reads(p, i, k) /\ Within(log[i].number) <=> ShownAgain(i)
    OBVIOUS
  <2>1. TimeOf(p, i, k) = log[i].number /\ log[i].file = FileNamed[p] /\ p # 4 /\ p # 11 /\ (k = 2 => p = 12)
    BY <1>0 DEF TimeOf
  <2>2. Reads(p, i, k) <=> (log[i].number # NoTime /\ log[i].form = "log")
    BY <2>1 DEF Reads
  <2>3. Within(log[i].number) => log[i].number # NoTime
    BY <1>5
  <2> QED BY <2>2, <2>3 DEF ShownAgain
<1> QED BY <1>7, <1>8, <1>9

(* Each line has as many rows within the window as the reader expects.     *)
LEMMA RowsOfLine ==
  ASSUME LogType, ended # NoTime, NEW i \in DOMAIN log,
         NEW R, R = {r \in AllRows : InWindow(r)}
  PROVE  Cardinality({r \in Of(Source[log[i].file], R) : r.line = i}) =
           (IF Shown(i) THEN 1 ELSE 0) + (IF ShownAgain(i) THEN 1 ELSE 0)
<1>1. PICK L : L = {r \in Of(Source[log[i].file], R) : r.line = i}
  OBVIOUS
<1>2. i # 0 /\ i \in Nat
  BY LogLine
<1>3. \A r : InWindow(r) <=> Within(r.t)
  BY DEF InWindow, Within, LogType
<1>4. PICK A : A = IF Shown(i) THEN {RowOf(OwnParser(i), i, 1)} ELSE {}
  OBVIOUS
<1>5. PICK B : B = IF ShownAgain(i) THEN {SecondRow(i)} ELSE {}
  OBVIOUS
<1>6. OwnParser(i) \in 3..12 /\ OwnParser(i) # 7
  BY DEF OwnParser
<1>7. TimeOf(OwnParser(i), i, 1) = Stamp(i)
  BY <1>6 DEF TimeOf, Stamp, OwnParser, Bracketed
<1>8. TimeOf(7, i, 1) = log[i].number /\ TimeOf(12, i, 2) = log[i].number
  BY DEF TimeOf
<1>9. L \subseteq A \cup B
  <2> SUFFICES ASSUME NEW r \in L PROVE r \in A \cup B
    OBVIOUS
  <2>1. r \in AllRows /\ r.line = i /\ Within(r.t)
    BY <1>1, <1>3 DEF Of
  <2>2. PICK p \in 3..12, x \in DOMAIN log, k \in 1..2 : Reads(p, x, k) /\ r = RowOf(p, x, k)
    BY <1>2, <2>1, RowsRead DEF RowOf
  <2>3. x = i /\ r.t = TimeOf(p, i, k)
    BY <2>1, <2>2 DEF RowOf
  <2>4. CASE p = OwnParser(i) /\ k = 1
    <3>1. Within(Stamp(i))
      BY <1>7, <2>1, <2>3, <2>4
    <3>2. Shown(i)
      BY <2>2, <2>3, <2>4, <3>1, ReadersOfLine
    <3> QED BY <1>4, <2>2, <2>3, <2>4, <3>2
  <2>5. CASE \/ log[i].file = "dmesg" /\ p = 7 /\ k = 1
             \/ log[i].file = "usbcan.pcap" /\ p = 12 /\ k = 2
    <3>1. Within(log[i].number)
      BY <1>8, <2>1, <2>3, <2>5
    <3>2. ShownAgain(i)
      BY <2>2, <2>3, <2>5, <3>1, ReadersOfLine
    <3>3. r = SecondRow(i)
      BY <2>2, <2>3, <2>5 DEF SecondRow
    <3> QED BY <1>5, <3>2, <3>3
  <2> QED BY <2>2, <2>3, <2>4, <2>5, ReadersOfLine
<1>10. A \subseteq L
  <2> SUFFICES ASSUME Shown(i) PROVE RowOf(OwnParser(i), i, 1) \in L
    BY <1>4
  <2>1. PICK r : r = RowOf(OwnParser(i), i, 1)
    OBVIOUS
  <2>2. 1 \in 1..2 /\ Within(Stamp(i))
    BY DEF Shown
  <2>3. Reads(OwnParser(i), i, 1)
    BY <1>6, <2>2, ReadersOfLine
  <2>4. r \in AllRows
    BY <1>6, <2>1, <2>2, <2>3, RowsRead
  <2>5. DimOf[OwnParser(i)] = Source[log[i].file]
    BY <1>6, <2>2, <2>3, ReadersOfLine
  <2>6. r.t = Stamp(i) /\ r.line = i /\ r.dim = Source[log[i].file]
    BY <1>7, <2>1, <2>5 DEF RowOf
  <2>7. r \in R
    BY <1>3, <2>2, <2>4, <2>6
  <2> QED BY <1>1, <2>1, <2>6, <2>7 DEF Of
<1>11. B \subseteq L
  <2> SUFFICES ASSUME ShownAgain(i) PROVE SecondRow(i) \in L
    BY <1>5
  <2>1. PICK p \in 3..12, k \in 1..2 :
          \/ log[i].file = "dmesg" /\ p = 7 /\ k = 1
          \/ log[i].file = "usbcan.pcap" /\ p = 12 /\ k = 2
    <3>1. 7 \in 3..12 /\ 12 \in 3..12 /\ 1 \in 1..2 /\ 2 \in 1..2
      OBVIOUS
    <3>2. log[i].file \in {"dmesg", "usbcan.pcap"}
      BY DEF ShownAgain
    <3> QED BY <3>1, <3>2
  <2>2. Reads(p, i, k) /\ Within(log[i].number)
    BY <2>1, ReadersOfLine
  <2>3. PICK r : r = RowOf(p, i, k)
    OBVIOUS
  <2>4. r = SecondRow(i)
    BY <2>1, <2>3 DEF SecondRow
  <2>5. r \in AllRows
    BY <2>2, <2>3, RowsRead
  <2>6. DimOf[p] = Source[log[i].file]
    BY <2>2, ReadersOfLine
  <2>7. r.t = log[i].number /\ r.line = i /\ r.dim = Source[log[i].file]
    BY <1>8, <2>1, <2>3, <2>6 DEF RowOf
  <2>8. r \in R
    BY <1>3, <2>2, <2>5, <2>7
  <2> QED BY <1>1, <2>4, <2>7, <2>8 DEF Of
<1>12. L = A \cup B
  BY <1>9, <1>10, <1>11
<1>13. A \cap B = {}
  <2>1. RowOf(OwnParser(i), i, 1) # SecondRow(i)
    BY <1>6 DEF RowOf, SecondRow
  <2> QED BY <1>4, <1>5, <2>1
<1>14. /\ IsFiniteSet(A) /\ Cardinality(A) = (IF Shown(i) THEN 1 ELSE 0)
       /\ IsFiniteSet(B) /\ Cardinality(B) = (IF ShownAgain(i) THEN 1 ELSE 0)
  BY <1>4, <1>5, FS_Singleton, FS_EmptySet
<1>15. Cardinality(A \cup B) = Cardinality(A) + Cardinality(B) - Cardinality(A \cap B)
  BY <1>14, FS_Union
<1>16. Cardinality(A \cap B) = 0
  BY <1>13, FS_EmptySet
<1>17. Cardinality(L) = (IF Shown(i) THEN 1 ELSE 0) + (IF ShownAgain(i) THEN 1 ELSE 0)
  BY <1>12, <1>14, <1>15, <1>16
<1> QED BY <1>1, <1>17

(* Where a run stands: what it has read, and which files are its own.      *)
RunType ==
  /\ LogType /\ run \in Nat /\ stage \in {"idle", "writing"}
  /\ endRead \in {NoTime, Ended} /\ keepOutside \in BOOLEAN
  /\ DOMAIN out = Outputs /\ \A d \in Outputs : out[d].run \in Nat /\ out[d].run <= run
  /\ summary.run \in Nat /\ summary.run <= run
InTimeOrder(s) == \A a, b \in DOMAIN s : a < b => s[a].t <= s[b].t

(* After the end of the session a run has the rows within it.              *)
KeptAsRead ==
  endRead # NoTime => /\ ended = endRead
                      /\ keepOutside = FALSE => rows = {r \in AllRows : InWindow(r)}
RunInv ==
  /\ \A d \in Outputs : InTimeOrder(out[d].rows)
  /\ run > 0 => WellRead(rows, endRead)
  /\ KeptAsRead
  /\ stage = "writing" => run > 0 /\ summary.run < run /\ todo \subseteq DimensionsOf(rows)
  /\ \A d \in Outputs : (run > 0 /\ out[d].run = run) =>
       d \in DimensionsOf(rows) /\ out[d].rows = Sorted(Of(d, rows))
  /\ stage = "writing" => \A d \in DimensionsOf(rows) \ todo : out[d].run = run
  /\ (run > 0 /\ summary.run = run) =>
       /\ summary.ended = endRead
       /\ \A d \in DimensionsOf(rows) : out[d].run = run

(* A summary and the files that it lists, whichever run has written them.  *)
SummaryInv ==
  summary.run > 0 =>
    /\ Listed \subseteq Outputs /\ summary.outputs \in [Listed -> Nat]
    /\ \A d \in Listed : /\ out[d].run >= summary.run
                         /\ out[d].run = summary.run =>
                              /\ DOMAIN out[d].rows = 1..summary.outputs[d]
                              /\ Len(out[d].rows) = summary.outputs[d]
    /\ summary.events = Cardinality(UNION {{d} \X (1..summary.outputs[d]) : d \in Listed})
                        + (IF summary.ended = NoTime THEN 1 ELSE 2)
DimInv == RunType /\ RunInv /\ SummaryInv

(* No run has begun, and nothing is written.                               *)
LEMMA DimInitInv == DimInit => DimInv
<1> SUFFICES ASSUME DimInit PROVE DimInv
  OBVIOUS
<1> USE DEF DimInit
<1>1. RunType
  <2>1. log \in Seq(Lines)
    BY EmptySeq
  <2>2. \A d \in Outputs : out[d].run = 0
    BY DEF NoFile
  <2>3. summary.run = 0
    BY DEF NoSummary
  <2>4. LogType
    BY <2>1 DEF LogType
  <2>5. DOMAIN out = Outputs /\ run = 0 /\ stage = "idle" /\ endRead = NoTime /\ keepOutside \in BOOLEAN
    OBVIOUS
  <2> QED BY <2>2, <2>3, <2>4, <2>5 DEF RunType
<1>2. RunInv
  <2>1. \A d \in Outputs : InTimeOrder(out[d].rows)
    BY DEF NoFile, InTimeOrder
  <2>2. ~(run > 0) /\ stage # "writing" /\ endRead = NoTime
    OBVIOUS
  <2>3. KeptAsRead
    BY <2>2 DEF KeptAsRead
  <2> QED BY <2>1, <2>2, <2>3 DEF RunInv
<1>3. SummaryInv
  BY DEF SummaryInv, NoSummary
<1> QED BY <1>1, <1>2, <1>3 DEF DimInv

(* The recording goes on beside the run only before its end.               *)
LEMMA RecorderKeepsRun == DimInv /\ (WriteLine \/ EndSession) => DimInv'
<1> SUFFICES ASSUME DimInv, WriteLine \/ EndSession PROVE DimInv'
  OBVIOUS
<1>1. /\ run' = run /\ stage' = stage /\ endRead' = endRead /\ keepOutside' = keepOutside
      /\ rows' = rows /\ todo' = todo /\ out' = out /\ summary' = summary /\ ended = NoTime
  BY DEF WriteLine, EndSession
<1>2. LogType'
  <2>1. CASE WriteLine
    BY <2>1, AppendProperties DEF WriteLine, DimInv, RunType, LogType
  <2>2. CASE EndSession
    BY <2>2 DEF EndSession, DimInv, RunType, LogType
  <2> QED BY <2>1, <2>2
<1>3. endRead = NoTime
  <2>1. KeptAsRead
    BY DEF DimInv, RunInv
  <2> QED BY <1>1, <2>1 DEF KeptAsRead
<1>4. RunType'
  BY <1>1, <1>2 DEF DimInv, RunType
<1>5. RunInv'
  <2>1. KeptAsRead'
    BY <1>1, <1>3 DEF KeptAsRead
  <2> QED BY <1>1, <2>1 DEF DimInv, RunInv, WellRead
<1>6. SummaryInv'
  BY <1>1 DEF DimInv, SummaryInv, Listed
<1> QED BY <1>4, <1>5, <1>6 DEF DimInv

(* A run begins with the rows that it has read.                            *)
LEMMA BeginKeepsRun == ASSUME NEW keep \in BOOLEAN, DimInv, Begin(keep) PROVE DimInv'
<1>1. /\ run' = run + 1 /\ stage' = "writing" /\ endRead' = ended /\ keepOutside' = keep
      /\ out' = out /\ summary' = summary /\ log' = log /\ ended' = ended
      /\ todo' = DimensionsOf(rows')
  BY DEF Begin
<1>2. run \in Nat /\ LogType /\ \A d \in Outputs : out[d].run \in Nat /\ out[d].run <= run
  BY DEF DimInv, RunType
<1>3. RunType'
  <2>1. LogType' /\ endRead' \in {NoTime, Ended}
    BY <1>1, <1>2 DEF LogType
  <2>2. run' \in Nat /\ \A n \in Nat : n <= run => n <= run'
    BY <1>1, <1>2
  <2> QED BY <1>1, <2>1, <2>2 DEF DimInv, RunType
<1>4. AllRows' = AllRows /\ \A r : InWindow(r)' <=> InWindow(r)
  BY <1>1 DEF AllRows, InWindow, ParseCan, ParseMarkedSnapshot, ParseBms, ParseDmesg, ParseUnixDmesg,
     ParseUnixLines, ParseInference, ParseBracketed, ParseDated, Bracketed, ParseCanDetails,
     ParseUsb, Parsed, LinesOf
<1>5. WellRead(rows', ended)
  <2>1. rows' \in SUBSET AllRows
    BY DEF Begin
  <2>2. ASSUME NEW r \in AllRows, r.parser \in {1, 13} PROVE r \in rows'
    <3>1. r.t = TimeOf(r.parser, r.line, r.part)
      BY <1>2, RowKnown
    <3>2. r.t = Started \/ r.t = ended
      BY <2>2, <3>1 DEF TimeOf
    <3>3. InWindow(r)
      <4>1. CASE ended = NoTime
        BY <4>1 DEF InWindow
      <4>2. CASE ended = Ended
        BY <3>2, <4>2, SevenDimensionsAssumption DEF InWindow
      <4> QED BY <1>2, <4>1, <4>2 DEF LogType
    <3> QED BY <3>3 DEF Begin
  <2>3. PICK R : R = rows'
    OBVIOUS
  <2>4. WellRead(R, ended)
    BY <1>2, <2>1, <2>2, <2>3, RowsWellRead
  <2> QED BY <2>3, <2>4
<1>6. RunInv'
  <2>1. WellRead(rows', endRead')
    BY <1>1, <1>5
  <2>2. keep = FALSE => rows' = {r \in AllRows : InWindow(r)}
    BY DEF Begin
  <2>3. keepOutside' = FALSE => rows' = {r \in AllRows' : InWindow(r)'}
    BY <1>1, <1>4, <2>2
  <2>4. summary'.run < run' /\ run' > 0 /\ summary'.run # run'
    BY <1>1 DEF DimInv, RunType
  <2>5. \A d \in Outputs : out'[d].run # run'
    BY <1>1, <1>2
  <2>7. \A d \in Outputs : InTimeOrder(out'[d].rows)
    BY <1>1 DEF DimInv, RunInv
  <2>6. DimensionsOf(rows') \ todo' = {} /\ todo' \subseteq DimensionsOf(rows')
    BY <1>1
  <2>8. KeptAsRead'
    BY <1>1, <2>3 DEF KeptAsRead
  <2> QED BY <1>1, <2>1, <2>4, <2>5, <2>6, <2>7, <2>8 DEF RunInv, WellRead
<1>7. SummaryInv'
  BY <1>1 DEF DimInv, SummaryInv, Listed
<1> QED BY <1>3, <1>6, <1>7 DEF DimInv

(* A file is written over that of an earlier run.                          *)
LEMMA WriteOutputKeepsRun == DimInv /\ WriteOutput => DimInv'
<1> SUFFICES ASSUME DimInv, WriteOutput PROVE DimInv'
  OBVIOUS
<1>1. /\ run' = run /\ stage = "writing" /\ stage' = stage /\ endRead' = endRead /\ keepOutside' = keepOutside
      /\ rows' = rows /\ summary' = summary /\ log' = log /\ ended' = ended
  BY DEF WriteOutput
<1>2. PICK d \in Outputs : /\ d \in todo /\ todo' = todo \ {d}
                           /\ out' = [out EXCEPT ![d] = [run |-> run, rows |-> Sorted(Of(d, rows))]]
  BY DEF WriteOutput, Outputs
<1>3. run > 0 /\ summary.run < run /\ run \in Nat /\ summary.run \in Nat
  BY <1>1 DEF DimInv, RunInv, RunType
<1>4. /\ DOMAIN out' = Outputs /\ out'[d] = [run |-> run, rows |-> Sorted(Of(d, rows))]
      /\ \A e \in Outputs \ {d} : out'[e] = out[e]
  BY <1>2 DEF DimInv, RunType
<1>5. out'[d].run = run /\ out'[d].rows = Sorted(Of(d, rows))
  BY <1>4
<1>6. AllRows' = AllRows /\ \A r : InWindow(r)' <=> InWindow(r)
  BY <1>1 DEF AllRows, InWindow, ParseCan, ParseMarkedSnapshot, ParseBms, ParseDmesg, ParseUnixDmesg,
     ParseUnixLines, ParseInference, ParseBracketed, ParseDated, Bracketed, ParseCanDetails,
     ParseUsb, Parsed, LinesOf
<1>7. RunType'
  <2>1. LogType'
    BY <1>1 DEF DimInv, RunType, LogType
  <2>2. \A e \in Outputs : out'[e].run \in Nat /\ out'[e].run <= run
    BY <1>3, <1>4, <1>5 DEF DimInv, RunType
  <2> QED BY <1>1, <1>4, <2>1, <2>2 DEF DimInv, RunType
<1>8. RunInv'
  <2>1. d \in DimensionsOf(rows) /\ summary.run # run
    BY <1>1, <1>2, <1>3 DEF DimInv, RunInv
  <2>2. \A e \in Outputs : out'[e].run = run =>
          e \in DimensionsOf(rows) /\ out'[e].rows = Sorted(Of(e, rows))
    BY <1>1, <1>3, <1>4, <1>5, <2>1 DEF DimInv, RunInv
  <2>3. \A e \in DimensionsOf(rows) \ todo' : out'[e].run = run
    <3> SUFFICES ASSUME NEW e \in DimensionsOf(rows), e \notin todo' PROVE out'[e].run = run
      OBVIOUS
    <3>1. CASE e = d
      BY <1>5, <3>1
    <3>2. CASE e # d
      <4>1. e \notin todo /\ out[e].run = run
        BY <1>1, <1>2, <3>2 DEF DimInv, RunInv
      <4>2. e \in Outputs
        BY <1>3 DEF DimInv, RunInv, WellRead, DimRow, DimensionsOf
      <4> QED BY <1>4, <3>2, <4>1, <4>2
    <3> QED BY <3>1, <3>2
  <2>4. todo' \subseteq DimensionsOf(rows)
    BY <1>1, <1>2 DEF DimInv, RunInv
  <2>5. KeptAsRead'
    <3>1. KeptAsRead
      BY DEF DimInv, RunInv
    <3> QED BY <1>1, <1>6, <3>1 DEF KeptAsRead
  <2>6. \A e \in Outputs : InTimeOrder(out'[e].rows)
    <3>1. InTimeOrder(Sorted(Of(d, rows)))
      <4>1. PICK s : s = Sorted(Of(d, rows))
        OBVIOUS
      <4>2. Lists(s, Of(d, rows))
        BY <1>3, <4>1, FilesHoldRows DEF DimInv, RunInv, WellRead
      <4> QED BY <4>1, <4>2 DEF Lists, InTimeOrder
    <3>2. \A e \in Outputs : InTimeOrder(out[e].rows)
      BY DEF DimInv, RunInv
    <3> QED BY <1>4, <1>5, <3>1, <3>2
  <2> QED BY <1>1, <1>3, <2>1, <2>2, <2>3, <2>4, <2>5, <2>6 DEF RunInv, DimInv, WellRead
<1>9. SummaryInv'
  <2> SUFFICES ASSUME summary.run > 0 PROVE SummaryInv'
    BY <1>1 DEF SummaryInv
  <2>1. Listed' = Listed
    BY <1>1 DEF Listed
  <2>2. ASSUME NEW e \in Listed
        PROVE  /\ out'[e].run >= summary.run
               /\ out'[e].run = summary.run =>
                    /\ DOMAIN out'[e].rows = 1..summary.outputs[e]
                    /\ Len(out'[e].rows) = summary.outputs[e]
    <3>1. CASE e = d
      BY <1>3, <1>5, <3>1
    <3>2. CASE e # d
      <4>1. e \in Outputs
        BY DEF DimInv, SummaryInv
      <4>2. out'[e] = out[e]
        BY <1>4, <3>2, <4>1
      <4> QED BY <4>2 DEF DimInv, SummaryInv
    <3> QED BY <3>1, <3>2
  <2> QED BY <1>1, <2>1, <2>2 DEF DimInv, SummaryInv
<1> QED BY <1>7, <1>8, <1>9 DEF DimInv

(* The summary is written when all files are.                              *)
LEMMA WriteSummaryKeepsRun == DimInv /\ WriteSummary => DimInv'
<1> SUFFICES ASSUME DimInv, WriteSummary PROVE DimInv'
  OBVIOUS
<1>1. /\ run' = run /\ stage = "writing" /\ stage' = "idle" /\ endRead' = endRead /\ keepOutside' = keepOutside
      /\ rows' = rows /\ out' = out /\ log' = log /\ ended' = ended /\ todo' = todo /\ todo = {}
  BY DEF WriteSummary, AllWritten
<1>2. PICK size : size = [d \in DimensionsOf(rows) |-> Cardinality(Of(d, rows))]
  OBVIOUS
<1>3. /\ summary'.run = run /\ summary'.outputs = size /\ summary'.events = Cardinality(rows)
      /\ summary'.ended = endRead
  BY <1>2 DEF WriteSummary
<1>4. run > 0 /\ run \in Nat /\ WellRead(rows, endRead)
  BY <1>1 DEF DimInv, RunInv, RunType
<1>5. AllRows' = AllRows /\ \A r : InWindow(r)' <=> InWindow(r)
  BY <1>1 DEF AllRows, InWindow, ParseCan, ParseMarkedSnapshot, ParseBms, ParseDmesg, ParseUnixDmesg,
     ParseUnixLines, ParseInference, ParseBracketed, ParseDated, Bracketed, ParseCanDetails,
     ParseUsb, Parsed, LinesOf
<1>6. \A d \in DimensionsOf(rows) : d \in Outputs /\ out[d].run = run /\ out[d].rows = Sorted(Of(d, rows))
  <2> SUFFICES ASSUME NEW d \in DimensionsOf(rows)
               PROVE  d \in Outputs /\ out[d].run = run /\ out[d].rows = Sorted(Of(d, rows))
    OBVIOUS
  <2>1. d \in Outputs
    BY <1>4 DEF WellRead, DimRow, DimensionsOf
  <2>2. out[d].run = run
    BY <1>1 DEF DimInv, RunInv
  <2> QED BY <1>4, <2>1, <2>2 DEF DimInv, RunInv
<1>7. RunType'
  <2>1. LogType'
    BY <1>1 DEF DimInv, RunType, LogType
  <2> QED BY <1>1, <1>3, <1>4, <2>1 DEF DimInv, RunType
<1>8. RunInv'
  <2>1. KeptAsRead'
    <3>1. KeptAsRead
      BY DEF DimInv, RunInv
    <3> QED BY <1>1, <1>5, <3>1 DEF KeptAsRead
  <2> QED BY <1>1, <1>3, <1>4, <1>6, <2>1 DEF DimInv, RunInv, WellRead
<1>9. SummaryInv'
  <2>1. Listed' = DimensionsOf(rows) /\ size \in [DimensionsOf(rows) -> Nat]
    BY <1>2, <1>3, <1>4, RowsAddUp DEF Listed
  <2>2. Cardinality(rows) = Cardinality(UNION {{d} \X (1..size[d]) : d \in DimensionsOf(rows)})
                            + (IF endRead = NoTime THEN 1 ELSE 2)
    BY <1>2, <1>4, RowsAddUp DEF FilePlaces
  <2>3. \A d \in DimensionsOf(rows) :
          DOMAIN out'[d].rows = 1..size[d] /\ Len(out'[d].rows) = size[d] /\ out'[d].run >= run
    <3> SUFFICES ASSUME NEW d \in DimensionsOf(rows)
                 PROVE  DOMAIN out'[d].rows = 1..size[d] /\ Len(out'[d].rows) = size[d] /\ out'[d].run >= run
      OBVIOUS
    <3>1. PICK s : s = Sorted(Of(d, rows))
      OBVIOUS
    <3>2. Lists(s, Of(d, rows))
      BY <1>4, <3>1, FilesHoldRows DEF WellRead
    <3>3. DOMAIN s = 1..size[d] /\ Len(s) = size[d]
      BY <1>2, <3>2, LenProperties DEF Lists
    <3> QED BY <1>1, <1>4, <1>6, <3>1, <3>3
  <2>4. \A d \in Listed' : d \in Outputs
    BY <1>6, <2>1
  <2> QED BY <1>3, <2>1, <2>2, <2>3, <2>4 DEF SummaryInv
<1> QED BY <1>7, <1>8, <1>9 DEF DimInv

(* An interrupted run leaves its files, and the summary of another.        *)
LEMMA StoppedKeepsRun == DimInv /\ (Interrupted \/ UNCHANGED dimVars) => DimInv'
<1> SUFFICES ASSUME DimInv, Interrupted \/ UNCHANGED dimVars PROVE DimInv'
  OBVIOUS
<1>1. /\ run' = run /\ endRead' = endRead /\ keepOutside' = keepOutside
      /\ rows' = rows /\ out' = out /\ log' = log /\ ended' = ended /\ todo' = todo
      /\ summary' = summary /\ (stage' = stage \/ stage' = "idle")
  BY DEF Interrupted, dimVars
<1>2. AllRows' = AllRows /\ \A r : InWindow(r)' <=> InWindow(r)
  BY <1>1 DEF AllRows, InWindow, ParseCan, ParseMarkedSnapshot, ParseBms, ParseDmesg, ParseUnixDmesg,
     ParseUnixLines, ParseInference, ParseBracketed, ParseDated, Bracketed, ParseCanDetails,
     ParseUsb, Parsed, LinesOf
<1>3. LogType'
  BY <1>1 DEF DimInv, RunType, LogType
<1>4. RunType'
  BY <1>1, <1>3 DEF DimInv, RunType
<1>5. KeptAsRead'
  <2>1. KeptAsRead
    BY DEF DimInv, RunInv
  <2> QED BY <1>1, <1>2, <2>1 DEF KeptAsRead
<1>6. RunInv'
  BY <1>1, <1>5 DEF DimInv, RunInv, WellRead
<1>7. SummaryInv'
  BY <1>1 DEF DimInv, SummaryInv, Listed
<1> QED BY <1>4, <1>6, <1>7 DEF DimInv

(* The runs are always so.                                                 *)
LEMMA AlwaysRun == DimSpec => []DimInv
<1>1. DimInv /\ [DimNext]_dimVars => DimInv'
  <2> SUFFICES ASSUME DimInv, [DimNext]_dimVars PROVE DimInv'
    OBVIOUS
  <2>1. CASE WriteLine \/ EndSession
    BY <2>1, RecorderKeepsRun
  <2>2. CASE WriteOutput
    BY <2>2, WriteOutputKeepsRun
  <2>3. CASE WriteSummary
    BY <2>3, WriteSummaryKeepsRun
  <2>4. CASE Interrupted \/ UNCHANGED dimVars
    BY <2>4, StoppedKeepsRun
  <2>5. ASSUME NEW keep \in BOOLEAN, Begin(keep) PROVE DimInv'
    BY <2>5, BeginKeepsRun
  <2> QED BY <2>1, <2>2, <2>3, <2>4, <2>5 DEF DimNext
<1> QED BY <1>1, DimInitInv, PTL DEF DimSpec

(* A summary lists files that are there, written by its run or a later     *)
(* one, and counts the rows that are in them                               *)
(* (analyze_seven_dimensions.py:237-264), for every recording, every       *)
(* number of runs and wherever they are interrupted.                       *)
THEOREM SummaryIsTrue == DimSpec => []SummaryTruthful
<1>1. DimInv => SummaryTruthful
  <2> SUFFICES ASSUME DimInv, summary.run > 0 PROVE SummaryTruthful
    BY DEF SummaryTruthful
  <2>1. \A d \in Listed : out[d].run >= summary.run
    BY DEF DimInv, SummaryInv
  <2>2. \A d \in Own : Len(out[d].rows) = summary.outputs[d] /\ DOMAIN out[d].rows = 1..summary.outputs[d]
    BY DEF DimInv, SummaryInv, Own
  <2>3. Own = Listed =>
          UNION {{d} \X DOMAIN out[d].rows : d \in Listed} = UNION {{d} \X (1..summary.outputs[d]) : d \in Listed}
    BY <2>2
  <2> QED BY <2>1, <2>2, <2>3 DEF DimInv, SummaryInv, SummaryTruthful
<1> QED BY <1>1, AlwaysRun, PTL

(* The rows of a line are as many in its file as in the set it lists.      *)
HeldAt(s, i) == {j \in DOMAIN s : s[j].line = i}
RowsAt(S, i) == {r \in S : r.line = i}
LEMMA HeldRows ==
  ASSUME NEW S, IsFiniteSet(S), NEW s, Lists(s, S), NEW i
  PROVE  Cardinality(HeldAt(s, i)) = Cardinality(RowsAt(S, i))
<1>1. PICK H : H = {j \in DOMAIN s : s[j].line = i}
  OBVIOUS
<1>2. PICK L : L = {r \in S : r.line = i}
  OBVIOUS
<1>3. IsFiniteSet(H)
  <2>1. DOMAIN s = 1..Len(s) /\ Len(s) \in Nat
    BY LenProperties DEF Lists
  <2>2. 1 \in Int /\ Len(s) \in Int
    BY <2>1
  <2> QED BY <1>1, <2>1, <2>2, FS_Interval, FS_Subset
<1>4. PICK f : f = [j \in H |-> s[j]]
  OBVIOUS
<1>5. f \in [H -> L]
  BY <1>1, <1>2, <1>4, ElementOfSeq DEF Lists
<1>6. (\A x, y \in H : f[x] = f[y] => x = y) /\ (\A t \in L : \E x \in H : f[x] = t)
  BY <1>1, <1>2, <1>4 DEF Lists
<1>7. Cardinality(L) = Cardinality(H)
  BY <1>3, <1>5, <1>6, SameSize
<1> QED BY <1>1, <1>2, <1>7 DEF HeldAt, RowsAt

(* After the end of the session the files hold every line that lies within *)
(* it by the time its parser reads once, no other, and in the order of the *)
(* times (analyze_seven_dimensions.py: 49-200), for every recording; the   *)
(* exceptions are those that the property lists.                           *)
THEOREM EveryLineIsTold == DimSpec => []EveryLineTold
<1>1. DimInv => EveryLineTold
  <2> SUFFICES ASSUME DimInv, Finished, NEW i \in DOMAIN log, NEW d, d = Source[log[i].file]
               PROVE  /\ Cardinality({j \in DOMAIN out[d].rows : out[d].run = run /\ out[d].rows[j].line = i})
                           = (IF Shown(i) THEN 1 ELSE 0) + (IF ShownAgain(i) THEN 1 ELSE 0)
                      /\ \A a, b \in DOMAIN out[d].rows : a < b => out[d].rows[a].t <= out[d].rows[b].t
    BY DEF EveryLineTold
  <2>1. /\ LogType /\ endRead # NoTime /\ ended = endRead /\ run > 0 /\ WellRead(rows, endRead)
        /\ rows = {r \in AllRows : InWindow(r)}
        /\ \A e \in DimensionsOf(rows) : out[e].run = run
    <3>1. /\ stage = "idle" /\ summary.run > 0 /\ summary.run = run
          /\ summary.ended # NoTime /\ keepOutside = FALSE
      BY DEF Finished, DimInv, RunType
    <3>2. KeptAsRead /\ LogType /\ run > 0 /\ WellRead(rows, endRead)
          /\ summary.ended = endRead /\ \A e \in DimensionsOf(rows) : out[e].run = run
      BY <3>1 DEF DimInv, RunType, RunInv
    <3> QED BY <3>1, <3>2 DEF KeptAsRead
  <2>2. d \in Outputs /\ d # "session"
    <3>1. log[i].file \in {"can.log", "bms-status", "dmesg", "hpm-uart", "thermal",
                           "inference", "can-details", "usbcan.pcap"}
      BY <2>1, LogLine, SevenDimensionsAssumption
    <3>2. log[i].file \in {l.file : l \in Lines}
      BY <2>1, LogLine
    <3>3. d \in {"can-asc", "bms", "dmesg", "hpm-uart", "thermal",
                 "inference-session", "can-details", "usb-pcap"}
      BY <3>1, <3>2 DEF Source
    <3>4. DOMAIN Dimensions = {1, 2, 3, 4, 5, 6, 7, 8}
      BY DEF Dimensions
    <3>5. Outputs = {"can-asc", "bms", "dmesg", "hpm-uart", "thermal",
                     "inference-session", "can-details", "usb-pcap"}
      BY <3>4 DEF Outputs, Dimensions
    <3> QED BY <3>3, <3>5
  <2>3. \A a, b \in DOMAIN out[d].rows : a < b => out[d].rows[a].t <= out[d].rows[b].t
    BY <2>2 DEF DimInv, RunInv, InTimeOrder
  <2>4. PICK S : S = Of(d, rows)
    OBVIOUS
  <2>5. Cardinality({r \in S : r.line = i}) = (IF Shown(i) THEN 1 ELSE 0) + (IF ShownAgain(i) THEN 1 ELSE 0)
    BY <2>1, <2>4, RowsOfLine
  <2>6. CASE out[d].run = run
    <3>1. PICK s : s = Sorted(S)
      OBVIOUS
    <3>2. out[d].rows = s
      BY <2>1, <2>2, <2>4, <2>6, <3>1 DEF DimInv, RunInv
    <3>3. Lists(s, S) /\ IsFiniteSet(S)
      <4>1. S \in SUBSET rows
        BY <2>4 DEF Of
      <4> QED BY <2>1, <2>4, <3>1, <4>1, FilesHoldRows, FS_Subset DEF WellRead
    <3>4. Cardinality(HeldAt(s, i)) = Cardinality(RowsAt(S, i))
      BY <3>3, HeldRows
    <3>5. {j \in DOMAIN out[d].rows : out[d].run = run /\ out[d].rows[j].line = i}
            = HeldAt(s, i)
      BY <2>6, <3>2 DEF HeldAt
    <3>6. {r \in S : r.line = i} = RowsAt(S, i)
      BY DEF RowsAt
    <3> QED BY <2>3, <2>5, <3>4, <3>5, <3>6
  <2>7. CASE out[d].run # run
    <3>1. d \notin DimensionsOf(rows)
      BY <2>1, <2>7
    <3>2. {r \in S : r.line = i} = {}
      BY <2>2, <2>4, <3>1 DEF Of, DimensionsOf
    <3>3. {j \in DOMAIN out[d].rows : out[d].run = run /\ out[d].rows[j].line = i} = {}
      BY <2>7
    <3> QED BY <2>3, <2>5, <3>2, <3>3
  <2> QED BY <2>6, <2>7
<1> QED BY <1>1, AlwaysRun, PTL
-----------------------------------------------------------------------------
(* The CAN log of a session (CanAsc).                                      *)

(* The recording as it is kept: the log of an identifier holds the times   *)
(* at which it was due, its channel not halted and the frame not lost, in  *)
(* their order.                                                            *)
InOrderOf(s) == \A i, j \in DOMAIN s : i < j => s[i] < s[j]
Came(k) == {t \in 0..clock - 1 : Due(k, t) /\ <<k.ch, t>> \notin halted /\ <<k, t>> \notin lost}
RecInv ==
  /\ clock \in Nat /\ clock <= Horizon + 1
  /\ series \in [Ids -> Seq(Nat)]
  /\ \A k \in Ids : InOrderOf(series[k]) /\ Times(k) = Came(k)
  /\ \A m \in lost : \E k \in Ids : \E t \in 0..clock - 1 :
       m = <<k, t>> /\ Due(k, t) /\ <<k.ch, t>> \notin halted
  /\ \A h \in halted : \E c \in Buses : \E t \in 0..clock - 1 : h = <<c, t>>

(* The fields of an identifier.                                            *)
LEMMA IdFields ==
  ASSUME NEW k \in Ids
  PROVE  k.ch \in Nat /\ k.period \in Nat \ {0} /\ k.phase \in Nat /\ k.ch \in Buses
BY CanAscAssumption DEF Buses

(* A frame that comes later keeps the log of its identifier in order.      *)
LEMMA AppendInOrder ==
  ASSUME NEW s \in Seq(Nat), NEW t \in Nat, InOrderOf(s), \A i \in DOMAIN s : s[i] < t
  PROVE  /\ InOrderOf(Append(s, t))
         /\ {Append(s, t)[i] : i \in DOMAIN Append(s, t)} = {s[i] : i \in DOMAIN s} \cup {t}
<1>1. Len(Append(s, t)) = Len(s) + 1 /\ Append(s, t)[Len(s) + 1] = t
      /\ \A i \in 1..Len(s) : Append(s, t)[i] = s[i]
  BY AppendProperties
<1>2. DOMAIN s = 1..Len(s) /\ DOMAIN Append(s, t) = 1..Len(s) + 1 /\ Len(s) \in Nat
  BY <1>1, AppendProperties, LenProperties
<1>3. \A i \in 1..Len(s) : s[i] \in Nat
  BY <1>2, ElementOfSeq
<1>4. InOrderOf(Append(s, t))
  <2> SUFFICES ASSUME NEW i \in 1..Len(s) + 1, NEW j \in 1..Len(s) + 1, i < j
               PROVE  Append(s, t)[i] < Append(s, t)[j]
    BY <1>2 DEF InOrderOf
  <2>1. CASE j = Len(s) + 1
    BY <1>1, <1>2, <2>1
  <2>2. CASE j # Len(s) + 1
    <3>1. i \in 1..Len(s) /\ j \in 1..Len(s)
      BY <1>2, <2>2
    <3> QED BY <1>1, <1>2, <3>1 DEF InOrderOf
  <2> QED BY <2>1, <2>2
<1>5. \A x \in {Append(s, t)[i] : i \in 1..Len(s) + 1} : x \in {s[i] : i \in 1..Len(s)} \cup {t}
  <2> SUFFICES ASSUME NEW i \in 1..Len(s) + 1
               PROVE  Append(s, t)[i] \in {s[j] : j \in 1..Len(s)} \cup {t}
    OBVIOUS
  <2> QED BY <1>1, <1>2
<1>6. \A x \in {s[i] : i \in 1..Len(s)} \cup {t} : x \in {Append(s, t)[i] : i \in 1..Len(s) + 1}
  <2>1. ASSUME NEW i \in 1..Len(s)
        PROVE  s[i] \in {Append(s, t)[j] : j \in 1..Len(s) + 1}
    BY <1>1, <1>2
  <2>2. t \in {Append(s, t)[j] : j \in 1..Len(s) + 1}
    BY <1>1, <1>2
  <2> QED BY <2>1, <2>2
<1> QED BY <1>2, <1>4, <1>5, <1>6

(* Nothing is recorded yet.                                                *)
LEMMA RecInit == AscInit => RecInv
<1> SUFFICES ASSUME AscInit PROVE RecInv
  OBVIOUS
<1>1. series \in [Ids -> Seq(Nat)]
  BY DEF AscInit
<1>2. \A k \in Ids : series[k] = <<>>
  BY DEF AscInit
<1>3. \A k \in Ids : InOrderOf(series[k]) /\ Times(k) = {}
  BY <1>2 DEF InOrderOf, Times
<1>4. \A k \in Ids : Came(k) = {}
  BY DEF Came, AscInit
<1>5. clock \in Nat /\ clock <= Horizon + 1
  BY CanAscAssumption DEF AscInit
<1> QED BY <1>1, <1>3, <1>4, <1>5 DEF RecInv, AscInit

(* A tick keeps it.                                                        *)
LEMMA TickRec ==
  ASSUME RecInv, NEW H \in SUBSET Buses, NEW L \in SUBSET Ids, Tick(H, L)
  PROVE  RecInv'
<1> USE DEF RecInv
<1>1. clock \in Nat /\ clock' = clock + 1 /\ clock' \in Nat /\ clock' <= Horizon + 1
  BY CanAscAssumption DEF Tick
<1>2. lost' = lost \cup {<<k, clock>> : k \in L} /\ halted' = halted \cup {<<c, clock>> : c \in H}
  BY DEF Tick
<1>3. \A k \in L : Due(k, clock) /\ k.ch \notin H
  BY DEF Tick
<1>4. \A c, t : <<c, t>> \in halted' <=> <<c, t>> \in halted \/ (t = clock /\ c \in H)
  BY <1>2
<1>5. \A k, t : <<k, t>> \in lost' <=> <<k, t>> \in lost \/ (t = clock /\ k \in L)
  BY <1>2
<1>6. \A c : <<c, clock>> \notin halted
  BY <1>1
<1>7. \A k : <<k, clock>> \notin lost
  <2> SUFFICES ASSUME NEW k, <<k, clock>> \in lost PROVE FALSE
    OBVIOUS
  <2>1. \E l \in Ids : \E t \in 0..clock - 1 : <<k, clock>> = <<l, t>>
    OBVIOUS
  <2> QED BY <1>1, <2>1
<1>8. \A k \in Ids : /\ series'[k] \in Seq(Nat) /\ InOrderOf(series'[k])
                     /\ Times(k)' = Came(k)'
  <2> SUFFICES ASSUME NEW k \in Ids
               PROVE  series'[k] \in Seq(Nat) /\ InOrderOf(series'[k]) /\ Times(k)' = Came(k)'
    OBVIOUS
  <2> DEFINE comes == Due(k, clock) /\ k.ch \notin H /\ k \notin L
  <2>1. series'[k] = IF comes THEN Append(series[k], clock) ELSE series[k]
    BY DEF Tick
  <2>2. series[k] \in Seq(Nat) /\ InOrderOf(series[k]) /\ Times(k) = Came(k)
    OBVIOUS
  <2>3. Came(k)' = Came(k) \cup (IF comes THEN {clock} ELSE {})
    <3>1. \A t \in 0..clock - 1 : /\ <<k.ch, t>> \in halted' <=> <<k.ch, t>> \in halted
                                  /\ <<k, t>> \in lost' <=> <<k, t>> \in lost
      BY <1>1, <1>4, <1>5
    <3>2. <<k.ch, clock>> \notin halted' /\ <<k, clock>> \notin lost'
            <=> k.ch \notin H /\ k \notin L
      BY <1>4, <1>5, <1>6, <1>7
    <3>3. 0..clock' - 1 = (0..clock - 1) \cup {clock}
      BY <1>1
    <3>4. Came(k)' = {t \in (0..clock - 1) \cup {clock} :
                        Due(k, t) /\ <<k.ch, t>> \notin halted' /\ <<k, t>> \notin lost'}
      BY <3>3 DEF Came, Due
    <3>5. Came(k) = {t \in 0..clock - 1 :
                       Due(k, t) /\ <<k.ch, t>> \notin halted' /\ <<k, t>> \notin lost'}
      BY <3>1 DEF Came
    <3>6. Came(k)' = Came(k) \cup {t \in {clock} :
                       Due(k, t) /\ <<k.ch, t>> \notin halted' /\ <<k, t>> \notin lost'}
      BY <3>4, <3>5
    <3> HIDE DEF RecInv
    <3> QED BY <3>2, <3>6
  <2>4. CASE ~comes
    <3>1. series'[k] = series[k]
      BY <2>1, <2>4
    <3>2. Times(k)' = Times(k)
      BY <3>1 DEF Times
    <3> QED BY <2>2, <2>3, <2>4, <3>1, <3>2
  <2>5. CASE comes
    <3>1. series'[k] = Append(series[k], clock)
      BY <2>1, <2>5
    <3>2. \A i \in DOMAIN series[k] : series[k][i] < clock
      <4> TAKE i \in DOMAIN series[k]
      <4>1. series[k][i] \in Came(k)
        BY <2>2 DEF Times
      <4> QED BY <4>1, <1>1 DEF Came
    <3>3. /\ InOrderOf(series'[k])
          /\ {series'[k][i] : i \in DOMAIN series'[k]} = {series[k][i] : i \in DOMAIN series[k]} \cup {clock}
      <4> DEFINE s == series[k]
                 u == Append(s, clock)
      <4>1. s \in Seq(Nat) /\ clock \in Nat /\ InOrderOf(s) /\ \A i \in DOMAIN s : s[i] < clock
        BY <1>1, <2>2, <3>2
      <4> HIDE DEF s, RecInv
      <4>2. InOrderOf(u) /\ {u[i] : i \in DOMAIN u} = {s[i] : i \in DOMAIN s} \cup {clock}
        BY <4>1, AppendInOrder
      <4> QED BY <3>1, <4>2 DEF s
    <3>4. Times(k)' = Times(k) \cup {clock}
      BY <3>3 DEF Times
    <3>5. series'[k] \in Seq(Nat)
      BY <1>1, <2>2, <3>1, AppendProperties
    <3> QED BY <2>2, <2>3, <2>5, <3>3, <3>4, <3>5
  <2> QED BY <2>4, <2>5
<1>9. series' \in [Ids -> Seq(Nat)]
  <2>1. series' = [k \in Ids |-> series'[k]]
    BY DEF Tick
  <2> QED BY <1>8, <2>1
<1>10. \A m \in lost' : \E k \in Ids : \E t \in 0..clock' - 1 :
         m = <<k, t>> /\ Due(k, t) /\ <<k.ch, t>> \notin halted'
  <2> SUFFICES ASSUME NEW m \in lost'
               PROVE  \E k \in Ids : \E t \in 0..clock' - 1 :
                        m = <<k, t>> /\ Due(k, t) /\ <<k.ch, t>> \notin halted'
    OBVIOUS
  <2>1. CASE m \in lost
    <3>1. PICK k \in Ids : \E t \in 0..clock - 1 : m = <<k, t>> /\ Due(k, t) /\ <<k.ch, t>> \notin halted
      BY <2>1
    <3>2. PICK t \in 0..clock - 1 : m = <<k, t>> /\ Due(k, t) /\ <<k.ch, t>> \notin halted
      BY <3>1
    <3>3. t \in 0..clock' - 1 /\ t # clock
      BY <1>1
    <3> HIDE DEF RecInv
    <3>4. <<k.ch, t>> \notin halted'
      BY <1>4, <3>2, <3>3
    <3> QED BY <3>2, <3>3, <3>4
  <2>2. CASE m \notin lost
    <3>1. PICK k \in L : m = <<k, clock>>
      BY <1>2, <2>2
    <3>2. k \in Ids /\ clock \in 0..clock' - 1 /\ <<k.ch, clock>> \notin halted'
      BY <1>1, <1>3, <1>4, <1>6
    <3> QED BY <1>3, <3>1, <3>2
  <2> QED BY <2>1, <2>2
<1>11. \A h \in halted' : \E c \in Buses : \E t \in 0..clock' - 1 : h = <<c, t>>
  <2> SUFFICES ASSUME NEW h \in halted'
               PROVE  \E c \in Buses : \E t \in 0..clock' - 1 : h = <<c, t>>
    OBVIOUS
  <2>1. CASE h \in halted
    <3>1. 0..clock - 1 \subseteq 0..clock' - 1
      BY <1>1
    <3> QED BY <2>1, <3>1
  <2>2. CASE h \notin halted
    <3>1. PICK c \in H : h = <<c, clock>>
      BY <1>2, <2>2
    <3>2. c \in Buses /\ clock \in 0..clock' - 1
      BY <1>1
    <3> QED BY <3>1, <3>2
  <2> QED BY <2>1, <2>2
<1>12. Buses' = Buses /\ \A k, t : Due(k, t)' <=> Due(k, t)
  BY DEF Buses, Due
<1> QED BY <1>1, <1>8, <1>9, <1>10, <1>11 DEF Due, Buses

(* It depends on the recording alone.                                      *)
LEMMA SameRec == ASSUME RecInv, UNCHANGED recording PROVE RecInv'
BY DEF RecInv, recording, Came, Times, InOrderOf, Due, Buses

(* Only a tick of the recording could disturb it.                          *)
LEMMA RecNext == RecInv /\ [AscNext]_ascVars => RecInv'
<1> SUFFICES ASSUME RecInv, [AscNext]_ascVars PROVE RecInv'
  OBVIOUS
<1>1. CASE \E H \in SUBSET Buses, L \in SUBSET Ids : Tick(H, L)
  BY <1>1, TickRec
<1>2. CASE ~\E H \in SUBSET Buses, L \in SUBSET Ids : Tick(H, L)
  <2>1. UNCHANGED recording
    BY <1>2 DEF AscNext, ascVars, Begins, MergeNext, Reports
  <2> QED BY <2>1, SameRec
<1> QED BY <1>1, <1>2

(* The recording is always kept so.                                        *)
LEMMA AlwaysRec == AscSpec => []RecInv
BY RecInit, RecNext, PTL DEF AscSpec

(* The larger and the smaller of two numbers.                              *)
LEMMA MaxOfTwo ==
  ASSUME NEW a \in Int, NEW b \in Int
  PROVE  /\ Max({a, b}) \in {a, b} /\ Max({a, b}) >= a /\ Max({a, b}) >= b
         /\ Min({a, b}) \in {a, b} /\ Min({a, b}) <= a /\ Min({a, b}) <= b
<1>1. \E x \in {a, b} : \A y \in {a, b} : x >= y
  <2>1. CASE a >= b
    BY <2>1
  <2>2. CASE ~(a >= b)
    BY <2>2
  <2> QED BY <2>1, <2>2
<1>2. \E x \in {a, b} : \A y \in {a, b} : x <= y
  <2>1. CASE a <= b
    BY <2>1
  <2>2. CASE ~(a <= b)
    BY <2>2
  <2> QED BY <2>1, <2>2
<1>3. Max({a, b}) \in {a, b} /\ \A y \in {a, b} : Max({a, b}) >= y
  BY <1>1 DEF Max
<1>4. Min({a, b}) \in {a, b} /\ \A y \in {a, b} : Min({a, b}) <= y
  BY <1>2 DEF Min
<1> QED BY <1>3, <1>4

(* The silences of the channels looked at.                                 *)
Silent == UNION {Silences(c, Stall) : c \in chosen}

(* The times of frames lie within the recording.                           *)
LEMMA StampsAre ==
  ASSUME RecInv, NEW ks \in SUBSET Ids
  PROVE  Stamps(ks) \in SUBSET (0..clock - 1)
<1>1. \A k \in ks : Times(k) = Came(k)
  BY DEF RecInv
<1> QED BY <1>1 DEF Stamps, Came

(* A silence has its channel, and a length of at least Stall.              *)
LEMMA SilenceType ==
  ASSUME RecInv, NEW c, NEW w \in Silences(c, Stall)
  PROVE  /\ w \in [from : Nat, to : Nat, chans : {{c}}] /\ w.from < w.to /\ w.to - w.from >= Stall
         /\ w.chans = {c}
<1> DEFINE stamps == Stamps({k \in Ids : k.ch = c})
<1>1. w \in [from : stamps, to : stamps, chans : {{c}}] /\ w.to - w.from >= Stall
  BY DEF Silences
<1>2. {k \in Ids : k.ch = c} \in SUBSET Ids
  OBVIOUS
<1>3. stamps \subseteq Nat
  <2>1. stamps \in SUBSET (0..clock - 1)
    BY <1>2, StampsAre
  <2> QED BY <2>1 DEF RecInv
<1> HIDE DEF stamps
<1>4. Stall \in Nat \ {0}
  BY CanAscAssumption
<1>5. w.from \in Nat /\ w.to \in Nat
  BY <1>1, <1>3
<1> QED BY <1>1, <1>3, <1>4, <1>5

(* An event holds a window; one of its silences covers a moment.           *)
Holds(e, w) == e.from <= w.from /\ w.to <= e.to /\ w.chans \subseteq e.chans
Covers(e, t, W) == \E w \in W : /\ w.chans \subseteq e.chans /\ w.from <= t /\ t < w.to
                                /\ e.from <= w.from /\ w.to <= e.to

(* What windows and events consist of.                                     *)
EventType == [from : Nat, to : Nat, chans : SUBSET Buses]

(* The events made of the windows D so far, with those of L left: apart,   *)
(* holding each of D, covered by the windows W, and none begun after one   *)
(* of L.                                                                   *)
Apart(evs) == /\ evs \in Seq(EventType)
              /\ \A i \in DOMAIN evs : evs[i].from < evs[i].to
              /\ \A i, j \in DOMAIN evs : i < j => evs[i].to < evs[j].from
Hold(evs, D) == \A w \in D : \E i \in DOMAIN evs : Holds(evs[i], w)
Covered(evs, W) == \A i \in DOMAIN evs : \A t \in evs[i].from..evs[i].to - 1 : Covers(evs[i], t, W)
NoneLater(evs, L) == \A i \in DOMAIN evs : \A w \in L : evs[i].from <= w.from

(* A window that comes next in the order of the starts leaves it so.       *)
LEMMA MergeKeeps ==
  ASSUME NEW evs, NEW W \in SUBSET EventType, NEW D \in SUBSET W, NEW w \in W, w.from < w.to,
         Apart(evs), Hold(evs, D), Covered(evs, W),
         \A i \in DOMAIN evs : evs[i].from <= w.from
  PROVE  /\ Apart(Merged(evs, w)) /\ Hold(Merged(evs, w), D \cup {w}) /\ Covered(Merged(evs, w), W)
         /\ \A i \in DOMAIN Merged(evs, w) : Merged(evs, w)[i].from <= w.from
<1> DEFINE n == Len(evs)
           new == Merged(evs, w)
<1> w \in EventType
  OBVIOUS
<1>1. /\ evs \in Seq(EventType) /\ n \in Nat /\ DOMAIN evs = 1..n
      /\ evs # <<>> <=> n # 0
      /\ LastOf(evs) = evs[n] /\ Len(Append(evs, w)) = n + 1
  <2>1. evs \in Seq(EventType)
    BY DEF Apart
  <2> QED BY <2>1, LenProperties, EmptySeq, AppendProperties DEF LastOf
<1>0. /\ \A i \in 1..n : evs[i].from < evs[i].to
      /\ \A i, j \in 1..n : i < j => evs[i].to < evs[j].from
  BY <1>1 DEF Apart
<1>7. ASSUME Joins(evs, w)
      PROVE  Merged(evs, w) = [evs EXCEPT ![n] = [from |-> @.from, to |-> Max({@.to, w.to}),
                                                  chans |-> @.chans \cup w.chans]]
  BY <1>7 DEF Merged
<1> HIDE DEF n
<1>2. \A i \in 1..n : evs[i] \in EventType
  BY <1>1, ElementOfSeq
<1>3. w.from \in Nat /\ w.to \in Nat /\ w.chans \in SUBSET Buses
  BY DEF EventType
<1>4. \A i \in 1..n : evs[i].from \in Nat /\ evs[i].to \in Nat /\ evs[i].chans \in SUBSET Buses
  BY <1>2 DEF EventType
<1>5. CASE ~Joins(evs, w)
  <2>1. new = Append(evs, w)
    BY <1>5 DEF Merged
  <2> HIDE DEF new
  <2>2. /\ new \in Seq(EventType) /\ DOMAIN new = 1..n + 1 /\ new[n + 1] = w
        /\ \A i \in 1..n : new[i] = evs[i]
    <3>1. Append(evs, w) \in Seq(EventType) /\ Len(Append(evs, w)) = n + 1 /\ Append(evs, w)[n + 1] = w
          /\ \A i \in 1..n : Append(evs, w)[i] = evs[i]
      BY <1>1, AppendProperties
    <3> QED BY <2>1, <3>1, LenProperties
  <2>3. \A i \in 1..n : evs[i].to < w.from
    <3> TAKE i \in 1..n
    <3>1. evs # <<>> /\ w.from > evs[n].to
      <4>1. evs # <<>>
        BY <1>1
      <4>2. n \in 1..n
        BY <1>1
      <4>3. ~(w.from <= evs[n].to)
        BY <1>1, <1>5, <4>1 DEF Joins
      <4>4. evs[n].to \in Nat
        BY <1>4, <4>2
      <4> QED BY <1>3, <4>1, <4>3, <4>4
    <3>2. CASE i = n
      BY <1>3, <1>4, <3>1, <3>2
    <3>3. CASE i # n
      <4>1. n \in 1..n /\ i < n
        BY <1>1, <3>3
      <4>2. evs[i].to < evs[n].from /\ evs[n].from < evs[n].to
        BY <1>0, <4>1
      <4> QED BY <1>3, <1>4, <3>1, <4>1, <4>2
    <3> QED BY <3>2, <3>3
  <2>4. Apart(new)
    <3>1. \A i \in 1..n + 1 : new[i].from < new[i].to
      <4> TAKE i \in 1..n + 1
      <4>1. i \in 1..n \/ i = n + 1
        BY <1>1
      <4> QED BY <1>0, <2>2, <4>1
    <3>2. \A i, j \in 1..n + 1 : i < j => new[i].to < new[j].from
      <4> SUFFICES ASSUME NEW i \in 1..n + 1, NEW j \in 1..n + 1, i < j
                   PROVE  new[i].to < new[j].from
        OBVIOUS
      <4>1. i \in 1..n
        BY <1>1
      <4>2. CASE j = n + 1
        BY <2>2, <2>3, <4>1, <4>2
      <4>3. CASE j # n + 1
        <5>1. j \in 1..n
          BY <1>1, <4>3
        <5> QED BY <1>0, <2>2, <4>1, <5>1
      <4> QED BY <4>2, <4>3
    <3> QED BY <2>2, <3>1, <3>2 DEF Apart
  <2>5. Hold(new, D \cup {w})
    <3> SUFFICES ASSUME NEW v \in D \cup {w} PROVE \E i \in 1..n + 1 : Holds(new[i], v)
      BY <2>2 DEF Hold
    <3>1. CASE v = w
      <4>1. Holds(new[n + 1], v) /\ n + 1 \in 1..n + 1
        BY <1>1, <1>3, <2>2, <3>1 DEF Holds
      <4> QED BY <4>1
    <3>2. CASE v # w
      <4>1. PICK i \in 1..n : Holds(evs[i], v)
        BY <1>1, <3>2 DEF Hold
      <4>2. i \in 1..n + 1 /\ new[i] = evs[i]
        BY <1>1, <2>2
      <4> QED BY <4>1, <4>2
    <3> QED BY <3>1, <3>2
  <2>6. Covered(new, W)
    <3> SUFFICES ASSUME NEW i \in 1..n + 1, NEW t \in new[i].from..new[i].to - 1
                 PROVE  Covers(new[i], t, W)
      BY <2>2 DEF Covered
    <3>1. CASE i = n + 1
      BY <1>3, <2>2, <3>1 DEF Covers
    <3>2. CASE i # n + 1
      <4>1. i \in 1..n
        BY <1>1, <3>2
      <4> QED BY <1>1, <2>2, <4>1 DEF Covered
    <3> QED BY <3>1, <3>2
  <2>7. \A i \in DOMAIN new : new[i].from <= w.from
    <3> TAKE i \in DOMAIN new
    <3>1. i \in 1..n \/ i = n + 1
      BY <1>1, <2>2
    <3> QED BY <1>1, <1>3, <2>2, <3>1
  <2> QED BY <2>4, <2>5, <2>6, <2>7 DEF new
<1>6. CASE Joins(evs, w)
  <2> DEFINE e == evs[n]
             f == [from |-> e.from, to |-> Max({e.to, w.to}), chans |-> e.chans \cup w.chans]
  <2>1. n \in 1..n /\ w.from <= e.to /\ e.from <= w.from /\ e.from < e.to
    <3>1. evs # <<>> /\ w.from <= e.to
      BY <1>1, <1>6 DEF Joins
    <3>2. n # 0
      BY <1>1, <3>1
    <3>3. n \in 1..n
      BY <1>1, <3>2
    <3> QED BY <1>0, <1>1, <3>1, <3>3
  <2>0. e.from \in Nat /\ e.to \in Nat /\ e.chans \in SUBSET Buses /\ e = evs[n]
    BY <1>4, <2>1 DEF e
  <2>2. f.to \in Nat /\ f.to >= e.to /\ f.to >= w.to /\ f.to \in {e.to, w.to}
    <3>1. f.to = Max({e.to, w.to})
      BY DEF f
    <3>2. e.to \in Int /\ w.to \in Int
      BY <1>3, <2>0
    <3> QED BY <1>3, <2>0, <3>1, <3>2, MaxOfTwo
  <2>3. f \in EventType /\ f.from = e.from /\ f.chans = e.chans \cup w.chans
    BY <1>3, <2>0, <2>2 DEF EventType, f
  <2>4. new = [evs EXCEPT ![n] = f]
    BY <1>6, <1>7
  <2> HIDE DEF e, f, new
  <2>5. /\ new \in Seq(EventType) /\ DOMAIN new = 1..n /\ new[n] = f
        /\ \A i \in 1..n : i # n => new[i] = evs[i]
    <3>1. [evs EXCEPT ![n] = f] \in Seq(EventType)
      BY <1>1, <2>1, <2>3, ExceptSeq
    <3> QED BY <1>1, <2>1, <2>4, <3>1, LenProperties
  <2>6. Apart(new)
    <3>1. \A i \in 1..n : new[i].from < new[i].to
      <4> TAKE i \in 1..n
      <4>1. CASE i = n
        BY <2>0, <2>1, <2>2, <2>3, <2>5, <4>1
      <4>2. CASE i # n
        BY <1>0, <2>5, <4>2
      <4> QED BY <4>1, <4>2
    <3>2. \A i, j \in 1..n : i < j => new[i].to < new[j].from
      <4> SUFFICES ASSUME NEW i \in 1..n, NEW j \in 1..n, i < j
                   PROVE  new[i].to < new[j].from
        OBVIOUS
      <4>1. i # n /\ evs[i].to < evs[j].from
        BY <1>0, <1>1
      <4>2. new[j].from = evs[j].from
        BY <2>0, <2>3, <2>5
      <4> QED BY <2>5, <4>1, <4>2
    <3> QED BY <2>5, <3>1, <3>2 DEF Apart
  <2>7. Hold(new, D \cup {w})
    <3> SUFFICES ASSUME NEW v \in D \cup {w} PROVE \E i \in 1..n : Holds(new[i], v)
      BY <2>5 DEF Hold
    <3>1. CASE v = w
      <4>1. Holds(f, w)
        BY <1>3, <2>0, <2>1, <2>2, <2>3 DEF Holds
      <4> QED BY <2>1, <2>5, <3>1, <4>1
    <3>2. CASE v # w
      <4>1. PICK i \in 1..n : Holds(evs[i], v)
        BY <1>1, <3>2 DEF Hold
      <4>2. CASE i # n
        BY <2>5, <4>1, <4>2
      <4>3. CASE i = n
        <5>1. f.from <= v.from /\ v.chans \subseteq f.chans
          BY <2>3, <2>0, <4>1, <4>3 DEF Holds
        <5>2. CASE f.to = e.to
          <6>1. Holds(f, v)
            BY <2>0, <4>1, <4>3, <5>1, <5>2 DEF Holds
          <6> QED BY <2>1, <2>5, <6>1
        <5>3. CASE f.to # e.to
          <6>1. v.to \in Nat /\ v.to <= e.to
            BY <3>2, <2>0, <4>1, <4>3 DEF Holds, EventType
          <6>2. v.to <= f.to
            BY <2>0, <2>1, <2>2, <6>1
          <6>3. Holds(f, v)
            BY <5>1, <6>2 DEF Holds
          <6> QED BY <2>1, <2>5, <6>3
        <5> QED BY <5>2, <5>3
      <4> QED BY <4>2, <4>3
    <3> QED BY <3>1, <3>2
  <2>8. Covered(new, W)
    <3> SUFFICES ASSUME NEW i \in 1..n, NEW t \in new[i].from..new[i].to - 1
                 PROVE  Covers(new[i], t, W)
      BY <2>5 DEF Covered
    <3>1. CASE i # n
      BY <1>1, <2>5, <3>1 DEF Covered
    <3>2. CASE i = n
      <4>1. t \in e.from..f.to - 1
        BY <2>3, <2>5, <3>2
      <4>2. CASE t < e.to
        <5>1. t \in e.from..e.to - 1
          BY <2>0, <2>1, <2>2, <4>1, <4>2
        <5>2. Covers(e, t, W)
          BY <1>1, <2>0, <2>1, <5>1 DEF Covered
        <5>3. PICK v \in W : /\ v.chans \subseteq e.chans /\ v.from <= t /\ t < v.to
                              /\ e.from <= v.from /\ v.to <= e.to
          BY <5>2 DEF Covers
        <5>4. v.to \in Nat /\ v.to <= f.to /\ v.chans \subseteq f.chans /\ f.from <= v.from
          BY <2>0, <2>1, <2>2, <2>3, <5>3 DEF EventType
        <5> QED BY <2>5, <3>2, <5>3, <5>4 DEF Covers
      <4>3. CASE ~(t < e.to)
        <5>1. w.from <= t /\ t < w.to
          BY <1>3, <2>0, <2>1, <2>2, <2>0, <4>1, <4>3
        <5> QED BY <1>3, <2>1, <2>2, <2>3, <2>5, <3>2, <5>1 DEF Covers
      <4> QED BY <4>2, <4>3
    <3> QED BY <3>1, <3>2
  <2>9. \A i \in DOMAIN new : new[i].from <= w.from
    BY <1>1, <2>0, <2>1, <2>3, <2>5
  <2> QED BY <2>6, <2>7, <2>8, <2>9 DEF new
<1> QED BY <1>5, <1>6

(* The merge as it stands: the windows merged so far are held by events    *)
(* that are apart and of which every moment is covered by a silence, and   *)
(* those that are left begin no earlier.                                   *)
MergeInv ==
  /\ chosen \in SUBSET Buses /\ windows \in SUBSET Silent
  /\ chosen = {} => events = <<>>
  /\ Apart(events) /\ Hold(events, Silent \ windows) /\ Covered(events, Silent)
  /\ NoneLater(events, windows)
  /\ Reported => chosen # {} /\ windows = {}

(* The silences looked at are windows of some length.                      *)
LEMMA SilentAre ==
  ASSUME RecInv, chosen \in SUBSET Buses, NEW w \in Silent
  PROVE  w \in EventType /\ w.from < w.to
<1>1. PICK c \in chosen : w \in Silences(c, Stall)
  BY DEF Silent
<1>2. /\ w \in [from : Nat, to : Nat, chans : {{c}}] /\ w.from < w.to
  BY <1>1, SilenceType
<1>3. c \in Buses
  OBVIOUS
<1> QED BY <1>2, <1>3 DEF EventType

(* Before the first window there is no event.                              *)
LEMMA NoEvents ==
  ASSUME NEW W
  PROVE  Apart(<<>>) /\ Hold(<<>>, {}) /\ Covered(<<>>, W) /\ NoneLater(<<>>, W)
<1>1. <<>> \in Seq(EventType) /\ DOMAIN <<>> = {}
  <2>1. Len(<<>>) = 0 /\ <<>> \in Seq(EventType)
    BY EmptySeq
  <2>2. DOMAIN <<>> = 1..0
    OBVIOUS
  <2> QED BY <2>1, <2>2
<1> QED BY <1>1 DEF Apart, Hold, Covered, NoneLater

(* The program has not begun.                                              *)
LEMMA MergeInit == AscInit => MergeInv
<1> SUFFICES ASSUME AscInit PROVE MergeInv
  OBVIOUS
<1>1. chosen = {} /\ windows = {} /\ events = <<>> /\ report.kind = "none"
  BY DEF AscInit, NoReport
<1>2. Silent = {}
  BY <1>1 DEF Silent
<1> QED BY <1>1, <1>2, NoEvents DEF MergeInv, Reported

(* A tick comes before the program begins.                                 *)
LEMMA TickKeepsMerge ==
  ASSUME MergeInv, NEW H, NEW L, Tick(H, L)
  PROVE  MergeInv'
<1>1. /\ chosen = {} /\ chosen' = {} /\ events' = events /\ windows' = windows /\ report' = report
      /\ report.kind = "none"
  BY DEF Tick, NoReport
<1>2. Silent = {} /\ Silent' = {}
  BY <1>1 DEF Silent
<1>3. windows = {} /\ events = <<>>
  BY <1>1, <1>2 DEF MergeInv
<1> QED BY <1>1, <1>2, <1>3, NoEvents DEF MergeInv, Reported

(* The program begins with all silences of its channels to be merged.      *)
LEMMA BeginsKeepsMerge ==
  ASSUME MergeInv, NEW chs \in {Buses} \cup {{c} : c \in Buses}, Begins(chs)
  PROVE  MergeInv'
<1>1. chosen = {} /\ events' = events /\ report = NoReport /\ UNCHANGED recording
  BY DEF Begins
<1>2. events = <<>> /\ events' = <<>>
  BY <1>1 DEF MergeInv
<1>3. chs \in SUBSET Buses /\ Buses' = Buses
  BY DEF Buses
<1>4. ~Reported'
  <2>1. CASE report' = NoReport
    BY <2>1 DEF NoReport, Reported
  <2>2. CASE report' # NoReport
    <3>1. report'.kind = IF Seen(chs) = {} THEN "no frames" ELSE "crashed"
      BY <2>2 DEF Begins
    <3> QED BY <3>1 DEF Reported
  <2> QED BY <2>1, <2>2
<1>5. CASE Seen(chs) = {} \/ Duration(chs) = 0
  <2>1. chosen' = {} /\ windows' = {}
    BY <1>5 DEF Begins
  <2>2. Silent' = {}
    BY <2>1 DEF Silent
  <2> QED BY <1>2, <1>3, <1>4, <2>1, <2>2, NoEvents DEF MergeInv
<1>6. CASE ~(Seen(chs) = {} \/ Duration(chs) = 0)
  <2>1. chosen' = chs /\ windows' = UNION {Silences(c, Stall) : c \in chs}
    BY <1>6 DEF Begins
  <2>2. \A c : Silences(c, Stall)' = Silences(c, Stall)
    BY <1>1 DEF Silences, Stamps, Times, recording
  <2>3. Silent' = windows'
    BY <2>1, <2>2 DEF Silent
  <2>4. chosen' = {} => events' = <<>>
    BY <1>2
  <2>5. /\ Apart(events') /\ Hold(events', {}) /\ Covered(events', Silent') /\ NoneLater(events', windows')
    BY <1>2, NoEvents
  <2>6. Silent' \ windows' = {}
    BY <2>3
  <2>7. Hold(events', Silent' \ windows')
    BY <2>5, <2>6
  <2> QED BY <1>3, <1>4, <2>1, <2>3, <2>4, <2>5, <2>7 DEF MergeInv, Apart, Hold, Holds, Covered, Covers, NoneLater, EventType, Buses
<1> QED BY <1>5, <1>6

(* The silences depend on the recording and the channels alone.            *)
LEMMA SameSilent ==
  ASSUME UNCHANGED <<recording, chosen>>
  PROVE  Silent' = Silent /\ \A c : Silences(c, Stall)' = Silences(c, Stall)
<1>1. \A c : Silences(c, Stall)' = Silences(c, Stall)
  BY DEF Silences, Stamps, Times, recording
<1>2. {Silences(c, Stall) : c \in chosen}' = {Silences(c, Stall) : c \in chosen}
  BY <1>1
<1> QED BY <1>1, <1>2 DEF Silent

(* The next window joins the last event or becomes one.                    *)
LEMMA NextKeepsMerge ==
  ASSUME RecInv, MergeInv, MergeNext
  PROVE  MergeInv'
<1>1. PICK w \in windows : /\ \A v \in windows : ~Earlier(v, w)
                           /\ events' = Merged(events, w) /\ windows' = windows \ {w}
  BY DEF MergeNext
<1>2. Silent' = Silent /\ chosen' = chosen /\ report' = report
  BY SameSilent DEF MergeNext
<1>3. Silent \in SUBSET EventType /\ \A v \in Silent : v.from < v.to
  BY SilentAre DEF MergeInv
<1>4. w \in Silent /\ windows \in SUBSET Silent
  BY <1>1 DEF MergeInv
<1>5. /\ Apart(Merged(events, w)) /\ Hold(Merged(events, w), (Silent \ windows) \cup {w})
      /\ Covered(Merged(events, w), Silent)
      /\ \A i \in DOMAIN Merged(events, w) : Merged(events, w)[i].from <= w.from
  <2>1. /\ Apart(events) /\ Hold(events, Silent \ windows) /\ Covered(events, Silent)
        /\ \A i \in DOMAIN events : events[i].from <= w.from
    BY <1>1 DEF MergeInv, NoneLater
  <2>2. Silent \ windows \in SUBSET Silent
    OBVIOUS
  <2>3. w \in Silent /\ w.from < w.to
    BY <1>3, <1>4
  <2> HIDE DEF Silent
  <2> QED BY <1>3, <2>1, <2>2, <2>3, MergeKeeps
<1>6. (Silent \ windows) \cup {w} = Silent' \ windows'
  BY <1>1, <1>2, <1>4
<1>7. NoneLater(events', windows')
  <2> SUFFICES ASSUME NEW i \in DOMAIN events', NEW v \in windows'
               PROVE  events'[i].from <= v.from
    BY DEF NoneLater
  <2>1. w.from \in Nat /\ v.from \in Nat /\ v \in windows
    BY <1>1, <1>3, <1>4 DEF EventType
  <2>2. w.from <= v.from
    BY <1>1, <2>1 DEF Earlier
  <2>3. events'[i].from <= w.from
    BY <1>1, <1>5
  <2>4. events'[i].from \in Nat
    <3>1. events' \in Seq(EventType)
      BY <1>1, <1>5 DEF Apart
    <3>2. events'[i] \in EventType
      BY <3>1, ElementOfSeq, LenProperties
    <3> QED BY <3>2 DEF EventType
  <2> QED BY <2>1, <2>2, <2>3, <2>4
<1>8. /\ Apart(events') /\ Hold(events', Silent' \ windows') /\ Covered(events', Silent')
  BY <1>1, <1>2, <1>5, <1>6
<1>9. chosen # {} /\ ~Reported'
  <2>1. chosen # {}
    BY <1>4 DEF Silent
  <2> QED BY <1>1, <1>2, <2>1 DEF MergeInv, Reported
<1>10. windows' \in SUBSET Silent' /\ chosen' \in SUBSET Buses
  BY <1>1, <1>2 DEF MergeInv
<1> QED BY <1>2, <1>7, <1>8, <1>9, <1>10 DEF MergeInv, Apart, Hold, Holds, Covered, Covers, NoneLater, EventType, Buses

(* Every step keeps the merge so.                                          *)
LEMMA MergeNextInv == RecInv /\ MergeInv /\ [AscNext]_ascVars => MergeInv'
<1> SUFFICES ASSUME RecInv, MergeInv, [AscNext]_ascVars PROVE MergeInv'
  OBVIOUS
<1>1. CASE \E H \in SUBSET Buses, L \in SUBSET Ids : Tick(H, L)
  BY <1>1, TickKeepsMerge
<1>2. CASE \E chs \in {Buses} \cup {{c} : c \in Buses} : Begins(chs)
  BY <1>2, BeginsKeepsMerge
<1>3. CASE MergeNext
  BY <1>3, NextKeepsMerge
<1>4. CASE Reports
  <2>1. UNCHANGED <<recording, chosen>> /\ UNCHANGED <<windows, events>>
    BY <1>4 DEF Reports
  <2>2. chosen # {} /\ windows = {}
    BY <1>4 DEF Reports
  <2>3. Silent' = Silent
    BY <2>1, SameSilent
  <2> QED BY <2>1, <2>2, <2>3 DEF MergeInv, Apart, Hold, Holds, Covered, Covers, NoneLater, EventType, Buses
<1>5. CASE UNCHANGED ascVars
  <2>1. UNCHANGED <<recording, chosen>> /\ UNCHANGED <<windows, events, report>>
    BY <1>5 DEF ascVars
  <2>3. Silent' = Silent
    BY <2>1, SameSilent
  <2> QED BY <2>1, <2>3 DEF MergeInv, Apart, Hold, Holds, Covered, Covers, NoneLater, EventType, Buses, Reported
<1> QED BY <1>1, <1>2, <1>3, <1>4, <1>5 DEF AscNext

(* The merge is always so.                                                 *)
LEMMA AlwaysMerge == AscSpec => []MergeInv
<1>1. RecInv /\ MergeInv /\ [AscNext]_ascVars => MergeInv'
  BY MergeNextInv
<1> QED BY <1>1, MergeInit, AlwaysRec, PTL DEF AscSpec

(* When no window is left, the events tell of all silences.                *)
LEMMA ToldSilences == RecInv /\ MergeInv => SilencesTold
<1> SUFFICES ASSUME RecInv, MergeInv, Reported
             PROVE  /\ \A i, j \in DOMAIN events : i < j => events[i].to < events[j].from
                    /\ \A c \in chosen : \A w \in Silences(c, Stall) :
                         \E e \in Events : e.from <= w.from /\ w.to <= e.to /\ c \in e.chans
                    /\ \A e \in Events : \A t \in e.from..e.to - 1 :
                         \E c \in e.chans : \E w \in Silences(c, Stall) :
                           /\ w.from <= t /\ t < w.to
                           /\ e.from <= w.from /\ w.to <= e.to
  BY DEF SilencesTold
<1>1. windows = {} /\ Apart(events) /\ Hold(events, Silent) /\ Covered(events, Silent)
  <2>1. windows = {}
    BY DEF MergeInv
  <2>2. Silent \ windows = Silent
    BY <2>1
  <2> QED BY <2>1, <2>2 DEF MergeInv
<1>2. \A c \in chosen : \A w \in Silences(c, Stall) :
        \E e \in Events : e.from <= w.from /\ w.to <= e.to /\ c \in e.chans
  <2> TAKE c \in chosen
  <2> TAKE w \in Silences(c, Stall)
  <2>1. w \in Silent
    BY DEF Silent
  <2>2. PICK i \in DOMAIN events : Holds(events[i], w)
    BY <1>1, <2>1 DEF Hold
  <2>3. w.chans = {c}
    BY SilenceType
  <2> QED BY <2>2, <2>3 DEF Holds, Events
<1>3. \A e \in Events : \A t \in e.from..e.to - 1 :
        \E c \in e.chans : \E w \in Silences(c, Stall) :
          /\ w.from <= t /\ t < w.to
          /\ e.from <= w.from /\ w.to <= e.to
  <2> TAKE e \in Events
  <2> TAKE t \in e.from..e.to - 1
  <2>1. Covers(e, t, Silent)
    BY <1>1 DEF Events, Covered
  <2>2. PICK w \in Silent : /\ w.chans \subseteq e.chans /\ w.from <= t /\ t < w.to
                            /\ e.from <= w.from /\ w.to <= e.to
    BY <2>1 DEF Covers
  <2>3. PICK c \in chosen : w \in Silences(c, Stall)
    BY DEF Silent
  <2>4. c \in e.chans
    BY <2>2, <2>3, SilenceType
  <2> QED BY <2>2, <2>3, <2>4
<1> QED BY <1>1, <1>2, <1>3 DEF Apart

(* The events of a report are apart, hold each silence of a channel looked *)
(* at, and at every moment of one of them a channel that it names was      *)
(* silent (analyze_can_asc.py:103-137), for any identifiers, losses and    *)
(* halts.                                                                  *)
THEOREM SilencesAreTold == AscSpec => []SilencesTold
BY AlwaysRec, AlwaysMerge, ToldSilences, PTL

(* The report as it is made: an anomaly for each gap that is one.          *)
ReportInv ==
  Reported =>
    /\ report.periodic = Periodic(chosen)
    /\ \A a \in report.anomalies :
         /\ a.key \in Periodic(chosen) /\ a.at \in 1..Len(series[a.key]) - 1
         /\ Cause(a.key, a.at) = "anomaly" /\ a.missed = Missed(a.key, a.at)
    /\ \A k \in Periodic(chosen) : \A j \in 1..Len(series[k]) - 1 :
         Cause(k, j) = "anomaly" => [key |-> k, at |-> j, missed |-> Missed(k, j)] \in report.anomalies

(* The report is made so, and stands.                                      *)
LEMMA ReportNext == MergeInv /\ ReportInv /\ [AscNext]_ascVars => ReportInv'
<1> SUFFICES ASSUME MergeInv, ReportInv, [AscNext]_ascVars PROVE ReportInv'
  OBVIOUS
<1>1. CASE Reports
  <2> DEFINE gaps == UNION {{k} \X (1..Len(series[k]) - 1) : k \in Periodic(chosen)}
             of(cause) == {g \in gaps : Cause(g[1], g[2]) = cause}
  <2>1. /\ report'.periodic = Periodic(chosen)
        /\ report'.anomalies = {[key |-> g[1], at |-> g[2], missed |-> Missed(g[1], g[2])] : g \in of("anomaly")}
    BY <1>1 DEF Reports
  <2>2. /\ series' = series /\ chosen' = chosen /\ events' = events
    BY <1>1 DEF Reports, recording
  <2>3. Periodic(chosen)' = Periodic(chosen)
    BY <2>2 DEF Periodic, Seen, HasMedian, TwiceMedian, Gaps, Nth, Duration, First, Stamps, Times
  <2>4. \A k, j : Cause(k, j)' = Cause(k, j) /\ Missed(k, j)' = Missed(k, j)
    BY <2>2 DEF Cause, Missed, Oversized, TwiceMedian, Gaps, Nth, MostlyInside, Events
  <2>5. \A a \in report'.anomalies :
          /\ a.key \in Periodic(chosen) /\ a.at \in 1..Len(series[a.key]) - 1
          /\ Cause(a.key, a.at) = "anomaly" /\ a.missed = Missed(a.key, a.at)
    <3> TAKE a \in report'.anomalies
    <3>1. PICK g \in of("anomaly") : a = [key |-> g[1], at |-> g[2], missed |-> Missed(g[1], g[2])]
      BY <2>1
    <3>2. PICK k \in Periodic(chosen) : g \in {k} \X (1..Len(series[k]) - 1)
      OBVIOUS
    <3>3. a.key = k /\ a.at = g[2] /\ g[1] = k /\ g[2] \in 1..Len(series[k]) - 1 /\ a.missed = Missed(g[1], g[2])
      BY <3>1, <3>2
    <3> QED BY <3>2, <3>3
  <2>6. \A k \in Periodic(chosen) : \A j \in 1..Len(series[k]) - 1 :
          Cause(k, j) = "anomaly" => [key |-> k, at |-> j, missed |-> Missed(k, j)] \in report'.anomalies
    <3> SUFFICES ASSUME NEW k \in Periodic(chosen), NEW j \in 1..Len(series[k]) - 1, Cause(k, j) = "anomaly"
                 PROVE  [key |-> k, at |-> j, missed |-> Missed(k, j)] \in report'.anomalies
      OBVIOUS
    <3> DEFINE g == <<k, j>>
    <3>1. g \in of("anomaly") /\ g[1] = k /\ g[2] = j
      OBVIOUS
    <3> QED BY <2>1, <3>1
  <2> HIDE DEF gaps, of
  <2> QED BY <2>1, <2>2, <2>3, <2>4, <2>5, <2>6 DEF ReportInv
<1>2. CASE ~Reports
  <2>1. CASE Reported'
    <3>1. CASE UNCHANGED ascVars
      <4>1. /\ series' = series /\ chosen' = chosen /\ events' = events /\ report' = report
        BY <3>1 DEF ascVars, recording
      <4>2. Periodic(chosen)' = Periodic(chosen)
        BY <4>1 DEF Periodic, Seen, HasMedian, TwiceMedian, Gaps, Nth, Duration, First, Stamps, Times
      <4>3. \A k, j : Cause(k, j)' = Cause(k, j) /\ Missed(k, j)' = Missed(k, j)
        BY <4>1 DEF Cause, Missed, Oversized, TwiceMedian, Gaps, Nth, MostlyInside, Events
      <4> QED BY <4>1, <4>2, <4>3 DEF ReportInv, Reported
    <3>2. ASSUME NEW H, NEW L, Tick(H, L) PROVE FALSE
      BY <2>1, <3>2 DEF Tick, Reported, NoReport
    <3>3. ASSUME NEW chs, Begins(chs) PROVE FALSE
      <4>1. CASE report' = NoReport
        BY <2>1, <4>1 DEF Reported, NoReport
      <4>2. CASE report' # NoReport
        <5>1. report'.kind = IF Seen(chs) = {} THEN "no frames" ELSE "crashed"
          BY <3>3, <4>2 DEF Begins
        <5> QED BY <2>1, <5>1 DEF Reported
      <4> QED BY <4>1, <4>2
    <3>4. CASE MergeNext
      <4>1. windows # {} /\ report' = report
        BY <3>4 DEF MergeNext
      <4> QED BY <2>1, <4>1 DEF MergeInv, Reported
    <3> QED BY <1>2, <3>1, <3>2, <3>3, <3>4 DEF AscNext
  <2> QED BY <2>1 DEF ReportInv
<1> QED BY <1>1, <1>2

(* The report is always so.                                                *)
LEMMA AlwaysReport == AscSpec => []ReportInv
<1>1. AscInit => ReportInv
  BY DEF AscInit, NoReport, ReportInv, Reported
<1>2. MergeInv /\ ReportInv /\ [AscNext]_ascVars => ReportInv'
  BY ReportNext
<1> QED BY <1>1, <1>2, AlwaysMerge, PTL DEF AscSpec

-----------------------------------------------------------------------------
(* The times of the frames of one identifier.                              *)
LEMMA FrameTimes ==
  ASSUME RecInv, NEW k \in Ids, NEW j \in 1..Len(series[k]) - 1
  PROVE  /\ Len(series[k]) \in Nat /\ DOMAIN series[k] = 1..Len(series[k])
         /\ j \in DOMAIN series[k] /\ j + 1 \in DOMAIN series[k]
         /\ series[k][j] \in Came(k) /\ series[k][j + 1] \in Came(k)
         /\ series[k][j] \in Nat /\ series[k][j + 1] \in Nat
         /\ series[k][j] < series[k][j + 1] /\ series[k][j + 1] <= Horizon
         /\ Gaps(series[k])[j] = series[k][j + 1] - series[k][j]
         /\ \A t \in Times(k) : t <= series[k][j] \/ series[k][j + 1] <= t
<1> DEFINE s == series[k]
<1>1. s \in Seq(Nat) /\ InOrderOf(s) /\ Times(k) = Came(k)
  BY DEF RecInv
<1>2. Len(s) \in Nat /\ DOMAIN s = 1..Len(s) /\ j \in DOMAIN s /\ j + 1 \in DOMAIN s
  <2>1. Len(s) \in Nat /\ DOMAIN s = 1..Len(s)
    BY <1>1, LenProperties
  <2> QED BY <2>1
<1>3. s[j] \in Came(k) /\ s[j + 1] \in Came(k)
  BY <1>1, <1>2 DEF Times
<1>4. clock \in Nat /\ clock <= Horizon + 1 /\ Horizon \in Nat
  BY CanAscAssumption DEF RecInv
<1>5. s[j] \in Nat /\ s[j + 1] \in Nat /\ s[j + 1] <= Horizon
  BY <1>3, <1>4 DEF Came
<1>6. s[j] < s[j + 1]
  BY <1>1, <1>2 DEF InOrderOf
<1>7. \A t \in Times(k) : t <= s[j] \/ s[j + 1] <= t
  <2> SUFFICES ASSUME NEW i \in DOMAIN s PROVE s[i] <= s[j] \/ s[j + 1] <= s[i]
    BY DEF Times
  <2>1. s[i] \in Nat
    BY <1>1, <1>2, ElementOfSeq
  <2>2. i < j \/ i = j \/ i = j + 1 \/ j + 1 < i
    BY <1>2
  <2>3. \A p, q \in DOMAIN s : p < q => s[p] < s[q]
    BY <1>1 DEF InOrderOf
  <2> HIDE DEF s
  <2>4. CASE i < j
    BY <1>2, <1>5, <2>1, <2>3, <2>4
  <2>5. CASE j + 1 < i
    BY <1>2, <1>5, <2>1, <2>3, <2>5
  <2> QED BY <1>5, <2>2, <2>4, <2>5
<1>8. Gaps(s)[j] = s[j + 1] - s[j]
  BY DEF Gaps
<1> HIDE DEF s
<1> QED BY <1>2, <1>3, <1>5, <1>6, <1>7, <1>8 DEF s

(* A periodic identifier has been seen on a channel looked at.             *)
LEMMA PeriodicSeen ==
  ASSUME NEW k \in Periodic(chosen)
  PROVE  k \in Ids /\ k.ch \in chosen
BY DEF Periodic, Seen

(* A gap that lies in an event altogether is no anomaly.                   *)
LEMMA InsideExplained ==
  ASSUME RecInv, NEW k \in Ids, NEW j \in 1..Len(series[k]) - 1,
         NEW e \in Events, e.from \in Nat, e.to \in Nat,
         e.from <= series[k][j], series[k][j + 1] <= e.to
  PROVE  Cause(k, j) # "anomaly"
<1> DEFINE a == series[k][j]
           b == series[k][j + 1]
<1>1. a \in Nat /\ b \in Nat /\ a < b
  BY FrameTimes
<1>2. Min({b, e.to}) = b /\ Max({a, e.from}) = a
  <2>1. /\ Min({b, e.to}) \in {b, e.to} /\ Min({b, e.to}) <= b /\ Min({b, e.to}) <= e.to
        /\ Max({a, e.from}) \in {a, e.from} /\ Max({a, e.from}) >= a /\ Max({a, e.from}) >= e.from
    <3>1. a \in Int /\ b \in Int /\ e.from \in Int /\ e.to \in Int
      BY <1>1
    <3> HIDE DEF a, b
    <3> QED BY <3>1, MaxOfTwo
  <2> QED BY <1>1, <2>1
<1>3. 2 * (b - a) >= b - a /\ b - a > 0
  BY <1>1
<1>4. MostlyInside(Events, a, b)
  BY <1>1, <1>2, <1>3 DEF MostlyInside
<1> QED BY <1>4 DEF Cause

(* A gap of at least Stall without a frame of the channel is a silence.    *)
LEMMA GapIsSilence ==
  ASSUME RecInv, NEW k \in Ids, NEW j \in 1..Len(series[k]) - 1,
         Gaps(series[k])[j] >= Stall,
         \A l \in Ids \ {k} : l.ch = k.ch => Times(l) \cap Between(k, j) = {}
  PROVE  [from |-> series[k][j], to |-> series[k][j + 1], chans |-> {k.ch}] \in Silences(k.ch, Stall)
<1> DEFINE a == series[k][j]
           b == series[k][j + 1]
           stamps == Stamps({l \in Ids : l.ch = k.ch})
           w == [from |-> a, to |-> b, chans |-> {k.ch}]
<1>1. /\ a \in Nat /\ b \in Nat /\ a < b /\ b - a >= Stall
      /\ a \in Times(k) /\ b \in Times(k)
      /\ \A t \in Times(k) : t <= a \/ b <= t
  <2>1. a \in Times(k) /\ b \in Times(k)
    BY FrameTimes DEF Times
  <2> QED BY <2>1, FrameTimes
<1>2. a \in stamps /\ b \in stamps
  BY <1>1 DEF Stamps
<1>3. \A t \in stamps : ~(a < t /\ t < b)
  <2> SUFFICES ASSUME NEW l \in Ids, l.ch = k.ch, NEW t \in Times(l), a < t, t < b
               PROVE  FALSE
    BY DEF Stamps
  <2>1. t \in 0..clock - 1 /\ clock \in Nat /\ clock <= Horizon + 1 /\ Horizon \in Nat
    BY CanAscAssumption DEF RecInv, Came
  <2>2. t \in Between(k, j)
    BY <2>1 DEF Between
  <2>3. CASE l = k
    BY <1>1, <2>1, <2>3
  <2>4. CASE l # k
    BY <2>2, <2>4
  <2> QED BY <2>3, <2>4
<1> HIDE DEF stamps
<1>4. w \in [from : stamps, to : stamps, chans : {{k.ch}}] /\ w.from = a /\ w.to = b
  BY <1>2
<1> HIDE DEF a, b, w
<1>5. w \in {v \in [from : stamps, to : stamps, chans : {{k.ch}}] :
               v.to - v.from >= Stall /\ \A t \in stamps : ~(v.from < t /\ t < v.to)}
  BY <1>1, <1>3, <1>4
<1>6. w \in Silences(k.ch, Stall)
  BY <1>5 DEF Silences, stamps
<1> QED BY <1>6 DEF w, a, b

(* Multiplying keeps the order.                                            *)
LEMMA Stretched == ASSUME NEW a \in Int, NEW b \in Int, NEW p \in Nat \ {0} PROVE a < b <=> a * p < b * p
OBVIOUS

(* A multiple divides without a remainder.                                 *)
LEMMA Whole == ASSUME NEW q \in Nat, NEW d \in Nat \ {0} PROVE (q * d) \div d = q /\ (q * d) % d = 0
OBVIOUS

(* And what divides without a remainder is a multiple.                     *)
LEMMA Divided ==
  ASSUME NEW a \in Nat, NEW d \in Nat \ {0}, a % d = 0
  PROVE  a = (a \div d) * d /\ a \div d \in Nat
OBVIOUS

(* A frame is due every period from its phase.                             *)
LEMMA DueForm ==
  ASSUME NEW k \in Ids, NEW t \in Nat
  PROVE  Due(k, t) <=> \E m \in Nat : t = k.phase + m * k.period
<1> DEFINE p == k.period
           h == k.phase
<1>1. p \in Nat \ {0} /\ h \in Nat
  BY IdFields
<1>2. ASSUME Due(k, t) PROVE \E m \in Nat : t = h + m * p
  <2>1. t - h \in Nat /\ (t - h) % p = 0
    BY <1>1, <1>2 DEF Due
  <2> DEFINE m == (t - h) \div p
  <2> HIDE DEF p, h
  <2>2. t - h = m * p /\ m \in Nat
    BY <1>1, <2>1, Divided
  <2> HIDE DEF m
  <2>3. m * p \in Nat
    BY <1>1, <2>2
  <2>4. t = h + m * p
    BY <1>1, <2>2, <2>3
  <2> QED BY <2>2, <2>4
<1>3. ASSUME NEW m \in Nat, t = h + m * p PROVE Due(k, t)
  <2> HIDE DEF p, h
  <2>1. m * p \in Nat /\ (m * p) % p = 0
    BY <1>1, Whole
  <2>2. t - h = m * p /\ t >= h
    BY <1>1, <1>3, <2>1
  <2> QED BY <2>1, <2>2 DEF Due, p, h
<1> QED BY <1>2, <1>3

(* Between two times at which a frame is due lie as many others as there   *)
(* are periods between them, less one.                                     *)
LEMMA DueBetween ==
  ASSUME NEW k \in Ids, NEW a \in Nat, NEW b \in Nat, Due(k, a), Due(k, b), a < b, b <= Horizon
  PROVE  \E q \in Nat \ {0} :
           /\ b - a = q * k.period
           /\ IsFiniteSet({t \in 0..Horizon : a < t /\ t < b /\ Due(k, t)})
           /\ Cardinality({t \in 0..Horizon : a < t /\ t < b /\ Due(k, t)}) = q - 1
<1> DEFINE p == k.period
           h == k.phase
           S == {t \in 0..Horizon : a < t /\ t < b /\ Due(k, t)}
<1>1. p \in Nat \ {0} /\ h \in Nat /\ Horizon \in Nat
  BY IdFields, CanAscAssumption
<1>2. PICK x \in Nat : a = h + x * p
  BY DueForm
<1>3. PICK y \in Nat : b = h + y * p
  BY DueForm
<1>4. \A t \in Nat : Due(k, t) <=> \E m \in Nat : t = h + m * p
  BY DueForm
<1> HIDE DEF p, h
<1>5. \A m \in Nat : m * p \in Nat
  BY <1>1
<1>6. \A m, n \in Nat : m < n <=> h + m * p < h + n * p
  <2> TAKE m, n \in Nat
  <2>1. m < n <=> m * p < n * p
    BY <1>1, Stretched
  <2> QED BY <1>1, <1>5, <2>1
<1>7. x < y
  BY <1>2, <1>3, <1>6
<1> DEFINE q == y - x
           D == x + 1..y - 1
           f == [m \in D |-> h + m * p]
<1>8. q \in Nat \ {0} /\ b - a = q * p
  <2>1. q \in Nat \ {0}
    BY <1>7
  <2>2. (y - x) * p = y * p - x * p
    BY <1>1
  <2> QED BY <1>1, <1>2, <1>3, <1>5, <2>1, <2>2
<1>9. IsFiniteSet(D) /\ Cardinality(D) = q - 1
  <2>1. IsFiniteSet(D) /\ Cardinality(D) = IF x + 1 > y - 1 THEN 0 ELSE (y - 1) - (x + 1) + 1
    <3>1. x + 1 \in Int /\ y - 1 \in Int
      OBVIOUS
    <3> QED BY <3>1, FS_Interval
  <2>2. x \in Int /\ y \in Int /\ x < y
    BY <1>7
  <2> QED BY <2>1, <2>2
<1>10. \A m \in D : m \in Nat /\ x < m /\ m < y
  OBVIOUS
<1>11. f \in [D -> S]
  <2> SUFFICES ASSUME NEW m \in D PROVE h + m * p \in S
    OBVIOUS
  <2>1. m \in Nat /\ x < m /\ m < y
    BY <1>10
  <2>2. h + m * p \in Nat
    BY <1>1, <1>5, <2>1
  <2>3. a < h + m * p /\ h + m * p < b
    BY <1>2, <1>3, <1>6, <2>1
  <2>4. h + m * p \in 0..Horizon
    BY <1>1, <2>2, <2>3
  <2> QED BY <1>4, <2>1, <2>2, <2>3, <2>4
<1>12. \A m, n \in D : f[m] = f[n] => m = n
  <2> SUFFICES ASSUME NEW m \in D, NEW n \in D, h + m * p = h + n * p PROVE m = n
    OBVIOUS
  <2>1. m \in Nat /\ n \in Nat /\ ~(m < n) /\ ~(n < m)
    BY <1>1, <1>5, <1>6, <1>10
  <2> QED BY <2>1
<1>13. \A t \in S : \E m \in D : f[m] = t
  <2> TAKE t \in S
  <2>1. t \in Nat /\ a < t /\ t < b /\ Due(k, t)
    BY <1>1
  <2>2. PICK m \in Nat : t = h + m * p
    BY <1>4, <2>1
  <2>3. x < m /\ m < y
    BY <1>2, <1>3, <1>6, <2>1, <2>2
  <2>4. m \in D
    BY <2>3
  <2> QED BY <2>2, <2>4
<1> HIDE DEF S, D, f
<1>14. IsFiniteSet(S) /\ Cardinality(S) = q - 1
  BY <1>9, <1>11, <1>12, <1>13, SameSize
<1> QED BY <1>8, <1>14 DEF S, p

(* A gap of whole periods is said to miss one frame fewer.                 *)
LEMMA MissedWhole ==
  ASSUME NEW k \in Ids, NEW j, NEW q \in Nat \ {0}, Gaps(series[k])[j] = q * k.period,
         TwiceMedian(series[k]) = 2 * k.period
  PROVE  Missed(k, j) = q - 1
<1> DEFINE n == 2 * Gaps(series[k])[j]
           d == TwiceMedian(series[k])
<1>1. k.period \in Nat \ {0}
  BY IdFields
<1>2. d \in Nat \ {0} /\ n = q * d
  BY <1>1
<1> HIDE DEF n, d
<1>3. n \div d = q /\ n % d = 0
  BY <1>2, Whole
<1>4. ~(2 * (n % d) > d) /\ ~(2 * (n % d) = d)
  BY <1>2, <1>3
<1>5. Max({0, q - 1}) = q - 1
  <2>1. q - 1 \in Int /\ 0 \in Int /\ q - 1 >= 0
    OBVIOUS
  <2>2. Max({0, q - 1}) \in {0, q - 1} /\ Max({0, q - 1}) >= q - 1
    BY <2>1, MaxOfTwo
  <2> QED BY <2>1, <2>2
<1>6. Missed(k, j) = Max({0, (n \div d) - 1})
  BY <1>4 DEF Missed, n, d
<1> QED BY <1>3, <1>5, <1>6

(* A gap is a number of periods, with one frame fewer due in it.           *)
LEMMA GapDue ==
  ASSUME RecInv, NEW k \in Ids, NEW j \in 1..Len(series[k]) - 1
  PROVE  \E q \in Nat \ {0} :
           /\ Gaps(series[k])[j] = q * k.period
           /\ IsFiniteSet({t \in Between(k, j) : Due(k, t)})
           /\ Cardinality({t \in Between(k, j) : Due(k, t)}) = q - 1
<1> DEFINE a == series[k][j]
           b == series[k][j + 1]
<1>1. a \in Nat /\ b \in Nat /\ a < b /\ b <= Horizon /\ Gaps(series[k])[j] = b - a
      /\ a \in Came(k) /\ b \in Came(k)
  BY FrameTimes
<1>2. Due(k, a) /\ Due(k, b)
  BY <1>1 DEF Came
<1>3. {t \in Between(k, j) : Due(k, t)} = {t \in 0..Horizon : a < t /\ t < b /\ Due(k, t)}
  BY DEF Between
<1> DEFINE S == {t \in 0..Horizon : a < t /\ t < b /\ Due(k, t)}
<1>4. \E q \in Nat \ {0} : /\ b - a = q * k.period
                           /\ IsFiniteSet(S) /\ Cardinality(S) = q - 1
  <2> HIDE DEF a, b
  <2> QED BY <1>1, <1>2, DueBetween
<1>5. {t \in Between(k, j) : Due(k, t)} = S
  BY <1>3
<1> HIDE DEF S, a, b
<1> QED BY <1>1, <1>4, <1>5

(* A gap reported as lost frames is a loss.                                *)
LEMMA RealLoss == RecInv /\ MergeInv /\ ReportInv => LossIsReal
<1> SUFFICES ASSUME RecInv, MergeInv, ReportInv, Reported, NEW n \in report.anomalies
             PROVE  /\ Gaps(series[n.key])[n.at] >= Stall =>
                         \E k \in Ids \ {n.key} : k.ch = n.key.ch /\ Times(k) \cap Between(n.key, n.at) # {}
                    /\ TwiceMedian(series[n.key]) = 2 * n.key.period =>
                         n.missed = Cardinality({t \in Between(n.key, n.at) : Due(n.key, t)})
  BY DEF LossIsReal
<1> DEFINE k == n.key
           j == n.at
<1>1. /\ k \in Periodic(chosen) /\ j \in 1..Len(series[k]) - 1
      /\ Cause(k, j) = "anomaly" /\ n.missed = Missed(k, j)
  BY DEF ReportInv
<1>2. k \in Ids /\ k.ch \in chosen
  BY <1>1, PeriodicSeen
<1> HIDE DEF k, j
<1>3. ASSUME Gaps(series[k])[j] >= Stall,
             \A l \in Ids \ {k} : l.ch = k.ch => Times(l) \cap Between(k, j) = {}
      PROVE  FALSE
  <2> DEFINE w == [from |-> series[k][j], to |-> series[k][j + 1], chans |-> {k.ch}]
  <2>1. w \in Silences(k.ch, Stall)
    BY <1>1, <1>2, <1>3, GapIsSilence
  <2>2. PICK e \in Events : e.from <= w.from /\ w.to <= e.to
    BY <1>2, <2>1, ToldSilences DEF SilencesTold
  <2>3. e.from \in Nat /\ e.to \in Nat
    <3>1. events \in Seq(EventType)
      BY DEF MergeInv, Apart
    <3>2. e \in EventType
      BY <3>1, ElementOfSeq, LenProperties DEF Events
    <3> QED BY <3>2 DEF EventType
  <2> QED BY <1>1, <1>2, <2>2, <2>3, InsideExplained
<1>4. ASSUME TwiceMedian(series[k]) = 2 * k.period
      PROVE  n.missed = Cardinality({t \in Between(k, j) : Due(k, t)})
  <2>1. PICK q \in Nat \ {0} : /\ Gaps(series[k])[j] = q * k.period
                               /\ Cardinality({t \in Between(k, j) : Due(k, t)}) = q - 1
    BY <1>1, <1>2, GapDue
  <2>2. Missed(k, j) = q - 1
    BY <1>2, <1>4, <2>1, MissedWhole
  <2> QED BY <1>1, <2>1, <2>2
<1> QED BY <1>3, <1>4 DEF k, j

(* A long gap that is reported as lost frames is one in which another      *)
(* identifier of the channel transmitted, and the frames said to be missed *)
(* are those that were due in it when the median is the period             *)
(* (analyze_can_asc.py:240-262), for any identifiers, losses and halts.    *)
THEOREM LossesAreReal == AscSpec => []LossIsReal
BY AlwaysRec, AlwaysMerge, AlwaysReport, RealLoss, PTL

(* Some numbers have a least one.                                          *)
LEMMA LeastNat ==
  ASSUME NEW T \in SUBSET Nat, T # {}
  PROVE  \E x \in T : \A y \in T : x <= y
<1> DEFINE R == OpToRel(<, Nat)
<1>1. \A x, y \in Nat : x < y => <<x, y>> \in R
  BY DEF OpToRel
<1>2. IsWellFoundedOn(R, Nat)
  BY NatLessThanWellFounded
<1> HIDE DEF R
<1>3. PICK x \in T : \A y \in T : ~(<<y, x>> \in R)
  BY <1>2, WFMin
<1>4. x \in Nat /\ \A y \in T : y \in Nat /\ ~(y < x)
  BY <1>1, <1>3
<1>5. \A y \in T : x <= y
  BY <1>4
<1> QED BY <1>5

(* A time between the first frame and the last, at which none came, lies   *)
(* in a gap.                                                               *)
LEMMA InAGap ==
  ASSUME NEW s \in Seq(Nat), NEW t \in Nat, Len(s) >= 1, s[1] < t, t < s[Len(s)],
         \A i \in DOMAIN s : s[i] # t
  PROVE  \E j \in 1..Len(s) - 1 : s[j] < t /\ t < s[j + 1]
<1> DEFINE n == Len(s)
           T == {i \in 1..n : t < s[i]}
<1>1. n \in Nat /\ n >= 1 /\ DOMAIN s = 1..n /\ \A i \in 1..n : s[i] \in Nat
  BY LenProperties, ElementOfSeq
<1> HIDE DEF n
<1>2. T \in SUBSET Nat /\ T # {}
  <2>1. n \in T
    BY <1>1 DEF n
  <2> QED BY <2>1
<1>3. PICK i \in T : \A y \in T : i <= y
  BY <1>2, LeastNat
<1>4. i \in 1..n /\ t < s[i] /\ i # 1
  <2>1. 1 \in 1..n /\ s[1] < t /\ s[1] \in Nat
    BY <1>1
  <2> QED BY <1>1, <1>3, <2>1
<1> DEFINE j == i - 1
<1>5. j \in 1..n - 1 /\ j \in 1..n /\ j + 1 = i /\ ~(i <= j)
  BY <1>1, <1>4
<1>6. j \notin T
  BY <1>3, <1>5
<1>7. s[j] < t
  <2>1. ~(t < s[j]) /\ s[j] # t /\ s[j] \in Nat
    BY <1>1, <1>5, <1>6
  <2> QED BY <2>1
<1> QED BY <1>4, <1>5, <1>7 DEF n

(* With no silence there is no event.                                      *)
LEMMA NoSilenceNoEvent ==
  ASSUME MergeInv, \A c \in chosen : Silences(c, Stall) = {}
  PROVE  Events = {}
<1>1. Silent = {}
  BY DEF Silent
<1> SUFFICES ASSUME NEW i \in DOMAIN events PROVE FALSE
  BY DEF Events
<1>2. /\ events[i] \in EventType /\ events[i].from < events[i].to
  <2>1. events \in Seq(EventType) /\ \A e \in DOMAIN events : events[e].from < events[e].to
    BY DEF MergeInv, Apart
  <2> QED BY <2>1, ElementOfSeq, LenProperties
<1>3. events[i].from \in events[i].from..events[i].to - 1
  BY <1>2 DEF EventType
<1>4. Covers(events[i], events[i].from, Silent)
  BY <1>3 DEF MergeInv, Covered
<1> QED BY <1>1, <1>4 DEF Covers

(* The frames lost in a gap are those due in it, unless the channel was    *)
(* halted.                                                                 *)
LEMMA LostInGap ==
  ASSUME RecInv, NEW k \in Ids, NEW j \in 1..Len(series[k]) - 1, \A h \in halted : h[1] # k.ch
  PROVE  Cardinality({m \in lost : m[1] = k /\ m[2] \in Between(k, j)})
           = Cardinality({t \in Between(k, j) : Due(k, t)})
<1> DEFINE S == {t \in Between(k, j) : Due(k, t)}
           T == {m \in lost : m[1] = k /\ m[2] \in Between(k, j)}
           f == [t \in S |-> <<k, t>>]
<1>1. IsFiniteSet(S)
  BY GapDue
<1>2. /\ series[k][j] \in Nat /\ series[k][j + 1] \in Came(k)
      /\ \A t \in Times(k) : t <= series[k][j] \/ series[k][j + 1] <= t
      /\ Times(k) = Came(k)
  BY FrameTimes DEF RecInv
<1>3. f \in [S -> T]
  <2> SUFFICES ASSUME NEW t \in S PROVE <<k, t>> \in lost
    OBVIOUS
  <2>1. t \in Nat /\ series[k][j] < t /\ t < series[k][j + 1] /\ Due(k, t)
    BY CanAscAssumption DEF Between
  <2>2. t \in 0..clock - 1
    BY <1>2, <2>1 DEF Came, RecInv
  <2>3. t \notin Times(k)
    <3>1. series[k][j + 1] \in Nat
      BY <1>2, <2>2 DEF Came, RecInv
    <3>2. ~(t <= series[k][j]) /\ ~(series[k][j + 1] <= t)
      BY <1>2, <2>1, <3>1
    <3> QED BY <1>2, <3>2
  <2>4. <<k.ch, t>> \notin halted
    <3>1. CASE <<k.ch, t>> \in halted
      <4> DEFINE h == <<k.ch, t>>
      <4>1. h \in halted /\ h[1] = k.ch
        BY <3>1
      <4> HIDE DEF h
      <4> QED BY <4>1
    <3> QED BY <3>1
  <2> QED BY <1>2, <2>1, <2>2, <2>3, <2>4 DEF Came
<1>4. \A x, y \in S : f[x] = f[y] => x = y
  OBVIOUS
<1>5. \A m \in T : \E t \in S : f[t] = m
  <2> TAKE m \in T
  <2>1. PICK l \in Ids : \E t \in 0..clock - 1 : m = <<l, t>> /\ Due(l, t)
    BY DEF RecInv
  <2>2. PICK t \in 0..clock - 1 : m = <<l, t>> /\ Due(l, t)
    BY <2>1
  <2>3. l = k /\ t \in S
    BY <2>2
  <2> QED BY <2>2, <2>3
<1> HIDE DEF S, T, f
<1>6. Cardinality(T) = Cardinality(S)
  BY <1>1, <1>3, <1>4, <1>5, SameSize
<1> QED BY <1>6 DEF S, T

(* A lost frame that no silence hides is reported.                         *)
LEMMA ReportedLoss == RecInv /\ MergeInv /\ ReportInv => LossIsReported
<1> SUFFICES ASSUME RecInv, MergeInv, ReportInv, Reported, NEW k \in report.periodic,
                    \A c \in chosen : Silences(c, Stall) = {},
                    \A h \in halted : h[1] # k.ch, TwiceMedian(series[k]) = 2 * k.period,
                    NEW l \in lost, l[1] = k, series[k][1] < l[2], l[2] < LastOf(series[k])
             PROVE  \E a \in report.anomalies :
                      /\ a.key = k /\ l[2] \in Between(k, a.at)
                      /\ a.missed = Cardinality({m \in lost : m[1] = k /\ m[2] \in Between(k, a.at)})
  BY DEF LossIsReported
<1> DEFINE t == l[2]
           p == k.period
<1>1. k \in Periodic(chosen) /\ k \in Ids /\ p \in Nat \ {0}
  BY PeriodicSeen, IdFields DEF ReportInv
<1>2. series[k] \in Seq(Nat) /\ Times(k) = Came(k) /\ Len(series[k]) >= 1
  <2>1. series[k] \in Seq(Nat) /\ Times(k) = Came(k)
    BY <1>1 DEF RecInv
  <2>2. HasMedian(series[k])
    BY <1>1 DEF Periodic
  <2> QED BY <2>1, <2>2, LenProperties DEF HasMedian
<1>3. l = <<k, t>> /\ t \in Nat /\ Due(k, t)
  <2>1. PICK i \in Ids : \E u \in 0..clock - 1 : l = <<i, u>> /\ Due(i, u)
    BY DEF RecInv
  <2>2. PICK u \in 0..clock - 1 : l = <<i, u>> /\ Due(i, u)
    BY <2>1
  <2> QED BY <2>2
<1>4. \A i \in DOMAIN series[k] : series[k][i] # t
  <2>1. t \notin Came(k)
    BY <1>3 DEF Came
  <2> QED BY <1>2, <2>1 DEF Times
<1>5. PICK j \in 1..Len(series[k]) - 1 : series[k][j] < t /\ t < series[k][j + 1]
  <2>1. series[k][1] < t /\ t < series[k][Len(series[k])]
    BY DEF LastOf
  <2> HIDE DEF t
  <2> QED BY <1>2, <1>3, <1>4, <2>1, InAGap
<1> HIDE DEF t
<1>6. t \in Between(k, j)
  <2>1. series[k][j + 1] \in Nat /\ series[k][j + 1] <= Horizon
    BY <1>1, FrameTimes
  <2>2. t \in 0..Horizon
    BY <1>3, <1>5, <2>1, CanAscAssumption
  <2> QED BY <1>5, <2>2 DEF Between
<1>7. PICK q \in Nat \ {0} : /\ Gaps(series[k])[j] = q * p
                             /\ IsFiniteSet({u \in Between(k, j) : Due(k, u)})
                             /\ Cardinality({u \in Between(k, j) : Due(k, u)}) = q - 1
  BY <1>1, GapDue
<1>8. q >= 2
  <2> DEFINE S == {u \in Between(k, j) : Due(k, u)}
  <2>1. t \in S
    BY <1>3, <1>6
  <2>2. Cardinality(S) # 0
    BY <1>7, <2>1, FS_EmptySet
  <2> QED BY <1>7, <2>2
<1>9. Oversized(k, j)
  <2>1. q * p >= 2 * p
    <3>1. CASE q = 2
      BY <1>1, <3>1
    <3>2. CASE q # 2
      <4>1. 2 < q /\ 2 \in Int /\ q \in Int
        BY <1>8, <3>2
      <4>2. 2 * p < q * p
        BY <1>1, <4>1, Stretched
      <4>3. q * p \in Int /\ 2 * p \in Int
        BY <1>1
      <4> QED BY <4>2, <4>3
    <3> QED BY <3>1, <3>2
  <2> DEFINE g == Gaps(series[k])[j]
             d == TwiceMedian(series[k])
  <2>2. g \in Nat /\ g >= 2 * p /\ d = 2 * p
    BY <1>1, <1>7, <2>1
  <2> HIDE DEF g, d
  <2>3. 4 * g > 3 * d
    BY <1>1, <2>2
  <2> QED BY <2>3 DEF Oversized, g, d
<1>10. Cause(k, j) = "anomaly"
  <2>1. Events = {}
    BY NoSilenceNoEvent
  <2> QED BY <1>9, <2>1 DEF Cause, MostlyInside
<1> DEFINE a == [key |-> k, at |-> j, missed |-> Missed(k, j)]
<1>11. a \in report.anomalies
  BY <1>1, <1>10 DEF ReportInv
<1>12. a.key = k /\ a.at = j /\ a.missed = q - 1
  <2>1. Missed(k, j) = q - 1
    BY <1>1, <1>7, MissedWhole
  <2> QED BY <2>1
<1>13. Cardinality({m \in lost : m[1] = k /\ m[2] \in Between(k, j)}) = q - 1
  BY <1>1, <1>7, LostInGap
<1> QED BY <1>6, <1>11, <1>12, <1>13 DEF t

(* With no silence on the channels looked at and no halt of its own, every *)
(* frame that a periodic identifier lost between two that came is counted  *)
(* in an anomaly (analyze_can_asc.py:13-15, 244-262), for any identifiers  *)
(* and losses.                                                             *)
THEOREM LossesAreReported == AscSpec => []LossIsReported
BY AlwaysRec, AlwaysMerge, AlwaysReport, ReportedLoss, PTL
-----------------------------------------------------------------------------
(* The recorder (SevenCapture).                                             *)

USE BoundAssumption, RotateAssumption

(* Leaving the wait loop kills the timer, and the teardown's later steps   *)
(* find every child gone unless a stop cut the wait short.                 *)
FreshInv ==
  /\ pc # "capturing" => timer = "gone"
  /\ pc \in Finishing => stop_requested = "yes" \/ Joined
  /\ pc \in {"opening", "launching"} => rotate_requested = "no" /\ Joined

(* Work and processes belong to a session that was opened; a rotation is   *)
(* requested only when a further session fits the bound; only one of the   *)
(* two flags leads to the teardown; and it takes the fault to leave a      *)
(* command behind.                                                         *)
BoundInv ==
  /\ session = 0 => pc \in {"exited", "opening"} /\ AllReaped
  /\ late # {} => "straggler" \in Faults
  /\ session = MaxSession => pc # "opening"
  /\ session = MaxSession /\ pc # "exited" => rotate_requested = "no"
  /\ pc \in Teardown => "yes" \in {stop_requested, rotate_requested}

IInv == TypeOK /\ FreshInv /\ BoundInv

LEMMA InitInv == Init => IInv
  BY DEF Init, IInv, TypeOK, FreshInv, BoundInv, Sessions, Joined, AllReaped, Teardown, Finishing

(* The invariant through each kind of step.                                *)
LEMMA OrchestratorInv == IInv /\ Orchestrator => IInv'
<1> SUFFICES ASSUME IInv, Orchestrator PROVE IInv'
  OBVIOUS
<1> USE DEF IInv, TypeOK, FreshInv, BoundInv, Joined, AllReaped, Teardown, Finishing, Sessions,
            files, children, flags
<1>1. CASE OpenSession  BY <1>1 DEF OpenSession, ExitFailed
<1>2. CASE Launch  BY <1>2 DEF Launch
<1>3. CASE LeaveWaitLoop  BY <1>3 DEF LeaveWaitLoop
<1>4. CASE SignalChildren  BY <1>4 DEF SignalChildren
<1>5. CASE Join  BY <1>5 DEF Join
<1>6. CASE LogOff  BY <1>6 DEF LogOff
<1>7. CASE CopyRing  BY <1>7 DEF CopyRing
<1>8. CASE TakeTime  BY <1>8 DEF TakeTime
<1>9. CASE TrimManifest  BY <1>9 DEF TrimManifest
<1>10. CASE AppendManifest  BY <1>10 DEF AppendManifest
<1>11. CASE Decide  BY <1>11 DEF Decide
<1> QED
  BY <1>1, <1>2, <1>3, <1>4, <1>5, <1>6, <1>7, <1>8, <1>9, <1>10, <1>11 DEF Orchestrator

LEMMA SystemdInv == IInv /\ Systemd => IInv'
<1> SUFFICES ASSUME IInv, Systemd PROVE IInv'
  OBVIOUS
<1> USE DEF IInv, TypeOK, FreshInv, BoundInv, Joined, AllReaped, Teardown, Finishing, Sessions,
            files, children, flags
<1>1. CASE StartUnit  BY <1>1 DEF StartUnit
<1>2. CASE RequestStop
  <2>1. CASE pc # "joining" /\ UNCHANGED <<pc, pcap, logging>>
    BY <1>2, <2>1 DEF RequestStop, InterruptGroup
  <2>2. CASE pc = "opening" /\ pc' = "exited" /\ UNCHANGED <<pcap, logging>>
    BY <1>2, <2>2 DEF RequestStop, InterruptGroup
  <2>3. CASE pc = "joining" /\ pc' = "unlogging" /\ UNCHANGED <<pcap, logging>>
    BY <1>2, <2>3 DEF RequestStop, InterruptGroup
  <2>4. CASE pc = "unlogging" /\ pc' = "copying" /\ logging' \in {0, logging} /\ UNCHANGED pcap
    BY <1>2, <2>4 DEF RequestStop, InterruptGroup
  <2>5. CASE /\ pc = "copying" /\ pc' = "timing" /\ UNCHANGED logging
             /\ pcap' = [pcap EXCEPT ![session] = "partial"]
    BY <1>2, <2>5 DEF RequestStop, InterruptGroup
  <2>6. CASE /\ <<pc, pc'>> \in {<<"timing", "trimming">>, <<"trimming", "appending">>}
             /\ UNCHANGED <<pcap, logging>>
    BY <1>2, <2>6 DEF RequestStop, InterruptGroup
  <2> QED
    BY <1>2, <2>1, <2>2, <2>3, <2>4, <2>5, <2>6 DEF RequestStop, StopEffect
<1>3. CASE CancelRestart  BY <1>3 DEF CancelRestart
<1>4. CASE UnitStopped  BY <1>4 DEF UnitStopped
<1>5. CASE StopTimeout  BY <1>5 DEF StopTimeout, KillEverything
<1>6. CASE OomKill  BY <1>6 DEF OomKill, ExitFailed, InterruptGroup
<1>7. CASE ReapGroup  BY <1>7 DEF ReapGroup, KillEverything
<1>8. CASE PowerLoss  BY <1>8 DEF PowerLoss, KillEverything
<1> QED
  BY <1>1, <1>2, <1>3, <1>4, <1>5, <1>6, <1>7, <1>8 DEF Systemd

LEMMA ChildInv == IInv /\ Child => IInv'
<1> SUFFICES ASSUME IInv, Child PROVE IInv'
  OBVIOUS
<1> USE DEF IInv, TypeOK, FreshInv, BoundInv, Joined, AllReaped, Teardown, Finishing, Sessions,
            files, children, flags
<1>1. CASE TimerFires  BY <1>1 DEF TimerFires
<1>2. CASE RingPoll  BY <1>2 DEF RingPoll
<1>3. CASE RingEnds  BY <1>3 DEF RingEnds
<1>4. CASE ConversionDone  BY <1>4 DEF ConversionDone
<1>5. CASE CandumpDies  BY <1>5 DEF CandumpDies
<1>6. CASE ScreenEnds  BY <1>6 DEF ScreenEnds
<1>7. ASSUME NEW d \in Streams, StreamDies(d) PROVE IInv'
  BY <1>7 DEF StreamDies
<1>8. ASSUME NEW s \in Sessions, NEW d \in Shells \union {"screen"}, LateEnds(s, d)
      PROVE  IInv'
  <2>1. /\ asc' \in [Sessions -> {"incremental", "converted", "mixed"}]
        /\ pcap' \in [Sessions -> {"none", "partial", "early", "copied", "mixed"}]
        /\ logging' \in 0..MaxSession
    BY <1>8 DEF LateEnds
  <2>2. TypeOK'
    BY <1>8, <2>1 DEF LateEnds
  <2>3. (FreshInv /\ BoundInv)'
    BY <1>8 DEF LateEnds
  <2> QED BY <2>2, <2>3
<1> QED  BY <1>1, <1>2, <1>3, <1>4, <1>5, <1>6, <1>7, <1>8 DEF Child

LEMMA Invariance == Spec => []IInv
<1>1. IInv /\ [Next]_vars => IInv'
  <2> SUFFICES ASSUME IInv, [Next]_vars PROVE IInv'
    OBVIOUS
  <2>1. CASE InterfaceToggles
    BY <2>1 DEF InterfaceToggles, IInv, TypeOK, FreshInv, BoundInv, Joined, AllReaped,
       files, children, flags
  <2>2. CASE UNCHANGED vars
    BY <2>2 DEF vars, IInv, TypeOK, FreshInv, BoundInv, Joined, AllReaped,
       files, children, flags
  <2> QED
    BY <2>1, <2>2, OrchestratorInv, SystemdInv, ChildInv DEF Next
<1> QED  BY InitInv, <1>1, PTL DEF Spec

(* Every variable keeps its type, whatever fails.                          *)
THEOREM Typing == Spec => []TypeOK
<1>1. IInv => TypeOK
  BY DEF IInv
<1> QED  BY Invariance, <1>1, PTL

(* No child, timer or rotation request of one session reaches the next,    *)
(* although a signal can cut the teardown's wait short.  Commands that     *)
(* outlive a signalled shell are no children any more and are not meant.   *)
THEOREM SessionsStartFresh == Spec => []FreshSession
<1>1. IInv => FreshSession
  BY DEF IInv, FreshInv, FreshSession
<1> QED  BY Invariance, <1>1, PTL

-----------------------------------------------------------------------------
(***************************************************************************)
(* The stamped session is complete, provided that no stop arrives during a *)
(* teardown, candump does not die by itself and no command of the flush    *)
(* outlives its shell: the join then really waits for the conversion, and  *)
(* the copy comes after it.  Crashes, power loss, timeouts and a late      *)
(* tcpdump are all allowed.                                                *)
(***************************************************************************)

StampInv ==
  /\ \A s \in Sessions : session < s => manifest[s] = "absent"
  /\ asc \in [Sessions -> {"incremental", "converted"}]
  /\ pc \in {"launching", "capturing", "signalling", "joining", "unlogging",
             "copying", "timing", "trimming", "appending"} => manifest[session] # "final"
  /\ pc \in {"capturing", "signalling", "joining"} /\ can_asc = "off" =>
       asc[session] = "converted"
  /\ pc \in {"unlogging", "copying", "timing", "trimming", "appending"} =>
       Joined /\ asc[session] = "converted"
  /\ pc \in {"timing", "trimming", "appending"} => pcap[session] = "copied"
  /\ StampedSessionComplete

LEMMA StampOrchestrator == IInv /\ StampInv /\ Orchestrator => StampInv'
<1> SUFFICES ASSUME IInv, StampInv, Orchestrator PROVE StampInv'
  OBVIOUS
<1> USE DEF IInv, TypeOK, FreshInv, BoundInv, StampInv, StampedSessionComplete,
            Joined, AllReaped, Sessions, files, children, flags
<1>1. CASE OpenSession  BY <1>1 DEF OpenSession, ExitFailed
<1>2. CASE Launch  BY <1>2 DEF Launch
<1>3. CASE LeaveWaitLoop  BY <1>3 DEF LeaveWaitLoop
<1>4. CASE SignalChildren  BY <1>4 DEF SignalChildren
<1>5. CASE Join  BY <1>5 DEF Join
<1>6. CASE LogOff  BY <1>6 DEF LogOff
<1>7. CASE CopyRing  BY <1>7 DEF CopyRing
<1>8. CASE TakeTime  BY <1>8 DEF TakeTime
<1>9. CASE TrimManifest  BY <1>9 DEF TrimManifest
<1>10. CASE AppendManifest  BY <1>10 DEF AppendManifest
<1>11. CASE Decide  BY <1>11 DEF Decide
<1> QED
  BY <1>1, <1>2, <1>3, <1>4, <1>5, <1>6, <1>7, <1>8, <1>9, <1>10, <1>11 DEF Orchestrator

LEMMA StampSystemd ==
  ASSUME IInv, StampInv, Systemd, "stop_in_teardown" \notin Faults
  PROVE  StampInv'
<1> USE DEF IInv, TypeOK, FreshInv, BoundInv, StampInv, StampedSessionComplete,
            Joined, AllReaped, Sessions, files, children, flags
<1>1. CASE StartUnit  BY <1>1 DEF StartUnit
<1>2. CASE RequestStop
  <2>1. pc \notin Teardown
    BY <1>2 DEF RequestStop
  <2>2. CASE UNCHANGED pc
    BY <1>2, <2>1, <2>2 DEF RequestStop, StopEffect, InterruptGroup, Teardown, Finishing
  <2>3. CASE pc' = "exited"
    BY <1>2, <2>1, <2>3 DEF RequestStop, StopEffect, InterruptGroup, Teardown, Finishing
  <2> QED
    BY <1>2, <2>1, <2>2, <2>3 DEF RequestStop, StopEffect, Teardown, Finishing
<1>3. CASE CancelRestart  BY <1>3 DEF CancelRestart
<1>4. CASE UnitStopped  BY <1>4 DEF UnitStopped
<1>5. CASE StopTimeout  BY <1>5 DEF StopTimeout, KillEverything
<1>6. CASE OomKill  BY <1>6 DEF OomKill, ExitFailed, InterruptGroup
<1>7. CASE ReapGroup  BY <1>7 DEF ReapGroup, KillEverything
<1>8. CASE PowerLoss  BY <1>8 DEF PowerLoss, KillEverything
<1> QED
  BY <1>1, <1>2, <1>3, <1>4, <1>5, <1>6, <1>7, <1>8 DEF Systemd

LEMMA StampChild ==
  ASSUME IInv, StampInv, Child, Faults \cap {"candump_dies", "straggler"} = {}
  PROVE  StampInv'
<1> USE DEF IInv, TypeOK, FreshInv, BoundInv, StampInv, StampedSessionComplete,
            Joined, AllReaped, Sessions, files, children, flags
<1>1. CASE TimerFires  BY <1>1 DEF TimerFires
<1>2. CASE RingPoll  BY <1>2 DEF RingPoll
<1>3. CASE RingEnds  BY <1>3 DEF RingEnds
<1>4. CASE ConversionDone  BY <1>4 DEF ConversionDone
<1>5. CASE CandumpDies  BY <1>5 DEF CandumpDies
<1>6. CASE ScreenEnds  BY <1>6 DEF ScreenEnds
<1>7. ASSUME NEW d \in Streams, StreamDies(d) PROVE StampInv'
  BY <1>7 DEF StreamDies
<1>8. ASSUME NEW s \in Sessions, NEW d \in Shells \union {"screen"}, LateEnds(s, d)
      PROVE  StampInv'
  BY <1>8 DEF LateEnds
<1> QED  BY <1>1, <1>2, <1>3, <1>4, <1>5, <1>6, <1>7, <1>8 DEF Child

(* Every manifest with an end time stands for a finished conversion and a  *)
(* copy of a stopped ring (the teardown of run_session).                   *)
THEOREM StampMeansComplete ==
  ASSUME Faults \cap {"stop_in_teardown", "candump_dies", "straggler"} = {}
  PROVE  Spec => []StampedSessionComplete
<1>1. Init => StampInv
  BY DEF Init, StampInv, StampedSessionComplete, Joined, AllReaped, Sessions
<1>2. IInv /\ StampInv /\ [Next]_vars => StampInv'
  <2> SUFFICES ASSUME IInv, StampInv, [Next]_vars PROVE StampInv'
    OBVIOUS
  <2>1. CASE InterfaceToggles
    BY <2>1 DEF InterfaceToggles, StampInv, StampedSessionComplete, Joined, AllReaped,
       files, children, flags
  <2>2. CASE UNCHANGED vars
    BY <2>2 DEF vars, StampInv, StampedSessionComplete, Joined, AllReaped,
       files, children, flags
  <2> QED
    BY <2>1, <2>2, StampOrchestrator, StampSystemd, StampChild DEF Next
<1>3. StampInv => StampedSessionComplete
  BY DEF StampInv
<1> QED  BY Invariance, <1>1, <1>2, <1>3, PTL DEF Spec

-----------------------------------------------------------------------------
(***************************************************************************)
(* Every earlier session carries its end time when nothing is killed and   *)
(* no stop arrives during a teardown: candump may still die, tcpdump come  *)
(* late and commands outlive their shells.  The manifest follows the orchestrator's place,    *)
(* and a place outside a session is reached only from the decision.        *)
(***************************************************************************)
NothingKilled == Faults \subseteq {"late_tcpdump", "candump_dies", "straggler"}

FinalInv ==
  /\ pc \in {"launching", "capturing", "signalling", "joining", "unlogging", "copying",
             "timing", "trimming"} => manifest[session] = "open"
  /\ pc \in {"trimming", "appending"} => end_unix = "known"
  /\ pc = "appending" => manifest[session] = "trimmed"
  /\ pc = "deciding" => manifest[session] = "final"
  /\ EarlierSessionsFinal

LEMMA FinalOrchestrator == IInv /\ FinalInv /\ Orchestrator => FinalInv'
<1> SUFFICES ASSUME IInv, FinalInv, Orchestrator PROVE FinalInv'
  OBVIOUS
<1> USE DEF IInv, TypeOK, BoundInv, FinalInv, EarlierSessionsFinal, Sessions,
            files, children, flags
<1>1. CASE OpenSession  BY <1>1 DEF OpenSession, ExitFailed
<1>2. CASE Launch  BY <1>2 DEF Launch
<1>3. CASE LeaveWaitLoop  BY <1>3 DEF LeaveWaitLoop
<1>4. CASE SignalChildren  BY <1>4 DEF SignalChildren
<1>5. CASE Join  BY <1>5 DEF Join
<1>6. CASE LogOff  BY <1>6 DEF LogOff
<1>7. CASE CopyRing  BY <1>7 DEF CopyRing
<1>8. CASE TakeTime  BY <1>8 DEF TakeTime
<1>9. CASE TrimManifest  BY <1>9 DEF TrimManifest
<1>10. CASE AppendManifest  BY <1>10 DEF AppendManifest
<1>11. CASE Decide  BY <1>11 DEF Decide
<1> QED
  BY <1>1, <1>2, <1>3, <1>4, <1>5, <1>6, <1>7, <1>8, <1>9, <1>10, <1>11 DEF Orchestrator

LEMMA FinalSystemd ==
  ASSUME IInv, FinalInv, Systemd, NothingKilled
  PROVE  FinalInv'
<1> USE DEF IInv, TypeOK, FinalInv, EarlierSessionsFinal, files, children, flags
<1>1. CASE StartUnit  BY <1>1 DEF StartUnit
<1>2. CASE RequestStop
  <2>1. pc \notin Teardown /\ UNCHANGED <<session, end_unix, manifest>>
    BY <1>2 DEF RequestStop, NothingKilled
  <2>2. pc' = pc \/ (pc = "opening" /\ pc' = "exited")
    BY <1>2, <2>1 DEF RequestStop, StopEffect, Teardown, Finishing
  <2> QED  BY <2>1, <2>2
<1>3. CASE CancelRestart  BY <1>3 DEF CancelRestart
<1>4. CASE UnitStopped  BY <1>4 DEF UnitStopped
<1>5. CASE StopTimeout  BY <1>5 DEF StopTimeout, NothingKilled
<1>6. CASE OomKill  BY <1>6 DEF OomKill, NothingKilled
<1>7. CASE ReapGroup  BY <1>7 DEF ReapGroup, KillEverything
<1>8. CASE PowerLoss  BY <1>8 DEF PowerLoss, NothingKilled
<1> QED
  BY <1>1, <1>2, <1>3, <1>4, <1>5, <1>6, <1>7, <1>8 DEF Systemd

(* No child and no device touches a manifest or moves the orchestrator.    *)
LEMMA OthersLeaveManifests ==
  ASSUME Child \/ InterfaceToggles \/ UNCHANGED vars
  PROVE  UNCHANGED <<pc, session, end_unix, manifest>>
BY DEF Child, TimerFires, RingPoll, RingEnds, ConversionDone, CandumpDies,
       ScreenEnds, StreamDies, LateEnds, InterfaceToggles, vars, files

(* In a run without kills no session is left behind without its end time,  *)
(* whatever the order of stops, rotations and restarts (run_session and    *)
(* the main loop of capture_seven_dimensions.sh).                          *)
THEOREM NoSessionLeftOpen ==
  ASSUME NothingKilled
  PROVE  Spec => []EarlierSessionsFinal
<1>1. Init => FinalInv
  BY DEF Init, FinalInv, EarlierSessionsFinal, Sessions
<1>2. IInv /\ FinalInv /\ [Next]_vars => FinalInv'
  <2> SUFFICES ASSUME IInv, FinalInv, [Next]_vars PROVE FinalInv'
    OBVIOUS
  <2>1. CASE Child \/ InterfaceToggles \/ UNCHANGED vars
    BY <2>1, OthersLeaveManifests DEF FinalInv, EarlierSessionsFinal
  <2> QED
    BY <2>1, FinalOrchestrator, FinalSystemd DEF Next
<1>3. FinalInv => EarlierSessionsFinal
  BY DEF FinalInv
<1> QED  BY Invariance, <1>1, <1>2, <1>3, PTL DEF Spec

-----------------------------------------------------------------------------
(***************************************************************************)
(* Screen logs into the live session only, unless the orchestrator is      *)
(* killed, its screen -X log off is, or that of 07 outlives its shell.     *)
(* Power loss, a late tcpdump and a dying candump are all allowed.         *)
(***************************************************************************)
LogOffRuns == Faults \cap {"oom", "timeout", "stop_in_teardown", "straggler"} = {}

ScreenInv ==
  /\ pc \in {"launching", "capturing", "signalling", "joining", "unlogging", "copying",
             "timing", "trimming"} => manifest[session] = "open"
  /\ screen = "waiting" => pc \in {"capturing", "signalling"}
  /\ logging # 0 => /\ logging = session
                    /\ pc \in {"capturing", "signalling", "joining", "unlogging"}

LEMMA ScreenOrchestrator == IInv /\ ScreenInv /\ Orchestrator => ScreenInv'
<1> SUFFICES ASSUME IInv, ScreenInv, Orchestrator PROVE ScreenInv'
  OBVIOUS
<1> USE DEF IInv, TypeOK, FreshInv, BoundInv, ScreenInv, Joined, AllReaped, Sessions,
            files, children, flags
<1>1. CASE OpenSession  BY <1>1 DEF OpenSession, ExitFailed
<1>2. CASE Launch  BY <1>2 DEF Launch
<1>3. CASE LeaveWaitLoop  BY <1>3 DEF LeaveWaitLoop
<1>4. CASE SignalChildren  BY <1>4 DEF SignalChildren
<1>5. CASE Join  BY <1>5 DEF Join
<1>6. CASE LogOff  BY <1>6 DEF LogOff
<1>7. CASE CopyRing  BY <1>7 DEF CopyRing
<1>8. CASE TakeTime  BY <1>8 DEF TakeTime
<1>9. CASE TrimManifest  BY <1>9 DEF TrimManifest
<1>10. CASE AppendManifest  BY <1>10 DEF AppendManifest
<1>11. CASE Decide  BY <1>11 DEF Decide
<1> QED
  BY <1>1, <1>2, <1>3, <1>4, <1>5, <1>6, <1>7, <1>8, <1>9, <1>10, <1>11 DEF Orchestrator

LEMMA ScreenSystemd ==
  ASSUME IInv, ScreenInv, Systemd, LogOffRuns
  PROVE  ScreenInv'
<1> USE DEF IInv, TypeOK, ScreenInv, files, children, flags
<1>1. CASE StartUnit  BY <1>1 DEF StartUnit, AllReaped
<1>2. CASE RequestStop
  <2>1. pc \notin Teardown /\ UNCHANGED <<session, manifest, screen>>
    BY <1>2 DEF RequestStop, InterruptGroup, LogOffRuns
  <2>2. /\ pc' = pc \/ (pc = "opening" /\ pc' = "exited")
        /\ logging' = logging
    BY <1>2, <2>1 DEF RequestStop, StopEffect, Teardown, Finishing
  <2> QED  BY <2>1, <2>2
<1>3. CASE CancelRestart  BY <1>3 DEF CancelRestart
<1>4. CASE UnitStopped  BY <1>4 DEF UnitStopped
<1>5. CASE StopTimeout  BY <1>5 DEF StopTimeout, LogOffRuns
<1>6. CASE OomKill  BY <1>6 DEF OomKill, LogOffRuns
<1>7. CASE ReapGroup  BY <1>7 DEF ReapGroup, KillEverything
<1>8. CASE PowerLoss  BY <1>8 DEF PowerLoss, KillEverything
<1> QED
  BY <1>1, <1>2, <1>3, <1>4, <1>5, <1>6, <1>7, <1>8 DEF Systemd

LEMMA ScreenOthers ==
  ASSUME IInv, ScreenInv, Child \/ InterfaceToggles \/ UNCHANGED vars, LogOffRuns
  PROVE  ScreenInv'
<1>1. UNCHANGED <<pc, session, manifest>>
  BY OthersLeaveManifests
<1>0. late = {}
  BY DEF IInv, BoundInv, LogOffRuns
<1>2. \/ UNCHANGED <<screen, logging>>
      \/ screen = "waiting" /\ screen' = "off" /\ logging' \in {logging, session}
  BY <1>0 DEF Child, TimerFires, RingPoll, RingEnds, ConversionDone, CandumpDies,
         ScreenEnds, StreamDies, LateEnds, InterfaceToggles, vars, files, children
<1> QED  BY <1>1, <1>2 DEF ScreenInv

(* A finished session directory stops growing: screen's log is off before  *)
(* the manifest is touched and stays off until the next session runs       *)
(* (screen -X log off in run_session, 07_inference_screen.sh), unless that *)
(* command or the orchestrator is killed or one of 07 comes late.          *)
THEOREM ScreenLogsLive ==
  ASSUME LogOffRuns
  PROVE  Spec => []ScreenLogsIntoLiveSession
<1>1. Init => ScreenInv
  BY DEF Init, ScreenInv
<1>2. IInv /\ ScreenInv /\ [Next]_vars => ScreenInv'
  BY ScreenOrchestrator, ScreenSystemd, ScreenOthers DEF Next
<1>3. ScreenInv => ScreenLogsIntoLiveSession
  BY DEF ScreenInv, ScreenLogsIntoLiveSession
<1> QED  BY Invariance, <1>1, <1>2, <1>3, PTL DEF Spec
-----------------------------------------------------------------------------
(***************************************************************************)
(* The recorder implements RecorderPromise, whatever fails.  Live tells    *)
(* when a session has ended; the two facts of FreshInv - the decision is   *)
(* reached with nothing alive, or with a stop known - make it 0 at every   *)
(* opening.                                                                *)
(***************************************************************************)

(* What the abstract recorder needs to know of the place the teardown is   *)
(* at: a directory not yet opened has nothing, the one in work has no copy *)
(* before the copying and its manifest is not yet closed.                  *)
PromiseInv ==
  /\ \A s \in Sessions : session < s => manifest[s] = "absent" /\ pcap[s] = "none"
  /\ pc \in {"launching", "capturing", "signalling", "joining", "unlogging", "copying",
             "timing", "trimming"} => manifest[session] = "open"
  /\ pc = "appending" => manifest[session] \in {"open", "trimmed"}
  /\ pc \in {"launching", "capturing", "signalling", "joining", "unlogging", "copying"}
       => pcap[session] = "none"
  /\ pc \in {"timing", "trimming", "appending"} => pcap[session] # "none"

(* A step that those who use the directories do not see.                   *)
Still == UNCHANGED <<session, Live, LateSessions, rotate_requested, manifest, asc, pcap>>

(* While something of a session is left it is one that was opened.         *)
LEMMA LiveOpened ==
  ASSUME IInv
  PROVE  /\ Live = 0 \/ (Live = session /\ session \in Sessions)
         /\ (pc \notin {"exited", "opening"} \/ ~Joined \/ timer # "gone")
              => Live = session /\ session \in Sessions
BY DEF IInv, TypeOK, FreshInv, BoundInv, Live, Sessions, AllReaped, Finishing

(* Each step maps to a step of the promise, or to none.                    *)
LEMMA OrchestratorKeeps ==
  ASSUME IInv, PromiseInv, Orchestrator
  PROVE  PromiseInv' /\ (Still \/ Promise!Next)
<1> USE DEF files, children, flags
<1>0. session \in 0..MaxSession /\ MaxSession \in Nat
  BY BoundAssumption DEF IInv, TypeOK
<1>1. CASE OpenSession
  <2>1. /\ pc = "opening" /\ session < MaxSession /\ rotate_requested = "no" /\ Joined
        /\ timer = "gone" /\ Joined'
        /\ UNCHANGED <<rotate_requested, timer, late, LateSessions, asc, pcap>>
    BY <1>0, <1>1 DEF OpenSession, IInv, FreshInv, BoundInv, Joined, LateSessions
  <2>2. CASE pc' = "launching"
    <3>1. /\ session' = session + 1 /\ session' \in Sessions
          /\ manifest' = [manifest EXCEPT ![session + 1] = "open"]
          /\ manifest \in [Sessions -> {"absent", "open", "trimmed", "garbled", "final"}]
      BY <1>0, <1>1, <2>1, <2>2 DEF OpenSession, ExitFailed, Sessions, IInv, TypeOK
    <3>2. Live = 0 /\ Live' = session'
      BY <2>1, <2>2 DEF Live
    <3>3. manifest[session + 1] = "absent" /\ pcap[session + 1] = "none"
      BY <1>0, <3>1 DEF PromiseInv
    <3>4. Promise!Open
      BY <2>1, <3>1, <3>2, <3>3 DEF Promise!Open
    <3>5. PromiseInv'
      BY <1>0, <2>1, <2>2, <3>1, <3>3 DEF PromiseInv, Sessions
    <3> QED BY <3>4, <3>5 DEF Promise!Next
  <2>3. CASE pc' # "launching"
    <3>1. pc' = "exited" /\ UNCHANGED <<session, manifest>>
      BY <1>1, <2>3 DEF OpenSession, ExitFailed
    <3> QED BY <2>1, <3>1 DEF PromiseInv, Still, Live
  <2> QED BY <2>2, <2>3
<1>2. CASE Launch
  BY <1>2, LiveOpened DEF Launch, PromiseInv, Still, Live, LateSessions
<1>3. CASE LeaveWaitLoop
  BY <1>3, LiveOpened DEF LeaveWaitLoop, PromiseInv, Still, Live, LateSessions
<1>4. CASE SignalChildren
  <2>1. Live = session /\ Live' = session /\ session \in Sessions /\ session # 0
    BY <1>0, <1>4, LiveOpened DEF SignalChildren, Live, Sessions
  <2>2. PromiseInv' /\ UNCHANGED <<session, Live, rotate_requested, manifest, asc, pcap>>
    BY <1>4, <2>1 DEF SignalChildren, PromiseInv
  <2>3. PICK left : late' = late \union ({session} \X left)
    BY <1>4 DEF SignalChildren
  <2>4. CASE left = {}
    BY <2>2, <2>3, <2>4 DEF Still, LateSessions
  <2>5. CASE left # {}
    <3>1. LateSessions' = LateSessions \union {session}
      <4>1. PICK d \in left : TRUE
        BY <2>5
      <4>2. <<session, d>> \in late' /\ \A p \in late' : p \in late \/ p[1] = session
        BY <2>3, <4>1
      <4>3. session \in LateSessions' /\ LateSessions \subseteq LateSessions'
        BY <2>3, <4>2 DEF LateSessions
      <4> QED BY <4>2, <4>3 DEF LateSessions
    <3> QED BY <2>1, <2>2, <3>1 DEF Promise!Leave, Promise!Next
  <2> QED BY <2>4, <2>5
<1>5. CASE Join
  BY <1>5, LiveOpened DEF Join, PromiseInv, Still, Live, LateSessions
<1>6. CASE LogOff
  BY <1>6, LiveOpened DEF LogOff, PromiseInv, Still, Live, LateSessions
<1>7. CASE CopyRing
  <2>1. /\ Live = session /\ Live' = session /\ session \in Sessions /\ session # 0
        /\ UNCHANGED LateSessions
    BY <1>0, <1>7, LiveOpened DEF CopyRing, Live, Sessions, LateSessions
  <2>2. PICK c \in {"copied", "early"} : pcap' = [pcap EXCEPT ![session] = c]
    BY <1>7 DEF CopyRing
  <2>3. Promise!Copy
    BY <1>7, <2>1, <2>2 DEF CopyRing, PromiseInv, Promise!Copy
  <2>4. pcap \in [Sessions -> {"none", "partial", "early", "copied", "mixed"}]
    BY DEF IInv, TypeOK
  <2>5. PromiseInv'
    BY <1>0, <1>7, <2>1, <2>2, <2>4 DEF CopyRing, PromiseInv, Sessions
  <2> QED BY <2>3, <2>5 DEF Promise!Next
<1>8. CASE TakeTime
  BY <1>8, LiveOpened DEF TakeTime, PromiseInv, Still, Live, LateSessions
<1>9. CASE TrimManifest
  <2>1. /\ Live = session /\ Live' = session /\ session \in Sessions /\ session # 0
        /\ UNCHANGED LateSessions
    BY <1>0, <1>9, LiveOpened DEF TrimManifest, Live, Sessions, LateSessions
  <2>3. Promise!Trim
    BY <1>9, <2>1 DEF TrimManifest, PromiseInv, Promise!Trim
  <2>4. manifest \in [Sessions -> {"absent", "open", "trimmed", "garbled", "final"}]
    BY DEF IInv, TypeOK
  <2>5. PromiseInv'
    BY <1>0, <1>9, <2>1, <2>4 DEF TrimManifest, PromiseInv, Sessions
  <2> QED BY <2>3, <2>5 DEF Promise!Next
<1>10. CASE AppendManifest
  <2>1. /\ Live = session /\ Live' = session /\ session \in Sessions /\ session # 0
        /\ UNCHANGED LateSessions
    BY <1>0, <1>10, LiveOpened DEF AppendManifest, Live, Sessions, LateSessions
  <2>2. PICK m \in {"final", "garbled"} :
          /\ m = "final" => manifest[session] = "trimmed"
          /\ manifest' = [manifest EXCEPT ![session] = m]
    <3>1. CASE manifest[session] = "trimmed" /\ end_unix = "known"
      BY <1>10, <3>1 DEF AppendManifest
    <3>2. CASE ~(manifest[session] = "trimmed" /\ end_unix = "known")
      BY <1>10, <3>2 DEF AppendManifest
    <3> QED BY <3>1, <3>2
  <2>3. Promise!Stamp
    BY <1>10, <2>1, <2>2 DEF AppendManifest, PromiseInv, Promise!Stamp
  <2>5. PromiseInv'
    BY <1>0, <1>10, <2>1 DEF AppendManifest, PromiseInv, Sessions
  <2> QED BY <2>3, <2>5 DEF Promise!Next
<1>11. CASE Decide
  <2>1. Live = session /\ session \in Sessions /\ session # 0
    BY <1>0, <1>11, LiveOpened DEF Decide, Sessions
  <2>2. pc' \in {"opening", "exited"} /\ rotate_requested' = "no"
        /\ UNCHANGED <<session, LateSessions, manifest, asc, pcap>>
    BY <1>11 DEF Decide, LateSessions
  <2>3. PromiseInv'
    BY <2>2 DEF PromiseInv
  <2>4. CASE Live' = 0
    BY <2>1, <2>2, <2>3, <2>4 DEF Promise!Close, Promise!Next
  <2>5. CASE Live' # 0
    <3>1. Live' = Live
      BY <2>1, <2>2, <2>5 DEF Live
    <3> QED BY <2>2, <2>3, <3>1 DEF Promise!Forget, Promise!Next
  <2> QED BY <2>4, <2>5
<1> QED
  BY <1>1, <1>2, <1>3, <1>4, <1>5, <1>6, <1>7, <1>8, <1>9, <1>10, <1>11 DEF Orchestrator

(* A step that opens nothing and touches no file at most closes a session  *)
(* or ends what runs late.                                                 *)
LEMMA AtMostCloses ==
  ASSUME IInv, PromiseInv, UNCHANGED <<session, manifest, asc, pcap>>,
         rotate_requested' \in {rotate_requested, "no"},
         pc' \in {pc, "exited"} \/ (pc = "exited" /\ pc' = "opening"),
         Live' \in {Live, 0},
         \/ UNCHANGED LateSessions
         \/ Live' = 0 /\ LateSessions' = {} /\ UNCHANGED rotate_requested
  PROVE  PromiseInv' /\ (Still \/ Promise!Next)
<1>1. PromiseInv'
  BY DEF PromiseInv
<1>2. CASE Live' = Live /\ UNCHANGED LateSessions /\ rotate_requested' = rotate_requested
  BY <1>1, <1>2 DEF Still
<1>3. CASE Live' = Live /\ UNCHANGED LateSessions /\ rotate_requested' = "no"
  BY <1>1, <1>3 DEF Promise!Forget, Promise!Next
<1>4. CASE Live' = 0 /\ Live # 0 /\ LateSessions' \subseteq LateSessions
  BY <1>1, <1>4 DEF Promise!Close, Promise!Next
<1>5. CASE Live' = Live /\ LateSessions' = {} /\ UNCHANGED rotate_requested
  BY <1>1, <1>5 DEF Promise!Clear, Promise!Next
<1> QED BY <1>1, <1>2, <1>3, <1>4, <1>5

(* A stop may copy the ring by cutting the copy short; everything else     *)
(* that systemd, the kernel and the power do at most ends processes.       *)
LEMMA SystemdKeeps ==
  ASSUME IInv, PromiseInv, Systemd
  PROVE  PromiseInv' /\ (Still \/ Promise!Next)
<1> USE DEF files, children, flags
<1>0. session \in 0..MaxSession /\ MaxSession \in Nat
  BY BoundAssumption DEF IInv, TypeOK
<1>1. CASE StartUnit
  <2>1. timer = "gone" /\ Live = 0 /\ Live' = 0 /\ UNCHANGED LateSessions
    BY <1>1 DEF StartUnit, IInv, FreshInv, Live, AllReaped, Joined, LateSessions
  <2> QED BY <1>1, <2>1, AtMostCloses DEF StartUnit
<1>2. CASE RequestStop
  <2>1. /\ UNCHANGED <<rotate_requested, session, timer, manifest, asc, LateSessions>>
        /\ (Joined' <=> Joined)
    BY <1>2 DEF RequestStop, InterruptGroup, Joined, IInv, TypeOK, LateSessions
  <2>2. CASE UNCHANGED <<pc, pcap>>
    <3>1. Live' = Live
      BY <2>1, <2>2 DEF Live
    <3> QED BY <2>1, <2>2, <3>1, AtMostCloses
  <2>3. CASE pc = "opening" /\ pc' = "exited" /\ UNCHANGED pcap
    <3>1. Live' = Live
      BY <2>1, <2>3 DEF Live
    <3> QED BY <2>1, <2>3, <3>1, AtMostCloses
  <2>4. CASE /\ <<pc, pc'>> \in {<<"joining", "unlogging">>, <<"unlogging", "copying">>,
                                <<"timing", "trimming">>, <<"trimming", "appending">>}
             /\ UNCHANGED pcap
    <3>1. Live' = Live
      BY <2>1, <2>4 DEF Live
    <3> QED BY <2>1, <2>4, <3>1 DEF PromiseInv, Still
  <2>5. CASE pc = "copying" /\ pc' = "timing" /\ pcap' = [pcap EXCEPT ![session] = "partial"]
    <3>1. Live = session /\ Live' = session /\ session \in Sessions /\ session # 0
      BY <1>0, <2>1, <2>5, LiveOpened DEF Live, Sessions
    <3>2. Promise!Copy
      BY <2>1, <2>5, <3>1 DEF PromiseInv, Promise!Copy
    <3>3. pcap \in [Sessions -> {"none", "partial", "early", "copied", "mixed"}]
      BY DEF IInv, TypeOK
    <3>4. PromiseInv'
      BY <1>0, <2>1, <2>5, <3>1, <3>3 DEF PromiseInv, Sessions
    <3> QED BY <3>2, <3>4 DEF Promise!Next
  <2> QED BY <1>2, <2>2, <2>3, <2>4, <2>5 DEF RequestStop, StopEffect
<1>3. CASE CancelRestart
  BY <1>3, AtMostCloses DEF CancelRestart, Live, Joined, LateSessions
<1>4. CASE UnitStopped
  BY <1>4, AtMostCloses DEF UnitStopped, Live, Joined, LateSessions
<1>5. CASE StopTimeout
  BY <1>5, AtMostCloses DEF StopTimeout, KillEverything, Live, Joined, LateSessions
<1>6. CASE OomKill
  <2>1. pc' = "exited" /\ timer' = "gone" /\ (Joined' <=> Joined)
        /\ UNCHANGED <<session, rotate_requested, manifest, asc, pcap, LateSessions>>
    BY <1>6 DEF OomKill, ExitFailed, InterruptGroup, Joined, IInv, TypeOK, LateSessions
  <2>2. Live' \in {Live, 0}
    BY <2>1 DEF Live
  <2> QED BY <2>1, <2>2, AtMostCloses
<1>7. CASE ReapGroup
  BY <1>7, AtMostCloses DEF ReapGroup, KillEverything, Live, Joined, LateSessions
<1>8. CASE PowerLoss
  BY <1>8, AtMostCloses DEF PowerLoss, KillEverything, Live, Joined, LateSessions
<1> QED
  BY <1>1, <1>2, <1>3, <1>4, <1>5, <1>6, <1>7, <1>8 DEF Systemd

(* A child at most ends, asks for a rotation, or converts.                 *)
LEMMA ChildKeeps ==
  ASSUME IInv, PromiseInv, Child
  PROVE  PromiseInv' /\ (Still \/ Promise!Next)
<1> USE DEF files, children, flags
<1>0. session \in 0..MaxSession /\ MaxSession \in Nat
  BY BoundAssumption DEF IInv, TypeOK
<1>1. CASE TimerFires
  <2>1. pc = "capturing"
    BY <1>1 DEF TimerFires, IInv, FreshInv
  <2>2. Live = session /\ Live' = session /\ session # 0 /\ UNCHANGED LateSessions
    BY <1>0, <1>1, <2>1, LiveOpened DEF TimerFires, Live, Sessions, LateSessions
  <2>3. Promise!Ask
    BY <1>1, <2>2 DEF TimerFires, Promise!Ask
  <2> QED BY <1>1, <2>3 DEF TimerFires, PromiseInv, Promise!Next
<1>2. CASE RingPoll
  BY <1>2, AtMostCloses DEF RingPoll, Live, Joined, LateSessions
<1>3. CASE RingEnds
  BY <1>3, AtMostCloses DEF RingEnds, Live, Joined, LateSessions
<1>4. CASE ConversionDone
  <2>1. Live = session /\ session # 0
    BY <1>0, <1>4, LiveOpened DEF ConversionDone, Joined, Sessions
  <2>2. Live' \in {Live, 0} /\ UNCHANGED LateSessions
    BY <1>4, <2>1 DEF ConversionDone, Live, LateSessions
  <2>3. Promise!Convert
    BY <1>4, <2>1, <2>2 DEF ConversionDone, Promise!Convert
  <2> QED BY <1>4, <2>3 DEF ConversionDone, PromiseInv, Promise!Next
<1>5. CASE CandumpDies
  BY <1>5, AtMostCloses DEF CandumpDies, Live, Joined, LateSessions
<1>6. CASE ScreenEnds
  BY <1>6, AtMostCloses DEF ScreenEnds, Live, Joined, LateSessions
<1>7. ASSUME NEW d \in Streams, StreamDies(d)
      PROVE  PromiseInv' /\ (Still \/ Promise!Next)
  BY <1>7, AtMostCloses DEF StreamDies, Live, Joined, LateSessions
<1>8. ASSUME NEW s \in Sessions, NEW d \in Shells \union {"screen"}, LateEnds(s, d)
      PROVE  PromiseInv' /\ (Still \/ Promise!Next)
  <2>1. s \in LateSessions /\ LateSessions' \in {LateSessions, LateSessions \ {s}}
    <3>1. <<s, d>> \in late /\ late' = late \ {<<s, d>>}
      BY <1>8 DEF LateEnds
    <3>2. \A p \in late : p # <<s, d>> /\ p[1] # s => p \in late'
      BY <3>1
    <3> QED BY <3>1, <3>2 DEF LateSessions
  <2>2. UNCHANGED <<session, Live, rotate_requested, manifest, pc>>
    BY <1>8 DEF LateEnds, Live, Joined
  <2>3. \/ UNCHANGED <<asc, pcap>>
        \/ asc' = [asc EXCEPT ![s] = "mixed"] /\ UNCHANGED pcap
        \/ pcap[s] # "none" /\ pcap' = [pcap EXCEPT ![s] = "mixed"] /\ UNCHANGED asc
    BY <1>8 DEF LateEnds
  <2>4. Promise!Straggle(s)
    BY <2>1, <2>2, <2>3 DEF Promise!Straggle
  <2>5. pcap \in [Sessions -> {"none", "partial", "early", "copied", "mixed"}]
    BY DEF IInv, TypeOK
  <2>6. \A x \in Sessions : pcap'[x] = "none" <=> pcap[x] = "none"
    BY <2>3, <2>5
  <2>7. pc \notin {"exited", "opening"} => session \in Sessions
    BY LiveOpened
  <2>8. PromiseInv'
    BY <2>2, <2>6, <2>7 DEF PromiseInv
  <2> QED BY <2>4, <2>8 DEF Promise!Next, Sessions
<1> QED  BY <1>1, <1>2, <1>3, <1>4, <1>5, <1>6, <1>7, <1>8 DEF Child

(* Every step of the recorder and of its host is one of the promise, or    *)
(* changes nothing the promise speaks of.                                  *)
LEMMA StepKeeps ==
  IInv /\ PromiseInv /\ [Next]_vars => PromiseInv' /\ [Promise!Next]_Promise!promiseVars
<1> SUFFICES ASSUME IInv, PromiseInv, [Next]_vars
             PROVE  PromiseInv' /\ (Still \/ Promise!Next)
  BY DEF Still, Promise!promiseVars
<1>1. CASE InterfaceToggles \/ UNCHANGED vars
  BY <1>1, AtMostCloses DEF InterfaceToggles, vars, files, children, flags, Live, Joined, LateSessions
<1> QED BY <1>1, OrchestratorKeeps, SystemdKeeps, ChildKeeps DEF Next

(* The recorder implements RecorderPromise, under all faults: no child,    *)
(* timer or rotation of one session reaches the next, only the live        *)
(* directory changes - but for what commands that outlived their shells    *)
(* write -, copy and stamp come once and in this order (run_session and    *)
(* the main loop of capture_seven_dimensions.sh).                          *)
THEOREM RecorderKeepsPromise == Spec => PromiseKept
<1>1. Init => PromiseInv /\ Promise!Init
  BY DEF Init, PromiseInv, Promise!Init, Live, Joined, Sessions, LateSessions
<1> QED BY Invariance, <1>1, StepKeeps, PTL DEF Spec, PromiseKept, Promise!Spec

(* What the promise alone says of its state.                               *)
InTurn ==
  /\ session \in Nat /\ Live \in {0, session}
  /\ manifest = [s \in Sessions |-> manifest[s]]
  /\ asc = [s \in Sessions |-> asc[s]] /\ pcap = [s \in Sessions |-> pcap[s]]

(* What a step of the promise can do to any one directory.                 *)
LEMMA PromiseStep ==
  ASSUME InTurn, Promise!Next
  PROVE  /\ InTurn'
         /\ \A s \in Sessions :
              /\ s # Live =>
                   /\ s \notin LateSessions => UNCHANGED <<asc[s], pcap[s]>>
                   /\ \/ UNCHANGED manifest[s]
                      \/ s = session + 1 /\ s = Live' /\ UNCHANGED <<asc[s], pcap[s]>>
              /\ manifest[s] \in {"final", "garbled"} =>
                   UNCHANGED manifest[s] /\ (s \notin LateSessions => UNCHANGED pcap[s])
<1> USE DEF InTurn, Sessions
<1>1. CASE Promise!Open
  <2>1. /\ session' = session + 1 /\ Live = 0 /\ Live' = session' /\ UNCHANGED <<asc, pcap>>
        /\ manifest' = [manifest EXCEPT ![session'] = "open"]
        /\ manifest[session'] = "absent"
    BY <1>1 DEF Promise!Open
  <2>2. InTurn'
    <3>1. session' \in Nat /\ Live' \in {0, session'}
      BY <2>1
    <3>2. manifest' = [s \in Sessions |-> manifest'[s]]
      BY <2>1
    <3>3. asc' = [s \in Sessions |-> asc'[s]] /\ pcap' = [s \in Sessions |-> pcap'[s]]
      BY <2>1
    <3> QED BY <3>1, <3>2, <3>3
  <2>3. \A s \in Sessions : s # session' => manifest'[s] = manifest[s]
    BY <2>1
  <2> QED BY <2>1, <2>2, <2>3
<1>2. CASE Promise!Ask
  BY <1>2 DEF Promise!Ask
<1>3. CASE Promise!Forget
  BY <1>3 DEF Promise!Forget
<1>4. CASE Promise!Copy
  BY <1>4 DEF Promise!Copy
<1>5. CASE Promise!Trim
  BY <1>5 DEF Promise!Trim
<1>6. CASE Promise!Stamp
  BY <1>6 DEF Promise!Stamp
<1>7. CASE Promise!Convert
  BY <1>7 DEF Promise!Convert
<1>8. CASE Promise!Close
  BY <1>8 DEF Promise!Close
<1>9. CASE Promise!Leave \/ Promise!Clear
  BY <1>9 DEF Promise!Leave, Promise!Clear
<1>10. ASSUME NEW x \in Sessions, Promise!Straggle(x)
       PROVE  /\ InTurn'
              /\ UNCHANGED manifest
              /\ \A s \in Sessions : s \notin LateSessions => UNCHANGED <<asc[s], pcap[s]>>
  BY <1>10 DEF Promise!Straggle
<1> QED BY <1>1, <1>2, <1>3, <1>4, <1>5, <1>6, <1>7, <1>8, <1>9, <1>10 DEF Promise!Next

(* What the cleanup, the snapshot and the analyses rely on: the recorder   *)
(* never touches a directory again that is not live, and an end time stays *)
(* with the copy that it stands for, once the commands that outlived their *)
(* shells there have ended; the manifest stays even before (run_session).  *)
THEOREM ClosedSessionsStand == Spec => Promise!ClosedStands /\ Promise!StampStands
<1>1. Promise!Init => InTurn
  BY DEF Promise!Init, InTurn, Sessions
<1>2. InTurn /\ [Promise!Next]_Promise!promiseVars => InTurn'
  BY PromiseStep DEF InTurn, Promise!promiseVars
<1>3. InTurn /\ [Promise!Next]_Promise!promiseVars
        => [\A s \in 1..MaxSession :
              s # Live =>
                /\ s \notin LateSessions => UNCHANGED <<asc[s], pcap[s]>>
                /\ \/ UNCHANGED manifest[s]
                   \/ s = session + 1 /\ s = Live' /\ UNCHANGED <<asc[s], pcap[s]>>]_Promise!promiseVars
  BY PromiseStep DEF Sessions
<1>4. InTurn /\ [Promise!Next]_Promise!promiseVars
        => [\A s \in 1..MaxSession :
              manifest[s] \in {"final", "garbled"} =>
                UNCHANGED manifest[s] /\ (s \notin LateSessions => UNCHANGED pcap[s])]_Promise!promiseVars
  BY PromiseStep DEF Sessions
<1> QED BY RecorderKeepsPromise, <1>1, <1>2, <1>3, <1>4, PTL
        DEF PromiseKept, Promise!Spec, Promise!ClosedStands, Promise!StampStands
=============================================================================
