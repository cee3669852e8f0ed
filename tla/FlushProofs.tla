----------------------------- MODULE FlushProofs -----------------------------
(* Proofs about FlushSession, for a log and a ring of any size.            *)
EXTENDS FlushSession, SequenceTheorems, TLAPS

USE FlushAssumption

(* Whole lines in a number of bytes.                                       *)
LEMMA LinesOfBytes ==
  ASSUME NEW b \in Nat
  PROVE  Lines(b) \in Nat /\ 2 * Lines(b) <= b /\ b < 2 * Lines(b) + 2
BY DEF Lines, LineBytes

LEMMA BytesOfLines ==
  ASSUME NEW n \in Nat
  PROVE  Lines(2 * n) = n
BY DEF Lines, LineBytes

(* The k-th line of a can.asc that is one conversion of the whole log.     *)
Timeline(k) == IF k = 1 THEN Header ELSE k - 2

LEMMA SeqOfFcn ==
  ASSUME NEW n \in Nat, NEW f \in [1..n -> Int]
  PROVE  f \in Seq(Int) /\ Len(f) = n
OBVIOUS

(* A conversion is a stretch of the one timeline.                          *)
LEMMA Log2ascLines ==
  ASSUME NEW a \in Nat, NEW b \in Nat, a <= b + 1
  PROVE  /\ Log2asc(a, b) \in Seq(Int) /\ Len(Log2asc(a, b)) = b - a + 2
         /\ \A k \in 1..(b - a + 2) : Log2asc(a, b)[k] = Timeline(k)
<1>1. b - a + 2 \in Nat
  OBVIOUS
<1>2. Log2asc(a, b) \in [1..(b - a + 2) -> Int]
  BY DEF Log2asc, Header
<1>3. \A k \in 1..(b - a + 2) : Log2asc(a, b)[k] = Timeline(k)
  BY DEF Log2asc, Timeline
<1> QED BY <1>1, <1>2, <1>3, SeqOfFcn

(* The rebased chunk continues the timeline where the log before it ends.  *)
LEMMA ShiftedLines ==
  ASSUME NEW a \in Nat, NEW b \in Nat, 1 <= a, a <= b
  PROVE  LET piece == Shifted(Log2asc(a, b), a - 1)
         IN /\ piece \in Seq(Int) /\ Len(piece) = b - a + 2 /\ piece[1] = Header
            /\ \A k \in 2..(b - a + 2) : piece[k] = Timeline(a - 1 + k)
<1> DEFINE s == Log2asc(a, b)
           piece == Shifted(s, a - 1)
<1>1. s \in Seq(Int) /\ Len(s) = b - a + 2
      /\ \A k \in 1..(b - a + 2) : s[k] = Timeline(k)
  BY Log2ascLines
<1>2. DOMAIN s = 1..(b - a + 2) /\ b - a + 2 \in Nat
  BY <1>1
<1>3. \A k \in 1..(b - a + 2) : s[k] \in Int
  BY <1>1
<1> HIDE DEF s
<1>4. piece = [k \in 1..(b - a + 2) |-> IF s[k] = Header THEN Header ELSE s[k] + (a - 1)]
  BY <1>2 DEF Shifted
<1>5. piece \in [1..(b - a + 2) -> Int]
  BY <1>3, <1>4 DEF Header
<1>6. piece \in Seq(Int) /\ Len(piece) = b - a + 2
  BY <1>2, <1>5, SeqOfFcn
<1>7. piece[1] = Header
  BY <1>1, <1>4 DEF Timeline, Header
<1>8. \A k \in 2..(b - a + 2) : piece[k] = Timeline(a - 1 + k)
  <2> SUFFICES ASSUME NEW k \in 2..(b - a + 2)
               PROVE  piece[k] = Timeline(a - 1 + k)
    OBVIOUS
  <2>1. k \in 1..(b - a + 2) /\ k # 1 /\ k \in Nat
    OBVIOUS
  <2>2. s[k] = k - 2 /\ s[k] # Header
    BY <1>1, <2>1 DEF Timeline, Header
  <2>3. piece[k] = k - 2 + (a - 1)
    BY <1>4, <2>1, <2>2
  <2>4. Timeline(a - 1 + k) = a - 1 + k - 2
    BY <2>1 DEF Timeline
  <2> QED BY <2>1, <2>3, <2>4
<1> QED BY <1>6, <1>7, <1>8 DEF s

-----------------------------------------------------------------------------
(* The inductive invariant.  can.asc and what the pipeline still holds are *)
(* one stretch of the timeline, and the script's position says how long it *)
(* is; the shell is dead once the teardown has begun.                      *)
Cursor ==
  /\ offset <= size /\ offset % 2 = 0
  /\ session_t0 \in {0, 1} /\ (offset > 0 => session_t0 = 1)
  /\ fpc \in {"converting", "appending"} =>
       session_t0 = 1 /\ Lines(offset) < chunk /\ chunk <= Lines(size)

Follows ==
  /\ \A k \in 1..Len(asc) : asc[k] = Timeline(k)
  /\ \A k \in 1..Len(pipe) : pipe[k] = Timeline(Len(asc) + k)

Flushed == IF offset = 0 THEN 0 ELSE Lines(offset) + 1

Extent ==
  /\ fpc \in {"sleeping", "converting", "mirroring", "copying"} =>
       pipe = <<>> /\ Len(asc) = Flushed
  /\ fpc = "appending" => Len(asc) + Len(pipe) = chunk + 1
  /\ fpc = "dead" => Len(asc) + Len(pipe) <= Lines(size) + 1

Incremental == can_asc \in {"capturing", "ending"} => Follows /\ Extent

DeadInTeardown ==
  /\ can_asc # "capturing" => fpc = "dead"
  /\ teardown = "up" <=> can_asc = "capturing"

IInv == TypeOK /\ Cursor /\ Incremental /\ DeadInTeardown

LEMMA InitIInv == Init => IInv
<1> SUFFICES ASSUME Init PROVE IInv
  OBVIOUS
<1>1. TypeOK
  BY DEF Init, TypeOK, Files, LineBytes
<1>2. Cursor /\ Incremental /\ DeadInTeardown
  BY DEF Init, Cursor, Incremental, Follows, Extent, Flushed, DeadInTeardown, TypeOK
<1> QED BY <1>1, <1>2 DEF IInv

-----------------------------------------------------------------------------
(* The steps of the flush loop.                                            *)

(* Sizes and offsets in lines and bytes.                                   *)
LEMMA LineFacts ==
  ASSUME IInv
  PROVE  /\ size \in Nat /\ offset \in Nat /\ chunk \in Nat
         /\ Lines(size) \in 0..MaxLine /\ Lines(offset) \in 0..MaxLine
         /\ 2 * Lines(size) <= size /\ 2 * Lines(offset) = offset
         /\ Lines(offset) <= Lines(size)
<1>1. size \in Nat /\ offset \in Nat /\ chunk \in Nat /\ size <= 2 * MaxLine
      /\ offset <= size /\ offset % 2 = 0
  BY DEF IInv, TypeOK, Cursor, LineBytes
<1>2. Lines(size) \in Nat /\ 2 * Lines(size) <= size /\ size < 2 * Lines(size) + 2
  BY <1>1, LinesOfBytes
<1>3. Lines(offset) \in Nat /\ 2 * Lines(offset) <= offset /\ offset < 2 * Lines(offset) + 2
  BY <1>1, LinesOfBytes
<1>4. 2 * Lines(offset) = offset
  BY <1>1, <1>3
<1> QED BY <1>1, <1>2, <1>3, <1>4

(* The invariant through each kind of step.                                *)
LEMMA FlushTypes ==
  ASSUME IInv, Flush
  PROVE  TypeOK'
<1>1. CASE ReadChunk
  <2>1. Lines(size) \in 0..MaxLine /\ Lines(offset) + 1 \in 0..MaxLine
    BY <1>1, LineFacts DEF ReadChunk, LineBytes
  <2> QED BY <1>1, <2>1 DEF ReadChunk, IInv, TypeOK, mirror_vars, ring_vars, down_vars
<1>2. CASE NothingNew
  BY <1>2 DEF NothingNew, IInv, TypeOK, log_vars, ring_vars, down_vars
<1>3. CASE ConvertChunk
  <2> DEFINE first == Lines(offset) + 1
             piece == Shifted(Log2asc(first, chunk), first - session_t0)
  <2>0. fpc = "converting"
    BY <1>3 DEF ConvertChunk
  <2>1. first \in Nat /\ chunk \in Nat /\ 1 <= first /\ first <= chunk /\ session_t0 = 1
    BY <2>0, LineFacts DEF IInv, Cursor
  <2>2. piece \in Seq(Int) /\ Len(piece) = chunk - first + 2
    BY <2>1, ShiftedLines
  <2>3. piece # <<>>
    BY <2>1, <2>2
  <2>4. Tail(piece) \in Seq(Int)
    BY <2>2, <2>3, HeadTailProperties
  <2> HIDE DEF piece
  <2>5. pipe' \in Seq(Int) /\ fpc' \in {"appending", "mirroring"} /\ todo' \subseteq Files
    BY <1>3, <2>2, <2>4 DEF ConvertChunk, IInv, TypeOK, piece
  <2> QED BY <1>3, <2>5 DEF ConvertChunk, IInv, TypeOK, ring_vars, down_vars
<1>4. CASE ChunkAppended
  BY <1>4 DEF ChunkAppended, IInv, TypeOK, ring_vars, down_vars, LineBytes
<1>5. ASSUME NEW f \in Files, StatFile(f) PROVE TypeOK'
  <2>1. mtime[f] \in 0..MaxClock
    BY DEF IInv, TypeOK
  <2>2. fpc' \in {"mirroring", "copying"} /\ tmp' \subseteq Files /\ todo' \subseteq Files
    BY <1>5 DEF StatFile, IInv, TypeOK
  <2> QED BY <1>5, <2>1, <2>2 DEF StatFile, IInv, TypeOK, log_vars, ring_vars, down_vars
<1>6. CASE CopyFile
  <2>1. mirror' \in [Files -> 0..MaxWrite] /\ tmp' \subseteq Files
    BY <1>6 DEF CopyFile, IInv, TypeOK
  <2>2. last' \in [Files -> 0..MaxClock]
    BY <1>6 DEF CopyFile, IInv, TypeOK
  <2> QED BY <1>6, <2>1, <2>2 DEF CopyFile, IInv, TypeOK, log_vars, ring_vars, down_vars
<1>7. CASE PassDone
  BY <1>7 DEF PassDone, IInv, TypeOK, log_vars, mirror_vars, ring_vars, down_vars
<1> QED BY <1>1, <1>2, <1>3, <1>4, <1>5, <1>6, <1>7 DEF Flush

LEMMA FlushIInv ==
  ASSUME IInv, Flush
  PROVE  IInv'
<1>1. TypeOK'
  BY FlushTypes
<1>2. UNCHANGED <<size, can_asc, teardown, asc>> /\ fpc # "dead" /\ can_asc = "capturing"
  BY DEF Flush, ReadChunk, NothingNew, ConvertChunk, ChunkAppended, StatFile, CopyFile,
         PassDone, log_vars, down_vars, IInv, TypeOK, DeadInTeardown
<1>3. Follows /\ Extent
  BY <1>2 DEF IInv, Incremental
<1>4. /\ size \in Nat /\ offset \in Nat /\ chunk \in Nat
      /\ Lines(size) \in Nat /\ Lines(offset) \in Nat
      /\ 2 * Lines(size) <= size /\ 2 * Lines(offset) = offset
  BY LineFacts
<1>5. CASE ReadChunk
  <2>1. /\ chunk' = Lines(size) /\ 2 * Lines(size) > offset
        /\ session_t0' = (IF session_t0 = 0 THEN Lines(offset) + 1 ELSE session_t0)
        /\ fpc' = "converting" /\ fpc = "sleeping" /\ UNCHANGED <<offset, pipe>>
    BY <1>5 DEF ReadChunk, LineBytes
  <2>2. offset = 0 => Lines(offset) = 0
    BY <1>4
  <2>3. session_t0' = 1
    BY <1>4, <2>1, <2>2 DEF IInv, Cursor
  <2>4. Lines(offset) < Lines(size)
    BY <1>4, <2>1
  <2>5. Cursor'
    BY <1>2, <1>4, <2>1, <2>3, <2>4 DEF IInv, Cursor
  <2>6. Follows' /\ Extent'
    BY <1>2, <1>3, <2>1 DEF Follows, Extent, Flushed
  <2> QED BY <1>1, <1>2, <2>5, <2>6 DEF IInv, Incremental, DeadInTeardown
<1>6. CASE ConvertChunk
  <2> DEFINE first == Lines(offset) + 1
             piece == Shifted(Log2asc(first, chunk), first - session_t0)
  <2>1. /\ fpc = "converting" /\ session_t0 = 1 /\ UNCHANGED <<offset, chunk, session_t0>>
        /\ \/ fpc' = "appending" /\ pipe' = IF offset = 0 THEN piece ELSE Tail(piece)
           \/ fpc' = "mirroring" /\ UNCHANGED pipe
    BY <1>6 DEF ConvertChunk, IInv, Cursor
  <2>2. Cursor'
    BY <1>2, <1>6, <2>1 DEF IInv, Cursor
  <2>3. CASE fpc' = "mirroring" /\ UNCHANGED pipe
    <3>1. Follows' /\ Extent'
      BY <1>2, <1>3, <2>1, <2>3 DEF Follows, Extent, Flushed
    <3> QED BY <1>1, <1>2, <2>2, <3>1 DEF IInv, Incremental, DeadInTeardown
  <2>4. CASE fpc' = "appending" /\ pipe' = IF offset = 0 THEN piece ELSE Tail(piece)
    <3>1. first \in Nat /\ 1 <= first /\ first <= chunk
      BY <1>4, <2>1 DEF IInv, Cursor
    <3>2. /\ piece \in Seq(Int) /\ Len(piece) = chunk - first + 2 /\ piece[1] = Header
          /\ \A k \in 2..(chunk - first + 2) : piece[k] = Timeline(first - 1 + k)
      BY <1>4, <2>1, <3>1, ShiftedLines
    <3> HIDE DEF piece
    <3>3. Len(asc) = Flushed /\ asc \in Seq(Int)
      BY <1>3, <2>1 DEF Extent, IInv, TypeOK
    <3>4. CASE offset = 0
      <4>1. first = 1 /\ Len(asc) = 0 /\ pipe' = piece
        BY <1>4, <2>4, <3>3, <3>4 DEF Flushed
      <4>2. \A k \in 1..Len(pipe') : pipe'[k] = Timeline(k)
        <5>1. Len(pipe') = chunk + 1 /\ pipe'[1] = Timeline(1)
          BY <1>4, <3>2, <4>1 DEF Timeline
        <5>2. \A k \in 2..(chunk + 1) : pipe'[k] = Timeline(k)
          <6> SUFFICES ASSUME NEW k \in 2..(chunk + 1) PROVE pipe'[k] = Timeline(k)
            OBVIOUS
          <6>1. k \in 2..(chunk - first + 2) /\ first - 1 + k = k
            BY <1>4, <4>1
          <6> QED BY <3>2, <4>1, <6>1
        <5> QED BY <1>4, <5>1, <5>2
      <4>3. Follows'
        BY <1>2, <4>1, <4>2 DEF Follows
      <4>4. Extent'
        BY <1>2, <1>4, <2>1, <2>4, <3>2, <4>1 DEF Extent
      <4> QED BY <1>1, <1>2, <2>2, <4>3, <4>4 DEF IInv, Incremental, DeadInTeardown
    <3>5. CASE offset # 0
      <4>1. Len(asc) = first /\ pipe' = Tail(piece)
        BY <2>4, <3>3, <3>5 DEF Flushed
      <4>2. /\ Len(pipe') = chunk - first + 1
            /\ \A k \in 1..Len(pipe') : pipe'[k] = piece[k + 1]
        <5>1. piece # <<>>
          BY <1>4, <3>1, <3>2
        <5>2. /\ Len(Tail(piece)) = Len(piece) - 1
              /\ \A k \in 1..Len(Tail(piece)) : Tail(piece)[k] = piece[k + 1]
          BY <3>2, <5>1, HeadTailProperties
        <5>3. Len(Tail(piece)) = chunk - first + 1
          BY <1>4, <3>1, <3>2, <5>2
        <5> QED BY <4>1, <5>2, <5>3
      <4>3. \A k \in 1..Len(pipe') : pipe'[k] = Timeline(first + k)
        <5> SUFFICES ASSUME NEW k \in 1..Len(pipe') PROVE pipe'[k] = Timeline(first + k)
          OBVIOUS
        <5>1. chunk \in Nat /\ first \in Nat /\ k \in 1..(chunk - first + 1)
          BY <1>4, <3>1, <4>2
        <5> HIDE DEF first
        <5>2. k + 1 \in 2..(chunk - first + 2) /\ first - 1 + (k + 1) = first + k
          BY <5>1
        <5> QED BY <3>2, <4>2, <5>2
      <4>4. Follows'
        BY <1>2, <1>3, <4>1, <4>3 DEF Follows
      <4>5. Extent'
        BY <1>2, <1>4, <2>1, <2>4, <3>1, <4>1, <4>2 DEF Extent
      <4> QED BY <1>1, <1>2, <2>2, <4>4, <4>5 DEF IInv, Incremental, DeadInTeardown
    <3> QED BY <3>4, <3>5
  <2> QED BY <2>1, <2>3, <2>4
<1>7. CASE ChunkAppended
  <2>1. /\ fpc = "appending" /\ fpc' = "mirroring" /\ offset' = 2 * chunk
        /\ pipe = <<>> /\ UNCHANGED <<pipe, session_t0>>
    BY <1>7 DEF ChunkAppended, LineBytes
  <2>2. Lines(offset') = chunk /\ offset' \in Nat
    <3>1. 2 * chunk \in Nat
      BY <1>4
    <3>2. Lines(2 * chunk) = chunk
      BY <1>4, BytesOfLines
    <3> QED BY <2>1, <3>1, <3>2
  <2>3. chunk <= Lines(size) /\ 0 < chunk /\ session_t0 = 1
    BY <1>4, <2>1, LinesOfBytes DEF IInv, Cursor
  <2>4. Cursor'
    BY <1>2, <1>4, <2>1, <2>2, <2>3, LinesOfBytes DEF Cursor
  <2>5. Len(asc) = chunk + 1
    <3>1. Len(asc) \in Nat /\ Len(pipe) = 0
      BY <2>1 DEF IInv, TypeOK
    <3> QED BY <1>3, <2>1, <3>1 DEF Extent
  <2>6. Follows' /\ Extent'
    BY <1>2, <1>3, <1>4, <2>1, <2>2, <2>3, <2>5 DEF Follows, Extent, Flushed
  <2> QED BY <1>1, <1>2, <2>4, <2>6 DEF IInv, Incremental, DeadInTeardown
<1>8. CASE NothingNew \/ (\E f \in Files : StatFile(f)) \/ CopyFile \/ PassDone
  <2>1. /\ fpc \in {"sleeping", "mirroring", "copying"}
        /\ fpc' \in {"sleeping", "mirroring", "copying"}
        /\ UNCHANGED log_vars
    BY <1>8 DEF NothingNew, StatFile, CopyFile, PassDone
  <2>2. Cursor' /\ Follows' /\ Extent'
    BY <1>2, <1>3, <2>1 DEF IInv, Cursor, Follows, Extent, Flushed, log_vars
  <2> QED BY <1>1, <1>2, <2>2 DEF IInv, Incremental, DeadInTeardown
<1> QED BY <1>5, <1>6, <1>7, <1>8 DEF Flush

-----------------------------------------------------------------------------
(* The steps of the writers and of the teardown.                           *)

LEMMA PipeIInv ==
  ASSUME IInv, PipeAppends
  PROVE  IInv'
<1>1. /\ pipe # <<>> /\ pipe \in Seq(Int) /\ asc \in Seq(Int)
      /\ asc' = Append(asc, Head(pipe)) /\ pipe' = Tail(pipe)
      /\ UNCHANGED <<fpc, size, offset, session_t0, chunk, can_asc, teardown>>
  BY DEF PipeAppends, IInv, TypeOK, down_vars
<1>2. /\ Head(pipe) \in Int /\ Head(pipe) = pipe[1]
      /\ pipe' \in Seq(Int) /\ Len(pipe') = Len(pipe) - 1
      /\ \A k \in 1..Len(pipe') : pipe'[k] = pipe[k + 1]
  BY <1>1, HeadTailProperties
<1>3. /\ asc' \in Seq(Int) /\ Len(asc') = Len(asc) + 1 /\ asc'[Len(asc) + 1] = pipe[1]
      /\ \A k \in 1..Len(asc) : asc'[k] = asc[k]
  BY <1>1, <1>2, AppendProperties
<1>4. Len(asc) \in Nat /\ Len(pipe) \in Nat \ {0}
  BY <1>1, EmptySeq, LenProperties
<1>5. TypeOK'
  BY <1>1, <1>2, <1>3 DEF PipeAppends, IInv, TypeOK, mirror_vars, ring_vars, down_vars
<1>6. Cursor' /\ DeadInTeardown'
  BY <1>1 DEF IInv, Cursor, DeadInTeardown
<1>7. ASSUME can_asc \in {"capturing", "ending"} PROVE Follows' /\ Extent'
  <2>1. Follows /\ Extent
    BY <1>7 DEF IInv, Incremental
  <2>2. \A k \in 1..Len(asc') : asc'[k] = Timeline(k)
    <3> SUFFICES ASSUME NEW k \in 1..Len(asc') PROVE asc'[k] = Timeline(k)
      OBVIOUS
    <3>1. CASE k \in 1..Len(asc)
      BY <1>3, <2>1, <3>1 DEF Follows
    <3>2. CASE k = Len(asc) + 1
      <4>1. 1 \in 1..Len(pipe) /\ pipe[1] = Timeline(Len(asc) + 1)
        BY <1>4, <2>1 DEF Follows
      <4> QED BY <1>3, <3>2, <4>1
    <3> QED BY <1>3, <1>4, <3>1, <3>2
  <2>3. \A k \in 1..Len(pipe') : pipe'[k] = Timeline(Len(asc') + k)
    <3> SUFFICES ASSUME NEW k \in 1..Len(pipe') PROVE pipe'[k] = Timeline(Len(asc') + k)
      OBVIOUS
    <3>1. k + 1 \in 1..Len(pipe) /\ Len(asc) + (k + 1) = Len(asc') + k
      BY <1>2, <1>3, <1>4
    <3> QED BY <1>2, <2>1, <3>1 DEF Follows
  <2>4. Extent'
    <3>1. Len(asc') + Len(pipe') = Len(asc) + Len(pipe)
      BY <1>2, <1>3, <1>4
    <3>2. fpc \in {"appending", "dead"}
      BY <1>1, <2>1 DEF Extent, IInv, TypeOK
    <3> QED BY <1>1, <2>1, <3>1, <3>2 DEF Extent
  <2> QED BY <2>2, <2>3, <2>4 DEF Follows
<1> QED BY <1>1, <1>5, <1>6, <1>7 DEF IInv, Incremental

LEMMA RingWraps ==
  ASSUME NEW f \in Nat
  PROVE  (f + 1) % NFiles \in 0..(NFiles - 1)
OBVIOUS

LEMMA WriterIInv ==
  ASSUME IInv, CandumpWrites \/ TcpdumpWrites \/ SecondPasses
  PROVE  IInv'
<1>1. CASE CandumpWrites
  <2>1. size' = size + 1 /\ size < 2 * MaxLine /\ size \in Nat /\ MaxLine \in Nat
    BY <1>1 DEF CandumpWrites, IInv, TypeOK, LineBytes
  <2>2. Lines(size) <= Lines(size') /\ Lines(size) \in Nat /\ Lines(size') \in Nat
    <3>1. size + 1 \in Nat
      BY <2>1
    <3>2. Lines(size + 1) \in Nat /\ size + 1 < 2 * Lines(size + 1) + 2
      BY <3>1, LinesOfBytes
    <3>3. Lines(size) \in Nat /\ 2 * Lines(size) <= size
      BY <2>1, LinesOfBytes
    <3>4. Lines(size) <= Lines(size + 1)
      BY <2>1, <3>2, <3>3
    <3> QED BY <2>1, <3>2, <3>3, <3>4
  <2>3. TypeOK'
    <3>1. size' \in 0..(LineBytes * MaxLine)
      BY <2>1 DEF LineBytes
    <3> QED BY <1>1, <3>1 DEF CandumpWrites, IInv, TypeOK, mirror_vars, ring_vars, down_vars
  <2>4. UNCHANGED <<fpc, asc, offset, session_t0, chunk, pipe, can_asc, teardown>>
    BY <1>1 DEF CandumpWrites, down_vars
  <2>5. Cursor'
    BY <2>1, <2>2, <2>4, LineFacts DEF IInv, Cursor
  <2>6. Incremental' /\ DeadInTeardown'
    <3>1. Len(asc) \in Nat /\ Len(pipe) \in Nat
      BY DEF IInv, TypeOK
    <3> QED BY <2>2, <2>4, <3>1
            DEF IInv, Incremental, DeadInTeardown, Follows, Extent, Flushed
  <2> QED BY <2>3, <2>5, <2>6 DEF IInv
<1>2. CASE TcpdumpWrites
  <2>1. UNCHANGED <<fpc, log_vars, can_asc, teardown>>
    BY <1>2 DEF TcpdumpWrites, down_vars
  <2>2. cur' \in Files
    <3>1. cur \in Files /\ cur \in Nat /\ (cur + 1) % NFiles \in Files
      BY RingWraps DEF IInv, TypeOK, Files
    <3> QED BY <1>2, <3>1 DEF TcpdumpWrites
  <2>3. content[cur'] \in 0..MaxWrite /\ content[cur'] < MaxWrite /\ clock \in 0..MaxClock
    BY <1>2, <2>2 DEF TcpdumpWrites, IInv, TypeOK
  <2>4. content' \in [Files -> 0..MaxWrite] /\ mtime' \in [Files -> 0..MaxClock]
    <3>1. PICK f \in Files : f = cur'
      BY <2>2
    <3>2. content[f] + 1 \in 0..MaxWrite
      BY <2>3, <3>1
    <3>3. content' = [content EXCEPT ![f] = @ + 1] /\ mtime' = [mtime EXCEPT ![f] = clock]
      BY <1>2, <3>1 DEF TcpdumpWrites
    <3> QED BY <2>3, <3>2, <3>3 DEF IInv, TypeOK
  <2>5. older' \in [Files -> 0..MaxWrite]
    BY <1>2, <2>2, <2>3 DEF TcpdumpWrites, IInv, TypeOK
  <2>6. TypeOK'
    BY <1>2, <2>2, <2>4, <2>5
    DEF TcpdumpWrites, IInv, TypeOK, log_vars, mirror_vars, down_vars
  <2> QED BY <2>1, <2>6 DEF IInv, Cursor, Incremental, DeadInTeardown, Follows, Extent,
                            Flushed, log_vars
<1>3. CASE SecondPasses
  <2>1. TypeOK'
    <3>1. clock' \in 0..MaxClock
      BY <1>3 DEF SecondPasses, IInv, TypeOK
    <3> QED BY <1>3, <3>1 DEF SecondPasses, IInv, TypeOK, log_vars, mirror_vars, down_vars
  <2> QED BY <1>3, <2>1
          DEF SecondPasses, IInv, Cursor, Incremental, DeadInTeardown, Follows, Extent,
              Flushed, log_vars, down_vars
<1> QED BY <1>1, <1>2, <1>3

LEMMA TeardownIInv ==
  ASSUME IInv, SignalChildren \/ Teardown
  PROVE  IInv'
<1>1. CASE SignalChildren
  <2>1. /\ fpc' = "dead" /\ can_asc' = "ending" /\ teardown' = "joining"
        /\ UNCHANGED <<size, asc, pipe, offset, session_t0>>
    BY <1>1 DEF SignalChildren, log_vars
  <2>2. TypeOK'
    BY <1>1 DEF SignalChildren, IInv, TypeOK, log_vars, mirror_vars, ring_vars
  <2>3. Cursor' /\ DeadInTeardown'
    BY <2>1 DEF IInv, Cursor, DeadInTeardown
  <2>4. can_asc = "capturing"
    BY <1>1 DEF SignalChildren, IInv, DeadInTeardown
  <2>5. Follows /\ Extent
    BY <2>4 DEF IInv, Incremental
  <2>6. Len(asc) + Len(pipe) <= Lines(size) + 1
    <3>1. Len(asc) \in Nat /\ Len(pipe) \in Nat
      BY DEF IInv, TypeOK
    <3>2. CASE fpc \in {"sleeping", "converting", "mirroring", "copying"}
      <4>1. Len(pipe) = 0 /\ Len(asc) = Flushed
        BY <2>5, <3>2 DEF Extent
      <4>2. Flushed <= Lines(size) + 1 /\ Flushed \in Nat
        BY LineFacts DEF Flushed, IInv, Cursor
      <4> QED BY <3>1, <4>1, <4>2, LineFacts
    <3>3. CASE fpc = "appending"
      BY <2>5, <3>1, <3>3, LineFacts DEF Extent, IInv, Cursor
    <3>4. CASE fpc = "dead"
      BY <2>5, <3>4 DEF Extent
    <3> QED BY <3>2, <3>3, <3>4 DEF IInv, TypeOK
  <2>7. Follows' /\ Extent'
    BY <2>1, <2>5, <2>6 DEF Follows, Extent
  <2> QED BY <2>2, <2>3, <2>7 DEF IInv, Incremental
<1>2. CASE CandumpEnds
  <2>1. /\ can_asc' \notin {"capturing", "ending"} /\ can_asc = "ending"
        /\ UNCHANGED <<fpc, offset, session_t0, chunk, teardown>>
    BY <1>2 DEF CandumpEnds
  <2>2. size' = size + (size % 2) /\ size <= 2 * MaxLine /\ size \in Nat /\ MaxLine \in Nat
    BY <1>2 DEF CandumpEnds, IInv, TypeOK, LineBytes
  <2>3. size' \in Nat /\ size <= size' /\ size' <= 2 * MaxLine
    BY <2>2
  <2>4. TypeOK'
    <3>1. size' \in 0..(LineBytes * MaxLine)
      BY <2>2, <2>3 DEF LineBytes
    <3>2. asc' \in Seq(Int) /\ can_asc' \in {"done", "writing"}
      <4>1. CASE size' = 0
        BY <1>2, <4>1 DEF CandumpEnds, IInv, TypeOK
      <4>2. CASE size' # 0
        BY <1>2, <4>2, EmptySeq DEF CandumpEnds
      <4> QED BY <4>1, <4>2
    <3> QED BY <1>2, <3>1, <3>2 DEF CandumpEnds, IInv, TypeOK, mirror_vars, ring_vars
  <2>5. fpc = "dead"
    BY <2>1 DEF IInv, DeadInTeardown
  <2>6. Cursor'
    BY <2>1, <2>2, <2>3, <2>5, LineFacts DEF IInv, Cursor
  <2> QED BY <2>1, <2>4, <2>5, <2>6 DEF IInv, Incremental, DeadInTeardown
<1>3. CASE ConversionWrites
  <2>1. /\ can_asc = "writing" /\ written' = written + 1 /\ written < Len(Conversion)
        /\ UNCHANGED <<fpc, size, offset, session_t0, chunk, can_asc, teardown>>
        /\ asc' = IF written' <= Len(asc)
                    THEN [asc EXCEPT ![written'] = Conversion[written']]
                    ELSE Append(asc, Conversion[written'])
    BY <1>3 DEF ConversionWrites
  <2>2. Conversion \in Seq(Int) /\ written \in Nat /\ Len(Conversion) \in Nat
    <3>1. 1 \in Nat /\ Lines(size) \in Nat /\ 1 <= Lines(size) + 1
      BY LineFacts
    <3>2. Conversion \in Seq(Int)
      BY <3>1, Log2ascLines DEF Conversion
    <3>3. written \in Nat
      BY DEF IInv, TypeOK
    <3> QED BY <3>2, <3>3, LenProperties
  <2>3. written' \in 1..Len(Conversion) /\ written' \in Nat
    BY <2>1, <2>2
  <2>4. Conversion[written'] \in Int
    BY <2>2, <2>3, ElementOfSeq
  <2>5. asc \in Seq(Int) /\ Len(asc) \in Nat
    BY DEF IInv, TypeOK
  <2>6. asc' \in Seq(Int)
    <3>1. CASE written' <= Len(asc)
      <4>1. written' \in 1..Len(asc)
        BY <2>2, <2>3, <2>5, <3>1
      <4> QED BY <2>1, <2>4, <2>5, <3>1, <4>1, ExceptSeq
    <3>2. CASE ~(written' <= Len(asc))
      BY <2>1, <2>4, <2>5, <3>2, AppendProperties
    <3> QED BY <3>1, <3>2
  <2>7. TypeOK'
    BY <1>3, <2>2, <2>3, <2>6 DEF ConversionWrites, IInv, TypeOK, mirror_vars, ring_vars
  <2> QED BY <2>1, <2>7 DEF IInv, Cursor, Incremental, DeadInTeardown
<1>4. CASE ConversionDone \/ Join
  <2>1. /\ can_asc \in {"writing", "done"} /\ can_asc' = "done" /\ teardown # "up"
        /\ teardown' # "up" /\ UNCHANGED <<fpc, size, offset, session_t0, chunk>>
    BY <1>4 DEF ConversionDone, Join, log_vars, IInv, DeadInTeardown
  <2>2. TypeOK'
    BY <1>4 DEF ConversionDone, Join, IInv, TypeOK, log_vars, mirror_vars, ring_vars
  <2> QED BY <2>1, <2>2 DEF IInv, Cursor, Incremental, DeadInTeardown
<1>5. CASE CopyRing
  <2>1. UNCHANGED <<fpc, log_vars, can_asc>> /\ teardown = "copying" /\ teardown' = "done"
    BY <1>5 DEF CopyRing
  <2>2. TypeOK'
    BY <1>5 DEF CopyRing, IInv, TypeOK, log_vars, ring_vars
  <2> QED BY <2>1, <2>2 DEF IInv, Cursor, Incremental, DeadInTeardown, Follows, Extent,
                            Flushed, log_vars
<1> QED BY <1>1, <1>2, <1>3, <1>4, <1>5 DEF Teardown

LEMMA Inductive == IInv /\ [Next]_vars => IInv'
<1> SUFFICES ASSUME IInv, [Next]_vars PROVE IInv'
  OBVIOUS
<1>1. CASE UNCHANGED vars
  BY <1>1 DEF vars, log_vars, mirror_vars, ring_vars, down_vars, IInv, TypeOK, Cursor,
              Incremental, DeadInTeardown, Follows, Extent, Flushed
<1> QED BY <1>1, FlushIInv, PipeIInv, WriterIInv, TeardownIInv DEF Next

LEMMA AlwaysIInv == Spec => []IInv
BY InitIInv, Inductive, PTL DEF Spec

-----------------------------------------------------------------------------
(* Files, offsets and positions stay in their types.                       *)
THEOREM FlushTyping == Spec => []TypeOK
<1>1. IInv => TypeOK
  BY DEF IInv
<1> QED BY <1>1, AlwaysIInv, PTL

(* Until the final conversion starts, can.asc is a prefix of what one      *)
(* conversion of the whole log would give, wherever the log is cut and     *)
(* whenever a conversion fails or the script dies.                         *)
THEOREM OneTimeline == Spec => []IncrementalIsPrefix
<1>1. ASSUME IInv PROVE IncrementalIsPrefix
  <2> SUFFICES ASSUME can_asc \in {"capturing", "ending"}
               PROVE  /\ Len(asc) <= Len(Conversion)
                      /\ \A k \in 1..Len(asc) : asc[k] = Conversion[k]
    BY DEF IncrementalIsPrefix
  <2>1. Follows /\ Extent
    BY <1>1 DEF IInv, Incremental
  <2>2. Lines(size) \in Nat
    BY <1>1, LineFacts
  <2>3. /\ Len(Conversion) = Lines(size) + 1
        /\ \A k \in 1..(Lines(size) + 1) : Conversion[k] = Timeline(k)
    <3>1. 1 <= Lines(size) + 1 /\ Lines(size) - 1 + 2 = Lines(size) + 1
      BY <2>2
    <3> QED BY <2>2, <3>1, Log2ascLines DEF Conversion
  <2>4. Len(asc) \in Nat /\ Len(pipe) \in Nat
    BY <1>1 DEF IInv, TypeOK
  <2>5. Len(asc) <= Lines(size) + 1
    <3>1. CASE fpc = "appending"
      BY <1>1, <2>1, <2>4, <3>1, LineFacts DEF Extent, IInv, Cursor
    <3>2. CASE fpc = "dead"
      BY <2>1, <2>2, <2>4, <3>2 DEF Extent
    <3>3. CASE fpc \in {"sleeping", "converting", "mirroring", "copying"}
      BY <1>1, <2>1, <3>3, LineFacts DEF Extent, Flushed, IInv, Cursor
    <3> QED BY <1>1, <3>1, <3>2, <3>3 DEF IInv, TypeOK
  <2> QED BY <2>1, <2>2, <2>3, <2>4, <2>5 DEF Follows
<1> QED BY <1>1, AlwaysIInv, PTL

(* Between two passes can.asc is exactly the conversion of the bytes up to *)
(* the offset: a failed chunk is retried, a successful one never repeated. *)
THEOREM OffsetIsExact == Spec => []OffsetMatchesAsc
<1>1. ASSUME IInv PROVE OffsetMatchesAsc
  <2> SUFFICES ASSUME fpc = "sleeping"
               PROVE  asc = IF offset = 0 THEN <<>> ELSE Log2asc(1, Lines(offset))
    BY DEF OffsetMatchesAsc
  <2>1. Follows /\ Len(asc) = Flushed /\ asc \in Seq(Int)
    BY <1>1 DEF IInv, TypeOK, Incremental, DeadInTeardown, Extent
  <2>2. CASE offset = 0
    BY <2>1, <2>2, EmptySeq DEF Flushed
  <2>3. CASE offset # 0
    <3>1. Lines(offset) \in Nat
      BY <1>1, LineFacts
    <3>2. /\ Log2asc(1, Lines(offset)) \in Seq(Int)
          /\ Len(Log2asc(1, Lines(offset))) = Lines(offset) + 1
          /\ \A k \in 1..(Lines(offset) + 1) : Log2asc(1, Lines(offset))[k] = Timeline(k)
      <4>1. 1 <= Lines(offset) + 1 /\ Lines(offset) - 1 + 2 = Lines(offset) + 1
        BY <3>1
      <4> QED BY <3>1, <4>1, Log2ascLines
    <3>3. Len(asc) = Lines(offset) + 1
      BY <2>1, <2>3 DEF Flushed
    <3>4. \A k \in 1..Len(asc) : asc[k] = Log2asc(1, Lines(offset))[k]
      BY <2>1, <3>2, <3>3 DEF Follows
    <3> QED BY <2>1, <2>3, <3>2, <3>3, <3>4, SeqEqual
  <2> QED BY <2>2, <2>3
<1> QED BY <1>1, AlwaysIInv, PTL
-----------------------------------------------------------------------------
(* A ring file's writes before its mtime's second are among all its        *)
(* writes; a recorded mtime is never ahead of the file; and a copy whose   *)
(* recorded mtime is the file's holds more than those earlier writes,      *)
(* unless it is still a .tmp file.  The mtime read before the cp can only  *)
(* be older than the content the cp finds.                                 *)
Lag ==
  /\ \A f \in Files :
       /\ older[f] <= content[f] /\ last[f] <= mtime[f] /\ mtime[f] <= clock
       /\ mtime[f] > 0 => older[f] < content[f]
       /\ f \notin tmp /\ last[f] = mtime[f] /\ last[f] > 0 => mirror[f] > older[f]
  /\ fpc = "copying" => seen <= mtime[name] /\ name \in tmp

(* The numbers kept of one ring file are natural numbers.                  *)
RingAt(f) ==
  /\ older[f] \in Nat /\ content[f] \in Nat /\ mtime[f] \in Nat /\ last[f] \in Nat
  /\ mirror[f] \in Nat /\ clock \in Nat

LEMMA RingNumbers ==
  ASSUME TypeOK, NEW f \in Files
  PROVE  RingAt(f)
BY DEF TypeOK, RingAt

(* A write falls in the recorded second, or makes the file a newer one.    *)
LEMMA RingLags ==
  ASSUME IInv, Lag, TcpdumpWrites
  PROVE  Lag'
<1>1. PICK g : g = cur'
  OBVIOUS
<1>2. g \in Files
  <2>1. cur \in Files /\ (cur + 1) % NFiles \in Files
    BY RingWraps DEF IInv, TypeOK, Files
  <2> QED BY <1>1, <2>1 DEF TcpdumpWrites
<1>3. /\ content' = [content EXCEPT ![g] = @ + 1]
      /\ older' = [older EXCEPT ![g] = IF mtime[g] = clock THEN @ ELSE content[g]]
      /\ mtime' = [mtime EXCEPT ![g] = clock]
      /\ UNCHANGED <<fpc, name, seen, last, mirror, tmp, clock>>
  BY <1>1 DEF TcpdumpWrites, mirror_vars
<1>4. /\ content \in [Files -> Nat] /\ older \in [Files -> Nat] /\ mtime \in [Files -> Nat]
      /\ name \in Files /\ seen \in Nat
  BY DEF IInv, TypeOK
<1>5. ASSUME NEW f \in Files
      PROVE  /\ older'[f] <= content'[f] /\ last[f] <= mtime'[f] /\ mtime'[f] <= clock
             /\ mtime'[f] > 0 => older'[f] < content'[f]
             /\ f \notin tmp /\ last[f] = mtime'[f] /\ last[f] > 0 => mirror[f] > older'[f]
             /\ mtime[f] <= mtime'[f]
  <2>1. RingAt(f)
    BY RingNumbers DEF IInv
  <2>2. /\ older[f] <= content[f] /\ last[f] <= mtime[f] /\ mtime[f] <= clock
        /\ mtime[f] > 0 => older[f] < content[f]
        /\ f \notin tmp /\ last[f] = mtime[f] /\ last[f] > 0 => mirror[f] > older[f]
    BY DEF Lag
  <2>3. CASE f # g
    BY <1>3, <1>4, <2>1, <2>2, <2>3 DEF RingAt
  <2>4. CASE f = g
    <3>1. content'[f] = content[f] + 1 /\ mtime'[f] = clock
          /\ older'[f] = IF mtime[f] = clock THEN older[f] ELSE content[f]
      BY <1>2, <1>3, <1>4, <2>4
    <3> QED BY <2>1, <2>2, <3>1 DEF RingAt
  <2> QED BY <2>3, <2>4
<1>6. fpc = "copying" => seen <= mtime'[name] /\ name \in tmp
  <2>1. mtime[name] <= mtime'[name] /\ mtime[name] \in Nat /\ mtime'[name] \in Nat
    <3>1. clock \in Nat
      BY DEF IInv, TypeOK
    <3> QED BY <1>2, <1>3, <1>4, <1>5, <3>1
  <2> QED BY <1>4, <2>1 DEF Lag
<1> QED BY <1>3, <1>5, <1>6 DEF Lag

(* A copy takes the content that is there, or fails and stays behind.      *)
LEMMA CopyLags ==
  ASSUME IInv, Lag, CopyFile
  PROVE  Lag'
<1>1. /\ fpc = "copying" /\ fpc' = "mirroring"
      /\ last' = [last EXCEPT ![name] = seen]
      /\ \/ mirror' = [mirror EXCEPT ![name] = content[name]] /\ tmp' = tmp \ {name}
         \/ UNCHANGED <<mirror, tmp>>
      /\ UNCHANGED <<content, older, mtime, clock>>
  BY DEF CopyFile, ring_vars
<1>2. /\ name \in Files /\ seen \in Nat /\ name \in tmp /\ seen <= mtime[name]
      /\ last \in [Files -> Nat] /\ mirror \in [Files -> Nat]
  <2>1. /\ name \in Files /\ seen \in Nat
        /\ last \in [Files -> Nat] /\ mirror \in [Files -> Nat]
    BY DEF IInv, TypeOK
  <2> QED BY <1>1, <2>1 DEF Lag
<1>3. ASSUME NEW f \in Files
      PROVE  /\ last'[f] <= mtime[f]
             /\ f \notin tmp' /\ last'[f] = mtime[f] /\ last'[f] > 0 => mirror'[f] > older[f]
  <2>1. RingAt(f)
    BY RingNumbers DEF IInv
  <2>2. /\ older[f] <= content[f] /\ last[f] <= mtime[f] /\ mtime[f] <= clock
        /\ mtime[f] > 0 => older[f] < content[f]
        /\ f \notin tmp /\ last[f] = mtime[f] /\ last[f] > 0 => mirror[f] > older[f]
    BY DEF Lag
  <2>3. CASE f # name
    <3>1. last'[f] = last[f] /\ mirror'[f] = mirror[f] /\ (f \in tmp' <=> f \in tmp)
      BY <1>1, <1>2, <2>3
    <3> QED BY <2>2, <3>1
  <2>4. CASE f = name
    <3>1. last'[f] = seen /\ (f \notin tmp' => mirror'[f] = content[f])
      BY <1>1, <1>2, <2>4
    <3> QED BY <1>2, <2>1, <2>2, <2>4, <3>1 DEF RingAt
  <2> QED BY <2>3, <2>4
<1> QED BY <1>1, <1>3 DEF Lag

(* The mtime read before the copy is that of a write that the copy has.    *)
LEMMA StatLags ==
  ASSUME IInv, Lag, NEW g \in Files, StatFile(g)
  PROVE  Lag'
<1>1. /\ name' = g /\ seen' = mtime[g]
      /\ \/ fpc' = "copying" /\ tmp' = tmp \union {g}
         \/ fpc' = "mirroring" /\ tmp' = tmp
      /\ UNCHANGED <<content, older, mtime, clock, last, mirror>>
  BY DEF StatFile, ring_vars
<1>2. mtime[g] <= mtime[g]
  BY RingNumbers DEF IInv, RingAt
<1> QED BY <1>1, <1>2 DEF Lag

LEMMA LagStep ==
  ASSUME IInv, Lag, [Next]_vars
  PROVE  Lag'
<1>1. CASE TcpdumpWrites
  BY <1>1, RingLags
<1>2. CASE CopyFile
  BY <1>2, CopyLags
<1>3. CASE \E f \in Files : StatFile(f)
  BY <1>3, StatLags
<1>4. CASE SecondPasses
  <2>1. /\ clock' = clock + 1 /\ UNCHANGED <<fpc, name, seen, last, mirror, tmp, content, older, mtime>>
    BY <1>4 DEF SecondPasses, mirror_vars
  <2>2. \A f \in Files : mtime[f] <= clock + 1
    BY RingNumbers DEF IInv, RingAt, Lag
  <2> QED BY <2>1, <2>2 DEF Lag
<1>5. CASE CopyRing
  <2>1. mirror' = content /\ UNCHANGED <<fpc, name, seen, last, tmp, content, older, mtime, clock>>
    BY <1>5 DEF CopyRing, ring_vars
  <2>2. \A f \in Files : last[f] = mtime[f] /\ last[f] > 0 => content[f] > older[f]
    BY RingNumbers DEF IInv, RingAt, Lag
  <2> QED BY <2>1, <2>2 DEF Lag
<1>6. CASE ~(TcpdumpWrites \/ CopyFile \/ (\E f \in Files : StatFile(f)) \/ SecondPasses \/ CopyRing)
  <2>1. /\ UNCHANGED <<name, seen, last, mirror, tmp, content, older, mtime, clock>>
        /\ fpc' = "copying" => fpc = "copying"
    BY <1>6 DEF Next, Flush, Teardown, CandumpWrites, ReadChunk, NothingNew, ConvertChunk,
                ChunkAppended, PassDone, PipeAppends, SignalChildren, CandumpEnds,
                ConversionWrites, ConversionDone, Join, vars, mirror_vars, ring_vars
  <2> QED BY <2>1 DEF Lag
<1> QED BY <1>1, <1>2, <1>3, <1>4, <1>5, <1>6

(* capture/flush_session.sh:90-107: the mtime is read before the copy and  *)
(* recorded after it, so a write between the two is seen at the next pass. *)
(* With any number of ring files, a copy whose recorded mtime is the       *)
(* file's lags it by the writes of one second at most, a cp that fails     *)
(* aside.                                                                  *)
THEOREM MirrorLags == Spec => []MirrorLagsOneSecond
<1>1. Init => Lag
  BY DEF Init, Lag, Files
<1>2. IInv /\ Lag /\ [Next]_vars => Lag'
  BY LagStep
<1>3. Lag => MirrorLagsOneSecond
  BY DEF Lag, MirrorLagsOneSecond
<1> QED BY <1>1, <1>2, <1>3, InitIInv, Inductive, PTL DEF Spec

(* The TERM finds the flush between two passes.                            *)
NoTermInFlush == "term_in_flush" \notin Faults

(* From the TERM on nothing is left in the pipe; the conversion has        *)
(* written its first lines and nothing else is in the file; the ring is    *)
(* copied after the join.                                                  *)
Replaced ==
  /\ can_asc # "capturing" => pipe = <<>>
  /\ can_asc \in {"capturing", "ending"} => written = 0
  /\ can_asc = "writing" =>
       Len(asc) = written /\ written <= Len(Conversion) /\ \A k \in 1..written : asc[k] = Conversion[k]
  /\ can_asc = "done" /\ size > 0 => asc = Conversion
  /\ teardown \in {"copying", "done"} => can_asc = "done"
  /\ teardown = "done" => mirror = content

LEMMA ConversionType ==
  ASSUME IInv
  PROVE  Conversion \in Seq(Int) /\ Len(Conversion) \in Nat
<1>1. 1 \in Nat /\ Lines(size) \in Nat /\ 1 <= Lines(size) + 1
  BY LineFacts
<1>2. Conversion \in Seq(Int)
  BY <1>1, Log2ascLines DEF Conversion
<1> QED BY <1>2, LenProperties

LEMMA WriteReplaces ==
  ASSUME IInv, Replaced, ConversionWrites
  PROVE  Replaced'
<1>1. /\ can_asc = "writing" /\ written' = written + 1 /\ written < Len(Conversion)
      /\ UNCHANGED <<size, can_asc, teardown, pipe, mirror, content>>
      /\ asc' = IF written' <= Len(asc)
                  THEN [asc EXCEPT ![written'] = Conversion[written']]
                  ELSE Append(asc, Conversion[written'])
  BY DEF ConversionWrites, mirror_vars, ring_vars
<1>2. PICK C : C = Conversion
  OBVIOUS
<1>3. PICK w : w = written + 1
  OBVIOUS
<1>4. C \in Seq(Int) /\ Len(C) \in Nat /\ written \in Nat /\ asc \in Seq(Int)
  BY <1>2, ConversionType DEF IInv, TypeOK
<1>5. Len(asc) = written /\ \A k \in 1..written : asc[k] = C[k]
  BY <1>1, <1>2 DEF Replaced
<1>6. w \in 1..Len(C) /\ C[w] \in Int
  BY <1>1, <1>2, <1>3, <1>4, ElementOfSeq
<1>7. asc' = Append(asc, C[w])
  <2>1. written' = w /\ ~(w <= Len(asc))
    BY <1>1, <1>3, <1>4, <1>5
  <2> QED BY <1>1, <1>2, <2>1
<1>8. Len(asc') = w /\ asc'[w] = C[w] /\ \A k \in 1..written : asc'[k] = asc[k]
  <2>1. w = Len(asc) + 1
    BY <1>3, <1>5
  <2> QED BY <1>4, <1>5, <1>6, <1>7, <2>1, AppendProperties
<1>9. \A k \in 1..w : asc'[k] = C[k]
  <2>1. \A k \in 1..w : k \in 1..written \/ k = w
    BY <1>3, <1>4
  <2> QED BY <1>5, <1>8, <2>1
<1>10. Conversion' = C
  BY <1>1, <1>2 DEF Conversion
<1>11. Len(asc') = written' /\ written' <= Len(C) /\ \A k \in 1..written' : asc'[k] = C[k]
  BY <1>1, <1>3, <1>6, <1>8, <1>9
<1>12. teardown \notin {"copying", "done"} /\ pipe = <<>>
  BY <1>1 DEF Replaced
<1> QED BY <1>1, <1>10, <1>11, <1>12 DEF Replaced

LEMMA ReplacedStep ==
  ASSUME NoTermInFlush, IInv, Replaced, [Next]_vars
  PROVE  Replaced'
<1>0. /\ can_asc \in {"capturing", "ending", "writing", "done"}
      /\ teardown \in {"up", "joining", "copying", "done"}
      /\ can_asc # "capturing" => fpc = "dead"
      /\ teardown = "up" <=> can_asc = "capturing"
  BY DEF IInv, TypeOK, DeadInTeardown
<1>1. CASE CandumpWrites
  BY <1>0, <1>1 DEF CandumpWrites, Replaced, down_vars
<1>2. CASE TcpdumpWrites
  BY <1>2 DEF TcpdumpWrites, Replaced, Conversion, log_vars, mirror_vars, down_vars
<1>3. CASE SecondPasses \/ UNCHANGED vars
  BY <1>3 DEF SecondPasses, Replaced, Conversion, vars, log_vars, mirror_vars, down_vars, ring_vars
<1>4. CASE Flush
  <2>1. fpc # "dead" /\ UNCHANGED down_vars
    BY <1>4 DEF Flush, ReadChunk, NothingNew, ConvertChunk, ChunkAppended, StatFile, CopyFile, PassDone
  <2> QED BY <1>0, <2>1 DEF Replaced, down_vars
<1>5. CASE PipeAppends
  <2>1. can_asc = "capturing" /\ UNCHANGED down_vars
    BY <1>5 DEF PipeAppends, Replaced
  <2> QED BY <1>0, <2>1 DEF Replaced, down_vars
<1>6. CASE SignalChildren
  <2>1. /\ fpc = "sleeping" /\ can_asc' = "ending" /\ teardown' = "joining" /\ teardown = "up"
        /\ pipe' = pipe /\ written' = written
    BY <1>6 DEF SignalChildren, NoTermInFlush, log_vars
  <2>2. pipe = <<>> /\ written = 0
    BY <1>0, <2>1 DEF Replaced, IInv, Incremental, Extent
  <2> QED BY <2>1, <2>2 DEF Replaced
<1>7. CASE CandumpEnds
  <2>1. /\ can_asc = "ending" /\ UNCHANGED <<pipe, written, teardown>>
        /\ \/ size' = 0 /\ can_asc' = "done"
           \/ can_asc' = "writing" /\ asc' = <<>>
    BY <1>7 DEF CandumpEnds
  <2>2. pipe = <<>> /\ written = 0 /\ teardown \notin {"copying", "done"}
    BY <2>1 DEF Replaced
  <2>3. IInv'
    BY Inductive
  <2>4. 0 <= Len(Conversion)'
    BY <2>3, ConversionType
  <2> QED BY <2>1, <2>2, <2>4 DEF Replaced
<1>8. CASE ConversionWrites
  BY <1>8, WriteReplaces
<1>9. CASE ConversionDone
  <2>1. /\ can_asc = "writing" /\ written = Len(Conversion) /\ can_asc' = "done"
        /\ UNCHANGED <<size, asc, pipe, teardown, written>>
    BY <1>9 DEF ConversionDone, log_vars
  <2>2. asc = Conversion
    BY <2>1, ConversionType, SeqEqual DEF Replaced, IInv, TypeOK
  <2> QED BY <2>1, <2>2 DEF Replaced, Conversion
<1>10. CASE Join
  BY <1>10 DEF Join, Replaced, Conversion, log_vars, mirror_vars, ring_vars
<1>11. CASE CopyRing
  BY <1>11 DEF CopyRing, Replaced, Conversion, log_vars, ring_vars
<1> QED BY <1>1, <1>2, <1>3, <1>4, <1>5, <1>6, <1>7, <1>8, <1>9, <1>10, <1>11 DEF Next, Teardown

(* dimensions/06_can_asc.sh, 05_usb_pcap.sh after a flush between two      *)
(* passes: can.asc is the conversion of the whole log and the session's    *)
(* copies are the ring, whatever the flush had written and whichever of    *)
(* its copies had failed.                                                  *)
THEOREM TeardownReplaces ==
  ASSUME NoTermInFlush
  PROVE  Spec => []TeardownOverwrites
<1>1. Init => Replaced
  BY DEF Init, Replaced
<1>2. IInv /\ Replaced /\ [Next]_vars => Replaced'
  BY NoTermInFlush, ReplacedStep
<1>3. Replaced => TeardownOverwrites
  BY DEF Replaced, TeardownOverwrites
<1> QED BY <1>1, <1>2, <1>3, InitIInv, Inductive, PTL DEF Spec
=============================================================================
