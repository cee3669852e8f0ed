---------------------------- MODULE BootRomProofs ----------------------------
(***************************************************************************)
(* Theorems about hpmtool's conversation with the boot ROM, for every list *)
(* of files, chunk size, length of a read and set of faults: the two       *)
(* transports keep the promise of ReliableRequest; after a write that went *)
(* well the files and the configuration are in the flash; what a read      *)
(* saves is whole.                                                         *)
(***************************************************************************)
EXTENDS BootRom, SequenceTheorems, WellFoundedInduction, TLAPS

(* What the frames and the counters are.                                   *)
Shape ==
  /\ k \in Nat /\ sent \in Nat /\ reading \in 0..Packets
  /\ pc \in {"send", "ack", "answer", "response", "packets"}
  /\ toChip \in Seq(Frames) /\ toHost \in Seq(Frames)
  /\ executed \subseteq 1..k
  /\ \A j \in DOMAIN toChip : toChip[j].req <= k

(* While nothing can be late a single frame is on its way, or two from the *)
(* chip, all of the command in hand; what is on its way, and whether the   *)
(* command was carried out, goes with where the tool is.                   *)
Chipward ==
  toChip # <<>> =>
    /\ Len(toChip) = 1 /\ toHost = <<>> /\ toChip[1].req = k
    /\ \/ toChip[1].kind = "ack" /\ pc = "packets"
       \/ /\ toChip[1].kind = "data" /\ toChip[1].part = sent
          /\ pc \in {"ack", "answer"} /\ k \notin executed

Hostward ==
  /\ pc = "send" => toChip = <<>> /\ toHost = <<>> /\ k \notin executed
  /\ pc \in {"ack", "response", "packets"} => Len(toHost) \in {0, 1}
  /\ pc = "answer" => /\ Len(toHost) \in {0, 1, 2}
                      /\ Len(toHost) = 2 => toHost[1].kind = "ack" /\ toHost[2].kind = "answer"
  /\ pc = "ack" => k \notin executed /\ sent # Request(k).parts
  /\ pc = "packets" => k \in executed
  /\ \A j \in DOMAIN toHost :
       (toHost[j].kind = "answer" /\ toHost[j].part = 0 /\ k # 0) => k \in executed

Token == Chipward /\ Hostward

Safe == trusted => Token

-----------------------------------------------------------------------------
(* The requests of a run do not change.                                    *)
LEMMA SameRequests ==
  ASSUME UNCHANGED line
  PROVE  \A j : Request(j)' = Request(j)
BY DEF line, Request, Script, Query, WriteConf, Configure, Read, WriteFile, Chunks

(* What is left of a sequence after its first n elements.                  *)
LEMMA RestOfFrames ==
  ASSUME NEW s \in Seq(Frames), NEW n \in 0..Len(s)
  PROVE  /\ SubSeq(s, n + 1, Len(s)) \in Seq(Frames)
         /\ Len(SubSeq(s, n + 1, Len(s))) = Len(s) - n
         /\ \A j \in 1..Len(s) - n : SubSeq(s, n + 1, Len(s))[j] = s[n + j]
<1> DEFINE m == n + 1
           e == Len(s)
<1>1. e \in Nat /\ s \in [1..e -> Frames]
  BY LenProperties
<1>2. m \in Int /\ e \in Int /\ \A i \in m..e : s[i] \in Frames
  BY <1>1
<1>3. m = n + 1 /\ n \in 0..e
  OBVIOUS
<1> HIDE DEF m, e
<1>4. /\ SubSeq(s, m, e) \in Seq(Frames)
      /\ Len(SubSeq(s, m, e)) = IF m <= e THEN e - m + 1 ELSE 0
      /\ \A i \in 1..e - m + 1 : SubSeq(s, m, e)[i] = s[m + i - 1]
  BY <1>2, SubSeqProperties
<1>5. /\ Len(SubSeq(s, m, e)) = e - n
      /\ \A j \in 1..e - n : SubSeq(s, m, e)[j] = s[n + j]
  <2>1. e - m + 1 = e - n /\ \A j \in 1..e - n : m + j - 1 = n + j
    BY <1>1, <1>3
  <2> QED BY <1>1, <1>3, <1>4, <2>1
<1> QED BY <1>4, <1>5 DEF m, e

(* A sequence of no element is the empty one.                              *)
LEMMA NoFrames ==
  ASSUME NEW s \in Seq(Frames)
  PROVE  /\ Len(s) \in Nat /\ DOMAIN s = 1..Len(s)
         /\ Len(s) = 0 <=> s = <<>>
         /\ \A j \in 1..Len(s) : s[j] \in Frames
BY LenProperties, EmptySeq

(* The first frame and the rest.                                           *)
LEMMA FirstFrame ==
  ASSUME NEW s \in Seq(Frames), s # <<>>
  PROVE  /\ Len(s) \in Nat \ {0} /\ Head(s) = s[1] /\ Head(s) \in Frames
         /\ Tail(s) \in Seq(Frames) /\ Len(Tail(s)) = Len(s) - 1
         /\ \A j \in 1..Len(s) - 1 : Tail(s)[j] = s[j + 1]
         /\ DOMAIN Tail(s) = 1..Len(s) - 1
         /\ Len(s) = 1 => Tail(s) = <<>>
<1>1. Len(s) \in Nat \ {0}
  BY NoFrames
<1>2. /\ Head(s) \in Frames /\ Tail(s) \in Seq(Frames) /\ Len(Tail(s)) = Len(s) - 1
      /\ \A j \in 1..Len(Tail(s)) : Tail(s)[j] = s[j + 1]
  BY HeadTailProperties
<1>3. Head(s) = s[1]
  OBVIOUS
<1> QED BY <1>1, <1>2, <1>3, NoFrames

(* One more frame.                                                         *)
LEMMA OneMore ==
  ASSUME NEW s \in Seq(Frames), NEW f \in Frames
  PROVE  /\ Append(s, f) \in Seq(Frames) /\ Len(Append(s, f)) = Len(s) + 1
         /\ DOMAIN Append(s, f) = 1..Len(s) + 1
         /\ \A j \in 1..Len(s) : Append(s, f)[j] = s[j]
         /\ Append(s, f)[Len(s) + 1] = f
BY AppendProperties, NoFrames

(* A frame of the command in hand is written, or lost on a chip that is    *)
(* gone.                                                                   *)
LEMMA Written ==
  ASSUME Shape, NEW f \in Frames, f.req = k, Write(f)
  PROVE  /\ toChip' \in Seq(Frames)
         /\ \A j \in DOMAIN toChip' : toChip'[j].req <= k
         /\ toChip = <<>> /\ toChip' # <<>> => Len(toChip') = 1 /\ toChip'[1] = f
<1>1. CASE gone
  BY <1>1 DEF Write, Shape
<1>2. CASE ~gone
  <2>1. toChip' = Append(toChip, f)
    BY <1>2 DEF Write
  <2>2. DOMAIN toChip = 1..Len(toChip) /\ Len(toChip) \in Nat /\ (toChip = <<>> => Len(toChip) = 0)
    BY NoFrames DEF Shape
  <2>3. \A j \in 1..Len(toChip) + 1 : toChip'[j].req <= k
    <3> TAKE j \in 1..Len(toChip) + 1
    <3>1. CASE j \in 1..Len(toChip)
      BY <2>1, <2>2, <3>1, OneMore DEF Shape
    <3>2. CASE j = Len(toChip) + 1
      BY <2>1, <3>2, OneMore DEF Shape
    <3> QED BY <2>2, <3>1, <3>2
  <2> QED BY <2>1, <2>2, <2>3, OneMore DEF Shape
<1> QED BY <1>1, <1>2

(* What the tool sends carries the number of its request.                  *)
LEMMA HostFrames ==
  ASSUME Shape, NEW n \in Nat
  PROVE  Chunk(n) \in Frames /\ Chunk(n).req = k /\ Ack \in Frames /\ Ack.req = k
BY DEF Shape, Chunk, Ack, Frames

-----------------------------------------------------------------------------
(* One lemma for each action: the invariant stays, and what ReliableRequest*)
(* sees stays as it was, or moves as it may.                               *)
Inv == Shape /\ Safe
Still == UNCHANGED <<k, executed, results, trusted>>

LEMMA SendFirstStep ==
  ASSUME Inv, SendFirst
  PROVE  Inv' /\ Still
<1>1. Still
  BY DEF SendFirst, Still, chip
<1>2. /\ Write(Chunk(1)) /\ sent' = 1 /\ toHost' = toHost /\ reading' = reading
      /\ pc = "send" /\ pc' \in {"answer", "ack"} /\ (pc' = "ack" => sent' # Request(k).parts)
      /\ UNCHANGED line
  BY DEF SendFirst, chip, Current
<1>3. Shape'
  BY <1>1, <1>2, HostFrames, Written DEF Shape, Inv, Still
<1>4. ASSUME trusted' PROVE Token'
  <2>1. trusted /\ Token /\ toChip = <<>> /\ toHost = <<>> /\ k \notin executed
    BY <1>1, <1>2, <1>4 DEF Inv, Safe, Token, Hostward, Still
  <2>2. toChip' # <<>> => Len(toChip') = 1 /\ toChip'[1] = Chunk(1)
    BY <1>2, <2>1, HostFrames, Written DEF Inv
  <2>3. Chipward'
    BY <1>1, <1>2, <2>1, <2>2 DEF Chipward, Chunk, Still
  <2>4. Hostward'
    <3>1. Len(toHost') = 0 /\ DOMAIN toHost' = {}
      BY <1>2, <2>1
    <3>2. k' = k /\ executed' = executed
      BY <1>1 DEF Still
    <3>3. pc' = "ack" => (sent # Request(k).parts)'
      BY <1>2, <3>2, SameRequests
    <3> QED BY <1>2, <2>1, <3>1, <3>2, <3>3 DEF Hostward
  <2> QED BY <2>3, <2>4 DEF Token
<1> QED BY <1>1, <1>3, <1>4 DEF Inv, Safe

LEMMA SendNextStep ==
  ASSUME Inv, SendNext
  PROVE  Inv' /\ Still
<1>1. Still
  BY DEF SendNext, Still, chip
<1>2. /\ Write(Chunk(sent + 1)) /\ sent' = sent + 1 /\ reading' = reading
      /\ toHost # <<>> /\ toHost' = Tail(toHost)
      /\ pc = "ack" /\ pc' \in {"answer", "ack"} /\ (pc' = "ack" => sent' # Request(k).parts)
      /\ UNCHANGED line
  BY DEF SendNext, chip, Current
<1>3. Shape'
  <2>1. sent + 1 \in Nat
    BY DEF Inv, Shape
  <2> QED BY <1>1, <1>2, <2>1, HostFrames, Written, FirstFrame DEF Shape, Inv, Still
<1>4. ASSUME trusted' PROVE Token'
  <2>1. trusted /\ Token /\ toChip = <<>> /\ Len(toHost) = 1 /\ k \notin executed
    <3>1. trusted /\ Token
      BY <1>1, <1>4 DEF Inv, Safe, Still
    <3>2. toChip = <<>>
      BY <1>2, <3>1 DEF Token, Chipward
    <3>4. k \notin executed /\ Len(toHost) \in {0, 1}
      BY <1>2, <3>1, NoFrames DEF Token, Hostward, Inv, Shape
    <3>3. Len(toHost) \in Nat \ {0}
      BY <1>2, NoFrames DEF Inv, Shape
    <3> QED BY <3>1, <3>2, <3>3, <3>4
  <2>2. toChip' # <<>> => Len(toChip') = 1 /\ toChip'[1] = Chunk(sent + 1)
    <3>1. sent + 1 \in Nat
      BY DEF Inv, Shape
    <3> QED BY <1>2, <2>1, <3>1, HostFrames, Written DEF Inv
  <2>3. toHost' = <<>>
    BY <1>2, <2>1, FirstFrame DEF Inv, Shape
  <2>4. Chipward'
    BY <1>1, <1>2, <2>1, <2>2, <2>3 DEF Chipward, Chunk, Still
  <2>5. Hostward'
    <3>1. Len(toHost') = 0 /\ DOMAIN toHost' = {}
      BY <2>3
    <3>2. k' = k /\ executed' = executed
      BY <1>1 DEF Still
    <3>3. pc' = "ack" => (sent # Request(k).parts)'
      BY <1>2, <3>2, SameRequests
    <3>4. pc' \in {"answer", "ack"} /\ k' \notin executed'
      BY <1>2, <2>1, <3>2
    <3> QED BY <3>1, <3>3, <3>4 DEF Hostward
  <2> QED BY <2>4, <2>5 DEF Token
<1> QED BY <1>1, <1>3, <1>4 DEF Inv, Safe

(* A command returns, with nothing left on its way if that is promised.    *)
LEMMA AfterReturn ==
  ASSUME Inv, NEW r, Returns(r), toChip' = toChip, reading' \in 0..Packets,
         toHost' \in Seq(Frames), trusted => toChip = <<>> /\ toHost' = <<>>
  PROVE  Inv'
<1>1. /\ k' = k + 1 /\ pc' = "send" /\ sent' = 0 /\ executed' = executed /\ trusted' = trusted
  BY DEF Returns
<1>2. k + 1 \in Nat /\ executed \subseteq 1..k + 1 /\ k + 1 \notin executed
  BY DEF Inv, Shape
<1>3. \A j \in DOMAIN toChip : toChip[j].req <= k + 1
  <2>1. \A j \in DOMAIN toChip : toChip[j].req \in Nat
    BY NoFrames DEF Inv, Shape, Frames
  <2> QED BY <2>1 DEF Inv, Shape
<1>4. Shape'
  BY <1>1, <1>2, <1>3 DEF Inv, Shape
<1>5. ASSUME trusted' PROVE Token'
  <2>1. toChip' = <<>> /\ toHost' = <<>> /\ DOMAIN toHost' = {}
    BY <1>1, <1>5, NoFrames
  <2> QED BY <1>1, <1>2, <2>1 DEF Token, Chipward, Hostward
<1> QED BY <1>4, <1>5 DEF Inv, Safe

(* ... and what ReliableRequest sees of it: a request that returns, or the *)
(* connection that is made.                                                *)
LEMMA SeenReturn ==
  ASSUME Inv, NEW r \in {"ok", "error"}, Returns(r),
         r = "ok" /\ trusted /\ k # 0 => k \in executed
  PROVE  Requests!Next
<1>1. CASE k = 0
  BY <1>1 DEF Returns, Requests!Next, Requests!Connect
<1>2. CASE k # 0
  <2>1. Requests!Return(r)
    BY <1>2 DEF Returns, Requests!Return
  <2> QED BY <2>1 DEF Requests!Next
<1> QED BY <1>1, <1>2

(* A frame that comes when one at most can.                                *)
LEMMA OnlyFrame ==
  ASSUME Inv, trusted, toHost # <<>>
  PROVE  /\ toChip = <<>>
         /\ pc # "send"
         /\ pc # "answer" => Len(toHost) = 1 /\ Tail(toHost) = <<>>
         /\ pc = "answer" => \/ Len(toHost) = 1 /\ Tail(toHost) = <<>>
                             \/ /\ Len(toHost) = 2 /\ toHost[1].kind = "ack"
                                /\ toHost[2].kind = "answer"
<1>1. Token
  BY DEF Inv, Safe
<1>2. Len(toHost) \in Nat \ {0} /\ (Len(toHost) = 1 => Tail(toHost) = <<>>)
  BY FirstFrame DEF Inv, Shape
<1>3. toChip = <<>> /\ pc # "send"
  BY <1>1 DEF Token, Chipward, Hostward
<1>4. CASE pc # "answer"
  <2>1. Len(toHost) \in {0, 1}
    BY <1>1, <1>2, <1>3, <1>4 DEF Token, Hostward, Inv, Shape
  <2> QED BY <1>2, <1>3, <1>4, <2>1
<1>5. CASE pc = "answer"
  <2>1. /\ Len(toHost) \in {0, 1, 2}
        /\ Len(toHost) = 2 => toHost[1].kind = "ack" /\ toHost[2].kind = "answer"
    BY <1>1, <1>2, <1>5 DEF Token, Hostward
  <2> QED BY <1>2, <1>3, <1>5, <2>1
<1> QED BY <1>4, <1>5

LEMMA RefusedStep ==
  ASSUME Inv, Refused
  PROVE  Inv' /\ Requests!Next
<1>1. /\ pc = "ack" \/ pc = "answer"
      /\ toHost # <<>> /\ Head(toHost).kind # "ack" /\ toHost' = Tail(toHost)
      /\ Returns("error") /\ reading' = 0 /\ toChip' = toChip
  BY DEF Refused, Fails
<1>2. toHost' \in Seq(Frames) /\ Head(toHost) = toHost[1]
  BY <1>1, FirstFrame DEF Inv, Shape
<1>3. trusted => toChip = <<>> /\ toHost' = <<>>
  BY <1>1, <1>2, OnlyFrame
<1>4. 0 \in 0..Packets
  BY BootRomAssumption
<1>5. Inv'
  BY <1>1, <1>2, <1>3, <1>4, AfterReturn
<1> QED BY <1>1, <1>5, SeenReturn

LEMMA TakeAckStep ==
  ASSUME Inv, TakeAck
  PROVE  Inv' /\ Still
<1>1. Still
  BY DEF TakeAck, Still, chip
<1>2. /\ pc = "answer" /\ pc' = "response" /\ toHost # <<>> /\ toHost' = Tail(toHost)
      /\ UNCHANGED <<line, sent, toChip, reading>>
  BY DEF TakeAck, chip
<1>3. Tail(toHost) \in Seq(Frames)
  BY <1>2, FirstFrame DEF Inv, Shape
<1>4. Shape'
  BY <1>1, <1>2, <1>3 DEF Shape, Inv, Still
<1>5. ASSUME trusted' PROVE Token'
  <2>1. trusted /\ Token /\ toChip = <<>> /\ Len(toHost) \in {1, 2}
    BY <1>1, <1>2, <1>5, OnlyFrame DEF Inv, Safe, Still
  <2>2. /\ Len(Tail(toHost)) \in {0, 1} /\ DOMAIN Tail(toHost) = 1..Len(toHost) - 1
        /\ \A j \in 1..Len(toHost) - 1 : Tail(toHost)[j] = toHost[j + 1]
        /\ DOMAIN toHost = 1..Len(toHost)
    BY <1>2, <2>1, FirstFrame, NoFrames DEF Inv, Shape
  <2>3. \A j \in DOMAIN Tail(toHost) :
          (Tail(toHost)[j].kind = "answer" /\ Tail(toHost)[j].part = 0 /\ k # 0) => k \in executed
    BY <2>1, <2>2 DEF Token, Hostward
  <2> QED BY <1>1, <1>2, <2>1, <2>2, <2>3 DEF Token, Chipward, Hostward, Still
<1> QED BY <1>1, <1>4, <1>5 DEF Inv, Safe

(* The answer to a read is not that of the sync.                           *)
LEMMA ReadIsLater ==
  ASSUME Current.cmd = "read"
  PROVE  k # 0
BY DEF Current, Request, Query

(* The tool takes an answer: the end of a command, or of its first part.   *)
LEMMA TakesStep ==
  ASSUME Inv, NEW f, Takes(f), toHost' \in Seq(Frames),
         trusted => toChip = <<>> /\ toHost' = <<>>,
         Verdict(f) = "ok" /\ trusted /\ k # 0 => k \in executed
  PROVE  Inv' /\ (Still \/ Requests!Next)
<1>1. CASE /\ Verdict(f) = "ok" /\ Current.cmd = "read"
           /\ pc' = "packets" /\ Write(Ack)
           /\ UNCHANGED <<line, k, sent, attempts, results, saved, outcome, chip, trusted, lost>>
  <2>1. Still /\ UNCHANGED <<line, sent, reading, executed>>
    BY <1>1 DEF Still, chip
  <2>2. /\ toChip' \in Seq(Frames) /\ \A j \in DOMAIN toChip' : toChip'[j].req <= k
        /\ toChip = <<>> /\ toChip' # <<>> => Len(toChip') = 1 /\ toChip'[1] = Ack
    <3>1. Ack \in Frames /\ Ack.req = k
      BY HostFrames DEF Inv
    <3> QED BY <1>1, <3>1, Written DEF Inv
  <2>3. Shape'
    BY <1>1, <2>1, <2>2 DEF Shape, Inv, Still
  <2>4. ASSUME trusted' PROVE Token'
    <3>1. trusted /\ toChip = <<>> /\ toHost' = <<>> /\ k' = k /\ k' \in executed'
      BY <1>1, <2>1, <2>4, ReadIsLater DEF Still
    <3>2. Len(toHost') = 0 /\ DOMAIN toHost' = {}
      BY <3>1
    <3>3. Chipward'
      BY <1>1, <2>2, <3>1 DEF Chipward, Ack
    <3>4. Hostward'
      BY <1>1, <3>1, <3>2 DEF Hostward
    <3> QED BY <3>3, <3>4 DEF Token
  <2> QED BY <2>1, <2>3, <2>4 DEF Inv, Safe
<1>2. CASE Verdict(f) = "ok" /\ Returns("ok") /\ UNCHANGED <<buffer, saved, toChip, reading>>
  <2>1. reading' \in 0..Packets /\ toChip' = toChip
    BY <1>2 DEF Inv, Shape
  <2> QED BY <1>2, <2>1, AfterReturn, SeenReturn
<1>3. CASE Fails /\ UNCHANGED toChip
  <2>1. Returns("error") /\ reading' \in 0..Packets /\ toChip' = toChip
    BY <1>3, BootRomAssumption DEF Fails
  <2> QED BY <2>1, AfterReturn, SeenReturn
<1> QED BY <1>1, <1>2, <1>3 DEF Takes

LEMMA UsbAnswerStep ==
  ASSUME Inv, UsbAnswer
  PROVE  Inv' /\ (Still \/ Requests!Next)
<1>1. /\ pc = "response" /\ toHost # <<>> /\ toHost' = Tail(toHost) /\ Takes(Head(toHost))
  BY DEF UsbAnswer
<1>2. Tail(toHost) \in Seq(Frames) /\ Head(toHost) = toHost[1] /\ 1 \in DOMAIN toHost
  BY <1>1, FirstFrame, NoFrames DEF Inv, Shape
<1>3. trusted => toChip = <<>> /\ toHost' = <<>>
  BY <1>1, OnlyFrame
<1>4. Verdict(Head(toHost)) = "ok" /\ trusted /\ k # 0 => k \in executed
  BY <1>2 DEF Verdict, Inv, Safe, Token, Hostward
<1> QED BY <1>1, <1>2, <1>3, <1>4, TakesStep

(* Frames are taken from the front: what holds of all still holds.         *)
LEMMA FewerFrames ==
  ASSUME Inv, Still, UNCHANGED <<line, pc, sent, reading, toChip>>,
         NEW n \in 1..Len(toHost), Leave(n), pc # "send"
  PROVE  Inv'
<1>1. n \in 0..Len(toHost) /\ Len(toHost) \in Nat /\ toHost # <<>> /\ DOMAIN toHost = 1..Len(toHost)
  BY NoFrames DEF Inv, Shape
<1>2. /\ toHost' \in Seq(Frames) /\ Len(toHost') = Len(toHost) - n
      /\ \A j \in 1..Len(toHost) - n : toHost'[j] = toHost[n + j]
      /\ DOMAIN toHost' = 1..Len(toHost) - n
  <2>1. toHost' = SubSeq(toHost, n + 1, Len(toHost))
    BY DEF Leave
  <2> QED BY <1>1, <2>1, RestOfFrames, NoFrames DEF Inv, Shape
<1>3. Shape'
  BY <1>2 DEF Inv, Shape, Still
<1>4. ASSUME trusted' PROVE Token'
  <2>1. Token /\ trusted /\ toChip = <<>>
    BY <1>1, <1>4, OnlyFrame DEF Still, Inv, Safe
  <2>2. k' = k /\ executed' = executed /\ pc' = pc /\ sent' = sent /\ toChip' = toChip
    BY DEF Still
  <2>3. Chipward'
    BY <2>1, <2>2 DEF Chipward
  <2>4. Len(toHost) \in {0, 1, 2} /\ (pc # "answer" => Len(toHost) = 1)
    BY <1>1, <2>1, OnlyFrame
  <2>5. Len(toHost') \in {0, 1}
    BY <1>2, <2>4
  <2>6. pc = "ack" => (sent # Request(k).parts)'
    BY <2>1, <2>2, SameRequests DEF Token, Hostward
  <2>7. \A j \in DOMAIN toHost' :
          (toHost'[j].kind = "answer" /\ toHost'[j].part = 0 /\ k # 0) => k \in executed
    <3> TAKE j \in DOMAIN toHost'
    <3>1. n + j \in DOMAIN toHost /\ toHost'[j] = toHost[n + j]
      BY <1>1, <1>2
    <3> QED BY <2>1, <3>1 DEF Token, Hostward
  <2>8. /\ pc = "packets" => k \in executed
        /\ pc = "ack" => k \notin executed
    BY <2>1 DEF Token, Hostward
  <2>9. Hostward'
    BY <2>2, <2>5, <2>6, <2>7, <2>8 DEF Hostward
  <2> QED BY <2>3, <2>9 DEF Token
<1> QED BY <1>3, <1>4 DEF Inv, Safe

LEMMA SerialShortStep ==
  ASSUME Inv, SerialShort
  PROVE  Inv' /\ Still
<1>1. Still /\ UNCHANGED <<line, pc, sent, reading, toChip>> /\ pc # "send"
  BY DEF SerialShort, Still, chip, host
<1>2. PICK n \in 1..Len(toHost) : Leave(n)
  BY DEF SerialShort, Bursts
<1> QED BY <1>1, <1>2, FewerFrames

LEMMA SerialAnswerStep ==
  ASSUME Inv, SerialAnswer
  PROVE  Inv' /\ (Still \/ Requests!Next)
<1>1. PICK n \in Bursts :
        /\ ~Short(n) /\ Leave(n)
        /\ \/ toHost[1].kind # "ack" /\ Fails /\ UNCHANGED toChip
           \/ toHost[1].kind = "ack" /\ n = 2 /\ Takes(toHost[2])
           \/ /\ toHost[1].kind = "ack" /\ n > 2
              /\ IF k = 0 THEN /\ Returns("ok") /\ UNCHANGED <<buffer, saved, toChip, reading>>
                 ELSE /\ outcome' = "crashed"
                      /\ UNCHANGED <<line, pc, k, sent, attempts, results, buffer, saved,
                                     toChip, chip, trusted, lost>>
  BY DEF SerialAnswer
<1>2. /\ pc = "answer" /\ n \in 1..Len(toHost) /\ n \in 0..Len(toHost) /\ Len(toHost) \in Nat
      /\ toHost # <<>> /\ DOMAIN toHost = 1..Len(toHost)
  BY NoFrames DEF SerialAnswer, Bursts, Inv, Shape
<1>3. /\ toHost' \in Seq(Frames) /\ Len(toHost') = Len(toHost) - n
  BY <1>1, <1>2, RestOfFrames DEF Leave, Inv, Shape
<1>4. ASSUME trusted
      PROVE  toChip = <<>> /\ toHost' = <<>> /\ n <= 2
  <2>1. \/ Len(toHost) = 1
        \/ Len(toHost) = 2 /\ toHost[1].kind = "ack"
    BY <1>2, <1>4, OnlyFrame
  <2>2. n = Len(toHost)
    <3>1. CASE n = 1 /\ Len(toHost) = 2
      <4>1. toHost[1].kind = "ack" /\ \A j \in 1..n : j = 1
        BY <2>1, <3>1
      <4>2. Short(n)
        BY <4>1 DEF Short
      <4> QED BY <1>1, <4>2
    <3>2. \A m \in {1, 2} : n \in 1..m => n = m \/ (n = 1 /\ m = 2)
      OBVIOUS
    <3>3. Len(toHost) \in {1, 2} /\ n \in 1..Len(toHost)
      BY <1>2, <2>1
    <3> QED BY <3>1, <3>2, <3>3
  <2>3. Len(toHost') = 0
    BY <1>2, <1>3, <2>2
  <2> QED BY <1>2, <1>3, <1>4, <2>1, <2>2, <2>3, NoFrames, OnlyFrame
<1>5. CASE Fails /\ UNCHANGED toChip
  <2>1. Returns("error") /\ reading' \in 0..Packets /\ toChip' = toChip
    BY <1>5, BootRomAssumption DEF Fails
  <2> QED BY <1>3, <1>4, <2>1, AfterReturn, SeenReturn
<1>6. CASE n = 2 /\ Takes(toHost[2])
  <2>1. Verdict(toHost[2]) = "ok" /\ trusted /\ k # 0 => k \in executed
    <3>1. 2 \in DOMAIN toHost
      BY <1>2, <1>6
    <3> QED BY <3>1 DEF Verdict, Inv, Safe, Token, Hostward
  <2> QED BY <1>3, <1>4, <1>6, <2>1, TakesStep
<1>7. CASE n > 2 /\ k = 0 /\ Returns("ok") /\ UNCHANGED <<buffer, saved, toChip, reading>>
  <2>1. reading' \in 0..Packets /\ toChip' = toChip
    BY <1>7 DEF Inv, Shape
  <2> QED BY <1>3, <1>4, <1>7, <2>1, AfterReturn, SeenReturn
<1>8. CASE /\ n > 2 /\ k # 0
           /\ UNCHANGED <<line, pc, k, sent, attempts, results, buffer, saved,
                          toChip, chip, trusted, lost>>
  <2>1. Still /\ UNCHANGED <<line, pc, sent, reading, toChip>> /\ pc # "send"
    BY <1>2, <1>8 DEF Still, chip
  <2> QED BY <1>1, <1>2, <2>1, FewerFrames
<1> QED BY <1>1, <1>5, <1>6, <1>7, <1>8

LEMMA SerialTimeoutStep ==
  ASSUME Inv, SerialTimeout
  PROVE  Inv' /\ (Still \/ Requests!Next)
<1>1. /\ pc = "answer" /\ UNCHANGED <<line, k, sent, results, toChip, chip>>
      /\ \/ /\ k = 0 /\ pc' = "send" /\ \E n \in 0..Len(toHost) : Leave(n)
            /\ trusted' = (trusted /\ Silent)
         \/ UNCHANGED <<pc, toHost, trusted>>
  BY DEF SerialTimeout
<1>2. UNCHANGED <<k, sent, results, toChip, executed, reading>>
  BY <1>1 DEF chip
<1>3. CASE UNCHANGED <<pc, toHost, trusted>>
  <2>1. Still
    BY <1>2, <1>3 DEF Still
  <2>2. Shape'
    BY <1>2, <1>3 DEF Inv, Shape
  <2>3. ASSUME trusted' PROVE Token'
    <3>1. Token
      BY <1>3, <2>3 DEF Inv, Safe
    <3>2. Chipward'
      BY <1>2, <1>3, <3>1 DEF Token, Chipward
    <3>3. Hostward'
      BY <1>1, <1>2, <1>3, <3>1, SameRequests DEF Token, Hostward
    <3> QED BY <3>2, <3>3 DEF Token
  <2> QED BY <2>1, <2>2, <2>3 DEF Inv, Safe
<1>4. CASE /\ k = 0 /\ pc' = "send" /\ \E n \in 0..Len(toHost) : Leave(n)
           /\ trusted' = (trusted /\ Silent)
  <2>1. PICK n \in 0..Len(toHost) : Leave(n)
    BY <1>4
  <2>2. toHost' = SubSeq(toHost, n + 1, Len(toHost)) /\ toHost' \in Seq(Frames)
        /\ Len(toHost') = Len(toHost) - n
    BY <2>1, RestOfFrames DEF Leave, Inv, Shape
  <2>3. Shape'
    BY <1>2, <1>4, <2>2 DEF Inv, Shape
  <2>4. ASSUME trusted' PROVE Token'
    <3>1. trusted /\ Silent /\ Token
      BY <1>4, <2>4 DEF Inv, Safe
    <3>2. toHost = <<>> /\ Len(toHost) = 0
      BY <3>1, NoFrames DEF Silent, Inv, Shape
    <3>3. toHost' = <<>> /\ Len(toHost') = 0 /\ DOMAIN toHost' = {}
      <4>1. n = 0
        BY <2>1, <3>2
      <4>2. Len(toHost') = 0
        BY <2>2, <3>2, <4>1
      <4> QED BY <2>2, <4>2, NoFrames
    <3>4. toChip = <<>>
      <4>1. ASSUME toChip # <<>> PROVE FALSE
        <5>1. Len(toChip) = 1 /\ toChip[1].kind = "data"
          BY <1>1, <3>1, <4>1 DEF Token, Chipward
        <5>2. 1 \in DOMAIN toChip
          BY <5>1, NoFrames DEF Inv, Shape
        <5> QED BY <3>1, <5>1, <5>2 DEF Silent
      <4> QED BY <4>1
    <3>5. k' \notin executed'
      BY <1>2, <1>4 DEF Inv, Shape
    <3> QED BY <1>2, <1>4, <3>3, <3>4, <3>5 DEF Token, Chipward, Hostward
  <2>5. Still \/ Requests!Next
    <3>1. CASE trusted' = trusted
      BY <1>2, <3>1 DEF Still
    <3>2. CASE trusted' = FALSE
      <4>1. Requests!LoseTrust
        BY <1>2, <1>4, <3>2 DEF Requests!LoseTrust
      <4> QED BY <4>1 DEF Requests!Next
    <3> QED BY <1>4, <3>1, <3>2
  <2> QED BY <2>3, <2>4, <2>5 DEF Inv, Safe
<1> QED BY <1>1, <1>3, <1>4

(* Nothing is on its way to a chip that is gone.                           *)
Gone == gone => toChip = <<>>

LEMMA GoneStep ==
  ASSUME Gone, [Next]_vars
  PROVE  Gone'
<1>1. CASE gone' = gone /\ (toChip' = toChip \/ \E f : Write(f))
  BY <1>1 DEF Gone, Write
<1>2. CASE gone' = gone /\ toChip # <<>>
  BY <1>2 DEF Gone
<1>3. CASE Host
  <2>1. gone' = gone
    BY <1>3 DEF Host, SendFirst, SendNext, Refused, TakeAck, UsbAnswer, SerialShort, SerialAnswer,
                SerialTimeout, Disconnected, TakePacket, Takes, Fails, Returns, chip
  <2>2. toChip' = toChip \/ \E f : Write(f)
    BY <1>3 DEF Host, SendFirst, SendNext, Refused, TakeAck, UsbAnswer, SerialShort, SerialAnswer,
                SerialTimeout, Disconnected, TakePacket, Takes
  <2> QED BY <1>1, <2>1, <2>2
<1>4. CASE Chip
  BY <1>2, <1>4 DEF Chip, ChipTakesChunk, ChipTakesAck
<1>5. CASE Reset \/ Lose \/ UNCHANGED vars
  BY <1>1, <1>5 DEF Reset, Lose, vars, chip, Gone
<1> QED BY <1>3, <1>4, <1>5 DEF Next

LEMMA DisconnectedStep ==
  ASSUME Inv, Gone, Disconnected
  PROVE  Inv' /\ (Still \/ Requests!Next)
<1>1. /\ toHost = <<>> /\ pc # "send" /\ toChip' = toChip /\ toHost' = toHost /\ gone
      /\ \/ UNCHANGED <<line, pc, k, sent, results, chip, trusted>>
         \/ Fails
  BY DEF Disconnected, Waiting
<1>2. toChip = <<>> /\ toHost' \in Seq(Frames)
  BY <1>1 DEF Gone, Inv, Shape
<1>3. CASE UNCHANGED <<line, pc, k, sent, results, chip, trusted>>
  <2>1. Still /\ UNCHANGED <<line, pc, k, sent, toChip, toHost, executed, reading, trusted>>
    BY <1>1, <1>3 DEF Still, chip
  <2>2. Shape'
    BY <2>1 DEF Inv, Shape
  <2>3. Chipward' /\ (Hostward => Hostward')
    BY <1>2, <2>1, SameRequests DEF Chipward, Hostward
  <2> QED BY <2>1, <2>2, <2>3 DEF Inv, Safe, Token
<1>4. CASE Fails
  <2>1. Returns("error") /\ reading' \in 0..Packets
    BY <1>4, BootRomAssumption DEF Fails
  <2> QED BY <1>1, <1>2, <2>1, AfterReturn, SeenReturn
<1> QED BY <1>1, <1>3, <1>4

LEMMA TakePacketStep ==
  ASSUME Inv, TakePacket
  PROVE  Inv' /\ (Still \/ Requests!Next)
<1>1. /\ pc = "packets" /\ toHost # <<>> /\ toHost' = Tail(toHost)
      /\ \/ Returns("ok") /\ UNCHANGED <<toChip, reading>>
         \/ /\ Write(Ack)
            /\ UNCHANGED <<line, pc, k, sent, results, chip, trusted>>
         \/ Fails /\ UNCHANGED toChip
         \/ UNCHANGED <<line, host, chip, trusted, toChip>>
  BY DEF TakePacket
<1>2. Tail(toHost) \in Seq(Frames)
  BY <1>1, FirstFrame DEF Inv, Shape
<1>3. trusted => toChip = <<>> /\ toHost' = <<>> /\ k \in executed
  BY <1>1, OnlyFrame DEF Inv, Safe, Token, Hostward
<1>4. CASE Returns("ok") /\ UNCHANGED <<toChip, reading>>
  <2>1. reading' \in 0..Packets /\ toChip' = toChip
    BY <1>4 DEF Inv, Shape
  <2> QED BY <1>1, <1>2, <1>3, <1>4, <2>1, AfterReturn, SeenReturn
<1>5. CASE Fails /\ UNCHANGED toChip
  <2>1. Returns("error") /\ reading' \in 0..Packets /\ toChip' = toChip
    BY <1>5, BootRomAssumption DEF Fails
  <2> QED BY <1>1, <1>2, <1>3, <2>1, AfterReturn, SeenReturn
<1>6. CASE \/ Write(Ack) /\ UNCHANGED <<line, pc, k, sent, results, chip, trusted>>
           \/ UNCHANGED <<line, host, chip, trusted, toChip>>
  <2>1. Still /\ UNCHANGED <<line, pc, sent, reading, k, executed, trusted>>
    BY <1>6 DEF Still, chip, host
  <2>2. Ack \in Frames /\ Ack.req = k
    BY HostFrames DEF Inv
  <2>3. /\ toChip' \in Seq(Frames) /\ \A j \in DOMAIN toChip' : toChip'[j].req <= k
        /\ toChip = <<>> /\ toChip' # <<>> => Len(toChip') = 1 /\ toChip'[1] = Ack
    BY <1>6, <2>2, Written DEF Inv, Shape
  <2>4. Shape'
    BY <1>1, <1>2, <2>1, <2>3 DEF Inv, Shape
  <2>5. ASSUME trusted' PROVE Token'
    <3>1. toChip = <<>> /\ toHost' = <<>> /\ k' \in executed' /\ k' = k /\ pc' = "packets"
      BY <1>1, <1>3, <2>1, <2>5
    <3>2. Len(toHost') = 0 /\ DOMAIN toHost' = {}
      BY <3>1
    <3>3. Chipward'
      BY <2>3, <3>1 DEF Chipward, Ack
    <3>4. Hostward'
      BY <3>1, <3>2 DEF Hostward
    <3> QED BY <3>3, <3>4 DEF Token
  <2> QED BY <2>1, <2>4, <2>5 DEF Inv, Safe
<1> QED BY <1>1, <1>4, <1>5, <1>6

(* Two frames at once.                                                     *)
LEMMA TwoMore ==
  ASSUME NEW s \in Seq(Frames), NEW f \in Frames, NEW g \in Frames
  PROVE  /\ s \o <<f, g>> \in Seq(Frames)
         /\ s = <<>> => /\ Len(s \o <<f, g>>) = 2 /\ (s \o <<f, g>>)[1] = f
                        /\ (s \o <<f, g>>)[2] = g
<1>1. <<f, g>> \in Seq(Frames)
  OBVIOUS
<1>2. s \o <<f, g>> \in Seq(Frames)
  BY <1>1, ConcatProperties
<1>3. s = <<>> => s \o <<f, g>> = <<f, g>>
  BY <1>1, ConcatEmptySeq
<1> QED BY <1>2, <1>3

LEMMA ReplyType ==
  ASSUME NEW f \in Frames, NEW kind \in {"ack", "nak", "answer", "packet"}, NEW n \in Nat
  PROVE  /\ Reply(kind, f, n) \in Frames
         /\ Reply(kind, f, n).kind = kind /\ Reply(kind, f, n).part = n
BY DEF Reply, Frames

LEMMA ChunkReplies ==
  ASSUME NEW f \in Frames
  PROVE  /\ \A kind \in {"ack", "nak"} :
               Reply(kind, f, 0) \in Frames /\ Reply(kind, f, 0).kind = kind
         /\ \A n \in {0, 1} : /\ Reply("answer", f, n) \in Frames
                               /\ Reply("answer", f, n).kind = "answer"
                               /\ Reply("answer", f, n).part = n
BY DEF Reply, Frames

(* What the chip does with a chunk: it refuses or acknowledges it, and if  *)
(* it is the last of a request answers, having carried it out or not.      *)
LEMMA ChunkTaken ==
  ASSUME Inv, ChipTakesChunk
  PROVE  LET f == Head(toChip)
         IN  /\ toChip # <<>> /\ f.kind = "data" /\ toChip' = Tail(toChip)
             /\ UNCHANGED <<line, pc, k, sent, results, trusted>>
             /\ reading' \in 0..Packets
             /\ \/ /\ executed' = executed
                   /\ \E kind \in {"ack", "nak"} : toHost' = Append(toHost, Reply(kind, f, 0))
                \/ /\ f.part = Request(f.req).parts
                   /\ \E n \in {0, 1} :
                        /\ toHost' = toHost \o <<Reply("ack", f, 0), Reply("answer", f, n)>>
                        /\ n = 1 => executed' = executed
                        /\ n = 0 => executed' = IF f.req = 0 THEN executed ELSE executed \cup {f.req}
<1> DEFINE f == Head(toChip)
           last == f.part = Request(f.req).parts
<1>1. 0 \in 0..Packets /\ Packets \in 0..Packets
  BY BootRomAssumption
<1>2. /\ toChip # <<>> /\ f.kind = "data" /\ toChip' = Tail(toChip)
      /\ UNCHANGED <<line, pc, k, sent, results, trusted>>
  BY DEF ChipTakesChunk, host
<1>3. CASE /\ toHost' = Append(toHost, Reply("ack", f, 0))
           /\ reading' = 0 /\ UNCHANGED <<executed, conf, config, flash>>
  BY <1>1, <1>2, <1>3
<1>4. CASE /\ last /\ CarryOut(f)
           /\ toHost' = toHost \o <<Reply("ack", f, 0), Reply("answer", f, 0)>>
  <2>1. /\ executed' = IF f.req = 0 THEN executed ELSE executed \cup {f.req}
        /\ reading' \in 0..Packets
    BY <1>1, <1>4 DEF CarryOut
  <2> QED BY <1>2, <1>4, <2>1
<1>5. CASE /\ last
           /\ toHost' = toHost \o <<Reply("ack", f, 0), Reply("answer", f, 1)>>
           /\ reading' = 0 /\ UNCHANGED <<executed, conf, config, flash>>
  BY <1>1, <1>2, <1>5
<1>6. CASE /\ toHost' = Append(toHost, Reply("nak", f, 0))
           /\ reading' = 0 /\ UNCHANGED <<executed, conf, config, flash>>
  BY <1>1, <1>2, <1>6
<1> HIDE DEF f
<1>7. \/ /\ toHost' = Append(toHost, Reply("ack", f, 0))
         /\ reading' = 0 /\ UNCHANGED <<executed, conf, config, flash>>
      \/ /\ last /\ CarryOut(f)
         /\ toHost' = toHost \o <<Reply("ack", f, 0), Reply("answer", f, 0)>>
      \/ /\ last
         /\ toHost' = toHost \o <<Reply("ack", f, 0), Reply("answer", f, 1)>>
         /\ reading' = 0 /\ UNCHANGED <<executed, conf, config, flash>>
      \/ /\ toHost' = Append(toHost, Reply("nak", f, 0))
         /\ reading' = 0 /\ UNCHANGED <<executed, conf, config, flash>>
  BY DEF ChipTakesChunk, f
<1> QED BY <1>3, <1>4, <1>5, <1>6, <1>7 DEF f

LEMMA ChunkStep ==
  ASSUME Inv, ChipTakesChunk
  PROVE  Inv' /\ (Still \/ Requests!Next)
<1> DEFINE f == Head(toChip)
<1>1. /\ toChip # <<>> /\ f.kind = "data" /\ toChip' = Tail(toChip)
      /\ UNCHANGED <<line, pc, k, sent, results, trusted>>
      /\ reading' \in 0..Packets
  BY ChunkTaken
<1>2. \/ /\ executed' = executed
         /\ \E kind \in {"ack", "nak"} : toHost' = Append(toHost, Reply(kind, f, 0))
      \/ /\ f.part = Request(f.req).parts
         /\ \E n \in {0, 1} :
              /\ toHost' = toHost \o <<Reply("ack", f, 0), Reply("answer", f, n)>>
              /\ n = 1 => executed' = executed
              /\ n = 0 => executed' = IF f.req = 0 THEN executed ELSE executed \cup {f.req}
  BY ChunkTaken
<1>3. /\ f \in Frames /\ f = toChip[1] /\ Tail(toChip) \in Seq(Frames) /\ f.req \in 0..k
      /\ \A j \in DOMAIN Tail(toChip) : Tail(toChip)[j].req <= k
  <2>1. /\ Len(toChip) \in Nat \ {0} /\ DOMAIN toChip = 1..Len(toChip)
        /\ f = toChip[1] /\ f \in Frames /\ Tail(toChip) \in Seq(Frames)
        /\ DOMAIN Tail(toChip) = 1..Len(toChip) - 1
        /\ \A j \in 1..Len(toChip) - 1 : Tail(toChip)[j] = toChip[j + 1]
    BY <1>1, FirstFrame, NoFrames DEF Inv, Shape
  <2>2. f.req \in Nat
    BY <2>1 DEF Frames
  <2>3. f.req <= k /\ k \in Nat
    BY <2>1 DEF Inv, Shape
  <2>4. \A j \in 1..Len(toChip) - 1 : j + 1 \in DOMAIN toChip
    BY <2>1
  <2>5. \A j \in DOMAIN Tail(toChip) : Tail(toChip)[j].req <= k
    BY <2>1, <2>4 DEF Inv, Shape
  <2> QED BY <2>1, <2>2, <2>3, <2>5
<1> HIDE DEF f
<1>4. executed \subseteq executed' /\ executed' \subseteq 1..k
  <2>1. executed' = executed \/ (f.req # 0 /\ executed' = executed \cup {f.req})
    BY <1>2
  <2>2. k \in Nat /\ executed \subseteq 1..k
    BY DEF Inv, Shape
  <2>3. f.req # 0 => f.req \in 1..k
    BY <1>3, <2>2
  <2> QED BY <2>1, <2>2, <2>3
<1>5. toHost' \in Seq(Frames)
  <2>1. CASE \E kind \in {"ack", "nak"} : toHost' = Append(toHost, Reply(kind, f, 0))
    <3>1. PICK kind \in {"ack", "nak"} : toHost' = Append(toHost, Reply(kind, f, 0))
      BY <2>1
    <3>2. Reply(kind, f, 0) \in Frames
      BY <1>3, ReplyType
    <3> QED BY <3>1, <3>2, OneMore DEF Inv, Shape
  <2>2. CASE \E n \in {0, 1} : toHost' = toHost \o <<Reply("ack", f, 0), Reply("answer", f, n)>>
    <3>1. PICK n \in {0, 1} : toHost' = toHost \o <<Reply("ack", f, 0), Reply("answer", f, n)>>
      BY <2>2
    <3> DEFINE a == Reply("ack", f, 0)
               b == Reply("answer", f, n)
    <3>2. a \in Frames /\ b \in Frames /\ toHost' = toHost \o <<a, b>>
      <4>1. f \in Frames
        BY <1>3
      <4> QED BY <3>1, <4>1, ChunkReplies
    <3>3. toHost \in Seq(Frames)
      BY DEF Inv, Shape
    <3> HIDE DEF a, b
    <3> QED BY <3>2, <3>3, TwoMore
  <2> QED BY <1>2, <2>1, <2>2
<1>6. Shape'
  BY <1>1, <1>3, <1>4, <1>5 DEF Inv, Shape
<1>7. ASSUME trusted
      PROVE  /\ Token' /\ (executed' = executed \/ (k \notin executed /\ executed' = executed \cup {k}))
  <2>1. /\ Len(toChip) = 1 /\ toHost = <<>> /\ f.req = k /\ f.part = sent
        /\ pc \in {"ack", "answer"} /\ k \notin executed
        /\ pc = "ack" => sent # Request(k).parts
    BY <1>1, <1>3, <1>7 DEF Inv, Safe, Token, Chipward, Hostward
  <2>2. toChip' = <<>>
    BY <1>1, <2>1, FirstFrame DEF Inv, Shape
  <2>3. /\ pc' = pc /\ k' = k /\ sent' = sent
        /\ pc' = "ack" => (sent # Request(k).parts)'
    BY <1>1, <2>1, SameRequests
  <2>4. CASE /\ executed' = executed
             /\ \E kind \in {"ack", "nak"} : toHost' = Append(toHost, Reply(kind, f, 0))
    <3>1. PICK kind \in {"ack", "nak"} : toHost' = Append(toHost, Reply(kind, f, 0))
      BY <2>4
    <3>2. Len(toHost') = 1 /\ DOMAIN toHost' = 1..1 /\ toHost'[1].kind = kind
      <4>1. Len(toHost) = 0
        BY <2>1
      <4> DEFINE a == Reply(kind, f, 0)
      <4>2. a \in Frames /\ a.kind = kind /\ toHost' = Append(toHost, a) /\ toHost \in Seq(Frames)
        <5>1. f \in Frames
          BY <1>3
        <5> QED BY <3>1, <5>1, ChunkReplies DEF Inv, Shape
      <4> HIDE DEF a
      <4>3. Len(toHost') = 0 + 1 /\ DOMAIN toHost' = 1..0 + 1 /\ toHost'[0 + 1] = a
        BY <4>1, <4>2, OneMore
      <4> QED BY <4>2, <4>3
    <3>3. Len(toHost') \in {0, 1} /\ \A j \in DOMAIN toHost' : toHost'[j].kind # "answer"
      BY <3>2
    <3>4. Hostward'
      BY <2>1, <2>3, <2>4, <3>3 DEF Hostward
    <3> QED BY <2>2, <2>4, <3>4 DEF Token, Chipward
  <2>5. CASE /\ f.part = Request(f.req).parts
             /\ \E n \in {0, 1} :
                  /\ toHost' = toHost \o <<Reply("ack", f, 0), Reply("answer", f, n)>>
                  /\ n = 1 => executed' = executed
                  /\ n = 0 => executed' = IF f.req = 0 THEN executed ELSE executed \cup {f.req}
    <3>1. PICK n \in {0, 1} :
                  /\ toHost' = toHost \o <<Reply("ack", f, 0), Reply("answer", f, n)>>
                  /\ n = 1 => executed' = executed
                  /\ n = 0 => executed' = IF f.req = 0 THEN executed ELSE executed \cup {f.req}
      BY <2>5
    <3>2. pc = "answer"
      BY <2>1, <2>5
    <3>3. /\ Len(toHost') = 2 /\ toHost'[1].kind = "ack" /\ toHost'[2].kind = "answer"
          /\ toHost'[2].part = n
      <4> DEFINE a == Reply("ack", f, 0)
                 b == Reply("answer", f, n)
      <4>1. /\ a \in Frames /\ a.kind = "ack" /\ toHost' = toHost \o <<a, b>>
            /\ b \in Frames /\ b.kind = "answer" /\ b.part = n /\ toHost \in Seq(Frames)
        <5>1. f \in Frames
          BY <1>3
        <5> QED BY <3>1, <5>1, ChunkReplies DEF Inv, Shape
      <4> HIDE DEF a, b
      <4>2. Len(toHost') = 2 /\ toHost'[1] = a /\ toHost'[2] = b
        BY <2>1, <4>1, TwoMore
      <4> QED BY <4>1, <4>2
    <3>4. DOMAIN toHost' = 1..2
      BY <1>5, <3>3, NoFrames
    <3>5. \A j \in DOMAIN toHost' :
            (toHost'[j].kind = "answer" /\ toHost'[j].part = 0 /\ k # 0) => k \in executed'
      <4> TAKE j \in DOMAIN toHost'
      <4>1. j = 1 \/ j = 2
        BY <3>4
      <4> QED BY <2>1, <3>1, <3>3, <4>1
    <3>6. Hostward'
      BY <2>3, <3>2, <3>3, <3>5 DEF Hostward
    <3> QED BY <2>1, <2>2, <3>1, <3>6 DEF Token, Chipward
  <2> QED BY <1>2, <2>4, <2>5
<1>8. Inv'
  BY <1>1, <1>6, <1>7 DEF Inv, Safe
<1>9. CASE executed' = executed
  BY <1>1, <1>8, <1>9 DEF Still
<1>10. CASE executed' # executed
  <2>1. k # 0
    <3>1. f.req # 0
      BY <1>2, <1>10
    <3> QED BY <1>3, <3>1
  <2>2. Requests!Execute
    BY <1>1, <1>4, <1>7, <1>10, <2>1 DEF Requests!Execute
  <2> QED BY <1>8, <2>2 DEF Requests!Next
<1> QED BY <1>9, <1>10

LEMMA AckStep ==
  ASSUME Inv, ChipTakesAck
  PROVE  Inv' /\ Still
<1> DEFINE f == Head(toChip)
           g == Reply("packet", f, Packets + 1 - reading)
           h == Reply("nak", f, 0)
<1>1. /\ toChip # <<>> /\ f.kind = "ack" /\ toChip' = Tail(toChip) /\ Still
      /\ UNCHANGED <<line, pc, k, sent, executed, trusted>>
      /\ \/ reading > 0 /\ toHost' = Append(toHost, g) /\ reading' = reading - 1
         \/ reading > 0 /\ toHost' = Append(toHost, h) /\ reading' = 0
         \/ UNCHANGED <<toHost, reading>>
  BY DEF ChipTakesAck, host, Still
<1>2. /\ Len(toChip) \in Nat \ {0} /\ DOMAIN toChip = 1..Len(toChip)
      /\ f = toChip[1] /\ f \in Frames /\ Tail(toChip) \in Seq(Frames)
      /\ DOMAIN Tail(toChip) = 1..Len(toChip) - 1
      /\ \A j \in 1..Len(toChip) - 1 : Tail(toChip)[j] = toChip[j + 1]
      /\ Len(toChip) = 1 => Tail(toChip) = <<>>
  BY <1>1, FirstFrame, NoFrames DEF Inv, Shape
<1>3. /\ reading > 0 => /\ g \in Frames /\ g.kind = "packet"
                        /\ h \in Frames /\ h.kind = "nak"
                        /\ reading - 1 \in 0..Packets
      /\ 0 \in 0..Packets
  <2>1. reading \in 0..Packets /\ Packets \in Nat \ {0}
    BY BootRomAssumption DEF Inv, Shape
  <2>2. reading > 0 => Packets + 1 - reading \in Nat /\ reading - 1 \in 0..Packets
    BY <2>1
  <2>3. f.req \in Nat
    BY <1>2 DEF Frames
  <2> QED BY <2>1, <2>2, <2>3 DEF Reply, Frames
<1>4. \A j \in DOMAIN Tail(toChip) : Tail(toChip)[j].req <= k
  BY <1>2 DEF Inv, Shape
<1> HIDE DEF f, g, h
<1>5. toHost \in Seq(Frames) /\ reading \in 0..Packets
  BY DEF Inv, Shape
<1>6. toHost' \in Seq(Frames) /\ reading' \in 0..Packets
  BY <1>1, <1>3, <1>5, OneMore
<1>7. Shape'
  BY <1>1, <1>2, <1>4, <1>6 DEF Inv, Shape
<1>8. ASSUME trusted' PROVE Token'
  <2>1. trusted /\ Token
    BY <1>1, <1>8 DEF Inv, Safe
  <2>2. Len(toChip) = 1 /\ toHost = <<>> /\ pc = "packets" /\ k \in executed
    <3>1. Len(toChip) = 1 /\ toHost = <<>> /\ pc = "packets"
      BY <1>1, <1>2, <2>1 DEF Token, Chipward
    <3>2. k \in executed
      BY <2>1, <3>1 DEF Token, Hostward
    <3> QED BY <3>1, <3>2
  <2>3. toChip' = <<>> /\ Len(toHost) = 0 /\ DOMAIN toHost = {}
    BY <1>1, <1>2, <2>2
  <2>4. Len(toHost') \in {0, 1} /\ \A j \in DOMAIN toHost' : toHost'[j].kind # "answer"
    <3>1. CASE reading > 0 /\ (toHost' = Append(toHost, g) \/ toHost' = Append(toHost, h))
      <4>1. PICK r \in {g, h} : toHost' = Append(toHost, r)
        BY <3>1
      <4>2. r \in Frames /\ r.kind # "answer"
        BY <1>3, <3>1
      <4>3. Len(toHost') = 0 + 1 /\ DOMAIN toHost' = 1..0 + 1 /\ toHost'[0 + 1] = r
        BY <1>5, <2>3, <4>1, <4>2, OneMore
      <4> QED BY <4>2, <4>3
    <3>2. CASE toHost' = toHost
      BY <2>3, <3>2
    <3> QED BY <1>1, <3>1, <3>2
  <2>5. pc' = "packets" /\ k' \in executed'
    BY <1>1, <2>2
  <2>6. Hostward'
    BY <2>4, <2>5 DEF Hostward
  <2> QED BY <2>3, <2>6 DEF Token, Chipward
<1> QED BY <1>1, <1>7, <1>8 DEF Inv, Safe

LEMMA ResetStep ==
  ASSUME Inv, Reset
  PROVE  Inv' /\ Still
<1>1. /\ toChip' = <<>> /\ reading' = 0 /\ Still
      /\ UNCHANGED <<line, pc, k, sent, toHost, executed, trusted>>
  BY DEF Reset, host, Still
<1>2. 0 \in 0..Packets /\ <<>> \in Seq(Frames) /\ DOMAIN <<>> = {}
  BY BootRomAssumption
<1>3. Shape'
  BY <1>1, <1>2 DEF Inv, Shape
<1>4. ASSUME trusted' PROVE Token'
  <2>1. Token
    BY <1>1, <1>4 DEF Inv, Safe
  <2>2. Hostward'
    BY <1>1, <2>1, SameRequests DEF Token, Hostward
  <2> QED BY <1>1, <2>2 DEF Token, Chipward
<1> QED BY <1>1, <1>3, <1>4 DEF Inv, Safe

LEMMA LoseStep ==
  ASSUME Inv, Lose
  PROVE  Inv' /\ Still
<1>1. /\ toHost # <<>> /\ toHost' = Tail(toHost) /\ Still
      /\ UNCHANGED <<line, pc, k, sent, reading, toChip, executed, trusted>>
  BY DEF Lose, host, chip, Still
<1>2. Tail(toHost) \in Seq(Frames) /\ Len(toHost) \in Nat \ {0}
  BY <1>1, FirstFrame DEF Inv, Shape
<1>3. CASE pc # "send"
  <2>1. 1 \in 1..Len(toHost) /\ Leave(1)
    <3>1. Tail(toHost) = SubSeq(toHost, 2, Len(toHost))
      BY <1>1, TailIsSubSeq DEF Inv, Shape
    <3> QED BY <1>1, <1>2, <3>1 DEF Leave
  <2> QED BY <1>1, <1>3, <2>1, FewerFrames
<1>4. CASE pc = "send"
  <2>1. ~trusted
    BY <1>1, <1>4, OnlyFrame
  <2>2. Shape'
    BY <1>1, <1>2 DEF Inv, Shape
  <2> QED BY <1>1, <2>1, <2>2 DEF Inv, Safe
<1> QED BY <1>3, <1>4

(* And a step in which nothing happens.                                    *)
LEMMA StutterStep ==
  ASSUME Inv, UNCHANGED vars
  PROVE  Inv' /\ Still
<1>1. Still /\ UNCHANGED <<line, pc, k, sent, reading, toChip, toHost, executed, trusted>>
  BY DEF vars, host, chip, Still
<1>2. Shape'
  BY <1>1 DEF Inv, Shape
<1>3. ASSUME trusted' PROVE Token'
  <2>1. Token
    BY <1>1, <1>3 DEF Inv, Safe
  <2> QED BY <1>1, <2>1, SameRequests DEF Token, Chipward, Hostward
<1> QED BY <1>1, <1>2, <1>3 DEF Inv, Safe

-----------------------------------------------------------------------------
(* The invariant holds at first ...                                        *)
LEMMA FirstState ==
  ASSUME Init
  PROVE  Inv /\ Gone /\ Requests!Init
<1>1. /\ k \in {0, 1} /\ sent = 0 /\ reading = 0 /\ pc = "send" /\ toChip = <<>> /\ toHost = <<>>
      /\ executed = {} /\ results = <<>> /\ trusted = TRUE
  BY DEF Init
<1>2. 0 \in 0..Packets /\ <<>> \in Seq(Frames) /\ DOMAIN <<>> = {}
  BY BootRomAssumption
<1>3. Shape
  BY <1>1, <1>2 DEF Shape
<1>4. Token
  BY <1>1, <1>2 DEF Token, Chipward, Hostward
<1>5. Requests!Init
  BY <1>1 DEF Requests!Init
<1> QED BY <1>1, <1>3, <1>4, <1>5 DEF Inv, Safe, Gone

(* ... after every step, and every step is one of ReliableRequest's.       *)
LEMMA EveryStep ==
  ASSUME Inv, Gone, [Next]_vars
  PROVE  Inv' /\ Gone' /\ [Requests!Next]_(Requests!reqVars)
<1>1. Gone'
  BY GoneStep
<1>2. Inv' /\ (Still \/ Requests!Next)
  <2>1. CASE SendFirst
    BY <2>1, SendFirstStep
  <2>2. CASE SendNext
    BY <2>2, SendNextStep
  <2>3. CASE Refused
    BY <2>3, RefusedStep
  <2>4. CASE TakeAck
    BY <2>4, TakeAckStep
  <2>5. CASE UsbAnswer
    BY <2>5, UsbAnswerStep
  <2>6. CASE SerialShort
    BY <2>6, SerialShortStep
  <2>7. CASE SerialAnswer
    BY <2>7, SerialAnswerStep
  <2>8. CASE SerialTimeout
    BY <2>8, SerialTimeoutStep
  <2>9. CASE Disconnected
    BY <2>9, DisconnectedStep
  <2>10. CASE TakePacket
    BY <2>10, TakePacketStep
  <2>11. CASE ChipTakesChunk
    BY <2>11, ChunkStep
  <2>12. CASE ChipTakesAck
    BY <2>12, AckStep
  <2>13. CASE Reset
    BY <2>13, ResetStep
  <2>14. CASE Lose
    BY <2>14, LoseStep
  <2>15. CASE UNCHANGED vars
    BY <2>15, StutterStep
  <2> QED BY <2>1, <2>2, <2>3, <2>4, <2>5, <2>6, <2>7, <2>8, <2>9, <2>10, <2>11, <2>12, <2>13,
             <2>14, <2>15 DEF Next, Host, Chip
<1>3. Still => UNCHANGED Requests!reqVars
  BY DEF Still, Requests!reqVars
<1> QED BY <1>1, <1>2, <1>3

(* Over USB and over a serial line, whatever the chip refuses, whoever     *)
(* resets it and whatever is lost: a command that returns HPM_OK was       *)
(* carried out in its turn and once, until a sync may be answered late     *)
(* (hpmtool.py:486-612, 632-646).                                          *)
THEOREM RequestsReliable == Spec => Reliable
<1>1. Init => Inv /\ Gone /\ Requests!Init
  BY FirstState
<1>2. Inv /\ Gone /\ [Next]_vars => Inv' /\ Gone' /\ [Requests!Next]_(Requests!reqVars)
  BY EveryStep
<1> QED BY <1>1, <1>2, PTL DEF Spec, Reliable, Requests!Spec

-----------------------------------------------------------------------------
(* What the tool works out beforehand.                                     *)

(* Every set of numbers that is not empty has a least one.                 *)
LEMMA LeastNat ==
  ASSUME NEW T \in SUBSET Nat, T # {}
  PROVE  \E x \in T : \A y \in T : x <= y
<1> DEFINE R == OpToRel(<, Nat)
<1>1. \A x, y \in Nat : x < y => <<x, y>> \in R
  BY DEF OpToRel
<1>2. IsWellFoundedOn(R, Nat)
  BY NatLessThanWellFounded
<1> HIDE DEF R
<1>3. PICK x \in T : \A y \in T : ~(<<y, x>> \in R)
  BY <1>2, WFMin
<1>4. x \in Nat /\ \A y \in T : y \in Nat /\ ~(y < x)
  BY <1>1, <1>3
<1>5. \A y \in T : x <= y
  BY <1>4
<1> QED BY <1>5

(* The sectors of a file: it lies between the start of the first and the   *)
(* end of the last.                                                        *)
LEMMA Sectors ==
  ASSUME NEW a \in Nat, NEW n \in Nat
  PROVE  LET S == FLASH_SECTOR_SIZE
             m == (a + n + S - 1) \div S
         IN  /\ m \in Nat /\ a + n <= m * S
             /\ a - (a % S) = (a \div S) * S /\ (a \div S) \in Nat /\ a - (a % S) <= a
<1> DEFINE S == FLASH_SECTOR_SIZE
           c == a + n + S - 1
<1>1. S \in Nat \ {0, 1}
  BY FlashAssumption
<1> HIDE DEF S
<1>2. c \in Nat /\ a \in Nat
  BY <1>1
<1>3. /\ c \div S \in Nat /\ c % S \in 0..S - 1 /\ c = S * (c \div S) + (c % S)
  BY <1>1, <1>2
<1>4. /\ a \div S \in Nat /\ a % S \in 0..S - 1 /\ a = S * (a \div S) + (a % S)
  BY <1>1, <1>2
<1> QED BY <1>1, <1>3, <1>4 DEF S

(* The end of a sector is compared by its last byte, which is as good as   *)
(* the first byte of the next: both sides are multiples of the size.       *)
LEMMA WholeSectors ==
  ASSUME NEW m \in Nat, NEW q \in Nat, m * FLASH_SECTOR_SIZE - 1 <= q * FLASH_SECTOR_SIZE
  PROVE  m * FLASH_SECTOR_SIZE <= q * FLASH_SECTOR_SIZE
<1> DEFINE S == FLASH_SECTOR_SIZE
<1>1. S \in Nat \ {0, 1}
  BY FlashAssumption
<1> HIDE DEF S
<1>2. m <= q
  <2> SUFFICES ASSUME q + 1 <= m PROVE FALSE
    OBVIOUS
  <2>1. (q + 1) * S <= m * S
    BY <1>1
  <2>2. (q + 1) * S = q * S + S
    BY <1>1
  <2> QED BY <1>1, <2>1, <2>2 DEF S
<1> QED BY <1>1, <1>2 DEF S

(* A file with another behind it is followed by one that is not farther.   *)
LEMMA NextFile ==
  ASSUME NEW fs \in Seq([addr : Nat, size : Nat]),
         NEW i \in DOMAIN fs, NEW j \in DOMAIN fs, Before(fs, i, j)
  PROVE  \E m \in DOMAIN fs : Follows(fs, i, m) /\ fs[m].addr <= fs[j].addr
<1> DEFINE later == {m \in DOMAIN fs : Before(fs, i, m)}
           starts == {fs[m].addr : m \in later}
<1>0. fs \in [1..Len(fs) -> [addr : Nat, size : Nat]] /\ Len(fs) \in Nat
  BY LenProperties
<1>1. DOMAIN fs \subseteq Nat /\ \A m \in DOMAIN fs : fs[m].addr \in Nat
  BY <1>0
<1>2. j \in later
  OBVIOUS
<1>3. PICK x \in starts : \A y \in starts : x <= y
  <2>1. starts \in SUBSET Nat /\ starts # {}
    BY <1>1, <1>2
  <2> HIDE DEF starts
  <2> QED BY <2>1, LeastNat
<1> DEFINE first == {m \in later : fs[m].addr = x}
<1>4. first \in SUBSET Nat /\ first # {}
  <2>1. \E m \in later : fs[m].addr = x
    BY <1>3
  <2> QED BY <1>1, <2>1
<1>5. PICK m \in first : \A n \in first : m <= n
  <2> HIDE DEF first
  <2> QED BY <1>4, LeastNat
<1>6. /\ \A n \in DOMAIN fs : Before(fs, i, n) => x <= fs[n].addr
      /\ \A n \in DOMAIN fs : Before(fs, i, n) /\ fs[n].addr = x => m <= n
      /\ m \in DOMAIN fs /\ Before(fs, i, m) /\ fs[m].addr = x
  <2>1. \A n \in DOMAIN fs : Before(fs, i, n) => n \in later /\ fs[n].addr \in starts
    OBVIOUS
  <2>2. \A n \in later : fs[n].addr = x => n \in first
    OBVIOUS
  <2>3. m \in DOMAIN fs /\ Before(fs, i, m) /\ fs[m].addr = x
    BY <1>5
  <2> HIDE DEF later, starts, first
  <2> QED BY <1>3, <1>5, <2>1, <2>2, <2>3
<1> HIDE DEF later, starts, first
<1>7. ASSUME NEW n \in DOMAIN fs, Before(fs, i, n), Before(fs, n, m)
      PROVE  FALSE
  <2>1. n \in Nat /\ m \in Nat /\ fs[n].addr \in Nat /\ x \in Nat /\ fs[m].addr = x
    BY <1>1, <1>6
  <2>2. fs[n].addr < x \/ (fs[n].addr = x /\ n < m)
    BY <1>7, <2>1 DEF Before
  <2>3. x <= fs[n].addr /\ (fs[n].addr = x => m <= n)
    BY <1>6, <1>7
  <2> QED BY <2>1, <2>2, <2>3
<1>8. Follows(fs, i, m)
  BY <1>6, <1>7 DEF Follows
<1> QED BY <1>6, <1>8

(* What the overlap check is for: once no file reaches into the sectors of *)
(* the one that follows it, none reaches any behind it.                    *)
LEMMA FilesApart ==
  ASSUME NEW fs \in Seq([addr : Nat, size : Nat]), ~DetectedOverlap(fs),
         NEW i \in DOMAIN fs, NEW j \in DOMAIN fs, Before(fs, i, j)
  PROVE  fs[i].addr + fs[i].size <= fs[j].addr
<1> DEFINE S == FLASH_SECTOR_SIZE
           a == fs[i].addr
           n == fs[i].size
           b == fs[j].addr
<1>0. fs \in [1..Len(fs) -> [addr : Nat, size : Nat]] /\ Len(fs) \in Nat
  BY LenProperties
<1>1. a \in Nat /\ n \in Nat /\ b \in Nat
  BY <1>0
<1>2. PICK m \in DOMAIN fs : Follows(fs, i, m) /\ fs[m].addr <= b
  BY NextFile
<1> DEFINE c == fs[m].addr
           e == (a + n + S - 1) \div S
           q == c \div S
<1>3. c \in Nat /\ c <= b
  BY <1>0, <1>2
<1>4. ~(SectorStart(fs[m]) < SectorEnd(fs[i]))
  BY <1>2 DEF DetectedOverlap
<1> HIDE DEF a, n, b, c
<1>5. e \in Nat /\ q \in Nat /\ a + n <= e * S /\ c - (c % S) = q * S /\ c - (c % S) <= c
  BY <1>1, <1>3, Sectors, 0 \in Nat
<1>6. ~(c - (c % S) < e * S - 1)
  BY <1>4 DEF SectorStart, SectorEnd, a, n, c
<1>7. S \in Nat
  BY FlashAssumption
<1> HIDE DEF e, q, S
<1>8. e * S \in Nat /\ q * S \in Nat
  BY <1>5, <1>7
<1>9. e * S - 1 <= q * S
  BY <1>5, <1>6, <1>8
<1>10. e * S <= q * S
  BY <1>5, <1>9, WholeSectors DEF S
<1>11. q * S <= b
  BY <1>1, <1>3, <1>5, <1>8
<1>12. a + n <= b
  <2> DEFINE u == e * S
             v == q * S
  <2>1. u \in Nat /\ v \in Nat /\ a + n <= u /\ u <= v /\ v <= b
    BY <1>5, <1>8, <1>10, <1>11
  <2> HIDE DEF u, v
  <2> QED BY <1>1, <2>1
<1> QED BY <1>12 DEF a, n, b

(* ... and so no two have a byte of the flash in common, if they are       *)
(* written in the same way.                                                *)
LEMMA PlacesApart ==
  ASSUME NEW fs \in Seq([addr : Nat, size : Nat]), ~DetectedOverlap(fs),
         NEW i \in DOMAIN fs, NEW j \in DOMAIN fs, i # j,
         (fs[i].addr >= XPI0_START) <=> (fs[j].addr >= XPI0_START)
  PROVE  Place(fs[i]) \cap Place(fs[j]) = {}
<1>0. fs \in [1..Len(fs) -> [addr : Nat, size : Nat]] /\ Len(fs) \in Nat
  BY LenProperties
<1>1. /\ fs[i].addr \in Nat /\ fs[i].size \in Nat /\ i \in Nat
      /\ fs[j].addr \in Nat /\ fs[j].size \in Nat /\ j \in Nat
      /\ XPI0_START \in Nat
  BY <1>0, FlashAssumption
<1>2. Before(fs, i, j) \/ Before(fs, j, i)
  BY <1>1 DEF Before
<1>3. \/ fs[i].addr + fs[i].size <= fs[j].addr
      \/ fs[j].addr + fs[j].size <= fs[i].addr
  BY <1>2, FilesApart
<1> DEFINE a == fs[i].addr
           n == fs[i].size
           b == fs[j].addr
           m == fs[j].size
<1>4. /\ \/ a + n <= b
         \/ b + m <= a
      /\ a >= XPI0_START <=> b >= XPI0_START
      /\ a \in Nat /\ n \in Nat /\ b \in Nat /\ m \in Nat
  BY <1>1, <1>3
<1>5. /\ fs[i].addr = a /\ fs[i].size = n
      /\ fs[j].addr = b /\ fs[j].size = m
  OBVIOUS
<1> HIDE DEF a, n, b, m
<1>6. \/ FlashAddr(a) + n <= FlashAddr(b)
      \/ FlashAddr(b) + m <= FlashAddr(a)
  BY <1>1, <1>4 DEF FlashAddr
<1>7. FlashAddr(a) \in Nat /\ FlashAddr(b) \in Nat
  BY <1>1, <1>4 DEF FlashAddr
<1>8. /\ Place(fs[i]) = FlashAddr(a)..FlashAddr(a) + n - 1
      /\ Place(fs[j]) = FlashAddr(b)..FlashAddr(b) + m - 1
  BY <1>5 DEF Place
<1> DEFINE c == FlashAddr(a)
           d == FlashAddr(b)
<1> HIDE DEF c, d
<1>9. (c..c + n - 1) \cap (d..d + m - 1) = {}
  <2> SUFFICES ASSUME NEW p, p \in c..c + n - 1, p \in d..d + m - 1
               PROVE  FALSE
    OBVIOUS
  <2>1. c \in Nat /\ d \in Nat /\ (c + n <= d \/ d + m <= c)
    BY <1>6, <1>7 DEF c, d
  <2> QED BY <1>4, <2>1
<1> QED BY <1>8, <1>9 DEF c, d

(* What is read from a header, named, looked up and packed again brings    *)
(* about the options it came from.                                         *)
LEMMA ConfigKept ==
  ASSUME NEW im \in Headers, Configurable(im), Kept(Header(im))
  PROVE  Effective(BuiltConfig(DetectedOptions(Header(im).options))) = Effective(Header(im))
<1> DEFINE h == Header(im)
           o == h.options
           second == {"voltage", "group", "selection", "strength"}
<1>1. h \in [words : Nat, options : [Fields -> Nat]]
  <2>1. h \in Headers /\ h # NoHeader
    BY FlashAssumption DEF Configurable, Header
  <2> QED BY <2>1 DEF Headers
<1>2. o \in [Fields -> Nat] /\ o.strength < 16 /\ o = Effective(h)
      /\ (o["size"] # 0 => \E x \in second : o[x] # 0)
  BY <1>1 DEF Kept
<1>3. \A x \in DOMAIN Named : DetectedOptions(o)[x] # None
  BY DEF Configurable
<1> HIDE DEF h
<1>4. DOMAIN o = Fields /\ \A x \in Fields : x # "strength" => x \in DOMAIN Named
  BY <1>2 DEF Fields, Named
<1>5. ASSUME NEW x \in Fields
      PROVE  DetectedOptions(o)[x] = o[x]
  <2>1. CASE x = "strength"
    <3>1. o[x] \in Nat /\ o[x] < 16
      BY <1>2, <2>1 DEF Fields
    <3>2. o[x] % 16 = o[x]
      BY <3>1
    <3> QED BY <1>4, <2>1, <3>2 DEF DetectedOptions
  <2>2. CASE x # "strength"
    <3>1. DetectedOptions(o)[x] = IF o[x] \in Named[x] THEN o[x] ELSE None
      BY <1>4, <2>2 DEF DetectedOptions
    <3>2. DetectedOptions(o)[x] # None
      BY <1>3, <1>4, <2>2
    <3> QED BY <3>1, <3>2
  <2> QED BY <2>1, <2>2
<1>6. DetectedOptions(o) = o
  <2> DEFINE d == [x \in Fields |-> IF x = "strength" THEN o[x] % 16
                      ELSE IF o[x] \in Named[x] THEN o[x] ELSE None]
  <2>1. DetectedOptions(o) = d
    BY <1>4 DEF DetectedOptions
  <2>2. \A x \in Fields : d[x] = o[x]
    BY <1>5, <2>1
  <2>3. d = [x \in Fields |-> o[x]]
    BY <2>2
  <2>4. o = [x \in Fields |-> o[x]]
    BY <1>2
  <2> QED BY <2>1, <2>3, <2>4
<1>7. o["freq"] # 0
  <2>1. "freq" \in DOMAIN Named /\ "freq" \in Fields /\ Named["freq"] = 1..8
    BY DEF Named, Fields
  <2>2. DetectedOptions(o)["freq"] = IF o["freq"] \in 1..8 THEN o["freq"] ELSE None
    BY <1>4, <2>1 DEF DetectedOptions
  <2>3. DetectedOptions(o)["freq"] # None
    BY <1>3, <2>1
  <2> QED BY <2>2, <2>3
<1> DEFINE c == BuiltConfig(o)
<1>8. /\ c.options = o /\ c.words \in {1, 2, 3}
      /\ c.words = 1 => \A x \in second : o[x] = 0
      /\ c.words # 3 => o["size"] = 0
  <2>1. c.options = o
    BY DEF BuiltConfig
  <2>2. ~\A x \in {"probe", "pad_power_on", "pad_config", "qes", "misc", "freq"} : o[x] = 0
    BY <1>7
  <2>3. c.words = IF ~(\A x \in second : o[x] = 0) /\ o["size"] # 0 THEN 3
                  ELSE IF ~(\A x \in second : o[x] = 0) THEN 2 ELSE 1
    BY <2>2 DEF BuiltConfig
  <2> HIDE DEF c
  <2> QED BY <1>2, <2>1, <2>3
<1> HIDE DEF c
<1>9. \A x \in Fields : (c.words = 0 \/ (c.words < 2 /\ x \in second) \/ (c.words < 3 /\ x = "size"))
                           => o[x] = 0
  BY <1>8
<1>10. Effective(c) = o
  <2>1. Effective(c) = [x \in Fields |->
          IF c.words = 0 \/ (c.words < 2 /\ x \in second) \/ (c.words < 3 /\ x = "size")
          THEN 0 ELSE o[x]]
    BY <1>4, <1>8 DEF Effective
  <2>2. Effective(c) = [x \in Fields |-> o[x]]
    BY <1>9, <2>1
  <2> QED BY <1>2, <2>2
<1> QED BY <1>2, <1>6, <1>10 DEF h, c

-----------------------------------------------------------------------------
(* What the commands leave in the chip.                                    *)

(* A result was returned for each command so far, and while answers can be *)
(* trusted HPM_OK means that it was carried out.                           *)
Results ==
  /\ results \in Seq({"ok", "error"})
  /\ Len(results) = IF k = 0 THEN 0 ELSE k - 1
  /\ trusted => \A i \in DOMAIN results : results[i] = "ok" => i \in executed
(* Where the run is: within its commands, and behind the last when it is   *)
(* done; the checks before the first have been passed.                     *)
Turns ==
  /\ files \in Files /\ image \in Images /\ op \in {"write", "read"}
  /\ outcome \in {"running", "done", "usage", "crashed", "fatal"}
  /\ pc # "send" \/ outcome = "running" => k <= Len(Script)
  /\ outcome = "done" => k = Len(Script) + 1
  /\ (op = "write" /\ outcome \in {"running", "done"}) =>
       ~DetectedOverlap(files) /\ Configurable(image)
(* File j stands in the flash where it was to go.                          *)
Stands(j) == \A a \in Place(files[j]) : a \in DOMAIN flash /\ flash[a] = j
(* What the commands carried out so far have left in the chip.             *)
Flashed ==
  trusted =>
    /\ 2 \in executed => conf = BuiltConfig(Options)
    /\ (2 \in executed /\ 3 \in executed) => config = BuiltConfig(Options)
    /\ (op = "write" /\ OneWay /\ ~DetectedOverlap(files)) =>
         \A j \in DOMAIN files : 3 + j \in executed => Stands(j)
(* The commands of a run by their numbers.                                 *)
LEMMA ScriptIs ==
  ASSUME files \in Files, op \in {"write", "read"}
  PROVE  /\ Len(files) \in Nat /\ DOMAIN files = 1..Len(files)
         /\ Len(Script) = IF op = "write" THEN 3 + Len(files) ELSE 4
         /\ Request(0) = Query /\ Request(1) = Query
         /\ Request(2) = WriteConf /\ Request(3) = Configure
         /\ op = "write" => \A j \in DOMAIN files : Request(3 + j) = WriteFile(j)
         /\ op = "read" => Request(4) = Read
<1> DEFINE rest == IF op = "write" THEN [j \in DOMAIN files |-> WriteFile(j)] ELSE <<Read>>
           start == <<Query, WriteConf, Configure>>
           All == {Query, WriteConf, Configure, Read} \cup {WriteFile(j) : j \in DOMAIN files}
<1>1. Len(files) \in Nat /\ DOMAIN files = 1..Len(files)
  <2>1. files \in Seq([addr : Nat, size : Nat])
    BY BootRomAssumption
  <2> QED BY <2>1, LenProperties
<1>2. start \in Seq(All) /\ Len(start) = 3 /\ start[1] = Query /\ start[2] = WriteConf
      /\ start[3] = Configure
  OBVIOUS
<1>3. /\ rest \in Seq(All)
      /\ Len(rest) = IF op = "write" THEN Len(files) ELSE 1
      /\ op = "write" => \A j \in DOMAIN files : rest[j] = WriteFile(j)
      /\ op = "read" => rest[1] = Read
  <2>1. CASE op = "write"
    <3>1. rest = [j \in 1..Len(files) |-> WriteFile(j)]
      BY <1>1, <2>1
    <3>2. rest \in [1..Len(files) -> All]
      BY <1>1, <3>1
    <3>3. rest \in Seq(All) /\ Len(rest) = Len(files)
      BY <1>1, <3>1, <3>2
    <3> QED BY <1>1, <2>1, <3>1, <3>3
  <2>2. CASE op = "read"
    BY <2>2
  <2> QED BY <2>1, <2>2
<1>4. Script = start \o rest
  BY DEF Script
<1> HIDE DEF start, rest, All
<1>5. /\ Len(Script) = 3 + Len(rest)
      /\ \A i \in 1..3 + Len(rest) : Script[i] = IF i <= 3 THEN start[i] ELSE rest[i - 3]
  <2>1. start \in Seq(All) /\ rest \in Seq(All) /\ Len(start) = 3 /\ Script = start \o rest
    BY <1>2, <1>3, <1>4
  <2>2. /\ Len(start \o rest) = Len(start) + Len(rest)
        /\ \A i \in 1..Len(start) + Len(rest) :
             (start \o rest)[i] = IF i <= Len(start) THEN start[i] ELSE rest[i - Len(start)]
    BY <2>1, ConcatProperties
  <2> QED BY <2>1, <2>2
<1>6. Len(rest) \in Nat
  BY <1>1, <1>3
<1>7. Script[1] = Query /\ Script[2] = WriteConf /\ Script[3] = Configure
  BY <1>2, <1>5, <1>6
<1>8. op = "write" => \A j \in DOMAIN files : Script[3 + j] = WriteFile(j)
  <2> SUFFICES ASSUME op = "write", NEW j \in DOMAIN files
               PROVE  Script[3 + j] = WriteFile(j)
    OBVIOUS
  <2>1. j \in 1..Len(files) /\ Len(rest) = Len(files) /\ rest[j] = WriteFile(j)
    BY <1>1, <1>3
  <2>2. 3 + j \in 1..3 + Len(rest) /\ ~(3 + j <= 3) /\ (3 + j) - 3 = j
    BY <1>1, <2>1
  <2> QED BY <1>5, <2>1, <2>2
<1>9. op = "read" => Script[4] = Read
  <2> SUFFICES ASSUME op = "read" PROVE Script[4] = Read
    OBVIOUS
  <2>1. Len(rest) = 1 /\ rest[1] = Read
    BY <1>3
  <2> QED BY <1>5, <2>1
<1>10. /\ Request(0) = Query
       /\ \A j \in Nat : j # 0 => Request(j) = Script[j]
  BY DEF Request
<1>11. Len(Script) = IF op = "write" THEN 3 + Len(files) ELSE 4
  BY <1>1, <1>3, <1>5
<1>12. op = "write" => \A j \in DOMAIN files : Request(3 + j) = WriteFile(j)
  <2> SUFFICES ASSUME op = "write", NEW j \in DOMAIN files
               PROVE  Request(3 + j) = WriteFile(j)
    OBVIOUS
  <2>1. 3 + j \in Nat /\ 3 + j # 0
    BY <1>1
  <2> QED BY <1>8, <1>10, <2>1
<1> QED BY <1>1, <1>7, <1>9, <1>10, <1>11, <1>12

(* They do not change, nor do the options.                                 *)
LEMMA SameScript ==
  ASSUME UNCHANGED line
  PROVE  /\ Script' = Script /\ Options' = Options
         /\ UNCHANGED <<files, image, op, hid>>
         /\ Len(Script)' = Len(Script)
<1>1. UNCHANGED <<files, image, op, hid>>
  BY DEF line
<1>2. Script' = Script
  BY <1>1 DEF Script, Query, WriteConf, Configure, Read, WriteFile, Chunks
<1>3. Options' = Options
  BY <1>1 DEF Options
<1> QED BY <1>1, <1>2, <1>3

(* Results are kept by every step of ReliableRequest.                      *)
LEMMA ResultsStep ==
  ASSUME Results, k \in Nat, [Requests!Next]_(Requests!reqVars)
  PROVE  Results'
<1>1. CASE Requests!Connect
  BY <1>1 DEF Requests!Connect, Results
<1>2. CASE Requests!LoseTrust
  BY <1>2 DEF Requests!LoseTrust, Results
<1>3. CASE Requests!Execute
  BY <1>3 DEF Requests!Execute, Results
<1>4. ASSUME NEW r \in {"ok", "error"}, Requests!Return(r)
      PROVE  Results'
  <2>1. /\ k # 0 /\ results' = Append(results, r) /\ k' = k + 1
        /\ executed' = executed /\ trusted' = trusted
        /\ (r = "ok" /\ trusted) => k \in executed
    BY <1>4 DEF Requests!Return
  <2>2. /\ results \in Seq({"ok", "error"}) /\ Len(results) = k - 1
        /\ trusted => \A i \in DOMAIN results : results[i] = "ok" => i \in executed
    BY <2>1 DEF Results
  <2>3. /\ results' \in Seq({"ok", "error"}) /\ Len(results') = k /\ k' # 0 /\ k' - 1 = k
    BY <2>1, <2>2, AppendProperties
  <2>4. DOMAIN results = 1..k - 1 /\ DOMAIN results' = 1..k
    BY <2>2, <2>3, LenProperties
  <2>5. (\A i \in 1..k - 1 : results'[i] = results[i]) /\ results'[k] = r
    <3>1. Len(results) + 1 = k
      BY <2>2
    <3> QED BY <2>1, <2>2, <3>1, AppendProperties
  <2>6. ASSUME trusted, NEW i \in 1..k, results'[i] = "ok"
        PROVE  i \in executed
    <3>1. CASE i = k
      BY <2>1, <2>5, <2>6, <3>1
    <3>2. CASE i # k
      <4>1. i \in 1..k - 1
        BY <2>6, <3>2
      <4> QED BY <2>2, <2>4, <2>5, <2>6, <4>1
    <3> QED BY <3>1, <3>2
  <2> QED BY <2>1, <2>3, <2>4, <2>6 DEF Results
<1>5. CASE UNCHANGED Requests!reqVars
  BY <1>5 DEF Requests!reqVars, Results
<1> QED BY <1>1, <1>2, <1>3, <1>4, <1>5 DEF Requests!Next

(* What a step of the tool leaves alone, and that a command begins only    *)
(* when the one before it has returned.                                    *)
LEMMA HostMoves ==
  ASSUME Host
  PROVE  /\ UNCHANGED <<line, executed, conf, config, flash, gone>>
         /\ outcome = "running"
         /\ \/ \E r : Returns(r)
            \/ k' = k /\ outcome' \in {"running", "crashed", "fatal"}
<1>1. CASE SendFirst
  BY <1>1 DEF SendFirst, chip
<1>2. CASE SendNext
  BY <1>2 DEF SendNext, chip
<1>3. CASE Refused
  BY <1>3 DEF Refused, Fails, Returns
<1>4. CASE TakeAck
  BY <1>4 DEF TakeAck, chip
<1>5. CASE UsbAnswer
  BY <1>5 DEF UsbAnswer, Takes, Fails, Returns, chip
<1>6. CASE SerialShort
  BY <1>6 DEF SerialShort, chip, host
<1>7. CASE SerialAnswer
  BY <1>7 DEF SerialAnswer, Takes, Fails, Returns, chip
<1>8. CASE SerialTimeout
  BY <1>8 DEF SerialTimeout, chip
<1>9. CASE Disconnected
  BY <1>9 DEF Disconnected, Fails, Returns, chip
<1>10. CASE TakePacket
  BY <1>10 DEF TakePacket, Fails, Returns, chip, host
<1> QED BY <1>1, <1>2, <1>3, <1>4, <1>5, <1>6, <1>7, <1>8, <1>9, <1>10 DEF Host

LEMMA TurnsStep ==
  ASSUME Inv, Turns, [Next]_vars
  PROVE  Turns'
<1>1. CASE Host
  <2>1. UNCHANGED line /\ outcome = "running" /\ k <= Len(Script)
    BY <1>1, HostMoves DEF Turns
  <2>2. Len(Script)' = Len(Script) /\ Len(Script) \in Nat /\ k \in Nat
    <3>1. files \in Files /\ op \in {"write", "read"} /\ k \in Nat
      BY DEF Turns, Inv, Shape
    <3>2. Len(Script) \in Nat
      BY <3>1, ScriptIs
    <3> QED BY <2>1, <3>1, <3>2, SameScript
  <2>3. UNCHANGED <<files, image, op>>
    BY <2>1, SameScript
  <2>4. CASE \E r : Returns(r)
    <3>1. /\ k' = k + 1 /\ pc' = "send" /\ outcome' \in {"crashed", "done", "running"}
          /\ outcome' = "done" => k = Len(Script)
          /\ outcome' = "running" => k # Len(Script)
      BY <2>4 DEF Returns
    <3>2. /\ outcome' = "running" => k' <= Len(Script)'
          /\ outcome' = "done" => k' = Len(Script)' + 1
      BY <2>1, <2>2, <3>1
    <3> QED BY <2>1, <2>3, <3>1, <3>2 DEF Turns
  <2>5. CASE k' = k /\ outcome' \in {"running", "crashed", "fatal"}
    BY <2>1, <2>2, <2>3, <2>5 DEF Turns
  <2> QED BY <1>1, <2>4, <2>5, HostMoves
<1>2. CASE Chip \/ Reset \/ Lose \/ UNCHANGED vars
  <2>1. UNCHANGED <<line, host>>
    BY <1>2 DEF Chip, ChipTakesChunk, ChipTakesAck, Reset, Lose, vars
  <2>2. UNCHANGED <<files, image, op, k, pc, outcome>> /\ Len(Script)' = Len(Script)
    BY <2>1, SameScript DEF host
  <2> QED BY <2>2 DEF Turns
<1> QED BY <1>1, <1>2 DEF Next

(* What the chip does when it carries a command out, by the number of the  *)
(* command.                                                                *)
LEMMA ChipCarries ==
  ASSUME Inv, Turns, trusted, NEW f, f = Head(toChip),
         toChip # <<>>, f.kind = "data", CarryOut(f)
  PROVE  /\ executed' = IF k = 0 THEN executed ELSE executed \cup {k}
         /\ k \notin executed /\ k \in 0..Len(Script)
         /\ conf' = IF k = 2 THEN BuiltConfig(Options) ELSE conf
         /\ config' = IF k = 3 THEN conf ELSE config
         /\ flash' = IF op = "write" /\ k > 3
                     THEN [a \in DOMAIN flash \cup Place(files[k - 3]) |->
                             IF a \in Place(files[k - 3]) THEN k - 3 ELSE flash[a]]
                     ELSE flash
         /\ reading' = IF Request(k).cmd = "read" THEN Packets ELSE 0
<1>1. f = toChip[1]
  BY FirstFrame DEF Inv, Shape
<1>2. f.req = k /\ k \notin executed /\ pc \in {"ack", "answer"}
  BY <1>1 DEF Inv, Safe, Token, Chipward
<1>3. k \in Nat /\ k <= Len(Script)
  BY <1>2 DEF Inv, Shape, Turns
<1> DEFINE r == Request(k)
<1>4. /\ executed' = IF k = 0 THEN executed ELSE executed \cup {k}
      /\ conf' = IF r.cmd = "write" /\ r.what = 0 THEN BuiltConfig(Options) ELSE conf
      /\ config' = IF r.cmd = "configure" THEN conf ELSE config
      /\ flash' = IF r.cmd = "write" /\ r.what > 0
                  THEN [a \in DOMAIN flash \cup Place(files[r.what]) |->
                          IF a \in Place(files[r.what]) THEN r.what ELSE flash[a]]
                  ELSE flash
      /\ reading' = IF r.cmd = "read" THEN Packets ELSE 0
  BY <1>2 DEF CarryOut
<1>5. files \in Files /\ op \in {"write", "read"}
  BY DEF Turns
<1>6. Len(files) \in Nat /\ Len(Script) = IF op = "write" THEN 3 + Len(files) ELSE 4
  BY <1>5, ScriptIs
<1>7. CASE k = 0 \/ k = 1
  <2>1. r.cmd = "query"
    BY <1>5, <1>7, ScriptIs DEF Query
  <2> HIDE DEF r
  <2>2. k # 2 /\ k # 3 /\ ~(k > 3)
    BY <1>7
  <2> QED BY <1>2, <1>3, <1>4, <1>6, <2>1, <2>2 DEF r
<1>8. CASE k = 2
  <2>1. r.cmd = "write" /\ r.what = 0
    BY <1>5, <1>8, ScriptIs DEF WriteConf
  <2> HIDE DEF r
  <2> QED BY <1>2, <1>3, <1>4, <1>6, <1>8, <2>1 DEF r
<1>9. CASE k = 3
  <2>1. r.cmd = "configure"
    BY <1>5, <1>9, ScriptIs DEF Configure
  <2> HIDE DEF r
  <2> QED BY <1>2, <1>3, <1>4, <1>6, <1>9, <2>1 DEF r
<1>10. CASE k > 3 /\ op = "write"
  <2>1. k - 3 \in DOMAIN files /\ k = 3 + (k - 3)
    BY <1>3, <1>5, <1>6, <1>10, ScriptIs
  <2>2. r = WriteFile(k - 3)
    BY <1>5, <1>10, <2>1, ScriptIs
  <2>3. r.cmd = "write" /\ r.what = k - 3
    BY <2>2 DEF WriteFile
  <2>4. k # 2 /\ k # 3 /\ k - 3 > 0
    BY <1>3, <1>10
  <2> HIDE DEF r
  <2> QED BY <1>2, <1>3, <1>4, <1>6, <1>10, <2>3, <2>4 DEF r
<1>11. CASE k > 3 /\ op = "read"
  <2>1. k = 4
    BY <1>3, <1>6, <1>11
  <2>2. r.cmd = "read"
    BY <1>5, <1>11, <2>1, ScriptIs DEF Read
  <2> HIDE DEF r
  <2> QED BY <1>2, <1>3, <1>4, <1>6, <1>11, <2>1, <2>2 DEF r
<1> QED BY <1>3, <1>5, <1>7, <1>8, <1>9, <1>10, <1>11

(* A write touches no file but its own, since their places are apart.      *)
LEMMA FlashedStep ==
  ASSUME Inv, Turns, Flashed, [Next]_vars
  PROVE  Flashed'
<1>1. CASE UNCHANGED <<line, executed, conf, config, flash>> /\ (trusted' => trusted)
  <2>1. UNCHANGED <<files, op>> /\ Options' = Options
    BY <1>1, SameScript
  <2>2. OneWay' = OneWay /\ DetectedOverlap(files)' = DetectedOverlap(files)
        /\ \A j : Stands(j)' = Stands(j)
    BY <1>1, <2>1 DEF OneWay, Stands
  <2> QED BY <1>1, <2>1, <2>2 DEF Flashed
<1>2. ASSUME ChipTakesChunk, CarryOut(Head(toChip)), trusted
      PROVE  Flashed'
  <2> DEFINE f == Head(toChip)
  <2>1. /\ executed' = IF k = 0 THEN executed ELSE executed \cup {k}
        /\ k \notin executed /\ k \in 0..Len(Script)
        /\ conf' = IF k = 2 THEN BuiltConfig(Options) ELSE conf
        /\ config' = IF k = 3 THEN conf ELSE config
        /\ flash' = IF op = "write" /\ k > 3
                    THEN [a \in DOMAIN flash \cup Place(files[k - 3]) |->
                            IF a \in Place(files[k - 3]) THEN k - 3 ELSE flash[a]]
                    ELSE flash
    <3>1. toChip # <<>> /\ f.kind = "data" /\ CarryOut(f)
      BY <1>2 DEF ChipTakesChunk
    <3> QED BY <1>2, <3>1, ChipCarries
  <2>2. UNCHANGED <<files, op, line>> /\ Options' = Options
    BY <1>2, SameScript DEF ChipTakesChunk
  <2>3. k \in Nat /\ executed \subseteq 1..k
    BY DEF Inv, Shape
  <2>4. /\ 2 \in executed => conf = BuiltConfig(Options)
        /\ (2 \in executed /\ 3 \in executed) => config = BuiltConfig(Options)
        /\ (op = "write" /\ OneWay /\ ~DetectedOverlap(files)) =>
             \A j \in DOMAIN files : 3 + j \in executed => Stands(j)
    BY <1>2 DEF Flashed
  <2>5. 2 \in executed' => conf' = BuiltConfig(Options')
    BY <2>1, <2>2, <2>4
  <2>6. (2 \in executed' /\ 3 \in executed') => config' = BuiltConfig(Options')
    <3>1. CASE k = 3
      BY <2>1, <2>2, <2>4, <3>1
    <3>2. CASE k # 3
      BY <2>1, <2>2, <2>3, <2>4, <3>2
    <3> QED BY <3>1, <3>2
  <2>7. ASSUME op = "write", OneWay, ~DetectedOverlap(files), NEW j \in DOMAIN files,
               3 + j \in executed'
        PROVE  Stands(j)'
    <3>1. /\ Len(files) \in Nat /\ DOMAIN files = 1..Len(files) /\ j \in Nat /\ j > 0
          /\ Len(Script) = 3 + Len(files) /\ files \in Seq([addr : Nat, size : Nat])
      BY <2>7, ScriptIs, BootRomAssumption DEF Turns
    <3>2. CASE k = 3 + j
      <4>1. k > 3 /\ k - 3 = j
        BY <3>1, <3>2
      <4>2. flash' = [a \in DOMAIN flash \cup Place(files[j]) |->
                        IF a \in Place(files[j]) THEN j ELSE flash[a]]
        BY <2>1, <2>7, <4>1
      <4>3. \A a \in Place(files[j]) : a \in DOMAIN flash' /\ flash'[a] = j
        BY <4>2
      <4> QED BY <2>2, <4>3 DEF Stands
    <3>3. CASE k # 3 + j
      <4>1. 3 + j \in executed
        BY <2>1, <2>7, <3>3
      <4>2. Stands(j)
        BY <2>4, <2>7, <4>1
      <4>3. CASE k > 3
        <5>1. k - 3 \in DOMAIN files /\ k - 3 # j
          <6>1. k <= 3 + Len(files) /\ k \in Nat
            BY <2>1, <3>1
          <6> QED BY <3>1, <3>3, <4>3, <6>1
        <5>2. Place(files[k - 3]) \cap Place(files[j]) = {}
          <6>1. (files[k - 3].addr >= XPI0_START) <=> (files[j].addr >= XPI0_START)
            BY <2>7, <5>1 DEF OneWay
          <6> QED BY <2>7, <3>1, <5>1, <6>1, PlacesApart
        <5>3. flash' = [a \in DOMAIN flash \cup Place(files[k - 3]) |->
                          IF a \in Place(files[k - 3]) THEN k - 3 ELSE flash[a]]
          BY <2>1, <2>7, <4>3
        <5>4. \A a \in Place(files[j]) : a \in DOMAIN flash /\ flash[a] = j
          BY <4>2 DEF Stands
        <5> DEFINE other == Place(files[k - 3])
        <5>5. \A a \in Place(files[j]) : a \in DOMAIN flash' /\ flash'[a] = j
          <6>1. \A a \in Place(files[j]) : ~(a \in other)
            BY <5>2
          <6>2. flash' = [a \in DOMAIN flash \cup other |-> IF a \in other THEN k - 3 ELSE flash[a]]
            BY <5>3
          <6> HIDE DEF other
          <6> QED BY <5>4, <6>1, <6>2
        <5> QED BY <2>2, <5>5 DEF Stands
      <4>4. CASE ~(k > 3)
        <5>1. flash' = flash
          BY <2>1, <4>4
        <5> QED BY <2>2, <4>2, <5>1 DEF Stands
      <4> QED BY <4>3, <4>4
    <3> QED BY <3>2, <3>3
  <2>8. OneWay' = OneWay /\ DetectedOverlap(files)' = DetectedOverlap(files)
    BY <2>2 DEF OneWay
  <2> QED BY <2>2, <2>5, <2>6, <2>7, <2>8 DEF Flashed
<1>3. CASE Host
  <2>1. trusted' => trusted
    BY <1>3 DEF Host, SendFirst, SendNext, Refused, TakeAck, UsbAnswer, SerialShort, SerialAnswer,
                SerialTimeout, Disconnected, TakePacket, Takes, Fails, Returns
  <2> QED BY <1>1, <1>3, <2>1, HostMoves
<1>4. CASE ChipTakesChunk
  <2>1. trusted' = trusted /\ UNCHANGED line
    BY <1>4 DEF ChipTakesChunk
  <2>2. CASE ~trusted
    BY <2>1, <2>2 DEF Flashed
  <2>3. CarryOut(Head(toChip)) \/ UNCHANGED <<executed, conf, config, flash>>
    BY <1>4 DEF ChipTakesChunk
  <2> QED BY <1>1, <1>2, <1>4, <2>1, <2>2, <2>3
<1>5. CASE ChipTakesAck \/ Reset \/ Lose \/ UNCHANGED vars
  <2>1. UNCHANGED <<line, executed, conf, config, flash, trusted>>
    BY <1>5 DEF ChipTakesAck, Reset, Lose, vars, chip
  <2> QED BY <1>1, <2>1
<1> QED BY <1>3, <1>4, <1>5 DEF Next, Chip

(* All of it together.                                                     *)
Carried == Inv /\ Gone /\ Results /\ Turns /\ Flashed

LEMMA CarriedFirst ==
  ASSUME Init
  PROVE  Carried
<1>1. Inv /\ Gone
  BY FirstState
<1>2. /\ executed = {} /\ results = <<>> /\ k \in {0, 1}
      /\ k = IF hid THEN 1 ELSE 0
  BY DEF Init
<1>3. Results
  <2>1. results \in Seq({"ok", "error"}) /\ Len(results) = 0 /\ DOMAIN results = {}
    BY <1>2
  <2>2. Len(results) = IF k = 0 THEN 0 ELSE k - 1
    BY <1>2, <2>1
  <2> QED BY <2>1, <2>2 DEF Results
<1>4. Turns
  <2>1. /\ files \in Files /\ image \in Images /\ op \in {"write", "read"} /\ pc = "send"
        /\ outcome = IF op = "write" /\ DetectedOverlap(files) THEN "usage"
                     ELSE IF op = "write" /\ ~Configurable(image) THEN "crashed" ELSE "running"
    BY DEF Init
  <2>2. k <= Len(Script)
    <3>1. Len(Script) \in Nat /\ Len(Script) >= 3
      <4>1. Len(files) \in Nat /\ Len(Script) = IF op = "write" THEN 3 + Len(files) ELSE 4
        BY <2>1, ScriptIs
      <4> QED BY <4>1
    <3> QED BY <1>2, <3>1
  <2> QED BY <2>1, <2>2 DEF Turns
<1>5. Flashed
  BY <1>2 DEF Flashed
<1> QED BY <1>1, <1>3, <1>4, <1>5 DEF Carried

LEMMA CarriedStep ==
  ASSUME Carried, [Next]_vars
  PROVE  Carried'
<1>1. Inv' /\ Gone' /\ [Requests!Next]_(Requests!reqVars) /\ k \in Nat
  BY EveryStep DEF Carried, Inv, Shape
<1> QED BY <1>1, ResultsStep, TurnsStep, FlashedStep DEF Carried

(* When every command returned HPM_OK all were carried out.                *)
LEMMA AllCarriedOut ==
  ASSUME Carried, AllOk, op = "write"
  PROVE  /\ 2 \in executed /\ 3 \in executed
         /\ \A j \in DOMAIN files : 3 + j \in executed
         /\ ~DetectedOverlap(files) /\ Configurable(image)
<1>1. /\ files \in Files /\ op \in {"write", "read"} /\ k = Len(Script) + 1
      /\ ~DetectedOverlap(files) /\ Configurable(image)
  BY DEF Carried, Turns, AllOk
<1>2. Len(files) \in Nat /\ DOMAIN files = 1..Len(files) /\ Len(Script) = 3 + Len(files)
  BY <1>1, ScriptIs
<1>3. results \in Seq({"ok", "error"}) /\ Len(results) = 3 + Len(files)
  BY <1>1, <1>2 DEF Carried, Results
<1>4. DOMAIN results = 1..3 + Len(files)
  BY <1>3, LenProperties
<1>5. \A i \in 1..3 + Len(files) : i \in executed
  BY <1>4 DEF Carried, Results, AllOk
<1> QED BY <1>1, <1>2, <1>5

(* write_flash, for every list of files: when it ends with every command   *)
(* HPM_OK and no answer was late, each file stands in the flash where it   *)
(* was to go (hpmtool.py:941-949, 2698-2707).                              *)
THEOREM FilesStand == Spec => []FlashHoldsFiles
<1>1. Carried => FlashHoldsFiles
  <2> SUFFICES ASSUME Carried, AllOk, op = "write", OneWay
               PROVE  \A j \in DOMAIN files :
                        \A a \in Place(files[j]) : a \in DOMAIN flash /\ flash[a] = j
    BY DEF FlashHoldsFiles
  <2>1. /\ \A j \in DOMAIN files : 3 + j \in executed
        /\ ~DetectedOverlap(files)
    BY AllCarriedOut
  <2>2. trusted
    BY DEF AllOk
  <2>3. \A j \in DOMAIN files : Stands(j)
    BY <2>1, <2>2 DEF Carried, Flashed
  <2> QED BY <2>3 DEF Stands
<1> QED BY <1>1, CarriedFirst, CarriedStep, PTL DEF Spec

(* ... and the chip works with the configuration of the image, if the      *)
(* header is one of those that are kept (hpmtool.py:864-894, 2366-2402).   *)
THEOREM ImageConfigures == Spec => []ConfigIsImages
<1>1. Carried => ConfigIsImages
  <2> SUFFICES ASSUME Carried, AllOk, op = "write", Kept(Header(image))
               PROVE  Effective(config) = Effective(Header(image))
    BY DEF ConfigIsImages
  <2>1. 2 \in executed /\ 3 \in executed /\ Configurable(image)
    BY AllCarriedOut
  <2>2. config = BuiltConfig(DetectedOptions(Header(image).options))
    <3>1. config = BuiltConfig(Options)
      BY <2>1 DEF Carried, Flashed, AllOk
    <3>2. Options = DetectedOptions(Header(image).options)
      BY DEF Options
    <3> QED BY <3>1, <3>2
  <2>3. image \in Headers
    BY BootRomAssumption DEF Carried, Turns
  <2> QED BY <2>1, <2>2, <2>3, ConfigKept
<1> QED BY <1>1, CarriedFirst, CarriedStep, PTL DEF Spec

-----------------------------------------------------------------------------
(* The read.                                                               *)

(* The first n packets.                                                    *)
Whole(n) == [j \in 1..n |-> j]

(* The packets that have come, n of them, and what is still on its way.    *)
Collected(n) ==
  /\ buffer = Whole(n)
  /\ toChip # <<>> => reading = Packets - n
  /\ \A i \in DOMAIN toHost :
       toHost[i].kind = "packet" =>
         toHost[i].part = n + 1 /\ (~gone => reading = Packets - n - 1)

(* When the chip has answered the read all the packets are to come.        *)
ReadStarts ==
  \A i \in DOMAIN toHost :
    (toHost[i].kind = "answer" /\ toHost[i].part = 0 /\ Request(k).cmd = "read" /\ ~gone)
      => reading = Packets

(* Nothing is saved before the read is over; from its answer to its last   *)
(* packet the tool has the packets in their order, and the chip goes on    *)
(* where the tool is.                                                      *)
ReadInv ==
  trusted =>
    /\ saved # <<>> => saved = Whole(Packets) /\ outcome = "done"
    /\ pc # "packets" => ReadStarts
    /\ pc = "packets" => Request(k).cmd = "read" /\ \E n \in 0..Packets - 1 : Collected(n)

(* A step that neither begins nor ends a read nor brings a frame.          *)
Onward ==
  /\ UNCHANGED <<line, k, buffer, saved>>
  /\ trusted' => trusted
  /\ pc' = "packets" <=> pc = "packets"
  /\ gone' \/ UNCHANGED <<reading, gone>>
  /\ pc' = "packets" => toChip' = <<>> \/ UNCHANGED <<toChip, reading>>
  /\ outcome' = outcome \/ outcome = "running"
  /\ \A i \in DOMAIN toHost' : \E m \in DOMAIN toHost : toHost'[i] = toHost[m]

LEMMA OnwardKeeps ==
  ASSUME ReadInv, Onward
  PROVE  ReadInv'
<1> SUFFICES ASSUME trusted'
             PROVE  /\ saved' # <<>> => saved' = Whole(Packets)' /\ outcome' = "done"
                    /\ pc' # "packets" => ReadStarts'
                    /\ pc' = "packets" => /\ Request(k)'.cmd = "read"
                                          /\ \E n \in 0..Packets - 1 : Collected(n)'
  BY DEF ReadInv
<1>1. trusted /\ Request(k)' = Request(k) /\ Request(k') = Request(k)
  BY SameRequests DEF Onward
<1>2. saved' # <<>> => saved' = Whole(Packets)' /\ outcome' = "done"
  BY <1>1 DEF ReadInv, Onward, Whole
<1>3. pc' # "packets" => ReadStarts'
  <2> SUFFICES ASSUME pc' # "packets", NEW i \in DOMAIN toHost', toHost'[i].kind = "answer",
                      toHost'[i].part = 0, Request(k)'.cmd = "read", ~gone'
               PROVE  reading' = Packets
    BY DEF ReadStarts
  <2>1. PICK m \in DOMAIN toHost : toHost'[i] = toHost[m]
    BY DEF Onward
  <2>2. ~gone /\ reading' = reading /\ pc # "packets"
    BY DEF Onward
  <2> QED BY <1>1, <2>1, <2>2 DEF ReadInv, ReadStarts
<1>4. ASSUME pc' = "packets"
      PROVE  Request(k)'.cmd = "read" /\ \E n \in 0..Packets - 1 : Collected(n)'
  <2>1. pc = "packets"
    BY <1>4 DEF Onward
  <2>2. PICK n \in 0..Packets - 1 : Collected(n)
    BY <1>1, <2>1 DEF ReadInv
  <2>3. buffer' = Whole(n)
    BY <2>2 DEF Onward, Collected
  <2>4. toChip' # <<>> => reading' = Packets - n
    BY <1>4, <2>2 DEF Onward, Collected
  <2>5. ASSUME NEW i \in DOMAIN toHost', toHost'[i].kind = "packet"
        PROVE  toHost'[i].part = n + 1 /\ (~gone' => reading' = Packets - n - 1)
    <3>1. PICK m \in DOMAIN toHost : toHost'[i] = toHost[m]
      BY DEF Onward
    <3>2. toHost[m].part = n + 1 /\ (~gone => reading = Packets - n - 1)
      BY <2>2, <2>5, <3>1 DEF Collected
    <3>3. ~gone' => ~gone /\ reading' = reading
      BY DEF Onward
    <3> QED BY <3>1, <3>2, <3>3
  <2>6. Collected(n)'
    BY <2>3, <2>4, <2>5 DEF Collected, Whole
  <2> QED BY <1>1, <2>1, <2>6 DEF ReadInv
<1> QED BY <1>2, <1>3, <1>4

(* A command returns and nothing is saved.                                 *)
LEMMA ReturnKeeps ==
  ASSUME ReadInv, Inv', NEW r, Returns(r), saved' = saved, outcome = "running"
  PROVE  ReadInv'
<1> SUFFICES ASSUME trusted'
             PROVE  /\ saved' # <<>> => saved' = Whole(Packets)' /\ outcome' = "done"
                    /\ pc' # "packets" => ReadStarts'
                    /\ pc' # "packets"
  BY DEF ReadInv
<1>1. pc' = "send" /\ trusted
  BY DEF Returns
<1>2. saved' = <<>>
  BY <1>1 DEF ReadInv
<1>3. toHost' = <<>>
  BY <1>1 DEF Inv, Safe, Token, Hostward
<1>4. ReadStarts'
  BY <1>3 DEF ReadStarts
<1> QED BY <1>1, <1>2, <1>4

(* Frames taken from the front.                                            *)
LEMMA FramesFromTail ==
  ASSUME NEW s \in Seq(Frames), s # <<>>
  PROVE  \A i \in DOMAIN Tail(s) : \E m \in DOMAIN s : Tail(s)[i] = s[m]
<1> TAKE i \in DOMAIN Tail(s)
<1>1. /\ DOMAIN Tail(s) = 1..Len(s) - 1 /\ DOMAIN s = 1..Len(s) /\ Len(s) \in Nat
      /\ Tail(s)[i] = s[i + 1]
  BY FirstFrame, NoFrames
<1>2. i + 1 \in DOMAIN s
  BY <1>1
<1> QED BY <1>1, <1>2

(* Frames that are left behind a read are frames that were there.          *)
LEMMA FramesLeft ==
  ASSUME Inv, NEW n \in 0..Len(toHost), Leave(n)
  PROVE  \A i \in DOMAIN toHost' : \E m \in DOMAIN toHost : toHost'[i] = toHost[m]
<1> TAKE i \in DOMAIN toHost'
<1>1. toHost \in Seq(Frames) /\ toHost' = SubSeq(toHost, n + 1, Len(toHost))
  BY DEF Inv, Shape, Leave
<1>2. /\ toHost' \in Seq(Frames) /\ Len(toHost') = Len(toHost) - n
      /\ \A j \in 1..Len(toHost) - n : toHost'[j] = toHost[n + j]
  BY <1>1, RestOfFrames
<1>3. DOMAIN toHost = 1..Len(toHost) /\ Len(toHost) \in Nat /\ DOMAIN toHost' = 1..Len(toHost) - n
  BY <1>1, <1>2, NoFrames
<1>4. n + i \in DOMAIN toHost /\ toHost'[i] = toHost[n + i]
  BY <1>2, <1>3
<1> QED BY <1>4

(* The answer to a read is taken.                                          *)
LEMMA TakesKeeps ==
  ASSUME Inv, Inv', Gone', ReadInv, outcome = "running", pc # "packets",
         NEW i \in DOMAIN toHost, Takes(toHost[i]), trusted => toHost' = <<>>
  PROVE  ReadInv'
<1> DEFINE f == toHost[i]
<1>1. CASE /\ Verdict(f) = "ok" /\ Current.cmd = "read"
           /\ pc' = "packets" /\ buffer' = <<>>
           /\ Write(Ack)
           /\ UNCHANGED <<line, k, sent, attempts, results, saved, outcome, chip, trusted, lost>>
  <2> SUFFICES ASSUME trusted'
               PROVE  /\ saved' # <<>> => saved' = Whole(Packets)' /\ outcome' = "done"
                      /\ Request(k)'.cmd = "read" /\ \E n \in 0..Packets - 1 : Collected(n)'
    BY <1>1 DEF ReadInv
  <2>1. trusted /\ Request(k)' = Request(k) /\ Request(k).cmd = "read"
    BY <1>1, SameRequests DEF Current
  <2>2. f.kind = "answer" /\ f.part = 0
    BY <1>1 DEF Verdict
  <2>3. ~gone => reading = Packets
    BY <2>1, <2>2 DEF ReadInv, ReadStarts
  <2>4. gone' = gone /\ reading' = reading
    BY <1>1 DEF chip
  <2>5. Packets \in Nat \ {0}
    BY BootRomAssumption
  <2>6. buffer' = Whole(0)
    BY <1>1 DEF Whole
  <2>7. toChip' # <<>> => reading' = Packets - 0
    BY <2>3, <2>4, <2>5 DEF Gone
  <2>8. Collected(0)'
    <3>1. DOMAIN toHost' = {}
      BY <2>1
    <3>2. buffer' = Whole(0)'
      BY <2>6 DEF Whole
    <3> QED BY <2>7, <3>1, <3>2 DEF Collected
  <2>9. saved' = <<>>
    BY <1>1, <2>1 DEF ReadInv
  <2>10. 0 \in 0..Packets - 1
    BY <2>5
  <2> QED BY <2>1, <2>8, <2>9, <2>10
<1>2. CASE Verdict(f) = "ok" /\ Returns("ok") /\ UNCHANGED <<buffer, saved, toChip, reading>>
  BY <1>2, ReturnKeeps
<1>3. CASE Fails /\ UNCHANGED toChip
  BY <1>3, ReturnKeeps DEF Fails
<1> QED BY <1>1, <1>2, <1>3 DEF Takes

(* The read is the last command of its run.                                *)
LEMMA OnlyRead ==
  ASSUME files \in Files, op \in {"write", "read"}, k \in Nat, k <= Len(Script),
         Request(k).cmd = "read"
  PROVE  k = Len(Script) /\ k # 1
<1>1. /\ Len(files) \in Nat /\ DOMAIN files = 1..Len(files)
      /\ Len(Script) = IF op = "write" THEN 3 + Len(files) ELSE 4
  BY ScriptIs
<1>2. k # 0 /\ k # 1 /\ k # 2 /\ k # 3
  <2>1. /\ Request(0).cmd # "read" /\ Request(1).cmd # "read"
        /\ Request(2).cmd # "read" /\ Request(3).cmd # "read"
    BY ScriptIs DEF Query, WriteConf, Configure
  <2> QED BY <2>1
<1>3. op # "write"
  <2> SUFFICES ASSUME op = "write" PROVE FALSE
    OBVIOUS
  <2>1. k - 3 \in DOMAIN files /\ k = 3 + (k - 3)
    BY <1>1, <1>2
  <2>2. Request(k) = WriteFile(k - 3)
    BY <2>1, ScriptIs
  <2> QED BY <2>2 DEF WriteFile
<1> QED BY <1>1, <1>2, <1>3

(* One more packet in its turn.                                            *)
LEMMA NextWhole ==
  ASSUME NEW n \in Nat
  PROVE  Append(Whole(n), n + 1) = Whole(n + 1) /\ Len(Whole(n + 1)) = n + 1
<1>1. Whole(n) \in Seq(Nat) /\ Len(Whole(n)) = n
  BY DEF Whole
<1>2. Whole(n + 1) \in Seq(Nat) /\ Len(Whole(n + 1)) = n + 1
  BY DEF Whole
<1>3. /\ Append(Whole(n), n + 1) \in Seq(Nat) /\ Len(Append(Whole(n), n + 1)) = n + 1
      /\ \A j \in 1..n : Append(Whole(n), n + 1)[j] = Whole(n)[j]
      /\ Append(Whole(n), n + 1)[n + 1] = n + 1
  BY <1>1, AppendProperties
<1>4. \A j \in 1..n + 1 : Append(Whole(n), n + 1)[j] = Whole(n + 1)[j]
  <2> TAKE j \in 1..n + 1
  <2>1. Whole(n + 1)[j] = j
    BY DEF Whole
  <2>2. CASE j \in 1..n
    BY <1>3, <2>1, <2>2 DEF Whole
  <2>3. CASE j = n + 1
    BY <1>3, <2>1, <2>3
  <2>4. j \in 1..n \/ j = n + 1
    OBVIOUS
  <2> QED BY <2>2, <2>3, <2>4
<1> QED BY <1>2, <1>3, <1>4, SeqEqual

(* A packet is taken: it is the next one, and after the last of them the   *)
(* read returns, the last command of its run.                              *)
LEMMA PacketKeeps ==
  ASSUME Inv, Inv', Gone, Gone', Turns, ReadInv, TakePacket
  PROVE  ReadInv'
<1> DEFINE f == Head(toHost)
           data == Append(buffer, f.part)
<1>1. /\ outcome = "running" /\ pc = "packets" /\ toHost # <<>> /\ toHost' = Tail(toHost)
  BY DEF TakePacket
<1>2. f = toHost[1] /\ 1 \in DOMAIN toHost
  BY <1>1, FirstFrame, NoFrames DEF Inv, Shape
<1>3. CASE ~trusted
  <2>1. ~trusted'
    BY <1>3 DEF TakePacket, Returns, Fails
  <2> QED BY <2>1 DEF ReadInv
<1>4. ASSUME trusted
      PROVE  /\ toHost' = <<>> /\ toChip = <<>> /\ Request(k).cmd = "read"
             /\ k = Len(Script) /\ k # 1 /\ saved = <<>>
  <2>1. toHost' = <<>> /\ toChip = <<>>
    BY <1>1, <1>4, OnlyFrame
  <2>2. Request(k).cmd = "read" /\ saved = <<>>
    BY <1>1, <1>4 DEF ReadInv
  <2>3. k <= Len(Script) /\ k \in Nat /\ files \in Files /\ op \in {"write", "read"}
    BY <1>1 DEF Turns, Inv, Shape
  <2>4. k = Len(Script) /\ k # 1
    BY <2>2, <2>3, OnlyRead
  <2> QED BY <2>1, <2>2, <2>4
<1>5. ASSUME trusted, f.kind = "packet", NEW n \in 0..Packets - 1, Collected(n)
      PROVE  data = Whole(n + 1) /\ Len(data) = n + 1 /\ (~gone => reading = Packets - n - 1)
  <2>1. f.part = n + 1 /\ buffer = Whole(n) /\ (~gone => reading = Packets - n - 1)
    BY <1>2, <1>5 DEF Collected
  <2>2. Packets \in Nat \ {0}
    BY BootRomAssumption
  <2>3. n \in Nat
    BY <1>5, <2>2
  <2> QED BY <2>1, <2>3, NextWhole
<1>6. CASE /\ f.kind = "packet" /\ LastPacket(Len(data))
           /\ buffer' = data /\ saved' = data
           /\ Returns("ok")
           /\ trusted
  <2>1. Request(k).cmd = "read" /\ k = Len(Script) /\ k # 1 /\ toHost' = <<>>
    BY <1>4, <1>6
  <2>2. PICK n \in 0..Packets - 1 : Collected(n)
    BY <1>1, <1>6 DEF ReadInv
  <2>3. data = Whole(n + 1) /\ Len(data) = n + 1
    BY <1>5, <1>6, <2>2
  <2>4. n + 1 = Packets
    BY <1>6, <2>2, <2>3, BootRomAssumption DEF LastPacket
  <2>5. saved' = Whole(Packets)' /\ outcome' = "done" /\ pc' = "send"
    BY <1>6, <2>1, <2>3, <2>4 DEF Returns, Whole
  <2>6. ReadStarts'
    BY <2>1 DEF ReadStarts
  <2> QED BY <2>5, <2>6 DEF ReadInv
<1>7. CASE /\ f.kind = "packet" /\ ~LastPacket(Len(data))
           /\ buffer' = data /\ Write(Ack)
           /\ UNCHANGED <<line, pc, k, sent, attempts, results, saved, outcome, chip, trusted, lost>>
           /\ trusted
  <2>1. toHost' = <<>> /\ saved' = <<>> /\ Request(k)'.cmd = "read"
    BY <1>4, <1>7, SameRequests
  <2>2. PICK n \in 0..Packets - 1 : Collected(n)
    BY <1>1, <1>7 DEF ReadInv
  <2>3. data = Whole(n + 1) /\ Len(data) = n + 1 /\ (~gone => reading = Packets - n - 1)
    BY <1>5, <1>7, <2>2
  <2>4. n + 1 \in 0..Packets - 1 /\ Packets - (n + 1) = Packets - n - 1
    BY <1>7, <2>2, <2>3, BootRomAssumption DEF LastPacket
  <2>5. toChip' # <<>> => reading' = Packets - (n + 1)
    BY <1>7, <2>3, <2>4 DEF Gone, chip
  <2>6. Collected(n + 1)'
    <3>1. DOMAIN toHost' = {}
      BY <2>1
    <3>2. buffer' = Whole(n + 1)'
      BY <1>7, <2>3 DEF Whole
    <3> QED BY <2>5, <3>1, <3>2 DEF Collected
  <2>7. pc' = "packets"
    BY <1>1, <1>7
  <2> QED BY <2>1, <2>4, <2>6, <2>7 DEF ReadInv
<1>8. CASE Fails
  BY <1>1, <1>8, ReturnKeeps DEF Fails
<1>9. CASE UNCHANGED <<line, host, chip, trusted, lost, toChip>>
  <2>1. \A i \in DOMAIN toHost' : \E m \in DOMAIN toHost : toHost'[i] = toHost[m]
    BY <1>1, FramesFromTail DEF Inv, Shape
  <2>2. Onward
    BY <1>9, <2>1 DEF Onward, host, chip
  <2> QED BY <2>2, OnwardKeeps
<1> HIDE DEF f, data
<1> QED BY <1>3, <1>6, <1>7, <1>8, <1>9 DEF TakePacket, f, data

(* The chip takes a chunk: the answer to a read leaves all its packets to  *)
(* come.                                                                   *)
LEMMA ChunkKeeps ==
  ASSUME Inv, Turns, ReadInv, ChipTakesChunk
  PROVE  ReadInv'
<1> DEFINE f == Head(toChip)
           a == Reply("ack", f, 0)
           n == Reply("nak", f, 0)
           b == Reply("answer", f, 0)
           c == Reply("answer", f, 1)
<1>1. /\ toChip # <<>> /\ f.kind = "data" /\ UNCHANGED <<line, host, gone, trusted>>
  BY DEF ChipTakesChunk
<1> SUFFICES ASSUME trusted
             PROVE  ReadInv'
  BY <1>1 DEF ReadInv
<1>2. /\ f = toChip[1] /\ f \in Frames /\ toHost \in Seq(Frames)
  BY <1>1, FirstFrame DEF Inv, Shape
<1>3. toHost = <<>> /\ pc # "packets"
  BY <1>1, <1>2 DEF Inv, Safe, Token, Chipward
<1>4. /\ a \in Frames /\ a.kind = "ack" /\ n \in Frames /\ n.kind = "nak"
      /\ b \in Frames /\ b.kind = "answer" /\ c \in Frames /\ c.kind = "answer" /\ c.part = 1
  BY <1>2, ChunkReplies
<1>5. \/ toHost' = Append(toHost, a)
      \/ toHost' = toHost \o <<a, b>> /\ CarryOut(f)
      \/ toHost' = toHost \o <<a, c>>
      \/ toHost' = Append(toHost, n)
  BY DEF ChipTakesChunk
<1>6. Request(k)' = Request(k) /\ pc' = pc /\ saved' = saved /\ outcome' = outcome
  BY <1>1, SameRequests DEF host
<1>7. ReadStarts'
  <2> SUFFICES ASSUME NEW i \in DOMAIN toHost', toHost'[i].kind = "answer",
                      toHost'[i].part = 0, Request(k).cmd = "read"
               PROVE  reading' = Packets
    BY <1>6 DEF ReadStarts
  <2>1. CASE toHost' = toHost \o <<a, b>> /\ CarryOut(f)
    BY <1>1, <2>1, ChipCarries
  <2>2. CASE toHost' = toHost \o <<a, c>>
    <3> HIDE DEF a, c
    <3>1. toHost' \in Seq(Frames) /\ Len(toHost') = 2 /\ toHost'[1] = a /\ toHost'[2] = c
      BY <1>2, <1>3, <1>4, <2>2, TwoMore
    <3>2. i \in 1..2
      BY <3>1, NoFrames
    <3> QED BY <1>4, <3>1, <3>2
  <2>3. ASSUME NEW r \in {a, n}, toHost' = Append(toHost, r)
        PROVE  FALSE
    <3>1. r \in Frames /\ r.kind # "answer"
      BY <1>4, <2>3
    <3> HIDE DEF a, n
    <3>2. DOMAIN toHost' = 1..0 + 1 /\ toHost'[0 + 1] = r
      <4>1. Len(toHost) = 0
        BY <1>3
      <4> QED BY <1>2, <2>3, <3>1, <4>1, OneMore
    <3> QED BY <3>1, <3>2
  <2> QED BY <1>5, <2>1, <2>2, <2>3
<1> QED BY <1>3, <1>6, <1>7 DEF ReadInv, Whole

(* The chip takes an acknowledgement: the packet it sends is the next one. *)
LEMMA AckKeeps ==
  ASSUME Inv, ReadInv, ChipTakesAck
  PROVE  ReadInv'
<1> DEFINE f == Head(toChip)
           g == Reply("packet", f, Packets + 1 - reading)
           h == Reply("nak", f, 0)
<1>1. /\ toChip # <<>> /\ f.kind = "ack" /\ toChip' = Tail(toChip)
      /\ UNCHANGED <<line, host, gone, trusted>>
      /\ \/ reading > 0 /\ toHost' = Append(toHost, g) /\ reading' = reading - 1
         \/ reading > 0 /\ toHost' = Append(toHost, h) /\ reading' = 0
         \/ UNCHANGED <<toHost, reading>>
  BY DEF ChipTakesAck
<1> SUFFICES ASSUME trusted
             PROVE  ReadInv'
  BY <1>1 DEF ReadInv
<1>2. f = toChip[1] /\ f \in Frames /\ toHost \in Seq(Frames) /\ reading \in 0..Packets
  BY <1>1, FirstFrame DEF Inv, Shape
<1>3. toHost = <<>> /\ pc = "packets" /\ toChip' = <<>>
  <2>1. toHost = <<>> /\ pc = "packets" /\ Len(toChip) = 1
    BY <1>1, <1>2 DEF Inv, Safe, Token, Chipward
  <2> QED BY <1>1, <2>1, FirstFrame DEF Inv, Shape
<1>4. PICK n \in 0..Packets - 1 : Collected(n)
  BY <1>3 DEF ReadInv
<1>5. reading = Packets - n /\ n \in Nat /\ Packets \in Nat /\ n < Packets
  BY <1>1, <1>4, BootRomAssumption DEF Collected
<1>6. /\ g \in Frames /\ g.part = n + 1 /\ h \in Frames /\ h.kind = "nak"
  <2>1. Packets + 1 - reading = n + 1 /\ n + 1 \in Nat
    BY <1>5
  <2> HIDE DEF f
  <2>2. \A x \in Nat : Reply("packet", f, x) \in Frames /\ Reply("packet", f, x).part = x
    BY <1>2 DEF Reply, Frames
  <2>3. h \in Frames /\ h.kind = "nak"
    BY <1>2 DEF Reply, Frames
  <2> QED BY <2>1, <2>2, <2>3
<1>7. Request(k)' = Request(k) /\ UNCHANGED <<pc, saved, outcome, buffer>>
  BY <1>1, SameRequests DEF host
<1> HIDE DEF f, g, h
<1>8. Collected(n)'
  <2>1. buffer' = Whole(n)'
    BY <1>4, <1>7 DEF Collected, Whole
  <2>2. ASSUME NEW i \in DOMAIN toHost', toHost'[i].kind = "packet"
        PROVE  toHost'[i].part = n + 1 /\ reading' = Packets - n - 1
    <3>1. PICK r \in {g, h} : toHost' = Append(toHost, r) /\ (r = g => reading' = reading - 1) /\ r \in Frames
      <4>1. CASE reading > 0 /\ toHost' = Append(toHost, g) /\ reading' = reading - 1
        BY <1>6, <4>1
      <4>2. CASE reading > 0 /\ toHost' = Append(toHost, h) /\ reading' = 0
        <5>1. g # h
          BY <1>6 DEF g, h, Reply
        <5> QED BY <1>6, <4>2, <5>1
      <4>3. CASE UNCHANGED <<toHost, reading>>
        BY <1>3, <2>2, <4>3
      <4> QED BY <1>1, <4>1, <4>2, <4>3
    <3>2. DOMAIN toHost' = 1..0 + 1 /\ toHost'[0 + 1] = r
      <4>1. Len(toHost) = 0
        BY <1>3
      <4> QED BY <1>2, <3>1, <4>1, OneMore
    <3>3. toHost'[i] = r
      BY <3>2
    <3>4. r = g
      BY <1>6, <2>2, <3>1, <3>3
    <3> QED BY <1>5, <1>6, <3>1, <3>3, <3>4
  <2> QED BY <1>3, <2>1, <2>2 DEF Collected
<1> QED BY <1>3, <1>4, <1>7, <1>8 DEF ReadInv, Whole

LEMMA SerialAnswerKeeps ==
  ASSUME Inv, Gone, Turns, ReadInv, Inv', Gone', SerialAnswer
  PROVE  ReadInv'
<1>1. PICK n \in Bursts :
        /\ ~Short(n) /\ Leave(n)
        /\ \/ toHost[1].kind # "ack" /\ Fails /\ UNCHANGED toChip
           \/ toHost[1].kind = "ack" /\ n = 2 /\ Takes(toHost[2])
           \/ /\ toHost[1].kind = "ack" /\ n > 2
              /\ IF k = 0 THEN /\ Returns("ok") /\ UNCHANGED <<buffer, saved, toChip, reading>>
                 ELSE /\ outcome' = "crashed"
                      /\ UNCHANGED <<line, pc, k, sent, attempts, results, buffer, saved,
                                     toChip, chip, trusted, lost>>
  BY DEF SerialAnswer
<1>2. /\ outcome = "running" /\ pc = "answer" /\ n \in 1..Len(toHost) /\ n \in 0..Len(toHost)
      /\ Len(toHost) \in Nat /\ toHost # <<>> /\ DOMAIN toHost = 1..Len(toHost)
  BY NoFrames DEF SerialAnswer, Bursts, Inv, Shape
<1>3. toHost' \in Seq(Frames) /\ Len(toHost') = Len(toHost) - n
  BY <1>1, <1>2, RestOfFrames DEF Leave, Inv, Shape
<1>4. CASE Fails
  BY <1>2, <1>4, ReturnKeeps DEF Fails
<1>5. CASE n = 2 /\ Takes(toHost[2])
  <2>1. trusted => toHost' = <<>>
    <3> SUFFICES ASSUME trusted PROVE toHost' = <<>>
      OBVIOUS
    <3>1. Len(toHost) \in {1, 2}
      BY <1>2, OnlyFrame
    <3>2. Len(toHost') = 0
      BY <1>2, <1>3, <1>5, <3>1
    <3> QED BY <1>3, <3>2, NoFrames
  <2>2. 2 \in DOMAIN toHost
    BY <1>2, <1>5
  <2> QED BY <1>2, <1>5, <2>1, <2>2, TakesKeeps
<1>6. CASE Returns("ok") /\ UNCHANGED <<buffer, saved, toChip, reading>>
  BY <1>2, <1>6, ReturnKeeps
<1>7. CASE /\ outcome' = "crashed"
           /\ UNCHANGED <<line, pc, k, sent, attempts, results, buffer, saved,
                          toChip, chip, trusted, lost>>
  <2>1. \A i \in DOMAIN toHost' : \E m \in DOMAIN toHost : toHost'[i] = toHost[m]
    BY <1>1, <1>2, FramesLeft
  <2>2. Onward
    BY <1>2, <1>7, <2>1 DEF Onward, chip
  <2> QED BY <2>2, OnwardKeeps
<1> QED BY <1>1, <1>4, <1>5, <1>6, <1>7

LEMMA HostKeeps ==
  ASSUME Inv, Gone, Turns, ReadInv, Inv', Gone', Host
  PROVE  ReadInv'
<1>1. CASE SendFirst
  <2>1. Onward
    BY <1>1 DEF SendFirst, Onward, chip
  <2> QED BY <2>1, OnwardKeeps
<1>2. CASE SendNext
  <2>1. \A i \in DOMAIN toHost' : \E m \in DOMAIN toHost : toHost'[i] = toHost[m]
    BY <1>2, FramesFromTail DEF SendNext, Inv, Shape
  <2>2. Onward
    BY <1>2, <2>1 DEF SendNext, Onward, chip
  <2> QED BY <2>2, OnwardKeeps
<1>3. CASE Refused
  BY <1>3, ReturnKeeps DEF Refused, Fails
<1>4. CASE TakeAck
  <2>1. \A i \in DOMAIN toHost' : \E m \in DOMAIN toHost : toHost'[i] = toHost[m]
    BY <1>4, FramesFromTail DEF TakeAck, Inv, Shape
  <2>2. Onward
    BY <1>4, <2>1 DEF TakeAck, Onward, chip
  <2> QED BY <2>2, OnwardKeeps
<1>5. CASE UsbAnswer
  <2>1. /\ outcome = "running" /\ pc = "response" /\ toHost # <<>> /\ toHost' = Tail(toHost)
        /\ Takes(Head(toHost))
    BY <1>5 DEF UsbAnswer
  <2>2. Head(toHost) = toHost[1] /\ 1 \in DOMAIN toHost
    BY <2>1, FirstFrame, NoFrames DEF Inv, Shape
  <2>3. trusted => toHost' = <<>>
    BY <2>1, OnlyFrame
  <2> QED BY <2>1, <2>2, <2>3, TakesKeeps
<1>6. CASE SerialShort
  <2>1. PICK n \in Bursts : Leave(n)
    BY <1>6 DEF SerialShort
  <2>2. n \in 0..Len(toHost)
    BY <2>1, NoFrames DEF Bursts, Inv, Shape
  <2>3. \A i \in DOMAIN toHost' : \E m \in DOMAIN toHost : toHost'[i] = toHost[m]
    BY <2>1, <2>2, FramesLeft
  <2>4. Onward
    BY <1>6, <2>3 DEF SerialShort, Onward, chip, host
  <2> QED BY <2>4, OnwardKeeps
<1>7. CASE SerialAnswer
  BY <1>7, SerialAnswerKeeps
<1>8. CASE SerialTimeout
  <2>1. PICK n \in 0..Len(toHost) : Leave(n) \/ toHost' = toHost
    <3>1. 0 \in 0..Len(toHost)
      BY NoFrames DEF Inv, Shape
    <3> QED BY <1>8, <3>1 DEF SerialTimeout
  <2>2. \A i \in DOMAIN toHost' : \E m \in DOMAIN toHost : toHost'[i] = toHost[m]
    BY <2>1, FramesLeft
  <2>3. Onward
    BY <1>8, <2>2 DEF SerialTimeout, Onward, chip
  <2> QED BY <2>3, OnwardKeeps
<1>9. CASE Disconnected
  <2>1. CASE Fails
    BY <1>9, <2>1, ReturnKeeps DEF Disconnected, Fails
  <2>2. CASE UNCHANGED <<line, pc, k, sent, attempts, results, buffer, saved, chip, trusted, lost>>
    <3>1. Onward
      BY <1>9, <2>2 DEF Disconnected, Onward, chip
    <3> QED BY <3>1, OnwardKeeps
  <2> QED BY <1>9, <2>1, <2>2 DEF Disconnected
<1>10. CASE TakePacket
  BY <1>10, PacketKeeps
<1> QED BY <1>1, <1>2, <1>3, <1>4, <1>5, <1>6, <1>7, <1>8, <1>9, <1>10 DEF Host

(* read_flash, for every number of packets: what is saved is the whole     *)
(* read in its order, and the run is done (hpmtool.py:795-820, 951-958).   *)
THEOREM SavedWhole == Spec => []FileIsWhole
<1>1. Init => Carried /\ ReadInv
  <2> SUFFICES ASSUME Init PROVE ReadInv
    BY CarriedFirst
  <2> QED BY DEF Init, ReadInv, ReadStarts
<1>2. Carried /\ ReadInv /\ [Next]_vars => Carried' /\ ReadInv'
  <2> SUFFICES ASSUME Carried, ReadInv, [Next]_vars
               PROVE  ReadInv'
    BY CarriedStep
  <2>1. Inv /\ Gone /\ Turns /\ Inv' /\ Gone'
    BY EveryStep DEF Carried
  <2>2. CASE Reset \/ Lose \/ UNCHANGED vars
    <3>1. \A i \in DOMAIN toHost' : \E m \in DOMAIN toHost : toHost'[i] = toHost[m]
      <4>1. toHost' = toHost \/ (toHost # <<>> /\ toHost' = Tail(toHost))
        BY <2>2 DEF Reset, Lose, vars
      <4>2. toHost \in Seq(Frames)
        BY <2>1 DEF Inv, Shape
      <4>3. CASE toHost' = toHost
        BY <4>3
      <4>4. CASE toHost # <<>> /\ toHost' = Tail(toHost)
        BY <4>2, <4>4, FramesFromTail
      <4> QED BY <4>1, <4>3, <4>4
    <3>2. Onward
      BY <2>2, <3>1 DEF Reset, Lose, vars, Onward, chip, host
    <3> QED BY <3>2, OnwardKeeps
  <2> QED BY <2>1, <2>2, HostKeeps, ChunkKeeps, AckKeeps DEF Next, Chip
<1>3. Carried /\ ReadInv => FileIsWhole
  BY DEF ReadInv, FileIsWhole, Whole
<1> QED BY <1>1, <1>2, <1>3, PTL DEF Spec
=============================================================================
