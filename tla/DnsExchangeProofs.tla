-------------------------- MODULE DnsExchangeProofs -------------------------
(***************************************************************************)
(* Proofs about DnsExchange for every byte size, query, stream and buffer. *)
(***************************************************************************)
EXTENDS DnsExchange, SequenceTheorems, TLAPS

-----------------------------------------------------------------------------
(* Two digits below a base tell one number, and are told by it.            *)
LEMMA Digits ==
  ASSUME NEW B \in Nat \ {0}, NEW a \in 0 .. B - 1, NEW b \in 0 .. B - 1
  PROVE  (B * a + b) \div B = a /\ (B * a + b) % B = b
<1> DEFINE n == B * a + b
           q == n \div B
           r == n % B
<1>1. n \in Nat
  OBVIOUS
<1>2. q \in Nat /\ r \in 0 .. B - 1 /\ n = B * q + r
  BY <1>1
<1> HIDE DEF n, q, r
<1>3. ~ q < a
  <2>1. SUFFICES ASSUME q < a PROVE FALSE
    OBVIOUS
  <2>2. PICK d \in Nat : a = q + 1 + d
    BY <2>1, <1>2
  <2>3. B * a = B * q + B + B * d
    BY <2>2, <1>2
  <2>4. B * d \in Nat /\ B * q \in Nat
    BY <1>2, <2>2
  <2>5. QED BY <2>3, <2>4, <1>2 DEF n
<1>4. ~ a < q
  <2>1. SUFFICES ASSUME a < q PROVE FALSE
    OBVIOUS
  <2>2. PICK d \in Nat : q = a + 1 + d
    BY <2>1, <1>2
  <2>3. B * q = B * a + B + B * d
    BY <2>2, <1>2
  <2>4. B * d \in Nat /\ B * a \in Nat
    BY <2>2
  <2>5. QED BY <2>3, <2>4, <1>2 DEF n
<1>5. q = a
  BY <1>2, <1>3, <1>4
<1>6. r = b
  BY <1>2, <1>5 DEF n
<1>7. QED BY <1>5, <1>6 DEF q, r, n

(* The two length bytes never tell more than the length they stand for.    *)
LEMMA LengthBytesBound ==
  ASSUME NEW n \in Nat
  PROVE  /\ LengthBytes(n) \in Seq(Byte) /\ Len(LengthBytes(n)) = 2
         /\ LengthBytes(n)[1] \in Byte /\ LengthBytes(n)[2] \in Byte
         /\ Base * LengthBytes(n)[1] + LengthBytes(n)[2] <= n
<1> DEFINE q == n \div Base
           r == n % Base
           h == q % Base
<1>1. q \in Nat /\ r \in Byte /\ n = Base * q + r
  BY ByteAssumption DEF Byte
<1>2. h \in Byte /\ q = Base * (q \div Base) + h /\ q \div Base \in Nat
  <2> HIDE DEF q
  <2>1. QED BY <1>1, ByteAssumption DEF Byte
<1>3. LengthBytes(n) = <<h, r>>
  BY DEF LengthBytes
<1> HIDE DEF q, r, h
<1>4. PICK e \in Nat : q = h + e
  <2>1. Base * (q \div Base) \in Nat
    BY <1>2, ByteAssumption
  <2>2. QED BY <1>2, <2>1 DEF Byte
<1>5. Base * q = Base * h + Base * e /\ Base * e \in Nat /\ Base * h \in Nat
  BY <1>2, <1>4, ByteAssumption DEF Byte
<1>6. Base * h + r <= n
  BY <1>1, <1>5 DEF Byte
<1>7. <<h, r>> \in Seq(Byte) /\ Len(<<h, r>>) = 2 /\ <<h, r>>[1] = h /\ <<h, r>>[2] = r
  BY <1>1, <1>2
<1>8. QED BY <1>1, <1>2, <1>3, <1>6, <1>7

LEMMA BodyLenIsNat ==
  ASSUME NEW s \in Seq(Byte), Len(s) >= 2
  PROVE  BodyLen(s) \in Nat /\ s[1] \in Byte /\ s[2] \in Byte
<1>1. s[1] \in Byte /\ s[2] \in Byte
  OBVIOUS
<1>2. QED BY <1>1, ByteAssumption DEF Byte, BodyLen

(* A whole frame starts with its body, as the peer frames it.              *)
LEMMA FrameStarts ==
  ASSUME NEW s \in Seq(Byte), HasFrame(s)
  PROVE  Starts(s, Body(s)) /\ Body(s) \in Seq(Byte)
<1> DEFINE n == BodyLen(s)
<1>1. n \in Nat /\ s[1] \in Byte /\ s[2] \in Byte /\ Len(s) \in Nat /\ 2 + n <= Len(s)
  BY BodyLenIsNat DEF HasFrame
<1>2. n \div Base = s[1] /\ n % Base = s[2] /\ s[1] % Base = s[1]
  <2>1. (Base * s[1] + s[2]) \div Base = s[1] /\ (Base * s[1] + s[2]) % Base = s[2]
    BY <1>1, Digits, ByteAssumption DEF Byte
  <2>2. s[1] % Base = s[1]
    <3>1. 0 \in 0 .. Base - 1 /\ Base * 0 + s[1] = s[1]
      BY <1>1, ByteAssumption DEF Byte
    <3>2. (Base * 0 + s[1]) % Base = s[1]
      BY <1>1, <3>1, Digits, ByteAssumption DEF Byte
    <3>3. QED BY <3>1, <3>2
  <2>3. QED BY <2>1, <2>2 DEF BodyLen
<1> HIDE DEF n
<1>3. Body(s) = SubSeq(s, 3, 2 + n)
  BY DEF Body, n
<1>4. Body(s) \in Seq(Byte) /\ Len(Body(s)) = n
      /\ \A i \in 1 .. n : Body(s)[i] = s[2 + i]
  <2>1. \A i \in 3 .. 2 + n : s[i] \in Byte
    BY <1>1
  <2>2. SubSeq(s, 3, 2 + n) \in Seq(Byte)
        /\ Len(SubSeq(s, 3, 2 + n)) = (IF 3 <= 2 + n THEN (2 + n) - 3 + 1 ELSE 0)
        /\ \A i \in 1 .. (2 + n) - 3 + 1 : SubSeq(s, 3, 2 + n)[i] = s[3 + i - 1]
    BY <1>1, <2>1, SubSeqProperties
  <2>3. QED BY <1>1, <1>3, <2>2
<1>5. SubSeq(s, 1, n + 2) = Framed(Body(s))
  <2> DEFINE l == <<s[1], s[2]>>
  <2>1. LengthBytes(n) = l
    BY <1>2 DEF LengthBytes
  <2>2. l \in Seq(Byte) /\ Len(l) = 2 /\ l[1] = s[1] /\ l[2] = s[2]
    BY <1>1
  <2> HIDE DEF l
  <2>3. Framed(Body(s)) = l \o Body(s)
    BY <1>4, <2>1 DEF Framed
  <2>4. /\ l \o Body(s) \in Seq(Byte)
        /\ Len(l \o Body(s)) = 2 + n
        /\ \A i \in 1 .. 2 + n : (l \o Body(s))[i] = IF i <= 2 THEN l[i] ELSE Body(s)[i - 2]
    <3>1. /\ l \o Body(s) \in Seq(Byte)
          /\ Len(l \o Body(s)) = Len(l) + Len(Body(s))
          /\ \A i \in 1 .. Len(l) + Len(Body(s)) :
                (l \o Body(s))[i] = IF i <= Len(l) THEN l[i] ELSE Body(s)[i - Len(l)]
      BY <1>4, <2>2, ConcatProperties
    <3>2. QED BY <1>1, <1>4, <2>2, <3>1
  <2>5. \A i \in 1 .. 2 + n : (l \o Body(s))[i] = s[i]
    <3>1. ASSUME NEW i \in 1 .. 2 + n PROVE (l \o Body(s))[i] = s[i]
      <4> i \in Nat /\ i >= 1 /\ i <= 2 + n
        BY <1>1
      <4>1. CASE i <= 2
        <5>1. i = 1 \/ i = 2
          BY <4>1
        <5>2. QED BY <2>2, <2>4, <4>1, <5>1
      <4>2. CASE i > 2
        <5>1. i - 2 \in 1 .. n
          BY <1>1, <4>2
        <5>2. Body(s)[i - 2] = s[2 + (i - 2)]
          BY <1>4, <5>1
        <5>3. (l \o Body(s))[i] = Body(s)[i - 2]
          BY <2>4, <4>2
        <5>4. 2 + (i - 2) = i
          OBVIOUS
        <5>5. QED BY <5>2, <5>3, <5>4
      <4>3. i <= 2 \/ i > 2
        OBVIOUS
      <4>4. QED BY <4>1, <4>2, <4>3, Zenon
    <3>2. QED BY <3>1
  <2>6. /\ SubSeq(s, 1, n + 2) \in Seq(Byte)
        /\ Len(SubSeq(s, 1, n + 2)) = n + 2
        /\ \A i \in 1 .. n + 2 : SubSeq(s, 1, n + 2)[i] = s[i]
    BY <1>1
  <2>7. QED BY <1>1, <2>3, <2>4, <2>5, <2>6, SeqEqual
<1>6. QED BY <1>1, <1>4, <1>5 DEF Starts

(* Where a framed message starts, the coroutine sees a whole frame.        *)
LEMMA StartsHasFrame ==
  ASSUME NEW s \in Seq(Byte), NEW m \in Seq(Byte), Starts(s, m)
  PROVE  HasFrame(s)
<1> DEFINE n == Len(m)
           l == LengthBytes(n)
<1>1. /\ n \in Nat /\ l \in Seq(Byte) /\ Len(l) = 2
      /\ l[1] \in Byte /\ l[2] \in Byte /\ Base * l[1] + l[2] <= n
  BY LengthBytesBound
<1>2. n + 2 <= Len(s) /\ SubSeq(s, 1, n + 2) = l \o m
  BY DEF Starts, Framed
<1> HIDE DEF n, l
<1>3. SubSeq(s, 1, n + 2)[1] = s[1] /\ SubSeq(s, 1, n + 2)[2] = s[2]
  BY <1>1, <1>2
<1>4. (l \o m)[1] = l[1] /\ (l \o m)[2] = l[2]
  <2>1. \A i \in 1 .. Len(l) + Len(m) :
           (l \o m)[i] = IF i <= Len(l) THEN l[i] ELSE m[i - Len(l)]
    BY <1>1, ConcatProperties
  <2>2. Len(m) \in Nat
    BY <1>1 DEF n
  <2>3. 1 \in 1 .. Len(l) + Len(m) /\ 2 \in 1 .. Len(l) + Len(m)
    BY <1>1, <2>2
  <2>4. /\ (l \o m)[1] = IF 1 <= Len(l) THEN l[1] ELSE m[1 - Len(l)]
        /\ (l \o m)[2] = IF 2 <= Len(l) THEN l[2] ELSE m[2 - Len(l)]
    BY <2>1, <2>3, Zenon
  <2>5. Len(l) = 2
    BY <1>1
  <2>6. QED BY <2>4, <2>5
<1>5. BodyLen(s) = Base * l[1] + l[2]
  BY <1>2, <1>3, <1>4 DEF BodyLen
<1>6. QED
  <2>1. l[1] \in Nat /\ l[2] \in Nat /\ Base \in Nat
    BY <1>1, ByteAssumption DEF Byte
  <2>2. Base * l[1] \in Nat
    BY <2>1
  <2>3. Base * l[1] + l[2] \in Nat
    BY <2>1, <2>2
  <2>4. QED BY <1>1, <1>2, <1>5, <2>3 DEF HasFrame

(* A frame in what was read so far is the one the stream starts with.      *)
LEMMA PrefixFrame ==
  ASSUME NEW s \in Seq(Byte), NEW k \in 0 .. Len(s), HasFrame(SubSeq(s, 1, k))
  PROVE  HasFrame(s) /\ Body(SubSeq(s, 1, k)) = Body(s)
<1> DEFINE p == SubSeq(s, 1, k)
           n == BodyLen(s)
<1>1. p \in Seq(Byte) /\ Len(p) = k /\ \A i \in 1 .. k : p[i] = s[i]
  OBVIOUS
<1>2. k >= 2
  BY <1>1 DEF HasFrame
<1>3. BodyLen(p) = n
  <2>1. p[1] = s[1] /\ p[2] = s[2]
    BY <1>1, <1>2
  <2>2. QED BY <2>1 DEF BodyLen
<1>4. n \in Nat /\ 2 + n <= k
  <2>1. n \in Nat
    BY <1>2, BodyLenIsNat
  <2>2. Len(p) >= 2 + BodyLen(p)
    BY DEF HasFrame
  <2>3. QED BY <1>1, <1>3, <2>1, <2>2
<1>5. HasFrame(s)
  BY <1>2, <1>4 DEF HasFrame
<1>6. SubSeq(p, 3, 2 + n) = SubSeq(s, 3, 2 + n)
  <2> HIDE DEF p, n
  <2>1. \A i \in 3 .. 2 + n : p[i] = s[i] /\ s[i] \in Byte
    BY <1>1, <1>4
  <2>2. /\ SubSeq(p, 3, 2 + n) \in Seq(Byte)
        /\ Len(SubSeq(p, 3, 2 + n)) = (IF 3 <= 2 + n THEN (2 + n) - 3 + 1 ELSE 0)
        /\ \A i \in 1 .. (2 + n) - 3 + 1 : SubSeq(p, 3, 2 + n)[i] = p[3 + i - 1]
    BY <1>4, <2>1, SubSeqProperties
  <2>3. /\ SubSeq(s, 3, 2 + n) \in Seq(Byte)
        /\ Len(SubSeq(s, 3, 2 + n)) = (IF 3 <= 2 + n THEN (2 + n) - 3 + 1 ELSE 0)
        /\ \A i \in 1 .. (2 + n) - 3 + 1 : SubSeq(s, 3, 2 + n)[i] = s[3 + i - 1]
    BY <1>4, <2>1, SubSeqProperties
  <2>4. \A i \in 1 .. n : SubSeq(p, 3, 2 + n)[i] = SubSeq(s, 3, 2 + n)[i]
    BY <1>4, <2>1, <2>2, <2>3
  <2>5. QED BY <1>4, <2>2, <2>3, <2>4, SeqEqual
<1>7. QED BY <1>3, <1>5, <1>6 DEF Body

-----------------------------------------------------------------------------
(* Where the coroutine and its driver stand: a pending wish has consumed   *)
(* the argument and left the state to resume in.                           *)
ControlInv ==
  /\ transport = "tcp" => state \in {"TcpWrite", "TcpRead", "Done"}
  /\ transport = "http" => state \in {"Http", "Done"}
  /\ want # "none" => arg = <<>> /\ state \in {"TcpRead", "Http"}
  /\ want = "write" => state = "TcpRead" \/ http = "receive"
  /\ state = "TcpWrite" => arg = <<>> /\ response = <<>> /\ at = 0
  /\ state = "Done" => result.kind # "none"

(* What was read is what state TcpRead holds and what it is about to get;  *)
(* what it holds is no answer yet; an empty read is the end or a failure.  *)
BufferInv ==
  state = "TcpRead" =>
    /\ Received = SubSeq(stream, 1, at)
    /\ ~HasFrame(response)
    /\ Eof => broken \/ (ending = "closed" /\ at = Len(stream))

OutcomeInv ==
  /\ Answered => HasFrame(stream) /\ result.body = Body(stream)
  /\ result.kind = "eof" => broken \/ (ending = "closed" /\ ~HasFrame(stream))

ExchangeInv == ExchangeTypes /\ ControlInv /\ BufferInv /\ OutcomeInv

(* The types of a state from those of the one before, for a resume.        *)
LEMMA ReceivedType ==
  ASSUME ExchangeTypes
  PROVE  Received \in Seq(Byte) /\ stream \in Seq(Byte)
         /\ (arg = <<>> => Received = response)
         /\ (Eof => Received = response)
<1>1. response \in Seq(Byte) /\ stream \in Seq(Byte)
  BY StreamAssumption DEF ExchangeTypes
<1>2. CASE arg = <<>>
  BY <1>1, <1>2, ConcatEmptySeq DEF Received, Eof
<1>3. CASE arg # <<>>
  <2>1. arg[1] \in Seq(Byte) /\ arg # <<>>
    BY <1>3 DEF ExchangeTypes
  <2>2. Received = response \o arg[1]
    BY <2>1 DEF Received
  <2>3. response \o arg[1] \in Seq(Byte) /\ response \o <<>> = response
    BY <1>1, <2>1, ConcatProperties, ConcatEmptySeq
  <2>4. QED BY <1>1, <2>1, <2>2, <2>3 DEF Eof
<1>4. QED BY <1>2, <1>3

(* What a read appends to what was read before.                            *)
LEMMA ReadAppends ==
  ASSUME NEW s \in Seq(Byte), NEW k \in 0 .. Len(s), NEW n \in Nat \ {0}, k + n <= Len(s)
  PROVE  /\ SubSeq(s, k + 1, k + n) \in Seq(Byte)
         /\ SubSeq(s, k + 1, k + n) # <<>>
         /\ SubSeq(s, 1, k) \o SubSeq(s, k + 1, k + n) = SubSeq(s, 1, k + n)
<1>1. /\ SubSeq(s, k + 1, k + n) \in Seq(Byte)
      /\ Len(SubSeq(s, k + 1, k + n)) = n
  <2>1. \A i \in k + 1 .. k + n : s[i] \in Byte
    OBVIOUS
  <2>2. /\ SubSeq(s, k + 1, k + n) \in Seq(Byte)
        /\ Len(SubSeq(s, k + 1, k + n)) =
             IF k + 1 <= k + n THEN (k + n) - (k + 1) + 1 ELSE 0
    BY <2>1, SubSeqProperties
  <2>3. QED BY <2>2
<1>2. SubSeq(s, k + 1, k + n) # <<>>
  BY <1>1
<1>3. /\ Len(s) \in Nat /\ 1 \in 1 .. Len(s) + 1 /\ k \in 0 .. Len(s)
      /\ k \in 1 - 1 .. Len(s) /\ k + n \in k .. Len(s)
  OBVIOUS
<1>4. SubSeq(s, 1, k) \o SubSeq(s, k + 1, k + n) = SubSeq(s, 1, k + n)
  BY <1>3, ConcatAdjacentSubSeq
<1>5. QED BY <1>1, <1>2, <1>4

LEMMA ExchangeInit == Init => ExchangeInv
<1> SUFFICES ASSUME Init PROVE ExchangeInv
  OBVIOUS
<1>1. stream \in Seq(Byte) /\ <<>> \in Seq(Byte) /\ 0 \in 0 .. Len(stream)
      /\ <<>> \in Seq(Seq(Byte)) /\ Len(<<>>) <= 1
  BY StreamAssumption DEF Init
<1>2. ExchangeTypes
  BY <1>1 DEF Init, ExchangeTypes, Result, Outcome
<1>3. ControlInv
  BY DEF Init, ControlInv, Outcome
<1>4. BufferInv /\ OutcomeInv
  BY DEF Init, BufferInv, OutcomeInv, Answered, Outcome
<1>5. QED BY <1>2, <1>3, <1>4 DEF ExchangeInv

LEMMA ExchangeStep == ExchangeInv /\ [Next]_vars => ExchangeInv'
<1> SUFFICES ASSUME ExchangeInv, [Next]_vars PROVE ExchangeInv'
  OBVIOUS
<1> USE DEF inputs
<1>r. /\ Received \in Seq(Byte) /\ stream \in Seq(Byte)
      /\ arg = <<>> => Received = response
      /\ Eof => Received = response
  BY ReceivedType DEF ExchangeInv
<1>e. <<>> \in Seq(Byte) /\ <<>> \in Seq(Seq(Byte)) /\ Len(<<>>) <= 1
  OBVIOUS
<1>1. CASE ResumeWrite
  <2>1. ExchangeTypes'
    BY <1>1, <1>e DEF ResumeWrite, Yield, ExchangeInv, ExchangeTypes
  <2>2. ControlInv'
    BY <1>1 DEF ResumeWrite, Yield, Resumed, ExchangeInv, ControlInv
  <2>3. BufferInv'
    <3>1. response' = <<>> /\ arg' = <<>> /\ at' = 0 /\ stream' = stream
      BY <1>1 DEF ResumeWrite, ExchangeInv, ControlInv
    <3>2. Received' = <<>> /\ SubSeq(stream, 1, 0) = <<>>
      BY <3>1, SubSeqEmpty DEF Received
    <3>3. ~HasFrame(<<>>)
      BY DEF HasFrame
    <3>4. QED BY <3>1, <3>2, <3>3 DEF BufferInv, Eof
  <2>4. OutcomeInv'
    BY <1>1 DEF ResumeWrite, Yield, ExchangeInv, OutcomeInv, Answered
  <2>5. QED BY <2>1, <2>2, <2>3, <2>4 DEF ExchangeInv
<1>2. CASE ResumeEof
  <2>1. ExchangeTypes'
    BY <1>2, <1>e DEF ResumeEof, Complete, Outcome, Result, ExchangeInv, ExchangeTypes
  <2>2. ControlInv'
    BY <1>2 DEF ResumeEof, Complete, Outcome, Resumed, ExchangeInv, ControlInv
  <2>3. BufferInv'
    BY <1>2 DEF ResumeEof, Complete, BufferInv
  <2>4. OutcomeInv'
    <3>1. broken \/ (ending = "closed" /\ ~HasFrame(stream))
      <4>1. CASE ~broken
        <5>1. response = SubSeq(stream, 1, Len(stream)) /\ ~HasFrame(response)
              /\ ending = "closed"
          BY <1>2, <1>r, <4>1 DEF ResumeEof, ExchangeInv, BufferInv
        <5>2. QED BY <1>r, <5>1, SubSeqFull
      <4>2. QED BY <4>1
    <3>2. QED BY <1>2, <3>1 DEF ResumeEof, Complete, Outcome, OutcomeInv, Answered
  <2>5. QED BY <2>1, <2>2, <2>3, <2>4 DEF ExchangeInv
<1>3. CASE ResumeAnswer
  <2>1. HasFrame(stream) /\ Body(Received) = Body(stream) /\ Body(Received) \in Seq(Byte)
    <3>1. Received = SubSeq(stream, 1, at) /\ at \in 0 .. Len(stream)
      BY <1>3 DEF ResumeAnswer, ExchangeInv, BufferInv, ExchangeTypes
    <3>2. HasFrame(Received)
      BY <1>3 DEF ResumeAnswer
    <3>3. QED BY <1>r, <3>1, <3>2, PrefixFrame, FrameStarts
  <2>2. ExchangeTypes'
    BY <1>3, <1>e, <1>r, <2>1 DEF ResumeAnswer, Complete, Result, ExchangeInv, ExchangeTypes
  <2>3. ControlInv'
    BY <1>3 DEF ResumeAnswer, Complete, Resumed, ExchangeInv, ControlInv
  <2>4. BufferInv'
    BY <1>3 DEF ResumeAnswer, Complete, BufferInv
  <2>5. OutcomeInv'
    BY <1>3, <2>1 DEF ResumeAnswer, Complete, OutcomeInv, Answered
  <2>6. QED BY <2>2, <2>3, <2>4, <2>5 DEF ExchangeInv
<1>4. CASE ResumeMore
  <2> USE DEF PutBack, Keep
  <2>1. ExchangeTypes'
    BY <1>4, <1>e, <1>r DEF ResumeMore, Yield, ExchangeInv, ExchangeTypes
  <2>2. ControlInv'
    BY <1>4 DEF ResumeMore, Yield, Resumed, ExchangeInv, ControlInv
  <2>3. BufferInv'
    <3>1. response' = Received /\ arg' = <<>> /\ at' = at /\ stream' = stream
          /\ ~HasFrame(Received) /\ Received = SubSeq(stream, 1, at)
      BY <1>4 DEF ResumeMore, ExchangeInv, BufferInv
    <3>2. Received' = response'
      BY <1>r, <3>1, ConcatEmptySeq DEF Received
    <3>3. QED BY <3>1, <3>2 DEF BufferInv, Eof
  <2>4. OutcomeInv'
    BY <1>4 DEF ResumeMore, Yield, ExchangeInv, OutcomeInv, Answered
  <2>5. QED BY <2>1, <2>2, <2>3, <2>4 DEF ExchangeInv
<1>5. CASE HttpWrite \/ HttpRead
  <2>1. ExchangeTypes'
    BY <1>5, <1>e DEF HttpWrite, HttpRead, Yield, ExchangeInv, ExchangeTypes
  <2>2. ControlInv'
    BY <1>5 DEF HttpWrite, HttpRead, Yield, Resumed, ExchangeInv, ControlInv, ExchangeTypes
  <2>3. BufferInv'
    BY <1>5 DEF HttpWrite, HttpRead, Yield, BufferInv
  <2>4. OutcomeInv'
    BY <1>5 DEF HttpWrite, HttpRead, Yield, ExchangeInv, OutcomeInv, Answered
  <2>5. QED BY <2>1, <2>2, <2>3, <2>4 DEF ExchangeInv
<1>6. CASE HttpEnd
  <2>1. ExchangeTypes'
    BY <1>6, <1>e DEF HttpEnd, Complete, Outcome, Result, ExchangeInv, ExchangeTypes
  <2>2. ControlInv'
    BY <1>6 DEF HttpEnd, Complete, Outcome, Resumed, ExchangeInv, ControlInv
  <2>3. BufferInv'
    BY <1>6 DEF HttpEnd, Complete, BufferInv
  <2>4. OutcomeInv'
    BY <1>6 DEF HttpEnd, Complete, Outcome, ExchangeInv, ControlInv, OutcomeInv, Answered
  <2>5. QED BY <2>1, <2>2, <2>3, <2>4 DEF ExchangeInv
<1>7. CASE Write
  <2>1. Wire \in Seq(Byte)
    <3>1. query \in Seq(Byte) /\ Len(query) \in Nat
      BY QueryAssumption DEF ExchangeInv, ExchangeTypes
    <3>2. Framed(query) \in Seq(Byte)
      BY <3>1, LengthBytesBound, ConcatProperties DEF Framed
    <3>3. QED BY <3>1, <3>2 DEF Wire
  <2>2. written' \in Seq(Byte)
    BY <1>7, <2>1, ConcatProperties DEF Write, ExchangeInv, ExchangeTypes
  <2>3. ExchangeTypes'
    BY <1>7, <2>2 DEF Write, ExchangeInv, ExchangeTypes
  <2>4. ControlInv'
    BY <1>7 DEF Write, ExchangeInv, ControlInv
  <2>5. BufferInv'
    BY <1>7 DEF Write, ExchangeInv, BufferInv, Received, Eof
  <2>6. OutcomeInv'
    BY <1>7 DEF Write, ExchangeInv, OutcomeInv, Answered
  <2>7. QED BY <2>3, <2>4, <2>5, <2>6 DEF ExchangeInv
<1>8. CASE Read
  <2>1. PICK n \in 1 .. MaxRead :
          /\ at + n <= Len(stream)
          /\ arg' = <<SubSeq(stream, at + 1, at + n)>>
          /\ at' = at + n
    BY <1>8 DEF Read
  <2> DEFINE chunk == SubSeq(stream, at + 1, at + n)
  <2>2. n \in Nat \ {0} /\ at \in 0 .. Len(stream)
    BY BufferAssumption DEF ExchangeInv, ExchangeTypes
  <2>3. /\ chunk \in Seq(Byte) /\ chunk # <<>>
        /\ SubSeq(stream, 1, at) \o chunk = SubSeq(stream, 1, at + n)
    BY <1>r, <2>1, <2>2, ReadAppends
  <2> HIDE DEF chunk
  <2>4. arg' = <<chunk>> /\ arg' # <<>> /\ arg'[1] = chunk /\ arg' \in Seq(Seq(Byte)) /\ Len(arg') <= 1
    <3>1. arg' = <<chunk>>
      BY <2>1 DEF chunk
    <3>2. QED BY <2>3, <3>1
  <2>5. ExchangeTypes'
    <3>1. at' \in 0 .. Len(stream)
      BY <1>r, <2>1, <2>2
    <3>2. QED BY <1>8, <2>4, <3>1 DEF Read, ExchangeInv, ExchangeTypes
  <2>6. ControlInv'
    BY <1>8 DEF Read, ExchangeInv, ControlInv
  <2>7. BufferInv'
    <3>1. CASE state = "TcpRead"
      <4>1. arg = <<>> /\ response = SubSeq(stream, 1, at) /\ ~HasFrame(response)
        BY <1>8, <1>r, <3>1 DEF Read, ExchangeInv, ControlInv, BufferInv
      <4>2. Received' = response \o chunk /\ ~Eof'
        BY <1>8, <2>3, <2>4 DEF Read, Received, Eof
      <4>3. stream' = stream /\ response' = response
        BY <1>8 DEF Read
      <4>4. QED BY <2>1, <2>3, <4>1, <4>2, <4>3 DEF BufferInv
    <3>2. QED BY <1>8, <3>1 DEF Read, BufferInv
  <2>8. OutcomeInv'
    BY <1>8 DEF Read, ExchangeInv, OutcomeInv, Answered
  <2>9. QED BY <2>5, <2>6, <2>7, <2>8 DEF ExchangeInv
<1>9. CASE ReadEnd \/ Fail
  <2>1. /\ stream' = stream /\ at' = at /\ response' = response /\ state' = state
        /\ ending' = ending /\ arg = <<>>
        /\ arg' = arg \/ arg' = << <<>> >>
    BY <1>9 DEF ReadEnd, Fail, ExchangeInv, ControlInv
  <2>2. << <<>> >> \in Seq(Seq(Byte)) /\ Len(<< <<>> >>) = 1 /\ << <<>> >>[1] = <<>> /\ << <<>> >> # <<>>
    OBVIOUS
  <2>3. ExchangeTypes'
    <3>1. arg' \in Seq(Seq(Byte)) /\ Len(arg') <= 1
      <4>1. CASE arg' = arg
        BY <4>1 DEF ExchangeInv, ExchangeTypes
      <4>2. CASE arg' = << <<>> >>
        BY <2>2, <4>2
      <4>3. QED BY <2>1, <4>1, <4>2
    <3>2. result' \in Result /\ broken' \in BOOLEAN
      <4>1. Outcome("io") \in Result
        BY <1>e DEF Outcome, Result
      <4>2. result' \in {result, Outcome("io")} /\ broken' \in {broken, TRUE}
        BY <1>9 DEF ReadEnd, Fail
      <4>3. result \in Result /\ broken \in BOOLEAN
        BY DEF ExchangeInv, ExchangeTypes
      <4>4. QED BY <4>1, <4>2, <4>3
    <3>3. QED BY <1>9, <3>1, <3>2 DEF ReadEnd, Fail, ExchangeInv, ExchangeTypes
  <2>4. ControlInv'
    BY <1>9 DEF ReadEnd, Fail, Outcome, ExchangeInv, ControlInv
  <2>5. BufferInv'
    <3>1. Received' = Received
      <4>1. response \o <<>> = response
        BY ConcatEmptySeq DEF ExchangeInv, ExchangeTypes
      <4>2. QED BY <2>1, <2>2, <4>1 DEF Received
    <3>2. Eof' => broken' \/ (ending' = "closed" /\ at' = Len(stream'))
      BY <1>9, <2>1 DEF ReadEnd, Fail, Eof
    <3>3. QED BY <2>1, <3>1, <3>2 DEF ExchangeInv, BufferInv
  <2>6. OutcomeInv'
    BY <1>9 DEF ReadEnd, Fail, Outcome, ExchangeInv, OutcomeInv, Answered
  <2>7. QED BY <2>3, <2>4, <2>5, <2>6 DEF ExchangeInv
<1>10. CASE Returned \/ UNCHANGED vars
  <2>1. UNCHANGED vars
    BY <1>10 DEF Returned
  <2>2. QED BY <2>1 DEF vars, ExchangeInv, ExchangeTypes, ControlInv, BufferInv, OutcomeInv,
                       Received, Eof, Answered
<1>11. QED
  BY <1>1, <1>2, <1>3, <1>4, <1>5, <1>6, <1>7, <1>8, <1>9, <1>10 DEF Next, Resume

LEMMA ExchangeInvariant == Spec => []ExchangeInv
<1>1. QED BY ExchangeInit, ExchangeStep, PTL DEF Spec

(* The types, and a coroutine is never resumed after it completed.         *)
THEOREM ExchangeTypeCorrect == Spec => []ExchangeTypeOK
<1>1. ExchangeInv => ExchangeTypeOK
  BY DEF ExchangeInv, ControlInv, ExchangeTypeOK, Panic, Resumed
<1>2. QED BY <1>1, ExchangeInvariant, PTL

(* However the answer is cut, the body returned is the message framed first*)
(* on the stream.                                                          *)
THEOREM AnswerIsWhole == Spec => []AnswerIsFirstMessage
<1>1. ExchangeInv => AnswerIsFirstMessage
  BY FrameStarts, StreamAssumption
     DEF ExchangeInv, ExchangeTypes, OutcomeInv, AnswerIsFirstMessage
<1>2. QED BY <1>1, ExchangeInvariant, PTL

LEMMA NoFrameNoMessage ==
  ASSUME NEW s \in Seq(Byte), ~HasFrame(s)
  PROVE  FirstOf(s) = {}
<1>1. SUFFICES ASSUME NEW n \in 2 .. Len(s), Starts(s, SubSeq(s, 3, n)) PROVE FALSE
  BY DEF FirstOf
<1>2. \A i \in 3 .. n : s[i] \in Byte
  OBVIOUS
<1>3. SubSeq(s, 3, n) \in Seq(Byte)
  BY <1>2, SubSeqProperties
<1>4. QED BY <1>1, <1>3, StartsHasFrame

(* A read is asked for only while the answer is not whole.                 *)
THEOREM ReadsAreNeeded == Spec => []NeverWaitsInVain
<1>1. ExchangeInv => NeverWaitsInVain
  <2> SUFFICES ASSUME ExchangeInv, want = "read", transport = "tcp"
               PROVE  FirstOf(SubSeq(stream, 1, at)) = {}
    BY DEF NeverWaitsInVain
  <2>1. state = "TcpRead" /\ arg = <<>>
    BY DEF ExchangeInv, ControlInv
  <2>2. ~HasFrame(SubSeq(stream, 1, at)) /\ SubSeq(stream, 1, at) \in Seq(Byte)
    BY <2>1, ReceivedType DEF ExchangeInv, BufferInv
  <2>3. QED BY <2>2, NoFrameNoMessage
<1>2. QED BY <1>1, ExchangeInvariant, PTL

(* The error for an early end is given only when no answer came.           *)
THEOREM EofIsEarned == Spec => []EofIsDeserved
<1>1. ExchangeInv => EofIsDeserved
  BY NoFrameNoMessage, StreamAssumption
     DEF ExchangeInv, ExchangeTypes, OutcomeInv, EofIsDeserved
<1>2. QED BY <1>1, ExchangeInvariant, PTL

-----------------------------------------------------------------------------
(* A message short enough for two length bytes is found whole behind them. *)
LEMMA FramedWhole ==
  ASSUME NEW m \in Seq(Byte), Len(m) < Base * Base
  PROVE  Len(Framed(m)) = 2 + Len(m) /\ HasFrame(Framed(m)) /\ Body(Framed(m)) = m
<1> DEFINE n == Len(m)
           q == n \div Base
           r == n % Base
           l == LengthBytes(n)
           f == Framed(m)
<1>1. n \in Nat /\ q \in Nat /\ r \in Byte /\ n = Base * q + r
  BY ByteAssumption DEF Byte
<1>2. l \in Seq(Byte) /\ Len(l) = 2
  BY <1>1, LengthBytesBound
<1>3. l = <<q % Base, r>>
  BY DEF LengthBytes
<1>4. f = l \o m
  BY DEF Framed
<1>5. n < Base * Base
  OBVIOUS
<1> HIDE DEF q, r, l, n, f
<1>6. q < Base
  <2>1. SUFFICES ASSUME ~ q < Base PROVE FALSE
    OBVIOUS
  <2>2. PICK e \in Nat : q = Base + e
    BY <1>1, <2>1, ByteAssumption
  <2>3. Base * q = Base * Base + Base * e /\ Base * e \in Nat /\ Base * Base \in Nat
    BY <2>2, ByteAssumption
  <2>4. QED BY <1>1, <1>5, <2>3 DEF Byte
<1>7. q % Base = q
  <2>1. 0 \in 0 .. Base - 1 /\ q \in 0 .. Base - 1 /\ Base * 0 + q = q
    BY <1>1, <1>6, ByteAssumption
  <2>2. (Base * 0 + q) % Base = q
    BY <2>1, Digits, ByteAssumption
  <2>3. QED BY <2>1, <2>2
<1>8. l = <<q, r>> /\ l[1] = q /\ l[2] = r
  BY <1>3, <1>7
<1>9. /\ f \in Seq(Byte) /\ Len(f) = 2 + n
      /\ \A i \in 1 .. 2 + n : f[i] = IF i <= 2 THEN l[i] ELSE m[i - 2]
  <2>1. /\ l \o m \in Seq(Byte) /\ Len(l \o m) = Len(l) + Len(m)
        /\ \A i \in 1 .. Len(l) + Len(m) :
             (l \o m)[i] = IF i <= Len(l) THEN l[i] ELSE m[i - Len(l)]
    BY <1>2, ConcatProperties
  <2>2. QED BY <1>2, <1>4, <2>1 DEF n
<1>10. f[1] = q /\ f[2] = r
  <2>1. 1 \in 1 .. 2 + n /\ 2 \in 1 .. 2 + n
    BY <1>1
  <2>2. f[1] = l[1] /\ f[2] = l[2]
    BY <1>9, <2>1
  <2>3. QED BY <1>8, <2>2
<1>11. BodyLen(f) = n
  BY <1>1, <1>10 DEF BodyLen
<1>12. HasFrame(f)
  BY <1>1, <1>9, <1>11 DEF HasFrame
<1>13. SubSeq(f, 3, 2 + n) = m
  <2>1. \A i \in 3 .. 2 + n : f[i] \in Byte
    BY <1>1, <1>9
  <2>2. /\ SubSeq(f, 3, 2 + n) \in Seq(Byte)
        /\ Len(SubSeq(f, 3, 2 + n)) = (IF 3 <= 2 + n THEN (2 + n) - 3 + 1 ELSE 0)
        /\ \A i \in 1 .. (2 + n) - 3 + 1 : SubSeq(f, 3, 2 + n)[i] = f[3 + i - 1]
    BY <1>1, <2>1, SubSeqProperties
  <2>3. Len(SubSeq(f, 3, 2 + n)) = n
    BY <1>1, <2>2
  <2>4. ASSUME NEW i \in 1 .. n PROVE SubSeq(f, 3, 2 + n)[i] = m[i]
    <3>1. i \in Nat /\ 3 + i - 1 = 2 + i /\ (2 + i) - 2 = i /\ 2 + i \in 1 .. 2 + n
          /\ ~ 2 + i <= 2 /\ i \in 1 .. (2 + n) - 3 + 1
      BY <1>1
    <3>2. SubSeq(f, 3, 2 + n)[i] = f[2 + i]
      BY <2>2, <3>1
    <3>3. f[2 + i] = m[(2 + i) - 2]
      BY <1>9, <3>1
    <3>4. QED BY <3>1, <3>2, <3>3
  <2>5. QED BY <2>2, <2>3, <2>4, SeqEqual DEF n
<1>14. QED BY <1>9, <1>11, <1>12, <1>13 DEF Body, f, n

QueryInv ==
  transport = "tcp" =>
    /\ written = <<>> \/ written = Framed(query)
    /\ state = "TcpWrite" \/ want = "write" => written = <<>>

(* What is written over TCP is the query, whole and once.                  *)
THEOREM QueryIsWhole == Spec => []QueryArrivesWhole
<1>1. Init => QueryInv
  BY DEF Init, QueryInv
<1>2. ExchangeInv /\ QueryInv /\ [Next]_vars => QueryInv'
  <2> SUFFICES ASSUME ExchangeInv, QueryInv, [Next]_vars, transport' = "tcp"
               PROVE  /\ written' = <<>> \/ written' = Framed(query')
                      /\ state' = "TcpWrite" \/ want' = "write" => written' = <<>>
    BY DEF QueryInv
  <2>1. transport = "tcp" /\ query' = query
    BY DEF Next, Resume, ResumeWrite, ResumeEof, ResumeAnswer, ResumeMore, HttpWrite,
           HttpRead, HttpEnd, Write, Read, ReadEnd, Fail, Returned, inputs, vars
  <2>2. CASE Resume
    BY <2>1, <2>2 DEF Resume, ResumeWrite, ResumeEof, ResumeAnswer, ResumeMore, HttpWrite,
       HttpRead, HttpEnd, Yield, Complete, PutBack, QueryInv, ExchangeInv, ControlInv, Resumed
  <2>3. CASE Write
    <3>1. query \in Seq(Byte) /\ written = <<>> /\ want' = "none" /\ state' = "TcpRead"
      BY <2>1, <2>3, QueryAssumption
         DEF Write, QueryInv, ExchangeInv, ExchangeTypes, ControlInv
    <3>2. Framed(query) \in Seq(Byte)
      BY <3>1, LengthBytesBound, ConcatProperties DEF Framed
    <3>3. written' = Framed(query)
      BY <2>1, <2>3, <3>1, <3>2, ConcatEmptySeq DEF Write, Wire
    <3>4. QED BY <2>1, <3>1, <3>3
  <2>4. CASE Read \/ ReadEnd \/ Fail
    BY <2>1, <2>4 DEF Read, ReadEnd, Fail, QueryInv
  <2>5. CASE Returned \/ UNCHANGED vars
    BY <2>1, <2>5 DEF Returned, vars, inputs, QueryInv
  <2>6. QED BY <2>2, <2>3, <2>4, <2>5 DEF Next
<1>3. ExchangeInv /\ QueryInv => QueryArrivesWhole
  BY FramedWhole, QueryAssumption
     DEF ExchangeInv, ExchangeTypes, QueryInv, QueryArrivesWhole
<1>4. QED BY <1>1, <1>2, <1>3, ExchangeInvariant, PTL DEF Spec
=============================================================================
