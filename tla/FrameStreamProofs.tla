-------------------------- MODULE FrameStreamProofs --------------------------
(***************************************************************************)
(* Theorems about FrameStream, for every header and payload size, every    *)
(* bound on payloads and any number of frames: a reader of any kind gets   *)
(* whole frames in order, and FrameStream implements FrameChannel.         *)
(***************************************************************************)
EXTENDS FrameStream, SequenceTheorems, TLAPS

-------------------------------------------------------------------------------
(* The inductive invariant.                                                *)

\* The length of frame n on the wire; the frame and the place in it of the unit
\* at j; whether the frame n ends there.
Size(n) == HeaderSize + lengths[n]
Frame(j) == stream[j][1]
Place(j) == stream[j][2]
EndsAt(j, n) == Frame(j) = n /\ Place(j) = Size(n)

\* Where the units of the frame being read begin: everything before was consumed
\* by earlier reads.
Start == pos - Len(header) - Len(payload)

\* Every unit belongs to a frame that was begun, units are in the order they were
\* sent, and before a unit are all earlier ones of its frame.
StreamShape ==
  /\ \A j \in 1..Len(stream) : Frame(j) \in 1..Len(lengths) /\ Place(j) \in 1..Size(Frame(j))
  /\ \A j, k \in 1..Len(stream) : j < k =>
       \/ Frame(j) < Frame(k)
       \/ Frame(j) = Frame(k) /\ Place(k) = Place(j) + (k - j)
  /\ \A j \in 1..Len(stream) :
       /\ Place(j) <= j
       /\ \A d \in 0..(Place(j) - 1) : Frame(j - d) = Frame(j) /\ Place(j - d) = Place(j) - d

\* While a frame is being sent, the stream ends where write_all is.
SendShape ==
  left > 0 =>
    /\ Writing > 0 /\ left <= Size(Writing)
    /\ left = Size(Writing) => \A j \in 1..Len(stream) : Frame(j) < Writing
    /\ left < Size(Writing) =>
         /\ Len(stream) > 0
         /\ Frame(Len(stream)) = Writing /\ Place(Len(stream)) = Size(Writing) - left

\* The buffers of the reader hold the units from Start to pos.
BufferShape ==
  /\ Start >= 0
  /\ \A i \in 1..Len(header) : header[i] = stream[Start + i]
  /\ \A i \in 1..Len(payload) : payload[i] = stream[Start + Len(header) + i]
  /\ phase \in {"idle", "closed"} => header = <<>> /\ payload = <<>>
  /\ phase = "header" => payload = <<>> /\ Len(header) < HeaderSize
  /\ phase = "payload" => Len(header) = HeaderSize /\ Len(payload) < need

\* The frames returned were complete, and end before Start.
DeliveredShape ==
  /\ \A i \in 1..Len(delivered) : delivered[i] \in 1..Len(lengths)
  /\ delivered # <<>> => \E j \in 1..Start : EndsAt(j, delivered[Len(delivered)])

\* The units of the frames in a set.
UnitsOf(frames) == UNION {{n} \X (1..(HeaderSize + lengths[n])) : n \in frames}

\* As long as no read failed inside a frame, Start is the end of the last frame
\* returned, and exactly the frames returned lie before it.
IntactShape ==
  ~broken =>
    /\ delivered = <<>> => Start = 0
    /\ delivered # <<>> => Start > 0 /\ EndsAt(Start, delivered[Len(delivered)])
    /\ {stream[j] : j \in 1..Start} = UnitsOf(Range(delivered))

IInv == StreamTypeOK /\ StreamShape /\ SendShape /\ BufferShape /\ DeliveredShape /\ IntactShape

-------------------------------------------------------------------------------
(* The sender.                                                             *)

LEMMA UnitPair ==
  ASSUME NEW u \in Unit
  PROVE  u = <<u[1], u[2]>> /\ u[1] \in 1..MaxFrames /\ u[2] \in 1..(HeaderSize + LinkMax)
BY DEF Unit

\* The numbers of a state, apart from the contents of the sequences.
Counts ==
  /\ HeaderSize \in Nat /\ HeaderSize >= 1 /\ LinkMax \in Nat /\ MaxFrames \in Nat
  /\ Len(lengths) \in Nat /\ Len(lengths) <= MaxFrames
  /\ Len(stream) \in Nat /\ pos \in Nat /\ pos <= Len(stream)
  /\ left \in Nat /\ left <= HeaderSize + LinkMax
  /\ Len(header) \in Nat /\ Len(header) <= HeaderSize
  /\ need \in Nat /\ need <= LinkMax
  /\ Len(payload) \in Nat /\ Len(payload) <= need
  /\ Len(delivered) \in Nat

LEMMA Numbers == StreamTypeOK => Counts
BY StreamAssumption, LenProperties DEF StreamTypeOK, Counts

LEMMA Sizes ==
  ASSUME StreamTypeOK, NEW n \in 1..Len(lengths)
  PROVE  /\ lengths[n] \in PayloadSizes /\ lengths[n] \in Nat /\ lengths[n] <= LinkMax
         /\ Size(n) \in Nat /\ Size(n) >= HeaderSize /\ Size(n) <= HeaderSize + LinkMax
<1>1. lengths[n] \in PayloadSizes
  BY ElementOfSeq DEF StreamTypeOK
<1>2. HeaderSize \in Nat /\ LinkMax \in Nat /\ lengths[n] \in 0..LinkMax
  BY <1>1, StreamAssumption
<1> QED BY <1>1, <1>2 DEF Size

LEMMA InitIInv == StreamInit => IInv
<1> SUFFICES ASSUME StreamInit PROVE IInv
  OBVIOUS
<1>1. StreamTypeOK
  <2>1. \A S : <<>> \in Seq(S) /\ Len(<<>>) = 0
    BY EmptySeq
  <2>2. /\ lengths \in Seq(PayloadSizes) /\ stream \in Seq(Unit) /\ header \in Seq(Unit)
        /\ payload \in Seq(Unit) /\ delivered \in Seq(1..MaxFrames)
    BY <2>1, Zenon DEF StreamInit
  <2>3. /\ left \in 0..(HeaderSize + LinkMax) /\ need \in 0..LinkMax /\ pos \in 0..Len(stream)
        /\ Len(lengths) <= MaxFrames /\ Len(header) <= HeaderSize /\ Len(payload) <= need
    BY <2>1, StreamAssumption DEF StreamInit
  <2> QED BY <2>2, <2>3 DEF StreamInit, StreamTypeOK
<1>2. StreamShape /\ SendShape /\ BufferShape /\ DeliveredShape
  BY DEF StreamInit, StreamShape, SendShape, BufferShape, DeliveredShape, Start, Frame, Place
<1>3. IntactShape
  <2>1. Start = 0 /\ Range(delivered) = {}
    <3>1. delivered \in Seq(Nat) /\ Len(delivered) = 0
      BY EmptySeq DEF StreamInit
    <3>2. Range(delivered) = {delivered[i] : i \in 1..0}
      BY <3>1, RangeEquality
    <3>3. Start = 0
      <4>1. Len(<<>>) = 0
        BY EmptySeq
      <4>2. pos = 0 /\ Len(header) = 0 /\ Len(payload) = 0
        BY <4>1, Zenon DEF StreamInit
      <4> QED BY <4>2 DEF Start
    <3> QED BY <3>2, <3>3
  <2>2. UnitsOf({}) = {}
    BY Zenon DEF UnitsOf
  <2>3. {stream[j] : j \in 1..0} = {}
    OBVIOUS
  <2> QED BY <2>1, <2>2, <2>3 DEF StreamInit, IntactShape
<1> QED BY <1>1, <1>2, <1>3 DEF IInv

\* What the sender adds behind the units already there changes nothing for the
\* reader.
LEMMA SenderKeepsReader ==
  ASSUME IInv, UNCHANGED reader,
         Len(stream') >= Len(stream), Len(stream') \in Nat,
         \A j \in 1..Len(stream) : stream'[j] = stream[j],
         Len(lengths') >= Len(lengths), Len(lengths') \in Nat,
         \A n \in 1..Len(lengths) : lengths'[n] = lengths[n]
  PROVE  BufferShape' /\ DeliveredShape' /\ IntactShape'
<1>0. Counts
  BY Numbers DEF IInv
<1>1. Start \in Nat /\ Start + Len(header) + Len(payload) = pos /\ pos <= Len(stream)
  BY <1>0 DEF Counts, IInv, BufferShape, Start
<1>2. /\ phase' = phase /\ header' = header /\ payload' = payload /\ need' = need
      /\ delivered' = delivered /\ broken' = broken /\ Start' = Start
  BY DEF reader, Start
<1>3. \A j \in 1..Start : stream'[j] = stream[j]
  BY <1>0, <1>1 DEF Counts
<1>4. \A i \in 1..Len(delivered) : delivered[i] \in 1..Len(lengths)
  BY DEF IInv, DeliveredShape
<1> DEFINE last == delivered[Len(delivered)]
<1>5. ASSUME delivered # <<>>, NEW j \in 1..Start, EndsAt(j, last)
      PROVE  stream'[j][1] = last /\ stream'[j][2] = HeaderSize + lengths'[last]
  <2>1. last \in 1..Len(lengths)
    BY <1>0, <1>4, <1>5, EmptySeq DEF Counts, IInv, StreamTypeOK
  <2> QED BY <1>3, <1>5, <2>1 DEF EndsAt, Frame, Place, Size
<1>6. BufferShape'
  <2>1. \A i \in 1..Len(header) : header[i] = stream'[Start + i]
    <3>1. \A i \in 1..Len(header) : header[i] = stream[Start + i]
      BY Zenon DEF IInv, BufferShape
    <3>2. \A i \in 1..Len(header) : Start + i \in 1..Len(stream)
      BY <1>0, <1>1 DEF Counts
    <3> QED BY <3>1, <3>2, Zenon
  <2>2. \A i \in 1..Len(payload) : payload[i] = stream'[Start + Len(header) + i]
    <3>1. \A i \in 1..Len(payload) : payload[i] = stream[Start + Len(header) + i]
      BY Zenon DEF IInv, BufferShape
    <3>2. \A i \in 1..Len(payload) : Start + Len(header) + i \in 1..Len(stream)
      BY <1>0, <1>1 DEF Counts
    <3> QED BY <3>1, <3>2, Zenon
  <2> QED BY <1>2, <2>1, <2>2 DEF IInv, BufferShape
<1>7. DeliveredShape'
  <2>1. \A i \in 1..Len(delivered) : delivered[i] \in 1..Len(lengths')
    BY <1>0, <1>4 DEF Counts
  <2>2. ASSUME delivered # <<>>
        PROVE  \E j \in 1..Start : stream'[j][1] = last /\ stream'[j][2] = HeaderSize + lengths'[last]
    BY <1>5, <2>2 DEF IInv, DeliveredShape
  <2> QED BY <1>2, <2>1, <2>2 DEF DeliveredShape, EndsAt, Frame, Place, Size
<1>8. UnitsOf(Range(delivered))' = UnitsOf(Range(delivered))
  <2>1. \A n \in Range(delivered) : n \in 1..Len(lengths)
    BY <1>4, RangeEquality DEF IInv, StreamTypeOK
  <2> QED BY <1>2, <2>1 DEF UnitsOf
<1>9. {stream'[j] : j \in 1..Start'} = {stream[j] : j \in 1..Start}
  BY <1>2, <1>3
<1>10. IntactShape'
  <2>1. ASSUME delivered # <<>>, ~broken
        PROVE  Start > 0 /\ stream'[Start][1] = last /\ stream'[Start][2] = HeaderSize + lengths'[last]
    <3>1. Start > 0 /\ EndsAt(Start, last)
      BY <2>1 DEF IInv, IntactShape
    <3>2. Start \in 1..Start
      BY <1>1, <3>1
    <3> QED BY <1>5, <2>1, <3>1, <3>2
  <2> QED BY <1>2, <1>8, <1>9, <2>1 DEF IInv, IntactShape, EndsAt, Frame, Place, Size
<1> QED BY <1>6, <1>7, <1>10

LEMMA EncodeFrameStep ==
  ASSUME IInv, NEW size \in PayloadSizes, EncodeFrame(size)
  PROVE  IInv'
<1> DEFINE n == Len(lengths)
<1>0. Counts
  BY Numbers DEF IInv
<1>1. /\ Len(lengths') = n + 1 /\ n \in Nat
      /\ \A m \in 1..n : lengths'[m] = lengths[m]
      /\ lengths'[n + 1] = size
      /\ lengths' \in Seq(PayloadSizes)
  BY <1>0, AppendProperties DEF Counts, EncodeFrame, IInv, StreamTypeOK
<1>2. size \in 0..LinkMax /\ HeaderSize \in Nat \ {0} /\ LinkMax \in Nat
  BY StreamAssumption
<1>3. /\ left' = HeaderSize + size /\ stream' = stream /\ n < MaxFrames
      /\ UNCHANGED <<who, stop, eof, reader>>
  BY DEF EncodeFrame, Writing
<1>4. StreamTypeOK'
  <2>1. left' \in 0..(HeaderSize + LinkMax) /\ Len(lengths') <= MaxFrames
    BY <1>0, <1>1, <1>2, <1>3 DEF Counts
  <2> QED BY <1>1, <1>3, <2>1 DEF IInv, StreamTypeOK, reader
<1>5. StreamShape'
  <2>1. \A j \in 1..Len(stream) : Frame(j)' = Frame(j) /\ Place(j)' = Place(j)
    BY <1>3 DEF Frame, Place
  <2>2. \A j \in 1..Len(stream) :
          Frame(j) \in 1..n /\ HeaderSize + lengths'[Frame(j)] = HeaderSize + lengths[Frame(j)]
    BY <1>1 DEF IInv, StreamShape
  <2> QED BY <1>1, <1>3, <2>2 DEF IInv, StreamShape, Size, Frame, Place
<1>6. SendShape'
  <2>1. \A j \in 1..Len(stream) : stream[j][1] \in 1..n
    BY DEF IInv, StreamShape, Frame
  <2> QED BY <1>1, <1>2, <1>3, <2>1 DEF SendShape, Writing, Size, Frame
<1>7. BufferShape' /\ DeliveredShape' /\ IntactShape'
  BY <1>0, <1>1, <1>3, SenderKeepsReader DEF Counts
<1> QED BY <1>4, <1>5, <1>6, <1>7 DEF IInv

\* The stream after one send().
LEMMA ChunkSent ==
  ASSUME IInv, NEW k, SendChunk(k)
  PROVE  /\ k \in Nat /\ k >= 1 /\ k <= left /\ left' = left - k
         /\ Writing \in 1..Len(lengths) /\ Size(Writing) \in Nat /\ left <= Size(Writing)
         /\ stream' \in Seq(Unit) /\ Len(stream') = Len(stream) + k
         /\ \A j \in 1..Len(stream) : stream'[j] = stream[j]
         /\ \A j \in (Len(stream) + 1)..(Len(stream) + k) :
              stream'[j] = <<Writing, Size(Writing) - left + (j - Len(stream))>>
<1> DEFINE w == Writing
           at == Size(w) - left
           chunk == [i \in 1..k |-> <<w, at + i>>]
<1>0. Counts
  BY Numbers DEF IInv
<1>1. k \in Nat /\ k >= 1 /\ k <= left /\ left' = left - k
  BY <1>0 DEF Counts, SendChunk
<1>c. stream' = stream \o chunk
  BY DEF SendChunk, Size
<1>2. w \in 1..Len(lengths) /\ left <= Size(w)
  <2>1. left > 0
    BY <1>0, <1>1 DEF Counts
  <2>2. Writing > 0 /\ left <= Size(Writing)
    BY <2>1, Zenon DEF IInv, SendShape
  <2> QED BY <1>0, <2>2 DEF Counts, Writing
<1>3. Size(w) \in Nat /\ Size(w) <= HeaderSize + LinkMax
  BY <1>2, Sizes DEF IInv
<1> HIDE DEF w
<1>4. ASSUME NEW i \in 1..k PROVE <<w, at + i>> \in Unit
  <2>1. w \in 1..MaxFrames
    BY <1>0, <1>1, <1>2, <1>3 DEF Counts
  <2>2. at + i \in 1..(HeaderSize + LinkMax)
    <3>1. left \in Nat /\ HeaderSize + LinkMax \in Nat
      BY <1>0 DEF Counts
    <3>2. Size(w) - left \in Nat /\ Size(w) - left + k <= HeaderSize + LinkMax
      BY <1>1, <1>2, <1>3, <3>1
    <3> QED BY <1>1, <3>1, <3>2
  <2> QED BY <2>1, <2>2, Zenon DEF Unit
<1> HIDE DEF at
<1>5. chunk \in Seq(Unit) /\ Len(chunk) = k /\ \A i \in 1..k : chunk[i] = <<w, at + i>>
  BY <1>1, <1>4
<1> HIDE DEF chunk
<1>6. stream \in Seq(Unit) /\ Len(stream) \in Nat
  BY <1>0 DEF Counts, IInv, StreamTypeOK
<1>7. /\ stream' \in Seq(Unit) /\ Len(stream') = Len(stream) + k
      /\ \A j \in 1..(Len(stream) + k) :
           stream'[j] = IF j <= Len(stream) THEN stream[j] ELSE chunk[j - Len(stream)]
  BY <1>1, <1>c, <1>5, <1>6, ConcatProperties
<1>8. \A j \in (Len(stream) + 1)..(Len(stream) + k) : stream'[j] = <<w, at + (j - Len(stream))>>
  BY <1>1, <1>5, <1>6, <1>7
<1>9. \A j \in 1..Len(stream) : stream'[j] = stream[j]
  BY <1>1, <1>6, <1>7
<1> QED BY <1>1, <1>2, <1>3, <1>7, <1>8, <1>9 DEF w, at

LEMMA SendChunkStep ==
  ASSUME IInv, NEW k, SendChunk(k)
  PROVE  IInv'
<1> DEFINE w == Writing
           old == Len(stream)
           at == Size(w) - left
           F(j) == stream[j][1]
           P(j) == stream[j][2]
           G(j) == stream'[j][1]
           Q(j) == stream'[j][2]
<1>0. Counts
  BY Numbers DEF IInv
<1>1. /\ k \in Nat /\ k >= 1 /\ k <= left /\ left' = left - k /\ old \in Nat /\ left \in Nat
      /\ w \in 1..Len(lengths) /\ Size(w) \in Nat /\ at \in Nat /\ at + left = Size(w)
      /\ Len(stream') = old + k
  BY <1>0, ChunkSent, SMTT(30) DEF Counts
<1>2. \A j \in 1..old : stream'[j] = stream[j] /\ G(j) = F(j) /\ Q(j) = P(j)
  BY ChunkSent
<1>3. \A j \in (old + 1)..(old + k) : G(j) = w /\ Q(j) = at + (j - old)
  BY ChunkSent
<1>4. lengths' = lengths /\ UNCHANGED <<who, stop, eof, reader>>
  BY DEF SendChunk
<1>5. \A j \in 1..(old + k) : j \in 1..old \/ j \in (old + 1)..(old + k)
  BY <1>1
<1>s. w = Len(lengths)
  BY DEF Writing
<1>s1. \A j \in 1..old : F(j) \in 1..w /\ P(j) \in 1..Size(F(j)) /\ Size(F(j)) \in Nat
  <2>1. \A j \in 1..old : F(j) \in 1..w /\ P(j) \in 1..Size(F(j))
    BY DEF IInv, StreamShape, Writing, Frame, Place
  <2> QED BY <1>s, <2>1, Sizes DEF IInv
<1>s2. \A i, j \in 1..old : i < j => F(i) < F(j) \/ (F(i) = F(j) /\ P(j) = P(i) + (j - i))
  BY Zenon DEF IInv, StreamShape, Frame, Place
<1>s3. \A j \in 1..old :
         P(j) <= j /\ \A d \in 0..(P(j) - 1) : F(j - d) = F(j) /\ P(j - d) = P(j) - d
  BY Zenon DEF IInv, StreamShape, Frame, Place
<1>s4. /\ left = Size(w) => \A j \in 1..old : F(j) < w
       /\ left < Size(w) => old > 0 /\ F(old) = w /\ P(old) = Size(w) - left
  <2>1. left > 0
    BY <1>1
  <2> QED BY <2>1, Zenon DEF IInv, SendShape, Frame, Place
<1> HIDE DEF F, P, G, Q
<1>8. at > 0 => old > 0 /\ F(old) = w /\ P(old) = at /\ at <= old
  <2>1. at > 0 => old > 0 /\ F(old) = w /\ P(old) = at
    BY <1>1, <1>s4
  <2> QED BY <1>1, <1>s3, <2>1
<1>7. \A j \in 1..old : F(j) = w => at > 0
  BY <1>1, <1>s1, <1>s4, SMTT(30)
<1>9. StreamTypeOK'
  <2>1. left' \in 0..(HeaderSize + LinkMax)
    BY <1>0, <1>1 DEF Counts
  <2>2. pos \in 0..Len(stream')
    BY <1>0, <1>1 DEF Counts
  <2>3. stream' \in Seq(Unit)
    BY ChunkSent
  <2> QED BY <1>4, <2>1, <2>2, <2>3 DEF IInv, StreamTypeOK, reader
<1> HIDE DEF w, old, at
<1>10. StreamShape'
  <2>1. ASSUME NEW j \in 1..(old + k)
        PROVE  G(j) \in 1..Len(lengths) /\ Q(j) \in 1..Size(G(j))
    <3>1. CASE j \in 1..old
      BY <1>2, <1>s, <1>s1, <3>1
    <3>2. CASE j \in (old + 1)..(old + k)
      <4>1. G(j) = w /\ Q(j) = at + (j - old)
        BY <1>3, <3>2
      <4> QED BY <1>1, <3>2, <4>1
    <3> QED BY <1>5, <3>1, <3>2
  <2>2. ASSUME NEW i \in 1..(old + k), NEW j \in 1..(old + k), i < j
        PROVE  G(i) < G(j) \/ (G(i) = G(j) /\ Q(j) = Q(i) + (j - i))
    <3>1. CASE j \in 1..old
      <4>1. i \in 1..old
        BY <1>1, <2>2, <3>1
      <4> QED BY <1>2, <1>s2, <2>2, <3>1, <4>1
    <3>2. CASE i \in (old + 1)..(old + k)
      <4>1. j \in (old + 1)..(old + k)
        BY <1>1, <2>2, <3>2
      <4>2. G(i) = w /\ Q(i) = at + (i - old) /\ G(j) = w /\ Q(j) = at + (j - old)
        BY <1>3, <3>2, <4>1
      <4> QED BY <1>1, <4>2
    <3>3. CASE i \in 1..old /\ j \in (old + 1)..(old + k)
      <4>1. G(i) = F(i) /\ Q(i) = P(i) /\ G(j) = w /\ Q(j) = at + (j - old)
        BY <1>2, <1>3, <3>3
      <4>2. F(i) \in 1..w /\ P(i) \in Int
        BY <1>s1, <3>3
      <4>3. CASE F(i) = w
        <5>1. old > 0 /\ F(old) = w /\ P(old) = at
          BY <1>7, <1>8, <3>3, <4>3
        <5>2. at = P(i) + (old - i)
          <6>1. CASE i = old
            BY <1>1, <5>1, <6>1
          <6>2. CASE i < old
            <7>1. old \in 1..old
              BY <1>1, <5>1
            <7>2. F(i) < F(old) \/ (F(i) = F(old) /\ P(old) = P(i) + (old - i))
              BY <1>s2, <3>3, <6>2, <7>1
            <7> QED BY <1>1, <4>2, <4>3, <5>1, <7>2
          <6> QED BY <1>1, <3>3, <6>1, <6>2
        <5> QED BY <1>1, <4>1, <4>2, <4>3, <5>2, SMTT(30)
      <4> QED BY <1>1, <4>1, <4>2, <4>3
    <3> QED BY <1>1, <1>5, <2>2, <3>1, <3>2, <3>3
  <2>3. ASSUME NEW j \in 1..(old + k)
        PROVE  Q(j) <= j /\ \A d \in 0..(Q(j) - 1) : G(j - d) = G(j) /\ Q(j - d) = Q(j) - d
    <3>1. CASE j \in 1..old
      <4>1. Q(j) = P(j) /\ G(j) = F(j) /\ P(j) \in Int
        BY <1>2, <1>s1, <3>1
      <4>2. P(j) <= j
        BY <1>s3, <3>1
      <4>3. ASSUME NEW d \in 0..(P(j) - 1)
            PROVE  G(j - d) = F(j) /\ Q(j - d) = P(j) - d
        <5>1. j - d \in 1..old
          BY <1>1, <3>1, <4>1, <4>2
        <5> QED BY <1>2, <1>s3, <3>1, <5>1
      <4> QED BY <4>1, <4>2, <4>3
    <3>2. CASE j \in (old + 1)..(old + k)
      <4>1. G(j) = w /\ Q(j) = at + (j - old) /\ at <= old
        BY <1>1, <1>3, <1>8, <3>2
      <4>3. ASSUME NEW d \in 0..(at + (j - old) - 1)
            PROVE  G(j - d) = w /\ Q(j - d) = at + (j - old) - d
        <5>1. CASE d < j - old
          <6>1. j - d \in (old + 1)..(old + k) /\ (j - d) - old = (j - old) - d
            BY <1>1, <3>2, <5>1
          <6>2. G(j - d) = w /\ Q(j - d) = at + ((j - d) - old)
            BY <1>3, <6>1
          <6> QED BY <1>1, <3>2, <6>1, <6>2
        <5>2. CASE d >= j - old
          <6> DEFINE e == d - (j - old)
          <6>1. e \in 0..(at - 1) /\ at > 0 /\ old - e \in 1..old /\ old \in 1..old /\ j - d = old - e
            BY <1>1, <3>2, <4>1, <5>2
          <6>2. at - e = at + (j - old) - d
            BY <1>1, <3>2
          <6> HIDE DEF e
          <6>3. F(old) = w /\ P(old) = at
            BY <1>8, <6>1
          <6>4. F(old - e) = w /\ P(old - e) = at - e
            BY <1>s3, <6>1, <6>3
          <6> QED BY <1>2, <6>1, <6>2, <6>4
        <5> QED BY <1>1, <3>2, <5>1, <5>2
      <4> QED BY <1>1, <3>2, <4>1, <4>3
    <3> QED BY <1>5, <3>1, <3>2
  <2>5. Len(stream') = old + k /\ Len(lengths') = Len(lengths)
    BY <1>1, <1>4
  <2>6. \A j \in 1..(old + k) :
          stream'[j][1] \in 1..Len(lengths') /\ stream'[j][2] \in 1..(HeaderSize + lengths'[stream'[j][1]])
    BY <1>4, <2>1 DEF G, Q, Size
  <2> QED BY <2>2, <2>3, <2>5, <2>6 DEF StreamShape, Size, Frame, Place, G, Q
<1>11. SendShape'
  <2>1. G(old + k) = w /\ Q(old + k) = Size(w) - left'
    BY <1>1, <1>3
  <2>2. Writing' = w /\ HeaderSize + lengths'[Writing'] = Size(w)
    BY <1>4 DEF Writing, w, Size
  <2>3. Frame(Len(stream))' = w /\ Place(Len(stream))' = Size(w) - left'
    BY <1>1, <2>1 DEF Frame, Place, G, Q
  <2>4. w > 0 /\ left' < Size(w) /\ left' \in Nat /\ Len(stream') > 0 /\ ~(left' = Size(w))
    BY <1>1
  <2> QED BY <1>1, <2>2, <2>3, <2>4 DEF SendShape, Size
<1>12. BufferShape' /\ DeliveredShape' /\ IntactShape'
  BY <1>0, <1>1, <1>2, <1>4, SenderKeepsReader DEF Counts, old
<1> QED BY <1>9, <1>10, <1>11, <1>12 DEF IInv

\* A send that fails, and a sender that goes away, only stop sending.
LEMMA SendingStopsStep ==
  ASSUME IInv, SendFails \/ SenderCloses
  PROVE  IInv'
<1>1. lengths' = lengths /\ stream' = stream /\ UNCHANGED <<who, stop, reader>> /\ left' = 0
      /\ eof' \in BOOLEAN
  BY DEF SendFails, SenderCloses
<1>2. Counts
  BY Numbers DEF IInv
<1>3. BufferShape' /\ DeliveredShape' /\ IntactShape'
  BY <1>1, <1>2, SenderKeepsReader DEF Counts
<1>4. StreamTypeOK'
  BY <1>1, <1>2 DEF Counts, IInv, StreamTypeOK, reader
<1>5. StreamShape'
  BY <1>1 DEF IInv, StreamShape, Size, Frame, Place
<1>6. SendShape'
  BY <1>1 DEF SendShape
<1> QED BY <1>3, <1>4, <1>5, <1>6 DEF IInv

-------------------------------------------------------------------------------
(* The reader.                                                             *)

\* The parts of a state that the reader does not touch.
LEMMA ReaderKeepsSender ==
  ASSUME IInv, UNCHANGED <<who, sender>>
  PROVE  StreamShape' /\ SendShape'
<1>1. lengths' = lengths /\ stream' = stream /\ left' = left
  BY DEF sender
<1>2. StreamShape'
  BY <1>1 DEF IInv, StreamShape, Size, Frame, Place
<1>3. SendShape'
  BY <1>1 DEF IInv, SendShape, Size, Frame, Place, Writing
<1> QED BY <1>2, <1>3

LEMMA MinPair ==
  ASSUME NEW a \in Int, NEW b \in Int, NEW k \in 1..Min({a, b})
  PROVE  k \in Nat /\ k >= 1 /\ k <= a /\ k <= b
<1>1. \E x \in {a, b} : \A y \in {a, b} : x <= y
  OBVIOUS
<1>2. Min({a, b}) \in {a, b} /\ \A y \in {a, b} : Min({a, b}) <= y
  BY <1>1 DEF Min
<1> QED BY <1>2

\* What one recv() of k units puts behind the units received so far.
LEMMA NextUnitsAre ==
  ASSUME IInv, NEW k \in Nat, k <= Available
  PROVE  /\ NextUnits(k) \in Seq(Unit) /\ Len(NextUnits(k)) = k
         /\ \A i \in 1..k : NextUnits(k)[i] = stream[pos + i]
         /\ pos + k \in 0..Len(stream)
<1> DEFINE next == NextUnits(k)
           a == pos + 1
           b == pos + k
<1>0. Counts
  BY Numbers DEF IInv
<1>1. stream \in Seq(Unit) /\ pos \in Nat /\ Len(stream) \in Nat /\ a \in Int /\ b \in Int
      /\ b \in 0..Len(stream)
  BY <1>0, LenProperties DEF Counts, IInv, StreamTypeOK, Available
<1>2. next = SubSeq(stream, a, b)
  BY DEF NextUnits
<1>3. \A i \in a..b : stream[i] \in Unit
  <2>1. \A i \in a..b : i \in 1..Len(stream)
    BY <1>1
  <2> QED BY <1>1, <2>1, ElementOfSeq
<1>4. b - a + 1 = k /\ (a <= b \/ k = 0)
  BY <1>1
<1>5. \A i \in 1..k : a + i - 1 = pos + i
  BY <1>1
<1> HIDE DEF next, a, b
<1>6. /\ next \in Seq(Unit)
      /\ Len(next) = IF a <= b THEN b - a + 1 ELSE 0
      /\ \A i \in 1..(b - a + 1) : next[i] = stream[a + i - 1]
  <2> DEFINE sub == SubSeq(stream, a, b)
  <2>1. sub \in Seq(Unit)
    BY <1>1, <1>3, SubSeqProperties
  <2>2. Len(sub) = IF a <= b THEN b - a + 1 ELSE 0
    BY <1>1, <1>3, SubSeqProperties
  <2>3. \A i \in 1..(b - a + 1) : sub[i] = stream[a + i - 1]
    BY <1>1, <1>3, SubSeqProperties
  <2> QED BY <1>2, <2>1, <2>2, <2>3, Zenon
<1>7. Len(next) = k
  BY <1>4, <1>6
<1>8. \A i \in 1..k : next[i] = stream[pos + i]
  <2>1. \A i \in 1..k : next[i] = stream[a + i - 1]
    BY <1>4, <1>6
  <2> QED BY <1>5, <2>1
<1> QED BY <1>1, <1>6, <1>7, <1>8 DEF next, b

LEMMA Received ==
  ASSUME IInv, NEW k \in Nat, k <= Available,
         NEW units \in Seq(Unit), NEW s \in Nat, s + Len(units) = pos,
         \A i \in 1..Len(units) : units[i] = stream[s + i]
  PROVE  /\ units \o NextUnits(k) \in Seq(Unit)
         /\ Len(units \o NextUnits(k)) = Len(units) + k
         /\ \A i \in 1..(Len(units) + k) : (units \o NextUnits(k))[i] = stream[s + i]
<1> DEFINE next == NextUnits(k)
           n == Len(units)
           all == units \o next
<1>1. /\ next \in Seq(Unit) /\ Len(next) = k
      /\ \A i \in 1..k : next[i] = stream[pos + i]
  BY NextUnitsAre
<1>2. n \in Nat /\ pos = s + n
  BY LenProperties
<1>3. \A i \in 1..n : units[i] = stream[s + i]
  OBVIOUS
<1> HIDE DEF next
<1>4. /\ all \in Seq(Unit) /\ Len(all) = n + Len(next)
      /\ \A i \in 1..(n + Len(next)) : all[i] = IF i <= n THEN units[i] ELSE next[i - n]
  BY <1>1, ConcatProperties, Zenon
<1> HIDE DEF all, n
<1>5. \A i \in 1..(n + k) : all[i] = IF i <= n THEN units[i] ELSE next[i - n]
  BY <1>1, <1>4
<1>6. ASSUME NEW i \in 1..(n + k) PROVE all[i] = stream[s + i]
  <2>1. CASE i <= n
    <3>1. i \in 1..n
      BY <1>2, <2>1
    <3> QED BY <1>3, <1>5, <2>1, <3>1
  <2>2. CASE ~(i <= n)
    <3>1. i - n \in 1..k /\ pos + (i - n) = s + i
      BY <1>2, <2>2
    <3>2. all[i] = next[i - n]
      BY <1>5, <2>2
    <3> QED BY <1>1, <3>1, <3>2
  <2> QED BY <2>1, <2>2
<1>7. Len(all) = n + k
  BY <1>1, <1>4
<1> QED BY <1>4, <1>6, <1>7 DEF all, n, next

\* Units that pass the verification are one frame, from its first unit to its last.
LEMMA FrameRead ==
  ASSUME IInv, NEW s \in Nat, NEW units \in Seq(Unit), NEW body \in Seq(Unit),
         VerifyFramePayload(units, body),
         s + Len(units) + Len(body) <= Len(stream),
         \A i \in 1..Len(units) : units[i] = stream[s + i],
         \A i \in 1..Len(body) : body[i] = stream[s + Len(units) + i]
  PROVE  /\ units[1][1] \in 1..Len(lengths)
         /\ Len(units) + Len(body) = Size(units[1][1])
         /\ \A i \in 1..Size(units[1][1]) : stream[s + i] = <<units[1][1], i>>
<1> DEFINE n == units[1][1]
           h == HeaderSize
<1>0. Counts
  BY Numbers DEF IInv
<1>1. /\ Len(units) = h /\ \A i \in 1..h : units[i] = <<n, i>>
      /\ body = [i \in 1..lengths[n] |-> <<n, h + i>>]
  BY DEF VerifyFramePayload, IsHeader
<1>2. h \in Nat /\ h >= 1 /\ Len(body) \in Nat /\ Len(stream) \in Nat
  BY <1>0, LenProperties DEF Counts
<1>3. n \in 1..Len(lengths)
  <2> HIDE DEF h, n
  <2>0. s + h + Len(body) <= Len(stream)
    BY <1>1, Zenon
  <2>1. s + 1 \in 1..Len(stream) /\ 1 \in 1..h
    BY <1>2, <2>0
  <2>2. units[1] = stream[s + 1]
    BY <1>1, <2>1
  <2>3. stream[s + 1][1] \in 1..Len(lengths)
    BY <2>1 DEF IInv, StreamShape, Frame
  <2> QED BY <2>2, <2>3 DEF n
<1>4. lengths[n] \in Nat /\ Size(n) = h + lengths[n]
  BY <1>3, Sizes DEF IInv, Size
<1> HIDE DEF n, h
<1>5. DOMAIN body = 1..lengths[n] /\ \A i \in 1..lengths[n] : body[i] = <<n, h + i>>
  BY <1>1
<1>6. Len(body) = lengths[n]
  <2>1. DOMAIN body = 1..Len(body)
    BY LenProperties
  <2> QED BY <1>2, <1>4, <1>5, <2>1
<1>7. ASSUME NEW i \in 1..Size(n) PROVE stream[s + i] = <<n, i>>
  <2>1. CASE i <= h
    <3>1. i \in 1..h
      BY <1>2, <1>4, <2>1
    <3> QED BY <1>1, <3>1
  <2>2. CASE ~(i <= h)
    <3> DEFINE m == i - h
    <3>1. m \in 1..lengths[n] /\ h + m = i /\ s + h + m = s + i
      BY <1>2, <1>4, <2>2
    <3> HIDE DEF m
    <3>2. body[m] = <<n, i>>
      BY <1>5, <3>1
    <3>3. body[m] = stream[s + h + m]
      BY <1>1, <1>6, <3>1
    <3> QED BY <3>1, <3>2, <3>3
  <2> QED BY <2>1, <2>2
<1>8. Len(units) + Len(body) = Size(n)
  BY <1>1, <1>4, <1>6
<1> QED BY <1>3, <1>7, <1>8 DEF n

\* The reader's variables when the buffers are empty again.
LEMMA EmptyBuffers ==
  ASSUME IInv, UNCHANGED <<who, stop, sender>>, pos' \in 0..Len(stream),
         phase' \in {"idle", "closed"}, header' = <<>>, payload' = <<>>, need' = 0,
         broken' \in BOOLEAN, delivered' \in Seq(1..MaxFrames)
  PROVE  StreamTypeOK' /\ StreamShape' /\ SendShape' /\ BufferShape' /\ Start' = pos'
<1>0. Counts
  BY Numbers DEF IInv
<1>1. StreamShape' /\ SendShape'
  BY ReaderKeepsSender
<1>2. Len(<<>>) = 0 /\ \A S : <<>> \in Seq(S)
  BY EmptySeq
<1>3. header' \in Seq(Unit) /\ payload' \in Seq(Unit) /\ Len(header') = 0 /\ Len(payload') = 0
  BY <1>2, Zenon
<1>4. pos' \in Nat
  BY <1>0 DEF Counts
<1>5. Start' = pos'
  <2>1. \A p \in Nat : p - 0 - 0 = p
    OBVIOUS
  <2>2. Start' = pos' - 0 - 0
    BY <1>3, Zenon DEF Start
  <2> QED BY <1>4, <2>1, <2>2, Zenon
<1>6. StreamTypeOK'
  <2>1. lengths' = lengths /\ left' = left /\ stream' = stream /\ eof' = eof /\ who' = who /\ stop' = stop
    BY DEF sender
  <2>2. need' \in 0..LinkMax /\ Len(header') <= HeaderSize /\ Len(payload') <= need'
    BY <1>0, <1>3 DEF Counts
  <2>3. phase' \in {"idle", "header", "payload", "closed"}
    OBVIOUS
  <2> QED BY <1>3, <2>1, <2>2, <2>3 DEF IInv, StreamTypeOK
<1>7. BufferShape'
  BY <1>3, <1>4, <1>5 DEF BufferShape
<1> QED BY <1>1, <1>5, <1>6, <1>7

\* read_frame returns frame n, whose units begin behind Start.
LEMMA ReturnStep ==
  ASSUME IInv, NEW n \in 1..Len(lengths),
         \A i \in 1..Size(n) : stream[Start + i] = <<n, i>>,
         pos' = Start + Size(n), pos' <= Len(stream), delivered' = Append(delivered, n),
         UNCHANGED <<who, stop, sender, broken>>,
         phase' = "idle", header' = <<>>, payload' = <<>>, need' = 0
  PROVE  IInv'
<1> DEFINE s == Start
           z == Size(n)
<1>0. Counts
  BY Numbers DEF IInv
<1>1. s \in Nat /\ z \in Nat /\ z >= 1 /\ s <= pos
  <2>1. z \in Nat /\ z >= HeaderSize
    BY Sizes DEF IInv
  <2>2. s \in Int /\ s >= 0
    BY <1>0 DEF Counts, Start, IInv, BufferShape
  <2>3. HeaderSize >= 1 /\ HeaderSize \in Nat /\ s = pos - Len(header) - Len(payload)
        /\ pos \in Nat /\ Len(header) \in Nat /\ Len(payload) \in Nat
    BY <1>0 DEF Counts, Start
  <2> HIDE DEF s, z
  <2> QED BY <2>1, <2>2, <2>3
<1>2. /\ delivered' \in Seq(1..MaxFrames) /\ Len(delivered') = Len(delivered) + 1
      /\ \A i \in 1..Len(delivered) : delivered'[i] = delivered[i]
      /\ delivered'[Len(delivered) + 1] = n /\ delivered' # <<>>
  <2>1. n \in 1..MaxFrames /\ delivered \in Seq(1..MaxFrames)
    BY <1>0 DEF Counts, IInv, StreamTypeOK
  <2> QED BY <2>1, AppendProperties
<1>3. pos' \in 0..Len(stream)
  <2>1. s + z <= Len(stream) /\ pos' = s + z
    OBVIOUS
  <2> QED BY <1>0, <1>1, <2>1, SMTT(30) DEF Counts
<1>4. StreamTypeOK' /\ StreamShape' /\ SendShape' /\ BufferShape' /\ Start' = s + z
  <2>1. broken' \in BOOLEAN /\ pos' = s + z
    BY DEF IInv, StreamTypeOK
  <2> QED BY <1>2, <1>3, <2>1, EmptyBuffers
<1>5. stream' = stream /\ lengths' = lengths /\ broken' = broken
  BY DEF sender
<1>6. \A i \in 1..z : stream[s + i] = <<n, i>>
  OBVIOUS
<1>7. EndsAt(Start, n)' /\ Start' > 0
  <2>1. stream[s + z] = <<n, z>> /\ s + z > 0
    BY <1>1, <1>6
  <2>2. Start' = s + z /\ Size(n)' = z
    BY <1>4, <1>5 DEF Size
  <2> HIDE DEF s, z
  <2>3. stream'[Start'][1] = n /\ stream'[Start'][2] = z
    BY <1>5, <2>1, <2>2
  <2> QED BY <2>1, <2>2, <2>3 DEF EndsAt, Frame, Place, Size
<1>8. delivered'[Len(delivered')] = n
  BY <1>2
<1> HIDE DEF s, z
<1>9. DeliveredShape'
  <2>1. \A i \in 1..Len(delivered') : delivered'[i] \in 1..Len(lengths')
    <3>1. ASSUME NEW i \in 1..(Len(delivered) + 1) PROVE delivered'[i] \in 1..Len(lengths)
      <4>1. Len(delivered) \in Nat /\ (i \in 1..Len(delivered) \/ i = Len(delivered) + 1)
        BY <1>0, SMTT(30) DEF Counts
      <4> QED BY <1>2, <4>1 DEF IInv, DeliveredShape
    <3> QED BY <1>2, <1>5, <3>1
  <2>2. Start' \in 1..Start'
    BY <1>1, <1>4, <1>7
  <2>3. \E j \in 1..Start' : EndsAt(j, delivered[Len(delivered)])'
    BY <1>7, <1>8, <2>2 DEF EndsAt, Frame, Place, Size
  <2> QED BY <2>1, <2>3 DEF DeliveredShape, EndsAt, Frame, Place, Size
<1>10. IntactShape'
  <2>1. Range(delivered') = Range(delivered) \cup {n}
    <3>1. delivered \in Seq(1..MaxFrames) /\ n \in 1..MaxFrames
      BY <1>0 DEF Counts, IInv, StreamTypeOK
    <3>2. Range(delivered) = {delivered[i] : i \in 1..Len(delivered)}
      BY <3>1, RangeEquality
    <3>3. Range(delivered') = {delivered'[i] : i \in 1..Len(delivered')}
      <4>1. delivered' \in Seq(1..MaxFrames)
        BY <1>2
      <4>2. DOMAIN delivered' = 1..Len(delivered')
        BY <4>1, LenProperties
      <4> QED BY <4>2, Zenon DEF Range
    <3>4. Len(delivered) \in Nat
      BY <1>0 DEF Counts
    <3> QED BY <1>2, <3>2, <3>3, <3>4
  <2>2. UnitsOf(Range(delivered))' = UnitsOf(Range(delivered)) \cup ({n} \X (1..z))
    <3>1. UnitsOf(Range(delivered))' = UNION {{m} \X (1..(HeaderSize + lengths[m])) : m \in Range(delivered) \cup {n}}
      BY <1>5, <2>1 DEF UnitsOf
    <3> QED BY <3>1 DEF UnitsOf, z, Size
  <2>3. {stream'[j] : j \in 1..Start'} = {stream[j] : j \in 1..s} \cup ({n} \X (1..z))
    <3>1. \A j \in 1..(s + z) : j \in 1..s \/ (j - s \in 1..z /\ j = s + (j - s))
      BY <1>1
    <3>2. \A j \in 1..s : j \in 1..(s + z)
      BY <1>1
    <3>3. \A i \in 1..z : s + i \in 1..(s + z)
      BY <1>1
    <3>4. \A u \in {n} \X (1..z) : \E i \in 1..z : u = <<n, i>>
      OBVIOUS
    <3>5. \A i \in 1..z : <<n, i>> \in {n} \X (1..z)
      OBVIOUS
    <3>6. ASSUME NEW j \in 1..(s + z)
          PROVE  stream[j] \in {stream[i] : i \in 1..s} \cup ({n} \X (1..z))
      <4>1. CASE j \in 1..s
        BY <4>1, Zenon
      <4>2. CASE j - s \in 1..z /\ j = s + (j - s)
        <5>1. stream[s + (j - s)] = <<n, j - s>>
          BY <1>6, <4>2
        <5> QED BY <3>5, <4>2, <5>1, Zenon
      <4> QED BY <3>1, <4>1, <4>2
    <3>7. \A u \in {n} \X (1..z) : \E j \in 1..(s + z) : u = stream[j]
      BY <1>6, <3>3, <3>4
    <3>8. {stream[j] : j \in 1..(s + z)} = {stream[j] : j \in 1..s} \cup ({n} \X (1..z))
      BY <3>2, <3>6, <3>7
    <3> QED BY <1>4, <1>5, <3>8
  <2>4. ~broken => {stream[j] : j \in 1..s} = UnitsOf(Range(delivered))
    BY DEF s, IInv, IntactShape
  <2>5. ~broken' => {stream'[j] : j \in 1..Start'} = UnitsOf(Range(delivered))'
    <3> DEFINE seen == {stream[j] : j \in 1..s}
               seenAfter == {stream'[j] : j \in 1..Start'}
    <3>1. seenAfter = seen \cup ({n} \X (1..z))
      BY <2>3
    <3>2. ~broken => seen = UnitsOf(Range(delivered))
      BY <2>4
    <3> HIDE DEF seen, seenAfter
    <3>3. ASSUME ~broken' PROVE seenAfter = UnitsOf(Range(delivered))'
      <4>1. ~broken
        BY <1>5, <3>3
      <4>2. seen = UnitsOf(Range(delivered))
        BY <3>2, <4>1
      <4> QED BY <2>2, <3>1, <4>2
    <3> QED BY <3>3 DEF seenAfter
  <2>6. EndsAt(Start, delivered[Len(delivered)])'
    BY <1>7, <1>8 DEF EndsAt, Frame, Place, Size
  <2> QED BY <1>2, <1>7, <2>5, <2>6 DEF IntactShape
<1> QED BY <1>4, <1>9, <1>10 DEF IInv

\* read_frame returns an error; only units that were part of a frame break the
\* correspondence of Start with the end of a frame.
LEMMA FailedStep ==
  ASSUME IInv, Reading, NEW consumed \in BOOLEAN, Failed(consumed),
         pos' \in pos..Len(stream), ~consumed => pos' = pos /\ header = <<>>
  PROVE  IInv'
<1> DEFINE s == Start
           last == delivered[Len(delivered)]
<1>0. Counts
  BY Numbers DEF IInv
<1>1. s \in Nat /\ s <= pos /\ pos \in Nat
  <2>1. s \in Int /\ s >= 0
    BY <1>0 DEF Counts, Start, IInv, BufferShape
  <2> QED BY <1>0, <2>1 DEF Counts, Start
<1>2. /\ UNCHANGED <<who, stop, sender, delivered>> /\ phase' \in {"idle", "closed"}
      /\ header' = <<>> /\ payload' = <<>> /\ need' = 0 /\ broken' = (broken \/ consumed)
  BY DEF Failed
<1>3. pos' \in 0..Len(stream) /\ pos' \in Nat /\ s <= pos'
  BY <1>0, <1>1 DEF Counts
<1>4. StreamTypeOK' /\ StreamShape' /\ SendShape' /\ BufferShape' /\ Start' = pos'
  <2>1. broken' \in BOOLEAN /\ delivered' \in Seq(1..MaxFrames)
    BY <1>2 DEF IInv, StreamTypeOK
  <2> QED BY <1>2, <1>3, <2>1, EmptyBuffers
<1>5. stream' = stream /\ lengths' = lengths /\ delivered' = delivered
  BY <1>2 DEF sender
<1>6. DeliveredShape'
  <2>1. \A j \in 1..s : j \in 1..pos'
    BY <1>1, <1>3
  <2>2. delivered # <<>> => \E j \in 1..pos' : EndsAt(j, last)
    BY <2>1 DEF IInv, DeliveredShape
  <2>3. delivered # <<>> => \E j \in 1..Start' : EndsAt(j, delivered[Len(delivered)])'
    BY <1>4, <1>5, <2>2 DEF EndsAt, Frame, Place, Size
  <2> QED BY <1>5, <2>3 DEF IInv, DeliveredShape, EndsAt, Frame, Place, Size
<1>7. IntactShape'
  <2>1. CASE consumed
    BY <1>2, <2>1 DEF IntactShape
  <2>2. CASE ~consumed
    <3>1. Len(header) = 0 /\ Len(payload) = 0
      <4>1. header = <<>> /\ Len(<<>>) = 0
        BY <2>2, EmptySeq
      <4>2. Len(header) = 0
        BY <4>1, Zenon
      <4>3. phase = "header"
        <5>1. phase = "payload" => Len(header) = HeaderSize
          BY Zenon DEF IInv, BufferShape
        <5>2. HeaderSize # 0
          BY StreamAssumption
        <5> QED BY <4>2, <5>1, <5>2, Zenon DEF Reading
      <4>4. payload = <<>>
        BY <4>3, Zenon DEF IInv, BufferShape
      <4> QED BY <4>1, <4>2, <4>4, Zenon
    <3>2. Start' = s
      <4>1. pos' = pos /\ s = pos - 0 - 0
        BY <2>2, <3>1, Zenon DEF Start
      <4>2. \A p \in Nat : p - 0 - 0 = p
        OBVIOUS
      <4> QED BY <1>1, <1>4, <4>1, <4>2, Zenon
    <3>3. broken' = broken
      BY <1>2, <2>2 DEF IInv, StreamTypeOK
    <3> HIDE DEF s
    <3>4. UnitsOf(Range(delivered))' = UnitsOf(Range(delivered))
      BY <1>5 DEF UnitsOf
    <3>5. {stream'[j] : j \in 1..Start'} = {stream[j] : j \in 1..s}
      BY <1>5, <3>2
    <3>6. EndsAt(Start, delivered[Len(delivered)])' = EndsAt(s, last)
      BY <1>5, <3>2 DEF EndsAt, Frame, Place, Size
    <3>7. ~broken =>
            /\ delivered = <<>> => s = 0
            /\ delivered # <<>> => s > 0 /\ EndsAt(s, last)
            /\ {stream[j] : j \in 1..s} = UnitsOf(Range(delivered))
      BY Zenon DEF s, IInv, IntactShape
    <3> QED BY <1>5, <3>2, <3>3, <3>4, <3>5, <3>6, <3>7, Zenon DEF IntactShape
  <2> QED BY <2>1, <2>2
<1> QED BY <1>4, <1>6, <1>7 DEF IInv

LEMMA BeginReadStep ==
  ASSUME IInv, BeginRead
  PROVE  IInv'
<1>0. Counts
  BY Numbers DEF IInv
<1>1. Len(<<>>) = 0 /\ \A S : <<>> \in Seq(S)
  BY EmptySeq
<1>2. header = <<>> /\ payload = <<>> /\ header' = <<>> /\ payload' = <<>> /\ need' = 0 /\ phase' = "header"
  BY Zenon DEF BeginRead, IInv, BufferShape
<1>3. UNCHANGED <<who, stop, sender, pos, delivered, broken, header, payload>>
  BY <1>2 DEF BeginRead
<1>4. StreamShape' /\ SendShape'
  BY <1>3, ReaderKeepsSender
<1>5. Len(header) = 0 /\ Len(payload) = 0
  BY <1>1, <1>2, Zenon
<1>6. stream' = stream /\ lengths' = lengths /\ left' = left /\ eof' = eof /\ Start' = Start
  BY <1>3 DEF sender, Start
<1>7. StreamTypeOK'
  <2>1. need' \in 0..LinkMax /\ Len(payload) <= need'
    BY <1>0, <1>2, <1>5 DEF Counts
  <2> QED BY <1>2, <1>3, <1>6, <2>1 DEF IInv, StreamTypeOK
<1>8. BufferShape'
  <2>1. Len(header) < HeaderSize
    BY <1>0, <1>5 DEF Counts
  <2> QED BY <1>2, <1>3, <1>6, <2>1 DEF IInv, BufferShape
<1>9. DeliveredShape' /\ IntactShape'
  BY <1>3, <1>6 DEF IInv, DeliveredShape, IntactShape, EndsAt, Frame, Place, Size, UnitsOf
<1> QED BY <1>4, <1>7, <1>8, <1>9 DEF IInv

\* The reader's owner, and the flag it polls, leave the stream alone.
LEMMA OutsideStep ==
  ASSUME IInv, ReaderLeaves \/ RequestStop \/ UNCHANGED streamVars
  PROVE  IInv'
<1>1. /\ UNCHANGED <<who, sender, header, payload, need, pos, delivered, broken>>
      /\ (phase = "idle" /\ phase' = "closed") \/ phase' = phase
      /\ stop' \in BOOLEAN
  BY DEF ReaderLeaves, RequestStop, streamVars, reader, IInv, StreamTypeOK
<1>2. StreamShape' /\ SendShape'
  BY <1>1, ReaderKeepsSender
<1>3. stream' = stream /\ lengths' = lengths /\ left' = left /\ eof' = eof /\ Start' = Start
  BY <1>1 DEF sender, Start
<1>4. StreamTypeOK'
  BY <1>1, <1>3 DEF IInv, StreamTypeOK
<1>5. BufferShape'
  BY <1>1, <1>3 DEF IInv, BufferShape
<1>6. DeliveredShape' /\ IntactShape'
  BY <1>1, <1>3 DEF IInv, DeliveredShape, IntactShape, EndsAt, Frame, Place, Size, UnitsOf
<1> QED BY <1>2, <1>4, <1>5, <1>6 DEF IInv

\* A read that ends, or that waits in vain, fails without consuming anything more.
LEMMA ReadFailsStep ==
  ASSUME IInv, ReadEnds \/ PollsRunOut
  PROVE  IInv'
<1>1. Reading /\ Failed(header # <<>>) /\ pos' = pos
  BY DEF ReadEnds, PollsRunOut
<1>2. pos' \in pos..Len(stream)
  BY <1>1, Numbers DEF IInv, Counts
<1>3. (header # <<>>) \in BOOLEAN /\ (~(header # <<>>) => pos' = pos /\ header = <<>>)
  BY <1>1, Zenon
<1> QED BY <1>1, <1>2, <1>3, FailedStep

\* Within a frame, Start and what lies before it stay where they are.
LEMMA SameStart ==
  ASSUME IInv, UNCHANGED <<who, stop, sender, delivered, broken>>, Start' = Start
  PROVE  DeliveredShape' /\ IntactShape'
<1>1. stream' = stream /\ lengths' = lengths /\ delivered' = delivered /\ broken' = broken
  BY DEF sender
<1> QED BY <1>1, SMTT(30) DEF IInv, DeliveredShape, IntactShape, EndsAt, Frame, Place, Size, UnitsOf

\* A recv() of either loop does one of three things: it keeps reading, fails, or
\* returns the frame whose units lie behind Start.
ReturnsFrame(n) ==
  /\ \A i \in 1..Size(n) : stream[Start + i] = <<n, i>>
  /\ Start + Size(n) <= Len(stream)
  /\ delivered' = Append(delivered, n) /\ phase' = "idle"
  /\ UNCHANGED <<who, stop, sender, broken>>

Outcome ==
  \/ phase' \in {"header", "payload"} /\ UNCHANGED <<who, stop, sender, delivered, broken>>
  \/ Failed(TRUE)
  \/ \E n \in 1..Len(lengths) : ReturnsFrame(n)

LEMMA ReceiveHeaderStep ==
  ASSUME IInv, NEW k, ReceiveHeader(k)
  PROVE  IInv' /\ Outcome
<1> DEFINE units == header \o NextUnits(k)
           s == Start
           h == Len(header)
<1>0. Counts
  BY Numbers DEF IInv
<1>1. phase = "header" /\ pos' = pos + k /\ k \in 1..Min({Available, HeaderSize - h})
  BY Zenon DEF ReceiveHeader
<1>2. k \in Nat /\ k >= 1 /\ k <= Available /\ k <= HeaderSize - h
  <2>1. Available \in Int /\ HeaderSize - h \in Int
    BY <1>0 DEF Counts, Available
  <2> QED BY <1>1, <2>1, MinPair
<1>3. payload = <<>> /\ Len(payload) = 0
  BY <1>1, EmptySeq DEF IInv, BufferShape
<1>4. s \in Nat /\ s + h = pos /\ h \in Nat /\ pos \in Nat
  <2>1. s >= 0 /\ s = pos - h - Len(payload)
    BY DEF Start, IInv, BufferShape
  <2> HIDE DEF s, h
  <2>2. h \in Nat /\ pos \in Nat /\ Len(payload) = 0
    BY <1>0, <1>3 DEF Counts, h
  <2> QED BY <2>1, <2>2
<1>5. /\ units \in Seq(Unit) /\ Len(units) = h + k
      /\ \A i \in 1..(h + k) : units[i] = stream[s + i]
      /\ pos + k \in 0..Len(stream)
  <2>1. header \in Seq(Unit) /\ \A i \in 1..Len(header) : header[i] = stream[s + i]
    BY DEF IInv, StreamTypeOK, BufferShape
  <2>2. pos + k \in 0..Len(stream)
    BY <1>2, NextUnitsAre
  <2> QED BY <1>2, <1>4, <2>1, <2>2, Received
<1>6. Reading /\ pos' \in pos..Len(stream) /\ pos' = s + Len(units) /\ h + k <= HeaderSize
  <2>1. h + k <= HeaderSize
    BY <1>0, <1>2, <1>4 DEF Counts
  <2>2. pos' \in pos..Len(stream)
    BY <1>0, <1>1, <1>2, <1>4, <1>5 DEF Counts
  <2>3. pos' = s + Len(units)
    <3> HIDE DEF units, s, h
    <3> QED BY <1>1, <1>2, <1>4, <1>5
  <2> QED BY <1>1, <2>1, <2>2, <2>3 DEF Reading
<1>7. ASSUME header' = units, UNCHANGED <<who, stop, sender, payload, delivered, broken>>,
             phase' \in {"header", "payload"}, need' \in 0..LinkMax,
             phase' = "header" => Len(units) < HeaderSize,
             phase' = "payload" => Len(units) = HeaderSize /\ need' > 0
      PROVE  IInv' /\ Outcome
  <2> HIDE DEF units
  <2>1. stream' = stream /\ lengths' = lengths /\ left' = left /\ eof' = eof
        /\ who' = who /\ stop' = stop /\ delivered' = delivered /\ broken' = broken /\ payload' = payload
    BY <1>7 DEF sender
  <2>2. Start' = s
    <3>1. Start' = pos' - Len(units) - Len(payload)
      BY <1>7, <2>1 DEF Start
    <3>2. Len(units) \in Nat /\ Len(payload) = 0 /\ pos' = s + Len(units) /\ s \in Nat
      BY <1>2, <1>3, <1>4, <1>5, <1>6
    <3> HIDE DEF s
    <3> QED BY <3>1, <3>2
  <2>3. StreamTypeOK'
    <3>1. Len(units) <= HeaderSize /\ pos' \in 0..Len(stream) /\ 0 <= need'
      BY <1>0, <1>1, <1>5, <1>6, <1>7 DEF Counts
    <3>2. Len(payload') <= need'
      BY <1>3, <2>1, <3>1
    <3> QED BY <1>5, <1>7, <2>1, <3>1, <3>2 DEF IInv, StreamTypeOK
  <2>4. BufferShape'
    <3>1. \A i \in 1..Len(units) : units[i] = stream[s + i]
      BY <1>5
    <3>2. \A i \in 1..Len(payload) : FALSE
      BY <1>3
    <3> HIDE DEF s
    <3>3. s >= 0 /\ (need' > 0 => Len(payload) < need')
      BY <1>3, <1>4, <1>7
    <3> QED BY <1>3, <1>7, <2>1, <2>2, <3>1, <3>2, <3>3 DEF BufferShape
  <2>5. DeliveredShape' /\ IntactShape'
    BY <1>7, <2>2, SameStart
  <2>6. Outcome
    BY <1>7 DEF Outcome
  <2> QED BY <1>7, <2>3, <2>4, <2>5, <2>6, ReaderKeepsSender DEF IInv
<1>8. ASSUME Failed(TRUE) PROVE IInv' /\ Outcome
  BY <1>6, <1>8, FailedStep DEF Outcome
<1>9. ASSUME VerifyFramePayload(units, <<>>), Return(units) PROVE IInv' /\ Outcome
  <2> DEFINE n == units[1][1]
  <2>1. <<>> \in Seq(Unit) /\ Len(<<>>) = 0 /\ \A i \in 1..Len(<<>>) : FALSE
    BY EmptySeq
  <2>2. s + Len(units) + Len(<<>>) <= Len(stream)
    <3> HIDE DEF units, s
    <3>1. s + Len(units) + 0 <= Len(stream)
      BY <1>0, <1>1, <1>2, <1>4, <1>5, <1>6 DEF Counts
    <3> QED BY <2>1, <3>1, Zenon
  <2>3. /\ n \in 1..Len(lengths) /\ Len(units) + Len(<<>>) = Size(n)
        /\ \A i \in 1..Size(n) : stream[s + i] = <<n, i>>
    <3>1. \A i \in 1..Len(units) : units[i] = stream[s + i]
      BY <1>5
    <3>2. \A i \in 1..Len(<<>>) : <<>>[i] = stream[s + Len(units) + i]
      BY <2>1, Zenon
    <3> HIDE DEF units, s
    <3> QED BY <1>4, <1>5, <1>9, <2>1, <2>2, <3>1, <3>2, FrameRead
  <2>4. pos' = s + Size(n)
    <3>1. Len(units) + 0 = Size(n)
      BY <2>1, <2>3, Zenon
    <3> HIDE DEF units, s, n
    <3> QED BY <1>2, <1>4, <1>5, <1>6, <3>1
  <2>5. pos' <= Len(stream)
    BY <1>0, <1>6 DEF Counts
  <2>6. /\ delivered' = Append(delivered, n) /\ UNCHANGED <<who, stop, sender, broken>>
        /\ phase' = "idle" /\ header' = <<>> /\ payload' = <<>> /\ need' = 0
    BY <1>9 DEF Return
  <2> HIDE DEF n
  <2>7. ReturnsFrame(n)
    BY <2>3, <2>4, <2>5, <2>6 DEF ReturnsFrame
  <2>8. IInv'
    BY <2>3, <2>4, <2>5, <2>6, ReturnStep
  <2> QED BY <2>3, <2>7, <2>8, Zenon DEF Outcome
<1>10. CASE Len(units) < HeaderSize /\ header' = units
            /\ UNCHANGED <<who, stop, sender, phase, payload, need, delivered, broken>>
  BY <1>1, <1>7, <1>10 DEF IInv, StreamTypeOK
<1>11. CASE /\ Len(units) = HeaderSize
            /\ \E length \in 1..LinkMax :
                 header' = units /\ phase' = "payload" /\ need' = length
            /\ UNCHANGED <<who, stop, sender, payload, delivered, broken>>
  <2>1. need' \in 0..LinkMax /\ need' > 0
    BY <1>0, <1>11 DEF Counts
  <2> HIDE DEF units
  <2> QED BY <1>7, <1>11, <2>1
<1>12. \/ Len(units) < HeaderSize /\ header' = units
            /\ UNCHANGED <<who, stop, sender, phase, payload, need, delivered, broken>>
       \/ Failed(TRUE)
       \/ /\ Len(units) = HeaderSize
          /\ \E length \in 1..LinkMax :
               header' = units /\ phase' = "payload" /\ need' = length
          /\ UNCHANGED <<who, stop, sender, payload, delivered, broken>>
       \/ VerifyFramePayload(units, <<>>) /\ Return(units)
  BY Zenon DEF ReceiveHeader
<1> QED BY <1>8, <1>9, <1>10, <1>11, <1>12

LEMMA ReceivePayloadStep ==
  ASSUME IInv, NEW k, ReceivePayload(k)
  PROVE  IInv' /\ Outcome
<1> DEFINE body == payload \o NextUnits(k)
           s == Start
           b == Start + Len(header)
           p == Len(payload)
<1>0. Counts
  BY Numbers DEF IInv
<1>1. phase = "payload" /\ pos' = pos + k /\ k \in 1..Min({Available, need - p})
  BY Zenon DEF ReceivePayload
<1>2. k \in Nat /\ k >= 1 /\ k <= Available /\ k <= need - p
  <2>1. Available \in Int /\ need - p \in Int
    BY <1>0 DEF Counts, Available
  <2> QED BY <1>1, <2>1, MinPair
<1>3. Len(header) = HeaderSize
  BY <1>1, Zenon DEF IInv, BufferShape
<1>4. s \in Nat /\ b \in Nat /\ b = s + Len(header) /\ b + p = pos /\ p \in Nat /\ pos \in Nat
  <2>1. s >= 0 /\ s = pos - Len(header) - p
    BY DEF Start, IInv, BufferShape
  <2> HIDE DEF p
  <2>2. p \in Nat /\ pos \in Nat /\ Len(header) \in Nat
    BY <1>0 DEF Counts, p
  <2> QED BY <2>1, <2>2
<1>5. /\ body \in Seq(Unit) /\ Len(body) = p + k
      /\ \A i \in 1..(p + k) : body[i] = stream[b + i]
      /\ pos + k \in 0..Len(stream)
  <2>1. payload \in Seq(Unit) /\ \A i \in 1..Len(payload) : payload[i] = stream[b + i]
    BY DEF IInv, StreamTypeOK, BufferShape
  <2>2. pos + k \in 0..Len(stream)
    BY <1>2, NextUnitsAre
  <2> HIDE DEF b
  <2>3. /\ body \in Seq(Unit) /\ Len(body) = Len(payload) + k
        /\ \A i \in 1..(Len(payload) + k) : body[i] = stream[b + i]
    <3>1. b \in Nat /\ b + Len(payload) = pos
      BY <1>4
    <3> HIDE DEF p
    <3> QED BY <1>2, <2>1, <3>1, Received, Zenon
  <2> QED BY <2>2, <2>3
<1>6. Reading /\ pos' \in pos..Len(stream) /\ pos' = b + Len(body)
  <2>2. pos' \in pos..Len(stream)
    BY <1>0, <1>1, <1>2, <1>4, <1>5, SMTT(30) DEF Counts
  <2>3. pos' = b + Len(body)
    <3>1. b \in Nat /\ p \in Nat /\ b + p = pos /\ pos' = pos + k /\ Len(body) = p + k
      BY <1>1, <1>4, <1>5
    <3> HIDE DEF body, b, p
    <3> QED BY <1>2, <3>1
  <2> QED BY <1>1, <2>2, <2>3 DEF Reading
<1>7. CASE Len(body) < need /\ payload' = body
           /\ UNCHANGED <<who, stop, sender, phase, header, need, delivered, broken>>
  <2> HIDE DEF body
  <2>1. stream' = stream /\ lengths' = lengths /\ left' = left /\ eof' = eof
        /\ who' = who /\ stop' = stop /\ delivered' = delivered /\ broken' = broken
        /\ header' = header /\ phase' = phase /\ need' = need
    BY <1>7 DEF sender
  <2>2. Start' = s
    <3>1. Start' = pos' - Len(header) - Len(body)
      BY <1>7, <2>1 DEF Start
    <3>2. Len(body) \in Nat /\ Len(header) \in Nat /\ pos' = s + Len(header) + Len(body)
      BY <1>0, <1>2, <1>4, <1>5, <1>6 DEF Counts
    <3> HIDE DEF s
    <3> QED BY <1>4, <3>1, <3>2
  <2>3. StreamTypeOK'
    <3>1. Len(body) <= need /\ pos' \in 0..Len(stream)
      BY <1>0, <1>1, <1>2, <1>4, <1>5, <1>7 DEF Counts
    <3> QED BY <1>5, <1>7, <2>1, <3>1 DEF IInv, StreamTypeOK
  <2>4. BufferShape'
    <3>1. \A i \in 1..Len(body) : body[i] = stream[s + Len(header) + i]
      BY <1>4, <1>5
    <3>2. s >= 0 /\ \A i \in 1..Len(header) : header[i] = stream[s + i]
      BY DEF IInv, BufferShape
    <3> HIDE DEF s
    <3> QED BY <1>1, <1>3, <1>7, <2>1, <2>2, <3>1, <3>2 DEF BufferShape
  <2>5. DeliveredShape' /\ IntactShape'
    BY <1>7, <2>2, SameStart
  <2>6. Outcome
    BY <1>1, <1>7 DEF Outcome
  <2> QED BY <1>7, <2>3, <2>4, <2>5, <2>6, ReaderKeepsSender DEF IInv
<1>8. CASE Failed(TRUE)
  BY <1>6, <1>8, FailedStep DEF Outcome
<1>9. CASE VerifyFramePayload(header, body) /\ Return(header)
  <2> DEFINE n == header[1][1]
  <2>1. header \in Seq(Unit) /\ \A i \in 1..Len(header) : header[i] = stream[s + i]
    BY DEF IInv, StreamTypeOK, BufferShape
  <2>2. s + Len(header) + Len(body) <= Len(stream)
    <3> HIDE DEF body, s, b
    <3> QED BY <1>0, <1>1, <1>4, <1>5, <1>6 DEF Counts
  <2>3. \A i \in 1..Len(body) : body[i] = stream[s + Len(header) + i]
    BY <1>5
  <2>4. /\ n \in 1..Len(lengths) /\ Len(header) + Len(body) = Size(n)
        /\ \A i \in 1..Size(n) : stream[s + i] = <<n, i>>
    <3> HIDE DEF body, s
    <3> QED BY <1>4, <1>5, <1>9, <2>1, <2>2, <2>3, FrameRead
  <2>5. pos' = s + Size(n)
    <3>1. /\ s \in Nat /\ Len(header) \in Nat /\ Len(body) \in Nat
          /\ b = s + Len(header) /\ pos' = b + Len(body) /\ Len(header) + Len(body) = Size(n)
      BY <1>0, <1>2, <1>4, <1>5, <1>6, <2>4 DEF Counts
    <3> HIDE DEF body, s, b, n
    <3> QED BY <3>1
  <2>6. pos' <= Len(stream)
    BY <1>0, <1>6 DEF Counts
  <2>7. /\ delivered' = Append(delivered, n) /\ UNCHANGED <<who, stop, sender, broken>>
        /\ phase' = "idle" /\ header' = <<>> /\ payload' = <<>> /\ need' = 0
    BY <1>9 DEF Return
  <2> HIDE DEF n
  <2>8. ReturnsFrame(n)
    BY <2>4, <2>5, <2>6, <2>7 DEF ReturnsFrame
  <2>9. IInv'
    BY <2>4, <2>5, <2>6, <2>7, ReturnStep
  <2> QED BY <2>4, <2>8, <2>9, Zenon DEF Outcome
<1>10. \/ Len(body) < need /\ payload' = body
            /\ UNCHANGED <<who, stop, sender, phase, header, need, delivered, broken>>
       \/ Failed(TRUE)
       \/ VerifyFramePayload(header, body) /\ Return(header)
  BY Zenon DEF ReceivePayload
<1> QED BY <1>7, <1>8, <1>9, <1>10

-------------------------------------------------------------------------------
(* The invariant, and what it says of a reader between two frames.         *)

LEMMA NextIInv == IInv /\ [StreamNext]_streamVars => IInv'
<1> SUFFICES ASSUME IInv, [StreamNext]_streamVars PROVE IInv'
  OBVIOUS
<1>1. ASSUME NEW size \in PayloadSizes, EncodeFrame(size) PROVE IInv'
  BY <1>1, EncodeFrameStep
<1>2. ASSUME NEW k \in 1..(HeaderSize + LinkMax), SendChunk(k) PROVE IInv'
  BY <1>2, SendChunkStep
<1>3. CASE SendFails \/ SenderCloses
  BY <1>3, SendingStopsStep
<1>4. CASE BeginRead
  BY <1>4, BeginReadStep
<1>5. ASSUME NEW k \in 1..HeaderSize, ReceiveHeader(k) PROVE IInv'
  BY <1>5, ReceiveHeaderStep
<1>6. ASSUME NEW k \in 1..LinkMax, ReceivePayload(k) PROVE IInv'
  BY <1>6, ReceivePayloadStep
<1>7. CASE ReadEnds \/ PollsRunOut
  BY <1>7, ReadFailsStep
<1>8. CASE ReaderLeaves \/ RequestStop \/ UNCHANGED streamVars
  BY <1>8, OutsideStep
<1> QED BY <1>1, <1>2, <1>3, <1>4, <1>5, <1>6, <1>7, <1>8 DEF StreamNext, ReaderStep, Receive

LEMMA StreamInvariant == StreamSpec => []IInv
BY InitIInv, NextIInv, PTL DEF StreamSpec

LEMMA InStepFollows == IInv => InStep
<1> SUFFICES ASSUME IInv, phase = "idle", ~broken
             PROVE  {stream[j] : j \in 1..pos} = UnitsOf(Range(delivered))
  BY DEF InStep, UnitsOf
<1>1. header = <<>> /\ payload = <<>>
  BY Zenon DEF IInv, BufferShape
<1>2. Len(header) = 0 /\ Len(payload) = 0
  BY <1>1, EmptySeq, Zenon
<1>3. Start = pos
  <2>1. \A p \in Nat : p - 0 - 0 = p
    OBVIOUS
  <2>2. pos \in Nat
    BY Numbers DEF IInv, Counts
  <2>3. Start = pos - 0 - 0
    BY <1>2, Zenon DEF Start
  <2> QED BY <2>1, <2>2, <2>3, Zenon
<1> QED BY <1>3, Zenon DEF IInv, IntactShape

\* The state of both ends is well typed: no buffer holds more than its header or
\* its announced payload, and no more is received than was written.
THEOREM StreamTypeCorrect == StreamSpec => []StreamTypeOK
BY StreamInvariant, PTL DEF IInv

\* A reader between two calls of read_frame whose reads all ended at a boundary
\* has consumed exactly the units of the frames it returned (InStep).
THEOREM FramesInStep == StreamSpec => []InStep
BY StreamInvariant, InStepFollows, PTL

-------------------------------------------------------------------------------
(* FrameStream implements FrameChannel.                                    *)

Last == IF delivered = <<>> THEN 0 ELSE delivered[Len(delivered)]

\* The frame that lies behind Start was written completely, is later than the last
\* one returned and, as long as no read failed inside a frame, the first such.
LEMMA NextFrame ==
  ASSUME IInv, NEW n \in 1..Len(lengths),
         \A i \in 1..Size(n) : stream[Start + i] = <<n, i>>,
         Start + Size(n) <= Len(stream)
  PROVE  /\ n \in Whole /\ n > Last
         /\ ~broken => \A m \in Whole : m <= Last \/ n <= m
<1> DEFINE s == Start
           z == Size(n)
           F(j) == stream[j][1]
           P(j) == stream[j][2]
           last == delivered[Len(delivered)]
<1>0. Counts
  BY Numbers DEF IInv
<1>1. s \in Nat /\ z \in Nat /\ z >= 1
  <2>1. z \in Nat /\ z >= HeaderSize
    BY Sizes DEF IInv
  <2>2. s \in Int /\ s >= 0
    BY <1>0 DEF Counts, Start, IInv, BufferShape
  <2> QED BY <1>0, <2>1, <2>2 DEF Counts
<1>2. \A i \in 1..z : stream[s + i] = <<n, i>>
  OBVIOUS
<1>3. s + z <= Len(stream) /\ Len(stream) \in Nat
  BY <1>0 DEF Counts
<1>4. \A j \in 1..Len(stream) : F(j) \in Int /\ P(j) \in Int
  <2>1. \A j \in 1..Len(stream) : F(j) \in 1..Len(lengths)
    BY DEF IInv, StreamShape, Frame
  <2>2. \A j \in 1..Len(stream) : P(j) \in 1..Size(F(j))
    BY DEF IInv, StreamShape, Frame, Place
  <2> QED BY <2>1, <2>2
<1>5. \A i, j \in 1..Len(stream) : i < j => F(i) < F(j) \/ (F(i) = F(j) /\ P(j) = P(i) + (j - i))
  BY Zenon DEF IInv, StreamShape, Frame, Place
<1>6. n \in Whole
  <2>1. s + z \in 1..Len(stream) /\ z \in 1..z
    BY <1>1, <1>3
  <2>2. stream[s + z] = <<n, HeaderSize + lengths[n]>>
    BY <1>2, <2>1 DEF Size
  <2> QED BY <2>1, <2>2 DEF Whole
<1> HIDE DEF s, z
<1>7. F(s + 1) = n /\ P(s + 1) = 1 /\ s + 1 \in 1..Len(stream)
  <2>0. 1 \in 1..z
    BY <1>1
  <2>1. stream[s + 1] = <<n, 1>>
    BY <1>2, <2>0
  <2> QED BY <1>1, <1>3, <2>1
<1>8. delivered # <<>> => last \in 1..Len(lengths) /\ Size(last) \in Nat /\ Size(last) >= 1
  <2> SUFFICES ASSUME delivered # <<>>
               PROVE  last \in 1..Len(lengths) /\ Size(last) \in Nat /\ Size(last) >= 1
    OBVIOUS
  <2>1. last \in 1..Len(lengths)
    BY <1>0, EmptySeq DEF Counts, IInv, StreamTypeOK, DeliveredShape
  <2>2. Size(last) \in Nat /\ Size(last) >= HeaderSize
    BY <2>1, Sizes DEF IInv
  <2> QED BY <1>0, <2>1, <2>2 DEF Counts
<1>9. n > Last
  <2>1. CASE delivered = <<>>
    BY <2>1 DEF Last
  <2>2. CASE delivered # <<>>
    <3>1. PICK j \in 1..s : F(j) = last /\ P(j) = Size(last)
      BY <2>2, Zenon DEF s, IInv, DeliveredShape, EndsAt, Frame, Place
    <3> HIDE DEF F, P, last
    <3>2. j \in 1..Len(stream) /\ j < s + 1
      BY <1>1, <1>3
    <3>3. F(j) < n \/ (F(j) = n /\ 1 = P(j) + ((s + 1) - j))
      BY <1>5, <1>7, <3>2
    <3>4. last < n
      BY <1>1, <1>8, <2>2, <3>1, <3>2, <3>3
    <3> QED BY <2>2, <3>4 DEF Last, last
  <2> QED BY <2>1, <2>2
<1>10. ASSUME ~broken, NEW m \in Whole PROVE m <= Last \/ n <= m
  <2>1. PICK j \in 1..Len(stream) : F(j) = m
    BY DEF Whole
  <2>2. m \in Nat /\ n \in Nat
    BY DEF Whole
  <2> HIDE DEF F, P
  <2>3. CASE j > s
    <3>1. j = s + 1 \/ s + 1 < j
      BY <1>1, <2>3
    <3>2. n <= m
      BY <1>5, <1>7, <2>1, <2>2, <3>1
    <3> QED BY <3>2
  <2>4. CASE ~(j > s)
    <3>1. s \in 1..Len(stream) /\ s # 0 /\ (j = s \/ j < s)
      BY <1>1, <1>3, <2>4
    <3>2. delivered # <<>> /\ F(s) = last
      BY <1>10, <3>1, Zenon DEF s, F, IInv, IntactShape, EndsAt, Frame
    <3>3. m <= last
      <4>1. F(j) = F(s) \/ F(j) < F(s)
        BY <1>5, <3>1
      <4>2. last \in Nat
        BY <1>8, <3>2
      <4> QED BY <2>1, <2>2, <3>2, <4>1, <4>2
    <3> QED BY <3>2, <3>3 DEF Last
  <2> QED BY <2>3, <2>4
<1> QED BY <1>6, <1>9, <1>10

Link(p, b) == IF p = "closed" THEN "closed" ELSE IF b THEN "broken" ELSE "intact"

\* A step of either end, seen as a step of the channel.
AbstractStep == [FramesArrive!ChannelNext]_<<Len(lengths), Whole, delivered, Link(phase, broken), who # "server">>

LEMMA WriteStep ==
  ASSUME Len(lengths') \in {Len(lengths), Len(lengths) + 1},
         Whole' \in {Whole, Whole \cup {Len(lengths')}},
         UNCHANGED <<delivered, phase, broken, who>>
  PROVE  AbstractStep
BY DEF AbstractStep, FramesArrive!ChannelNext, FramesArrive!Write, Link

LEMMA SameWhole ==
  ASSUME stream' = stream, lengths' = lengths
  PROVE  Whole' = Whole
BY DEF Whole

LEMMA EncodeFrameWrites ==
  ASSUME IInv, NEW size \in PayloadSizes, EncodeFrame(size)
  PROVE  AbstractStep
<1> DEFINE n == Len(lengths)
<1>0. Counts
  BY Numbers DEF IInv
<1>1. /\ Len(lengths') = n + 1 /\ n \in Nat
      /\ \A m \in 1..n : lengths'[m] = lengths[m]
  BY <1>0, AppendProperties DEF Counts, EncodeFrame, IInv, StreamTypeOK
<1>2. stream' = stream /\ UNCHANGED <<delivered, phase, broken, who>>
  BY DEF EncodeFrame, reader
<1>3. \A j \in 1..Len(stream) : stream[j][1] \in 1..n
  BY DEF IInv, StreamShape, Frame
<1> HIDE DEF n
<1>4. ASSUME NEW m \in 1..(n + 1), NEW j \in 1..Len(stream), stream[j] = <<m, HeaderSize + lengths'[m]>>
      PROVE  m \in 1..n
  BY <1>3, <1>4
<1>5. \A m \in 1..n : m \in 1..(n + 1)
  BY <1>1
<1>6. Whole' = {m \in 1..(n + 1) : \E j \in 1..Len(stream) : stream[j] = <<m, HeaderSize + lengths'[m]>>}
  BY <1>1, <1>2 DEF Whole
<1>7. Whole = {m \in 1..n : \E j \in 1..Len(stream) : stream[j] = <<m, HeaderSize + lengths[m]>>}
  BY DEF Whole, n
<1>8. Whole' = Whole
  BY <1>1, <1>4, <1>5, <1>6, <1>7
<1> QED BY <1>1, <1>2, <1>8, WriteStep DEF n

LEMMA SendChunkWrites ==
  ASSUME IInv, NEW k, SendChunk(k)
  PROVE  AbstractStep
<1> DEFINE w == Len(lengths)
<1>0. Counts
  BY Numbers DEF IInv
<1>1. lengths' = lengths /\ UNCHANGED <<delivered, phase, broken, who>>
  BY DEF SendChunk, reader
<1>2. /\ Len(stream') = Len(stream) + k /\ k \in Nat /\ Len(stream) \in Nat
      /\ \A j \in 1..Len(stream) : stream'[j] = stream[j]
  BY <1>0, ChunkSent DEF Counts
<1>3. \A j \in (Len(stream) + 1)..(Len(stream) + k) : stream'[j][1] = w
  BY ChunkSent DEF Writing
<1>4. \A j \in 1..Len(stream') : j \in 1..Len(stream) \/ j \in (Len(stream) + 1)..(Len(stream) + k)
  BY <1>2
<1>5. \A j \in 1..Len(stream) : j \in 1..Len(stream')
  BY <1>2
<1>6. Whole' = {m \in 1..w : \E j \in 1..Len(stream') : stream'[j] = <<m, HeaderSize + lengths[m]>>}
  BY <1>1 DEF Whole
<1>7. Whole \subseteq Whole'
  BY <1>2, <1>5, <1>6 DEF Whole
<1>8. ASSUME NEW m \in Whole', m # w PROVE m \in Whole
  <2>1. PICK j \in 1..Len(stream') : stream'[j] = <<m, HeaderSize + lengths[m]>>
    BY <1>6
  <2>2. stream'[j][1] = m
    BY <2>1
  <2>3. j \in 1..Len(stream)
    BY <1>3, <1>4, <1>8, <2>2
  <2> QED BY <1>2, <1>6, <2>1, <2>3 DEF Whole
<1>9. Whole' \in {Whole, Whole \cup {w}}
  BY <1>7, <1>8
<1> QED BY <1>1, <1>9, WriteStep

\* What neither adds units nor changes what the reader has got.
LEMMA Stutters ==
  ASSUME UNCHANGED <<lengths, stream, delivered, broken, who>>,
         phase' = "closed" <=> phase = "closed"
  PROVE  AbstractStep
BY SameWhole DEF AbstractStep, Link

LEMMA FailedBreaks ==
  ASSUME IInv, Reading, NEW consumed \in BOOLEAN, Failed(consumed)
  PROVE  AbstractStep
<1>1. /\ UNCHANGED <<who, lengths, stream, delivered>> /\ broken' = (broken \/ consumed)
      /\ phase' = IF who = "server" THEN "closed" ELSE "idle"
  BY DEF Failed, sender
<1>2. phase # "closed" /\ Whole' = Whole /\ broken \in BOOLEAN
  BY <1>1, SameWhole DEF Reading, IInv, StreamTypeOK
<1>3. CASE who = "server"
  BY <1>1, <1>2, <1>3 DEF AbstractStep, FramesArrive!ChannelNext, FramesArrive!Break, Link
<1>4. CASE who # "server" /\ consumed
  BY <1>1, <1>2, <1>4 DEF AbstractStep, FramesArrive!ChannelNext, FramesArrive!Break, Link
<1>5. CASE who # "server" /\ ~consumed
  BY <1>1, <1>2, <1>5, Stutters
<1> QED BY <1>3, <1>4, <1>5

LEMMA ReturnDelivers ==
  ASSUME IInv, phase # "closed", NEW n \in 1..Len(lengths), ReturnsFrame(n)
  PROVE  AbstractStep
<1>1. UNCHANGED <<who, lengths, stream, broken>> /\ phase' = "idle" /\ delivered' = Append(delivered, n)
  BY DEF ReturnsFrame, sender
<1>2. n \in Whole /\ n > Last /\ (~broken => \A m \in Whole : m <= Last \/ n <= m)
  BY NextFrame DEF ReturnsFrame
<1>3. Whole' = Whole /\ Link(phase', broken') = Link(phase, broken)
  BY <1>1, SameWhole DEF Link
<1>4. Link(phase, broken) = "intact" => ~broken
  BY DEF Link
<1>5. Link(phase, broken) # "closed"
  BY DEF Link
<1>6. FramesArrive!Deliver(n)
  BY <1>1, <1>2, <1>3, <1>4, <1>5 DEF FramesArrive!Deliver, FramesArrive!LastReceived, Last, Link
<1> QED BY <1>2, <1>6 DEF AbstractStep, FramesArrive!ChannelNext

LEMMA StepImplements == IInv /\ [StreamNext]_streamVars => AbstractStep
<1> SUFFICES ASSUME IInv, [StreamNext]_streamVars PROVE AbstractStep
  OBVIOUS
<1>1. ASSUME NEW size \in PayloadSizes, EncodeFrame(size) PROVE AbstractStep
  BY <1>1, EncodeFrameWrites
<1>2. ASSUME NEW k \in 1..(HeaderSize + LinkMax), SendChunk(k) PROVE AbstractStep
  BY <1>2, SendChunkWrites
<1>3. CASE SendFails \/ SenderCloses \/ BeginRead \/ RequestStop \/ UNCHANGED streamVars
  <2>1. UNCHANGED <<lengths, stream, delivered, broken, who>> /\ (phase' = "closed" <=> phase = "closed")
    BY <1>3 DEF SendFails, SenderCloses, BeginRead, RequestStop, streamVars, sender, reader
  <2> QED BY <2>1, Stutters
<1>4. ASSUME Outcome, Reading PROVE AbstractStep
  <2>1. phase # "closed"
    BY <1>4 DEF Reading
  <2>2. CASE phase' \in {"header", "payload"} /\ UNCHANGED <<who, stop, sender, delivered, broken>>
    BY <2>1, <2>2, Stutters DEF sender
  <2>3. CASE Failed(TRUE)
    BY <1>4, <2>3, FailedBreaks
  <2>4. CASE \E n \in 1..Len(lengths) : ReturnsFrame(n)
    BY <2>1, <2>4, ReturnDelivers
  <2> QED BY <1>4, <2>2, <2>3, <2>4 DEF Outcome
<1>5. ASSUME NEW k \in 1..HeaderSize, ReceiveHeader(k) PROVE AbstractStep
  <2>1. Reading
    BY <1>5, Zenon DEF ReceiveHeader, Reading
  <2> QED BY <1>4, <1>5, <2>1, ReceiveHeaderStep
<1>6. ASSUME NEW k \in 1..LinkMax, ReceivePayload(k) PROVE AbstractStep
  <2>1. Reading
    BY <1>6, Zenon DEF ReceivePayload, Reading
  <2> QED BY <1>4, <1>6, <2>1, ReceivePayloadStep
<1>7. CASE ReadEnds \/ PollsRunOut
  <2>1. Reading /\ Failed(header # <<>>)
    BY <1>7 DEF ReadEnds, PollsRunOut
  <2> QED BY <2>1, FailedBreaks
<1>8. CASE ReaderLeaves
  <2>1. UNCHANGED <<lengths, stream, delivered, broken, who>> /\ phase' = "closed"
    BY <1>8 DEF ReaderLeaves, sender
  <2> QED BY <2>1, SameWhole DEF AbstractStep, FramesArrive!ChannelNext, FramesArrive!Close, Link
<1> QED BY <1>1, <1>2, <1>3, <1>5, <1>6, <1>7, <1>8 DEF StreamNext, ReaderStep, Receive

\* Whatever the chunks, the polls that run out and the writes that fail inside a
\* frame, read_frame and encode_frame give their callers the channel of FrameChannel:
\* whole frames, in order, none twice, and none missing until a read fails.
THEOREM StreamImplementsChannel == StreamSpec => ImplementsChannel
<1>1. StreamInit => FramesArrive!ChannelInit
  <2> SUFFICES ASSUME StreamInit PROVE FramesArrive!ChannelInit
    OBVIOUS
  <2>1. Len(lengths) = 0 /\ Whole = {}
    BY EmptySeq DEF StreamInit, Whole
  <2> QED BY <2>1 DEF StreamInit, FramesArrive!ChannelInit
<1>2. AbstractStep => [FramesArrive!ChannelNext]_(FramesArrive!channelVars)
  BY DEF AbstractStep, FramesArrive!channelVars, Link
<1> QED BY <1>1, <1>2, StepImplements, StreamInvariant, PTL
        DEF StreamSpec, ImplementsChannel, FramesArrive!ChannelSpec

===============================================================================
