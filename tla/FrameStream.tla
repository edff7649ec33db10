----------------------------- MODULE FrameStream ------------------------------
(***************************************************************************)
(* One direction of a link connection at the level of bytes: a sender that *)
(* writes encoded frames (encode_frame, write_all) and a reader that takes *)
(* them from the stream (read_frame, read_exact, decode_frame_header,      *)
(* verify_frame_payload).  TCP hands over any chunk of what was written,   *)
(* a poll may run out anywhere, and either side may go away anywhere.      *)
(*                                                                         *)
(* A frame is a header of HeaderSize units and a payload of its own        *)
(* length; unit <<n, i>> is the i-th unit of the n-th frame.  Bytes that    *)
(* are not one frame's own header may still happen to pass the header      *)
(* checks, with any length; the checksum over header and payload is taken  *)
(* to tell every two contents apart.                                       *)
(*                                                                         *)
(* Three readers share this code: the worker of the server, which ends the *)
(* connection after any failed read; the library's client, whose submit()  *)
(* returns an error and leaves the socket open; and the raw session of the *)
(* tests, which has a header loop of its own.                              *)
(***************************************************************************)
EXTENDS Integers, Sequences, Functions, FiniteSetsExt

CONSTANTS HeaderSize,    \* kFrameHeaderSize, in units
          PayloadSizes,  \* lengths a sender encodes
          ServerMax,     \* options.max_payload of the server
          LinkMax,       \* kMaxFramePayloadBytes
          MaxFrames      \* bound: frames a sender begins

ASSUME StreamAssumption ==
  /\ HeaderSize \in Nat \ {0} /\ MaxFrames \in Nat
  /\ LinkMax \in Nat /\ ServerMax \in 0..LinkMax /\ PayloadSizes \subseteq 0..LinkMax

VARIABLES who,       \* which reader: "server", "client" or "raw"
          lengths,   \* payload length of each frame begun
          left,      \* units write_all still has to send
          stream,    \* the units written
          pos,       \* how many of them were received
          eof,       \* the sender's end is closed
          stop,      \* the stop flag the reader polls
          phase,     \* of the reader
          header,    \* header_bytes
          payload,   \* out.payload, as far as it is received
          need,      \* header.payload_length
          delivered, \* history: the frames read_frame returned
          broken     \* history: a read ended with a part of the stream consumed

sender == <<lengths, left, stream, eof>>
reader == <<phase, header, payload, need, pos, delivered, broken>>
streamVars == <<who, stop, sender, reader>>

MaxPayload == IF who = "server" THEN ServerMax ELSE LinkMax
Unit == (1..MaxFrames) \X (1..(HeaderSize + LinkMax))

StreamTypeOK ==
  /\ who \in {"server", "client", "raw"}
  /\ lengths \in Seq(PayloadSizes) /\ Len(lengths) <= MaxFrames
  /\ left \in 0..(HeaderSize + LinkMax)
  /\ stream \in Seq(Unit) /\ pos \in 0..Len(stream)
  /\ eof \in BOOLEAN /\ stop \in BOOLEAN /\ broken \in BOOLEAN
  /\ phase \in {"idle", "header", "payload", "closed"}
  /\ header \in Seq(Unit) /\ Len(header) <= HeaderSize
  /\ need \in 0..LinkMax
  /\ payload \in Seq(Unit) /\ Len(payload) <= need
  /\ delivered \in Seq(1..MaxFrames)

StreamInit ==
  /\ who \in {"server", "client", "raw"}
  /\ lengths = <<>> /\ left = 0 /\ stream = <<>> /\ eof = FALSE /\ stop = FALSE
  /\ phase = "idle" /\ header = <<>> /\ payload = <<>> /\ need = 0 /\ pos = 0
  /\ delivered = <<>> /\ broken = FALSE

-------------------------------------------------------------------------------
(* The sender.                                                             *)

Writing == Len(lengths)

\* encode_frame: the length field is the payload's, the checksum covers both.
EncodeFrame(size) ==
  /\ left = 0 /\ ~eof
  /\ Writing < MaxFrames
  /\ lengths' = Append(lengths, size)
  /\ left' = HeaderSize + size
  /\ UNCHANGED <<who, stop, stream, eof, reader>>

\* One send() of write_all.
SendChunk(k) ==
  LET total == HeaderSize + lengths[Writing] IN
  /\ k \in 1..left
  /\ stream' = stream \o [i \in 1..k |-> <<Writing, total - left + i>>]
  /\ left' = left - k
  /\ UNCHANGED <<who, stop, lengths, eof, reader>>

\* send() fails inside a frame: write_all returns.  The client's caller may
\* submit again on the same socket; the server's worker ends the connection.
SendFails ==
  /\ left > 0
  /\ left' = 0
  /\ eof' = (who # "server")
  /\ UNCHANGED <<who, stop, lengths, stream, reader>>

\* The sender's end is closed, or its process is gone, inside a frame or not.
SenderCloses ==
  /\ ~eof
  /\ eof' = TRUE /\ left' = 0
  /\ UNCHANGED <<who, stop, lengths, stream, reader>>

-------------------------------------------------------------------------------
(* The reader.                                                             *)

Available == Len(stream) - pos
Reading == phase \in {"header", "payload"}
NextUnits(k) == SubSeq(stream, pos + 1, pos + k)

BeginRead ==
  /\ phase = "idle"
  /\ phase' = "header" /\ header' = <<>> /\ payload' = <<>> /\ need' = 0
  /\ UNCHANGED <<who, stop, sender, pos, delivered, broken>>

\* Mutant of Failed: the worker reads on after a failed read.
FailedReadsOn(consumed) ==
  /\ phase' = "idle"
  /\ broken' = (broken \/ consumed)
  /\ header' = <<>> /\ payload' = <<>> /\ need' = 0
  /\ UNCHANGED <<who, stop, sender, delivered>>

\* read_frame returns an error.  What was received of the frame is dropped with
\* its buffer; consumed tells whether that was anything.
Failed(consumed) ==
  /\ phase' = IF who = "server" THEN "closed" ELSE "idle"
  /\ broken' = (broken \/ consumed)
  /\ header' = <<>> /\ payload' = <<>> /\ need' = 0
  /\ UNCHANGED <<who, stop, sender, delivered>>

\* recv() reports that the peer is gone (an orderly end after the last unit, a
\* reset also before it), or the reader is told to stop.  The raw session's
\* header loop does not look at the flag.
ReadEnds ==
  /\ Reading
  /\ \/ eof
     \/ stop /\ (who = "raw" => phase = "payload")
  /\ Failed(header # <<>>)
  /\ UNCHANGED pos

\* Mutant of PollsRunOut: the header loop polls on once it has a part.
PollsRunOutBetween ==
  /\ Reading /\ Available = 0 /\ ~eof
  /\ header = <<>> \/ phase = "payload"
  /\ Failed(header # <<>>)
  /\ UNCHANGED pos

\* Nothing arrives for the whole idle budget.  The raw session counts its polls
\* before the first byte of a header and in the payload only.
PollsRunOut ==
  /\ Reading /\ Available = 0 /\ ~eof
  /\ who = "raw" => (header = <<>> \/ phase = "payload")
  /\ Failed(header # <<>>)
  /\ UNCHANGED pos

\* Whether the units are the header of one frame, from its first unit on.
IsHeader(units) ==
  /\ Len(units) = HeaderSize
  /\ \A i \in 1..HeaderSize : units[i] = <<units[1][1], i>>

\* decode_frame_header: a frame's own header is accepted if its length is within
\* the bound; other bytes are refused, or happen to look like a header.
DecodeFrameHeader(units, length) ==
  IF IsHeader(units) THEN length = lengths[units[1][1]] /\ length <= MaxPayload
  ELSE length \in 0..MaxPayload

HeaderRefused(units) == IsHeader(units) => lengths[units[1][1]] > MaxPayload

\* Mutant of VerifyFramePayload: the checksum covers the header alone.
VerifyHeaderOnly(units, body) == IsHeader(units) /\ Len(body) = lengths[units[1][1]]

\* verify_frame_payload: header and payload are those of one encoded frame.
VerifyFramePayload(units, body) ==
  /\ IsHeader(units)
  /\ body = [i \in 1..lengths[units[1][1]] |-> <<units[1][1], HeaderSize + i>>]

\* read_frame returns the frame.
Return(units) ==
  /\ delivered' = Append(delivered, units[1][1])
  /\ phase' = "idle"
  /\ header' = <<>> /\ payload' = <<>> /\ need' = 0
  /\ UNCHANGED <<who, stop, sender, broken>>

\* One recv() of the header loop; the last one is followed by the decoding and,
\* for an empty payload, by the verification.
ReceiveHeader(k) ==
  LET units == header \o NextUnits(k) IN
  /\ phase = "header"
  /\ k \in 1..Min({Available, HeaderSize - Len(header)})
  /\ pos' = pos + k
  /\ \/ /\ Len(units) < HeaderSize
        /\ header' = units
        /\ UNCHANGED <<who, stop, sender, phase, payload, need, delivered, broken>>
     \/ /\ Len(units) = HeaderSize /\ HeaderRefused(units)
        /\ Failed(TRUE)
     \/ /\ Len(units) = HeaderSize
        /\ \E length \in 1..LinkMax :
             /\ DecodeFrameHeader(units, length)
             /\ header' = units /\ phase' = "payload" /\ need' = length
        /\ UNCHANGED <<who, stop, sender, payload, delivered, broken>>
     \/ /\ Len(units) = HeaderSize /\ DecodeFrameHeader(units, 0)
        /\ IF VerifyFramePayload(units, <<>>) THEN Return(units) ELSE Failed(TRUE)

\* One recv() of read_exact; the last one is followed by the verification.
ReceivePayload(k) ==
  LET body == payload \o NextUnits(k) IN
  /\ phase = "payload"
  /\ k \in 1..Min({Available, need - Len(payload)})
  /\ pos' = pos + k
  /\ \/ /\ Len(body) < need
        /\ payload' = body
        /\ UNCHANGED <<who, stop, sender, phase, header, need, delivered, broken>>
     \/ /\ Len(body) = need
        /\ IF VerifyFramePayload(header, body) THEN Return(header) ELSE Failed(TRUE)

\* The reader's owner ends the connection between two reads.
ReaderLeaves ==
  /\ phase = "idle"
  /\ phase' = "closed"
  /\ UNCHANGED <<who, stop, sender, header, payload, need, pos, delivered, broken>>

RequestStop ==
  /\ ~stop
  /\ stop' = TRUE
  /\ UNCHANGED <<who, sender, reader>>

Receive ==
  \/ \E k \in 1..HeaderSize : ReceiveHeader(k)
  \/ \E k \in 1..LinkMax : ReceivePayload(k)

ReaderStep == Receive \/ ReadEnds \/ PollsRunOut

StreamNext ==
  \/ \E size \in PayloadSizes : EncodeFrame(size)
  \/ \E k \in 1..(HeaderSize + LinkMax) : SendChunk(k)
  \/ SendFails \/ SenderCloses
  \/ BeginRead \/ ReaderStep \/ ReaderLeaves \/ RequestStop

\* The reader is a thread, and every recv() returns within its timeout.
StreamSpec == StreamInit /\ [][StreamNext]_streamVars /\ WF_streamVars(ReaderStep)

-------------------------------------------------------------------------------
(* Properties.                                                             *)

\* The frames that were written completely.
Whole == {n \in 1..Len(lengths) :
            \E j \in 1..Len(stream) : stream[j] = <<n, HeaderSize + lengths[n]>>}

\* Whatever the chunks, the polls that run out and the writes that fail inside a
\* frame, the reader gets whole frames in the order they were written; the
\* worker gets every one of them up to the point where it ends the connection,
\* the client and the raw session until a read fails inside a frame.
FramesArrive ==
  INSTANCE FrameChannel WITH
    frames <- Len(lengths), whole <- Whole, received <- delivered,
    state <- IF phase = "closed" THEN "closed" ELSE IF broken THEN "broken" ELSE "intact",
    resumes <- (who # "server")

ImplementsChannel == FramesArrive!ChannelSpec

\* A reader that is between two frames and whose reads have all ended at a
\* boundary has consumed exactly the units of the frames it returned: none is
\* lost or left over between two calls of read_frame.
InStep ==
  (phase = "idle" /\ ~broken) =>
    {stream[j] : j \in 1..pos} =
      UNION {{n} \X (1..(HeaderSize + lengths[n])) : n \in Range(delivered)}

\* A call of read_frame returns, also when the peer stalls inside a frame or
\* sends one byte per poll: no worker and no submit() is held for ever.  (The raw
\* session's header loop has no such bound.)
ReadReturns == (Reading /\ who # "raw") ~> ~Reading
===============================================================================
