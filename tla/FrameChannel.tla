----------------------------- MODULE FrameChannel -----------------------------
(***************************************************************************)
(* What one direction of a link connection promises its reader: frames     *)
(* arrive whole and in the order they were written.  As long as the        *)
(* channel is intact none is missing.  A failed read may break it; a reader *)
(* that reads on after that (resumes) may miss frames but still never gets *)
(* one twice, out of order, or put together from two.                      *)
(***************************************************************************)
EXTENDS Integers, Sequences

VARIABLES frames,    \* how many frames were begun
          whole,     \* the frames that were written completely
          received,  \* the frames handed to the reader's caller, in order
          state,     \* "intact", "broken" or "closed"
          resumes    \* whether the reader reads on after a failed read

channelVars == <<frames, whole, received, state, resumes>>

LastReceived == IF received = <<>> THEN 0 ELSE received[Len(received)]

ChannelInit ==
  /\ frames = 0 /\ whole = {} /\ received = <<>> /\ state = "intact"
  /\ resumes \in BOOLEAN

\* A frame is begun, and completed or given up.
Write ==
  /\ frames' \in {frames, frames + 1}
  /\ whole' \in {whole, whole \cup {frames'}}
  /\ UNCHANGED <<received, state, resumes>>

Deliver(n) ==
  /\ state # "closed"
  /\ n \in whole /\ n > LastReceived
  /\ state = "intact" => \A m \in whole : m <= LastReceived \/ n <= m
  /\ received' = Append(received, n)
  /\ UNCHANGED <<frames, whole, state, resumes>>

\* A read fails in the middle of the stream.
Break ==
  /\ state # "closed"
  /\ state' = IF resumes THEN "broken" ELSE "closed"
  /\ UNCHANGED <<frames, whole, received, resumes>>

Close ==
  /\ state' = "closed"
  /\ UNCHANGED <<frames, whole, received, resumes>>

ChannelNext == Write \/ (\E n \in whole : Deliver(n)) \/ Break \/ Close

ChannelSpec == ChannelInit /\ [][ChannelNext]_channelVars
===============================================================================
