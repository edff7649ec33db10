----------------------------- MODULE EvidenceLink -----------------------------
(***************************************************************************)
(* The evidence link (src/src/link/link.cpp): publishers connect, shake    *)
(* hands and submit snapshots; a worker per connection reads each frame,   *)
(* stages the snapshot in the governor, optionally evaluates and commits   *)
(* its window, and answers.  Module LinkServer models how the workers are  *)
(* started and joined; here every step of a worker that touches the        *)
(* governor is the corresponding action of module Governor.                *)
(*                                                                         *)
(* The governor takes its lock per operation, so other connections and     *)
(* other threads of the process run between any two steps of a worker.     *)
(* Each direction of a connection is the channel FrameStream is shown to   *)
(* implement (FrameChannel): frames arrive whole and in order, a worker    *)
(* whose read fails ends the connection, and a client whose read fails     *)
(* reads on and may have lost frames.  A send that fails leaves nothing or *)
(* part of a frame behind, and the publisher may go on.  Publishers are    *)
(* those of this library (EvidenceLinkClient), so a frame has a valid      *)
(* payload and the session the handshake gave out.  A connection is used   *)
(* once: a publisher that comes back uses another one, while the old one   *)
(* may still be served.                                                    *)
(* The module follows one incarnation of the server up to its crash; how   *)
(* the governor comes up again is the subject of module Governor.          *)
(***************************************************************************)
EXTENDS Governor, Sequences

CONSTANTS Connections,        \* connections that may be made
          Loads,              \* how much the publishers may have to submit
          EvaluateOnIngest,   \* options.evaluate_on_ingest
          WritesFail          \* whether a store commit may fail

ASSUME LinkAssumption ==
  /\ EvaluateOnIngest \in BOOLEAN /\ WritesFail \in BOOLEAN
  /\ \A load \in Loads : \A c \in Connections : load[c] \in Nat

VARIABLES client,   \* the publisher's end: EvidenceLinkClient::Impl and where its caller is
          worker,   \* the server's end: the locals of serve_connection
          up, down, \* the two directions of each connection
          taken     \* history: the snapshots staged

link == <<client, worker, up, down, taken>>
allVars == <<vars, link>>

NoSnapshot == [id |-> 0, gen |-> 0, win |-> 0, epoch |-> 0, pub |-> 0, seq |-> 0, sgen |-> 0,
               data |-> 0]
NoDecision == [boot |-> 0, epoch |-> 0, policy |-> 0, base |-> 0, win |-> 0, id |-> 0, gen |-> 0,
               sgen |-> 0, authority |-> FALSE]
Snapshots == Evidence \cup {NoSnapshot}
Codes == {"ok", "duplicate", "rejected", "stale_epoch", "sequence", "truncated"}

\* Frames to the server, one of them possibly cut short, and answers; an
\* acknowledgement names its snapshot.
Frame == [kind : {"hello", "evidence", "goodbye", "torn"}, epoch : Nat, seq : Nat, snap : Snapshots]
Answer == [kind : {"hello_ack", "evidence_ack", "error"}, code : Codes, snap : Snapshots]

Idle == [phase |-> "frames", expected |-> 1, snap |-> NoSnapshot, g |-> 0, f |-> 0,
         d |-> NoDecision, code |-> "ok"]

LinkTypeOK ==
  /\ client \in [Connections ->
       [phase : {"new", "hello", "ready", "waiting", "closed"}, epoch : Nat, pub : Publishers \cup {0},
        load : Nat, seq : Nat, lost : Nat, snap : Snapshots, late : BOOLEAN]]
  /\ \A c \in Connections : client[c].seq <= client[c].load
  /\ worker \in [Connections ->
       [phase : {"new", "hello", "frames", "request", "ingest", "evaluate", "commit", "ack", "closed"},
        expected : Nat \ {0}, snap : Snapshots, g : Nat, f : Nat, d : Decision \cup {NoDecision},
        code : Codes]]
  /\ \A c \in Connections :
       worker[c].phase \in {"request", "ingest", "evaluate", "commit", "ack"}
         => worker[c].snap \in Evidence
  /\ up \in [Connections -> Seq(Frame)]
  /\ down \in [Connections -> Seq(Answer)]
  /\ taken \subseteq Evidence

LinkInit ==
  /\ Init
  /\ \E load \in Loads :
       client = [c \in Connections |-> [phase |-> "new", epoch |-> 0, pub |-> 0, load |-> load[c],
                                        seq |-> 0, lost |-> 0, snap |-> NoSnapshot, late |-> FALSE]]
  /\ worker = [c \in Connections |-> [Idle EXCEPT !.phase = "new"]]
  /\ up = [c \in Connections |-> <<>>]
  /\ down = [c \in Connections |-> <<>>]
  /\ taken = {}

-------------------------------------------------------------------------------
(* The publisher: connect(), submit(), goodbye() and close().              *)

\* send to the server / to the publisher, on connection c.
SendUp(c, kind, f, n, s) ==
  up' = [up EXCEPT ![c] = Append(@, [kind |-> kind, epoch |-> f, seq |-> n, snap |-> s])]

SendDown(c, kind, code, s) ==
  down' = [down EXCEPT ![c] = Append(@, [kind |-> kind, code |-> code, snap |-> s])]

Connect(c, f, p) ==
  /\ mode = "open"
  /\ client[c].phase = "new" /\ client[c].load > 0
  /\ client' = [client EXCEPT ![c] = [@ EXCEPT !.phase = "hello", !.epoch = f, !.pub = p]]
  /\ worker' = [worker EXCEPT ![c].phase = "hello"]
  /\ SendUp(c, "hello", f, 0, NoSnapshot)
  /\ UNCHANGED <<vars, down, taken>>

ReceiveHelloAck(c) ==
  /\ client[c].phase = "hello"
  /\ down[c] # <<>>
  /\ client' = [client EXCEPT ![c].phase = IF Head(down[c]).code = "ok" THEN "ready" ELSE "closed"]
  /\ down' = [down EXCEPT ![c] = Tail(@)]
  /\ UNCHANGED <<vars, worker, up, taken>>

\* No answer in eight polls, or the connection is gone: the client is destroyed.
ConnectFails(c) ==
  /\ client[c].phase = "hello"
  /\ client' = [client EXCEPT ![c].phase = "closed"]
  /\ UNCHANGED <<vars, worker, up, down, taken>>

Submit(c, s) ==
  /\ client[c].phase = "ready"
  /\ client[c].seq < client[c].load
  /\ client' = [client EXCEPT ![c] = [@ EXCEPT !.phase = "waiting", !.seq = client[c].seq + 1,
                                               !.snap = s]]
  /\ SendUp(c, "evidence", s.epoch, client[c].seq + 1, s)
  /\ UNCHANGED <<vars, worker, down, taken>>

\* The send fails and submit() returns its error.  No byte was sent, or part of
\* the frame; the sequence number is spent, and the connection stays open.
\* (lost is a history field: the first number spent this way.)
SubmitFails(c) ==
  /\ client[c].phase = "ready"
  /\ client[c].seq < client[c].load
  /\ client' = [client EXCEPT ![c] = [@ EXCEPT
       !.seq = client[c].seq + 1, !.late = TRUE,
       !.lost = IF client[c].lost = 0 THEN client[c].seq + 1 ELSE client[c].lost]]
  /\ UNCHANGED up \/ SendUp(c, "torn", 0, 0, NoSnapshot)
  /\ UNCHANGED <<vars, worker, down, taken>>

\* submit() returns the next frame, whatever submission it answers.
ReceiveAnswer(c) ==
  /\ client[c].phase = "waiting"
  /\ down[c] # <<>>
  /\ client' = [client EXCEPT ![c] = [@ EXCEPT !.phase = "ready", !.snap = NoSnapshot]]
  /\ down' = [down EXCEPT ![c] = Tail(@)]
  /\ UNCHANGED <<vars, worker, up, taken>>

\* Mutant of NoAnswer: a submission given up on gives its sequence number back.
NoAnswerRewinds(c) ==
  /\ client[c].phase = "waiting"
  /\ client' = [client EXCEPT ![c] = [@ EXCEPT !.phase = "ready", !.snap = NoSnapshot, !.late = TRUE,
                                               !.seq = client[c].seq - 1]]
  /\ UNCHANGED <<vars, worker, up, down, taken>>

\* submit() returns without an answer: eight polls run out, before an answer
\* or inside one, or the connection is gone.  The client stays usable; answers
\* may still arrive, and what was read of one is lost (FrameChannel!Break).
NoAnswer(c) ==
  /\ client[c].phase = "waiting"
  /\ client' = [client EXCEPT ![c] = [@ EXCEPT !.phase = "ready", !.snap = NoSnapshot, !.late = TRUE]]
  /\ \E lost \in 0..Len(down[c]) : down' = [down EXCEPT ![c] = SubSeq(@, lost + 1, Len(@))]
  /\ UNCHANGED <<vars, worker, up, taken>>

\* goodbye() and close(), or close() alone.
Leave(c) ==
  /\ client[c].phase = "ready"
  /\ client' = [client EXCEPT ![c].phase = "closed"]
  /\ SendUp(c, "goodbye", client[c].epoch, 0, NoSnapshot) \/ UNCHANGED up
  /\ UNCHANGED <<vars, worker, down, taken>>

-------------------------------------------------------------------------------
(* The worker: serve_connection().                                         *)

Handshake(c) ==
  /\ worker[c].phase = "hello"
  /\ up[c] # <<>>
  /\ LET ok == Head(up[c]).epoch = epoch IN
       /\ worker' = [worker EXCEPT ![c].phase = IF ok THEN "frames" ELSE "closed"]
       /\ SendDown(c, "hello_ack", IF ok THEN "ok" ELSE "stale_epoch", NoSnapshot)
  /\ up' = [up EXCEPT ![c] = Tail(@)]
  /\ UNCHANGED <<vars, client, taken>>

\* No frame begins within the idle budget, or the peer is gone: the worker
\* leaves without a word.
DropConnection(c) ==
  /\ worker[c].phase \in {"hello", "frames"}
  /\ worker' = [worker EXCEPT ![c].phase = "closed"]
  /\ UNCHANGED <<vars, client, up, down, taken>>

\* The idle budget runs out inside the payload of a frame: that is answered,
\* once the handshake is over.
DropFrame(c) ==
  /\ worker[c].phase = "frames"
  /\ up[c] # <<>>
  /\ worker' = [worker EXCEPT ![c].phase = "closed"]
  /\ SendDown(c, "error", "truncated", NoSnapshot)
  /\ UNCHANGED <<vars, client, up, taken>>

\* The read of a frame that was cut short always fails: the bytes that follow do
\* not match its checksum, or the budget runs out (FrameStream, ReadReturns).
ReadTorn(c) ==
  /\ up[c] # <<>> /\ Head(up[c]).kind = "torn"
  /\ DropFrame(c)

\* The next frame is refused, with an error, and the connection closed: the
\* epoch is not the live one, or the sequence is not the one expected.
RefuseFrame(c) ==
  /\ worker[c].phase = "frames"
  /\ up[c] # <<>> /\ Head(up[c]).kind # "torn"
  /\ LET frame == Head(up[c])
         current == frame.epoch = epoch
         inOrder == frame.kind = "evidence" => frame.seq = worker[c].expected
     IN /\ ~(current /\ inOrder)
        /\ SendDown(c, "error", IF current THEN "sequence" ELSE "stale_epoch", NoSnapshot)
  /\ worker' = [worker EXCEPT ![c].phase = "closed"]
  /\ up' = [up EXCEPT ![c] = Tail(@)]
  /\ UNCHANGED <<vars, client, taken>>

Goodbye(c) ==
  /\ worker[c].phase = "frames"
  /\ up[c] # <<>> /\ Head(up[c]).kind = "goodbye" /\ Head(up[c]).epoch = epoch
  /\ worker' = [worker EXCEPT ![c].phase = "closed"]
  /\ up' = [up EXCEPT ![c] = Tail(@)]
  /\ UNCHANGED <<vars, client, down, taken>>

\* The frame is accepted: from here on its sequence number is spent.
TakeEvidence(c) ==
  /\ worker[c].phase = "frames"
  /\ up[c] # <<>>
  /\ LET frame == Head(up[c]) IN
       /\ frame.epoch = epoch
       /\ frame.kind = "evidence" /\ frame.seq = worker[c].expected
       /\ worker' = [worker EXCEPT ![c] = [@ EXCEPT !.phase = "request", !.snap = frame.snap,
                                                    !.expected = worker[c].expected + 1]]
  /\ up' = [up EXCEPT ![c] = Tail(@)]
  /\ UNCHANGED <<vars, client, down, taken>>

\* make_request_for: one read of the live authority, before the ingest.
MakeRequest(c) ==
  /\ worker[c].phase = "request"
  /\ worker' = [worker EXCEPT ![c] = [@ EXCEPT !.phase = "ingest", !.g = policy.gen, !.f = epoch]]
  /\ UNCHANGED <<vars, client, up, down, taken>>

Stage(c) ==
  /\ worker[c].phase = "ingest"
  /\ IngestEvidence(worker[c].snap)
  /\ worker' = [worker EXCEPT ![c] = [@ EXCEPT !.phase = IF EvaluateOnIngest THEN "evaluate" ELSE "ack",
                                               !.code = "ok"]]
  /\ taken' = taken \cup {worker[c].snap}
  /\ UNCHANGED <<client, up, down>>

\* Mutant of IsDuplicate: the digests are not compared.
IsDuplicateByName(e) == Admissible(e) /\ Known(e) # {}

\* An admissible snapshot whose identity is known with the same digest.
IsDuplicate(e) == Admissible(e) /\ \E k \in Known(e) : k.digest = e

\* The guards of ingest_evidence() that keep a snapshot from being staged.
Unstageable(e) ==
  \/ ~Admissible(e)
  \/ Known(e) # {}
  \/ e.seq < sequences[e.pub]
  \/ \E s \in staged : s.win = e.win /\ e.gen <= s.gen

\* Mutant of NotStaged: evidence that was refused is not answered.
NotStagedSilent(c) ==
  /\ worker[c].phase = "ingest"
  /\ Unstageable(worker[c].snap)
  /\ worker' = [worker EXCEPT ![c] = [@ EXCEPT
       !.phase = IF IsDuplicate(worker[c].snap) THEN "ack" ELSE "frames", !.code = "duplicate"]]
  /\ UNCHANGED <<vars, client, up, down, taken>>

\* ingest_evidence() stages nothing: the snapshot is a duplicate, or refused.
NotStaged(c) ==
  /\ worker[c].phase = "ingest"
  /\ Unstageable(worker[c].snap)
  /\ worker' = [worker EXCEPT ![c] = [@ EXCEPT
       !.phase = "ack", !.code = IF IsDuplicate(worker[c].snap) THEN "duplicate" ELSE "rejected"]]
  /\ UNCHANGED <<vars, client, up, down, taken>>

\* The request carries the capture time of the snapshot as its clock.
EvaluateStaged(c) ==
  LET w == worker[c] IN
  /\ w.phase = "evaluate"
  /\ Evaluate(w.g, w.f, w.snap, TRUE)
  /\ worker' = [worker EXCEPT ![c] = [@ EXCEPT !.phase = "commit",
                                                   !.d = DecisionFor(w.g, w.f, w.snap, TRUE)]]
  /\ UNCHANGED <<client, up, down, taken>>

\* The decisions that other workers are about to commit.
HeldElsewhere(c) == {worker[k].d : k \in {j \in Connections \ {c} : worker[j].phase = "commit"}}

\* Committed, failed or refused: the answer is the same, and the decision is
\* not tried again.
CommitStaged(c) ==
  LET d == worker[c].d IN
  /\ worker[c].phase = "commit"
  /\ \/ Commit(d)
     \/ WritesFail /\ CommitFail(d)
     \/ ~Committable(d) /\ UNCHANGED <<mode, boot, memory, policyRec, accountingRec, history>>
  /\ decisions' = decisions \ ({d} \ HeldElsewhere(c))
  /\ worker' = [worker EXCEPT ![c].phase = "ack"]
  /\ UNCHANGED <<client, up, down, taken>>

\* The answer is sent, or the write fails and the worker leaves.
SendAck(c) ==
  /\ worker[c].phase = "ack"
  /\ \/ /\ SendDown(c, "evidence_ack", worker[c].code, worker[c].snap)
        /\ worker' = [worker EXCEPT ![c] = [Idle EXCEPT !.expected = worker[c].expected]]
     \/ /\ worker' = [worker EXCEPT ![c].phase = "closed"]
        /\ UNCHANGED down
  /\ UNCHANGED <<vars, client, up, taken>>

WorkerStep(c) ==
  \/ Handshake(c) \/ ReadTorn(c) \/ RefuseFrame(c) \/ Goodbye(c) \/ TakeEvidence(c)
  \/ MakeRequest(c) \/ Stage(c) \/ NotStaged(c) \/ EvaluateStaged(c) \/ CommitStaged(c) \/ SendAck(c)

-------------------------------------------------------------------------------
(* The process of the governor.                                            *)

\* The governor is opened, and its epoch advanced from another thread.  (A policy
\* installed meanwhile is not followed here: to a worker it is what a new epoch
\* is, its decision is refused.)
Administer ==
  /\ \/ \E p \in Policies : OpenConfigured(p)
     \/ \E e \in Epochs : AdvanceEpoch(e)
  /\ UNCHANGED link

\* The process dies, in a commit or outside one, and every connection with it.
ServerCrash ==
  /\ \/ Crash
     \/ \E c \in Connections : worker[c].phase = "commit" /\ CommitLost(worker[c].d)
  /\ worker' = [c \in Connections |-> IF worker[c].phase = "new" THEN worker[c]
                                      ELSE [worker[c] EXCEPT !.phase = "closed"]]
  /\ up' = [c \in Connections |-> <<>>]
  /\ UNCHANGED <<client, down, taken>>

LinkNext ==
  \/ \E c \in Connections, f \in Epochs, p \in Publishers : Connect(c, f, p)
  \/ \E c \in Connections, s \in Evidence : Submit(c, s)
  \/ \E c \in Connections : \/ SubmitFails(c) \/ ReceiveHelloAck(c) \/ ConnectFails(c) \/ ReceiveAnswer(c)
                            \/ NoAnswer(c) \/ Leave(c)
                            \/ DropConnection(c) \/ DropFrame(c) \/ WorkerStep(c)
  \/ Administer
  \/ ServerCrash

\* A worker is a thread of a running process and the governor's lock is held
\* for one operation at a time: a worker that can take a step takes one.
\* Neither the publisher's patience nor the idle budget is relied upon.
LinkSpec == LinkInit /\ [][LinkNext]_allVars
LinkFairSpec == LinkSpec /\ \A c \in Connections : WF_allVars(WorkerStep(c))

-------------------------------------------------------------------------------
(* Properties.                                                             *)

\* The publisher's counter and the worker's stay in step: whatever was refused,
\* answered late or given up on, submit() is turned away for its sequence only
\* after a send of its own failed; and a failed send is never papered over, no
\* submission from that number on is taken on the connection.
SequenceInStep ==
  \A c \in Connections :
    /\ (\E i \in 1..Len(down[c]) : down[c][i].code = "sequence") => client[c].lost # 0
    /\ client[c].lost # 0 => worker[c].expected <= client[c].lost

\* A publisher that is told its snapshot is accepted (staged, or a duplicate of
\* one) can rely on it: that very snapshot, content included, was staged.  It
\* holds while no submission of the connection failed or went unanswered; after
\* that submit() hands out the late answer.
AnswerIsTrue ==
  \A c \in Connections :
    (client[c].phase = "waiting" /\ ~client[c].late /\ down[c] # <<>>
       /\ Head(down[c]).code \in {"ok", "duplicate"})
    => client[c].snap \in taken

\* Every submission is answered, or its connection closed, whatever the
\* governor decides about it and whatever other threads do meanwhile.
Answered ==
  \A c \in Connections :
    client[c].phase = "waiting" ~>
      (client[c].phase # "waiting" \/ down[c] # <<>> \/ worker[c].phase = "closed")
===============================================================================
