------------------------------ MODULE LinkServer ------------------------------
(***************************************************************************)
(* The threads of EvidenceLinkServer (src/src/link/link.cpp): the accept   *)
(* loop of serve(), a worker per connection, callers of request_stop() and *)
(* shutdown().  What a worker does with a frame is module EvidenceLink;    *)
(* here it only reads, writes, leaves, or asks the server to stop.         *)
(***************************************************************************)
EXTENDS Naturals, FiniteSets

CONSTANTS Connections,       \* peers that may connect, once each
          MaxConnections     \* options.max_connections

ASSUME LinkServerAssumption == IsFiniteSet(Connections) /\ MaxConnections \in Nat \ {0}

VARIABLES stop, serving, stopped,   \* the atomic flags
          listening,                \* the listener socket is open
          loop,                     \* where the accept loop is
          inHand,                   \* connection accepted and not yet given to a worker
          phase,                    \* where each connection is
          active,                   \* active_workers
          workers,                  \* the registry, guarded by workers_mutex
          pruned,                   \* workers prune_workers took out of it and has yet to join
          shut,                     \* where shutdown() is
          pending                   \* workers taken out of the registry to be joined

vars == <<stop, serving, stopped, listening, loop, inHand, phase, active, workers, pruned, shut,
          pending>>

None == "none"
Served  == {"serving", "reading", "writing", "farewell"}    \* counted in active_workers
Running == Served \cup {"spawned", "leaving"}               \* a thread exists

TypeOK ==
  /\ stop \in BOOLEAN /\ serving \in BOOLEAN /\ stopped \in BOOLEAN /\ listening \in BOOLEAN
  /\ loop \in {"idle", "top", "pruning", "polling", "admitting", "refusing", "registering", "exited"}
  /\ inHand \in Connections \cup {None}
  /\ phase \in [Connections -> Running \cup {"away", "queued", "inhand", "finished", "closed"}]
  /\ active \in 0..Cardinality(Connections)
  /\ workers \subseteq Connections
  /\ pruned \subseteq Connections
  /\ shut \in {"idle", "waiting", "draining", "joining", "returned"}
  /\ pending \subseteq Connections

Init ==
  /\ stop = FALSE /\ serving = FALSE /\ stopped = FALSE /\ listening = TRUE
  /\ loop = "idle" /\ inHand = None
  /\ phase = [c \in Connections |-> "away"]
  /\ active = 0 /\ workers = {} /\ pruned = {}
  /\ shut = "idle" /\ pending = {}

-------------------------------------------------------------------------------
(* The accept loop.                                                        *)

\* A peer connects: the kernel queues it while the listener is open.
Connect(c) ==
  /\ listening /\ phase[c] = "away"
  /\ phase' = [phase EXCEPT ![c] = "queued"]
  /\ UNCHANGED <<stop, serving, stopped, listening, loop, inHand, active, workers, pruned, shut, pending>>

Serve ==
  /\ loop = "idle"
  /\ serving' = TRUE
  /\ loop' = "top"
  /\ UNCHANGED <<stop, stopped, listening, inHand, phase, active, workers, pruned, shut, pending>>

\* The end of serve(), reached from every break.
Leave ==
  /\ loop' = "exited"
  /\ serving' = FALSE
  /\ stopped' = TRUE

\* The loop condition; then prune_workers, under workers_mutex, moves the
\* finished workers out of the registry into a list of its own ...
LoopTop ==
  /\ loop = "top"
  /\ \/ /\ stop /\ Leave /\ UNCHANGED <<workers, pruned>>
     \/ /\ ~stop
        /\ loop' = "pruning"
        /\ pruned' = {c \in workers : phase[c] = "finished"}
        /\ workers' = workers \ pruned'
        /\ UNCHANGED <<serving, stopped>>
  /\ UNCHANGED <<stop, listening, inHand, phase, active, shut, pending>>

\* ... and joins them with the lock released.
JoinPruned(c) ==
  /\ loop = "pruning" /\ c \in pruned /\ phase[c] = "finished"
  /\ phase' = [phase EXCEPT ![c] = "closed"]
  /\ pruned' = pruned \ {c}
  /\ UNCHANGED <<stop, serving, stopped, listening, loop, inHand, active, workers, shut, pending>>

PruneDone ==
  /\ loop = "pruning" /\ pruned = {}
  /\ loop' = "polling"
  /\ UNCHANGED <<stop, serving, stopped, listening, inHand, phase, active, workers, pruned, shut, pending>>

\* Mutant of PollStopped: a select interrupted by the stop starts over for ever.
PollStoppedRetries ==
  /\ loop = "polling" /\ stop
  /\ UNCHANGED vars

\* select returns; stop is looked at again before accept.
PollStopped ==
  /\ loop = "polling" /\ stop
  /\ Leave
  /\ UNCHANGED <<stop, listening, inHand, phase, active, workers, pruned, shut, pending>>

PollIdle ==
  /\ loop = "polling" /\ ~stop
  /\ \A c \in Connections : phase[c] # "queued"
  /\ loop' = "top"
  /\ UNCHANGED <<stop, serving, stopped, listening, inHand, phase, active, workers, pruned, shut, pending>>

Accept(c) ==
  /\ loop = "polling" /\ ~stop /\ phase[c] = "queued"
  /\ phase' = [phase EXCEPT ![c] = "inhand"]
  /\ inHand' = c
  /\ loop' = "admitting"
  /\ UNCHANGED <<stop, serving, stopped, listening, active, workers, pruned, shut, pending>>

\* accept fails because the peer is gone again.
AcceptFails(c) ==
  /\ loop = "polling" /\ ~stop /\ phase[c] = "queued"
  /\ phase' = [phase EXCEPT ![c] = "closed"]
  /\ loop' = "top"
  /\ UNCHANGED <<stop, serving, stopped, listening, inHand, active, workers, pruned, shut, pending>>

\* active_workers is compared with the bound, before the worker that will
\* count itself exists.
Admit ==
  /\ loop = "admitting"
  /\ loop' = IF active >= MaxConnections THEN "refusing" ELSE "registering"
  /\ UNCHANGED <<stop, serving, stopped, listening, inHand, phase, active, workers, pruned, shut, pending>>

\* The refusal is written and the connection closed.
Refuse ==
  /\ loop = "refusing"
  /\ phase' = [phase EXCEPT ![inHand] = "closed"]
  /\ inHand' = None
  /\ loop' = "top"
  /\ UNCHANGED <<stop, serving, stopped, listening, active, workers, pruned, shut, pending>>

\* Mutant of Register: stop is not looked at under the registry lock.
RegisterUnchecked ==
  /\ loop = "registering"
  /\ inHand' = None
  /\ phase' = [phase EXCEPT ![inHand] = "spawned"]
  /\ workers' = workers \cup {inHand}
  /\ loop' = "top"
  /\ UNCHANGED <<stop, serving, stopped, listening, active, pruned, shut, pending>>

\* Under workers_mutex: a stop that came meanwhile retires the connection,
\* otherwise the worker is started and registered.
Register ==
  /\ loop = "registering"
  /\ inHand' = None
  /\ \/ /\ stop
        /\ phase' = [phase EXCEPT ![inHand] = "closed"]
        /\ Leave
        /\ UNCHANGED workers
     \/ /\ ~stop
        /\ phase' = [phase EXCEPT ![inHand] = "spawned"]
        /\ workers' = workers \cup {inHand}
        /\ loop' = "top"
        /\ UNCHANGED <<serving, stopped>>
  /\ UNCHANGED <<stop, listening, active, pruned, shut, pending>>

-------------------------------------------------------------------------------
(* Workers.                                                                *)

StartWorker(c) ==
  /\ phase[c] = "spawned"
  /\ phase' = [phase EXCEPT ![c] = "serving"]
  /\ active' = active + 1
  /\ UNCHANGED <<stop, serving, stopped, listening, loop, inHand, workers, pruned, shut, pending>>

\* The top of the frame loop: stop is looked at, then a frame is awaited.
AwaitFrame(c) ==
  /\ phase[c] = "serving" /\ ~stop
  /\ phase' = [phase EXCEPT ![c] = "reading"]
  /\ UNCHANGED <<stop, serving, stopped, listening, loop, inHand, active, workers, pruned, shut, pending>>

\* A frame arrived and was handled; its answer is being written.
BeginWrite(c) ==
  /\ phase[c] = "reading"
  /\ phase' = [phase EXCEPT ![c] = "writing"]
  /\ UNCHANGED <<stop, serving, stopped, listening, loop, inHand, active, workers, pruned, shut, pending>>

\* write_all returns because the peer took the bytes.
EndWrite(c) ==
  /\ phase[c] = "writing"
  /\ phase' = [phase EXCEPT ![c] = "serving"]
  /\ UNCHANGED <<stop, serving, stopped, listening, loop, inHand, active, workers, pruned, shut, pending>>

\* A GOODBYE that asks for shutdown is answered first (the handshake, which
\* would refuse one as a first frame, is not told apart here) ...
Goodbye(c) ==
  /\ phase[c] = "reading"
  /\ phase' = [phase EXCEPT ![c] = "farewell"]
  /\ UNCHANGED <<stop, serving, stopped, listening, loop, inHand, active, workers, pruned, shut, pending>>

\* serve_connection returns; WorkerScope gives the slot back.
LeaveConnection(c) ==
  /\ phase' = [phase EXCEPT ![c] = "leaving"]
  /\ active' = active - 1

\* ... and then stops the whole server.
GoodbyeShutdown(c) ==
  /\ phase[c] = "farewell"
  /\ stop' = TRUE
  /\ LeaveConnection(c)
  /\ UNCHANGED <<serving, stopped, listening, loop, inHand, workers, pruned, shut, pending>>

\* The connection ends: closed, idle, refused frame, failed send or a plain GOODBYE.
EndConnection(c) ==
  /\ phase[c] \in {"reading", "writing"}
  /\ LeaveConnection(c)
  /\ UNCHANGED <<stop, serving, stopped, listening, loop, inHand, workers, pruned, shut, pending>>

\* Mutant of SeeStop: a read does not look at the flag between two polls.
SeeStopBetweenFrames(c) ==
  /\ phase[c] = "serving" /\ stop
  /\ LeaveConnection(c)
  /\ UNCHANGED <<stop, serving, stopped, listening, loop, inHand, workers, pruned, shut, pending>>

\* The stop flag is seen at the top of the loop or between two polls of a read.
SeeStop(c) ==
  /\ phase[c] \in {"serving", "reading"} /\ stop
  /\ LeaveConnection(c)
  /\ UNCHANGED <<stop, serving, stopped, listening, loop, inHand, workers, pruned, shut, pending>>

\* The socket is closed and the done flag set.
FinishWorker(c) ==
  /\ phase[c] = "leaving"
  /\ phase' = [phase EXCEPT ![c] = "finished"]
  /\ UNCHANGED <<stop, serving, stopped, listening, loop, inHand, active, workers, pruned, shut, pending>>

-------------------------------------------------------------------------------
(* Stopping.                                                               *)

RequestStop ==
  /\ stop' = TRUE
  /\ UNCHANGED <<serving, stopped, listening, loop, inHand, phase, active, workers, pruned, shut, pending>>

\* shutdown() may be called again after it returned (the destructor does).
Shutdown ==
  /\ shut \in {"idle", "returned"}
  /\ stop' = TRUE
  /\ shut' = "waiting"
  /\ UNCHANGED <<serving, stopped, listening, loop, inHand, phase, active, workers, pruned, pending>>

\* The wait for the accept loop ends because the loop did, or because 2000
\* polls of the flag went by first.
StopWaiting ==
  /\ shut = "waiting"
  /\ shut' = "draining"
  /\ UNCHANGED <<stop, serving, stopped, listening, loop, inHand, phase, active, workers, pruned, pending>>

\* Mutant of Drain: the registry is copied, not emptied.
DrainCopies ==
  /\ shut = "draining"
  /\ pending' = workers
  /\ shut' = "joining"
  /\ UNCHANGED <<stop, serving, stopped, listening, loop, inHand, phase, active, workers, pruned>>

\* Under workers_mutex: pending.swap(workers).
Drain ==
  /\ shut = "draining"
  /\ pending' = workers
  /\ workers' = {}
  /\ shut' = "joining"
  /\ UNCHANGED <<stop, serving, stopped, listening, loop, inHand, phase, active, pruned>>

Join(c) ==
  /\ shut = "joining" /\ c \in pending /\ phase[c] = "finished"
  /\ phase' = [phase EXCEPT ![c] = "closed"]
  /\ pending' = pending \ {c}
  /\ UNCHANGED <<stop, serving, stopped, listening, loop, inHand, active, workers, pruned, shut>>

ReturnFromShutdown ==
  /\ shut = "joining" /\ pending = {}
  /\ listening' = FALSE
  /\ stopped' = TRUE
  /\ shut' = "returned"
  /\ UNCHANGED <<stop, serving, loop, inHand, phase, active, workers, pruned, pending>>

AcceptLoop == Serve \/ LoopTop \/ PruneDone \/ PollStopped \/ PollIdle \/ Admit \/ Register
                \/ \E c \in Connections : JoinPruned(c) \/ Accept(c) \/ AcceptFails(c)
ShutdownSteps == StopWaiting \/ Drain \/ ReturnFromShutdown \/ \E c \in Connections : Join(c)
WorkerSteps(c) == StartWorker(c) \/ AwaitFrame(c) \/ SeeStop(c) \/ FinishWorker(c)

Next ==
  \/ AcceptLoop \/ Refuse \/ ShutdownSteps \/ RequestStop \/ Shutdown
  \/ \E c \in Connections :
       \/ Connect(c) \/ WorkerSteps(c) \/ BeginWrite(c) \/ EndWrite(c)
       \/ Goodbye(c) \/ GoodbyeShutdown(c) \/ EndConnection(c)

\* The scheduler runs every thread that can take a step of its own.  A blocked
\* write is not one: write_all tries again for as long as the peer does not read.
ServerFairness ==
  /\ WF_vars(AcceptLoop) /\ WF_vars(ShutdownSteps)
  /\ \A c \in Connections : WF_vars(WorkerSteps(c))

Spec == Init /\ [][Next]_vars /\ ServerFairness

\* Peers read what they are sent, or reset.
PeersRead == WF_vars(Refuse) /\ \A c \in Connections : WF_vars(EndWrite(c) \/ GoodbyeShutdown(c))

SpecPeersRead == Spec /\ PeersRead

-------------------------------------------------------------------------------
(* Properties.                                                             *)

\* Once shutdown() has returned no worker serves a connection and none can
\* start, even if the wait for the accept loop ran out: the governor the workers
\* point to may be destroyed.  A thread that is not joined yet has set its done
\* flag and is on the list of a prune_workers the wait did not wait for.
QuietAfterShutdown ==
  shut = "returned" =>
    /\ workers = {}
    /\ \A c \in Connections :
         /\ phase[c] \notin Running
         /\ phase[c] = "finished" => loop = "pruning" /\ c \in pruned

\* Every worker thread that exists has exactly one owner, the registry, the list
\* prune_workers joins or the list shutdown() joins, so that no thread is leaked
\* or joined twice, whoever holds the lock next.
WorkersOwned ==
  /\ workers \cap pruned = {} /\ workers \cap pending = {} /\ pruned \cap pending = {}
  /\ \A c \in Connections :
       phase[c] \in Running \cup {"finished"} <=> c \in workers \cup pruned \cup pending

\* A call of shutdown() returns.
ShutdownReturns == (shut = "waiting") ~> (shut = "returned")

\* Once stop is set by anyone, the accept loop ends.
LoopStops == (stop /\ loop # "idle") ~> (loop = "exited")
===============================================================================
