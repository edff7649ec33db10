--------------------------- MODULE LinkServerProofs ---------------------------
(***************************************************************************)
(* Theorems about the threads of the link server, for any number of peers  *)
(* and every connection budget.                                            *)
(***************************************************************************)
EXTENDS LinkServer, FiniteSetTheorems, TLAPS

-------------------------------------------------------------------------------
(* The inductive invariant.                                                *)

Phases == Running \cup {"away", "queued", "inhand", "finished", "closed"}
Holding == {"admitting", "refusing", "registering"}    \* the loop has a connection in hand

\* TypeOK without the range of active, which needs the count below.
Types ==
  /\ stop \in BOOLEAN /\ serving \in BOOLEAN /\ stopped \in BOOLEAN /\ listening \in BOOLEAN
  /\ loop \in {"idle", "top", "pruning", "polling", "admitting", "refusing", "registering", "exited"}
  /\ inHand \in Connections \cup {None}
  /\ phase \in [Connections -> Phases]
  /\ workers \subseteq Connections
  /\ pruned \subseteq Connections
  /\ shut \in {"idle", "waiting", "draining", "joining", "returned"}
  /\ pending \subseteq Connections

\* The connection in hand is exactly the one no thread has yet.
HandOK ==
  /\ loop \in Holding => inHand \in Connections /\ phase[inHand] = "inhand"
  /\ \A c \in Connections : phase[c] = "inhand" => loop \in Holding /\ inHand = c

\* A shutdown has set stop, joins what it took, and once it has emptied the
\* registry nothing is registered any more.
ShutOK ==
  /\ shut # "idle" => stop
  /\ shut # "joining" => pending = {}
  /\ shut \in {"joining", "returned"} => workers = {}

\* What prune_workers has taken out is done, and is joined before the loop goes on.
PrunedOK ==
  /\ pruned # {} => loop = "pruning"
  /\ \A c \in pruned : phase[c] = "finished"

\* active_workers is the number of connections being served.
ServedNow == {c \in Connections : phase[c] \in Served}
Counted == active = Cardinality(ServedNow)

IInv == Types /\ HandOK /\ ShutOK /\ PrunedOK /\ WorkersOwned

-------------------------------------------------------------------------------

LEMMA InitIInv == Init => IInv
BY DEF Init, IInv, Types, HandOK, ShutOK, PrunedOK, WorkersOwned, Phases, Holding, Running, Served, None

\* Steps that only move a connection among the phases of a running thread.
LEMMA WorkerMoves ==
  ASSUME IInv, NEW c \in Connections,
         phase[c] \in Running, NEW p \in Running \cup {"finished"},
         phase' = [phase EXCEPT ![c] = p], stop' \in {stop, TRUE},
         UNCHANGED <<serving, stopped, listening, loop, inHand, workers, pruned, shut, pending>>
  PROVE  IInv'
<1>1. Types'
  <2>1. phase \in [Connections -> Phases] /\ p \in Phases /\ stop' \in BOOLEAN
    BY DEF IInv, Types, Phases
  <2>2. phase' \in [Connections -> Phases]
    BY <2>1
  <2> QED BY <2>1, <2>2 DEF IInv, Types
<1>2. HandOK'
  BY DEF IInv, Types, HandOK, Running, Served
<1>3. ShutOK'
  BY DEF IInv, Types, ShutOK
<1>4. PrunedOK'
  BY DEF IInv, Types, PrunedOK, Running, Served
<1>5. WorkersOwned'
  BY DEF IInv, Types, WorkersOwned
<1> QED BY <1>1, <1>2, <1>3, <1>4, <1>5 DEF IInv

LEMMA WorkerStep ==
  ASSUME IInv, NEW c \in Connections,
         \/ WorkerSteps(c) \/ BeginWrite(c) \/ EndWrite(c)
         \/ Goodbye(c) \/ GoodbyeShutdown(c) \/ EndConnection(c)
  PROVE  IInv'
<1>1. /\ phase[c] \in Running
      /\ \E p \in Running \cup {"finished"} : phase' = [phase EXCEPT ![c] = p]
  BY DEF WorkerSteps, StartWorker, AwaitFrame, SeeStop, FinishWorker, BeginWrite, EndWrite,
         Goodbye, GoodbyeShutdown, EndConnection, LeaveConnection, Running, Served
<1>2. /\ stop' \in {stop, TRUE}
      /\ UNCHANGED <<serving, stopped, listening, loop, inHand, workers, pruned, shut, pending>>
  BY DEF WorkerSteps, StartWorker, AwaitFrame, SeeStop, FinishWorker, BeginWrite, EndWrite,
         Goodbye, GoodbyeShutdown, EndConnection, LeaveConnection
<1> QED BY <1>1, <1>2, WorkerMoves

LEMMA AcceptLoopStep ==
  ASSUME IInv, AcceptLoop \/ Refuse
  PROVE  IInv'
<1> USE DEF IInv, Types, HandOK, ShutOK, PrunedOK, WorkersOwned, Phases, Holding, Running, Served
<1>1. CASE Serve
  BY <1>1 DEF Serve
<1>2. CASE LoopTop
  BY <1>2 DEF LoopTop, Leave
<1>3. CASE PollStopped
  BY <1>3 DEF PollStopped, Leave
<1>4. CASE PollIdle
  BY <1>4 DEF PollIdle
<1>5. CASE Admit
  BY <1>5 DEF Admit
<1>6. CASE Register
  BY <1>6 DEF Register, Leave
<1>7. CASE Refuse
  BY <1>7 DEF Refuse
<1>8. ASSUME NEW c \in Connections, Accept(c) PROVE IInv'
  BY <1>8 DEF Accept
<1>9. ASSUME NEW c \in Connections, AcceptFails(c) PROVE IInv'
  BY <1>9 DEF AcceptFails
<1>10. CASE PruneDone
  BY <1>10 DEF PruneDone
<1>11. ASSUME NEW c \in Connections, JoinPruned(c) PROVE IInv'
  BY <1>11 DEF JoinPruned
<1> QED BY <1>1, <1>2, <1>3, <1>4, <1>5, <1>6, <1>7, <1>8, <1>9, <1>10, <1>11 DEF AcceptLoop

LEMMA StoppingStep ==
  ASSUME IInv, ShutdownSteps \/ RequestStop \/ Shutdown
  PROVE  IInv'
<1> USE DEF IInv, Types, HandOK, ShutOK, PrunedOK, WorkersOwned, Phases, Holding, Running, Served
<1>1. CASE StopWaiting
  BY <1>1 DEF StopWaiting
<1>2. CASE Drain
  BY <1>2 DEF Drain
<1>3. ASSUME NEW c \in Connections, Join(c) PROVE IInv'
  BY <1>3 DEF Join
<1>4. CASE ReturnFromShutdown
  BY <1>4 DEF ReturnFromShutdown
<1>5. CASE RequestStop
  BY <1>5 DEF RequestStop
<1>6. CASE Shutdown
  BY <1>6 DEF Shutdown
<1> QED BY <1>1, <1>2, <1>3, <1>4, <1>5, <1>6 DEF ShutdownSteps

LEMMA ConnectStep ==
  ASSUME IInv, NEW c \in Connections, Connect(c)
  PROVE  IInv'
BY DEF Connect, IInv, Types, HandOK, ShutOK, PrunedOK, WorkersOwned, Phases, Holding, Running, Served

LEMMA InductiveIInv == IInv /\ [Next]_vars => IInv'
<1> SUFFICES ASSUME IInv, [Next]_vars PROVE IInv'
  OBVIOUS
<1>1. CASE UNCHANGED vars
  BY <1>1 DEF vars, IInv, Types, HandOK, ShutOK, PrunedOK, WorkersOwned
<1> QED BY <1>1, WorkerStep, AcceptLoopStep, StoppingStep, ConnectStep DEF Next

LEMMA Invariant == Spec => []IInv
BY InitIInv, InductiveIInv, PTL DEF Spec

-------------------------------------------------------------------------------
(* The slots in use.                                                       *)

LEMMA ServedFinite == IsFiniteSet(ServedNow) /\ IsFiniteSet(ServedNow')
BY LinkServerAssumption, FS_Subset DEF ServedNow

\* A worker that starts takes a slot.
LEMMA StartCounts ==
  ASSUME Types, Counted, NEW c \in Connections, StartWorker(c)
  PROVE  Counted'
<1>1. c \notin ServedNow /\ ServedNow' = ServedNow \cup {c}
  BY DEF StartWorker, Types, ServedNow, Served
<1> QED BY <1>1, ServedFinite, FS_AddElement, FS_CardinalityType DEF Counted, StartWorker

\* A worker that leaves gives back the one it has.
LEMMA LeaveCounts ==
  ASSUME Types, Counted, NEW c \in Connections, phase[c] \in Served, LeaveConnection(c)
  PROVE  Counted'
<1>1. c \in ServedNow /\ ServedNow' = ServedNow \ {c}
  BY DEF LeaveConnection, Types, ServedNow, Served
<1> QED BY <1>1, ServedFinite, FS_RemoveElement, FS_CardinalityType DEF Counted, LeaveConnection

LEMMA CountedStep == IInv /\ Counted /\ [Next]_vars => Counted'
<1> SUFFICES ASSUME IInv, Counted, [Next]_vars PROVE Counted'
  OBVIOUS
<1>1. ASSUME active' = active, ServedNow' = ServedNow PROVE Counted'
  BY <1>1 DEF Counted
<1>2. CASE AcceptLoop \/ Refuse
  <2>1. active' = active
    BY <1>2 DEF AcceptLoop, Serve, LoopTop, JoinPruned, PruneDone, PollStopped, PollIdle, Admit,
                Register, Accept, AcceptFails, Refuse
  <2>2. \A c \in Connections : phase'[c] \in Served <=> phase[c] \in Served
    BY <1>2 DEF AcceptLoop, Serve, LoopTop, JoinPruned, PruneDone, PollStopped, PollIdle, Admit,
                Register, Accept, AcceptFails, Refuse, IInv, Types, HandOK, Holding, Served
  <2> QED BY <1>1, <2>1, <2>2 DEF ServedNow
<1>3. CASE ShutdownSteps \/ RequestStop \/ Shutdown
  <2>1. active' = active
    BY <1>3 DEF ShutdownSteps, StopWaiting, Drain, Join, ReturnFromShutdown, RequestStop, Shutdown
  <2>2. \A c \in Connections : phase'[c] \in Served <=> phase[c] \in Served
    BY <1>3 DEF ShutdownSteps, StopWaiting, Drain, Join, ReturnFromShutdown, RequestStop, Shutdown,
                IInv, Types, Served
  <2> QED BY <1>1, <2>1, <2>2 DEF ServedNow
<1>4. ASSUME NEW c \in Connections,
             Connect(c) \/ AwaitFrame(c) \/ FinishWorker(c) \/ BeginWrite(c) \/ EndWrite(c) \/ Goodbye(c)
      PROVE  Counted'
  <2>1. active' = active
    BY <1>4 DEF Connect, AwaitFrame, FinishWorker, BeginWrite, EndWrite, Goodbye
  <2>2. \A d \in Connections : phase'[d] \in Served <=> phase[d] \in Served
    BY <1>4 DEF Connect, AwaitFrame, FinishWorker, BeginWrite, EndWrite, Goodbye, IInv, Types, Served
  <2> QED BY <1>1, <2>1, <2>2 DEF ServedNow
<1>5. ASSUME NEW c \in Connections, StartWorker(c) PROVE Counted'
  BY <1>5, StartCounts DEF IInv
<1>6. ASSUME NEW c \in Connections, SeeStop(c) \/ GoodbyeShutdown(c) \/ EndConnection(c)
      PROVE  Counted'
  BY <1>6, LeaveCounts DEF IInv, SeeStop, GoodbyeShutdown, EndConnection, Served
<1>7. CASE UNCHANGED vars
  BY <1>1, <1>7 DEF vars, ServedNow
<1> QED BY <1>2, <1>3, <1>4, <1>5, <1>6, <1>7 DEF Next, WorkerSteps

-------------------------------------------------------------------------------
(* Theorems.                                                               *)

\* active_workers counts the connections being served, so it never exceeds the
\* peers and, being unsigned in the code, never wraps below zero.
THEOREM LinkServerTypeCorrect == Spec => []TypeOK
<1>1. Init => Counted
  <2>1. ASSUME Init PROVE ServedNow = {}
    BY <2>1 DEF Init, ServedNow, Served
  <2> QED BY <2>1, FS_EmptySet DEF Init, Counted
<1>2. IInv /\ Counted => TypeOK
  <2>1. ASSUME IInv, Counted PROVE active \in 0..Cardinality(Connections)
    <3>1. Cardinality(ServedNow) <= Cardinality(Connections)
      BY LinkServerAssumption, FS_Subset DEF ServedNow
    <3> QED BY <2>1, <3>1, ServedFinite, LinkServerAssumption, FS_CardinalityType DEF Counted
  <2> QED BY <2>1 DEF IInv, Types, TypeOK, Phases
<1> QED BY <1>1, <1>2, Invariant, CountedStep, PTL DEF Spec

\* Every worker thread has exactly one owner: Register gives it to the registry,
\* prune_workers and pending.swap take it out whole under the lock, and each
\* joins what it took with the lock released.
THEOREM ThreadsAreOwned == Spec => []WorkersOwned
<1>1. IInv => WorkersOwned
  BY DEF IInv
<1> QED BY <1>1, Invariant, PTL

\* shutdown() returns only when no worker serves a connection and none can start,
\* also when its wait for the accept loop ran out with a connection in hand or
\* with finished workers taken out of the registry and not joined yet.
THEOREM ShutdownIsQuiet == Spec => []QuietAfterShutdown
<1>1. ASSUME IInv, shut = "returned" PROVE workers = {} /\ pending = {}
  BY <1>1 DEF IInv, ShutOK
<1>2. ASSUME IInv, shut = "returned", NEW c \in Connections,
             phase[c] \in Running \cup {"finished"}
      PROVE  c \in pruned /\ loop = "pruning" /\ phase[c] = "finished"
  <2>1. c \in pruned
    BY <1>1, <1>2 DEF IInv, WorkersOwned
  <2> QED BY <1>2, <2>1 DEF IInv, PrunedOK
<1>3. IInv => QuietAfterShutdown
  BY <1>1, <1>2 DEF QuietAfterShutdown, Running, Served
<1> QED BY <1>3, Invariant, PTL
===============================================================================
