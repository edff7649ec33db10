----------------------------- MODULE AtomicRecord -----------------------------
(***************************************************************************)
(* What one durable record of the fairness governor promises its caller,   *)
(* whatever files implement it (include/.../persist/store.hpp).            *)
(*                                                                         *)
(* A process opens the record and sees a view of it; it then replaces it   *)
(* one generation at a time.  A replacement is either acknowledged, after  *)
(* which nothing else can ever be found, or refused, after which it can    *)
(* never be found; only a crash in between leaves both outcomes open.      *)
(***************************************************************************)
EXTENDS Naturals

CONSTANTS Payloads,       \* what a record may hold
          MaxGeneration,  \* bound on the generations explored
          NoPayload       \* the payload field of "no record"

\* Committed content is a generation and a payload; NoRecord is generation 0.
Record == [gen : 1..MaxGeneration, val : Payloads]
NoRecord == [gen |-> 0, val |-> NoPayload]

VARIABLES possible,  \* the records the next open may find
          up,        \* a process has the record open
          view,      \* what that process takes the committed record to be
          pending    \* the replacement it is carrying out, or NoRecord

vars == <<possible, up, view, pending>>

TypeOK ==
  /\ possible \subseteq Record \cup {NoRecord}
  /\ up \in BOOLEAN
  /\ view \in Record \cup {NoRecord}
  /\ pending \in Record \cup {NoRecord}

Init ==
  /\ possible = {NoRecord}
  /\ up = FALSE
  /\ view = NoRecord
  /\ pending = NoRecord

\* Opening adopts one of the records that may be there, and nothing else.
Open ==
  /\ ~up
  /\ up' = TRUE
  /\ view' \in possible
  /\ UNCHANGED <<possible, pending>>

\* A replacement extends the generation its author believes to be committed.
Begin(r) ==
  /\ up
  /\ pending = NoRecord
  /\ r.gen = view.gen + 1
  /\ pending' = r
  /\ possible' = possible \cup {r}
  /\ UNCHANGED <<up, view>>

\* Acknowledged: from now on the new record is the only one to be found.
Acknowledge ==
  /\ up
  /\ pending # NoRecord
  /\ possible' = {pending}
  /\ view' = pending
  /\ pending' = NoRecord
  /\ UNCHANGED up

\* Refused: from now on the new record is never found.
Refuse ==
  /\ up
  /\ pending # NoRecord
  /\ possible' = possible \ {pending}
  /\ pending' = NoRecord
  /\ UNCHANGED <<up, view>>

\* The process dies, or the machine does.
Crash ==
  /\ up
  /\ up' = FALSE
  /\ view' = NoRecord
  /\ pending' = NoRecord
  /\ UNCHANGED possible

Next ==
  \/ Open
  \/ \E r \in Record : Begin(r)
  \/ Acknowledge
  \/ Refuse
  \/ Crash

Spec == Init /\ [][Next]_vars
===============================================================================
