----------------------------- MODULE WindowLedger -----------------------------
(***************************************************************************)
(* What the governor promises the owner of a governed subject, whatever    *)
(* threads, crashes, failed writes and reopenings lie in between           *)
(* (include/fairness_governor/eval/governor.hpp).                          *)
(*                                                                         *)
(* Windows are accounted one after the other, each later than the last.    *)
(* A window is counted at most once, for the generation of the subject     *)
(* that is governed, and from the balance the window before it left.       *)
(* Callers are told of a window only in the step that counts it; what they *)
(* were told of stays for as long as that generation is governed, and only *)
(* a balance nobody was told of is started afresh, as a whole.             *)
(***************************************************************************)
EXTENDS Naturals

VARIABLES subject, \* the generation of the subject that is governed, 0 if none
          gen,     \* how many windows were accounted
          last,    \* the last of them, 0 if there is none
          ledger,  \* the windows the balance consists of
          acked    \* those callers were told of

vars == <<subject, gen, last, ledger, acked>>

Init ==
  /\ subject = 0
  /\ gen = 0
  /\ last = 0
  /\ ledger = {}
  /\ acked = {}

\* The balance a step may build on: all of it, or none where nobody was told
\* of any.
Balances == {ledger} \cup {fresh \in {{}} : acked = {}}

\* The next window is accounted.
Advance ==
  /\ gen' = gen + 1
  /\ last' > last
  /\ UNCHANGED subject

\* Window a is counted on top of the balance kept, and the caller is told of
\* it or never learns.
Count(a, kept) ==
  /\ Advance
  /\ a.win = last'
  /\ a.base = gen
  /\ a.sgen = subject
  /\ \A b \in kept : b.sgen = subject
  /\ ledger' = kept \cup {a}
  /\ acked' \in {acked, acked \cup {a}}

\* A window passes without being counted.
Pass(kept) ==
  /\ Advance
  /\ ledger' = kept
  /\ UNCHANGED acked

\* Another policy governs, now or for some time already: what callers were
\* told about a generation it does not name is history.
Govern ==
  /\ subject' \in Nat
  /\ ledger' \in Balances
  /\ acked' \in {acked, {a \in acked : a.sgen = subject'}}
  /\ UNCHANGED <<gen, last>>

Next ==
  \/ \E kept \in Balances : Pass(kept) \/ \E a \in ledger' : Count(a, kept)
  \/ Govern

Spec == Init /\ [][Next]_vars
===============================================================================
