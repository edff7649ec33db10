------------------------------- MODULE Governor -------------------------------
(***************************************************************************)
(* The stateful governor (src/src/eval/governor.cpp): opening, installing  *)
(* a policy, advancing the epoch, staging evidence, evaluating, committing *)
(* and shutting down, over two durable records.                            *)
(*                                                                         *)
(* Every public operation runs under one mutex, so each is one action; the *)
(* callers' threads interleave between operations, and a decision computed *)
(* by one evaluate() may be committed at any later time, or never, while   *)
(* other threads ingest, install, advance and commit.                      *)
(*                                                                         *)
(* A store commit is atomic (StoreImplementsRecord): it succeeds, it fails *)
(* and changes nothing, or the process dies in it with the record written. *)
(* The accounting of one governed subject is followed; its balance is      *)
(* represented by the windows that were applied to it (the ledger).        *)
(***************************************************************************)
EXTENDS Naturals, FiniteSets

CONSTANTS Policies,      \* policies callers may configure or install
          Evidence,      \* snapshots publishers may submit
          Epochs,        \* epochs callers may advance to
          MaxStaged,     \* limits.max_staged_snapshots
          MaxAge,        \* policy.max_evidence_age_windows
          MaxBoots,      \* bound: incarnations explored
          MaxDecisions   \* bound: decisions callers hold at once

\* A policy names its generation, its epoch and the generation of the subject;
\* a snapshot names its identity, generation, window, epoch, publisher and
\* sequence, the subject generation it observed, and its content.
ASSUME PoliciesAssumption ==
  Policies \subseteq [gen : Nat \ {0}, epoch : Nat \ {0}, sgen : Nat \ {0}]
ASSUME EvidenceAssumption ==
  Evidence \subseteq [id : Nat \ {0}, gen : Nat \ {0}, win : Nat \ {0}, epoch : Nat \ {0},
                      pub : Nat, seq : Nat, sgen : Nat \ {0}, data : Nat]
ASSUME BoundsAssumption ==
  /\ Epochs \subseteq Nat \ {0}
  /\ MaxStaged \in Nat \ {0}
  /\ MaxAge \in Nat
  /\ MaxBoots \in Nat
  /\ MaxDecisions \in Nat

VARIABLES mode,        \* "down", "open", or "stopping" (shutdown has begun)
          boot,        \* the incarnation
          policy, epoch, accounting, staged, ingested, sequences,
          decisions,   \* decisions callers still hold
          policyRec, accountingRec,               \* the durable records
          ackPolicy, ackEpoch, ackLedger          \* history: what callers were told

memory == <<policy, epoch, accounting, staged, ingested, sequences>>
history == <<ackPolicy, ackEpoch, ackLedger>>
vars == <<mode, boot, memory, decisions, policyRec, accountingRec, history>>

Larger(m, n) == IF m > n THEN m ELSE n

NoPolicy == [gen |-> 0, epoch |-> 0, sgen |-> 0]
NoAccounting == [gen |-> 0, last |-> 0, ledger |-> {}]
Publishers == {e.pub : e \in Evidence}

\* The epochs a request may name.
RequestEpochs == Epochs \cup {p.epoch : p \in Policies}

\* One window applied to the subject's carry: which window, from which
\* evidence, for which subject generation, computed from which accounting
\* generation.
Applied == [win : Nat, id : Nat, gen : Nat, sgen : Nat, base : Nat]

\* A decision: the authority vector it is bound to, and whether the evidence
\* had authority over the subject.
Decision == [boot : Nat, epoch : Nat, policy : Nat, base : Nat, win : Nat,
             id : Nat, gen : Nat, sgen : Nat, authority : BOOLEAN]

Accounting == [gen : Nat, last : Nat, ledger : SUBSET Applied]

TypeOK ==
  /\ mode \in {"down", "open", "stopping"}
  /\ boot \in Nat
  /\ policy \in Policies \cup {NoPolicy}
  /\ epoch \in Nat
  /\ accounting \in Accounting
  /\ staged \subseteq Evidence
  /\ ingested \subseteq [id : Nat, gen : Nat, digest : Evidence]
  /\ sequences \in [Publishers -> Nat]
  /\ decisions \subseteq Decision
  /\ policyRec \in Policies \cup {NoPolicy}
  /\ accountingRec \in [gen : Nat, last : Nat, ledger : SUBSET Applied, epoch : Nat]
  /\ ackPolicy \in Nat
  /\ ackEpoch \in Nat
  /\ ackLedger \subseteq Applied

\* Mutant of Payload: the record carries the generation before the last one.
PayloadOffByOne(a, e) == [gen |-> a.gen - 1, last |-> a.last, ledger |-> a.ledger, epoch |-> e]

\* What commit_accounting writes: the accounting, stamped with the epoch.
Payload(a, e) == [gen |-> a.gen, last |-> a.last, ledger |-> a.ledger, epoch |-> e]

Init ==
  /\ mode = "down"
  /\ boot = 0
  /\ policy = NoPolicy
  /\ epoch = 0
  /\ accounting = NoAccounting
  /\ staged = {}
  /\ ingested = {}
  /\ sequences = [p \in Publishers |-> 0]
  /\ decisions = {}
  /\ policyRec = NoPolicy
  /\ accountingRec = Payload(NoAccounting, 0)
  /\ ackPolicy = 0
  /\ ackEpoch = 0
  /\ ackLedger = {}

-------------------------------------------------------------------------------
(* Shared pieces.                                                          *)

\* staged.clear(), ingested.clear(), publisher_sequences.clear().
DropStaged ==
  /\ staged' = {}
  /\ ingested' = {}
  /\ sequences' = [p \in Publishers |-> 0]

KeepStaged == UNCHANGED <<staged, ingested, sequences>>

\* The governor object is gone.
Forget ==
  /\ mode' = "down"
  /\ policy' = NoPolicy
  /\ epoch' = 0
  /\ accounting' = NoAccounting
  /\ DropStaged

\* The process is gone, with its memory and the decisions its threads held.
Die ==
  /\ Forget
  /\ decisions' = {}
  /\ UNCHANGED <<boot, history>>

-------------------------------------------------------------------------------
(* open().                                                                 *)

\* Entries whose subject generation the policy no longer names are dropped.
Kept(ledger, p) == {a \in ledger : a.sgen = p.sgen}

\* Mutant of Serve: the epoch of the durable accounting is ignored.
ServeForgetsEpoch(p, e) ==
  /\ mode' = "open"
  /\ boot' = boot + 1
  /\ policy' = p
  /\ epoch' = e
  /\ accounting' = [gen |-> accountingRec.gen, last |-> accountingRec.last,
                    ledger |-> Kept(accountingRec.ledger, p)]
  /\ DropStaged
  /\ ackPolicy' = Larger(ackPolicy, p.gen)
  /\ ackLedger' = Kept(ackLedger, p)
  /\ UNCHANGED <<decisions, accountingRec, ackEpoch>>

\* open() succeeds with policy p in force, starting from epoch e.  Accounting
\* is adopted but not written back, and no evidence is restored.
Serve(p, e) ==
  /\ mode' = "open"
  /\ boot' = boot + 1
  /\ policy' = p
  /\ epoch' = Larger(e, accountingRec.epoch)
  /\ accounting' = [gen |-> accountingRec.gen, last |-> accountingRec.last,
                    ledger |-> Kept(accountingRec.ledger, p)]
  /\ DropStaged
  /\ ackPolicy' = Larger(ackPolicy, p.gen)
  /\ ackLedger' = Kept(ackLedger, p)
  /\ UNCHANGED <<decisions, accountingRec, ackEpoch>>

\* The durable policy is newer than the configured one, or is the same one.
OpenDurable(config) ==
  /\ mode = "down"
  /\ boot < MaxBoots
  /\ policyRec.gen > config.gen \/ policyRec = config
  /\ Serve(policyRec, policyRec.epoch)
  /\ UNCHANGED policyRec

\* The configured policy is newer, or there is none yet: it is written first.
OpenConfigured(config) ==
  /\ mode = "down"
  /\ boot < MaxBoots
  /\ policyRec.gen < config.gen
  /\ policyRec' = config
  /\ Serve(config, config.epoch)

\* As above, but the process dies once the policy is written.
OpenLost(config) ==
  /\ mode = "down"
  /\ policyRec.gen < config.gen
  /\ policyRec' = config
  /\ UNCHANGED <<mode, boot, memory, decisions, accountingRec, history>>

-------------------------------------------------------------------------------
(* install_policy() and advance_epoch().                                   *)

CanInstall(p) ==
  /\ mode = "open"
  /\ p.gen > policy.gen
  /\ p.epoch >= epoch

\* An epoch that moves invalidates what is staged, even if the write fails.
FenceEpoch(e) == IF e > epoch THEN DropStaged ELSE KeepStaged

InstallPolicy(p) ==
  /\ CanInstall(p)
  /\ policy' = p
  /\ epoch' = p.epoch
  /\ FenceEpoch(p.epoch)
  /\ policyRec' = p
  /\ accountingRec' = Payload(accounting, p.epoch)
  /\ ackPolicy' = p.gen
  /\ ackEpoch' = p.epoch
  /\ UNCHANGED <<mode, boot, accounting, decisions, ackLedger>>

\* commit_policy fails: policy and epoch are restored, staged evidence is not.
InstallPolicyFail(p) ==
  /\ CanInstall(p)
  /\ FenceEpoch(p.epoch)
  /\ UNCHANGED <<mode, boot, policy, epoch, accounting, decisions, policyRec, accountingRec,
                 history>>

\* commit_accounting fails: the call reports an error, the policy stays.
InstallPolicyHalf(p) ==
  /\ CanInstall(p)
  /\ policy' = p
  /\ epoch' = p.epoch
  /\ FenceEpoch(p.epoch)
  /\ policyRec' = p
  /\ UNCHANGED <<mode, boot, accounting, decisions, accountingRec, history>>

\* The process dies between the two records.
InstallPolicyLost(p) ==
  /\ CanInstall(p)
  /\ policyRec' = p
  /\ Die
  /\ UNCHANGED accountingRec

\* Mutant of AdvanceEpoch: staged evidence outlives its epoch.
AdvanceEpochKeepsStaged(e) ==
  /\ mode = "open"
  /\ e > epoch
  /\ epoch' = e
  /\ KeepStaged
  /\ accountingRec' = Payload(accounting, e)
  /\ ackEpoch' = e
  /\ UNCHANGED <<mode, boot, policy, accounting, decisions, policyRec, ackPolicy, ackLedger>>

AdvanceEpoch(e) ==
  /\ mode = "open"
  /\ e > epoch
  /\ epoch' = e
  /\ DropStaged
  /\ accountingRec' = Payload(accounting, e)
  /\ ackEpoch' = e
  /\ UNCHANGED <<mode, boot, policy, accounting, decisions, policyRec, ackPolicy, ackLedger>>

\* commit_accounting fails: the epoch is restored, staged evidence is not.
AdvanceEpochFail(e) ==
  /\ mode = "open"
  /\ e > epoch
  /\ DropStaged
  /\ UNCHANGED <<mode, boot, policy, epoch, accounting, decisions, policyRec, accountingRec,
                 history>>

\* The process dies once the accounting is written.
AdvanceEpochLost(e) ==
  /\ mode = "open"
  /\ e > epoch
  /\ accountingRec' = Payload(accounting, e)
  /\ Die
  /\ UNCHANGED policyRec

-------------------------------------------------------------------------------
(* ingest_evidence().                                                      *)

\* The lowest windows, and the lowest identities, beyond the limits are erased.
EvictWindows(S) == {s \in S : Cardinality({t \in S : s.win < t.win}) < MaxStaged}

EvictIdentities(K) ==
  {k \in K : Cardinality({l \in K : k.id < l.id \/ (k.id = l.id /\ k.gen < l.gen)})
               < 4 * MaxStaged}

\* What every accepted snapshot satisfies: the current epoch, and a window
\* that is not committed.
Admissible(e) ==
  /\ mode = "open"
  /\ e.epoch = epoch
  /\ accounting.last = 0 \/ e.win > accounting.last

\* The identities already ingested that e would repeat (at most one).
Known(e) == {k \in ingested : k.id = e.id /\ k.gen = e.gen}

\* An admissible snapshot is staged unless its identity is known, its sequence
\* is older than its publisher's highest, or it is not newer than the snapshot
\* staged for its window.
IngestEvidence(e) ==
  /\ Admissible(e)
  /\ Known(e) = {}
  /\ e.seq >= sequences[e.pub]
  /\ \A s \in staged : s.win = e.win => e.gen > s.gen
  /\ staged' = EvictWindows({s \in staged : s.win # e.win} \cup {e})
  /\ ingested' = EvictIdentities(ingested \cup {[id |-> e.id, gen |-> e.gen, digest |-> e]})
  /\ sequences' = [sequences EXCEPT ![e.pub] = Larger(@, e.seq)]
  /\ UNCHANGED <<mode, boot, policy, epoch, accounting, decisions, policyRec, accountingRec,
                 history>>

ClearStaged ==
  /\ mode = "open"
  /\ DropStaged
  /\ UNCHANGED <<mode, boot, policy, epoch, accounting, decisions, policyRec, accountingRec,
                 history>>

-------------------------------------------------------------------------------
(* evaluate() and commit().                                                *)

\* Highest window observed: committed or staged.
CurrentWindow ==
  CHOOSE w \in {accounting.last} \cup {s.win : s \in staged} :
    \A v \in {accounting.last} \cup {s.win : s \in staged} : v <= w

\* The eligibility rules of evaluate_fairness for a request that names the
\* policy generation g, the epoch f and the evidence e: the request and the
\* policy are current, the evidence named is the one staged for its window,
\* its window is uncommitted and recent enough, and so is its capture by the
\* clock of the request (fresh).
Eligible(g, f, e, fresh) ==
  /\ g = policy.gen
  /\ policy.epoch = epoch
  /\ f = epoch
  /\ \E s \in staged : s.win = e.win /\ s.id = e.id /\ s.gen = e.gen /\ s.epoch = epoch
  /\ accounting.last = 0 \/ e.win > accounting.last
  /\ e.win <= CurrentWindow
  /\ CurrentWindow - e.win <= MaxAge
  /\ fresh

\* Mutant of HasAuthority: the generation of the durable entry is not compared.
HasAuthorityAnyEntry(g, f, e, fresh) ==
  /\ Eligible(g, f, e, fresh)
  /\ \A s \in staged : s.win = e.win => s.sgen = policy.sgen

\* The subject has authority when the staged observation and the durable entry
\* are of the generation the policy governs.
HasAuthority(g, f, e, fresh) ==
  /\ Eligible(g, f, e, fresh)
  /\ \A s \in staged : s.win = e.win => s.sgen = policy.sgen
  /\ \A a \in accounting.ledger : a.sgen = policy.sgen

\* A request names evidence by identity, generation and window.  The decision
\* is bound to the live policy, epoch and accounting generation whatever the
\* request named.
DecisionFor(g, f, e, fresh) ==
  [boot |-> boot, epoch |-> epoch, policy |-> policy.gen, base |-> accounting.gen,
   win |-> e.win, id |-> e.id, gen |-> e.gen, sgen |-> policy.sgen,
   authority |-> HasAuthority(g, f, e, fresh)]

Evaluate(g, f, e, fresh) ==
  /\ mode = "open"
  /\ Cardinality(decisions) < MaxDecisions
  /\ decisions' = decisions \cup {DecisionFor(g, f, e, fresh)}
  /\ UNCHANGED <<mode, boot, memory, policyRec, accountingRec, history>>

\* Mutant of Committable: the accounting generation is not re-checked.
CommittableAnyBase(d) ==
  /\ mode = "open"
  /\ d.boot = boot
  /\ d.epoch = epoch
  /\ d.policy = policy.gen
  /\ accounting.last = 0 \/ d.win > accounting.last
  /\ d.authority => d.sgen = policy.sgen

\* The authority checks of commit(), and that the policy governs the subject.
Committable(d) ==
  /\ mode = "open"
  /\ d.boot = boot
  /\ d.epoch = epoch
  /\ d.policy = policy.gen
  /\ d.base = accounting.gen
  /\ accounting.last = 0 \/ d.win > accounting.last
  /\ d.authority => d.sgen = policy.sgen

EntryOf(d) == [win |-> d.win, id |-> d.id, gen |-> d.gen, sgen |-> d.sgen, base |-> d.base]

\* The accounting after d: subjects without authority are skipped, the window
\* and the generation advance in any case.
After(d) ==
  [gen |-> accounting.gen + 1, last |-> d.win,
   ledger |-> accounting.ledger \cup (IF d.authority THEN {EntryOf(d)} ELSE {})]

\* Mutant of Commit: acknowledged before the record is written.
CommitUnwritten(d) ==
  /\ Committable(d)
  /\ accounting' = After(d)
  /\ decisions' \in {decisions, decisions \ {d}}
  /\ ackEpoch' = epoch
  /\ ackLedger' = ackLedger \cup (IF d.authority THEN {EntryOf(d)} ELSE {})
  /\ UNCHANGED <<mode, boot, policy, epoch, staged, ingested, sequences, policyRec,
                 accountingRec, ackPolicy>>

Commit(d) ==
  /\ Committable(d)
  /\ accounting' = After(d)
  /\ accountingRec' = Payload(After(d), epoch)
  /\ decisions' \in {decisions, decisions \ {d}}
  /\ ackEpoch' = epoch
  /\ ackLedger' = ackLedger \cup (IF d.authority THEN {EntryOf(d)} ELSE {})
  /\ UNCHANGED <<mode, boot, policy, epoch, staged, ingested, sequences, policyRec, ackPolicy>>

\* Mutant of CommitFail: the previous accounting is not put back.
CommitFailKeepsEffect(d) ==
  /\ Committable(d)
  /\ accounting' = After(d)
  /\ decisions' \in {decisions, decisions \ {d}}
  /\ UNCHANGED <<mode, boot, policy, epoch, staged, ingested, sequences, policyRec,
                 accountingRec, history>>

\* The write fails: the previous accounting is put back.  The caller may drop
\* the decision or try again.
CommitFail(d) ==
  /\ Committable(d)
  /\ decisions' \in {decisions, decisions \ {d}}
  /\ UNCHANGED <<mode, boot, memory, policyRec, accountingRec, history>>

\* The process dies once the accounting is written: nobody was told.
CommitLost(d) ==
  /\ Committable(d)
  /\ accountingRec' = Payload(After(d), epoch)
  /\ Die
  /\ UNCHANGED policyRec

\* A caller gives up on a decision, refused or not.
Discard(d) ==
  /\ decisions' = decisions \ {d}
  /\ UNCHANGED <<mode, boot, memory, policyRec, accountingRec, history>>

-------------------------------------------------------------------------------
(* shutdown(): the flag is raised before the lock is taken.  Decisions are *)
(* the callers' and outlive the governor.                                  *)

StopFlag ==
  /\ mode = "open"
  /\ mode' = "stopping"
  /\ UNCHANGED <<boot, memory, decisions, policyRec, accountingRec, history>>

Release ==
  /\ mode = "stopping"
  /\ Forget
  /\ UNCHANGED <<boot, decisions, policyRec, accountingRec, history>>

Crash ==
  /\ mode # "down"
  /\ Die
  /\ UNCHANGED <<policyRec, accountingRec>>

Next ==
  \/ \E p \in Policies : OpenDurable(p) \/ OpenConfigured(p) \/ OpenLost(p)
  \/ \E p \in Policies : \/ InstallPolicy(p) \/ InstallPolicyFail(p)
                         \/ InstallPolicyHalf(p) \/ InstallPolicyLost(p)
  \/ \E e \in Epochs : AdvanceEpoch(e) \/ AdvanceEpochFail(e) \/ AdvanceEpochLost(e)
  \/ \E e \in Evidence : IngestEvidence(e)
  \/ ClearStaged
  \/ \E p \in Policies, f \in RequestEpochs, e \in Evidence, fresh \in BOOLEAN :
       Evaluate(p.gen, f, e, fresh)
  \/ \E d \in decisions : Commit(d) \/ CommitFail(d) \/ CommitLost(d) \/ Discard(d)
  \/ StopFlag \/ Release \/ Crash

Spec == Init /\ [][Next]_vars

-------------------------------------------------------------------------------
(* Properties.                                                             *)

\* Every window whose commit() was acknowledged stays in the durable
\* accounting, through failed writes, crashes and reopenings (as long as the
\* policy still governs the subject it was counted for).
AcknowledgedSurvive == ackLedger \subseteq accountingRec.ledger

\* Windows are applied to the durable carry one after the other, each computed
\* from the accounting the previous one left: of two decisions evaluated
\* concurrently only one is ever applied, and no window is applied twice,
\* across restarts as well (the base-generation and window checks of commit()).
SerialHistory ==
  /\ \A a, b \in accountingRec.ledger : a # b => (a.base < b.base <=> a.win < b.win)
  /\ \A a \in accountingRec.ledger : a.base < accountingRec.gen /\ a.win <= accountingRec.last

\* While a governor is open its in-memory accounting is the durable one, except
\* that open() may have dropped an entry of another subject generation: every
\* error path has put the accounting back.
MemoryIsDurable ==
  mode = "open" =>
    /\ accounting.gen = accountingRec.gen
    /\ accounting.last = accountingRec.last
    /\ accounting.ledger \in {accountingRec.ledger, {}}

\* An epoch that an acknowledged commit(), advance_epoch() or install_policy()
\* carried is never rolled back, whatever policy a later open() is given.
AcknowledgedEpochHolds == mode = "open" => epoch >= ackEpoch

\* A policy generation that was put in force by an acknowledged call is never
\* replaced by an older one, whatever policy a later open() is given.
PolicyNeverRollsBack == mode = "open" => policy.gen >= ackPolicy

\* Neither is rolled back, not even by an open() that finds the two records of
\* a crash between them and a configured policy between theirs.
NeverRollsBack == AcknowledgedEpochHolds /\ PolicyNeverRollsBack

\* Whatever failed half way, staged evidence is of the current epoch, at most
\* one snapshot per window, within the limit.
StagedIsCurrent ==
  /\ \A s \in staged : s.epoch = epoch
  /\ \A s, t \in staged : s.win = t.win => s = t
  /\ Cardinality(staged) <= MaxStaged

-------------------------------------------------------------------------------
(* Refinement.                                                             *)

Ledger == INSTANCE WindowLedger WITH
  subject <- policyRec.sgen,
  gen <- accountingRec.gen,
  last <- accountingRec.last,
  ledger <- accountingRec.ledger,
  acked <- ackLedger

\* Whatever callers, failed writes, crashes and reopenings do, the durable
\* accounting of a subject is a ledger of windows, each counted once, for the
\* generation governed and from the balance the one before left, of which an
\* acknowledged one stays for as long as that generation is governed
\* (evaluate(), commit(), install_policy() and open() together).
LedgerSpec == Ledger!Spec
===============================================================================
