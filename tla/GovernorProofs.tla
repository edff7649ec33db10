---------------------------- MODULE GovernorProofs ----------------------------
(***************************************************************************)
(* Theorems about Governor, for every set of policies, snapshots and       *)
(* epochs, every limit, and any number of restarts and held decisions, and *)
(* about EvidenceLink, whose workers take the governor's steps, for any    *)
(* number of connections.                                                  *)
(***************************************************************************)
EXTENDS EvidenceLink, FiniteSetTheorems, WellFoundedInduction, TLAPS

-------------------------------------------------------------------------------
(* Type correctness.                                                       *)

LEMMA LargerType ==
  ASSUME NEW m \in Nat, NEW n \in Nat
  PROVE  Larger(m, n) \in Nat /\ Larger(m, n) >= m /\ Larger(m, n) >= n
BY DEF Larger

LEMMA PolicyTypes ==
  ASSUME NEW p \in Policies \cup {NoPolicy}
  PROVE  p.gen \in Nat /\ p.epoch \in Nat /\ p.sgen \in Nat
BY PoliciesAssumption DEF NoPolicy

LEMMA EvidenceTypes ==
  ASSUME NEW e \in Evidence
  PROVE  /\ e.id \in Nat /\ e.gen \in Nat /\ e.win \in Nat \ {0} /\ e.epoch \in Nat
         /\ e.seq \in Nat /\ e.pub \in Publishers
BY EvidenceAssumption DEF Publishers

\* The accounting that commit() builds from a well-typed decision.
LEMMA AfterType ==
  ASSUME accounting \in Accounting, NEW d \in Decision
  PROVE  /\ After(d) \in Accounting
         /\ EntryOf(d) \in Applied
BY DEF After, Accounting, Decision, EntryOf, Applied

LEMMA DropStagedType ==
  ASSUME DropStaged \/ UNCHANGED <<staged, ingested, sequences>>, TypeOK
  PROVE  /\ staged' \subseteq Evidence
         /\ ingested' \subseteq [id : Nat, gen : Nat, digest : Evidence]
         /\ sequences' \in [Publishers -> Nat]
BY DEF DropStaged, TypeOK

LEMMA ForgetType ==
  ASSUME TypeOK, Die \/ (Forget /\ UNCHANGED <<boot, decisions, history>>),
         policyRec' \in Policies \cup {NoPolicy},
         accountingRec' \in [gen : Nat, last : Nat, ledger : SUBSET Applied, epoch : Nat]
  PROVE  TypeOK'
BY DropStagedType DEF TypeOK, Die, Forget, history, NoAccounting, Accounting

LEMMA ServeType ==
  ASSUME TypeOK, NEW p \in Policies \cup {NoPolicy}, Serve(p, p.epoch),
         policyRec' \in Policies \cup {NoPolicy}
  PROVE  TypeOK'
<1>1. /\ epoch' \in Nat
      /\ ackPolicy' \in Nat
  BY LargerType, PolicyTypes DEF TypeOK, Serve
<1>2. accounting' \in Accounting
  BY DEF TypeOK, Serve, Kept, Accounting
<1>3. ackLedger' \subseteq Applied
  BY DEF TypeOK, Serve, Kept
<1> QED BY <1>1, <1>2, <1>3, DropStagedType DEF TypeOK, Serve

\* Every operation, with each of its failure outcomes, keeps the types.
LEMMA TypeStep == TypeOK /\ [Next]_vars => TypeOK'
<1> SUFFICES ASSUME TypeOK, [Next]_vars PROVE TypeOK'
  OBVIOUS
<1>p. \A e \in Nat : Payload(accounting, e)
        \in [gen : Nat, last : Nat, ledger : SUBSET Applied, epoch : Nat]
  BY DEF TypeOK, Payload, Accounting
<1>1. ASSUME NEW p \in Policies, OpenDurable(p) \/ OpenConfigured(p) \/ OpenLost(p)
      PROVE  TypeOK'
  <2>1. CASE OpenDurable(p)
    BY <2>1, ServeType DEF OpenDurable, TypeOK
  <2>2. CASE OpenConfigured(p)
    BY <2>2, ServeType DEF OpenConfigured, TypeOK
  <2>3. CASE OpenLost(p)
    BY <2>3 DEF OpenLost, TypeOK, memory, history
  <2> QED BY <1>1, <2>1, <2>2, <2>3
<1>2. ASSUME NEW p \in Policies,
             \/ InstallPolicy(p) \/ InstallPolicyFail(p)
             \/ InstallPolicyHalf(p) \/ InstallPolicyLost(p)
      PROVE  TypeOK'
  <2>1. p.gen \in Nat /\ p.epoch \in Nat
    BY PolicyTypes
  <2>2. CASE InstallPolicy(p)
    BY <2>1, <2>2, <1>p, DropStagedType DEF InstallPolicy, FenceEpoch, KeepStaged, TypeOK
  <2>3. CASE InstallPolicyFail(p) \/ InstallPolicyHalf(p)
    BY <2>1, <2>3, DropStagedType
       DEF InstallPolicyFail, InstallPolicyHalf, FenceEpoch, KeepStaged, TypeOK, history
  <2>4. CASE InstallPolicyLost(p)
    BY <2>4, ForgetType DEF InstallPolicyLost, TypeOK
  <2> QED BY <1>2, <2>2, <2>3, <2>4
<1>3. ASSUME NEW e \in Epochs, AdvanceEpoch(e) \/ AdvanceEpochFail(e) \/ AdvanceEpochLost(e)
      PROVE  TypeOK'
  <2>1. e \in Nat
    BY BoundsAssumption
  <2>2. CASE AdvanceEpoch(e) \/ AdvanceEpochFail(e)
    BY <2>1, <2>2, <1>p, DropStagedType DEF AdvanceEpoch, AdvanceEpochFail, TypeOK, history
  <2>3. CASE AdvanceEpochLost(e)
    BY <2>1, <2>3, <1>p, ForgetType DEF AdvanceEpochLost, TypeOK
  <2> QED BY <1>3, <2>2, <2>3
<1>4. ASSUME NEW e \in Evidence, IngestEvidence(e)
      PROVE  TypeOK'
  <2>1. staged' \subseteq Evidence
    BY <1>4 DEF IngestEvidence, EvictWindows, TypeOK
  <2>2. ingested' \subseteq [id : Nat, gen : Nat, digest : Evidence]
    BY <1>4, EvidenceTypes DEF IngestEvidence, EvictIdentities, TypeOK
  <2>3. sequences' \in [Publishers -> Nat]
    BY <1>4, EvidenceTypes, LargerType DEF IngestEvidence, TypeOK
  <2> QED BY <1>4, <2>1, <2>2, <2>3 DEF IngestEvidence, TypeOK, history
<1>5. CASE ClearStaged
  BY <1>5, DropStagedType DEF ClearStaged, TypeOK, history
<1>6. ASSUME NEW p \in Policies, NEW f \in RequestEpochs, NEW e \in Evidence,
             NEW fresh \in BOOLEAN, Evaluate(p.gen, f, e, fresh)
      PROVE  TypeOK'
  <2>1. HasAuthority(p.gen, f, e, fresh) \in BOOLEAN
    BY DEF HasAuthority
  <2>2. decisions' \subseteq Decision
    BY <1>6, <2>1, EvidenceTypes, PolicyTypes
       DEF Evaluate, DecisionFor, TypeOK, Decision, Accounting
  <2> QED BY <1>6, <2>2 DEF Evaluate, TypeOK, memory, history
<1>7. ASSUME NEW d \in decisions, Commit(d) \/ CommitFail(d) \/ CommitLost(d) \/ Discard(d)
      PROVE  TypeOK'
  <2>1. /\ After(d) \in Accounting /\ EntryOf(d) \in Applied
        /\ Payload(After(d), epoch)
             \in [gen : Nat, last : Nat, ledger : SUBSET Applied, epoch : Nat]
    BY AfterType DEF TypeOK, Payload, Accounting
  <2>2. CASE Commit(d)
    BY <2>1, <2>2 DEF Commit, TypeOK
  <2>3. CASE CommitFail(d) \/ Discard(d)
    BY <2>3 DEF CommitFail, Discard, TypeOK, memory, history
  <2>4. CASE CommitLost(d)
    BY <2>1, <2>4, ForgetType DEF CommitLost, TypeOK
  <2> QED BY <1>7, <2>2, <2>3, <2>4
<1>8. CASE StopFlag
  BY <1>8 DEF StopFlag, TypeOK, memory, history
<1>9. CASE Release \/ Crash
  BY <1>9, ForgetType DEF Release, Crash, TypeOK
<1>10. CASE UNCHANGED vars
  BY <1>10 DEF vars, memory, history, TypeOK
<1> QED BY <1>1, <1>2, <1>3, <1>4, <1>5, <1>6, <1>7, <1>8, <1>9, <1>10 DEF Next

\* The governor's memory, its records and its callers' decisions keep their
\* types through every interleaving of operations, failures and crashes.
THEOREM GovernorTypeCorrect == Spec => []TypeOK
<1>1. Init => TypeOK
  BY DEF Init, TypeOK, NoAccounting, Accounting, Payload
<1> QED BY <1>1, TypeStep, PTL DEF Spec

-------------------------------------------------------------------------------
(* The inductive invariant.                                                *)

\* The carry never mixes generations of a subject: what was counted for an
\* earlier generation of it is dropped before anything is counted for the new.
OneSubjectGeneration == \A a, b \in accountingRec.ledger : a.sgen = b.sgen

\* The durable ledger is serial and of one subject generation, and callers
\* were told of nothing else.
RecordOK ==
  /\ AcknowledgedSurvive
  /\ SerialHistory
  /\ OneSubjectGeneration

\* While there is a governor, its memory mirrors the records.
MirrorOK ==
  mode # "down" =>
    /\ policy = policyRec
    /\ accounting.gen = accountingRec.gen
    /\ accounting.last = accountingRec.last
    /\ accounting.ledger \in {accountingRec.ledger, {}}
    /\ ackLedger \subseteq accounting.ledger

\* A decision of this incarnation was computed from an accounting generation
\* no later than the current one; from the current one, it agrees with the
\* ledger about the generation of the subject.
DecisionOK(d) ==
  /\ d.win # 0
  /\ d.boot <= boot
  /\ mode # "down" /\ d.boot = boot =>
       /\ d.base <= accounting.gen
       /\ d.base = accounting.gen /\ d.authority =>
            \A a \in accounting.ledger : a.sgen = d.sgen

DecisionsOK == \A d \in decisions : DecisionOK(d)

\* Epochs and policies only move forward, in memory and on disk.
EpochOK ==
  /\ accountingRec.epoch >= ackEpoch
  /\ mode # "down" => epoch >= accountingRec.epoch

PolicyOK == policyRec.gen >= ackPolicy

IInv == TypeOK /\ RecordOK /\ MirrorOK /\ DecisionsOK /\ EpochOK /\ PolicyOK

LEMMA RecordTypes ==
  ASSUME TypeOK
  PROVE  /\ accounting.gen \in Nat /\ accounting.last \in Nat /\ accounting.ledger \subseteq Applied
         /\ accountingRec.gen \in Nat /\ accountingRec.last \in Nat /\ accountingRec.epoch \in Nat
         /\ accountingRec.ledger \subseteq Applied
BY DEF TypeOK, Accounting

\* commit() extends a serial history of one subject generation to another.
LEMMA AfterIsSerial ==
  ASSUME IInv, NEW d \in decisions, Committable(d),
         accountingRec' = Payload(After(d), epoch)
  PROVE  /\ SerialHistory'
         /\ OneSubjectGeneration'
         /\ ackLedger \subseteq accountingRec'.ledger
<1> DEFINE new == IF d.authority THEN {EntryOf(d)} ELSE {}
<1>1. /\ accountingRec'.gen = accounting.gen + 1
      /\ accountingRec'.last = d.win
      /\ accountingRec'.ledger = accounting.ledger \cup new
  BY DEF Payload, After
<1>2. /\ d \in Decision /\ d.win \in Nat \ {0} /\ d.base = accounting.gen
      /\ d.boot = boot /\ mode = "open"
      /\ accounting.last = 0 \/ d.win > accounting.last
  BY DEF IInv, TypeOK, DecisionsOK, DecisionOK, Committable, Decision
<1>3. /\ accounting.gen = accountingRec.gen /\ accounting.last = accountingRec.last
      /\ accounting.ledger \subseteq accountingRec.ledger
      /\ ackLedger \subseteq accounting.ledger
  BY <1>2 DEF IInv, MirrorOK
<1>4. \A a \in accounting.ledger :
        /\ a \in Applied /\ a.base \in Nat /\ a.win \in Nat
        /\ a.base < accounting.gen /\ a.win <= accounting.last
  BY <1>3, RecordTypes DEF IInv, RecordOK, SerialHistory, Applied
<1>5. \A a \in new : a.base = accounting.gen /\ a.win = d.win /\ a.sgen = d.sgen /\ d.authority
  BY <1>2 DEF EntryOf
<1>6. \A a, b \in new : a = b
  OBVIOUS
<1>7. /\ accounting.gen \in Nat /\ accounting.last \in Nat
  BY RecordTypes DEF IInv
<1>8. SerialHistory'
  <2>1. \A a \in accounting.ledger : \A b \in new :
          /\ a.base < b.base /\ a.win < b.win
          /\ ~(b.base < a.base) /\ ~(b.win < a.win)
    BY <1>2, <1>4, <1>5, <1>7
  <2>2. \A a, b \in accountingRec'.ledger : a # b => (a.base < b.base <=> a.win < b.win)
    BY <1>1, <1>3, <1>6, <2>1 DEF IInv, RecordOK, SerialHistory
  <2>3. \A a \in accountingRec'.ledger : a.base < accountingRec'.gen /\ a.win <= accountingRec'.last
    BY <1>1, <1>2, <1>4, <1>5, <1>7
  <2> QED BY <2>2, <2>3 DEF SerialHistory
<1>9. OneSubjectGeneration'
  <2>1. \A a, b \in accounting.ledger : a.sgen = b.sgen
    BY <1>3 DEF IInv, RecordOK, OneSubjectGeneration
  <2>2. d.authority => \A a \in accounting.ledger : a.sgen = d.sgen
    BY <1>2 DEF IInv, DecisionsOK, DecisionOK
  <2> QED BY <1>1, <1>5, <2>1, <2>2 DEF OneSubjectGeneration
<1> QED BY <1>1, <1>3, <1>8, <1>9

\* A step that stamps the current accounting with a later epoch keeps RecordOK.
LEMMA StampKeepsRecord ==
  ASSUME IInv, mode = "open", NEW e, accountingRec' = Payload(accounting, e),
         ackLedger' = ackLedger
  PROVE  RecordOK'
<1>1. /\ accountingRec'.gen = accountingRec.gen
      /\ accountingRec'.last = accountingRec.last
      /\ accountingRec'.ledger \in {accountingRec.ledger, {}}
      /\ ackLedger \subseteq accountingRec'.ledger
  BY DEF Payload, IInv, MirrorOK
<1> QED BY <1>1 DEF IInv, RecordOK, AcknowledgedSurvive, SerialHistory, OneSubjectGeneration

\* Decisions stay sound while incarnation, mode and accounting do not change.
LEMMA DecisionsKept ==
  ASSUME IInv, UNCHANGED <<boot, accounting>>, mode' = mode, decisions' \subseteq decisions
  PROVE  DecisionsOK'
BY DEF IInv, DecisionsOK, DecisionOK

\* Nothing is left to check in memory once the process is gone.
LEMMA DeathKeepsInv ==
  ASSUME IInv, TypeOK', Die, RecordOK', EpochOK', PolicyOK'
  PROVE  IInv'
BY DEF IInv, Die, Forget, MirrorOK, DecisionsOK

LEMMA ServeKeepsInv ==
  ASSUME IInv, TypeOK', mode = "down", NEW p \in Policies \cup {NoPolicy}, Serve(p, p.epoch),
         policyRec' = p, p.gen >= policyRec.gen
  PROVE  IInv'
<1>1. RecordOK'
  BY DEF Serve, Kept, IInv, RecordOK, AcknowledgedSurvive, SerialHistory, OneSubjectGeneration
<1>2. MirrorOK'
  <2>1. Kept(accountingRec.ledger, p) \in {accountingRec.ledger, {}}
    <3>1. \A a, b \in accountingRec.ledger : a.sgen = b.sgen
      BY DEF IInv, RecordOK, OneSubjectGeneration
    <3>2. CASE \E a \in accountingRec.ledger : a.sgen = p.sgen
      BY <3>1, <3>2 DEF Kept
    <3>3. CASE \A a \in accountingRec.ledger : a.sgen # p.sgen
      BY <3>3 DEF Kept
    <3> QED BY <3>2, <3>3
  <2>2. Kept(ackLedger, p) \subseteq Kept(accountingRec.ledger, p)
    BY DEF Kept, IInv, RecordOK, AcknowledgedSurvive
  <2> QED BY <2>1, <2>2 DEF Serve, MirrorOK
<1>3. DecisionsOK'
  BY DEF Serve, IInv, DecisionsOK, DecisionOK, TypeOK, Decision
<1>4. EpochOK'
  BY LargerType, PolicyTypes, RecordTypes DEF Serve, IInv, EpochOK, TypeOK
<1>5. PolicyOK'
  BY PolicyTypes DEF Serve, Larger, IInv, PolicyOK, TypeOK
<1> QED BY <1>1, <1>2, <1>3, <1>4, <1>5 DEF IInv

LEMMA InvStep == IInv /\ [Next]_vars => IInv'
<1> SUFFICES ASSUME IInv, [Next]_vars PROVE IInv'
  OBVIOUS
<1>0. TypeOK' /\ TypeOK
  BY TypeStep DEF IInv
<1>t. /\ policy.gen \in Nat /\ policyRec.gen \in Nat /\ epoch \in Nat /\ ackEpoch \in Nat
      /\ ackPolicy \in Nat /\ accountingRec.epoch \in Nat
  BY <1>0, PolicyTypes, RecordTypes DEF TypeOK
\* Steps that leave the records, the accounting and the history alone.
<1>q. ASSUME UNCHANGED <<boot, policy, epoch, accounting, policyRec, accountingRec, history>>,
             mode' = mode, decisions' \subseteq decisions
      PROVE  IInv'
  BY <1>0, <1>q, DecisionsKept
     DEF IInv, RecordOK, AcknowledgedSurvive, SerialHistory, OneSubjectGeneration, MirrorOK, EpochOK,
         PolicyOK, history
<1>1. ASSUME NEW p \in Policies, OpenDurable(p) \/ OpenConfigured(p) \/ OpenLost(p)
      PROVE  IInv'
  <2>1. CASE OpenDurable(p)
    BY <1>0, <1>t, <2>1, ServeKeepsInv DEF OpenDurable, TypeOK
  <2>2. CASE OpenConfigured(p)
    BY <1>0, <1>t, <2>2, ServeKeepsInv, PolicyTypes DEF OpenConfigured
  <2>3. CASE OpenLost(p)
    <3>1. p.gen \in Nat
      BY PolicyTypes
    <3> QED BY <1>0, <1>t, <2>3, <3>1
       DEF OpenLost, IInv, RecordOK, AcknowledgedSurvive, SerialHistory, OneSubjectGeneration,
           MirrorOK, DecisionsOK, DecisionOK, EpochOK, PolicyOK, memory, history
  <2> QED BY <1>1, <2>1, <2>2, <2>3
<1>2. ASSUME NEW p \in Policies,
             \/ InstallPolicy(p) \/ InstallPolicyFail(p)
             \/ InstallPolicyHalf(p) \/ InstallPolicyLost(p)
      PROVE  IInv'
  <2>1. /\ p.gen \in Nat /\ p.epoch \in Nat
        /\ mode = "open" /\ p.gen > policy.gen /\ p.epoch >= epoch
    BY <1>2, PolicyTypes
       DEF InstallPolicy, InstallPolicyFail, InstallPolicyHalf, InstallPolicyLost, CanInstall
  <2>2. policy = policyRec /\ epoch >= accountingRec.epoch /\ accountingRec.epoch >= ackEpoch
    BY <2>1 DEF IInv, MirrorOK, EpochOK
  <2>3. CASE InstallPolicy(p)
    <3>1. RecordOK'
      BY <2>1, <2>3, StampKeepsRecord DEF InstallPolicy
    <3>2. MirrorOK'
      BY <2>1, <2>3 DEF InstallPolicy, IInv, MirrorOK, Payload
    <3>3. DecisionsOK'
      BY <2>3, DecisionsKept DEF InstallPolicy
    <3>4. EpochOK' /\ PolicyOK'
      BY <2>1, <2>3 DEF InstallPolicy, EpochOK, PolicyOK, Payload
    <3> QED BY <1>0, <3>1, <3>2, <3>3, <3>4 DEF IInv
  <2>4. CASE InstallPolicyFail(p)
    BY <2>4, <1>q DEF InstallPolicyFail
  <2>5. CASE InstallPolicyHalf(p)
    <3>1. RecordOK' /\ MirrorOK'
      BY <2>1, <2>5 DEF InstallPolicyHalf, IInv, RecordOK, MirrorOK, AcknowledgedSurvive,
             SerialHistory, OneSubjectGeneration, history
    <3>2. DecisionsOK'
      BY <2>5, DecisionsKept DEF InstallPolicyHalf
    <3>3. EpochOK' /\ PolicyOK'
      BY <1>t, <2>1, <2>2, <2>5 DEF InstallPolicyHalf, IInv, EpochOK, PolicyOK, history
    <3> QED BY <1>0, <3>1, <3>2, <3>3 DEF IInv
  <2>6. CASE InstallPolicyLost(p)
    <3>1. RecordOK' /\ EpochOK' /\ PolicyOK'
      BY <1>t, <2>1, <2>2, <2>6 DEF InstallPolicyLost, Die, Forget, IInv, RecordOK,
             AcknowledgedSurvive, SerialHistory, OneSubjectGeneration, EpochOK, PolicyOK, history
    <3> QED BY <1>0, <2>6, <3>1, DeathKeepsInv DEF InstallPolicyLost
  <2> QED BY <1>2, <2>3, <2>4, <2>5, <2>6
<1>3. ASSUME NEW e \in Epochs, AdvanceEpoch(e) \/ AdvanceEpochFail(e) \/ AdvanceEpochLost(e)
      PROVE  IInv'
  <2>1. e \in Nat /\ mode = "open" /\ e > epoch
    BY <1>3, BoundsAssumption DEF AdvanceEpoch, AdvanceEpochFail, AdvanceEpochLost
  <2>2. epoch >= accountingRec.epoch /\ accountingRec.epoch >= ackEpoch
    BY <2>1 DEF IInv, EpochOK
  <2>3. CASE AdvanceEpoch(e)
    <3>1. RecordOK'
      BY <2>1, <2>3, StampKeepsRecord DEF AdvanceEpoch
    <3>2. MirrorOK'
      BY <2>1, <2>3 DEF AdvanceEpoch, IInv, MirrorOK, Payload
    <3>3. DecisionsOK'
      BY <2>3, DecisionsKept DEF AdvanceEpoch
    <3>4. EpochOK' /\ PolicyOK'
      BY <2>1, <2>3 DEF AdvanceEpoch, IInv, EpochOK, PolicyOK, Payload
    <3> QED BY <1>0, <3>1, <3>2, <3>3, <3>4 DEF IInv
  <2>4. CASE AdvanceEpochFail(e)
    BY <2>4, <1>q DEF AdvanceEpochFail
  <2>5. CASE AdvanceEpochLost(e)
    <3>1. RecordOK'
      BY <2>1, <2>5, StampKeepsRecord DEF AdvanceEpochLost, Die, history
    <3>2. EpochOK' /\ PolicyOK'
      BY <1>t, <2>1, <2>2, <2>5 DEF AdvanceEpochLost, Die, Forget, IInv, EpochOK, PolicyOK, Payload,
             history
    <3> QED BY <1>0, <2>5, <3>1, <3>2, DeathKeepsInv DEF AdvanceEpochLost
  <2> QED BY <1>3, <2>3, <2>4, <2>5
<1>4. ASSUME NEW e \in Evidence, IngestEvidence(e)
      PROVE  IInv'
  BY <1>4, <1>q DEF IngestEvidence
<1>5. CASE ClearStaged
  BY <1>5, <1>q DEF ClearStaged
<1>6. ASSUME NEW p \in Policies, NEW f \in RequestEpochs, NEW e \in Evidence,
             NEW fresh \in BOOLEAN, Evaluate(p.gen, f, e, fresh)
      PROVE  IInv'
  <2> DEFINE d == DecisionFor(p.gen, f, e, fresh)
  <2>1. /\ decisions' = decisions \cup {d} /\ mode' = mode
        /\ UNCHANGED <<boot, policy, epoch, accounting, policyRec, accountingRec, history>>
    BY <1>6 DEF Evaluate, memory
  <2>2. /\ d.win # 0 /\ d.boot = boot /\ d.base = accounting.gen
        /\ d.authority => \A a \in accounting.ledger : a.sgen = d.sgen
    BY EvidenceTypes DEF DecisionFor, HasAuthority
  <2>3. DecisionsOK'
    <3> HIDE DEF d
    <3> SUFFICES ASSUME NEW c \in decisions' PROVE DecisionOK(c)'
      BY DEF DecisionsOK
    <3>1. CASE c \in decisions
      BY <2>1, <3>1 DEF IInv, DecisionsOK, DecisionOK
    <3>2. CASE c = d
      BY <1>0, <2>1, <2>2, <3>2, RecordTypes DEF DecisionOK, TypeOK
    <3> QED BY <2>1, <3>1, <3>2
  <2> QED BY <1>0, <2>1, <2>3
      DEF IInv, RecordOK, AcknowledgedSurvive, SerialHistory, OneSubjectGeneration, MirrorOK, EpochOK,
          PolicyOK, history
<1>7. ASSUME NEW d \in decisions, Commit(d) \/ CommitFail(d) \/ CommitLost(d) \/ Discard(d)
      PROVE  IInv'
  <2>1. CASE CommitFail(d) \/ Discard(d)
    BY <2>1, <1>q DEF CommitFail, Discard, memory
  <2>2. CASE Commit(d)
    <3>1. /\ SerialHistory' /\ OneSubjectGeneration'
          /\ ackLedger \subseteq accountingRec'.ledger
      BY <2>2, AfterIsSerial DEF Commit
    <3>2. /\ mode = "open" /\ mode' = mode /\ policy = policyRec
          /\ ackLedger \subseteq accounting.ledger
      BY <2>2 DEF Commit, Committable, IInv, MirrorOK
    <3>3. RecordOK'
      BY <2>2, <3>1, <3>2 DEF Commit, RecordOK, AcknowledgedSurvive, Payload, After
    <3>4. MirrorOK'
      BY <2>2, <3>2 DEF Commit, MirrorOK, Payload, After
    <3>5. DecisionsOK'
      <4>1. accounting'.gen = accounting.gen + 1 /\ boot' = boot /\ decisions' \subseteq decisions
        BY <2>2 DEF Commit, After
      <4> QED BY <1>0, <3>2, <4>1, RecordTypes DEF IInv, DecisionsOK, DecisionOK, TypeOK, Decision
    <3>6. EpochOK' /\ PolicyOK'
      BY <1>t, <2>2 DEF Commit, IInv, EpochOK, PolicyOK, Payload
    <3> QED BY <1>0, <3>3, <3>4, <3>5, <3>6 DEF IInv
  <2>3. CASE CommitLost(d)
    <3>1. /\ SerialHistory' /\ OneSubjectGeneration'
          /\ ackLedger \subseteq accountingRec'.ledger
      BY <2>3, AfterIsSerial DEF CommitLost
    <3>2. RecordOK'
      BY <2>3, <3>1 DEF CommitLost, Die, RecordOK, AcknowledgedSurvive, history
    <3>3. EpochOK' /\ PolicyOK'
      BY <1>t, <2>3 DEF CommitLost, Committable, Die, Forget, IInv, EpochOK, PolicyOK, Payload, history
    <3> QED BY <1>0, <2>3, <3>2, <3>3, DeathKeepsInv DEF CommitLost
  <2> QED BY <1>7, <2>1, <2>2, <2>3
<1>8. CASE StopFlag
  BY <1>0, <1>8 DEF StopFlag, IInv, RecordOK, AcknowledgedSurvive, SerialHistory, OneSubjectGeneration,
      MirrorOK, DecisionsOK, DecisionOK, EpochOK, PolicyOK, memory, history
<1>9. CASE Release \/ Crash
  BY <1>0, <1>9 DEF Release, Crash, Die, Forget, IInv, RecordOK, AcknowledgedSurvive, SerialHistory,
      OneSubjectGeneration, MirrorOK, DecisionsOK, DecisionOK, EpochOK, PolicyOK, history
<1>10. CASE UNCHANGED vars
  BY <1>10, <1>q DEF vars, memory
<1> QED BY <1>1, <1>2, <1>3, <1>4, <1>5, <1>6, <1>7, <1>8, <1>9, <1>10 DEF Next

LEMMA InvInit == Init => IInv
<1>1. Init => TypeOK
  BY DEF Init, TypeOK, NoAccounting, Accounting, Payload
<1> QED BY <1>1 DEF Init, IInv, RecordOK, AcknowledgedSurvive, SerialHistory, OneSubjectGeneration,
      MirrorOK, DecisionsOK, EpochOK, PolicyOK, NoAccounting, NoPolicy, Payload

LEMMA InvAlways == Spec => []IInv
BY InvInit, InvStep, PTL DEF Spec

\* What commit() acknowledged is never lost from the durable accounting.
THEOREM NothingAcknowledgedIsLost == Spec => []AcknowledgedSurvive
<1>1. IInv => AcknowledgedSurvive
  BY DEF IInv, RecordOK
<1> QED BY <1>1, InvAlways, PTL

\* However many callers evaluate and commit, and wherever the process dies,
\* windows are applied one at a time, in order, each from the state the
\* previous one left.
THEOREM CommitsAreSerial == Spec => []SerialHistory
<1>1. IInv => SerialHistory
  BY DEF IInv, RecordOK
<1> QED BY <1>1, InvAlways, PTL

\* The carry of one subject generation is never mixed with another's.
THEOREM GenerationsAreNotMixed == Spec => []OneSubjectGeneration
<1>1. IInv => OneSubjectGeneration
  BY DEF IInv, RecordOK
<1> QED BY <1>1, InvAlways, PTL

\* Every failure path of commit(), install_policy() and advance_epoch() leaves
\* the in-memory accounting equal to the durable one.
THEOREM MemoryMirrorsDisk == Spec => []MemoryIsDurable
<1>1. IInv => MemoryIsDurable
  BY DEF IInv, MirrorOK, MemoryIsDurable
<1> QED BY <1>1, InvAlways, PTL

\* Acknowledged epochs and policy generations are never rolled back, not even
\* by an open() that is configured with an older one.
THEOREM NoRollback == Spec => []NeverRollsBack
<1>1. IInv => NeverRollsBack
  <2> SUFFICES ASSUME IInv, mode = "open"
               PROVE  epoch >= ackEpoch /\ policy.gen >= ackPolicy
    BY DEF NeverRollsBack, AcknowledgedEpochHolds, PolicyNeverRollsBack
  <2>1. epoch \in Nat /\ ackEpoch \in Nat /\ accountingRec.epoch \in Nat
    BY RecordTypes DEF IInv, TypeOK
  <2> QED BY <2>1 DEF IInv, EpochOK, PolicyOK, MirrorOK
<1> QED BY <1>1, InvAlways, PTL

-------------------------------------------------------------------------------
(* Refinement: the durable accounting implements WindowLedger.             *)

\* A decision of this incarnation was computed under a policy no later than
\* the current one; under the current one, it is for the subject as governed,
\* so commit()'s check of the subject refuses nothing the checks before it let
\* through.
GovernedOK ==
  \A d \in decisions :
    mode # "down" /\ d.boot = boot =>
      /\ d.policy <= policy.gen
      /\ d.policy = policy.gen => d.sgen = policy.sgen

LEMMA GovernedStep == IInv /\ GovernedOK /\ [Next]_vars => GovernedOK'
<1> SUFFICES ASSUME IInv, GovernedOK, [Next]_vars PROVE GovernedOK'
  OBVIOUS
<1>t. /\ policy.gen \in Nat /\ boot \in Nat
      /\ \A d \in decisions : d.policy \in Nat /\ d.boot \in Nat /\ d.boot <= boot
  BY PolicyTypes DEF IInv, TypeOK, DecisionsOK, DecisionOK, Decision
\* Steps under the same policy, or after which there is no governor.
<1>q. ASSUME decisions' \subseteq decisions,
             mode' = "down" \/ (boot' = boot /\ policy' = policy /\ mode # "down")
      PROVE  GovernedOK'
  BY <1>q DEF GovernedOK
\* open() begins an incarnation no decision is of.
<1>s. ASSUME NEW p, NEW e, Serve(p, e) PROVE GovernedOK'
  <2>1. boot' = boot + 1 /\ decisions' = decisions
    BY <1>s DEF Serve
  <2> QED BY <1>t, <2>1 DEF GovernedOK
\* install_policy() moves to a later policy.
<1>i. ASSUME NEW p \in Policies, p.gen > policy.gen, policy' = p, decisions' = decisions,
             boot' = boot, mode' = mode
      PROVE  GovernedOK'
  <2>1. p.gen \in Nat
    BY PolicyTypes
  <2> QED BY <1>t, <1>i, <2>1 DEF GovernedOK
<1>1. ASSUME NEW p \in Policies, OpenDurable(p) \/ OpenConfigured(p) \/ OpenLost(p)
      PROVE  GovernedOK'
  <2>1. CASE OpenDurable(p) \/ OpenConfigured(p)
    BY <2>1, <1>s DEF OpenDurable, OpenConfigured
  <2>2. CASE OpenLost(p)
    BY <2>2, <1>q DEF OpenLost
  <2> QED BY <1>1, <2>1, <2>2
<1>2. ASSUME NEW p \in Policies,
             \/ InstallPolicy(p) \/ InstallPolicyFail(p)
             \/ InstallPolicyHalf(p) \/ InstallPolicyLost(p)
      PROVE  GovernedOK'
  <2>1. CASE InstallPolicy(p) \/ InstallPolicyHalf(p)
    BY <2>1, <1>i DEF InstallPolicy, InstallPolicyHalf, CanInstall
  <2>2. CASE InstallPolicyFail(p)
    BY <2>2, <1>q DEF InstallPolicyFail, CanInstall
  <2>3. CASE InstallPolicyLost(p)
    BY <2>3, <1>q DEF InstallPolicyLost, Die, Forget
  <2> QED BY <1>2, <2>1, <2>2, <2>3
<1>3. ASSUME NEW e \in Epochs, AdvanceEpoch(e) \/ AdvanceEpochFail(e) \/ AdvanceEpochLost(e)
      PROVE  GovernedOK'
  <2>1. CASE AdvanceEpoch(e) \/ AdvanceEpochFail(e)
    BY <2>1, <1>q DEF AdvanceEpoch, AdvanceEpochFail
  <2>2. CASE AdvanceEpochLost(e)
    BY <2>2, <1>q DEF AdvanceEpochLost, Die, Forget
  <2> QED BY <1>3, <2>1, <2>2
<1>4. ASSUME NEW e \in Evidence, IngestEvidence(e) PROVE GovernedOK'
  BY <1>4, <1>q DEF IngestEvidence, Admissible
<1>5. CASE ClearStaged
  BY <1>5, <1>q DEF ClearStaged
<1>6. ASSUME NEW p \in Policies, NEW f \in RequestEpochs, NEW e \in Evidence,
             NEW fresh \in BOOLEAN, Evaluate(p.gen, f, e, fresh)
      PROVE  GovernedOK'
  <2> DEFINE d == DecisionFor(p.gen, f, e, fresh)
  <2>1. decisions' = decisions \cup {d} /\ UNCHANGED <<mode, boot, policy>>
    BY <1>6 DEF Evaluate, memory
  <2>2. d.policy = policy.gen /\ d.sgen = policy.sgen
    BY DEF DecisionFor
  <2> HIDE DEF d
  <2> QED BY <1>t, <2>1, <2>2 DEF GovernedOK
<1>7. ASSUME NEW d \in decisions, Commit(d) \/ CommitFail(d) \/ CommitLost(d) \/ Discard(d)
      PROVE  GovernedOK'
  <2>1. CASE Commit(d) \/ CommitFail(d)
    BY <2>1, <1>q DEF Commit, CommitFail, Committable, memory
  <2>2. CASE CommitLost(d)
    BY <2>2, <1>q DEF CommitLost, Die, Forget
  <2>3. CASE Discard(d)
    BY <2>3 DEF Discard, GovernedOK, memory
  <2> QED BY <1>7, <2>1, <2>2, <2>3
<1>8. CASE StopFlag
  BY <1>8 DEF StopFlag, GovernedOK, memory
<1>9. CASE Release \/ Crash
  BY <1>9, <1>q DEF Release, Crash, Die, Forget
<1>10. CASE UNCHANGED vars
  BY <1>10 DEF vars, memory, GovernedOK
<1> QED BY <1>1, <1>2, <1>3, <1>4, <1>5, <1>6, <1>7, <1>8, <1>9, <1>10 DEF Next

\* A step that leaves the subject and the accounting alone is none of the
\* ledger.
LEMMA LedgerIdle ==
  ASSUME UNCHANGED <<policyRec, accountingRec, ackLedger>>
  PROVE  UNCHANGED Ledger!vars
BY DEF Ledger!vars

\* So is one that only names another subject, or drops a balance nobody was
\* told of.
LEMMA LedgerGovern ==
  ASSUME policyRec'.sgen \in Nat,
         accountingRec'.gen = accountingRec.gen, accountingRec'.last = accountingRec.last,
         \/ accountingRec'.ledger = accountingRec.ledger
         \/ accountingRec'.ledger = {} /\ ackLedger = {},
         ackLedger' \in {ackLedger, {a \in ackLedger : a.sgen = policyRec'.sgen}}
  PROVE  Ledger!Next
BY DEF Ledger!Next, Ledger!Govern, Ledger!Balances

\* commit() writes one window more, counted for the subject as governed and
\* from the balance the governor holds, or none where it has no authority.
LEMMA LedgerCommit ==
  ASSUME IInv, GovernedOK, NEW d \in decisions, Committable(d), policyRec' = policyRec,
         accountingRec' = Payload(After(d), epoch),
         \/ ackLedger' = ackLedger
         \/ ackLedger' = ackLedger \cup (IF d.authority THEN {EntryOf(d)} ELSE {})
  PROVE  Ledger!Next
<1> DEFINE a == EntryOf(d)
           kept == accounting.ledger
<1>1. /\ d.win \in Nat \ {0} /\ d.base = accounting.gen /\ d.boot = boot /\ mode = "open"
      /\ accounting.last = 0 \/ d.win > accounting.last
      /\ d.policy = policy.gen /\ accounting.last \in Nat
  BY RecordTypes DEF IInv, TypeOK, DecisionsOK, DecisionOK, Committable, Decision
<1>2. /\ accounting.gen = accountingRec.gen /\ accounting.last = accountingRec.last
      /\ kept \in {accountingRec.ledger, {}} /\ ackLedger \subseteq kept /\ policy = policyRec
  BY <1>1 DEF IInv, MirrorOK
<1>3. kept \in Ledger!Balances
  BY <1>2 DEF Ledger!Balances
<1>4. accountingRec'.gen = accounting.gen + 1 /\ accountingRec'.last = d.win
  BY DEF Payload, After
<1>5. Ledger!Advance
  BY <1>1, <1>2, <1>4 DEF Ledger!Advance
<1>6. CASE d.authority
  <2>1. accountingRec'.ledger = kept \cup {a}
    BY <1>6 DEF Payload, After
  <2>2. a.win = d.win /\ a.base = d.base /\ a.sgen = d.sgen
    BY DEF EntryOf
  <2>3. d.sgen = policyRec.sgen
    BY <1>1, <1>2 DEF GovernedOK
  <2>4. \A b \in kept : b.sgen = d.sgen
    BY <1>1, <1>6 DEF IInv, DecisionsOK, DecisionOK
  <2>5. ackLedger' \in {ackLedger, ackLedger \cup {a}}
    BY <1>6
  <2> HIDE DEF a, kept
  <2>6. Ledger!Count(a, kept)
    BY <1>1, <1>2, <1>4, <1>5, <2>1, <2>2, <2>3, <2>4, <2>5 DEF Ledger!Count
  <2> QED BY <1>3, <2>1, <2>6 DEF Ledger!Next
<1>7. CASE ~d.authority
  <2>1. accountingRec'.ledger = kept /\ ackLedger' = ackLedger
    BY <1>7 DEF Payload, After
  <2> HIDE DEF kept
  <2> QED BY <1>3, <1>5, <2>1 DEF Ledger!Pass, Ledger!Next
<1> QED BY <1>6, <1>7

LEMMA LedgerStep == IInv /\ TypeOK' /\ GovernedOK /\ [Next]_vars => [Ledger!Next]_(Ledger!vars)
<1> SUFFICES ASSUME IInv, TypeOK', GovernedOK, [Next]_vars PROVE Ledger!Next \/ UNCHANGED Ledger!vars
  OBVIOUS
<1>t. policyRec'.sgen \in Nat
  <2>1. policyRec' \in Policies \cup {NoPolicy}
    BY DEF TypeOK
  <2> QED BY <2>1, PoliciesAssumption DEF NoPolicy
<1>m. mode = "open" => /\ accounting.gen = accountingRec.gen /\ accounting.last = accountingRec.last
                       /\ accounting.ledger \in {accountingRec.ledger, {}}
                       /\ ackLedger \subseteq accounting.ledger
  BY DEF IInv, MirrorOK
\* Stamping the accounting with an epoch.
<1>e. ASSUME mode = "open", NEW e, accountingRec' = Payload(accounting, e), ackLedger' = ackLedger
      PROVE  Ledger!Next
  <2>1. /\ accountingRec'.gen = accountingRec.gen /\ accountingRec'.last = accountingRec.last
        /\ accountingRec'.ledger = accounting.ledger
    BY <1>e, <1>m DEF Payload
  <2> QED BY <1>e, <1>m, <1>t, <2>1, LedgerGovern
\* Naming another policy.
<1>p. ASSUME accountingRec' = accountingRec, ackLedger' = ackLedger PROVE Ledger!Next
  BY <1>p, <1>t, LedgerGovern
<1>1. ASSUME NEW p \in Policies, OpenDurable(p) \/ OpenConfigured(p) \/ OpenLost(p)
      PROVE  Ledger!Next
  <2>1. CASE OpenDurable(p)
    <3>1. policyRec' = policyRec /\ Serve(policyRec, policyRec.epoch)
      BY <2>1 DEF OpenDurable
    <3>2. accountingRec' = accountingRec /\ ackLedger' = {a \in ackLedger : a.sgen = policyRec'.sgen}
      BY <3>1 DEF Serve, Kept
    <3> QED BY <1>t, <3>2, LedgerGovern
  <2>2. CASE OpenConfigured(p)
    <3>1. policyRec' = p /\ Serve(p, p.epoch)
      BY <2>2 DEF OpenConfigured
    <3>2. accountingRec' = accountingRec /\ ackLedger' = {a \in ackLedger : a.sgen = policyRec'.sgen}
      BY <3>1 DEF Serve, Kept
    <3> QED BY <1>t, <3>2, LedgerGovern
  <2>3. CASE OpenLost(p)
    BY <2>3, <1>p DEF OpenLost, history
  <2> QED BY <1>1, <2>1, <2>2, <2>3
<1>2. ASSUME NEW p \in Policies,
             \/ InstallPolicy(p) \/ InstallPolicyFail(p)
             \/ InstallPolicyHalf(p) \/ InstallPolicyLost(p)
      PROVE  Ledger!Next
  <2>1. CASE InstallPolicy(p)
    BY <2>1, <1>e DEF InstallPolicy, CanInstall
  <2>2. CASE InstallPolicyFail(p) \/ InstallPolicyHalf(p) \/ InstallPolicyLost(p)
    BY <2>2, <1>p DEF InstallPolicyFail, InstallPolicyHalf, InstallPolicyLost, Die, history
  <2> QED BY <1>2, <2>1, <2>2
<1>3. ASSUME NEW e \in Epochs, AdvanceEpoch(e) \/ AdvanceEpochFail(e) \/ AdvanceEpochLost(e)
      PROVE  Ledger!Next
  <2>1. CASE AdvanceEpoch(e)
    BY <2>1, <1>e DEF AdvanceEpoch
  <2>2. CASE AdvanceEpochFail(e)
    BY <2>2, <1>p DEF AdvanceEpochFail, history
  <2>3. CASE AdvanceEpochLost(e)
    BY <2>3, <1>e DEF AdvanceEpochLost, Die, history
  <2> QED BY <1>3, <2>1, <2>2, <2>3
<1>4. ASSUME NEW e \in Evidence, IngestEvidence(e) PROVE UNCHANGED Ledger!vars
  BY <1>4, LedgerIdle DEF IngestEvidence, history
<1>5. CASE ClearStaged \/ StopFlag \/ Release
  BY <1>5, LedgerIdle DEF ClearStaged, StopFlag, Release, history
<1>6. ASSUME NEW p \in Policies, NEW f \in RequestEpochs, NEW e \in Evidence,
             NEW fresh \in BOOLEAN, Evaluate(p.gen, f, e, fresh)
      PROVE  UNCHANGED Ledger!vars
  BY <1>6, LedgerIdle DEF Evaluate, history
<1>7. ASSUME NEW d \in decisions, Commit(d) \/ CommitFail(d) \/ CommitLost(d) \/ Discard(d)
      PROVE  Ledger!Next \/ UNCHANGED Ledger!vars
  <2>1. CASE Commit(d)
    BY <2>1, LedgerCommit DEF Commit
  <2>2. CASE CommitLost(d)
    BY <2>2, LedgerCommit DEF CommitLost, Die, history
  <2>3. CASE CommitFail(d) \/ Discard(d)
    BY <2>3, LedgerIdle DEF CommitFail, Discard, history
  <2> QED BY <1>7, <2>1, <2>2, <2>3
<1>8. CASE Crash
  BY <1>8, LedgerIdle DEF Crash, Die, history
<1>9. CASE UNCHANGED vars
  BY <1>9, LedgerIdle DEF vars, history
<1> QED BY <1>1, <1>2, <1>3, <1>4, <1>5, <1>6, <1>7, <1>8, <1>9 DEF Next

LEMMA GovernedInit == Init => GovernedOK
BY DEF Init, GovernedOK

\* commit() never has to give up half way with "decision names a subject the
\* policy does not govern": a decision that passes the authority checks was
\* computed under the very policy in force, however many were installed and
\* whatever was reopened since.
THEOREM DecisionsNameGovernedSubjects == Spec => []GovernedOK
BY InvAlways, GovernedInit, GovernedStep, PTL DEF Spec

\* Whatever callers, failed writes, crashes and reopenings do, the durable
\* accounting behaves like a ledger in which each window is counted once, for
\* the subject as governed, from the balance the window before it left, and an
\* acknowledged one stays while that subject is governed.
THEOREM GovernorImplementsLedger == Spec => LedgerSpec
<1>1. Init => Ledger!Init
  BY DEF Init, Ledger!Init, NoPolicy, NoAccounting, Payload
<1>2. IInv => TypeOK
  BY DEF IInv
<1> QED BY <1>1, <1>2, InvAlways, DecisionsNameGovernedSubjects, LedgerStep, PTL DEF Spec, LedgerSpec, Ledger!Spec

-------------------------------------------------------------------------------
(* Staged evidence.                                                        *)

StagedInv == TypeOK /\ IsFiniteSet(staged) /\ StagedIsCurrent

\* A set of snapshots has one of the lowest window.
LEMMA LowestWindow ==
  ASSUME NEW S, S # {}, \A s \in S : s.win \in Nat
  PROVE  \E m \in S : \A s \in S : m.win <= s.win
<1> DEFINE W == {s.win : s \in S}
           R == OpToRel(<, Nat)
<1>1. W \subseteq Nat /\ W # {} /\ \A s \in S : s.win \in W
  OBVIOUS
<1>2. IsWellFoundedOn(R, Nat)
  BY NatLessThanWellFounded
<1>3. \A a, b \in Nat : a < b => <<a, b>> \in R
  BY DEF OpToRel
<1> HIDE DEF R
<1>4. \E x \in W : \A y \in W : ~(<<y, x>> \in R)
  <2> HIDE DEF W
  <2> QED BY <1>1, <1>2, WFMin
<1>5. PICK x \in W : \A y \in W : ~(<<y, x>> \in R)
  BY <1>4
<1>6. PICK m \in S : m.win = x
  BY <1>5
<1>7. \A s \in S : ~(s.win < m.win)
  BY <1>1, <1>3, <1>5, <1>6
<1> QED BY <1>7

\* One snapshot more than the limit: that of the lowest window is evicted.
LEMMA EvictionBounds ==
  ASSUME NEW S, IsFiniteSet(S), \A s \in S : s.win \in Nat,
         \A s, t \in S : s.win = t.win => s = t, Cardinality(S) <= MaxStaged + 1
  PROVE  IsFiniteSet(EvictWindows(S)) /\ Cardinality(EvictWindows(S)) <= MaxStaged
<1> DEFINE E == EvictWindows(S)
<1>1. MaxStaged \in Nat \ {0} /\ Cardinality(S) \in Nat
  BY BoundsAssumption, FS_CardinalityType
<1>2. E \in SUBSET S
  BY DEF EvictWindows
<1>3. IsFiniteSet(E) /\ Cardinality(E) <= Cardinality(S) /\ Cardinality(E) \in Nat
  BY <1>2, FS_Subset, FS_CardinalityType
<1>4. CASE Cardinality(S) <= MaxStaged
  <2> HIDE DEF E
  <2>1. Cardinality(E) <= MaxStaged
    BY <1>1, <1>3, <1>4
  <2> QED BY <1>3, <2>1 DEF E
<1>5. CASE Cardinality(S) = MaxStaged + 1
  <2>1. S # {}
    BY <1>1, <1>5, FS_EmptySet
  <2>2. PICK m \in S : \A s \in S : m.win <= s.win
    BY <2>1, LowestWindow
  <2>3. {t \in S : m.win < t.win} = S \ {m}
    <3>1. \A t \in S : m.win < t.win <=> t # m
      BY <2>2
    <3> QED BY <3>1
  <2>4. IsFiniteSet(S \ {m}) /\ Cardinality(S \ {m}) = MaxStaged
    BY <1>1, <1>5, <2>2, FS_RemoveElement
  <2>5. m \notin E
    BY <1>1, <2>3, <2>4 DEF EvictWindows
  <2> HIDE DEF E
  <2>6. E \in SUBSET (S \ {m})
    BY <1>2, <2>5
  <2>7. Cardinality(E) <= MaxStaged
    BY <2>4, <2>6, FS_Subset
  <2> QED BY <1>3, <2>7 DEF E
<1> QED BY <1>1, <1>4, <1>5

\* A snapshot that is staged replaces the one of its window, or is added.
LEMMA IngestKeepsStaged ==
  ASSUME StagedInv, NEW e \in Evidence, IngestEvidence(e)
  PROVE  IsFiniteSet(staged') /\ StagedIsCurrent'
<1> DEFINE R == {s \in staged : s.win # e.win}
           S == R \cup {e}
<1>1. staged' = EvictWindows(S) /\ epoch' = epoch /\ e.epoch = epoch
  BY DEF IngestEvidence, Admissible
<1>2. /\ IsFiniteSet(staged) /\ Cardinality(staged) <= MaxStaged /\ staged \subseteq Evidence
      /\ \A s \in staged : s.epoch = epoch
      /\ \A s, t \in staged : s.win = t.win => s = t
  BY DEF StagedInv, StagedIsCurrent, TypeOK
<1>3. \A s \in Evidence : s.win \in Nat
  BY EvidenceTypes
<1>4. MaxStaged \in Nat /\ Cardinality(staged) \in Nat
  BY <1>2, BoundsAssumption, FS_CardinalityType
<1>5. IsFiniteSet(R) /\ Cardinality(R) <= Cardinality(staged) /\ Cardinality(R) \in Nat /\ e \notin R
  BY <1>2, FS_Subset, FS_CardinalityType
<1>6. /\ \A s \in S : s.win \in Nat /\ s.epoch = epoch
      /\ \A s, t \in S : s.win = t.win => s = t
  BY <1>1, <1>2, <1>3
<1> HIDE DEF R
<1>7. IsFiniteSet(S) /\ Cardinality(S) = Cardinality(R) + 1
  BY <1>5, FS_AddElement
<1>8. Cardinality(S) <= MaxStaged + 1
  BY <1>2, <1>4, <1>5, <1>7
<1> HIDE DEF S
<1>9. IsFiniteSet(staged') /\ Cardinality(staged') <= MaxStaged
  BY <1>1, <1>6, <1>7, <1>8, EvictionBounds
<1>10. staged' \subseteq S
  BY <1>1 DEF EvictWindows
<1> QED BY <1>1, <1>6, <1>9, <1>10 DEF StagedIsCurrent

LEMMA StagedStep == StagedInv /\ [Next]_vars => StagedInv'
<1> SUFFICES ASSUME StagedInv, [Next]_vars PROVE StagedInv'
  OBVIOUS
<1>0. TypeOK /\ TypeOK'
  BY TypeStep DEF StagedInv
<1>d. ASSUME DropStaged PROVE StagedInv'
  <2>1. staged' = {}
    BY <1>d DEF DropStaged
  <2> QED BY <1>0, <2>1, FS_EmptySet, BoundsAssumption DEF StagedInv, StagedIsCurrent
<1>k. ASSUME staged' = staged, epoch' = epoch PROVE StagedInv'
  BY <1>0, <1>k DEF StagedInv, StagedIsCurrent
<1>1. ASSUME NEW p \in Policies, OpenDurable(p) \/ OpenConfigured(p) \/ OpenLost(p)
      PROVE  StagedInv'
  BY <1>1, <1>d, <1>k DEF OpenDurable, OpenConfigured, OpenLost, Serve, memory
<1>2. ASSUME NEW p \in Policies,
             \/ InstallPolicy(p) \/ InstallPolicyFail(p)
             \/ InstallPolicyHalf(p) \/ InstallPolicyLost(p)
      PROVE  StagedInv'
  <2>1. p.epoch \in Nat /\ epoch \in Nat
    BY <1>0, PolicyTypes DEF TypeOK
  <2>2. CASE DropStaged
    BY <2>2, <1>d
  <2>3. CASE ~DropStaged
    BY <1>2, <1>k, <2>1, <2>3
       DEF InstallPolicy, InstallPolicyFail, InstallPolicyHalf, InstallPolicyLost, CanInstall, FenceEpoch,
           KeepStaged, Die, Forget
  <2> QED BY <2>2, <2>3
<1>3. ASSUME NEW e \in Epochs, AdvanceEpoch(e) \/ AdvanceEpochFail(e) \/ AdvanceEpochLost(e)
      PROVE  StagedInv'
  BY <1>3, <1>d DEF AdvanceEpoch, AdvanceEpochFail, AdvanceEpochLost, Die, Forget
<1>4. ASSUME NEW e \in Evidence, IngestEvidence(e) PROVE StagedInv'
  BY <1>0, <1>4, IngestKeepsStaged DEF StagedInv
<1>5. CASE ClearStaged
  BY <1>5, <1>d DEF ClearStaged
<1>6. ASSUME NEW p \in Policies, NEW f \in RequestEpochs, NEW e \in Evidence,
             NEW fresh \in BOOLEAN, Evaluate(p.gen, f, e, fresh)
      PROVE  StagedInv'
  BY <1>6, <1>k DEF Evaluate, memory
<1>7. ASSUME NEW d \in decisions, Commit(d) \/ CommitFail(d) \/ CommitLost(d) \/ Discard(d)
      PROVE  StagedInv'
  BY <1>7, <1>d, <1>k DEF Commit, CommitFail, CommitLost, Discard, Die, Forget, memory
<1>8. CASE StopFlag \/ Release \/ Crash
  BY <1>8, <1>d, <1>k DEF StopFlag, Release, Crash, Die, Forget, memory
<1>9. CASE UNCHANGED vars
  BY <1>9, <1>k DEF vars, memory
<1> QED BY <1>1, <1>2, <1>3, <1>4, <1>5, <1>6, <1>7, <1>8, <1>9 DEF Next

\* Whatever fails half way, evidence of a former epoch is never staged, no window
\* has two snapshots, and ingest_evidence keeps to its limit.
THEOREM StagedEvidenceIsCurrent == Spec => []StagedIsCurrent
<1>1. Init => StagedInv
  <2>1. Init => TypeOK
    BY DEF Init, TypeOK, NoAccounting, Accounting, Payload
  <2> QED BY <2>1, FS_EmptySet, BoundsAssumption DEF Init, StagedInv, StagedIsCurrent
<1>2. StagedInv => StagedIsCurrent
  BY DEF StagedInv
<1> QED BY <1>1, <1>2, StagedStep, PTL DEF Spec

-------------------------------------------------------------------------------
(* The evidence link.  Its types first.                                    *)

ClientType ==
  [phase : {"new", "hello", "ready", "waiting", "closed"}, epoch : Nat, pub : Publishers \cup {0},
   load : Nat, seq : Nat, lost : Nat, snap : Snapshots, late : BOOLEAN]

WorkerPhases == {"new", "hello", "frames", "request", "ingest", "evaluate", "commit", "ack", "closed"}

Busy == {"request", "ingest", "evaluate", "commit", "ack"}

WorkerType ==
  [phase : WorkerPhases, expected : Nat \ {0}, snap : Snapshots, g : Nat, f : Nat,
   d : Decision \cup {NoDecision}, code : Codes]

LEMMA LinkTypes ==
  LinkTypeOK <=>
    /\ client \in [Connections -> ClientType]
    /\ \A c \in Connections : client[c].seq <= client[c].load
    /\ worker \in [Connections -> WorkerType]
    /\ \A c \in Connections : worker[c].phase \in Busy => worker[c].snap \in Evidence
    /\ up \in [Connections -> Seq(Frame)]
    /\ down \in [Connections -> Seq(Answer)]
    /\ taken \subseteq Evidence
BY DEF LinkTypeOK, ClientType, WorkerType, WorkerPhases, Busy

LEMMA NoDecisionType == NoDecision \in Decision
BY DEF NoDecision, Decision

LEMMA RequestEpochsType == RequestEpochs \subseteq Nat \ {0}
BY PoliciesAssumption, BoundsAssumption DEF RequestEpochs

\* The frames publishers send: one of kind evidence holds a snapshot.
SentFrame == {m \in Frame : m.kind = "evidence" => m.snap \in Evidence}

LEMMA SendUpType ==
  ASSUME up \in [Connections -> Seq(SentFrame)], NEW c \in Connections,
         NEW kind \in {"hello", "evidence", "goodbye", "torn"}, NEW f \in Nat, NEW n \in Nat, NEW s \in Snapshots,
         kind = "evidence" => s \in Evidence,
         SendUp(c, kind, f, n, s)
  PROVE  up' \in [Connections -> Seq(SentFrame)]
<1> DEFINE m == [kind |-> kind, epoch |-> f, seq |-> n, snap |-> s]
<1>1. m \in SentFrame
  BY DEF Frame, SentFrame
<1>2. up' = [up EXCEPT ![c] = Append(up[c], m)]
  BY DEF SendUp
<1> HIDE DEF m
<1> QED BY <1>1, <1>2

LEMMA SendDownType ==
  ASSUME down \in [Connections -> Seq(Answer)], NEW c \in Connections,
         NEW kind \in {"hello_ack", "evidence_ack", "error"}, NEW code \in Codes, NEW s \in Snapshots,
         SendDown(c, kind, code, s)
  PROVE  down' \in [Connections -> Seq(Answer)]
<1> DEFINE m == [kind |-> kind, code |-> code, snap |-> s]
<1>1. m \in Answer
  BY DEF Answer
<1>2. down' = [down EXCEPT ![c] = Append(down[c], m)]
  BY DEF SendDown
<1> HIDE DEF m
<1> QED BY <1>1, <1>2

LEMMA ReadType ==
  ASSUME NEW M, NEW q \in [Connections -> Seq(M)], NEW c \in Connections, q[c] # <<>>
  PROVE  [q EXCEPT ![c] = Tail(@)] \in [Connections -> Seq(M)] /\ Head(q[c]) \in M
<1>1. Tail(q[c]) \in Seq(M) /\ Head(q[c]) \in M
  OBVIOUS
<1> QED BY <1>1

\* What a worker relies on, beyond the types: the governor is open while there
\* are connections, a request names a policy and an epoch that exist, and the
\* governor's caller still holds the decision the worker is about to commit.
Governing ==
  /\ mode = "open" => policy \in Policies /\ epoch \in RequestEpochs
  /\ accountingRec.epoch \in RequestEpochs \cup {0}

ServedBy(w, m, D) ==
  /\ w.phase \notin {"new", "closed"} => m = "open"
  /\ w.phase \in {"ingest", "evaluate"} => (\E p \in Policies : w.g = p.gen) /\ w.f \in RequestEpochs
  /\ w.phase = "commit" => w.d \in D

Serving ==
  /\ up \in [Connections -> Seq(SentFrame)]
  /\ Governing
  /\ \A c \in Connections : ServedBy(worker[c], mode, decisions)

LinkInv == TypeOK /\ LinkTypeOK /\ Serving

\* Every step of the link is a step of the governor, or none of it.
LEMMA LinkStepRefines == LinkInv /\ [LinkNext]_allVars => [Next]_vars
<1> SUFFICES ASSUME LinkInv, [LinkNext]_allVars PROVE [Next]_vars
  OBVIOUS
<1>1. CASE UNCHANGED vars
  BY <1>1
<1>2. ASSUME NEW c \in Connections, Stage(c) PROVE Next
  <2>1. worker[c].snap \in Evidence /\ IngestEvidence(worker[c].snap)
    BY <1>2 DEF Stage, LinkInv, LinkTypeOK
  <2> QED BY <2>1 DEF Next
<1>3. ASSUME NEW c \in Connections, EvaluateStaged(c) PROVE Next
  <2> DEFINE w == worker[c]
  <2>1. w.snap \in Evidence /\ Evaluate(w.g, w.f, w.snap, TRUE) /\ w.phase = "evaluate"
    BY <1>3 DEF EvaluateStaged, LinkInv, LinkTypeOK
  <2>2. (\E p \in Policies : w.g = p.gen) /\ w.f \in RequestEpochs
    BY <2>1 DEF LinkInv, Serving, ServedBy
  <2> QED BY <2>1, <2>2 DEF Next
<1>4. ASSUME NEW c \in Connections, CommitStaged(c) PROVE [Next]_vars
  <2> DEFINE d == worker[c].d
  <2>1. d \in decisions /\ decisions' \in {decisions, decisions \ {d}}
    <3>1. d \in decisions
      BY <1>4 DEF CommitStaged, LinkInv, Serving, ServedBy
    <3>2. decisions' = decisions \ ({d} \ HeldElsewhere(c))
      BY <1>4 DEF CommitStaged
    <3> QED BY <3>1, <3>2
  <2>2. CASE Commit(d) \/ CommitFail(d)
    BY <2>1, <2>2 DEF Next
  <2>3. CASE UNCHANGED <<mode, boot, memory, policyRec, accountingRec, history>>
    <3>1. CASE decisions' = decisions
      BY <2>3, <3>1 DEF vars
    <3>2. CASE decisions' = decisions \ {d}
      <4>1. Discard(d)
        BY <2>3, <3>2 DEF Discard
      <4> QED BY <2>1, <4>1 DEF Next
    <3> QED BY <2>1, <3>1, <3>2
  <2> QED BY <1>4, <2>2, <2>3 DEF CommitStaged
<1>5. CASE Administer
  BY <1>5 DEF Administer, Next
<1>6. CASE ServerCrash
  <2>1. CASE Crash
    BY <2>1 DEF Next
  <2>2. ASSUME NEW c \in Connections, worker[c].phase = "commit", CommitLost(worker[c].d) PROVE Next
    <3>1. worker[c].d \in decisions
      BY <2>2 DEF LinkInv, Serving, ServedBy
    <3> QED BY <2>2, <3>1 DEF Next
  <2> QED BY <1>6, <2>1, <2>2 DEF ServerCrash
<1>7. ASSUME NEW c \in Connections, NEW f \in Epochs, NEW p \in Publishers, Connect(c, f, p)
      PROVE  UNCHANGED vars
  BY <1>7 DEF Connect
<1>8. ASSUME NEW c \in Connections, NEW s \in Evidence, Submit(c, s) PROVE UNCHANGED vars
  BY <1>8 DEF Submit
<1>9. ASSUME NEW c \in Connections,
             \/ ReceiveHelloAck(c) \/ ConnectFails(c) \/ ReceiveAnswer(c) \/ NoAnswer(c) \/ Leave(c)
             \/ SubmitFails(c) \/ DropConnection(c) \/ DropFrame(c)
      PROVE  UNCHANGED vars
  BY <1>9 DEF SubmitFails, ReceiveHelloAck, ConnectFails, ReceiveAnswer, NoAnswer, Leave, DropConnection, DropFrame
<1>10. ASSUME NEW c \in Connections,
              \/ Handshake(c) \/ RefuseFrame(c) \/ Goodbye(c) \/ TakeEvidence(c)
              \/ MakeRequest(c) \/ NotStaged(c) \/ SendAck(c)
       PROVE  UNCHANGED vars
  BY <1>10 DEF Handshake, RefuseFrame, Goodbye, TakeEvidence, MakeRequest, NotStaged, SendAck
<1>11. CASE UNCHANGED allVars
  BY <1>11 DEF allVars
<1> QED BY <1>1, <1>2, <1>3, <1>4, <1>5, <1>6, <1>7, <1>8, <1>9, <1>10, <1>11 DEF LinkNext, WorkerStep, ReadTorn

LEMMA LinkConstants ==
  /\ NoSnapshot \in Snapshots /\ Evidence \subseteq Snapshots /\ NoDecision \in Decision
  /\ {"ok", "duplicate", "rejected", "stale_epoch", "sequence", "truncated"} = Codes
  /\ \A e \in Evidence : e.epoch \in Nat /\ e.pub \in Publishers
BY NoDecisionType, EvidenceTypes DEF Snapshots, Codes

\* The publisher's end.
ClientOK == client \in [Connections -> ClientType] /\ \A c \in Connections : client[c].seq <= client[c].load

\* The server's end.
WorkerOK ==
  /\ worker \in [Connections -> WorkerType]
  /\ \A c \in Connections : worker[c].phase \in Busy => worker[c].snap \in Evidence

LEMMA ClientSet ==
  ASSUME ClientOK, NEW c \in Connections, NEW n \in ClientType, n.seq <= n.load,
         client' = [client EXCEPT ![c] = n]
  PROVE  ClientOK'
BY DEF ClientOK

LEMMA ClientPhase ==
  ASSUME ClientOK, NEW c \in Connections, NEW ph \in {"new", "hello", "ready", "waiting", "closed"},
         client' = [client EXCEPT ![c].phase = ph]
  PROVE  ClientOK'
<1> DEFINE n == [client[c] EXCEPT !.phase = ph]
<1>1. n \in ClientType /\ n.seq <= n.load
  BY DEF ClientOK, ClientType
<1>2. client' = [client EXCEPT ![c] = n]
  OBVIOUS
<1> HIDE DEF n
<1> QED BY <1>1, <1>2, ClientSet

LEMMA WorkerSet ==
  ASSUME WorkerOK, NEW c \in Connections, NEW n \in WorkerType, n.phase \in Busy => n.snap \in Evidence,
         worker' = [worker EXCEPT ![c] = n]
  PROVE  WorkerOK'
BY DEF WorkerOK

LEMMA LinkTypeStep ==
  ASSUME LinkInv, TypeOK', [LinkNext]_allVars
  PROVE  LinkTypeOK' /\ up' \in [Connections -> Seq(SentFrame)]
<1>1. /\ ClientOK /\ WorkerOK /\ taken \subseteq Evidence
      /\ up \in [Connections -> Seq(SentFrame)] /\ down \in [Connections -> Seq(Answer)]
  BY LinkTypes DEF LinkInv, Serving, ClientOK, WorkerOK
<1>2. /\ policy.gen \in Nat /\ epoch \in Nat /\ decisions' \subseteq Decision /\ boot \in Nat
  BY PolicyTypes DEF LinkInv, TypeOK
<1>3. SUFFICES /\ ClientOK' /\ WorkerOK' /\ taken' \subseteq Evidence
               /\ up' \in [Connections -> Seq(SentFrame)] /\ down' \in [Connections -> Seq(Answer)]
  <2>1. LinkTypeOK' <=>
          /\ ClientOK' /\ WorkerOK' /\ taken' \subseteq Evidence
          /\ up' \in [Connections -> Seq(Frame)] /\ down' \in [Connections -> Seq(Answer)]
    BY DEF LinkTypeOK, ClientOK, ClientType, WorkerOK, WorkerType, WorkerPhases, Busy
  <2>2. Seq(SentFrame) \subseteq Seq(Frame)
    BY DEF SentFrame
  <2> QED BY <2>1, <2>2
<1>k. ASSUME UNCHANGED client PROVE ClientOK'
  BY <1>1, <1>k DEF ClientOK
<1>w. ASSUME UNCHANGED worker PROVE WorkerOK'
  BY <1>1, <1>w DEF WorkerOK
\* A worker that ends its connection, or waits for frames.
<1>e. ASSUME NEW c \in Connections, NEW ph \in {"hello", "frames", "closed"},
             worker' = [worker EXCEPT ![c].phase = ph]
      PROVE  WorkerOK'
  <2> DEFINE n == [worker[c] EXCEPT !.phase = ph]
  <2>1. worker[c] \in WorkerType
    BY <1>1 DEF WorkerOK
  <2>2. n \in WorkerType /\ n.phase \notin Busy
    BY <2>1 DEF WorkerType, WorkerPhases, Busy
  <2>3. worker' = [worker EXCEPT ![c] = n]
    BY <1>e
  <2> HIDE DEF n
  <2> QED BY <1>1, <2>2, <2>3, WorkerSet
<1>4. ASSUME NEW c \in Connections, NEW f \in Epochs, NEW p \in Publishers, Connect(c, f, p)
      PROVE  /\ ClientOK' /\ WorkerOK' /\ taken' \subseteq Evidence
             /\ up' \in [Connections -> Seq(SentFrame)] /\ down' \in [Connections -> Seq(Answer)]
  <2>1. f \in Nat
    BY BoundsAssumption
  <2>2. ClientOK'
    <3> DEFINE n == [client[c] EXCEPT !.phase = "hello", !.epoch = f, !.pub = p]
    <3>1. client' = [client EXCEPT ![c] = n]
      BY <1>4 DEF Connect
    <3>2. n \in ClientType /\ n.seq <= n.load
      BY <1>1, <2>1 DEF ClientOK, ClientType
    <3> HIDE DEF n
    <3> QED BY <1>1, <3>1, <3>2, ClientSet
  <2>3. WorkerOK'
    BY <1>4, <1>e DEF Connect
  <2>4. up' \in [Connections -> Seq(SentFrame)]
    BY <1>1, <1>4, <2>1, SendUpType, LinkConstants DEF Connect
  <2> QED BY <1>1, <1>4, <2>2, <2>3, <2>4 DEF Connect
<1>5. ASSUME NEW c \in Connections, NEW s \in Evidence, Submit(c, s)
      PROVE  /\ ClientOK' /\ WorkerOK' /\ taken' \subseteq Evidence
             /\ up' \in [Connections -> Seq(SentFrame)] /\ down' \in [Connections -> Seq(Answer)]
  <2>1. client[c].seq \in Nat /\ s.epoch \in Nat /\ s \in Snapshots
    BY <1>1, LinkConstants DEF ClientOK, ClientType
  <2>2. ClientOK'
    <3> DEFINE n == [client[c] EXCEPT !.phase = "waiting", !.seq = client[c].seq + 1, !.snap = s]
    <3>1. client' = [client EXCEPT ![c] = n] /\ client[c].seq < client[c].load
      BY <1>5 DEF Submit
    <3>2. client[c].seq + 1 \in Nat /\ client[c].seq + 1 <= client[c].load /\ client[c] \in ClientType
      BY <1>1, <2>1, <3>1 DEF ClientOK, ClientType
    <3>3. n \in ClientType /\ n.seq = client[c].seq + 1 /\ n.load = client[c].load
      BY <2>1, <3>2 DEF ClientType
    <3> HIDE DEF n
    <3> QED BY <1>1, <3>1, <3>2, <3>3, ClientSet
  <2>3. up' \in [Connections -> Seq(SentFrame)]
    <3>1. client[c].seq + 1 \in Nat
      BY <2>1
    <3> QED BY <1>1, <1>5, <2>1, <3>1, SendUpType DEF Submit
  <2> QED BY <1>1, <1>5, <1>w, <2>2, <2>3 DEF Submit
<1>f. ASSUME NEW c \in Connections, SubmitFails(c)
      PROVE  /\ ClientOK' /\ WorkerOK' /\ taken' \subseteq Evidence
             /\ up' \in [Connections -> Seq(SentFrame)] /\ down' \in [Connections -> Seq(Answer)]
  <2>1. client[c].seq \in Nat /\ client[c].lost \in Nat
    BY <1>1 DEF ClientOK, ClientType
  <2>2. ClientOK'
    <3> DEFINE b == IF client[c].lost = 0 THEN client[c].seq + 1 ELSE client[c].lost
               n == [client[c] EXCEPT !.seq = client[c].seq + 1, !.late = TRUE, !.lost = b]
    <3>1. client' = [client EXCEPT ![c] = n] /\ client[c].seq < client[c].load
      BY <1>f DEF SubmitFails
    <3>2. /\ client[c].seq + 1 \in Nat /\ client[c].seq + 1 <= client[c].load /\ client[c] \in ClientType
          /\ b \in Nat
      BY <1>1, <2>1, <3>1 DEF ClientOK, ClientType
    <3> HIDE DEF b
    <3>3. n \in ClientType /\ n.seq = client[c].seq + 1 /\ n.load = client[c].load
      BY <2>1, <3>2 DEF ClientType
    <3> HIDE DEF n
    <3> QED BY <1>1, <3>1, <3>2, <3>3, ClientSet
  <2>3. up' \in [Connections -> Seq(SentFrame)]
    <3>1. CASE SendUp(c, "torn", 0, 0, NoSnapshot)
      BY <1>1, <3>1, SendUpType, LinkConstants
    <3> QED BY <1>1, <1>f, <3>1 DEF SubmitFails
  <2> QED BY <1>1, <1>f, <1>w, <2>2, <2>3 DEF SubmitFails
<1>6. ASSUME NEW c \in Connections,
             ReceiveHelloAck(c) \/ ConnectFails(c) \/ ReceiveAnswer(c) \/ NoAnswer(c) \/ Leave(c)
      PROVE  /\ ClientOK' /\ WorkerOK' /\ taken' \subseteq Evidence
             /\ up' \in [Connections -> Seq(SentFrame)] /\ down' \in [Connections -> Seq(Answer)]
  <2>1. WorkerOK' /\ taken' \subseteq Evidence
    BY <1>1, <1>6, <1>w DEF ReceiveHelloAck, ConnectFails, ReceiveAnswer, NoAnswer, Leave
  <2>2. ClientOK'
    <3>1. CASE ReceiveHelloAck(c)
      BY <1>1, <3>1, ClientPhase DEF ReceiveHelloAck
    <3>2. CASE ConnectFails(c) \/ Leave(c)
      BY <1>1, <3>2, ClientPhase DEF ConnectFails, Leave
    <3>3. CASE ReceiveAnswer(c) \/ NoAnswer(c)
      <4>1. PICK b \in BOOLEAN : client' = [client EXCEPT ![c] =
                  IF b THEN [client[c] EXCEPT !.phase = "ready", !.snap = NoSnapshot, !.late = TRUE]
                  ELSE [client[c] EXCEPT !.phase = "ready", !.snap = NoSnapshot]]
        <5>1. CASE ReceiveAnswer(c)
          BY <5>1 DEF ReceiveAnswer
        <5>2. CASE NoAnswer(c)
          BY <5>2 DEF NoAnswer
        <5> QED BY <3>3, <5>1, <5>2
      <4> DEFINE n == IF b THEN [client[c] EXCEPT !.phase = "ready", !.snap = NoSnapshot, !.late = TRUE]
                      ELSE [client[c] EXCEPT !.phase = "ready", !.snap = NoSnapshot]
      <4>2. n \in ClientType /\ n.seq <= n.load
        <5>1. CASE b
          BY <1>1, <5>1, LinkConstants DEF ClientOK, ClientType
        <5>2. CASE ~b
          BY <1>1, <5>2, LinkConstants DEF ClientOK, ClientType
        <5> QED BY <5>1, <5>2
      <4>3. client' = [client EXCEPT ![c] = n]
        BY <4>1
      <4> HIDE DEF n
      <4> QED BY <1>1, <4>2, <4>3, ClientSet
    <3> QED BY <1>6, <3>1, <3>2, <3>3
  <2>3. up' \in [Connections -> Seq(SentFrame)]
    <3>1. client[c].epoch \in Nat
      BY <1>1 DEF ClientOK, ClientType
    <3>2. CASE SendUp(c, "goodbye", client[c].epoch, 0, NoSnapshot)
      BY <1>1, <3>1, <3>2, SendUpType, LinkConstants
    <3>3. CASE UNCHANGED up
      BY <1>1, <3>3
    <3> QED BY <1>6, <3>2, <3>3 DEF ReceiveHelloAck, ConnectFails, ReceiveAnswer, NoAnswer, Leave
  <2>4. down' \in [Connections -> Seq(Answer)]
    <3>1. CASE ReceiveHelloAck(c) \/ ReceiveAnswer(c)
      <4>1. down[c] # <<>> /\ down' = [down EXCEPT ![c] = Tail(@)]
        BY <3>1 DEF ReceiveHelloAck, ReceiveAnswer
      <4> QED BY <1>1, <4>1, ReadType
    <3>2. CASE ConnectFails(c) \/ Leave(c)
      BY <1>1, <3>2 DEF ConnectFails, Leave
    <3>3. CASE NoAnswer(c)
      <4>1. PICK lost \in 0..Len(down[c]) : down' = [down EXCEPT ![c] = SubSeq(down[c], lost + 1, Len(down[c]))]
        BY <3>3 DEF NoAnswer
      <4>2. SubSeq(down[c], lost + 1, Len(down[c])) \in Seq(Answer)
        BY <1>1
      <4> QED BY <1>1, <4>1, <4>2
    <3> QED BY <1>6, <3>1, <3>2, <3>3
  <2> QED BY <2>1, <2>2, <2>3, <2>4
<1>7. ASSUME NEW c \in Connections,
             DropConnection(c) \/ DropFrame(c) \/ Handshake(c) \/ RefuseFrame(c) \/ Goodbye(c)
      PROVE  /\ ClientOK' /\ WorkerOK' /\ taken' \subseteq Evidence
             /\ up' \in [Connections -> Seq(SentFrame)] /\ down' \in [Connections -> Seq(Answer)]
  <2>1. ClientOK' /\ taken' \subseteq Evidence
    BY <1>1, <1>7, <1>k DEF DropConnection, DropFrame, Handshake, RefuseFrame, Goodbye
  <2>2. WorkerOK'
    <3>1. CASE Handshake(c)
      BY <1>e, <3>1 DEF Handshake
    <3>2. CASE DropConnection(c) \/ DropFrame(c) \/ RefuseFrame(c) \/ Goodbye(c)
      <4>1. worker' = [worker EXCEPT ![c].phase = "closed"]
        BY <3>2 DEF DropConnection, DropFrame, RefuseFrame, Goodbye
      <4> QED BY <1>e, <4>1
    <3> QED BY <1>7, <3>1, <3>2
  <2>3. up' \in [Connections -> Seq(SentFrame)]
    <3>1. CASE Handshake(c) \/ RefuseFrame(c) \/ Goodbye(c)
      <4>1. up[c] # <<>> /\ up' = [up EXCEPT ![c] = Tail(@)]
        BY <3>1 DEF Handshake, RefuseFrame, Goodbye
      <4> QED BY <1>1, <4>1, ReadType
    <3>2. CASE DropConnection(c) \/ DropFrame(c)
      BY <1>1, <3>2 DEF DropConnection, DropFrame
    <3> QED BY <1>7, <3>1, <3>2
  <2>4. down' \in [Connections -> Seq(Answer)]
    <3>1. CASE UNCHANGED down
      BY <1>1, <3>1
    <3>2. CASE \E kind \in {"hello_ack", "error"}, code \in Codes : SendDown(c, kind, code, NoSnapshot)
      BY <1>1, <3>2, SendDownType, LinkConstants
    <3>3. CASE DropConnection(c) \/ Goodbye(c)
      BY <3>1, <3>3 DEF DropConnection, Goodbye
    <3>4. CASE DropFrame(c)
      BY <3>2, <3>4, LinkConstants DEF DropFrame
    <3>5. CASE Handshake(c)
      BY <3>2, <3>5, LinkConstants DEF Handshake
    <3>6. CASE RefuseFrame(c)
      BY <3>2, <3>6, LinkConstants DEF RefuseFrame
    <3> QED BY <1>7, <3>3, <3>4, <3>5, <3>6
  <2> QED BY <2>1, <2>2, <2>3, <2>4
<1>8. ASSUME NEW c \in Connections, MakeRequest(c) \/ Stage(c) \/ NotStaged(c) \/ CommitStaged(c)
      PROVE  /\ ClientOK' /\ WorkerOK' /\ taken' \subseteq Evidence
             /\ up' \in [Connections -> Seq(SentFrame)] /\ down' \in [Connections -> Seq(Answer)]
  <2>1. /\ UNCHANGED <<client, up, down>> /\ taken' \in {taken, taken \cup {worker[c].snap}}
        /\ worker[c].phase \in Busy
    BY <1>8 DEF MakeRequest, Stage, NotStaged, CommitStaged, Busy
  <2>2. worker[c].snap \in Evidence
    BY <1>1, <2>1 DEF WorkerOK
  <2>3. WorkerOK'
    <3>0. worker[c] \in WorkerType
      BY <1>1 DEF WorkerOK
    <3>1. CASE MakeRequest(c)
      <4> DEFINE n == [worker[c] EXCEPT !.phase = "ingest", !.g = policy.gen, !.f = epoch]
      <4>1. worker' = [worker EXCEPT ![c] = n]
        BY <3>1 DEF MakeRequest
      <4>2. n \in WorkerType /\ n.snap = worker[c].snap
        BY <1>2, <3>0 DEF WorkerType, WorkerPhases
      <4> HIDE DEF n
      <4> QED BY <1>1, <2>2, <4>1, <4>2, WorkerSet
    <3>2. CASE Stage(c)
      <4> DEFINE ph == IF EvaluateOnIngest THEN "evaluate" ELSE "ack"
                 n == [worker[c] EXCEPT !.phase = ph, !.code = "ok"]
      <4>1. worker' = [worker EXCEPT ![c] = n]
        BY <3>2 DEF Stage
      <4>2. ph \in WorkerPhases
        BY DEF WorkerPhases
      <4> HIDE DEF ph
      <4>3. n \in WorkerType /\ n.snap = worker[c].snap
        BY <3>0, <4>2, LinkConstants DEF WorkerType
      <4> HIDE DEF n
      <4> QED BY <1>1, <2>2, <4>1, <4>3, WorkerSet
    <3>3. CASE NotStaged(c)
      <4> DEFINE code == IF IsDuplicate(worker[c].snap) THEN "duplicate" ELSE "rejected"
                 n == [worker[c] EXCEPT !.phase = "ack", !.code = code]
      <4>1. worker' = [worker EXCEPT ![c] = n]
        BY <3>3 DEF NotStaged
      <4>2. code \in Codes
        BY DEF Codes
      <4> HIDE DEF code
      <4>3. n \in WorkerType /\ n.snap = worker[c].snap
        BY <3>0, <4>2 DEF WorkerType, WorkerPhases
      <4> HIDE DEF n
      <4> QED BY <1>1, <2>2, <4>1, <4>3, WorkerSet
    <3>4. CASE CommitStaged(c)
      <4> DEFINE n == [worker[c] EXCEPT !.phase = "ack"]
      <4>1. worker' = [worker EXCEPT ![c] = n]
        BY <3>4 DEF CommitStaged
      <4>2. n \in WorkerType /\ n.snap = worker[c].snap
        BY <3>0 DEF WorkerType, WorkerPhases
      <4> HIDE DEF n
      <4> QED BY <1>1, <2>2, <4>1, <4>2, WorkerSet
    <3> QED BY <1>8, <3>1, <3>2, <3>3, <3>4
  <2> QED BY <1>1, <1>k, <2>1, <2>2, <2>3
<1>9. ASSUME NEW c \in Connections, TakeEvidence(c)
      PROVE  /\ ClientOK' /\ WorkerOK' /\ taken' \subseteq Evidence
             /\ up' \in [Connections -> Seq(SentFrame)] /\ down' \in [Connections -> Seq(Answer)]
  <2> DEFINE frame == Head(up[c])
  <2>1. /\ up[c] # <<>> /\ frame.kind = "evidence"
        /\ worker' = [worker EXCEPT ![c] = [worker[c] EXCEPT !.phase = "request", !.snap = frame.snap,
                                                            !.expected = worker[c].expected + 1]]
        /\ up' = [up EXCEPT ![c] = Tail(@)] /\ UNCHANGED <<client, down, taken>>
    BY <1>9 DEF TakeEvidence
  <2>2. up' \in [Connections -> Seq(SentFrame)] /\ frame \in SentFrame
    BY <1>1, <2>1, ReadType
  <2>3. frame.snap \in Evidence /\ frame.snap \in Snapshots
    BY <2>1, <2>2, LinkConstants DEF SentFrame
  <2> HIDE DEF frame
  <2>4. WorkerOK'
    <3> DEFINE n == [worker[c] EXCEPT !.phase = "request", !.snap = frame.snap,
                                    !.expected = worker[c].expected + 1]
    <3>0. worker[c] \in WorkerType /\ worker[c].expected + 1 \in Nat \ {0}
      BY <1>1 DEF WorkerOK, WorkerType
    <3>1. n \in WorkerType /\ n.snap = frame.snap
      BY <3>0, <2>3 DEF WorkerType, WorkerPhases
    <3>2. worker' = [worker EXCEPT ![c] = n]
      BY <2>1
    <3> HIDE DEF n
    <3> QED BY <1>1, <2>3, <3>1, <3>2, WorkerSet
  <2> QED BY <1>1, <1>k, <2>1, <2>2, <2>4
<1>10. ASSUME NEW c \in Connections, EvaluateStaged(c)
       PROVE  /\ ClientOK' /\ WorkerOK' /\ taken' \subseteq Evidence
              /\ up' \in [Connections -> Seq(SentFrame)] /\ down' \in [Connections -> Seq(Answer)]
  <2> DEFINE w == worker[c]
             d == DecisionFor(w.g, w.f, w.snap, TRUE)
  <2>1. /\ worker' = [worker EXCEPT ![c] = [worker[c] EXCEPT !.phase = "commit", !.d = d]]
        /\ d \in decisions'
        /\ UNCHANGED <<client, up, down, taken>> /\ w.phase = "evaluate"
    BY <1>10 DEF EvaluateStaged, Evaluate
  <2>2. d \in Decision
    BY <1>2, <2>1
  <2> HIDE DEF d
  <2>3. WorkerOK'
    <3> DEFINE n == [worker[c] EXCEPT !.phase = "commit", !.d = d]
    <3>1. n \in WorkerType /\ n.snap = worker[c].snap /\ worker[c].snap \in Evidence
      BY <1>1, <2>1, <2>2 DEF WorkerOK, WorkerType, WorkerPhases, Busy
    <3>2. worker' = [worker EXCEPT ![c] = n]
      BY <2>1
    <3> HIDE DEF n
    <3> QED BY <1>1, <3>1, <3>2, WorkerSet
  <2> QED BY <1>1, <1>k, <2>1, <2>3
<1>11. ASSUME NEW c \in Connections, SendAck(c)
       PROVE  /\ ClientOK' /\ WorkerOK' /\ taken' \subseteq Evidence
              /\ up' \in [Connections -> Seq(SentFrame)] /\ down' \in [Connections -> Seq(Answer)]
  <2>1. worker[c].code \in Codes /\ worker[c].snap \in Snapshots /\ worker[c].expected \in Nat \ {0}
    BY <1>1 DEF WorkerOK, WorkerType
  <2>2. down' \in [Connections -> Seq(Answer)]
    <3>1. CASE UNCHANGED down
      BY <1>1, <3>1
    <3>2. CASE SendDown(c, "evidence_ack", worker[c].code, worker[c].snap)
      BY <1>1, <2>1, <3>2, SendDownType
    <3> QED BY <1>11, <3>1, <3>2 DEF SendAck
  <2>3. [Idle EXCEPT !.expected = worker[c].expected] \in WorkerType
    BY <2>1, LinkConstants DEF Idle, WorkerType, WorkerPhases
  <2>4. WorkerOK'
    <3>1. CASE worker' = [worker EXCEPT ![c] = [Idle EXCEPT !.expected = worker[c].expected]]
      <4>1. [Idle EXCEPT !.expected = worker[c].expected].phase = "frames"
        BY DEF Idle
      <4> QED BY <1>1, <2>3, <3>1, <4>1 DEF WorkerOK, Busy
    <3>2. CASE worker' = [worker EXCEPT ![c].phase = "closed"]
      BY <1>e, <3>2
    <3> QED BY <1>11, <3>1, <3>2 DEF SendAck
  <2> QED BY <1>1, <1>11, <1>k, <2>2, <2>4 DEF SendAck
<1>12. CASE Administer
  BY <1>1, <1>12, <1>k, <1>w DEF Administer, link
<1>13. CASE ServerCrash
  <2>1. /\ worker' = [c \in Connections |-> IF worker[c].phase = "new" THEN worker[c]
                                            ELSE [worker[c] EXCEPT !.phase = "closed"]]
        /\ up' = [c \in Connections |-> <<>>] /\ UNCHANGED <<client, down, taken>>
    BY <1>13 DEF ServerCrash
  <2>2. WorkerOK'
    <3> DEFINE n(c) == [worker[c] EXCEPT !.phase = "closed"]
    <3>1. ASSUME NEW c \in Connections
          PROVE  worker[c] \in WorkerType /\ (worker[c].phase \in Busy => worker[c].snap \in Evidence)
      BY <1>1 DEF WorkerOK
    <3>2. ASSUME NEW c \in Connections PROVE n(c) \in WorkerType /\ n(c).phase \notin Busy
      BY <3>1 DEF WorkerType, WorkerPhases, Busy
    <3>3. worker' = [c \in Connections |-> IF worker[c].phase = "new" THEN worker[c] ELSE n(c)]
      BY <2>1
    <3> HIDE DEF n
    <3> QED BY <3>1, <3>2, <3>3 DEF WorkerOK
  <2>3. up' \in [Connections -> Seq(SentFrame)]
    BY <2>1
  <2> QED BY <1>1, <1>k, <2>1, <2>2, <2>3
<1>14. CASE UNCHANGED allVars
  BY <1>1, <1>14, <1>k, <1>w DEF allVars, link
<1> QED BY <1>4, <1>5, <1>f, <1>6, <1>7, <1>8, <1>9, <1>10, <1>11, <1>12, <1>13, <1>14 DEF LinkNext, WorkerStep, ReadTorn

LEMMA GoverningStep ==
  ASSUME LinkInv, [LinkNext]_allVars
  PROVE  Governing'
<1> USE DEF LinkInv, Serving
<1>k. ASSUME UNCHANGED <<mode, policy, epoch, accountingRec>> PROVE Governing'
  BY <1>k DEF Governing
<1>v. ASSUME UNCHANGED vars PROVE Governing'
  BY <1>k, <1>v DEF vars, memory
<1>p. \A a, f : Payload(a, f).epoch = f
  BY DEF Payload
<1>1. CASE \E c \in Connections : Stage(c) \/ EvaluateStaged(c)
  BY <1>1, <1>k DEF Stage, EvaluateStaged, IngestEvidence, Evaluate, memory
<1>2. ASSUME NEW c \in Connections, CommitStaged(c) PROVE Governing'
  <2>1. CASE Commit(worker[c].d)
    BY <1>p, <2>1 DEF Commit, Committable, Governing
  <2>2. CASE UNCHANGED memory /\ UNCHANGED <<mode, accountingRec>>
    BY <1>k, <2>2 DEF memory
  <2> QED BY <1>2, <2>1, <2>2 DEF CommitStaged, CommitFail
<1>3. CASE Administer
  <2>1. ASSUME NEW p \in Policies, OpenConfigured(p) PROVE Governing'
    <3>1. p.epoch \in RequestEpochs /\ p.epoch \in Nat /\ accountingRec.epoch \in Nat
      BY PolicyTypes DEF RequestEpochs, TypeOK
    <3>2. Larger(p.epoch, accountingRec.epoch) \in RequestEpochs
      <4>1. 0 \notin RequestEpochs
        BY RequestEpochsType
      <4>2. CASE accountingRec.epoch = 0
        BY <3>1, <4>2 DEF Larger
      <4> QED BY <3>1, <4>2 DEF Larger, Governing
    <3> QED BY <2>1, <3>2 DEF OpenConfigured, Serve, Governing
  <2>2. ASSUME NEW e \in Epochs, AdvanceEpoch(e) PROVE Governing'
    BY <1>p, <2>2 DEF AdvanceEpoch, Governing, RequestEpochs
  <2> QED BY <1>3, <2>1, <2>2 DEF Administer
<1>4. CASE ServerCrash
  <2>1. CASE Crash
    BY <2>1 DEF Crash, Die, Forget, Governing
  <2>2. ASSUME NEW d, CommitLost(d) PROVE Governing'
    BY <1>p, <2>2 DEF CommitLost, Committable, Die, Forget, Governing
  <2> QED BY <1>4, <2>1, <2>2 DEF ServerCrash
<1>5. ASSUME NEW c \in Connections,
             \/ ReceiveHelloAck(c) \/ ConnectFails(c) \/ ReceiveAnswer(c) \/ NoAnswer(c) \/ Leave(c)
             \/ SubmitFails(c) \/ DropConnection(c) \/ DropFrame(c)
      PROVE  Governing'
  BY <1>5, <1>v DEF SubmitFails, ReceiveHelloAck, ConnectFails, ReceiveAnswer, NoAnswer, Leave, DropConnection, DropFrame
<1>6. ASSUME NEW c \in Connections,
             \/ Handshake(c) \/ RefuseFrame(c) \/ Goodbye(c) \/ TakeEvidence(c)
             \/ MakeRequest(c) \/ NotStaged(c) \/ SendAck(c)
      PROVE  Governing'
  BY <1>6, <1>v DEF Handshake, RefuseFrame, Goodbye, TakeEvidence, MakeRequest, NotStaged, SendAck
<1>7. CASE \/ \E c \in Connections, f \in Epochs, p \in Publishers : Connect(c, f, p)
           \/ \E c \in Connections, s \in Evidence : Submit(c, s)
  BY <1>7, <1>v DEF Connect, Submit
<1>8. CASE UNCHANGED allVars
  BY <1>8, <1>v DEF allVars
<1> QED BY <1>1, <1>2, <1>3, <1>4, <1>5, <1>6, <1>7, <1>8 DEF LinkNext, WorkerStep, ReadTorn

\* One worker takes a step while the governor stays up.
LEMMA ServedSet ==
  ASSUME LinkInv, NEW c \in Connections, NEW n, worker' = [worker EXCEPT ![c] = n],
         mode' = mode, ServedBy(n, mode', decisions'),
         \A k \in Connections \ {c} : worker[k].phase = "commit" => worker[k].d \in decisions'
  PROVE  \A k \in Connections : ServedBy(worker'[k], mode', decisions')
<1>1. worker \in [Connections -> WorkerType]
  BY LinkTypes DEF LinkInv
<1> SUFFICES ASSUME NEW k \in Connections PROVE ServedBy(worker'[k], mode', decisions')
  OBVIOUS
<1>2. CASE k = c
  BY <1>1, <1>2
<1>3. CASE k # c
  <2>1. worker'[k] = worker[k] /\ ServedBy(worker[k], mode, decisions)
    BY <1>1, <1>3 DEF LinkInv, Serving
  <2> QED BY <1>3, <2>1 DEF ServedBy
<1> QED BY <1>2, <1>3

\* A step that leaves the governor alone, and whose worker now reads or has ended.
LEMMA ServedPhase ==
  ASSUME LinkInv, NEW c \in Connections, UNCHANGED vars,
         NEW ph \in {"hello", "frames", "closed"}, worker' = [worker EXCEPT ![c].phase = ph],
         ph = "closed" \/ mode = "open"
  PROVE  \A k \in Connections : ServedBy(worker'[k], mode', decisions')
<1> DEFINE n == [worker[c] EXCEPT !.phase = ph]
<1>0. worker \in [Connections -> WorkerType]
  BY LinkTypes DEF LinkInv
<1>1. worker' = [worker EXCEPT ![c] = n]
  OBVIOUS
<1>2. n.phase = ph
  BY <1>0 DEF WorkerType
<1>3. mode' = mode /\ decisions' = decisions
  BY DEF vars
<1> HIDE DEF n
<1>4. ServedBy(n, mode', decisions')
  BY <1>2, <1>3 DEF ServedBy
<1>5. \A k \in Connections \ {c} : worker[k].phase = "commit" => worker[k].d \in decisions'
  BY <1>3 DEF LinkInv, Serving, ServedBy
<1> QED BY <1>1, <1>3, <1>4, <1>5, ServedSet

LEMMA ServedStep ==
  ASSUME LinkInv, [LinkNext]_allVars
  PROVE  \A k \in Connections : ServedBy(worker'[k], mode', decisions')
<1> DEFINE Goal == \A k \in Connections : ServedBy(worker'[k], mode', decisions')
<1> HIDE DEF Goal
<1> SUFFICES Goal
  BY DEF Goal
<1>1. worker \in [Connections -> WorkerType]
  BY LinkTypes DEF LinkInv
<1>2. \A k \in Connections : ServedBy(worker[k], mode, decisions)
  BY DEF LinkInv, Serving
<1>d. \A k \in Connections : worker[k].phase = "commit" => worker[k].d \in decisions
  BY <1>2 DEF ServedBy
<1>k. ASSUME UNCHANGED <<vars, worker>> PROVE Goal
  BY <1>2, <1>k DEF Goal, vars
<1>p. ASSUME NEW c \in Connections, UNCHANGED vars, NEW ph \in {"hello", "frames", "closed"},
             worker' = [worker EXCEPT ![c].phase = ph], ph = "closed" \/ mode = "open"
      PROVE  Goal
  BY <1>p, ServedPhase DEF Goal
<1>s. ASSUME NEW c \in Connections, NEW n, worker' = [worker EXCEPT ![c] = n],
             mode' = mode, ServedBy(n, mode', decisions'),
             \A k \in Connections \ {c} : worker[k].phase = "commit" => worker[k].d \in decisions'
      PROVE  Goal
  BY <1>s, ServedSet DEF Goal
<1>3. ASSUME NEW c \in Connections, NEW f \in Epochs, NEW p \in Publishers, Connect(c, f, p) PROVE Goal
  BY <1>3, <1>p DEF Connect
<1>4. ASSUME NEW c \in Connections,
             \/ ReceiveHelloAck(c) \/ ConnectFails(c) \/ ReceiveAnswer(c) \/ NoAnswer(c) \/ Leave(c)
             \/ SubmitFails(c) \/ \E s \in Evidence : Submit(c, s)
      PROVE  Goal
  BY <1>4, <1>k DEF Submit, SubmitFails, ReceiveHelloAck, ConnectFails, ReceiveAnswer, NoAnswer, Leave
<1>5. ASSUME NEW c \in Connections, DropConnection(c) \/ DropFrame(c) \/ RefuseFrame(c) \/ Goodbye(c)
      PROVE  Goal
  <2>1. UNCHANGED vars /\ worker' = [worker EXCEPT ![c].phase = "closed"]
    BY <1>5 DEF DropConnection, DropFrame, RefuseFrame, Goodbye
  <2> QED BY <1>p, <2>1
<1>6. ASSUME NEW c \in Connections, Handshake(c) PROVE Goal
  <2>1. mode = "open"
    BY <1>2, <1>6 DEF Handshake, ServedBy
  <2> QED BY <1>6, <1>p, <2>1 DEF Handshake
<1>7. ASSUME NEW c \in Connections, TakeEvidence(c) PROVE Goal
  <2> DEFINE n == [worker[c] EXCEPT !.phase = "request", !.snap = Head(up[c]).snap,
                                    !.expected = worker[c].expected + 1]
  <2>1. worker' = [worker EXCEPT ![c] = n] /\ UNCHANGED vars /\ mode = "open"
    BY <1>2, <1>7 DEF TakeEvidence, ServedBy
  <2>2. n.phase = "request"
    BY <1>1 DEF WorkerType
  <2> HIDE DEF n
  <2>3. mode' = mode /\ decisions' = decisions
    BY <2>1 DEF vars
  <2>4. ServedBy(n, mode', decisions')
    BY <2>1, <2>2, <2>3 DEF ServedBy
  <2> QED BY <1>d, <1>s, <2>1, <2>3, <2>4
<1>8. ASSUME NEW c \in Connections, MakeRequest(c) PROVE Goal
  <2> DEFINE n == [worker[c] EXCEPT !.phase = "ingest", !.g = policy.gen, !.f = epoch]
  <2>1. worker' = [worker EXCEPT ![c] = n] /\ UNCHANGED vars /\ mode = "open"
    BY <1>2, <1>8 DEF MakeRequest, ServedBy
  <2>2. n.phase = "ingest" /\ n.g = policy.gen /\ n.f = epoch
    BY <1>1 DEF WorkerType
  <2> HIDE DEF n
  <2>3. mode' = mode /\ decisions' = decisions
    BY <2>1 DEF vars
  <2>4. policy \in Policies /\ epoch \in RequestEpochs
    BY <2>1 DEF LinkInv, Serving, Governing
  <2>5. ServedBy(n, mode', decisions')
    BY <2>1, <2>2, <2>3, <2>4 DEF ServedBy
  <2> QED BY <1>d, <1>s, <2>1, <2>3, <2>5
<1>9. ASSUME NEW c \in Connections, Stage(c) PROVE Goal
  <2> DEFINE ph == IF EvaluateOnIngest THEN "evaluate" ELSE "ack"
             n == [worker[c] EXCEPT !.phase = ph, !.code = "ok"]
  <2>1. worker' = [worker EXCEPT ![c] = n] /\ worker[c].phase = "ingest"
    BY <1>9 DEF Stage
  <2>2. n.phase \in {"evaluate", "ack"} /\ n.g = worker[c].g /\ n.f = worker[c].f
    BY <1>1 DEF WorkerType
  <2> HIDE DEF n, ph
  <2>3. mode' = mode /\ decisions' = decisions
    BY <1>9 DEF Stage, IngestEvidence
  <2>4. ServedBy(n, mode', decisions')
    BY <1>2, <2>1, <2>2, <2>3 DEF ServedBy
  <2> QED BY <1>d, <1>s, <2>1, <2>3, <2>4
<1>10. ASSUME NEW c \in Connections, NotStaged(c) PROVE Goal
  <2> DEFINE n == [worker[c] EXCEPT !.phase = "ack",
                                    !.code = IF IsDuplicate(worker[c].snap) THEN "duplicate" ELSE "rejected"]
  <2>1. worker' = [worker EXCEPT ![c] = n] /\ worker[c].phase = "ingest" /\ UNCHANGED vars
    BY <1>10 DEF NotStaged
  <2>2. n.phase = "ack"
    BY <1>1 DEF WorkerType
  <2> HIDE DEF n
  <2>3. mode' = mode /\ decisions' = decisions
    BY <2>1 DEF vars
  <2>4. ServedBy(n, mode', decisions')
    BY <1>2, <2>1, <2>2, <2>3 DEF ServedBy
  <2> QED BY <1>d, <1>s, <2>1, <2>3, <2>4
<1>11. ASSUME NEW c \in Connections, EvaluateStaged(c) PROVE Goal
  <2> DEFINE d == DecisionFor(worker[c].g, worker[c].f, worker[c].snap, TRUE)
             n == [worker[c] EXCEPT !.phase = "commit", !.d = d]
  <2>1. worker' = [worker EXCEPT ![c] = n] /\ mode = "open" /\ mode' = mode /\ decisions' = decisions \cup {d}
    BY <1>11 DEF EvaluateStaged, Evaluate
  <2>2. n.phase = "commit" /\ n.d = d
    BY <1>1 DEF WorkerType
  <2> HIDE DEF n, d
  <2>3. ServedBy(n, mode', decisions')
    BY <2>1, <2>2 DEF ServedBy
  <2> QED BY <1>d, <1>s, <2>1, <2>3
<1>12. ASSUME NEW c \in Connections, CommitStaged(c) PROVE Goal
  <2> DEFINE n == [worker[c] EXCEPT !.phase = "ack"]
  <2>1. /\ worker' = [worker EXCEPT ![c] = n] /\ worker[c].phase = "commit" /\ mode' = mode
        /\ decisions' = decisions \ ({worker[c].d} \ HeldElsewhere(c))
    BY <1>12 DEF CommitStaged, Commit, CommitFail
  <2>2. n.phase = "ack"
    BY <1>1 DEF WorkerType
  <2> HIDE DEF n
  <2>3. ServedBy(n, mode', decisions')
    BY <1>2, <2>1, <2>2 DEF ServedBy
  <2>4. \A k \in Connections \ {c} : worker[k].phase = "commit" => worker[k].d \in decisions'
    BY <1>d, <2>1 DEF HeldElsewhere
  <2> QED BY <1>s, <2>1, <2>3, <2>4
<1>13. ASSUME NEW c \in Connections, SendAck(c) PROVE Goal
  <2>1. mode = "open" /\ UNCHANGED vars
    BY <1>2, <1>13 DEF SendAck, ServedBy
  <2>2. CASE worker' = [worker EXCEPT ![c].phase = "closed"]
    BY <1>p, <2>1, <2>2
  <2>3. CASE worker' = [worker EXCEPT ![c] = [Idle EXCEPT !.expected = worker[c].expected]]
    <3> DEFINE n == [Idle EXCEPT !.expected = worker[c].expected]
    <3>1. n.phase = "frames"
      BY DEF Idle
    <3>2. mode' = mode /\ decisions' = decisions /\ worker' = [worker EXCEPT ![c] = n]
      BY <2>1, <2>3 DEF vars
    <3> HIDE DEF n
    <3>3. ServedBy(n, mode', decisions')
      BY <2>1, <3>1, <3>2 DEF ServedBy
    <3> QED BY <1>d, <1>s, <3>2, <3>3
  <2> QED BY <1>13, <2>2, <2>3 DEF SendAck
<1>14. CASE Administer
  <2>1. UNCHANGED <<worker, decisions>> /\ mode' = "open"
    BY <1>14 DEF Administer, link, OpenConfigured, Serve, AdvanceEpoch
  <2> QED BY <1>2, <2>1 DEF Goal, ServedBy
<1>15. CASE ServerCrash
  <2>1. \A k \in Connections : worker'[k].phase \in {"new", "closed"}
    BY <1>1, <1>15 DEF ServerCrash, WorkerType
  <2> QED BY <2>1 DEF Goal, ServedBy
<1>16. CASE UNCHANGED allVars
  BY <1>16, <1>k DEF allVars, link
<1> QED BY <1>3, <1>4, <1>5, <1>6, <1>7, <1>8, <1>9, <1>10, <1>11, <1>12, <1>13, <1>14, <1>15, <1>16
        DEF LinkNext, WorkerStep, ReadTorn

LEMMA LinkInvStep == LinkInv /\ [LinkNext]_allVars => LinkInv'
<1> SUFFICES ASSUME LinkInv, [LinkNext]_allVars PROVE LinkInv'
  OBVIOUS
<1>1. TypeOK'
  BY LinkStepRefines, TypeStep DEF LinkInv
<1>2. LinkTypeOK' /\ up' \in [Connections -> Seq(SentFrame)]
  BY <1>1, LinkTypeStep
<1> QED BY <1>1, <1>2, GoverningStep, ServedStep DEF LinkInv, Serving

LEMMA LinkInvInit == LinkInit => LinkInv
<1> SUFFICES ASSUME LinkInit PROVE LinkInv
  OBVIOUS
<1>1. TypeOK /\ Governing
  BY DEF LinkInit, Init, TypeOK, NoAccounting, Accounting, Payload, Governing
<1>2. PICK load \in Loads :
        client = [c \in Connections |-> [phase |-> "new", epoch |-> 0, pub |-> 0, load |-> load[c],
                                         seq |-> 0, lost |-> 0, snap |-> NoSnapshot, late |-> FALSE]]
  BY DEF LinkInit
<1>3. ClientOK
  BY <1>2, LinkAssumption, LinkConstants DEF ClientOK, ClientType
<1>4. [Idle EXCEPT !.phase = "new"] \in WorkerType /\ [Idle EXCEPT !.phase = "new"].phase = "new"
  BY LinkConstants DEF Idle, WorkerType, WorkerPhases
<1>5. WorkerOK /\ \A c \in Connections : worker[c].phase = "new"
  BY <1>4 DEF LinkInit, WorkerOK, Busy
<1>6. /\ up \in [Connections -> Seq(SentFrame)] /\ up \in [Connections -> Seq(Frame)]
      /\ down \in [Connections -> Seq(Answer)] /\ taken \subseteq Evidence
  BY DEF LinkInit
<1>7. LinkTypeOK
  BY <1>3, <1>5, <1>6, LinkTypes DEF ClientOK, WorkerOK
<1> QED BY <1>1, <1>5, <1>6, <1>7 DEF LinkInv, Serving, ServedBy

\* The link uses the governor as its interface allows: whatever publishers send
\* and however the connections' workers interleave, every behaviour of the link
\* is one of the governor, so the theorems above hold of a governor that
\* serves connections.
THEOREM LinkImplementsGovernor == LinkSpec => Spec
<1>1. LinkInit => Init
  BY DEF LinkInit
<1> QED BY <1>1, LinkInvInit, LinkInvStep, LinkStepRefines, PTL DEF LinkSpec, Spec

\* So the accounting of a governor that serves connections is such a ledger
\* too, whatever is sent, lost or sent again.
THEOREM LinkImplementsLedger == LinkSpec => LedgerSpec
BY LinkImplementsGovernor, GovernorImplementsLedger, PTL

-------------------------------------------------------------------------------
(* What the steps of a connection do to its two ends and to its channels.  *)

\* Nothing happens on the other connections.
Others(c) ==
  \A k \in Connections \ {c} :
    /\ client'[k] = client[k] /\ worker'[k] = worker[k]
    /\ up'[k] = up[k] /\ down'[k] = down[k]

\* The publisher's end keeps its counter and what it knows of failed sends and
\* lost answers.
ClientMoves(c, ph) ==
  /\ client'[c].phase = ph /\ client'[c].seq = client[c].seq /\ client'[c].late = client[c].late
  /\ client'[c].lost = client[c].lost

WorkerMoves(c, ph) ==
  /\ worker'[c].phase = ph /\ worker'[c].expected = worker[c].expected

LEMMA LinkEnds ==
  ASSUME LinkInv
  PROVE  /\ client \in [Connections -> ClientType] /\ worker \in [Connections -> WorkerType]
         /\ up \in [Connections -> Seq(Frame)] /\ down \in [Connections -> Seq(Answer)]
BY LinkTypes DEF LinkInv

LEMMA AtConnect ==
  ASSUME LinkInv, NEW c \in Connections, NEW f \in Epochs, NEW p \in Publishers, Connect(c, f, p)
  PROVE  /\ Others(c) /\ ClientMoves(c, "hello") /\ WorkerMoves(c, "hello")
         /\ client[c].phase = "new" /\ worker'[c].code = worker[c].code
         /\ up'[c] = Append(up[c], [kind |-> "hello", epoch |-> f, seq |-> 0, snap |-> NoSnapshot])
         /\ down' = down /\ taken' = taken
<1>1. /\ client' = [client EXCEPT ![c] = [client[c] EXCEPT !.phase = "hello", !.epoch = f, !.pub = p]]
      /\ worker' = [worker EXCEPT ![c].phase = "hello"]
      /\ up' = [up EXCEPT ![c] = Append(up[c], [kind |-> "hello", epoch |-> f, seq |-> 0, snap |-> NoSnapshot])]
      /\ client[c].phase = "new" /\ down' = down /\ taken' = taken
  BY DEF Connect, SendUp
<1> QED BY <1>1, LinkEnds DEF Others, ClientMoves, WorkerMoves, ClientType, WorkerType

LEMMA AtSubmit ==
  ASSUME LinkInv, NEW c \in Connections, NEW s \in Evidence, Submit(c, s)
  PROVE  /\ Others(c) /\ worker' = worker /\ down' = down /\ taken' = taken
         /\ client[c].phase = "ready" /\ client'[c].phase = "waiting"
         /\ client'[c].seq = client[c].seq + 1 /\ client'[c].snap = s /\ client'[c].late = client[c].late
         /\ client'[c].lost = client[c].lost
         /\ up'[c] = Append(up[c], [kind |-> "evidence", epoch |-> s.epoch, seq |-> client[c].seq + 1,
                                    snap |-> s])
<1> DEFINE n == client[c].seq + 1
<1>1. /\ client' = [client EXCEPT ![c] = [client[c] EXCEPT !.phase = "waiting", !.seq = n, !.snap = s]]
      /\ up' = [up EXCEPT ![c] = Append(up[c], [kind |-> "evidence", epoch |-> s.epoch, seq |-> n, snap |-> s])]
      /\ client[c].phase = "ready" /\ worker' = worker /\ down' = down /\ taken' = taken
  BY DEF Submit, SendUp
<1> HIDE DEF n
<1>2. /\ Others(c) /\ client'[c].phase = "waiting"
      /\ client'[c].seq = n /\ client'[c].snap = s /\ client'[c].late = client[c].late
      /\ client'[c].lost = client[c].lost
      /\ up'[c] = Append(up[c], [kind |-> "evidence", epoch |-> s.epoch, seq |-> n, snap |-> s])
  BY <1>1, LinkEnds DEF Others, ClientType
<1> QED BY <1>1, <1>2 DEF n

\* A send fails.
LEMMA AtSubmitFails ==
  ASSUME LinkInv, NEW c \in Connections, SubmitFails(c)
  PROVE  /\ Others(c) /\ worker' = worker /\ down' = down /\ taken' = taken
         /\ client[c].phase = "ready" /\ client'[c].phase = "ready" /\ client'[c].late
         /\ client'[c].seq = client[c].seq + 1
         /\ client'[c].lost = IF client[c].lost = 0 THEN client[c].seq + 1 ELSE client[c].lost
         /\ \/ up'[c] = up[c]
            \/ up'[c] = Append(up[c], [kind |-> "torn", epoch |-> 0, seq |-> 0, snap |-> NoSnapshot])
<1> DEFINE n == client[c].seq + 1
           b == IF client[c].lost = 0 THEN n ELSE client[c].lost
           m == [kind |-> "torn", epoch |-> 0, seq |-> 0, snap |-> NoSnapshot]
<1>1. /\ client' = [client EXCEPT ![c] = [client[c] EXCEPT !.seq = n, !.late = TRUE, !.lost = b]]
      /\ up' = up \/ up' = [up EXCEPT ![c] = Append(up[c], m)]
      /\ client[c].phase = "ready" /\ worker' = worker /\ down' = down /\ taken' = taken
  BY DEF SubmitFails, SendUp
<1> HIDE DEF n, b, m
<1>2. /\ Others(c) /\ client'[c].phase = "ready" /\ client'[c].seq = n /\ client'[c].lost = b
      /\ client'[c].late = TRUE
      /\ up'[c] = up[c] \/ up'[c] = Append(up[c], m)
  BY <1>1, LinkEnds DEF Others, ClientType
<1> QED BY <1>1, <1>2 DEF n, b, m

\* The publisher reads, gives up or leaves.
LEMMA AtClient ==
  ASSUME LinkInv, NEW c \in Connections,
         ReceiveHelloAck(c) \/ ConnectFails(c) \/ ReceiveAnswer(c) \/ NoAnswer(c) \/ Leave(c)
  PROVE  /\ Others(c) /\ worker' = worker /\ taken' = taken
         /\ client[c].phase \in {"hello", "ready", "waiting"}
         /\ client'[c].phase \in {"ready", "closed"} /\ client'[c].seq = client[c].seq
         /\ client'[c].lost = client[c].lost
         /\ client'[c].phase = "ready" /\ client[c].phase = "hello" => down[c] # <<>>
         /\ client'[c].phase = "ready" /\ ~client'[c].late =>
              /\ client[c].phase \in {"hello", "waiting"} /\ ~client[c].late
              /\ down[c] # <<>> /\ down'[c] = Tail(down[c])
         /\ \/ up'[c] = up[c]
            \/ /\ client'[c].phase = "closed"
               /\ up'[c] = Append(up[c], [kind |-> "goodbye", epoch |-> client[c].epoch, seq |-> 0,
                                          snap |-> NoSnapshot])
         /\ \E lost \in 0..Len(down[c]) : down'[c] = SubSeq(down[c], lost + 1, Len(down[c]))
<1>0. down[c] \in Seq(Answer)
  BY LinkEnds
<1>t. ASSUME down[c] # <<>>
      PROVE  Tail(down[c]) = SubSeq(down[c], 1 + 1, Len(down[c])) /\ 1 \in 0..Len(down[c])
  BY <1>0, <1>t
<1>u. down[c] = SubSeq(down[c], 0 + 1, Len(down[c])) /\ 0 \in 0..Len(down[c])
  BY <1>0
<1>1. CASE ReceiveHelloAck(c)
  <2>1. PICK ph \in {"ready", "closed"} :
          /\ client' = [client EXCEPT ![c].phase = ph] /\ down' = [down EXCEPT ![c] = Tail(down[c])]
          /\ client[c].phase = "hello" /\ down[c] # <<>> /\ worker' = worker /\ taken' = taken /\ up' = up
    BY <1>1 DEF ReceiveHelloAck
  <2>2. /\ Others(c) /\ client'[c].phase = ph /\ client'[c].seq = client[c].seq
        /\ client'[c].lost = client[c].lost
        /\ client'[c].late = client[c].late /\ down'[c] = Tail(down[c])
    BY <2>1, LinkEnds DEF Others, ClientType
  <2> QED BY <1>t, <2>1, <2>2
<1>2. CASE ConnectFails(c)
  <2>1. /\ client' = [client EXCEPT ![c].phase = "closed"] /\ client[c].phase = "hello"
        /\ worker' = worker /\ taken' = taken /\ up' = up /\ down' = down
    BY <1>2 DEF ConnectFails
  <2>2. Others(c) /\ client'[c].phase = "closed" /\ client'[c].seq = client[c].seq /\ client'[c].lost = client[c].lost
    BY <2>1, LinkEnds DEF Others, ClientType
  <2> QED BY <1>u, <2>1, <2>2
<1>3. CASE ReceiveAnswer(c)
  <2>1. /\ client' = [client EXCEPT ![c] = [client[c] EXCEPT !.phase = "ready", !.snap = NoSnapshot]]
        /\ down' = [down EXCEPT ![c] = Tail(down[c])]
        /\ client[c].phase = "waiting" /\ down[c] # <<>> /\ worker' = worker /\ taken' = taken /\ up' = up
    BY <1>3 DEF ReceiveAnswer
  <2>2. /\ Others(c) /\ client'[c].phase = "ready" /\ client'[c].seq = client[c].seq
        /\ client'[c].lost = client[c].lost
        /\ client'[c].late = client[c].late /\ down'[c] = Tail(down[c])
    BY <2>1, LinkEnds DEF Others, ClientType
  <2> QED BY <1>t, <2>1, <2>2
<1>4. CASE NoAnswer(c)
  <2>1. PICK lost \in 0..Len(down[c]) :
          /\ client' = [client EXCEPT ![c] = [client[c] EXCEPT !.phase = "ready", !.snap = NoSnapshot,
                                                               !.late = TRUE]]
          /\ down' = [down EXCEPT ![c] = SubSeq(down[c], lost + 1, Len(down[c]))]
          /\ client[c].phase = "waiting" /\ worker' = worker /\ taken' = taken /\ up' = up
    BY <1>4 DEF NoAnswer
  <2>2. /\ Others(c) /\ client'[c].phase = "ready" /\ client'[c].seq = client[c].seq
        /\ client'[c].lost = client[c].lost
        /\ client'[c].late = TRUE /\ down'[c] = SubSeq(down[c], lost + 1, Len(down[c]))
    BY <2>1, LinkEnds DEF Others, ClientType
  <2> QED BY <2>1, <2>2
<1>5. CASE Leave(c)
  <2> DEFINE m == [kind |-> "goodbye", epoch |-> client[c].epoch, seq |-> 0, snap |-> NoSnapshot]
  <2>1. /\ client' = [client EXCEPT ![c].phase = "closed"] /\ client[c].phase = "ready"
        /\ up' = up \/ up' = [up EXCEPT ![c] = Append(up[c], m)]
        /\ worker' = worker /\ taken' = taken /\ down' = down
    BY <1>5 DEF Leave, SendUp
  <2> HIDE DEF m
  <2>2. /\ Others(c) /\ client'[c].phase = "closed" /\ client'[c].seq = client[c].seq
        /\ client'[c].lost = client[c].lost
        /\ up'[c] = up[c] \/ up'[c] = Append(up[c], m)
    BY <2>1, LinkEnds DEF Others, ClientType
  <2> QED BY <1>u, <2>1, <2>2 DEF m
<1> QED BY <1>1, <1>2, <1>3, <1>4, <1>5

\* The worker shakes hands, or ends the connection with a last answer or none.
LEMMA AtReading ==
  ASSUME LinkInv, NEW c \in Connections,
         Handshake(c) \/ DropConnection(c) \/ DropFrame(c) \/ RefuseFrame(c) \/ Goodbye(c)
  PROVE  /\ Others(c) /\ client' = client /\ taken' = taken
         /\ worker[c].phase \in {"hello", "frames"} /\ worker'[c].phase \in {"frames", "closed"}
         /\ worker'[c].expected = worker[c].expected /\ worker'[c].code = worker[c].code
         /\ worker'[c].phase = "frames" =>
              /\ worker[c].phase = "hello" /\ up[c] # <<>> /\ up'[c] = Tail(up[c])
              /\ down'[c] = Append(down[c], [kind |-> "hello_ack", code |-> "ok", snap |-> NoSnapshot])
         /\ worker'[c].phase = "closed" =>
              \/ down'[c] = down[c]
              \/ \E m \in Answer :
                   /\ down'[c] = Append(down[c], m) /\ m.code \in {"stale_epoch", "truncated", "sequence"}
                   /\ up[c] # <<>>
                   /\ m.code = "sequence" =>
                        /\ worker[c].phase = "frames"
                        /\ Head(up[c]).kind = "evidence" /\ Head(up[c]).seq # worker[c].expected
<1>e. \A kind \in {"hello_ack", "error"}, code \in {"stale_epoch", "truncated", "sequence"} :
        LET m == [kind |-> kind, code |-> code, snap |-> NoSnapshot] IN m \in Answer /\ m.code = code
  BY LinkConstants DEF Answer
<1>c. ASSUME worker' = [worker EXCEPT ![c].phase = "closed"]
      PROVE  WorkerMoves(c, "closed") /\ worker'[c].code = worker[c].code
  BY <1>c, LinkEnds DEF WorkerMoves, WorkerType
<1>1. CASE Handshake(c)
  <2> DEFINE ok == Head(up[c]).epoch = epoch
  <2>1. /\ worker' = [worker EXCEPT ![c].phase = IF ok THEN "frames" ELSE "closed"]
        /\ down' = [down EXCEPT ![c] = Append(down[c], [kind |-> "hello_ack",
                      code |-> IF ok THEN "ok" ELSE "stale_epoch", snap |-> NoSnapshot])]
        /\ up' = [up EXCEPT ![c] = Tail(up[c])] /\ up[c] # <<>> /\ worker[c].phase = "hello"
        /\ client' = client /\ taken' = taken
    BY <1>1 DEF Handshake, SendDown
  <2> HIDE DEF ok
  <2>2. Others(c)
    BY <2>1, LinkEnds DEF Others
  <2>3. CASE ok
    <3>1. WorkerMoves(c, "frames") /\ worker'[c].code = worker[c].code
      BY <2>1, <2>3, LinkEnds DEF WorkerMoves, WorkerType
    <3>2. /\ down'[c] = Append(down[c], [kind |-> "hello_ack", code |-> "ok", snap |-> NoSnapshot])
          /\ up'[c] = Tail(up[c])
      BY <2>1, <2>3, LinkEnds
    <3> QED BY <2>1, <2>2, <3>1, <3>2 DEF WorkerMoves
  <2>4. CASE ~ok
    <3> DEFINE m == [kind |-> "hello_ack", code |-> "stale_epoch", snap |-> NoSnapshot]
    <3>1. m \in Answer /\ m.code = "stale_epoch"
      BY <1>e
    <3>2. WorkerMoves(c, "closed") /\ worker'[c].code = worker[c].code
      BY <1>c, <2>1, <2>4
    <3>3. down'[c] = Append(down[c], m)
      BY <2>1, <2>4, LinkEnds
    <3> HIDE DEF m
    <3> QED BY <2>1, <2>2, <3>1, <3>2, <3>3 DEF WorkerMoves
  <2> QED BY <2>3, <2>4
<1>2. CASE DropConnection(c) \/ Goodbye(c)
  <2>1. /\ worker' = [worker EXCEPT ![c].phase = "closed"] /\ worker[c].phase \in {"hello", "frames"}
        /\ client' = client /\ down' = down /\ taken' = taken
        /\ up' = up \/ up' = [up EXCEPT ![c] = Tail(up[c])]
    BY <1>2 DEF DropConnection, Goodbye
  <2>2. Others(c)
    BY <2>1, LinkEnds DEF Others
  <2> QED BY <1>c, <2>1, <2>2 DEF WorkerMoves
<1>3. CASE DropFrame(c) \/ RefuseFrame(c)
  <2> DEFINE m(code) == [kind |-> "error", code |-> code, snap |-> NoSnapshot]
  <2>1. PICK code \in {"stale_epoch", "truncated", "sequence"} :
          /\ worker' = [worker EXCEPT ![c].phase = "closed"] /\ worker[c].phase = "frames"
          /\ client' = client /\ taken' = taken /\ up[c] # <<>>
          /\ up' = up \/ up' = [up EXCEPT ![c] = Tail(up[c])]
          /\ down' = [down EXCEPT ![c] = Append(down[c], m(code))]
          /\ code = "sequence" => Head(up[c]).kind = "evidence" /\ Head(up[c]).seq # worker[c].expected
    <3>1. CASE DropFrame(c)
      BY <3>1 DEF DropFrame, SendDown
    <3>2. CASE RefuseFrame(c)
      <4>1. CASE Head(up[c]).epoch = epoch
        BY <3>2, <4>1 DEF RefuseFrame, SendDown
      <4>2. CASE Head(up[c]).epoch # epoch
        BY <3>2, <4>2 DEF RefuseFrame, SendDown
      <4> QED BY <4>1, <4>2
    <3> QED BY <1>3, <3>1, <3>2
  <2>2. Others(c) /\ down'[c] = Append(down[c], m(code))
    BY <2>1, LinkEnds DEF Others
  <2>3. m(code) \in Answer /\ m(code).code = code
    BY <1>e
  <2> HIDE DEF m
  <2> QED BY <1>c, <2>1, <2>2, <2>3 DEF WorkerMoves
<1> QED BY <1>1, <1>2, <1>3

LEMMA AtTake ==
  ASSUME LinkInv, NEW c \in Connections, TakeEvidence(c)
  PROVE  /\ Others(c) /\ client' = client /\ down' = down /\ taken' = taken
         /\ worker[c].phase = "frames" /\ worker'[c].phase = "request"
         /\ worker'[c].expected = worker[c].expected + 1 /\ worker'[c].code = worker[c].code
         /\ up[c] # <<>> /\ up'[c] = Tail(up[c])
         /\ Head(up[c]).kind = "evidence" /\ worker'[c].snap = Head(up[c]).snap
         /\ Head(up[c]).seq = worker[c].expected
<1> DEFINE n == worker[c].expected + 1
           s == Head(up[c]).snap
<1>1. /\ worker' = [worker EXCEPT ![c] = [worker[c] EXCEPT !.phase = "request", !.snap = s, !.expected = n]]
      /\ up' = [up EXCEPT ![c] = Tail(up[c])] /\ up[c] # <<>> /\ Head(up[c]).kind = "evidence"
      /\ Head(up[c]).seq = worker[c].expected
      /\ worker[c].phase = "frames" /\ client' = client /\ down' = down /\ taken' = taken
  BY DEF TakeEvidence
<1> HIDE DEF n, s
<1>2. /\ Others(c) /\ worker'[c].phase = "request" /\ worker'[c].snap = s /\ worker'[c].expected = n
      /\ worker'[c].code = worker[c].code /\ up'[c] = Tail(up[c])
  BY <1>1, LinkEnds DEF Others, WorkerType
<1> QED BY <1>1, <1>2 DEF n, s

\* The worker is between a frame and its answer.
LEMMA AtBusy ==
  ASSUME LinkInv, NEW c \in Connections,
         MakeRequest(c) \/ Stage(c) \/ NotStaged(c) \/ EvaluateStaged(c) \/ CommitStaged(c)
  PROVE  /\ Others(c) /\ client' = client /\ up' = up /\ down' = down /\ taken \subseteq taken'
         /\ worker[c].phase \in Busy /\ worker'[c].phase \in Busy
         /\ worker'[c].expected = worker[c].expected /\ worker'[c].snap = worker[c].snap
         /\ worker'[c].code \in {worker[c].code, "ok", "duplicate", "rejected"}
         /\ \/ worker'[c].phase = "ingest"
            \/ worker'[c].phase = "ack" /\ worker'[c].code = "rejected"
            \/ worker[c].phase \in {"evaluate", "commit"}
            \/ worker[c].snap \in taken'
            \/ IsDuplicate(worker[c].snap)
<1>1. CASE MakeRequest(c)
  <2>1. /\ worker' = [worker EXCEPT ![c] = [worker[c] EXCEPT !.phase = "ingest", !.g = policy.gen, !.f = epoch]]
        /\ worker[c].phase = "request" /\ client' = client /\ up' = up /\ down' = down /\ taken' = taken
    BY <1>1 DEF MakeRequest
  <2>2. /\ Others(c) /\ WorkerMoves(c, "ingest") /\ worker'[c].snap = worker[c].snap
        /\ worker'[c].code = worker[c].code
    BY <2>1, LinkEnds DEF Others, WorkerMoves, WorkerType
  <2> QED BY <2>1, <2>2 DEF WorkerMoves, Busy
<1>2. CASE Stage(c)
  <2> DEFINE ph == IF EvaluateOnIngest THEN "evaluate" ELSE "ack"
  <2>1. /\ worker' = [worker EXCEPT ![c] = [worker[c] EXCEPT !.phase = ph, !.code = "ok"]]
        /\ worker[c].phase = "ingest" /\ client' = client /\ up' = up /\ down' = down
        /\ taken' = taken \cup {worker[c].snap}
    BY <1>2 DEF Stage
  <2>2. ph \in Busy
    BY DEF Busy
  <2> HIDE DEF ph
  <2>3. Others(c) /\ WorkerMoves(c, ph) /\ worker'[c].snap = worker[c].snap /\ worker'[c].code = "ok"
    BY <2>1, LinkEnds DEF Others, WorkerMoves, WorkerType
  <2> QED BY <2>1, <2>2, <2>3 DEF WorkerMoves, Busy
<1>3. CASE NotStaged(c)
  <2> DEFINE code == IF IsDuplicate(worker[c].snap) THEN "duplicate" ELSE "rejected"
  <2>1. /\ worker' = [worker EXCEPT ![c] = [worker[c] EXCEPT !.phase = "ack", !.code = code]]
        /\ worker[c].phase = "ingest" /\ client' = client /\ up' = up /\ down' = down /\ taken' = taken
    BY <1>3 DEF NotStaged
  <2>2. code \in {"duplicate", "rejected"} /\ (code = "rejected" \/ IsDuplicate(worker[c].snap))
    OBVIOUS
  <2> HIDE DEF code
  <2>3. Others(c) /\ WorkerMoves(c, "ack") /\ worker'[c].snap = worker[c].snap /\ worker'[c].code = code
    BY <2>1, LinkEnds DEF Others, WorkerMoves, WorkerType
  <2> QED BY <2>1, <2>2, <2>3 DEF WorkerMoves, Busy
<1>4. CASE EvaluateStaged(c)
  <2> DEFINE d == DecisionFor(worker[c].g, worker[c].f, worker[c].snap, TRUE)
  <2>1. /\ worker' = [worker EXCEPT ![c] = [worker[c] EXCEPT !.phase = "commit", !.d = d]]
        /\ worker[c].phase = "evaluate" /\ client' = client /\ up' = up /\ down' = down /\ taken' = taken
    BY <1>4 DEF EvaluateStaged
  <2> HIDE DEF d
  <2>2. /\ Others(c) /\ WorkerMoves(c, "commit") /\ worker'[c].snap = worker[c].snap
        /\ worker'[c].code = worker[c].code
    BY <2>1, LinkEnds DEF Others, WorkerMoves, WorkerType
  <2> QED BY <2>1, <2>2 DEF WorkerMoves, Busy
<1>5. CASE CommitStaged(c)
  <2>1. /\ worker' = [worker EXCEPT ![c].phase = "ack"]
        /\ worker[c].phase = "commit" /\ client' = client /\ up' = up /\ down' = down /\ taken' = taken
    BY <1>5 DEF CommitStaged
  <2>2. /\ Others(c) /\ WorkerMoves(c, "ack") /\ worker'[c].snap = worker[c].snap
        /\ worker'[c].code = worker[c].code
    BY <2>1, LinkEnds DEF Others, WorkerMoves, WorkerType
  <2> QED BY <2>1, <2>2 DEF WorkerMoves, Busy
<1> QED BY <1>1, <1>2, <1>3, <1>4, <1>5

LEMMA AtAck ==
  ASSUME LinkInv, NEW c \in Connections, SendAck(c)
  PROVE  /\ Others(c) /\ client' = client /\ up' = up /\ taken' = taken
         /\ worker[c].phase = "ack" /\ worker'[c].expected = worker[c].expected
         /\ worker'[c].code \in {worker[c].code, "ok"}
         /\ \/ worker'[c].phase = "closed" /\ down'[c] = down[c]
            \/ /\ worker'[c].phase = "frames"
               /\ down'[c] = Append(down[c], [kind |-> "evidence_ack", code |-> worker[c].code,
                                              snap |-> worker[c].snap])
<1> DEFINE m == [kind |-> "evidence_ack", code |-> worker[c].code, snap |-> worker[c].snap]
           n == [Idle EXCEPT !.expected = worker[c].expected]
<1>1. worker[c].phase = "ack" /\ client' = client /\ up' = up /\ taken' = taken
  BY DEF SendAck
<1>2. n.phase = "frames" /\ n.expected = worker[c].expected /\ n.code = "ok"
  BY DEF Idle
<1>3. \/ worker' = [worker EXCEPT ![c].phase = "closed"] /\ down' = down
      \/ worker' = [worker EXCEPT ![c] = n] /\ down' = [down EXCEPT ![c] = Append(down[c], m)]
  BY DEF SendAck, SendDown
<1> HIDE DEF m, n
<1>4. CASE worker' = [worker EXCEPT ![c].phase = "closed"] /\ down' = down
  <2>1. /\ Others(c) /\ WorkerMoves(c, "closed") /\ worker'[c].code = worker[c].code
    BY <1>1, <1>4, LinkEnds DEF Others, WorkerMoves, WorkerType
  <2> QED BY <1>1, <1>4, <2>1 DEF WorkerMoves
<1>5. CASE worker' = [worker EXCEPT ![c] = n] /\ down' = [down EXCEPT ![c] = Append(down[c], m)]
  <2>1. Others(c) /\ worker'[c] = n /\ down'[c] = Append(down[c], m)
    BY <1>1, <1>5, LinkEnds DEF Others
  <2> QED BY <1>1, <1>2, <2>1 DEF m
<1> QED BY <1>3, <1>4, <1>5

LEMMA AtCrash ==
  ASSUME LinkInv, ServerCrash, NEW c \in Connections
  PROVE  /\ client' = client /\ down' = down /\ taken' = taken /\ up'[c] = <<>>
         /\ (worker[c].phase = "new" /\ worker'[c] = worker[c]) \/ worker'[c].phase = "closed"
         /\ worker'[c].expected = worker[c].expected /\ worker'[c].code = worker[c].code
<1>1. /\ worker' = [k \in Connections |-> IF worker[k].phase = "new" THEN worker[k]
                                          ELSE [worker[k] EXCEPT !.phase = "closed"]]
      /\ up' = [k \in Connections |-> <<>>] /\ client' = client /\ down' = down /\ taken' = taken
  BY DEF ServerCrash
<1>2. CASE worker[c].phase = "new"
  BY <1>1, <1>2
<1>3. CASE worker[c].phase # "new"
  <2>1. worker'[c] = [worker[c] EXCEPT !.phase = "closed"] /\ worker[c] \in WorkerType
    BY <1>1, <1>3, LinkEnds
  <2> QED BY <1>1, <2>1 DEF WorkerType
<1> QED BY <1>2, <1>3

-------------------------------------------------------------------------------
(* Sequence numbers on the link.                                           *)

\* The publisher numbers its submissions and the worker counts the frames it
\* takes.  While every send succeeds and the worker serves, the frames on their
\* way carry consecutive numbers from the one the worker expects, and the
\* publisher's counter is the last of them: what an answer says, and whether it
\* is read, plays no part.
Consecutive(cl, w, u, dn) ==
  /\ w.phase \in Busy \cup {"frames"} =>
       /\ \A i \in 1..Len(u) : u[i].kind = "evidence" => u[i].seq = w.expected + i - 1
       /\ cl.phase \in {"hello", "ready", "waiting"} => cl.seq = w.expected + Len(u) - 1
  /\ \A i \in 1..Len(dn) : dn[i].code # "sequence"

Numbered(cl, w, u, dn) ==
  /\ w.phase = "new" <=> cl.phase = "new"
  /\ w.phase = "new" => u = <<>>
  /\ w.phase \in {"new", "hello"} => cl.seq = 0 /\ w.expected = 1 /\ dn = <<>>
  /\ w.phase = "hello" => Len(u) = 1 /\ cl.phase \in {"hello", "closed"}
  /\ w.code # "sequence"
  /\ cl.lost = 0 => Consecutive(cl, w, u, dn)

NumberedAt(c) == Numbered(client[c], worker[c], up[c], down[c])

LEMMA NumberedStep ==
  ASSUME LinkInv, [LinkNext]_allVars, \A c \in Connections : NumberedAt(c)
  PROVE  \A c \in Connections : NumberedAt(c)'
<1> DEFINE Goal == \A c \in Connections : NumberedAt(c)'
<1> HIDE DEF Goal
<1> SUFFICES Goal
  BY DEF Goal
<1>o. ASSUME NEW c \in Connections, Others(c), NumberedAt(c)' PROVE Goal
  <2> SUFFICES ASSUME NEW k \in Connections, k # c PROVE NumberedAt(k)'
    BY <1>o DEF Goal
  <2>1. client'[k] = client[k] /\ worker'[k] = worker[k] /\ up'[k] = up[k] /\ down'[k] = down[k]
    BY <1>o DEF Others
  <2>2. NumberedAt(k)
    OBVIOUS
  <2> QED BY <2>1, <2>2 DEF NumberedAt
<1>t. ASSUME NEW c \in Connections
      PROVE  /\ client[c].seq \in Nat /\ client[c].lost \in Nat /\ worker[c].expected \in Nat \ {0}
             /\ up[c] \in Seq(Frame) /\ down[c] \in Seq(Answer)
             /\ Numbered(client[c], worker[c], up[c], down[c])
  BY LinkEnds DEF ClientType, WorkerType, NumberedAt
<1>1. ASSUME NEW c \in Connections, NEW f \in Epochs, NEW p \in Publishers, Connect(c, f, p) PROVE Goal
  <2> DEFINE m == [kind |-> "hello", epoch |-> f, seq |-> 0, snap |-> NoSnapshot]
  <2>1. /\ Others(c) /\ ClientMoves(c, "hello") /\ WorkerMoves(c, "hello") /\ client[c].phase = "new"
        /\ up'[c] = Append(up[c], m) /\ down'[c] = down[c] /\ worker'[c].code = worker[c].code
    BY <1>1, AtConnect
  <2> HIDE DEF m
  <2>2. Numbered(client[c], worker[c], up[c], down[c])
    BY <1>t
  <2>3. Len(up'[c]) = 1
    BY <2>1, <2>2 DEF Numbered
  <2>4. Numbered(client'[c], worker'[c], up'[c], down'[c])
    BY <2>1, <2>2, <2>3 DEF Numbered, Consecutive, ClientMoves, WorkerMoves, Busy
  <2> QED BY <1>o, <2>1, <2>4 DEF NumberedAt
<1>2. ASSUME NEW c \in Connections, NEW s \in Evidence, Submit(c, s) PROVE Goal
  <2> DEFINE m == [kind |-> "evidence", epoch |-> s.epoch, seq |-> client[c].seq + 1, snap |-> s]
  <2>1. /\ Others(c) /\ worker'[c] = worker[c] /\ down'[c] = down[c] /\ client[c].phase = "ready"
        /\ client'[c].phase = "waiting" /\ client'[c].seq = client[c].seq + 1 /\ up'[c] = Append(up[c], m)
        /\ client'[c].lost = client[c].lost
    BY <1>2, AtSubmit
  <2>2. m.seq = client[c].seq + 1
    OBVIOUS
  <2> HIDE DEF m
  <2>3. Numbered(client[c], worker[c], up[c], down[c])
    BY <1>t
  <2>4. Len(up'[c]) = Len(up[c]) + 1 /\ \A i \in 1..Len(up'[c]) :
          up'[c][i] = IF i <= Len(up[c]) THEN up[c][i] ELSE m
    BY <1>t, <2>1
  <2>5. worker[c].phase \notin {"new", "hello"}
    BY <2>1, <2>3 DEF Numbered
  <2>6. ASSUME worker[c].phase \in Busy \cup {"frames"}, client[c].lost = 0
        PROVE  /\ \A i \in 1..Len(up'[c]) : up'[c][i].kind = "evidence" => up'[c][i].seq = worker[c].expected + i - 1
               /\ client'[c].seq = worker[c].expected + Len(up'[c]) - 1
    <3>1. /\ client[c].seq = worker[c].expected + Len(up[c]) - 1
          /\ \A i \in 1..Len(up[c]) : up[c][i].kind = "evidence" => up[c][i].seq = worker[c].expected + i - 1
      BY <2>1, <2>3, <2>6 DEF Numbered, Consecutive
    <3>2. Len(up[c]) \in Nat /\ worker[c].expected \in Nat /\ client[c].seq \in Nat
      BY <1>t
    <3>3. client'[c].seq = worker[c].expected + Len(up'[c]) - 1
      BY <2>1, <2>4, <3>1, <3>2
    <3>4. ASSUME NEW i \in 1..Len(up'[c]), up'[c][i].kind = "evidence"
          PROVE  up'[c][i].seq = worker[c].expected + i - 1
      <4>1. CASE i <= Len(up[c])
        <5>1. i \in 1..Len(up[c]) /\ up'[c][i] = up[c][i]
          BY <2>4, <3>2, <4>1
        <5> QED BY <3>1, <3>4, <5>1
      <4>2. CASE ~(i <= Len(up[c]))
        <5>1. i = Len(up[c]) + 1 /\ up'[c][i] = m
          BY <2>4, <3>2, <4>2
        <5> QED BY <2>2, <3>1, <3>2, <5>1
      <4> QED BY <4>1, <4>2
    <3> QED BY <3>3, <3>4
  <2>7. Numbered(client'[c], worker'[c], up'[c], down'[c])
    BY <2>1, <2>3, <2>5, <2>6 DEF Numbered, Consecutive
  <2> QED BY <1>o, <2>1, <2>7 DEF NumberedAt
<1>f. ASSUME NEW c \in Connections, SubmitFails(c) PROVE Goal
  <2>1. /\ Others(c) /\ worker'[c] = worker[c] /\ down'[c] = down[c]
        /\ client[c].phase = "ready" /\ client'[c].phase = "ready" /\ client'[c].lost # 0
    BY <1>f, <1>t, AtSubmitFails
  <2>2. Numbered(client[c], worker[c], up[c], down[c])
    BY <1>t
  <2>3. Numbered(client'[c], worker'[c], up'[c], down'[c])
    BY <2>1, <2>2 DEF Numbered
  <2> QED BY <1>o, <2>1, <2>3 DEF NumberedAt
<1>3. ASSUME NEW c \in Connections,
             ReceiveHelloAck(c) \/ ConnectFails(c) \/ ReceiveAnswer(c) \/ NoAnswer(c) \/ Leave(c)
      PROVE  Goal
  <2> DEFINE m == [kind |-> "goodbye", epoch |-> client[c].epoch, seq |-> 0, snap |-> NoSnapshot]
  <2>1. /\ Others(c) /\ worker'[c] = worker[c] /\ client[c].phase \in {"hello", "ready", "waiting"}
        /\ client'[c].phase \in {"ready", "closed"} /\ client'[c].seq = client[c].seq
        /\ client'[c].lost = client[c].lost
        /\ client'[c].phase = "ready" /\ client[c].phase = "hello" => down[c] # <<>>
        /\ up'[c] = up[c] \/ (client'[c].phase = "closed" /\ up'[c] = Append(up[c], m))
        /\ \E lost \in 0..Len(down[c]) : down'[c] = SubSeq(down[c], lost + 1, Len(down[c]))
    BY <1>3, AtClient
  <2>2. m.kind = "goodbye"
    OBVIOUS
  <2> HIDE DEF m
  <2>3. Numbered(client[c], worker[c], up[c], down[c])
    BY <1>t
  <2>4. /\ client[c].lost = 0 => \A i \in 1..Len(down'[c]) : down'[c][i].code # "sequence"
        /\ down[c] = <<>> => down'[c] = <<>>
    <3>1. PICK lost \in 0..Len(down[c]) : down'[c] = SubSeq(down[c], lost + 1, Len(down[c]))
      BY <2>1
    <3>2. /\ down[c] \in Seq(Answer)
          /\ client[c].lost = 0 => \A i \in 1..Len(down[c]) : down[c][i].code # "sequence"
      BY <1>t, <2>3 DEF Numbered, Consecutive
    <3>3. Len(down'[c]) = Len(down[c]) - lost /\ \A i \in 1..Len(down'[c]) : down'[c][i] = down[c][lost + i]
      BY <3>1, <3>2
    <3>4. down'[c] \in Seq(Answer)
      BY <3>1, <3>2
    <3>5. Len(down[c]) \in Nat /\ lost \in Nat
      BY <3>2
    <3>6. \A i \in 1..Len(down'[c]) : lost + i \in 1..Len(down[c])
      BY <3>3, <3>5
    <3>7. client[c].lost = 0 => \A i \in 1..Len(down'[c]) : down'[c][i].code # "sequence"
      BY <3>2, <3>3, <3>6
    <3>8. down[c] = <<>> => down'[c] = <<>>
      BY <3>3, <3>4, <3>5
    <3> QED BY <3>7, <3>8
  <2>5. worker[c].phase # "new" /\ client'[c].phase # "new"
    BY <2>1, <2>3 DEF Numbered
  <2>6. ASSUME worker[c].phase = "hello"
        PROVE  up'[c] = up[c] /\ client'[c].phase = "closed"
    <3>1. client[c].phase = "hello" /\ down[c] = <<>>
      BY <2>1, <2>3, <2>6 DEF Numbered
    <3>2. up'[c] = up[c]
      BY <1>3, <3>1 DEF ReceiveHelloAck, ConnectFails, ReceiveAnswer, NoAnswer, Leave
    <3> QED BY <2>1, <3>1, <3>2
  <2>7. ASSUME worker[c].phase \in Busy \cup {"frames"}, client[c].lost = 0
        PROVE  /\ \A i \in 1..Len(up'[c]) : up'[c][i].kind = "evidence" => up'[c][i].seq = worker[c].expected + i - 1
               /\ client'[c].phase = "ready" => client'[c].seq = worker[c].expected + Len(up'[c]) - 1
    <3>1. /\ client[c].seq = worker[c].expected + Len(up[c]) - 1
          /\ \A i \in 1..Len(up[c]) : up[c][i].kind = "evidence" => up[c][i].seq = worker[c].expected + i - 1
      BY <2>1, <2>3, <2>7 DEF Numbered, Consecutive
    <3>2. CASE up'[c] = up[c]
      BY <2>1, <3>1, <3>2
    <3>3. CASE client'[c].phase = "closed" /\ up'[c] = Append(up[c], m)
      <4>1. Len(up'[c]) = Len(up[c]) + 1 /\ \A i \in 1..Len(up'[c]) :
              up'[c][i] = IF i <= Len(up[c]) THEN up[c][i] ELSE m
        BY <1>t, <3>3
      <4>2. Len(up[c]) \in Nat
        BY <1>t
      <4> QED BY <2>2, <3>1, <3>3, <4>1, <4>2
    <3> QED BY <2>1, <3>2, <3>3
  <2>8. Numbered(client'[c], worker'[c], up'[c], down'[c])
    BY <2>1, <2>3, <2>4, <2>5, <2>6, <2>7 DEF Numbered, Consecutive
  <2> QED BY <1>o, <2>1, <2>8 DEF NumberedAt
<1>4. ASSUME NEW c \in Connections,
             Handshake(c) \/ DropConnection(c) \/ DropFrame(c) \/ RefuseFrame(c) \/ Goodbye(c)
      PROVE  Goal
  <2>1. /\ Others(c) /\ client'[c] = client[c]
        /\ worker[c].phase \in {"hello", "frames"} /\ worker'[c].phase \in {"frames", "closed"}
        /\ worker'[c].expected = worker[c].expected /\ worker'[c].code = worker[c].code
    BY <1>4, AtReading
  <2>2. Numbered(client[c], worker[c], up[c], down[c]) /\ down[c] \in Seq(Answer) /\ up[c] \in Seq(Frame)
    BY <1>t
  <2>3. client[c].phase # "new"
    BY <2>1, <2>2 DEF Numbered
  <2>a. ASSUME client[c].lost = 0, NEW m, m.code # "sequence", down'[c] = Append(down[c], m)
        PROVE  \A i \in 1..Len(down'[c]) : down'[c][i].code # "sequence"
    <3>1. Len(down'[c]) = Len(down[c]) + 1 /\ \A i \in 1..Len(down'[c]) :
            down'[c][i] = IF i <= Len(down[c]) THEN down[c][i] ELSE m
      BY <2>2, <2>a
    <3>2. Len(down[c]) \in Nat /\ \A i \in 1..Len(down[c]) : down[c][i].code # "sequence"
      BY <2>2, <2>a DEF Numbered, Consecutive
    <3> QED BY <2>a, <3>1, <3>2
  <2>4. CASE worker'[c].phase = "frames"
    <3> DEFINE m == [kind |-> "hello_ack", code |-> "ok", snap |-> NoSnapshot]
    <3>1. /\ worker[c].phase = "hello" /\ up[c] # <<>> /\ up'[c] = Tail(up[c])
          /\ down'[c] = Append(down[c], m)
      BY <1>4, <2>4, AtReading
    <3>2. m.code # "sequence"
      OBVIOUS
    <3> HIDE DEF m
    <3>3. client[c].lost = 0 => \A i \in 1..Len(down'[c]) : down'[c][i].code # "sequence"
      BY <2>a, <3>1, <3>2
    <3>4. client[c].seq = 0 /\ worker[c].expected = 1 /\ Len(up[c]) = 1
      BY <2>2, <3>1 DEF Numbered
    <3>5. Len(up'[c]) = 0
      BY <2>2, <3>1, <3>4
    <3> QED BY <1>o, <2>1, <2>2, <2>3, <2>4, <3>3, <3>4, <3>5 DEF NumberedAt, Numbered, Consecutive
  <2>5. CASE worker'[c].phase = "closed"
    <3>1. ASSUME client[c].lost = 0 PROVE \A i \in 1..Len(down'[c]) : down'[c][i].code # "sequence"
      <4>c. Consecutive(client[c], worker[c], up[c], down[c])
        BY <2>2, <3>1 DEF Numbered
      <4>1. CASE down'[c] = down[c]
        BY <4>1, <4>c DEF Consecutive
      <4>2. ASSUME NEW m \in Answer, down'[c] = Append(down[c], m), up[c] # <<>>,
                   m.code = "sequence" =>
                     /\ worker[c].phase = "frames"
                     /\ Head(up[c]).kind = "evidence" /\ Head(up[c]).seq # worker[c].expected
            PROVE  \A i \in 1..Len(down'[c]) : down'[c][i].code # "sequence"
        <5>1. Head(up[c]) = up[c][1] /\ 1 \in 1..Len(up[c]) /\ worker[c].expected + 1 - 1 = worker[c].expected
          BY <1>t, <4>2
        <5>2. m.code # "sequence"
          <6> SUFFICES ASSUME m.code = "sequence" PROVE FALSE
            OBVIOUS
          <6>1. up[c][1].seq = worker[c].expected + 1 - 1
            BY <4>2, <4>c, <5>1 DEF Consecutive
          <6> QED BY <4>2, <5>1, <6>1
        <5> QED BY <2>a, <3>1, <4>2, <5>2
      <4> QED BY <1>4, <2>5, <4>1, <4>2, AtReading
    <3> QED BY <1>o, <2>1, <2>2, <2>3, <2>5, <3>1 DEF NumberedAt, Numbered, Consecutive, Busy
  <2> QED BY <2>1, <2>4, <2>5
<1>5. ASSUME NEW c \in Connections, TakeEvidence(c) PROVE Goal
  <2>1. /\ Others(c) /\ client'[c] = client[c] /\ down'[c] = down[c]
        /\ worker[c].phase = "frames" /\ worker'[c].phase = "request"
        /\ worker'[c].expected = worker[c].expected + 1 /\ worker'[c].code = worker[c].code
        /\ up[c] # <<>> /\ up'[c] = Tail(up[c])
    BY <1>5, AtTake
  <2>2. Numbered(client[c], worker[c], up[c], down[c])
    BY <1>t
  <2>n. client[c].phase # "new"
    BY <2>1, <2>2 DEF Numbered
  <2>0. CASE client[c].lost # 0
    BY <1>o, <2>0, <2>1, <2>2, <2>n DEF NumberedAt, Numbered
  <2> SUFFICES ASSUME client[c].lost = 0 PROVE Goal
    BY <2>0
  <2>3. /\ \A i \in 1..Len(up[c]) : up[c][i].kind = "evidence" => up[c][i].seq = worker[c].expected + i - 1
        /\ client[c].phase \in {"hello", "ready", "waiting"} => client[c].seq = worker[c].expected + Len(up[c]) - 1
        /\ \A i \in 1..Len(down[c]) : down[c][i].code # "sequence"
    BY <2>1, <2>2 DEF Numbered, Consecutive
  <2>4. Len(up'[c]) = Len(up[c]) - 1 /\ \A i \in 1..Len(up'[c]) : up'[c][i] = up[c][i + 1]
    BY <1>t, <2>1
  <2>5. Len(up[c]) \in Nat /\ Len(up[c]) # 0 /\ worker[c].expected \in Nat
    BY <1>t, <2>1
  <2>6. /\ \A i \in 1..Len(up'[c]) : up'[c][i].kind = "evidence" => up'[c][i].seq = worker'[c].expected + i - 1
        /\ client[c].phase \in {"hello", "ready", "waiting"} => client[c].seq = worker'[c].expected + Len(up'[c]) - 1
    <3>1. ASSUME NEW i \in 1..Len(up'[c]), up'[c][i].kind = "evidence"
          PROVE  up'[c][i].seq = worker'[c].expected + i - 1
      <4>1. i + 1 \in 1..Len(up[c]) /\ up'[c][i] = up[c][i + 1]
        BY <2>4, <2>5
      <4>2. up[c][i + 1].seq = worker[c].expected + (i + 1) - 1
        BY <2>3, <3>1, <4>1
      <4> QED BY <2>1, <2>5, <4>1, <4>2
    <3>2. worker'[c].expected + Len(up'[c]) - 1 = worker[c].expected + Len(up[c]) - 1
      <4>1. \A a, n \in Nat : (a + 1) + (n - 1) - 1 = a + n - 1
        OBVIOUS
      <4>2. worker'[c].expected = worker[c].expected + 1 /\ Len(up'[c]) = Len(up[c]) - 1
        BY <2>1, <2>4
      <4> QED BY <2>5, <4>1, <4>2
    <3> QED BY <2>3, <3>1, <3>2
  <2>7. Numbered(client'[c], worker'[c], up'[c], down'[c])
    BY <2>1, <2>2, <2>3, <2>6, <2>n DEF Numbered, Consecutive, Busy
  <2> QED BY <1>o, <2>1, <2>7 DEF NumberedAt
<1>6. ASSUME NEW c \in Connections,
             MakeRequest(c) \/ Stage(c) \/ NotStaged(c) \/ EvaluateStaged(c) \/ CommitStaged(c)
      PROVE  Goal
  <2>1. /\ Others(c) /\ client'[c] = client[c] /\ up'[c] = up[c] /\ down'[c] = down[c]
        /\ worker[c].phase \in Busy /\ worker'[c].phase \in Busy
        /\ worker'[c].expected = worker[c].expected
        /\ worker'[c].code \in {worker[c].code, "ok", "duplicate", "rejected"}
    BY <1>6, AtBusy
  <2>2. Numbered(client[c], worker[c], up[c], down[c])
    BY <1>t
  <2> QED BY <1>o, <2>1, <2>2 DEF NumberedAt, Numbered, Consecutive, Busy
<1>7. ASSUME NEW c \in Connections, SendAck(c) PROVE Goal
  <2> DEFINE m == [kind |-> "evidence_ack", code |-> worker[c].code, snap |-> worker[c].snap]
  <2>1. /\ Others(c) /\ client'[c] = client[c] /\ up'[c] = up[c]
        /\ worker[c].phase = "ack" /\ worker'[c].expected = worker[c].expected
        /\ worker'[c].code \in {worker[c].code, "ok"}
        /\ \/ worker'[c].phase = "closed" /\ down'[c] = down[c]
           \/ worker'[c].phase = "frames" /\ down'[c] = Append(down[c], m)
    BY <1>7, AtAck
  <2>2. m.code = worker[c].code
    OBVIOUS
  <2> HIDE DEF m
  <2>3. Numbered(client[c], worker[c], up[c], down[c])
    BY <1>t
  <2>4. ASSUME client[c].lost = 0 PROVE \A i \in 1..Len(down'[c]) : down'[c][i].code # "sequence"
    <3>1. Len(down[c]) \in Nat /\ (\A i \in 1..Len(down[c]) : down[c][i].code # "sequence")
          /\ m.code # "sequence"
      BY <1>t, <2>2, <2>3, <2>4 DEF Numbered, Consecutive
    <3>2. CASE down'[c] = Append(down[c], m)
      <4>1. Len(down'[c]) = Len(down[c]) + 1 /\ \A i \in 1..Len(down'[c]) :
              down'[c][i] = IF i <= Len(down[c]) THEN down[c][i] ELSE m
        BY <1>t, <3>2
      <4> QED BY <3>1, <4>1
    <3> QED BY <2>1, <3>1, <3>2
  <2>5. Numbered(client'[c], worker'[c], up'[c], down'[c])
    BY <2>1, <2>3, <2>4 DEF Numbered, Consecutive, Busy
  <2> QED BY <1>o, <2>1, <2>5 DEF NumberedAt
<1>8. CASE Administer \/ UNCHANGED allVars
  <2>1. UNCHANGED link
    BY <1>8 DEF Administer, allVars
  <2> QED BY <2>1 DEF Goal, NumberedAt, link
<1>9. CASE ServerCrash
  <2> SUFFICES ASSUME NEW c \in Connections PROVE NumberedAt(c)'
    BY DEF Goal
  <2>1. /\ client'[c] = client[c] /\ down'[c] = down[c] /\ up'[c] = <<>>
        /\ (worker[c].phase = "new" /\ worker'[c] = worker[c]) \/ worker'[c].phase = "closed"
        /\ worker'[c].code = worker[c].code
    BY <1>9, AtCrash
  <2>2. Numbered(client[c], worker[c], up[c], down[c])
    BY <1>t
  <2>3. CASE worker[c].phase = "new" /\ worker'[c] = worker[c]
    BY <2>1, <2>2, <2>3 DEF NumberedAt, Numbered, Consecutive, Busy
  <2>4. CASE worker[c].phase # "new" /\ worker'[c].phase = "closed"
    BY <2>1, <2>2, <2>4 DEF NumberedAt, Numbered, Consecutive, Busy
  <2>5. worker[c].phase # "new" \/ worker'[c] = worker[c]
    BY <1>9 DEF ServerCrash
  <2> QED BY <2>1, <2>3, <2>4, <2>5
<1> QED BY <1>1, <1>2, <1>f, <1>3, <1>4, <1>5, <1>6, <1>7, <1>8, <1>9 DEF LinkNext, WorkerStep, ReadTorn

LEMMA NumberedInit == LinkInit => \A c \in Connections : NumberedAt(c)
<1> SUFFICES ASSUME LinkInit, NEW c \in Connections PROVE NumberedAt(c)
  OBVIOUS
<1>1. /\ client[c].phase = "new" /\ client[c].seq = 0 /\ up[c] = <<>> /\ down[c] = <<>>
  BY DEF LinkInit
<1>2. worker[c] = [Idle EXCEPT !.phase = "new"]
  BY DEF LinkInit
<1>3. worker[c].phase = "new" /\ worker[c].expected = 1 /\ worker[c].code = "ok"
  BY <1>2 DEF Idle
<1> QED BY <1>1, <1>3 DEF NumberedAt, Numbered, Consecutive, Busy

\* A failed send leaves a gap the worker does not step over: what it expects and
\* the frames on their way stay behind the publisher's counter, and from the
\* first number lost on nothing fits.
Gapped(cl, w, u) ==
  /\ w.expected <= cl.seq + 1 /\ cl.lost <= cl.seq
  /\ \A i \in 1..Len(u) : u[i].kind = "evidence" => u[i].seq <= cl.seq
  /\ cl.lost # 0 =>
       /\ w.expected <= cl.lost
       /\ \A i \in 1..Len(u) : u[i].kind = "evidence" => u[i].seq # cl.lost

GappedAt(c) == Gapped(client[c], worker[c], up[c])

LEMMA GappedStep ==
  ASSUME LinkInv, [LinkNext]_allVars, \A c \in Connections : GappedAt(c)
  PROVE  \A c \in Connections : GappedAt(c)'
<1> DEFINE Goal == \A c \in Connections : GappedAt(c)'
<1> HIDE DEF Goal
<1> SUFFICES Goal
  BY DEF Goal
<1>o. ASSUME NEW c \in Connections, Others(c), Gapped(client'[c], worker'[c], up'[c]) PROVE Goal
  BY <1>o DEF Goal, GappedAt, Others
<1>t. ASSUME NEW c \in Connections
      PROVE  /\ client[c].seq \in Nat /\ client[c].lost \in Nat /\ worker[c].expected \in Nat \ {0}
             /\ up[c] \in Seq(Frame) /\ (\A i \in 1..Len(up[c]) : up[c][i].seq \in Nat)
             /\ Gapped(client[c], worker[c], up[c])
  <2>1. up[c] \in Seq(Frame) /\ client[c] \in ClientType /\ worker[c] \in WorkerType
    BY LinkEnds
  <2>2. \A i \in 1..Len(up[c]) : up[c][i] \in Frame
    BY <2>1
  <2> QED BY <2>1, <2>2 DEF ClientType, WorkerType, Frame, GappedAt
\* Nothing is sent, or a frame that is no submission.
<1>k. ASSUME NEW c \in Connections, Others(c), worker'[c].expected = worker[c].expected,
             client'[c].seq = client[c].seq, client'[c].lost = client[c].lost,
             \/ up'[c] = up[c]
             \/ up[c] # <<>> /\ up'[c] = Tail(up[c])
             \/ \E m : m.kind # "evidence" /\ up'[c] = Append(up[c], m)
      PROVE  Goal
  <2>1. \A i \in 1..Len(up'[c]) :
          up'[c][i].kind = "evidence" => \E j \in 1..Len(up[c]) : up'[c][i] = up[c][j]
    <3>1. CASE up'[c] = up[c]
      BY <3>1
    <3>2. CASE up[c] # <<>> /\ up'[c] = Tail(up[c])
      <4>1. Len(up'[c]) = Len(up[c]) - 1 /\ \A i \in 1..Len(up'[c]) : up'[c][i] = up[c][i + 1]
        BY <1>t, <3>2
      <4>2. Len(up[c]) \in Nat
        BY <1>t
      <4>3. \A i \in 1..Len(up'[c]) : i + 1 \in 1..Len(up[c])
        BY <4>1, <4>2
      <4> QED BY <4>1, <4>3
    <3>3. ASSUME NEW m, m.kind # "evidence", up'[c] = Append(up[c], m)
          PROVE  \A i \in 1..Len(up'[c]) :
                   up'[c][i].kind = "evidence" => \E j \in 1..Len(up[c]) : up'[c][i] = up[c][j]
      <4>1. Len(up'[c]) = Len(up[c]) + 1 /\ \A i \in 1..Len(up'[c]) :
              up'[c][i] = IF i <= Len(up[c]) THEN up[c][i] ELSE m
        BY <1>t, <3>3
      <4>2. Len(up[c]) \in Nat
        BY <1>t
      <4> QED BY <3>3, <4>1, <4>2
    <3> QED BY <1>k, <3>1, <3>2, <3>3
  <2>2. Gapped(client[c], worker[c], up[c])
    BY <1>t
  <2>3. Gapped(client'[c], worker'[c], up'[c])
    BY <1>k, <2>1, <2>2 DEF Gapped
  <2> QED BY <1>k, <1>o, <2>3
<1>1. ASSUME NEW c \in Connections, NEW f \in Epochs, NEW p \in Publishers, Connect(c, f, p) PROVE Goal
  <2> DEFINE m == [kind |-> "hello", epoch |-> f, seq |-> 0, snap |-> NoSnapshot]
  <2>1. Others(c) /\ ClientMoves(c, "hello") /\ WorkerMoves(c, "hello") /\ up'[c] = Append(up[c], m)
    BY <1>1, AtConnect
  <2>2. m.kind # "evidence"
    OBVIOUS
  <2> HIDE DEF m
  <2> QED BY <1>k, <2>1, <2>2 DEF ClientMoves, WorkerMoves
<1>2. ASSUME NEW c \in Connections, NEW s \in Evidence, Submit(c, s) PROVE Goal
  <2> DEFINE m == [kind |-> "evidence", epoch |-> s.epoch, seq |-> client[c].seq + 1, snap |-> s]
  <2>1. /\ Others(c) /\ worker'[c] = worker[c] /\ up'[c] = Append(up[c], m)
        /\ client'[c].seq = client[c].seq + 1 /\ client'[c].lost = client[c].lost
    BY <1>2, AtSubmit
  <2>2. m.seq = client[c].seq + 1
    OBVIOUS
  <2> HIDE DEF m
  <2>3. /\ \A i \in 1..Len(up'[c]) : up'[c][i] = m \/ \E j \in 1..Len(up[c]) : up'[c][i] = up[c][j]
    <3>1. Len(up'[c]) = Len(up[c]) + 1 /\ \A i \in 1..Len(up'[c]) :
            up'[c][i] = IF i <= Len(up[c]) THEN up[c][i] ELSE m
      BY <1>t, <2>1
    <3>2. Len(up[c]) \in Nat
      BY <1>t
    <3> QED BY <3>1, <3>2
  <2>4. Gapped(client[c], worker[c], up[c])
    BY <1>t
  <2>5. /\ client'[c].seq \in Nat /\ worker'[c].expected <= client'[c].seq + 1
        /\ client'[c].lost <= client'[c].seq /\ (client'[c].lost # 0 => worker'[c].expected <= client'[c].lost)
    BY <1>t, <2>1, <2>4 DEF Gapped
  <2>6. ASSUME NEW i \in 1..Len(up'[c]), up'[c][i].kind = "evidence"
        PROVE  up'[c][i].seq <= client'[c].seq /\ (client'[c].lost # 0 => up'[c][i].seq # client'[c].lost)
    <3>1. CASE up'[c][i] = m
      BY <1>t, <2>1, <2>2, <2>4, <3>1 DEF Gapped
    <3>2. ASSUME NEW j \in 1..Len(up[c]), up'[c][i] = up[c][j]
          PROVE  up'[c][i].seq <= client'[c].seq /\ (client'[c].lost # 0 => up'[c][i].seq # client'[c].lost)
      <4>1. up[c][j].seq \in Nat /\ up[c][j].seq <= client[c].seq
        BY <1>t, <2>4, <2>6, <3>2 DEF Gapped
      <4>2. client[c].lost # 0 => up[c][j].seq # client[c].lost
        BY <2>4, <2>6, <3>2 DEF Gapped
      <4> QED BY <1>t, <2>1, <3>2, <4>1, <4>2
    <3> QED BY <2>3, <3>1, <3>2
  <2>7. Gapped(client'[c], worker'[c], up'[c])
    BY <2>5, <2>6 DEF Gapped
  <2> QED BY <1>o, <2>1, <2>7
<1>3. ASSUME NEW c \in Connections, SubmitFails(c) PROVE Goal
  <2> DEFINE m == [kind |-> "torn", epoch |-> 0, seq |-> 0, snap |-> NoSnapshot]
  <2>1. /\ Others(c) /\ worker'[c] = worker[c]
        /\ client'[c].seq = client[c].seq + 1
        /\ client'[c].lost = IF client[c].lost = 0 THEN client[c].seq + 1 ELSE client[c].lost
        /\ up'[c] = up[c] \/ up'[c] = Append(up[c], m)
    BY <1>3, AtSubmitFails
  <2>2. m.kind # "evidence"
    OBVIOUS
  <2> HIDE DEF m
  <2>3. \A i \in 1..Len(up'[c]) :
          up'[c][i].kind = "evidence" => \E j \in 1..Len(up[c]) : up'[c][i] = up[c][j]
    <3>1. CASE up'[c] = up[c]
      BY <3>1
    <3>2. CASE up'[c] = Append(up[c], m)
      <4>1. Len(up'[c]) = Len(up[c]) + 1 /\ \A i \in 1..Len(up'[c]) :
              up'[c][i] = IF i <= Len(up[c]) THEN up[c][i] ELSE m
        BY <1>t, <3>2
      <4>2. Len(up[c]) \in Nat
        BY <1>t
      <4> QED BY <2>2, <4>1, <4>2
    <3> QED BY <2>1, <3>1, <3>2
  <2>4. Gapped(client[c], worker[c], up[c])
    BY <1>t
  <2>5. /\ client'[c].seq \in Nat /\ worker'[c].expected <= client'[c].seq + 1
        /\ client'[c].lost <= client'[c].seq /\ worker'[c].expected <= client'[c].lost
    BY <1>t, <2>1, <2>4 DEF Gapped
  <2>6. ASSUME NEW i \in 1..Len(up'[c]), up'[c][i].kind = "evidence"
        PROVE  up'[c][i].seq <= client'[c].seq /\ up'[c][i].seq # client'[c].lost
    <3>1. PICK j \in 1..Len(up[c]) : up'[c][i] = up[c][j]
      BY <2>3, <2>6
    <3>2. up[c][j].seq \in Nat /\ up[c][j].seq <= client[c].seq
      BY <1>t, <2>4, <2>6, <3>1 DEF Gapped
    <3>3. client[c].lost # 0 => up[c][j].seq # client[c].lost
      BY <2>4, <2>6, <3>1 DEF Gapped
    <3> QED BY <1>t, <2>1, <3>1, <3>2, <3>3
  <2>7. Gapped(client'[c], worker'[c], up'[c])
    BY <2>5, <2>6 DEF Gapped
  <2> QED BY <1>o, <2>1, <2>7
<1>4. ASSUME NEW c \in Connections,
             ReceiveHelloAck(c) \/ ConnectFails(c) \/ ReceiveAnswer(c) \/ NoAnswer(c) \/ Leave(c)
      PROVE  Goal
  <2> DEFINE m == [kind |-> "goodbye", epoch |-> client[c].epoch, seq |-> 0, snap |-> NoSnapshot]
  <2>1. /\ Others(c) /\ worker'[c] = worker[c]
        /\ client'[c].seq = client[c].seq /\ client'[c].lost = client[c].lost
        /\ up'[c] = up[c] \/ up'[c] = Append(up[c], m)
    BY <1>4, AtClient
  <2>2. m.kind # "evidence"
    OBVIOUS
  <2> HIDE DEF m
  <2> QED BY <1>k, <2>1, <2>2
<1>5. ASSUME NEW c \in Connections,
             Handshake(c) \/ DropConnection(c) \/ DropFrame(c) \/ RefuseFrame(c) \/ Goodbye(c)
      PROVE  Goal
  <2>1. Others(c) /\ client' = client /\ worker'[c].expected = worker[c].expected
    BY <1>5, AtReading
  <2>2. \/ up' = up
        \/ up[c] # <<>> /\ up' = [up EXCEPT ![c] = Tail(up[c])]
    BY <1>5 DEF Handshake, DropConnection, DropFrame, RefuseFrame, Goodbye
  <2>3. up'[c] = up[c] \/ (up[c] # <<>> /\ up'[c] = Tail(up[c]))
    BY <2>2, LinkEnds
  <2> QED BY <1>k, <2>1, <2>3
<1>6. ASSUME NEW c \in Connections, TakeEvidence(c) PROVE Goal
  <2>1. /\ Others(c) /\ client' = client /\ worker'[c].expected = worker[c].expected + 1
        /\ up[c] # <<>> /\ up'[c] = Tail(up[c])
        /\ Head(up[c]).kind = "evidence" /\ Head(up[c]).seq = worker[c].expected
    BY <1>6, AtTake
  <2>2. Head(up[c]) = up[c][1] /\ 1 \in 1..Len(up[c])
    BY <1>t, <2>1
  <2>3. \A i \in 1..Len(up'[c]) : \E j \in 1..Len(up[c]) : up'[c][i] = up[c][j]
    <3>1. Len(up'[c]) = Len(up[c]) - 1 /\ \A i \in 1..Len(up'[c]) : up'[c][i] = up[c][i + 1]
      BY <1>t, <2>1
    <3>2. \A i \in 1..Len(up'[c]) : i + 1 \in 1..Len(up[c])
      BY <1>t, <3>1
    <3> QED BY <3>1, <3>2
  <2>4. Gapped(client[c], worker[c], up[c])
    BY <1>t
  <2>5. /\ worker[c].expected <= client[c].seq
        /\ client[c].lost # 0 => worker[c].expected # client[c].lost
    BY <2>1, <2>2, <2>4 DEF Gapped
  <2>6. Gapped(client'[c], worker'[c], up'[c])
    BY <1>t, <2>1, <2>3, <2>4, <2>5 DEF Gapped
  <2> QED BY <1>o, <2>1, <2>6
<1>7. ASSUME NEW c \in Connections,
             MakeRequest(c) \/ Stage(c) \/ NotStaged(c) \/ EvaluateStaged(c) \/ CommitStaged(c)
      PROVE  Goal
  BY <1>7, <1>k, AtBusy
<1>8. ASSUME NEW c \in Connections, SendAck(c) PROVE Goal
  BY <1>8, <1>k, AtAck
<1>9. CASE Administer \/ UNCHANGED allVars
  <2>1. UNCHANGED link
    BY <1>9 DEF Administer, allVars
  <2> QED BY <2>1 DEF Goal, GappedAt, link
<1>10. CASE ServerCrash
  <2> SUFFICES ASSUME NEW c \in Connections PROVE GappedAt(c)'
    BY DEF Goal
  <2>1. /\ client'[c] = client[c] /\ worker'[c].expected = worker[c].expected /\ up'[c] = <<>>
    BY <1>10, AtCrash
  <2>2. Gapped(client[c], worker[c], up[c])
    BY <1>t
  <2> QED BY <2>1, <2>2 DEF GappedAt, Gapped
<1> QED BY <1>1, <1>2, <1>3, <1>4, <1>5, <1>6, <1>7, <1>8, <1>9, <1>10 DEF LinkNext, WorkerStep, ReadTorn

LEMMA GappedInit == LinkInit => \A c \in Connections : GappedAt(c)
<1> SUFFICES ASSUME LinkInit, NEW c \in Connections PROVE GappedAt(c)
  OBVIOUS
<1>1. client[c].seq = 0 /\ client[c].lost = 0 /\ up[c] = <<>>
  BY DEF LinkInit
<1>2. worker[c] = [Idle EXCEPT !.phase = "new"]
  BY DEF LinkInit
<1>3. worker[c].expected = 1
  BY <1>2 DEF Idle
<1> QED BY <1>1, <1>3 DEF GappedAt, Gapped

\* The publisher's counter and the worker's stay in step: a submission is refused
\* for its sequence number only after a send of the connection failed, whatever
\* was refused, answered late or given up on before; and once one failed the
\* worker takes no submission from that number on.
THEOREM OutOfSequenceOnlyAfterLoss == LinkSpec => []SequenceInStep
<1> DEFINE Inv == LinkInv /\ \A c \in Connections : NumberedAt(c) /\ GappedAt(c)
<1>1. LinkInit => Inv
  BY LinkInvInit, NumberedInit, GappedInit
<1>2. Inv /\ [LinkNext]_allVars => Inv'
  <2> SUFFICES ASSUME Inv, [LinkNext]_allVars PROVE Inv'
    OBVIOUS
  <2>1. LinkInv'
    BY LinkInvStep
  <2>2. \A c \in Connections : NumberedAt(c)'
    BY NumberedStep
  <2>3. \A c \in Connections : GappedAt(c)'
    BY GappedStep
  <2> QED BY <2>1, <2>2, <2>3
<1>3. Inv => SequenceInStep
  BY DEF SequenceInStep, NumberedAt, Numbered, Consecutive, GappedAt, Gapped
<1> QED BY <1>1, <1>2, <1>3, PTL DEF LinkSpec

-------------------------------------------------------------------------------
(* What an answer means.                                                   *)

\* Every identity the governor remembers was staged through the link.
KnownWasTaken == \A k \in ingested : k.digest \in taken

LEMMA KnownStep ==
  ASSUME LinkInv, [LinkNext]_allVars, KnownWasTaken
  PROVE  KnownWasTaken' /\ taken \subseteq taken'
<1>k. ASSUME UNCHANGED ingested, taken \subseteq taken' PROVE KnownWasTaken'
  BY <1>k DEF KnownWasTaken
<1>d. ASSUME ingested' = {} PROVE KnownWasTaken'
  BY <1>d DEF KnownWasTaken
<1>v. ASSUME UNCHANGED <<vars, taken>> PROVE KnownWasTaken' /\ taken \subseteq taken'
  BY <1>k, <1>v DEF vars, memory
<1>1. ASSUME NEW c \in Connections, Stage(c) PROVE KnownWasTaken' /\ taken \subseteq taken'
  <2> DEFINE e == worker[c].snap
  <2>1. /\ ingested' = EvictIdentities(ingested \cup {[id |-> e.id, gen |-> e.gen, digest |-> e]})
        /\ taken' = taken \cup {e}
    BY <1>1 DEF Stage, IngestEvidence
  <2>2. \A k \in ingested' : k \in ingested \/ k.digest = e
    BY <2>1 DEF EvictIdentities
  <2> HIDE DEF e
  <2> QED BY <2>1, <2>2 DEF KnownWasTaken
<1>2. ASSUME NEW c \in Connections, EvaluateStaged(c) PROVE KnownWasTaken' /\ taken \subseteq taken'
  BY <1>2, <1>k DEF EvaluateStaged, Evaluate, memory
<1>3. ASSUME NEW c \in Connections, CommitStaged(c) PROVE KnownWasTaken' /\ taken \subseteq taken'
  BY <1>3, <1>k DEF CommitStaged, Commit, CommitFail, memory
<1>4. CASE Administer
  <2>1. ingested' = {} /\ taken' = taken
    BY <1>4 DEF Administer, link, OpenConfigured, Serve, AdvanceEpoch, DropStaged
  <2> QED BY <1>d, <2>1
<1>5. CASE ServerCrash
  <2>1. ingested' = {} /\ taken' = taken
    BY <1>5 DEF ServerCrash, Crash, CommitLost, Die, Forget, DropStaged
  <2> QED BY <1>d, <2>1
<1>6. ASSUME NEW c \in Connections,
             \/ ReceiveHelloAck(c) \/ ConnectFails(c) \/ ReceiveAnswer(c) \/ NoAnswer(c) \/ Leave(c)
             \/ SubmitFails(c) \/ DropConnection(c) \/ DropFrame(c)
      PROVE  KnownWasTaken' /\ taken \subseteq taken'
  BY <1>6, <1>v DEF SubmitFails, ReceiveHelloAck, ConnectFails, ReceiveAnswer, NoAnswer, Leave, DropConnection, DropFrame
<1>7. ASSUME NEW c \in Connections,
             \/ Handshake(c) \/ RefuseFrame(c) \/ Goodbye(c) \/ TakeEvidence(c)
             \/ MakeRequest(c) \/ NotStaged(c) \/ SendAck(c)
      PROVE  KnownWasTaken' /\ taken \subseteq taken'
  BY <1>7, <1>v DEF Handshake, RefuseFrame, Goodbye, TakeEvidence, MakeRequest, NotStaged, SendAck
<1>8. CASE \/ \E c \in Connections, f \in Epochs, p \in Publishers : Connect(c, f, p)
           \/ \E c \in Connections, s \in Evidence : Submit(c, s)
  BY <1>8, <1>v DEF Connect, Submit
<1>9. CASE UNCHANGED allVars
  BY <1>9, <1>v DEF allVars, link
<1> QED BY <1>1, <1>2, <1>3, <1>4, <1>5, <1>6, <1>7, <1>8, <1>9 DEF LinkNext, WorkerStep, ReadTorn

Accepting == {"ok", "duplicate"}

\* A connection none of whose submissions failed or went unanswered carries one exchange
\* at a time: the frame of the submission, then the worker that holds its
\* snapshot, then its answer.
Truthful(cl, w, u, dn, tk) ==
  ~cl.late =>
    /\ cl.phase = "hello" => w.phase \notin Busy /\ (w.phase = "frames" => u = <<>>) /\ Len(dn) <= 1
    /\ cl.phase = "ready" => w.phase \notin Busy /\ (w.phase = "frames" => u = <<>>) /\ dn = <<>>
    /\ cl.phase = "waiting" =>
         /\ w.phase = "frames" => \/ u = <<>> /\ Len(dn) = 1
                                  \/ Len(u) = 1 /\ u[1].snap = cl.snap /\ dn = <<>>
         /\ w.phase \in Busy =>
              /\ u = <<>> /\ dn = <<>> /\ w.snap = cl.snap
              /\ w.phase \in {"evaluate", "commit"} => cl.snap \in tk
              /\ w.phase = "ack" /\ w.code \in Accepting => cl.snap \in tk
         /\ Len(dn) <= 1
         /\ Len(dn) = 1 /\ dn[1].code \in Accepting => cl.snap \in tk

TruthfulAt(c) == Truthful(client[c], worker[c], up[c], down[c], taken)

LEMMA AtMostOne ==
  ASSUME NEW S, NEW q \in Seq(S), q # <<>>, Len(q) <= 1
  PROVE  Len(q) = 1 /\ Head(q) = q[1] /\ Tail(q) = <<>>
<1>1. Len(q) \in Nat /\ (Len(q) = 0 => q = <<>>)
  OBVIOUS
<1>2. Len(q) = 1
  BY <1>1
<1>3. Head(q) = q[1]
  OBVIOUS
<1>4. Tail(q) \in Seq(S) /\ Len(Tail(q)) = Len(q) - 1
  OBVIOUS
<1>5. Len(Tail(q)) = 0 => Tail(q) = <<>>
  BY <1>4
<1> QED BY <1>2, <1>3, <1>4, <1>5

LEMMA TruthfulStep ==
  ASSUME LinkInv, [LinkNext]_allVars, KnownWasTaken,
         \A c \in Connections : NumberedAt(c) /\ TruthfulAt(c)
  PROVE  \A c \in Connections : TruthfulAt(c)'
<1> DEFINE Goal == \A c \in Connections : TruthfulAt(c)'
<1> HIDE DEF Goal
<1> SUFFICES Goal
  BY DEF Goal
<1>g. taken \subseteq taken'
  BY KnownStep
<1>o. ASSUME NEW c \in Connections, Others(c),
             Truthful(client'[c], worker'[c], up'[c], down'[c], taken')
      PROVE  Goal
  <2> SUFFICES ASSUME NEW k \in Connections, k # c PROVE TruthfulAt(k)'
    BY <1>o DEF Goal, TruthfulAt
  <2>1. client'[k] = client[k] /\ worker'[k] = worker[k] /\ up'[k] = up[k] /\ down'[k] = down[k]
    BY <1>o DEF Others
  <2>2. Truthful(client[k], worker[k], up[k], down[k], taken)
    BY DEF TruthfulAt
  <2>3. Truthful(client[k], worker[k], up[k], down[k], taken')
    BY <1>g, <2>2 DEF Truthful
  <2> QED BY <2>1, <2>3 DEF TruthfulAt
<1>t. ASSUME NEW c \in Connections
      PROVE  /\ up[c] \in Seq(Frame) /\ down[c] \in Seq(Answer)
             /\ Numbered(client[c], worker[c], up[c], down[c])
             /\ Truthful(client[c], worker[c], up[c], down[c], taken)
  BY LinkEnds DEF NumberedAt, TruthfulAt
\* The first answer to arrive is the only one.
<1>a. ASSUME NEW c \in Connections, NEW m, down'[c] = Append(down[c], m), down[c] = <<>>
      PROVE  Len(down'[c]) = 1 /\ down'[c][1] = m
  BY <1>a
<1>1. ASSUME NEW c \in Connections, NEW f \in Epochs, NEW p \in Publishers, Connect(c, f, p) PROVE Goal
  <2>1. /\ Others(c) /\ client'[c].phase = "hello" /\ worker'[c].phase = "hello" /\ client[c].phase = "new"
        /\ down'[c] = down[c]
    BY <1>1, AtConnect DEF ClientMoves, WorkerMoves
  <2>2. Len(down'[c]) = 0
    BY <1>t, <2>1 DEF Numbered
  <2>3. Truthful(client'[c], worker'[c], up'[c], down'[c], taken')
    BY <2>1, <2>2 DEF Truthful, Busy
  <2> QED BY <1>o, <2>1, <2>3
<1>2. ASSUME NEW c \in Connections, NEW s \in Evidence, Submit(c, s) PROVE Goal
  <2> DEFINE m == [kind |-> "evidence", epoch |-> s.epoch, seq |-> client[c].seq + 1, snap |-> s]
  <2>1. /\ Others(c) /\ worker'[c] = worker[c] /\ down'[c] = down[c] /\ client[c].phase = "ready"
        /\ client'[c].phase = "waiting" /\ client'[c].snap = s /\ client'[c].late = client[c].late
        /\ up'[c] = Append(up[c], m)
    BY <1>2, AtSubmit
  <2>2. m.snap = s
    OBVIOUS
  <2> HIDE DEF m
  <2>3. Truthful(client[c], worker[c], up[c], down[c], taken)
    BY <1>t
  <2>4. ASSUME up[c] = <<>> PROVE Len(up'[c]) = 1 /\ up'[c][1].snap = s
    BY <2>1, <2>2, <2>4
  <2>5. Truthful(client'[c], worker'[c], up'[c], down'[c], taken')
    <3> SUFFICES ASSUME ~client[c].late PROVE Truthful(client'[c], worker'[c], up'[c], down'[c], taken')
      BY <2>1 DEF Truthful
    <3>1. worker[c].phase \notin Busy /\ (worker[c].phase = "frames" => up[c] = <<>>) /\ down[c] = <<>>
      BY <2>1, <2>3 DEF Truthful
    <3>2. Len(down'[c]) = 0
      BY <2>1, <3>1
    <3> QED BY <2>1, <2>4, <3>1, <3>2 DEF Truthful
  <2> QED BY <1>o, <2>1, <2>5
<1>f. ASSUME NEW c \in Connections, SubmitFails(c) PROVE Goal
  <2>1. Others(c) /\ client'[c].late
    BY <1>f, AtSubmitFails
  <2>2. Truthful(client'[c], worker'[c], up'[c], down'[c], taken')
    BY <2>1 DEF Truthful
  <2> QED BY <1>o, <2>1, <2>2
<1>3. ASSUME NEW c \in Connections,
             ReceiveHelloAck(c) \/ ConnectFails(c) \/ ReceiveAnswer(c) \/ NoAnswer(c) \/ Leave(c)
      PROVE  Goal
  <2>1. /\ Others(c) /\ worker'[c] = worker[c] /\ client'[c].phase \in {"ready", "closed"}
        /\ client'[c].phase = "ready" /\ ~client'[c].late =>
             /\ client[c].phase \in {"hello", "waiting"} /\ ~client[c].late
             /\ down[c] # <<>> /\ down'[c] = Tail(down[c])
        /\ client'[c].phase = "ready" => up'[c] = up[c]
    BY <1>3, AtClient
  <2>2. Truthful(client'[c], worker'[c], up'[c], down'[c], taken')
    <3>1. CASE client'[c].phase = "closed" \/ client'[c].late
      BY <3>1 DEF Truthful
    <3>2. CASE client'[c].phase = "ready" /\ ~client'[c].late
      <4>1. /\ client[c].phase \in {"hello", "waiting"} /\ ~client[c].late
            /\ down[c] # <<>> /\ down'[c] = Tail(down[c]) /\ up'[c] = up[c]
        BY <2>1, <3>2
      <4>2. Len(down[c]) <= 1 /\ worker[c].phase \notin Busy /\ (worker[c].phase = "frames" => up[c] = <<>>)
        BY <1>t, <4>1 DEF Truthful
      <4>3. down'[c] = <<>>
        BY <1>t, <4>1, <4>2
      <4> QED BY <2>1, <3>2, <4>1, <4>2, <4>3 DEF Truthful
    <3> QED BY <2>1, <3>1, <3>2
  <2> QED BY <1>o, <2>1, <2>2
<1>4. ASSUME NEW c \in Connections,
             Handshake(c) \/ DropConnection(c) \/ DropFrame(c) \/ RefuseFrame(c) \/ Goodbye(c)
      PROVE  Goal
  <2>1. /\ Others(c) /\ client'[c] = client[c] /\ taken' = taken
        /\ worker[c].phase \in {"hello", "frames"} /\ worker'[c].phase \in {"frames", "closed"}
    BY <1>4, AtReading
  <2>2. /\ Numbered(client[c], worker[c], up[c], down[c])
        /\ Truthful(client[c], worker[c], up[c], down[c], taken)
    BY <1>t
  <2>3. CASE worker'[c].phase = "frames"
    <3> DEFINE m == [kind |-> "hello_ack", code |-> "ok", snap |-> NoSnapshot]
    <3>1. /\ worker[c].phase = "hello" /\ up[c] # <<>> /\ up'[c] = Tail(up[c])
          /\ down'[c] = Append(down[c], m)
      BY <1>4, <2>3, AtReading
    <3> HIDE DEF m
    <3>2. down[c] = <<>> /\ Len(up[c]) = 1 /\ client[c].phase \in {"hello", "closed"}
      BY <2>2, <3>1 DEF Numbered
    <3>3. up'[c] = <<>> /\ Len(down'[c]) = 1
      <4>1. Len(up[c]) <= 1 /\ up[c] \in Seq(Frame)
        BY <1>t, <3>2
      <4> QED BY <1>a, <3>1, <3>2, <4>1, AtMostOne
    <3>4. Truthful(client'[c], worker'[c], up'[c], down'[c], taken')
      BY <2>1, <2>3, <3>2, <3>3 DEF Truthful, Busy
    <3> QED BY <1>o, <2>1, <3>4
  <2>4. CASE worker'[c].phase = "closed"
    <3>1. CASE down'[c] = down[c]
      <4>1. Truthful(client'[c], worker'[c], up'[c], down'[c], taken')
        BY <2>1, <2>2, <2>4, <3>1 DEF Truthful, Busy
      <4> QED BY <1>o, <2>1, <4>1
    <3>2. ASSUME NEW m \in Answer, down'[c] = Append(down[c], m), up[c] # <<>>,
                 m.code \in {"stale_epoch", "truncated", "sequence"}
          PROVE  Goal
      <4>1. ASSUME ~client[c].late, client[c].phase \in {"hello", "ready", "waiting"}
            PROVE  down[c] = <<>> /\ client[c].phase # "ready"
        BY <2>1, <2>2, <3>2, <4>1 DEF Numbered, Truthful
      <4>2. ASSUME down[c] = <<>> PROVE Len(down'[c]) = 1 /\ down'[c][1].code \notin Accepting
        BY <1>a, <3>2, <4>2 DEF Accepting
      <4>3. Truthful(client'[c], worker'[c], up'[c], down'[c], taken')
        <5> SUFFICES ASSUME ~client[c].late, client[c].phase \in {"hello", "ready", "waiting"}
                     PROVE  Truthful(client'[c], worker'[c], up'[c], down'[c], taken')
          BY <2>1 DEF Truthful
        <5>0. Len(down'[c]) = 1 /\ down'[c][1].code \notin Accepting /\ client[c].phase # "ready"
          BY <4>1, <4>2
        <5>1. Len(down'[c]) <= 1
          BY <5>0
        <5>2. worker'[c].phase \notin Busy /\ worker'[c].phase # "frames"
          BY <2>4 DEF Busy
        <5> QED BY <2>1, <5>0, <5>1, <5>2 DEF Truthful
      <4> QED BY <1>o, <2>1, <4>3
    <3> QED BY <1>4, <2>4, <3>1, <3>2, AtReading
  <2> QED BY <2>1, <2>3, <2>4
<1>5. ASSUME NEW c \in Connections, TakeEvidence(c) PROVE Goal
  <2>1. /\ Others(c) /\ client'[c] = client[c] /\ down'[c] = down[c] /\ taken' = taken
        /\ worker[c].phase = "frames" /\ worker'[c].phase = "request"
        /\ up[c] # <<>> /\ up'[c] = Tail(up[c]) /\ worker'[c].snap = Head(up[c]).snap
    BY <1>5, AtTake
  <2>2. Truthful(client[c], worker[c], up[c], down[c], taken) /\ up[c] \in Seq(Frame)
    BY <1>t
  <2>3. ASSUME ~client[c].late, client[c].phase \in {"hello", "ready", "waiting"}
        PROVE  /\ client[c].phase = "waiting" /\ down'[c] = <<>> /\ up'[c] = <<>>
               /\ worker'[c].snap = client[c].snap
    <3>1. client[c].phase = "waiting" /\ Len(up[c]) = 1 /\ up[c][1].snap = client[c].snap /\ down[c] = <<>>
      BY <2>1, <2>2, <2>3 DEF Truthful
    <3>2. Head(up[c]) = up[c][1] /\ Tail(up[c]) = <<>>
      <4>1. Len(up[c]) <= 1
        BY <3>1
      <4> QED BY <2>1, <2>2, <4>1, AtMostOne
    <3> QED BY <2>1, <3>1, <3>2
  <2>4. Len(<<>>) = 0
    OBVIOUS
  <2>5. Truthful(client'[c], worker'[c], up'[c], down'[c], taken')
    BY <2>1, <2>3, <2>4 DEF Truthful, Busy
  <2> QED BY <1>o, <2>1, <2>5
<1>6. ASSUME NEW c \in Connections,
             MakeRequest(c) \/ Stage(c) \/ NotStaged(c) \/ EvaluateStaged(c) \/ CommitStaged(c)
      PROVE  Goal
  <2>1. /\ Others(c) /\ client'[c] = client[c] /\ up'[c] = up[c] /\ down'[c] = down[c]
        /\ worker[c].phase \in Busy /\ worker'[c].phase \in Busy /\ worker'[c].snap = worker[c].snap
        /\ \/ worker'[c].phase = "ingest"
           \/ worker'[c].phase = "ack" /\ worker'[c].code = "rejected"
           \/ worker[c].phase \in {"evaluate", "commit"}
           \/ worker[c].snap \in taken'
           \/ IsDuplicate(worker[c].snap)
    BY <1>6, AtBusy
  <2>2. IsDuplicate(worker[c].snap) => worker[c].snap \in taken'
    BY <1>g DEF IsDuplicate, Known, KnownWasTaken
  <2>3. Truthful(client[c], worker[c], up[c], down[c], taken)
    BY <1>t
  <2>4. ASSUME ~client[c].late, client[c].phase \in {"hello", "ready", "waiting"}
        PROVE  /\ client[c].phase = "waiting" /\ up[c] = <<>> /\ down[c] = <<>>
               /\ worker[c].snap = client[c].snap
               /\ worker[c].phase \in {"evaluate", "commit"} => client[c].snap \in taken
    BY <2>1, <2>3, <2>4 DEF Truthful
  <2>5. ASSUME ~client[c].late, client[c].phase \in {"hello", "ready", "waiting"}
        PROVE  /\ worker'[c].phase \in {"evaluate", "commit"} => client[c].snap \in taken'
               /\ worker'[c].phase = "ack" /\ worker'[c].code \in Accepting => client[c].snap \in taken'
    BY <1>g, <2>1, <2>2, <2>4, <2>5 DEF Accepting
  <2>6. Len(<<>>) = 0 /\ "frames" \notin Busy
    BY DEF Busy
  <2>7. Truthful(client'[c], worker'[c], up'[c], down'[c], taken')
    BY <2>1, <2>4, <2>5, <2>6 DEF Truthful
  <2> QED BY <1>o, <2>1, <2>7
<1>7. ASSUME NEW c \in Connections, SendAck(c) PROVE Goal
  <2> DEFINE m == [kind |-> "evidence_ack", code |-> worker[c].code, snap |-> worker[c].snap]
  <2>1. /\ Others(c) /\ client'[c] = client[c] /\ up'[c] = up[c] /\ taken' = taken
        /\ worker[c].phase = "ack"
        /\ \/ worker'[c].phase = "closed" /\ down'[c] = down[c]
           \/ worker'[c].phase = "frames" /\ down'[c] = Append(down[c], m)
    BY <1>7, AtAck
  <2>2. m.code = worker[c].code
    OBVIOUS
  <2> HIDE DEF m
  <2>3. Truthful(client[c], worker[c], up[c], down[c], taken)
    BY <1>t
  <2>4. ASSUME ~client[c].late, client[c].phase \in {"hello", "ready", "waiting"}
        PROVE  /\ client[c].phase = "waiting" /\ up[c] = <<>> /\ down[c] = <<>>
               /\ worker[c].code \in Accepting => client[c].snap \in taken
    BY <2>1, <2>3, <2>4 DEF Truthful, Busy
  <2>5. ASSUME ~client[c].late, client[c].phase \in {"hello", "ready", "waiting"},
               worker'[c].phase = "frames"
        PROVE  Len(down'[c]) = 1 /\ down'[c][1].code = worker[c].code
    BY <1>a, <2>1, <2>2, <2>4, <2>5
  <2>6. Truthful(client'[c], worker'[c], up'[c], down'[c], taken')
    <3>1. CASE worker'[c].phase = "closed"
      BY <2>1, <2>3, <3>1 DEF Truthful, Busy
    <3>2. CASE worker'[c].phase = "frames"
      BY <2>1, <2>4, <2>5, <3>2 DEF Truthful, Busy
    <3> QED BY <2>1, <3>1, <3>2
  <2> QED BY <1>o, <2>1, <2>6
<1>8. CASE Administer \/ UNCHANGED allVars
  <2>1. UNCHANGED link
    BY <1>8 DEF Administer, allVars
  <2> QED BY <2>1 DEF Goal, TruthfulAt, link
<1>9. CASE ServerCrash
  <2> SUFFICES ASSUME NEW c \in Connections PROVE TruthfulAt(c)'
    BY DEF Goal
  <2>1. /\ client'[c] = client[c] /\ down'[c] = down[c] /\ up'[c] = <<>> /\ taken' = taken
        /\ worker'[c].phase \in {"new", "closed"}
    BY <1>9, AtCrash
  <2>2. Truthful(client[c], worker[c], up[c], down[c], taken)
    BY <1>t
  <2>3. Truthful(client'[c], worker'[c], up'[c], down'[c], taken')
    BY <2>1, <2>2 DEF Truthful, Busy
  <2> QED BY <2>3 DEF TruthfulAt
<1> QED BY <1>1, <1>2, <1>f, <1>3, <1>4, <1>5, <1>6, <1>7, <1>8, <1>9 DEF LinkNext, WorkerStep, ReadTorn

\* A publisher that is told its snapshot is accepted can rely on it: that very
\* snapshot, content included, was staged.  (As long as none of its submissions
\* failed or went unanswered; the frames of the other connections, epochs that advance and
\* a crash of the server make no difference.)
THEOREM AnswersAreTrue == LinkSpec => []AnswerIsTrue
<1> DEFINE Inv == LinkInv /\ KnownWasTaken /\ \A c \in Connections : NumberedAt(c) /\ TruthfulAt(c)
<1>1. LinkInit => KnownWasTaken /\ \A c \in Connections : NumberedAt(c) /\ TruthfulAt(c)
  <2> SUFFICES ASSUME LinkInit PROVE KnownWasTaken /\ \A c \in Connections : NumberedAt(c) /\ TruthfulAt(c)
    OBVIOUS
  <2>1. KnownWasTaken
    BY DEF LinkInit, Init, KnownWasTaken
  <2>2. \A c \in Connections : client[c].phase = "new"
    BY DEF LinkInit
  <2>3. \A c \in Connections : TruthfulAt(c)
    BY <2>2 DEF TruthfulAt, Truthful
  <2> QED BY <2>1, <2>3, NumberedInit
<1>2. Inv /\ [LinkNext]_allVars => Inv'
  <2> SUFFICES ASSUME Inv, [LinkNext]_allVars PROVE Inv'
    OBVIOUS
  <2>1. LinkInv' /\ (\A c \in Connections : NumberedAt(c)') /\ KnownWasTaken'
    BY LinkInvStep, NumberedStep, KnownStep
  <2>2. \A c \in Connections : TruthfulAt(c)'
    BY TruthfulStep
  <2> QED BY <2>1, <2>2
<1>3. Inv => AnswerIsTrue
  <2> SUFFICES ASSUME Inv, NEW c \in Connections, client[c].phase = "waiting", ~client[c].late,
                      down[c] # <<>>, Head(down[c]).code \in {"ok", "duplicate"}
               PROVE  client[c].snap \in taken
    BY DEF AnswerIsTrue
  <2>1. Truthful(client[c], worker[c], up[c], down[c], taken) /\ down[c] \in Seq(Answer)
    BY LinkEnds DEF TruthfulAt
  <2>2. Len(down[c]) <= 1
    BY <2>1 DEF Truthful
  <2>3. Len(down[c]) = 1 /\ Head(down[c]) = down[c][1]
    BY <2>1, <2>2, AtMostOne
  <2> QED BY <2>1, <2>3 DEF Truthful, Accepting
<1> QED BY <1>1, <1>2, <1>3, LinkInvInit, PTL DEF LinkSpec

\* The two ends, the channels and the history of the link keep their types, for
\* any number of connections and any load.
THEOREM LinkTypeCorrect == LinkSpec => []LinkTypeOK
<1>1. LinkInv => LinkTypeOK
  BY DEF LinkInv
<1> QED BY <1>1, LinkInvInit, LinkInvStep, PTL DEF LinkSpec

===============================================================================
