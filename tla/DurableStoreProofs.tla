-------------------------- MODULE DurableStoreProofs --------------------------
(***************************************************************************)
(* Theorems about DurableStore, for every set of payloads, every bound on  *)
(* the generations and, where no hypothesis says otherwise, every fault.   *)
(***************************************************************************)
EXTENDS DurableStore, TLAPS

-------------------------------------------------------------------------------
(* Type correctness.                                                       *)

LEMMA ContentTypes ==
  /\ Absent \in Content
  /\ Torn \in Content
  /\ Absent \notin ValidRecord
  /\ ValidRecord \subseteq Content
BY DEF Absent, Torn, Content, ValidRecord

LEMMA WithoutType ==
  ASSUME NEW d \in Directory, NEW name \in Companions
  PROVE  Without(d, name) \in Directory
BY ContentTypes DEF Without, Directory, Companions

LEMMA PlanTypes ==
  /\ <<>> \in Seq(Companions)
  /\ <<"temp">> \in Seq(Companions)
  /\ <<"backup">> \in Seq(Companions)
  /\ <<"journal", "temp">> \in Seq(Companions)
  /\ <<"journal", "backup">> \in Seq(Companions)
  /\ <<"journal", "backup", "temp">> \in Seq(Companions)
BY DEF Companions

\* Every step of every operation, crash steps included, keeps the types.
LEMMA TypeStep == TypeOK /\ [Next]_vars => TypeOK'
<1> SUFFICES ASSUME TypeOK, [Next]_vars PROVE TypeOK'
  OBVIOUS
<1> USE ContentTypes, PlanTypes, MaxGenerationAssumption DEF TypeOK
<1>1. CASE RemoveNext
  <2>1. Head(todo) \in Companions /\ Tail(todo) \in Seq(Companions)
    BY <1>1 DEF RemoveNext
  <2>2. files' \in Directory
    BY <1>1, <2>1, WithoutType DEF RemoveNext
  <2> QED BY <1>1, <2>1, <2>2 DEF RemoveNext
<1>2. CASE Recovery
  <2>1. CASE Open \/ RecoverTorn
    BY <2>1 DEF Open, RecoverTorn, PCs
  <2>2. CASE RecoverCommitted \/ RecoverAbandoned \/ RestoreFail
    BY <2>2 DEF RecoverCommitted, RecoverAbandoned, RestoreFail, Cleanup, PCs, Outcomes
  <2>3. CASE RecoverQuiet
    <3>1. todo' \in Seq(Companions)
      BY <2>3 DEF RecoverQuiet, Cleanup
    <3> QED BY <2>3, <3>1 DEF RecoverQuiet, Cleanup, PCs, Outcomes
  <2>4. CASE RestoreDone
    BY <2>4 DEF RestoreDone, Cleanup, PCs, Outcomes, Directory
  <2>5. CASE RecoverReturn
    BY <2>5 DEF RecoverReturn, PCs, Outcomes
  <2>6. CASE Load
    BY <2>6 DEF Load, PCs, Content, Directory
  <2> QED BY <1>2, <2>1, <2>2, <2>3, <2>4, <2>5, <2>6 DEF Recovery
<1>3. CASE Committing
  <2>1. ASSUME NEW g \in 0..MaxGeneration, NEW p \in Payloads, Commit(g, p)
        PROVE  TypeOK'
    BY <2>1 DEF Commit, Valid, ValidRecord, PCs, Outcomes
  <2>2. ASSUME NEW g \in 0..MaxGeneration, CommitRejected(g)
        PROVE  TypeOK'
    BY <2>2 DEF CommitRejected, Outcomes
  <2>3. CASE OpenTemp \/ FillTemp \/ WriteJournal \/ OpenBackup \/ FillBackup \/ Replace
    BY <2>3 DEF OpenTemp, FillTemp, WriteJournal, OpenBackup, FillBackup, Replace, PCs,
                Directory
  <2>4. CASE WriteTempFail \/ WriteJournalFail \/ CopyFail \/ ReplaceFail
    BY <2>4 DEF WriteTempFail, WriteJournalFail, CopyFail, ReplaceFail, Cleanup, PCs,
                Outcomes, Directory
  <2>5. CASE SyncDirectory \/ SyncDirectoryFail
    BY <2>5 DEF SyncDirectory, SyncDirectoryFail, Cleanup, PCs, Outcomes
  <2>6. CASE CommitOk \/ CommitError
    BY <2>6 DEF CommitOk, CommitError, PCs
  <2> QED BY <1>3, <2>1, <2>2, <2>3, <2>4, <2>5, <2>6 DEF Committing
<1>4. CASE Environment
  BY <1>4 DEF Environment, Kill, KillTornReplace, PowerLoss, WriteBack, Forget, PCs,
              Outcomes, Directory
<1>5. CASE UNCHANGED vars
  BY <1>5 DEF vars
<1> QED BY <1>1, <1>2, <1>3, <1>4, <1>5 DEF Next

\* The store's state keeps its type in every reachable state, through every
\* interleaving of commit, recover and load steps with crashes.
THEOREM TypeCorrect == Spec => []TypeOK
<1>1. Init => TypeOK
  BY ContentTypes DEF Init, TypeOK, Directory, PCs, Outcomes
<1> QED BY <1>1, TypeStep, PTL DEF Spec

-------------------------------------------------------------------------------
(* The inductive invariant.                                                *)

\* Steps of commit() before the replace, while main is still the old record.
BeforeReplace ==
  \/ pc \in {"open_temp", "fill_temp", "journal", "open_backup", "fill_backup", "replace"}
  \/ pc = "cleanup" /\ outcome = "failed"

\* Steps of commit() after it.
AfterReplace == pc = "sync" \/ (pc = "cleanup" /\ outcome = "committed")

\* A backup is only ever written next to a record.
BackupHasMain ==
  /\ files.main = Absent => files.backup = Absent
  /\ disk.main = Absent => disk.backup = Absent

\* Where commit() stands, and what that says of the files it has written.
CommitShape ==
  /\ pc = "idle" \/ BeforeReplace => files.main = view
  /\ AfterReplace => files.main = attempt
  /\ BeforeReplace \/ AfterReplace =>
       attempt \in ValidRecord \cap possible /\ attempt.gen = view.gen + 1
  /\ ~(BeforeReplace \/ AfterReplace) => attempt = Absent
  /\ pc \in {"journal", "open_backup", "fill_backup", "replace"} => files.temp = attempt
  /\ pc \in {"open_backup", "fill_backup", "replace"} => files.journal
  /\ pc \in {"open_backup", "fill_backup"} => files.main # Absent
  /\ pc = "replace" /\ view # Absent => files.backup = view

\* Where recover() stands.
RecoverShape ==
  /\ pc \in {"down", "recover", "restore", "load"} => view = Absent
  /\ pc = "restore" => files.journal /\ files.backup # Absent
  /\ pc = "restore" => ~IsValid(files.main) \/ "read" \in Faults
  /\ pc = "cleanup" <=> outcome # "none" /\ pc # "idle"
  /\ pc = "cleanup" /\ outcome \in {"recovered", "unrecovered"} => view = Absent
  /\ outcome \in {"recovered", "unrecovered"} => pc = "cleanup"
  /\ pc = "cleanup" /\ outcome = "unrecovered" =>
       {"restore", "read"} \cap Faults # {} \/ files.backup = Absent
  /\ pc = "cleanup" /\ outcome = "recovered" =>
       IsValid(files.main) \/ ~files.journal \/ ~IsValid(files.backup)

Shape == BackupHasMain /\ CommitShape /\ RecoverShape

\* What a power loss brings back is never ahead of what the process sees, and
\* after the directory sync it is the new record.
DiskShape ==
  /\ Survivor(disk).gen <= Survivor(files).gen
  /\ pc = "cleanup" /\ outcome = "committed" => Survivor(disk) = attempt

IInv == TypeOK /\ Shape /\ DiskShape /\ CommittedSurvives

\* Shape is preserved by every step, whatever the faults.
LEMMA ShapeStep == TypeOK /\ Shape /\ [Next]_vars => Shape'
<1> SUFFICES ASSUME TypeOK, Shape, [Next]_vars PROVE Shape'
  OBVIOUS
<1> USE DEF TypeOK, Shape, BackupHasMain, CommitShape, RecoverShape, BeforeReplace,
            AfterReplace, Directory, Content, Absent, Torn, IsValid, LoadMayFail
<1>1. CASE RemoveNext
  <2>1. Head(todo) \in Companions
    BY <1>1 DEF RemoveNext
  <2>2. /\ files'.main = files.main
        /\ files'.backup \in {files.backup, Absent}
        /\ files'.journal => files.journal
    BY <1>1, <2>1 DEF RemoveNext, Without, Companions
  <2>3. BackupHasMain'
    BY <1>1, <2>2 DEF RemoveNext
  <2>4. CommitShape'
    BY <1>1, <2>2 DEF RemoveNext
  <2>5. RecoverShape'
    BY <1>1, <2>2 DEF RemoveNext
  <2> QED BY <2>3, <2>4, <2>5
<1>2. CASE Recovery
  <2>1. CASE Open
    BY <2>1 DEF Open
  <2>2. CASE RecoverTorn
    BY <2>2 DEF RecoverTorn
  <2>3. CASE RecoverCommitted \/ RecoverAbandoned \/ RecoverQuiet
    BY <2>3 DEF RecoverCommitted, RecoverAbandoned, RecoverQuiet, Cleanup
  <2>4. CASE RestoreDone
    BY <2>4 DEF RestoreDone, Cleanup
  <2>5. CASE RestoreFail
    BY <2>5 DEF RestoreFail, Cleanup
  <2>6. CASE RecoverReturn
    BY <2>6 DEF RecoverReturn
  <2>7. CASE Load
    BY <2>7 DEF Load
  <2> QED BY <1>2, <2>1, <2>2, <2>3, <2>4, <2>5, <2>6, <2>7 DEF Recovery
<1>3. CASE Committing
  <2>1. ASSUME NEW g \in 0..MaxGeneration, NEW p \in Payloads, Commit(g, p)
        PROVE  Shape'
    BY <2>1, MaxGenerationAssumption DEF Commit, Valid, ValidRecord
  <2>2. ASSUME NEW g \in 0..MaxGeneration, CommitRejected(g)
        PROVE  Shape'
    BY <2>2 DEF CommitRejected
  <2>3. CASE OpenTemp \/ FillTemp \/ WriteJournal
    BY <2>3 DEF OpenTemp, FillTemp, WriteJournal
  <2>4. CASE OpenBackup \/ FillBackup
    BY <2>4 DEF OpenBackup, FillBackup
  <2>5. CASE Replace
    BY <2>5 DEF Replace, ValidRecord
  <2>6. CASE WriteTempFail \/ WriteJournalFail \/ CopyFail \/ ReplaceFail
    BY <2>6 DEF WriteTempFail, WriteJournalFail, CopyFail, ReplaceFail, Cleanup
  <2>7. CASE SyncDirectory \/ SyncDirectoryFail
    BY <2>7 DEF SyncDirectory, SyncDirectoryFail, Cleanup
  <2>8. CASE CommitOk \/ CommitError
    BY <2>8 DEF CommitOk, CommitError
  <2> QED BY <1>3, <2>1, <2>2, <2>3, <2>4, <2>5, <2>6, <2>7, <2>8 DEF Committing
<1>4. CASE Environment
  <2>1. CASE Kill
    BY <2>1 DEF Kill, Forget
  <2>2. CASE KillTornReplace
    BY <2>2 DEF KillTornReplace, Forget
  <2>3. CASE PowerLoss \/ WriteBack
    BY <2>3 DEF PowerLoss, WriteBack, Forget
  <2> QED BY <1>4, <2>1, <2>2, <2>3 DEF Environment
<1>5. CASE UNCHANGED vars
  BY <1>5 DEF vars
<1> QED BY <1>1, <1>2, <1>3, <1>4, <1>5 DEF Next

LEMMA ShapeInit == Init => Shape
BY DEF Init, Shape, BackupHasMain, CommitShape, RecoverShape, BeforeReplace, AfterReplace,
       Absent

\* Under every fault, a caller between commits holds exactly the committed
\* record: commit()'s generation check never refuses its next commit.
THEOREM MemoryMatches == Spec => []MemoryMatchesMain
<1>1. TypeOK /\ Shape => MemoryMatchesMain
  BY DEF Shape, CommitShape, MemoryMatchesMain
<1> QED BY <1>1, TypeCorrect, ShapeInit, ShapeStep, PTL DEF Spec

-------------------------------------------------------------------------------
(* Durability: with a directory sync that reports the truth, a backup that *)
(* can be moved back and a record that can be read, no crash at any step   *)
(* loses an acknowledged record, torn replaces included.                   *)

LEMMA SurvivorType ==
  ASSUME NEW d \in Directory
  PROVE  Survivor(d) \in ValidRecord \cup {Absent} /\ Survivor(d).gen \in Nat
BY MaxGenerationAssumption
   DEF Survivor, Directory, Content, ValidRecord, Absent, Torn, IsValid

\* Recovery does not change what recovery finds, except that it is where a
\* failing restore would: the steps that only touch companions.
LEMMA SameSurvivor ==
  ASSUME NEW d \in Directory, NEW e \in Directory, e.main = d.main,
         IsValid(d.main)
           \/ (e.journal = d.journal /\ e.backup = d.backup)
           \/ (~(d.journal /\ IsValid(d.backup)) /\ ~(e.journal /\ IsValid(e.backup)))
  PROVE  Survivor(e) = Survivor(d)
BY DEF Survivor

LEMMA DurableStep ==
  ASSUME "restore" \notin Faults, "dir_sync" \notin Faults, "read" \notin Faults,
         IInv, [Next]_vars
  PROVE  DiskShape' /\ CommittedSurvives'
<1> DEFINE S == Survivor(files)
           D == Survivor(disk)
<1> USE DEF IInv
<1>0. /\ TypeOK' /\ files \in Directory /\ disk \in Directory /\ files' \in Directory
      /\ S \in ValidRecord \cup {Absent} /\ D \in ValidRecord \cup {Absent}
      /\ S.gen \in Nat /\ D.gen \in Nat
  BY TypeStep, SurvivorType DEF TypeOK
\* A step that leaves the disk, the survivor and the set of possible records
\* alone preserves both, unless it announces the acknowledgement.
<1>q. ASSUME S' = S, UNCHANGED <<disk, possible>>,
             UNCHANGED attempt,
             (pc = "cleanup" /\ outcome = "committed")' => pc = "cleanup" /\ outcome = "committed"
      PROVE  DiskShape' /\ CommittedSurvives'
  BY <1>q DEF DiskShape, CommittedSurvives, Survivor
<1>1. CASE RemoveNext
  <2>1. Head(todo) \in Companions
    BY <1>1 DEF RemoveNext, TypeOK
  <2>2. /\ files'.main = files.main
        /\ files'.backup \in {files.backup, Absent}
        /\ files'.journal => files.journal
    BY <1>0, <1>1, <2>1 DEF RemoveNext, Without, Companions, Directory
  <2>3. IsValid(files.main) \/ ~(files.journal /\ IsValid(files.backup))
    BY <1>0, <1>1 DEF RemoveNext, Shape, BackupHasMain, CommitShape, RecoverShape, BeforeReplace,
               AfterReplace, TypeOK, Directory, Content, IsValid, Absent, Torn, ValidRecord, Outcomes
  <2>4. S' = S
    BY <1>0, <2>2, <2>3 DEF Survivor, IsValid, Absent
  <2> QED BY <1>1, <1>q, <2>4 DEF RemoveNext
<1>2. CASE Recovery
  <2>1. CASE Open \/ RecoverTorn \/ RecoverReturn \/ Load
    BY <1>q, <2>1 DEF Open, RecoverTorn, RecoverReturn, Load, Survivor
  <2>2. CASE RecoverCommitted \/ RecoverAbandoned \/ RecoverQuiet
    BY <1>q, <2>2 DEF RecoverCommitted, RecoverAbandoned, RecoverQuiet, Cleanup, Survivor
  <2>3. CASE RestoreDone
    <3>1. S' = S
      BY <1>0, <2>3 DEF RestoreDone, Shape, RecoverShape, Survivor, Directory, Content, IsValid,
                  Absent, Torn
    <3> QED BY <1>q, <2>3, <3>1 DEF RestoreDone, Cleanup
  <2> QED BY <1>2, <2>1, <2>2, <2>3 DEF Recovery, RestoreFail
<1>3. CASE Committing
  <2>v. pc \in {"idle", "open_temp", "fill_temp", "journal", "open_backup", "fill_backup",
               "replace"} \/ (pc = "cleanup" /\ outcome = "failed") => S = view
    BY <1>0 DEF Shape, BackupHasMain, CommitShape, BeforeReplace, Survivor, TypeOK, Directory,
                Content, IsValid, Absent, Torn, ValidRecord
  <2>1. ASSUME NEW g \in 0..MaxGeneration, NEW p \in Payloads, Commit(g, p)
        PROVE  DiskShape' /\ CommittedSurvives'
    BY <2>1 DEF Commit, DiskShape, CommittedSurvives, Survivor
  <2>2. ASSUME NEW g \in 0..MaxGeneration, CommitRejected(g)
        PROVE  DiskShape' /\ CommittedSurvives'
    BY <1>q, <2>2 DEF CommitRejected, Survivor
  <2>3. CASE OpenTemp \/ FillTemp
    <3>1. S' = S
      BY <1>0, <2>3, SameSurvivor DEF OpenTemp, FillTemp, Directory
    <3> QED BY <1>q, <2>3, <3>1 DEF OpenTemp, FillTemp
  <2>4. CASE WriteJournal \/ OpenBackup \/ FillBackup
    <3>1. IsValid(files.main) \/ (files.backup = Absent /\ pc = "journal")
      BY <1>0, <2>4 DEF WriteJournal, OpenBackup, FillBackup, Shape, BackupHasMain, CommitShape,
                  BeforeReplace, TypeOK, Content, IsValid, Absent, ValidRecord, Directory
    <3>2. S' = S
      BY <1>0, <2>4, <3>1 DEF WriteJournal, OpenBackup, FillBackup, Survivor, Directory, IsValid,
                              Absent
    <3> QED BY <1>q, <2>4, <3>2 DEF WriteJournal, OpenBackup, FillBackup
  <2>5. CASE WriteTempFail \/ CopyFail \/ ReplaceFail
    BY <1>q, <2>5 DEF WriteTempFail, CopyFail, ReplaceFail, Cleanup, Survivor
  <2>6. CASE WriteJournalFail
    <3>1. IsValid(files.main) \/ files.backup = Absent
      BY <1>0, <2>6 DEF WriteJournalFail, Shape, BackupHasMain, CommitShape,
                  BeforeReplace, TypeOK, Content, IsValid, Absent, ValidRecord, Directory
    <3>2. S' = S
      BY <1>0, <2>6, <3>1 DEF WriteJournalFail, Survivor, Directory, IsValid, Absent
    <3> QED BY <1>q, <2>6, <3>2 DEF WriteJournalFail, Cleanup
  <2>7. CASE Replace
    <3>1. attempt \in ValidRecord /\ attempt.gen = view.gen + 1 /\ files.temp = attempt
          /\ S = view /\ attempt \in possible
      BY <1>0, <2>7, <2>v DEF Replace, Shape, CommitShape, BeforeReplace
    <3>2. S' = attempt
      BY <1>0, <2>7, <3>1 DEF Replace, Survivor, IsValid, ValidRecord, Directory
    <3> QED BY <1>0, <2>7, <3>1, <3>2 DEF Replace, DiskShape, CommittedSurvives
  <2>8. CASE SyncDirectory
    <3>1. S = attempt /\ attempt \in possible
      BY <1>0, <2>8 DEF SyncDirectory, Shape, CommitShape, AfterReplace, Survivor, IsValid,
                        ValidRecord
    <3>2. S' = S /\ D' = S
      BY <2>8 DEF SyncDirectory, Survivor
    <3> QED BY <1>0, <2>8, <3>1, <3>2 DEF SyncDirectory, DiskShape, CommittedSurvives
  <2>9. CASE CommitOk
    <3>1. S = attempt /\ D = attempt
      BY <1>0, <2>9 DEF CommitOk, Shape, CommitShape, AfterReplace, Survivor, IsValid,
                        ValidRecord, DiskShape
    <3>2. S' = S /\ D' = D
      BY <2>9 DEF CommitOk, Survivor
    <3> QED BY <1>0, <2>9, <3>1, <3>2 DEF CommitOk, DiskShape, CommittedSurvives
  <2>10. CASE CommitError
    <3>1. S = view /\ attempt.gen = view.gen + 1 /\ view.gen \in Nat
      BY <1>0, <2>10, <2>v DEF CommitError, Shape, CommitShape, BeforeReplace
    <3>2. S # attempt /\ D # attempt
      BY <1>0, <3>1 DEF DiskShape
    <3>3. S' = S /\ D' = D
      BY <2>10 DEF CommitError, Survivor
    <3> QED BY <1>0, <2>10, <3>2, <3>3 DEF CommitError, DiskShape, CommittedSurvives
  <2> QED BY <1>3, <2>1, <2>2, <2>3, <2>4, <2>5, <2>6, <2>7, <2>8, <2>9, <2>10
          DEF Committing, SyncDirectoryFail
<1>4. CASE Environment
  <2>1. CASE Kill
    BY <1>q, <2>1 DEF Kill, Forget, Survivor, DiskShape, CommittedSurvives
  <2>2. CASE KillTornReplace
    <3>1. S' = S
      BY <1>0, <2>2 DEF KillTornReplace, Shape, CommitShape, RecoverShape, BackupHasMain,
              BeforeReplace, Survivor, TypeOK, Directory, Content, IsValid, Absent, Torn, ValidRecord
    <3> QED BY <2>2, <3>1 DEF KillTornReplace, Forget, Survivor, DiskShape, CommittedSurvives
  <2>3. CASE PowerLoss \/ WriteBack
    <3>1. /\ PowerLoss => S' = D /\ D' = D
          /\ WriteBack => S' = S /\ D' = S
      BY DEF PowerLoss, WriteBack, Survivor
    <3>2. WriteBack /\ pc = "cleanup" /\ outcome = "committed" => S = attempt
      BY <1>0 DEF Shape, CommitShape, AfterReplace, Survivor, IsValid, ValidRecord
    <3> QED BY <1>0, <2>3, <3>1, <3>2
            DEF PowerLoss, WriteBack, Forget, DiskShape, CommittedSurvives
  <2> QED BY <1>4, <2>1, <2>2, <2>3 DEF Environment
<1>5. CASE UNCHANGED vars
  BY <1>q, <1>5 DEF vars, Survivor
<1> QED BY <1>1, <1>2, <1>3, <1>4, <1>5 DEF Next

LEMMA InvInit == Init => IInv
<1> SUFFICES ASSUME Init PROVE IInv
  OBVIOUS
<1>1. TypeOK
  BY ContentTypes DEF Init, TypeOK, Directory, PCs, Outcomes
<1>2. Survivor(files) = Absent /\ Survivor(disk) = Absent
  BY DEF Init, Survivor, IsValid, Absent
<1>3. DiskShape /\ CommittedSurvives
  BY <1>2 DEF Init, DiskShape, CommittedSurvives, Absent
<1> QED BY <1>1, <1>3, ShapeInit DEF IInv

LEMMA InvStep ==
  ASSUME "restore" \notin Faults, "dir_sync" \notin Faults, "read" \notin Faults
  PROVE  IInv /\ [Next]_vars => IInv'
BY TypeStep, ShapeStep, DurableStep DEF IInv

LEMMA InvAlways ==
  ASSUME "restore" \notin Faults, "dir_sync" \notin Faults, "read" \notin Faults
  PROVE  Spec => []IInv
BY InvInit, InvStep, PTL DEF Spec

\* No crash, power loss or torn replace, at any step of commit() or recover(),
\* loses an acknowledged record or brings back a refused one.
THEOREM Durable ==
  ASSUME "restore" \notin Faults, "dir_sync" \notin Faults, "read" \notin Faults
  PROVE  Spec => []CommittedSurvives
<1>1. IInv => CommittedSurvives
  BY DEF IInv
<1> QED BY <1>1, InvAlways, PTL

\* A commit() that reports failure has left the committed record, and what
\* recover() would find, as they were.
THEOREM FailureIsClean == Spec => []FailureChangesNothing
<1>1. TypeOK /\ Shape => FailureChangesNothing
  BY DEF TypeOK, Shape, BackupHasMain, CommitShape, BeforeReplace, FailureChangesNothing,
         Survivor, Directory, Content, IsValid, Absent, Torn, ValidRecord
<1> QED BY <1>1, TypeCorrect, ShapeInit, ShapeStep, PTL DEF Spec

-------------------------------------------------------------------------------
(* Refinement: the protocol implements AtomicRecord.                       *)

Up == pc \in PCs \ {"down", "recover", "restore", "load"} /\ outcome \notin {"recovered", "unrecovered"}
Image(set) == {Strip(c) : c \in set}

LEMMA StripInjective ==
  ASSUME NEW c \in ValidRecord \cup {Absent}, NEW e \in ValidRecord \cup {Absent},
         Strip(c) = Strip(e)
  PROVE  c = e
BY NoPayloadAssumption DEF Strip, ValidRecord, Absent

LEMMA RefineInit == Init => Abstract!Init
BY DEF Init, Abstract!Init, Abstract!NoRecord, Strip, Absent, PCs

LEMMA RefineStep ==
  ASSUME IInv, IInv', [Next]_vars
  PROVE  [Abstract!Next]_(Abstract!vars)
<1> USE DEF IInv, Up, Image
<1>t. /\ \A c \in ValidRecord : Strip(c) \in Abstract!Record /\ Strip(c) # Abstract!NoRecord
      /\ Strip(Absent) = Abstract!NoRecord
  BY NoPayloadAssumption DEF Strip, ValidRecord, Absent, Abstract!Record, Abstract!NoRecord
<1>q. ASSUME UNCHANGED <<possible, view, attempt>>, Up' = Up
      PROVE  UNCHANGED Abstract!vars
  BY <1>q DEF Abstract!vars
<1>1. CASE RemoveNext
  BY <1>1, <1>q DEF RemoveNext
<1>2. CASE Recovery
  <2>1. CASE Open \/ RecoverTorn
    BY <2>1, <1>q DEF Open, RecoverTorn, PCs
  <2>2. CASE RecoverCommitted \/ RecoverAbandoned \/ RecoverQuiet \/ RestoreDone \/ RestoreFail
    BY <2>2, <1>q DEF RecoverCommitted, RecoverAbandoned, RecoverQuiet, RestoreDone, RestoreFail,
             Cleanup, PCs
  <2>3. CASE RecoverReturn
    BY <2>3, <1>q DEF RecoverReturn, PCs
  <2>4. CASE Load
    <3>1. CASE pc' = "down"
      BY <2>4, <3>1, <1>q DEF Load, PCs
    <3>2. CASE files.main # Torn /\ pc' = "idle" /\ view' = files.main
      <4>1. ~Up /\ Up'
        BY <2>4, <3>2 DEF Load, PCs, Shape, RecoverShape
      <4>2. view' \in possible
        BY <2>4, <3>2 DEF Load, CommittedSurvives, Survivor, TypeOK, Directory, Content, IsValid,
                  ValidRecord, Absent, Shape, BackupHasMain
      <4> QED BY <2>4, <3>2, <4>1, <4>2 DEF Load, Abstract!Next, Abstract!Open
    <3> QED BY <2>4, <3>1, <3>2 DEF Load
  <2> QED BY <1>2, <2>1, <2>2, <2>3, <2>4 DEF Recovery
<1>3. CASE Committing
  <2>1. ASSUME NEW g \in 0..MaxGeneration, NEW p \in Payloads, Commit(g, p)
        PROVE  Abstract!Next
    <3>1. /\ Up /\ Up'
          /\ attempt = Absent
          /\ attempt' \in ValidRecord
          /\ attempt'.gen = view.gen + 1
      BY <2>1 DEF Commit, PCs, Shape, CommitShape, RecoverShape, BeforeReplace, AfterReplace, TypeOK
    <3>2. Image(possible') = Image(possible) \cup {Strip(attempt')}
      BY <2>1 DEF Commit
    <3>3. Abstract!Begin(Strip(attempt'))
      BY <2>1, <1>t, <3>1, <3>2 DEF Commit, Abstract!Begin, Strip
    <3> QED BY <1>t, <3>1, <3>3 DEF Abstract!Next
  <2>2. ASSUME NEW g \in 0..MaxGeneration, CommitRejected(g)
        PROVE  UNCHANGED Abstract!vars
    BY <2>2, <1>q DEF CommitRejected, PCs, Shape, RecoverShape
  <2>3. CASE OpenTemp \/ FillTemp \/ WriteJournal \/ OpenBackup \/ FillBackup \/ Replace
    BY <2>3, <1>q DEF OpenTemp, FillTemp, WriteJournal, OpenBackup, FillBackup, Replace, PCs
  <2>4. CASE WriteTempFail \/ WriteJournalFail \/ CopyFail \/ ReplaceFail
             \/ SyncDirectory \/ SyncDirectoryFail
    BY <2>4, <1>q DEF WriteTempFail, WriteJournalFail, CopyFail, ReplaceFail, SyncDirectory,
              SyncDirectoryFail, Cleanup, PCs, Shape, RecoverShape
  <2>5. CASE CommitOk
    <3>1. Up /\ Up' /\ attempt \in ValidRecord
      BY <2>5 DEF CommitOk, PCs, Shape, CommitShape, AfterReplace
    <3> QED BY <2>5, <1>t, <3>1 DEF CommitOk, Abstract!Next, Abstract!Acknowledge
  <2>6. CASE CommitError
    <3>1. Up /\ Up' /\ attempt \in ValidRecord
      BY <2>6 DEF CommitError, PCs, Shape, CommitShape, BeforeReplace
    <3>2. Image(possible') = Image(possible) \ {Strip(attempt)}
      BY <2>6, <3>1, StripInjective DEF CommitError, TypeOK
    <3> QED BY <2>6, <1>t, <3>1, <3>2 DEF CommitError, Abstract!Next, Abstract!Refuse
  <2> QED BY <1>3, <2>1, <2>2, <2>3, <2>4, <2>5, <2>6 DEF Committing
<1>4. CASE Environment
  <2>1. CASE WriteBack
    BY <2>1, <1>q DEF WriteBack
  <2>2. CASE Kill \/ KillTornReplace \/ PowerLoss
    <3>1. ~Up' /\ view' = Absent /\ attempt' = Absent /\ possible' = possible
      BY <2>2 DEF Kill, KillTornReplace, PowerLoss, Forget, PCs
    <3>2. CASE Up
      BY <1>t, <3>1, <3>2 DEF Abstract!Next, Abstract!Crash
    <3>3. CASE ~Up
      <4>1. view = Absent /\ attempt = Absent
        BY <3>3 DEF Shape, CommitShape, RecoverShape, BeforeReplace, AfterReplace, TypeOK, PCs
      <4> QED BY <1>q, <3>1, <3>3, <4>1
    <3> QED BY <3>2, <3>3
  <2> QED BY <1>4, <2>1, <2>2 DEF Environment
<1>5. CASE UNCHANGED vars
  BY <1>5, <1>q DEF vars
<1> QED BY <1>1, <1>2, <1>3, <1>4, <1>5 DEF Next

\* Under the faults the protocol is built for, the files behave like a record
\* that is replaced atomically.
THEOREM StoreImplementsRecord ==
  ASSUME "restore" \notin Faults, "dir_sync" \notin Faults, "read" \notin Faults
  PROVE  Spec => AbstractSpec
<1>1. IInv /\ IInv' /\ [Next]_vars => [Abstract!Next]_(Abstract!vars)
  BY RefineStep
<1> QED BY <1>1, RefineInit, InvAlways, PTL DEF Spec, AbstractSpec, Abstract!Spec
===============================================================================
