----------------------------- MODULE DurableStore -----------------------------
(***************************************************************************)
(* One record kind of the durable store (src/src/persist/store.cpp) as its *)
(* only user, the governor, drives it: open (recover, then load), then a   *)
(* sequence of commits.  Each record has a committed file and three        *)
(* companions:                                                             *)
(*                                                                         *)
(*     main     fairness_<kind>.rec       temp    .tmp                     *)
(*     backup   .prev                     journal .jnl                     *)
(*                                                                         *)
(* Every file operation is one step (creating and filling a file are two), *)
(* and between any two steps the process may be killed or the machine may  *)
(* lose power.  A kill keeps the directory; a power loss brings back an    *)
(* earlier state of it, one at least as recent as the last directory sync. *)
(***************************************************************************)
EXTENDS Naturals, Sequences

CONSTANTS Payloads,       \* what a record may hold
          MaxGeneration,  \* bound on the generations explored
          NoPayload,      \* payload field of a file that holds no valid record
          Faults          \* which of AllFaults the file system exhibits

\* torn_replace: a replace interrupted by a crash leaves main half written.
\* restore:      recovery's replace of main by the backup may return an error.
\* dir_sync:     the directory sync after a replace may return an error.
\* read:         load's read of a record that is there may return an error.
AllFaults == {"torn_replace", "restore", "dir_sync", "read"}

ASSUME FaultsAssumption == Faults \subseteq AllFaults
ASSUME MaxGenerationAssumption == MaxGeneration \in Nat
ASSUME NoPayloadAssumption == NoPayload \notin Payloads

VARIABLES files,     \* the directory as the processes see it
          disk,      \* the directory a power loss would bring back
          pc,        \* next step of the store operation under way
          todo,      \* companions that operation has still to remove
          outcome,   \* what it will report once they are removed
          view,      \* in-memory record generation (and content) of the caller
          attempt,   \* the record being committed
          possible   \* history: the records a later open may legitimately find

vars == <<files, disk, pc, todo, outcome, view, attempt, possible>>

-------------------------------------------------------------------------------
(* Files and records.                                                      *)

Absent == [tag |-> "absent", gen |-> 0, val |-> NoPayload]
Torn == [tag |-> "torn", gen |-> 0, val |-> NoPayload]
Valid(g, p) == [tag |-> "valid", gen |-> g, val |-> p]

\* decode_record accepts a complete record and rejects everything else: its
\* length and both checksums have to match.
ValidRecord == [tag : {"valid"}, gen : 1..MaxGeneration, val : Payloads]
Content == ValidRecord \cup {Absent, Torn}
IsValid(c) == c.tag = "valid"

Companions == {"journal", "backup", "temp"}

\* The journal is written but never read back, so only its presence counts.
Directory == [main : Content, temp : Content, backup : Content, journal : BOOLEAN]

PCs == {"down", "recover", "restore", "cleanup", "load", "idle", "open_temp",
        "fill_temp", "journal", "open_backup", "fill_backup", "replace", "sync"}

Outcomes == {"none", "recovered", "unrecovered", "committed", "failed"}

TypeOK ==
  /\ files \in Directory
  /\ disk \in Directory
  /\ pc \in PCs
  /\ todo \in Seq(Companions)
  /\ outcome \in Outcomes
  /\ view \in ValidRecord \cup {Absent}
  /\ attempt \in ValidRecord \cup {Absent}
  /\ possible \subseteq ValidRecord \cup {Absent}

Init ==
  /\ files = [main |-> Absent, temp |-> Absent, backup |-> Absent, journal |-> FALSE]
  /\ disk = files
  /\ pc = "down"
  /\ todo = <<>>
  /\ outcome = "none"
  /\ view = Absent
  /\ attempt = Absent
  /\ possible = {Absent}

-------------------------------------------------------------------------------
(* Removing companions.  Every caller of remove_file ignores its status.   *)

Without(d, name) ==
  CASE name = "journal" -> [d EXCEPT !.journal = FALSE]
    [] name = "backup" -> [d EXCEPT !.backup = Absent]
    [] name = "temp" -> [d EXCEPT !.temp = Absent]

\* Remove the files named by seq, in order, then report result.
Cleanup(seq, result) ==
  /\ pc' = "cleanup"
  /\ todo' = seq
  /\ outcome' = result

RemoveNext ==
  /\ pc = "cleanup"
  /\ todo # <<>>
  /\ files' \in {files, Without(files, Head(todo))}
  /\ todo' = Tail(todo)
  /\ UNCHANGED <<disk, pc, outcome, view, attempt, possible>>

-------------------------------------------------------------------------------
(* Opening: recover, then load.                                            *)

\* load finds a file and returns no record: its content is rejected, or the
\* read itself fails, whatever the content.
LoadMayFail == files.main = Torn \/ ("read" \in Faults /\ files.main # Absent)

\* A process starts and calls recover.
Open ==
  /\ pc = "down"
  /\ pc' = "recover"
  /\ UNCHANGED <<files, disk, todo, outcome, view, attempt, possible>>

\* A journal next to a readable record: the replace completed.
RecoverCommitted ==
  /\ pc = "recover"
  /\ files.journal
  /\ IsValid(files.main)
  /\ Cleanup(<<"journal", "backup", "temp">>, "recovered")
  /\ UNCHANGED <<files, disk, view, attempt, possible>>

\* A journal, no record loaded, and a backup: restore it.  An intact record
\* whose read failed is replaced by the backup as well.
RecoverTorn ==
  /\ pc = "recover"
  /\ files.journal
  /\ files.main = Absent \/ LoadMayFail
  /\ files.backup # Absent
  /\ pc' = "restore"
  /\ UNCHANGED <<files, disk, todo, outcome, view, attempt, possible>>

\* A journal and nothing to fall back to: the attempt is abandoned.
RecoverAbandoned ==
  /\ pc = "recover"
  /\ files.journal
  /\ files.main = Absent \/ LoadMayFail
  /\ files.backup = Absent
  /\ Cleanup(<<"journal", "temp">>, "recovered")
  /\ UNCHANGED <<files, disk, view, attempt, possible>>

\* Mutant of RecoverQuiet: a temporary without a journal is promoted.
RecoverQuietAdoptsTemp ==
  /\ pc = "recover"
  /\ ~files.journal
  /\ files' = IF IsValid(files.temp) THEN [files EXCEPT !.main = files.temp] ELSE files
  /\ Cleanup(<<"temp", "backup">>, "recovered")
  /\ UNCHANGED <<disk, view, attempt, possible>>

\* No journal: a temporary is an abandoned attempt and a backup is left over.
RecoverQuiet ==
  /\ pc = "recover"
  /\ ~files.journal
  /\ Cleanup((IF files.temp = Absent THEN <<>> ELSE <<"temp">>) \o
             (IF files.backup = Absent THEN <<>> ELSE <<"backup">>), "recovered")
  /\ UNCHANGED <<files, disk, view, attempt, possible>>

\* replace_file(backup, base) succeeds; journal and temporary are removed and
\* the restored record is loaded once more.
RestoreDone ==
  /\ pc = "restore"
  /\ files' = [files EXCEPT !.main = files.backup, !.backup = Absent]
  /\ \/ /\ ~IsValid(files'.main) \/ "read" \in Faults
        /\ Cleanup(<<"journal", "temp">>, "unrecovered")
     \/ IsValid(files'.main) /\ Cleanup(<<"journal", "temp">>, "recovered")
  /\ UNCHANGED <<disk, view, attempt, possible>>

\* It fails: journal and temporary are removed all the same, then recover
\* reports the error and open gives up.
RestoreFail ==
  /\ pc = "restore"
  /\ "restore" \in Faults
  /\ Cleanup(<<"journal", "temp">>, "unrecovered")
  /\ UNCHANGED <<files, disk, view, attempt, possible>>

RecoverReturn ==
  /\ pc = "cleanup"
  /\ todo = <<>>
  /\ outcome \in {"recovered", "unrecovered"}
  /\ pc' = IF outcome = "recovered" THEN "load" ELSE "down"
  /\ outcome' = "none"
  /\ UNCHANGED <<files, disk, todo, view, attempt, possible>>

\* load: a record that is read or missing opens the store, one that is not
\* read makes open fail.
Load ==
  /\ pc = "load"
  /\ \/ LoadMayFail /\ pc' = "down" /\ view' = view
     \/ files.main # Torn /\ pc' = "idle" /\ view' = files.main
  /\ UNCHANGED <<files, disk, todo, outcome, attempt, possible>>

-------------------------------------------------------------------------------
(* Committing.                                                             *)

\* Mutant of Commit: the new record keeps the generation it replaces.
CommitSameGeneration(expected, payload) ==
  /\ pc = "idle"
  /\ files.main # Torn
  /\ files.main.gen = expected
  /\ pc' = "open_temp"
  /\ outcome' = "none"
  /\ attempt' = Valid(expected, payload)
  /\ possible' = possible \cup {attempt'}
  /\ UNCHANGED <<files, disk, todo, view>>

\* commit(expected, expected + 1, payload): accepted when main is absent and
\* expected is 0, or when main is readable and has the expected generation.
Commit(expected, payload) ==
  /\ pc = "idle"
  /\ expected < MaxGeneration
  /\ files.main # Torn
  /\ files.main.gen = expected
  /\ pc' = "open_temp"
  /\ outcome' = "none"
  /\ attempt' = Valid(expected + 1, payload)
  /\ possible' = possible \cup {attempt'}
  /\ UNCHANGED <<files, disk, todo, view>>

\* CommitRejected: nothing was touched.
CommitRejected(expected) ==
  /\ pc = "idle"
  /\ LoadMayFail \/ files.main.gen # expected
  /\ outcome' = "failed"
  /\ UNCHANGED <<files, disk, pc, todo, view, attempt, possible>>

\* write_file(temp): open truncates, the writes and the flush complete it.
OpenTemp ==
  /\ pc = "open_temp"
  /\ files' = [files EXCEPT !.temp = Torn]
  /\ pc' = "fill_temp"
  /\ UNCHANGED <<disk, todo, outcome, view, attempt, possible>>

FillTemp ==
  /\ pc = "fill_temp"
  /\ files' = [files EXCEPT !.temp = attempt]
  /\ pc' = "journal"
  /\ UNCHANGED <<disk, todo, outcome, view, attempt, possible>>

WriteTempFail ==
  /\ pc \in {"open_temp", "fill_temp"}
  /\ Cleanup(<<"temp">>, "failed")
  /\ UNCHANGED <<files, disk, view, attempt, possible>>

\* Mutant of WriteJournal: the committed record is not backed up.
WriteJournalSkipsBackup ==
  /\ pc = "journal"
  /\ files' = [files EXCEPT !.journal = TRUE]
  /\ pc' = "replace"
  /\ UNCHANGED <<disk, todo, outcome, view, attempt, possible>>

\* write_file(journal); next the backup, if there is a record to back up.
WriteJournal ==
  /\ pc = "journal"
  /\ files' = [files EXCEPT !.journal = TRUE]
  /\ pc' = IF files.main = Absent THEN "replace" ELSE "open_backup"
  /\ UNCHANGED <<disk, todo, outcome, view, attempt, possible>>

\* A failed journal write may leave the journal behind.
WriteJournalFail ==
  /\ pc = "journal"
  /\ files' \in {files, [files EXCEPT !.journal = TRUE]}
  /\ Cleanup(<<"temp">>, "failed")
  /\ UNCHANGED <<disk, view, attempt, possible>>

\* copy_file(base, backup).
OpenBackup ==
  /\ pc = "open_backup"
  /\ files' = [files EXCEPT !.backup = Torn]
  /\ pc' = "fill_backup"
  /\ UNCHANGED <<disk, todo, outcome, view, attempt, possible>>

FillBackup ==
  /\ pc = "fill_backup"
  /\ files' = [files EXCEPT !.backup = files.main]
  /\ pc' = "replace"
  /\ UNCHANGED <<disk, todo, outcome, view, attempt, possible>>

CopyFail ==
  /\ pc \in {"open_backup", "fill_backup"}
  /\ Cleanup(<<"journal", "temp">>, "failed")
  /\ UNCHANGED <<files, disk, view, attempt, possible>>

\* replace_file(temp, base).
Replace ==
  /\ pc = "replace"
  /\ files' = [files EXCEPT !.main = files.temp, !.temp = Absent]
  /\ pc' = "sync"
  /\ UNCHANGED <<disk, todo, outcome, view, attempt, possible>>

ReplaceFail ==
  /\ pc = "replace"
  /\ Cleanup(<<"journal", "temp">>, "failed")
  /\ UNCHANGED <<files, disk, view, attempt, possible>>

\* Mutant of SyncDirectory: a failure is reported after the replace is done.
SyncDirectoryReportsFailure ==
  /\ pc = "sync"
  /\ disk' = files
  /\ Cleanup(<<"journal", "temp">>, "failed")
  /\ UNCHANGED <<files, view, attempt, possible>>

\* sync_directory; its status is ignored.  Then drop the journal and the
\* backup and acknowledge.
SyncDirectory ==
  /\ pc = "sync"
  /\ disk' = files
  /\ Cleanup(<<"journal", "backup">>, "committed")
  /\ UNCHANGED <<files, view, attempt, possible>>

SyncDirectoryFail ==
  /\ pc = "sync"
  /\ "dir_sync" \in Faults
  /\ Cleanup(<<"journal", "backup">>, "committed")
  /\ UNCHANGED <<files, disk, view, attempt, possible>>

\* Mutant of CommitOk: the caller's generation is not advanced.
CommitOkKeepsGeneration ==
  /\ pc = "cleanup"
  /\ todo = <<>>
  /\ outcome = "committed"
  /\ pc' = "idle"
  /\ possible' = {attempt}
  /\ attempt' = Absent
  /\ UNCHANGED <<files, disk, todo, outcome, view>>

CommitOk ==
  /\ pc = "cleanup"
  /\ todo = <<>>
  /\ outcome = "committed"
  /\ pc' = "idle"
  /\ view' = attempt
  /\ possible' = {attempt}
  /\ attempt' = Absent
  /\ UNCHANGED <<files, disk, todo, outcome>>

\* The caller is told the commit failed and keeps its old generation.
CommitError ==
  /\ pc = "cleanup"
  /\ todo = <<>>
  /\ outcome = "failed"
  /\ pc' = "idle"
  /\ possible' = possible \ {attempt}
  /\ attempt' = Absent
  /\ UNCHANGED <<files, disk, todo, outcome, view>>

-------------------------------------------------------------------------------
(* The environment.                                                        *)

\* What a stopped process leaves behind in memory: nothing.
Forget ==
  /\ pc' = "down"
  /\ todo' = <<>>
  /\ outcome' = "none"
  /\ view' = Absent
  /\ attempt' = Absent
  /\ UNCHANGED possible

Kill ==
  /\ pc # "down"
  /\ Forget
  /\ UNCHANGED <<files, disk>>

\* A crash inside a replace that is not atomic: main is destroyed, the source
\* has not been moved yet.
KillTornReplace ==
  /\ "torn_replace" \in Faults
  /\ pc \in {"replace", "restore"}
  /\ files' = [files EXCEPT !.main = Torn]
  /\ Forget
  /\ UNCHANGED disk

PowerLoss ==
  /\ pc # "down"
  /\ files' = disk
  /\ Forget
  /\ UNCHANGED disk

\* The operating system writes directory updates back on its own, in order.
WriteBack ==
  /\ disk' = files
  /\ UNCHANGED <<files, pc, todo, outcome, view, attempt, possible>>

Recovery ==
  \/ Open \/ RecoverCommitted \/ RecoverTorn \/ RecoverAbandoned \/ RecoverQuiet
  \/ RestoreDone \/ RestoreFail \/ RecoverReturn \/ Load

Committing ==
  \/ \E g \in 0..MaxGeneration, p \in Payloads : Commit(g, p)
  \/ \E g \in 0..MaxGeneration : CommitRejected(g)
  \/ OpenTemp \/ FillTemp \/ WriteTempFail \/ WriteJournal \/ WriteJournalFail
  \/ OpenBackup \/ FillBackup \/ CopyFail \/ Replace \/ ReplaceFail
  \/ SyncDirectory \/ SyncDirectoryFail \/ CommitOk \/ CommitError

Environment == Kill \/ KillTornReplace \/ PowerLoss \/ WriteBack

Next == Recovery \/ RemoveNext \/ Committing \/ Environment

Spec == Init /\ [][Next]_vars

-------------------------------------------------------------------------------
(* Properties.                                                             *)

\* The record that recover followed by load would find in directory d.
Survivor(d) ==
  IF IsValid(d.main) THEN d.main
  ELSE IF d.journal /\ IsValid(d.backup) THEN d.backup ELSE Absent

\* A record whose commit was acknowledged is never lost, an attempt that was
\* reported failed is never found, and after a crash in between exactly the
\* two are possible, whether the process was killed or the power went: the
\* commit protocol of commit() and what recover() falls back to.  It holds as
\* long as restores, directory syncs and reads of an intact record succeed.
CommittedSurvives == Survivor(files) \in possible /\ Survivor(disk) \in possible

\* While no commit is under way the caller's generation is the one on disk,
\* so a commit that names it is not refused by commit()'s generation check,
\* even after commits that failed half way.
MemoryMatchesMain == pc = "idle" => files.main = view

\* A commit that is reported failed has changed neither the committed record
\* nor what recovery would find (governor.cpp relies on it to roll back).
FailureChangesNothing ==
  pc = "cleanup" /\ outcome = "failed" =>
    files.main = view /\ Survivor(files) = view

\* The protocol implements the abstract record.
Strip(c) == [gen |-> c.gen, val |-> c.val]

Abstract == INSTANCE AtomicRecord WITH
  possible <- {Strip(c) : c \in possible},
  up <- pc \in PCs \ {"down", "recover", "restore", "load"} /\ outcome \notin {"recovered", "unrecovered"},
  view <- Strip(view),
  pending <- Strip(attempt)

AbstractSpec == Abstract!Spec
===============================================================================
