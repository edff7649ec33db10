# Fairness Governor: TLA+ verification

This directory models the Fairness Governor (`src/`), checks the models with TLC
and proves the main safety results with TLAPS. Every definition is translated
from the code; `PROJECT.json` maps each one to the lines it stands for.

## 1. The system

The governor watches how service units are shared among *subjects*. Publishers
report, per service window, how much each subject was served (*evidence*). For
each window the governor computes what every subject was entitled to, carries
deficits and surpluses over to later windows, and plans a bounded correction.
Policy and accounting are durable.

| Part (source) | State | Operations | Hard behaviour |
|---|---|---|---|
| Durable store (`persist/store.cpp`, `fsutil.cpp`) | per record: main, `.tmp`, `.jnl`, `.prev` | recover, load, commit | crash between any two file operations, an I/O error in any of them, power loss, torn replace |
| Governor (`eval/governor.cpp`) | policy, epoch, accounting, staged evidence, ingested identities, publisher sequences; two durable records | open, install_policy, advance_epoch, ingest_evidence, evaluate, commit, shutdown | decisions held by several threads while others change everything; writes that fail; crashes between the two records; reopening with another policy |
| Carry (`model/accounting.cpp`) | deficit, surplus, discarded totals of a subject | apply_window_carry | 64-bit limits, a bound that changes |
| Allocation (`eval/engine.cpp`: `allocate_whole`, `Distributor`) | none (pure) | split a whole through a group forest | rounding, floors, donors, overcommit, depth |
| Evaluation (`eval/engine.cpp`: `evaluate_fairness`) | none; reads the accounting | starvation, cooldown, demand, supply, budget, outcomes | effects over many windows: streaks, cooldown, carried demand |
| Link server (`link/link.cpp`) | stop/serving flags, worker registry, active count, listener | start, serve, request_stop, shutdown | accept loop, workers and shutdown interleave; peers that stall |
| Frames on a connection (`link/link.cpp`: `read_exact`, `read_frame`, `write_all`; `link/frame.cpp`) | bytes received of a header or a payload | encode, send, read | any chunking, a timeout or a failed send inside a frame |
| Link session (`link/link.cpp`, client and `serve_connection`) | sequence counters, frames in flight | connect, submit, goodbye / handshake, ingest, evaluate, commit, acknowledge | late answers, restarts, two connections at once |
| Scenario files (`scenario.cpp`) | sections open, what was declared | one per directive, then validation | directives in any order and number |
| Policy, evidence (`model/`) | values | validation | structural rules only |
| Durable codec, digests, ids, 128-bit arithmetic, entropy | none | encode, decode | data layout (abstracted) |
| Explanation, tools | none of their own | formatting, `main` | not modelled |

Interaction: link workers call `authority()`, `ingest_evidence`, `evaluate`,
`commit` of one governor object from several threads; every public operation of
the governor holds one mutex for its whole duration; `install_policy`,
`advance_epoch`, `commit` and `open` call the store's `commit` while holding it;
`evaluate` and `commit` use the pure engine and carry functions.

What makes each part correct:

* store: an acknowledged record is never lost and a refused one never found;
* governor: acknowledged effects survive, windows are applied serially and once,
  epochs and policies never go back, generations of a subject are not mixed;
* carry: exact closure, one-sided, bounded, never out of its width;
* allocation: conservation at every level, floors, obligation order, quota;
* planning: balance, protected floors, starvation, cooldown, groups that add up to
  their members, an accounting that can always be read back;
* frames: delivered whole and in order, or the read fails; every read returns;
* scenario: exactly the documents of the grammar are accepted, and each means what
  its lines say;
* link: no worker serves once shutdown has returned and no thread is lost, shutdown
  ends, counters stay in step unless a frame was lost, an acceptance is true, every
  submission is answered.

## 2. Modules

```
AtomicRecord <--implements-- DurableStore      <- MCDurableStore, DurableStoreProofs
                              (its result: a store commit is atomic)
WindowLedger <--implements-- Governor          <- MCGovernor
                                ^
 FrameChannel ..channel of.. EvidenceLink      <- MCEvidenceLink, GovernorProofs (of both)
 FrameChannel <--implements-- FrameStream      <- MCFrameStream, FrameStreamProofs
LinkServer                                     <- MCLinkServer, LinkServerProofs
Arithmetic <- CarryRules <- Carry              <- MCCarry
     ^            ^
Allocation <- GroupForest                      <- AllocationProofs (lemmas about both)
                  ^
                  +-- Distribution             <- MCDistribution, DistributionProofs
                  +-- Windows (and CarryRules) <- MCWindows, WindowsProofs (and Carry)
                  +-- Scenario                 <- MCScenario, ScenarioProofs
```

**AtomicRecord** is the abstract specification of one durable record: a set of
records the next open may find, narrowed to one by an acknowledgement.

**DurableStore** is one record kind, one action per file operation. `files` is
the directory the processes see, `disk` the one a power loss brings back;
`WriteBack` lets the kernel persist directory updates at any time, in order.
`Kill` stops the process between any two operations, `KillTornReplace` inside a
replace that is not atomic (the code's own `torn_replace` fault). Every
`remove_file` may fail silently, since the code ignores its status. `possible`
is a history variable: what a later open may legitimately find. `Faults` selects
which further errors the file system shows: `restore` (recovery's replace of
main by the backup returns an error), `dir_sync` (the directory sync fails) and
`read` (any `load` of a record that is there returns an error, whatever its
content: in `recover`, after a restore, in `open` and in the check of `commit`). A
write failure of the temporary, the journal, the backup or the replace, and a read
failure while the backup is copied, are always possible.

**Governor** has one action per public operation and outcome (success, failed
write, process death once the record is written). Memory is `policy, epoch,
accounting, staged, ingested, sequences`; `policyRec` and `accountingRec` are
the durable records; `decisions` are what callers still hold. One subject is
followed: its balance is represented by the set of windows applied to it (the
*ledger*), each with the accounting generation it was computed from, which is
what double or out-of-order application would show in. The store is taken to be
atomic, as `StoreImplementsRecord` shows. `ack*` are history variables of what
callers were told. A request's window generation is not told apart from its
evidence generation, and its clock is reduced to whether the capture is recent
enough. Directory updates that a crash left unsynced, and a power loss takes
back after a later open, are followed in DurableStore only.

**WindowLedger** is the abstract specification of that accounting: windows that
advance, each counted at most once, for the generation of the subject that is governed
and from the balance the window before it left; what callers were told of stays
while that generation is governed, and only a balance nobody was told of is started
afresh. Policies, epochs, evidence, memory, threads and crashes are not part of it.
Its state is read off the durable records (`Ledger` in Governor).

**CarryRules / Carry** are `apply_window_carry`: recognise a net, then saturate
at the bound; `WordMax` is the width. **Allocation / GroupForest /
Distribution** are `allocate_whole`, the Distributor and policies that pass
`validate_policy`. A greedy loop of the code ("take min of what is wanted and
what is left, in this order") is the operator `Greedy`, over an order given as a
set of pairs. Intermediate results that are used several times are passed as
operator parameters (`Topped`, `Assessed`, `Distributed`), which also keeps TLC's
action coverage affordable.

**Windows** is `evaluate_fairness` on live authority, with the fold of `commit`,
over many windows: outcomes of subjects, groups and population, streaks, demand
and supply, intents and their numbers. A decision may be dropped, windows may be
skipped, a subject may be missing from the evidence; `InstallPolicy` replaces the
policy (subjects leave, arrive or are renewed) under accounting that stays, and
`Reopen` reads that accounting back through what `decode_accounting` accepts and
drops what the policy no longer names. Memory and disk are the same here: where a
crash makes them differ, and a reopening with another configured policy, are
followed in Governor.

**Scenario** is the parser: a state machine over lines, with the code's flags
(`saw_version`, `saw_body`, `in_policy`, `in_evidence`, `current_evidence`), the
attribute keys of each directive and the widths of their values, and validation
at the end. A line is a directive with parsed tokens; text is not followed
character by character. The reference it is checked against looks at the document
as a whole, by line numbers and without any of the flags: a grammar that says where
a line may stand (`InPlace`, by the nearest section opener above it), and a meaning
that collects the lines of each directive from top to bottom (`MeaningOf`).

**LinkServer** is the threads: accept loop, workers, `request_stop`, `shutdown`
(which the destructor repeats). The accept loop's `prune_workers` is in three steps,
as in the code: finished workers are moved out of the registry under the lock
(`LoopTop`, into `pruned`), joined one by one without it (`JoinPruned`), and only
then does the loop poll again (`PruneDone`). A thread therefore has one of three
owners: the registry, the list that `shutdown` joins, or the accept loop's.

**FrameStream** is one direction of a connection in units of bytes: chunks of any
size, polls that run out anywhere, sends that fail inside a frame, either end
going away, and the three readers of the code (worker, client, raw session), which
react differently to a failed read. Bytes that are not a frame's own header may
still pass the header checks, with any length. **FrameChannel** is what that is
shown to implement: frames whole and in order, none after a server's failed read;
a client that reads on after a failed read may lose frames, never get a wrong one.

**EvidenceLink** EXTENDS Governor and composes it with publishers and workers over
such channels: the client's timeouts before and inside an answer, sends that fail
with the sequence number already spent and the socket open (`SubmitFails`: nothing
or a torn frame is on its way, which ends the connection when the worker reads it),
acknowledgements that cannot be written, answers that are lost, connections that
drop at any time, the worker's sequence of separate governor calls, and another
thread that opens the governor and advances the epoch (`Administer`). A policy
installed while connections are served is followed in Governor only. It follows one incarnation of the server up to its crash; what the
governor is after a restart is Governor's subject. A worker is one of the callers
that hold decisions: one that is refused gives its decision up, unless another
worker still holds an equal one (`HeldElsewhere`), and a request names an epoch
that the governor can have been in (`RequestEpochs`). `shutdown` of the governor is
left out, because the tool shuts the link down first.

Definitions introduced by "Mutant of" are wrong variants of the definition they
precede. They are used only to confirm that each property fails when the code is
changed that way.

## 3. Runs

Passing runs (distinct states in parentheses):

| Run | Bounds | Shows |
|---|---|---|
| `store_protocol` (100 k) | 1 payload, 3 generations, torn replaces | type, `CommittedSurvives`, `FailureChangesNothing`, refinement of AtomicRecord |
| `store_all_faults` (957 k) | 2 payloads, 2 generations, all faults | `MemoryMatchesMain` |
| `governor_lifecycle` (1.38 M) | 3 policies (renewing the subject, later and earlier epoch), 4 snapshots of 2 windows, 3 boots, 2 decisions held, staging limit 1 | type, `AcknowledgedSurvive`, `SerialHistory`, `MemoryIsDurable`, `NeverRollsBack`, `StagedIsCurrent`, refinement of WindowLedger (`LedgerSpec`) |
| `carry_closure` (2.7 k) | word 0..7, nets -4..4, bounds 0, 2, 4 | type (no overflow), `Closes`, `Bounded` |
| `distribution_split` (4.0 k) | flat, nested and two-root forests of 3 subjects, whole up to 6 | `Conserves`, `FloorsMet`, `StrongestFirst`, `WithinQuota`, `WeightMonotone` |
| `windows_planning` (155 k) | two policies (nested groups; the second drops, renews and adds a subject), 4 windows, one may be skipped, 3 entries, streak and carry limits 3 | `PlanBalances`, `ProtectedFloorHeld`, `StarvationFirst`, `StarvationReported`, `CooldownHolds`, `PopulationCancels`, `Reopenable`, `GroupsAddUp` |
| `link_server_threads` (25 k) | 3 peers, 2 slots | `QuietAfterShutdown`, `WorkersOwned`, `ShutdownReturns`, `LoopStops` |
| `evidence_link` (722 k) | one publisher with 2 submissions, or two connections with 1 each; staging limit 1, writes may fail | `SequenceInStep`, `AnswerIsTrue`, `Answered` |
| `frame_stream` (171 k) | headers of 2 units, payloads up to 2, server limit 1, 3 frames | `InStep`, refinement of FrameChannel, `ReadReturns` |
| `scenario` (500 k) | documents of up to 7 lines out of 16, numbers 0..7 and 0..3 | `AcceptsTheGrammar`, `MeansWhatItSays` |

Why the bounds are enough: three generations are one more than any record
mentions at once (old, new, and one behind them in a backup); three boots allow
crash, recovery and another crash; two held decisions are the smallest race; a
staging limit of 1 makes every second snapshot evict; a word of 0..7 is reached
from both sides by nets of 4; three competitors are the fewest among which a
donor, a needy and a bystander differ; cooldown 2 and starvation 2 both run out
within four windows; three record entries are one fewer than the subjects that two
policies name; three peers exceed two slots; a header of two units can be cut in
the middle, a payload of two likewise, and three frames allow a reader to lose its
place in the first and take a part of the second for a header; seven lines hold a
full document (version, epoch, policy, group, subject, evidence and its
observation), and each of the 16 lines is a directive in an accepted form or
wrong in a way of its own. The service of a window is bounded by `MaxService`, which
is at least the total of every window of the instance, so `Evaluate` is never held back by it.

Deadlock is checked for the store, the carry and the link server. It is switched
off where a bound (boots, windows, submissions, the whole) ends the behaviour.

Runs that end in a violation record where the code does not do what a comment or
document says (details in `PROJECT.json`, `findings`):

| Run | The code ... | against |
|---|---|---|
| `store_restore_fails` | removes the journal even if the restore failed, so the next recovery deletes the only good copy | ARCHITECTURE.md:124 |
| `windows_group_obligation` | never consults a group's protected obligation when it plans reductions | policy.hpp:35-36 |

Smaller disagreements met on the way. The models follow the code in each; no run
is kept for them (most are notes of a hazard in `PROJECT.json`):

| The code ... | against |
|---|---|
| acknowledges a commit although the directory sync failed (store.cpp:300) | store.hpp:20 |
| recovers from the backup when the read of an intact record fails, next to a journal a crash left: the record is replaced by its predecessor, or by a backup the crash cut off half way (store.cpp:132, with the fault `read`) | ARCHITECTURE.md:123-125, after a completed replace "the committed record stands" and `.prev` is for a torn one |
| commits a decision whose evidence was superseded after it was evaluated (governor.cpp:536) | ARCHITECTURE.md:88-90 |
| lets a decision without authority use up its window (governor.cpp:597) | ARCHITECTURE.md:84 |
| may open with an older epoch than the durable policy's (governor.cpp:291) | governor.cpp:292 |
| keeps the identity `Closes`; the header has the discarded terms on the other side | accounting.hpp:7-8 |
| enforces guarantee floors whatever `enforce_guarantee_floors` says: the flag is stored (codec.cpp:88) and parsed (scenario.cpp:317) and never read by the engine (engine.cpp:142-265) | policy.hpp:118-121, false means the pure weighted share |
| reports overcommit for floors that only the rounding leftover makes fit (engine.cpp:401) | test_property_allocation.cpp:68 |
| reduces a subject that is cooling down (engine.cpp:889) | policy.hpp:98-99 |
| makes deficits and surpluses cancel over the population, not within each group (engine.cpp:768) | README.md:58-59 |
| admits more connections than the bound (link.cpp:685) | link.hpp:50 |
| spends a sequence number on a frame whose send fails and leaves the socket open, so every later submission of the connection is refused (link.cpp:857, 467) | no document; `submit` reports the failed send as an error like any other |
| answers Ok for a snapshot whose commit another connection's overtook (link.cpp:509) | link.hpp:61-62 |
| serves two incarnations of a publisher at once (link.cpp:353) | link.hpp:8-9 |
| goes on writing to a peer that never reads, and `shutdown` waits for it (link.cpp:142) | link.hpp:89 |
| in the raw session, polls for the rest of a header without a budget (link.cpp:985) | link.cpp:208, the other readers |
| leaves a renewed subject STALE until the governor is reopened (engine.cpp:747) | no document; `open` drops such entries |
| accepts the same policy key twice, the last one counting (scenario.cpp:272) | scenario.hpp:6-8 |
| ignores a label on a directive other than `group` and `subject` | scenario.hpp:6-8 |
| counts a lone `epoch` line as content of the document (scenario.cpp:243) | message at scenario.cpp:722 |
| has a fallback for a missing `epoch` line that no accepted document reaches, since such a policy is refused (scenario.cpp:727) | the fallback itself |

Limits of single properties: `CommittedSurvives` is claimed for file systems whose
restores, directory syncs and reads of an intact record succeed (each of the
three faults refutes it, the first together with a torn replace); `FloorsMet` and `StrongestFirst` are about what the engine
does for every policy, which for one with `enforce_guarantee_floors` = false is more
than policy.hpp promises; `SequenceInStep` allows a refusal for the sequence number
after a send of the connection failed, and only then; `QuietAfterShutdown` allows
threads the accept loop took out before the wait for it ran out, all of them finished
and only to be joined; `WeightMonotone` is stated for policies without
floors (with floors a raised weight can lower the subject's entitlement by a
unit); `PopulationCancels` as long as every subject was observed, because the
entitlement of a subject that was not is recorded nowhere; `AnswerIsTrue` as long
as no submission of the connection went unanswered, because `submit()` hands a
late answer to the next caller; `ReadReturns` for the worker's and the client's
reader; `ProtectedFloorHeld` for subjects (for groups see
`windows_group_obligation`).

### Fairness

* `LinkServer`: weak fairness of the accept loop, of `shutdown` and of each
  worker: every one of them is a thread, and none of its steps waits for anything
  but time (`select` and receive have timeouts). Writing is not fair by itself:
  `write_all` repeats until the peer reads. `SpecPeersRead` adds that peers read
  or reset; without it (under `Spec`) `ShutdownReturns` fails.
* `EvidenceLink`: weak fairness of each worker's step. The governor's mutex is
  held for one bounded operation at a time. Neither the client's patience nor the
  idle budget is assumed.
* `FrameStream`: weak fairness of the reader's step, because each `recv` returns
  within its timeout, with bytes or without. Nothing is assumed of the sender.

## 4. Proofs

All theorems hold for every value of the constants that satisfies the named
assumptions of the modules. They are checked with `tlapm` 1.4.5.

**DurableStoreProofs.** `TypeCorrect`; `MemoryMatches` and `FailureIsClean` under
every fault; `Durable` (`CommittedSurvives`) and `StoreImplementsRecord` under
the assumption that restores, directory syncs and reads of an intact record do not
fail (with a failing restore the property is violated, see `store_restore_fails`). `CommittedSurvives` is not inductive: the
inductive invariant `IInv` adds what the files look like at each step
(`BackupHasMain`, `CommitShape`, `RecoverShape`: which companions may exist, that
the backup holds the committed record when main is about to be replaced, that
nothing is removed which is still needed) and `DiskShape`, which says that a
power loss yields a directory of one of those shapes. The refinement maps
each file operation to a stutter except opening, starting, acknowledging and
refusing a commit, and crashes.

**GovernorProofs.** `GovernorTypeCorrect`, `NothingAcknowledgedIsLost`,
`CommitsAreSerial`, `GenerationsAreNotMixed`, `MemoryMirrorsDisk`, `NoRollback`
(`NeverRollsBack`).
The inductive invariant has five parts beyond the types: `RecordOK` (the durable
ledger is serial and of one generation), `MirrorOK` (memory and record agree up
to entries dropped on open), `DecisionsOK` (a decision held that still passes the
checks was computed from the present accounting and authority), `EpochOK` and
`PolicyOK` (what was acknowledged is bounded by what is durable). Crash steps
share the lemma `DeathKeepsInv`. `StagedEvidenceIsCurrent` has an invariant of its
own (`StagedInv`: finite, of the current epoch, one snapshot per window); that
eviction keeps to the limit is `EvictionBounds`: the snapshots above the lowest
window kept are fewer than the limit.

**GovernorProofs, the ledger.** `GovernorImplementsLedger` (`LedgerSpec`): a commit that
reaches the disk, acknowledged or not, is the count (or, without authority, the
passing) of a window; what opens, installs a policy or stamps an epoch is a `Govern`
step; everything else is a stutter. The steps need `IInv` and one fact more,
`GovernedOK`: a decision that still names the policy in force was computed for the
generation of the subject which that policy governs. It is a theorem of its own
(`DecisionsNameGovernedSubjects`), since it says that `commit` never has to put the
accounting back because of a subject the policy does not govern (governor.cpp:603).
With `LinkImplementsGovernor` the refinement carries over to a governor that serves
connections (`LinkImplementsLedger`).

**GovernorProofs, the link.** EvidenceLink EXTENDS Governor, so its theorems are
in the same module. `LinkInv` (the types, and `Serving`: the governor is up while a
connection is served, a request names a policy and an epoch that exist, and the
decision a worker is about to commit is still held) gives `LinkTypeCorrect` and
`LinkImplementsGovernor`: every step of the link is a step of the governor or
leaves it alone, so all theorems on the governor hold while it serves any number
of connections. A lemma per step (`AtConnect` ... `AtCrash`) says what it does to
the two ends and the two channels of its connection. `OutOfSequenceOnlyAfterLoss` (`SequenceInStep`)
has two invariants. `Numbered`: while the worker serves and no send has failed, the
frames on their way carry consecutive numbers from the one the worker expects, and
the publisher's counter is the last of them. `Gapped`: once a send has failed, no
frame on its way carries the number it spent, and the worker's counter never gets
past that number. `AnswersAreTrue` needs `Truthful`: a connection none of whose submissions
went unanswered carries one exchange at a time (frame, then worker, then answer),
and `KnownWasTaken`: every identity the governor remembers was staged.

**AllocationProofs** holds no listed theorem, only what the next three modules cite:
sums over finite sets (`SumAdd`, `SumUnion`, `SumPointwise`, `SumBlocks`), the greedy
loop (`GreedyTotal`, `GreedyPriority`), largest remainders (`Remainders`: the shares
add up to the whole and are off the exact share by less than one), `allocate_whole`
(`Allocates`), the split through a forest (`PassLevels`, `SubjectsGetAll`) and the
walk to the root (`ChainUnfold`, `ChainAcyclic`, `RollsUp`). Sums are folds and the
split is a recursive function; induction is done by taking a smallest set (or a
deepest group) without the property, which needs first-order library theorems only.

**DistributionProofs.** `WholeIsConserved`, `FloorsAreMet`, `StrongestIsFirst`,
`SharesAreWithinQuota` (`Conserves`, `FloorsMet`, `StrongestFirst`, `WithinQuota`) for
every set of policies that have the declared fields, any number of subjects and
groups, and any whole. The invariant says that the policy stays valid when a weight
is raised (`RaisedForest`) and that the result is the evaluation of the present one.
`WeightIsMonotone` (`WeightMonotone`, an action property) compares two evaluations:
the levels above a raised subject do not see its weight (`OtherLevels`, `SamePart`), so
its level splits the same part; there, whoever comes before the subject in the order of
residues after the raise came before it already, or lost a unit of its own share, which
is one unit more to hand out (`HeavierGetsNoLess`).

**WindowsProofs.** `PlansBalance`, `ProtectedFloorsAreHeld`, `StarvationGoesFirst`,
`StarvationIsReported`, `CooldownIsKept`, `PopulationAlwaysCancels`, `AlwaysReopenable`,
`GroupsAlwaysAddUp`, for every population, every sequence of policies that
`validate_policy` lets through (`WindowsAssumption`), every evidence and any number
of windows. None is inductive: a decision may be committed windows after it was
evaluated, and after another policy was installed. `IInv` consists of the types; `Decodable`
(what was committed is within the limits of the decoder); `Links` (the durable
streaks and marks of last correction are at least what the history variables know);
that the balances cancel while `complete`; `PolicyOrder` (a decision
of a former policy stays dead, since generations only grow); and, for a decision of
the installed policy, `GoodPlan`, which has all that a plan satisfies, including
that its nets cancel. `GoodPlan` is shown once, of the plan `Evaluate` makes.

**WindowsProofs, the carry.** `CarryTypeCorrect` (`CarryTypeOK`), `CarryCloses`,
`CarryIsBounded` (`Bounded`), from the two lemmas `RecognizeExact` and `SaturateExact`,
for every word size, every set of nets and every set of bounds.

**ScenarioProofs.** `ParserAcceptsTheGrammar` and `ParserMeansWhatItSays`, for every set
of lines, every width of the numbers and documents of every length. Neither is
inductive: what the flags and the pointer to the current evidence decide has to be
what the whole text above the line decides. `ParserInv` says so while the parser reads:
`Place` gives each flag its meaning in the document, and the local scenario is
`DraftOf(read)`, the meaning of the document without the policy's epoch. Each directive
has a lemma; they rest on what one more line does to every part of the meaning
(`LeadsNew`, `SectionNew`, `DeclaredSame`, `FieldsSame`, `EvidenceNew`, `EvidenceObs`;
`Untouched` for the parts the directive is not about), and these on `TopDownAdd`: a line
below a set of lines comes last and moves none of the others. An observation joins
the last snapshot because no other one is still open (`ObservedObs`).

**LinkServerProofs.** `LinkServerTypeCorrect`, `ThreadsAreOwned` (`WorkersOwned`),
`ShutdownIsQuiet` (`QuietAfterShutdown`), for every finite set of connections. The
invariant adds `HandOK` (the connection the accept loop has in hand is nobody
else's), `PrunedOK` (what `prune_workers` took out has finished, and it is empty
outside of it) and `ShutOK` (how far `shutdown` is, and that the registry stays closed
behind it); the connection count needs `Counted`, a cardinality.

**FrameStreamProofs.** `StreamTypeCorrect`, `FramesInStep` (`InStep`),
`StreamImplementsChannel`, for every header size, payload limit and number of
frames. `InStep` is stated with sets of units, not with a sum of lengths. The
invariant describes the bytes sent (`StreamShape`: frame after frame, without a
gap), where the sender is (`SendShape`), what the reader has in its buffers
(`BufferShape`), the frames delivered (`DeliveredShape`), and for a reader that has not
lost its place that its buffers start at a boundary (`IntactShape`). The refinement
maps every chunk, poll and check to a stutter, except the last chunk of a frame,
the return of a frame, a failed read and a close.

Only model-checked: liveness (`ShutdownReturns`, `LoopStops`, `Answered`,
`ReadReturns`), which the prover does not do. Every invariant and every action property
of the passing runs has a theorem.

## 5. Not modelled

* The byte layout of single fields and of checksums; a checksum is taken to tell
  every two contents apart. Corrupted files beyond a torn replace.
* The limits of single numbers in `validate_policy` and `validate_evidence`, other
  than those a property is about (carry, streak), and declared digests.
* Statistics, reason codes, notes and counts in a decision, the explanation, and
  the tools: text and argument parsing around what is modelled.
* `open_in_memory` (the same operations without a store).
* Two governors on one directory (nothing locks it; the store is documented as
  single-writer), a second concurrent `shutdown()` of a governor (it returns while
  the first still waits), and the epoch that workers read without the lock, where
  either value is one the interleavings already contain.
* The table of 1024 publishers at its limit.
* That a store whose very first commit was torn can be opened again: it fails
  safe, nothing committed is lost, and no document promises more.

`PROJECT.json` lists the components with reasons, and the hazards no property
covers.

## 6. Plan

Done: the store and its refinement; the governor on top of it, and its refinement of
a ledger of windows; carry, allocation, planning under changing policies and
reopenings; the link's threads, frames and sessions; the scenario parser; theorems
for all of them.

Next, in this order:

1. EvidenceLink with LinkServer's stop flags: a shutdown in the middle of a
   session.
2. Unsynced directory updates below a later open, composed with Governor, so that
   what is acknowledged on top of them is followed.
