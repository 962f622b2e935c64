# A verification project for intellidue-core

`intellidue-core` promotes release directories into a workspace: it keeps
immutable releases, a *Current* and a *Last-success* pointer, an archive index
and a journal of transactions, all as files, and it must keep them consistent
when a promotion fails, is interrupted or is killed.  Around that engine there
are manifests, contract documents, ZIP packages and an adapter for private
projects.  This directory holds TLA+ modules of those parts, TLC
configurations that check them on small instances, and proofs checked by TLAPS.

Paths below are relative to the package, `src/src/intellidue_core/`.

## 1. Inventory

| Component | State it keeps | Operations | Interacts with |
|---|---|---|---|
| Promotion engine (`promotion_*.py`, `workspace.py`) | `.promotion.lock`, `pointers/{current,last_success,archive}.json`, `transactions/active.json`, `transactions/history/*.json`, `releases/*`, `manifests/*` and their `.staging-<tx>` | `promote_release`, `rollback_release`, `recover_workspace` | manifest, contract rules; called by the CLI and the private runtime |
| Workspace validation (`workspace_validation.py`) | none; reads the engine's files without the lock | `validate_workspace` | reads while the engine writes |
| Private runtime (`private_runtime.py`) | `<runtime>/.promotion.lock`, `private_runtime.json` (the binding) and a core workspace under `core/` | `promote_private_release`, `rollback_private_release`, `recover_private_runtime`, `validate_private_runtime`, `inspect_private_runtime`, project loading | takes its own lock around the engine's |
| Contract rules (`contracts.py`, `validators.py`) | none | `validate_object`, `validate_contract_objects` | used before every pointer and archive write and by all validators |
| Manifest (`manifest.py`) | none | `build_manifest`, `verify_manifest` | used by promotion, rollback, validation and packages |
| Packages (`package_build.py`, `package_validation.py`, `package_format.py`) | a ZIP and its build directory | `build_release_package`, `extract_release_package`, `inspect_package` with three profiles | manifests, archive inspection |
| Archive inspection (`archive_validation.py`) | counters of one walk | `inspect_archive`, nested archives | package validation |
| Professional delivery (`professional_delivery.py`) | none | `validate_catalog`, `validate_master_delivery`, coverage and recovery receipts, the files of a bundle | nothing else of the package |
| Private replay (`scripts/run_private_replay_acceptance.py`) | the place in its sequence | promotes, rolls back, crashes and recovers in a new runtime, and reports PASS or FAIL | the private runtime and the engine |
| CLI, schemas, other scripts | none | argument parsing, data, checks of the repository | everything |

What is hard here is failure: every operation is a chain of filesystem calls,
any of which may raise, be interrupted or be the last before a crash, and the
code that cleans up is itself such a chain.  What is concurrent is whole
processes: two commands on one workspace, serialised by a lock file that a dead
process leaves behind and that an operator may remove, and readers that take no
lock.  Nothing sends messages and nothing waits: a busy lock is an error.
`PROJECT.json` lists the hazards at their lines.

What makes each component correct:

* engine - one writer at a time; what is accepted is consistent and immutable
  whatever fails; every call is atomic and its record says what happened; a
  failure leaves nothing behind; recovery gets there in the end;
* workspace validation - reports nothing about a healthy workspace, and
  something about one whose files are missing, malformed or in disagreement;
* private runtime - one project per runtime, under the same failures; its
  recovery leaves a runtime that can be used;
* contract rules - the three control documents agree, and a product class that
  claims a final result has no open gates;
* manifest - no difference between a tree and its manifest goes unreported, and
  an unchanged tree is accepted;
* packages and archives - what a build leaves is sound or gone, and nothing is
  extracted that was not validated (section 7 has where that fails); no member
  escapes the limits, at any nesting depth, and a
  package passes as a file exactly when what it extracts to passes;
* project loading - exactly the projects of the adapter's contract load, and what
  loads becomes a release that the runtime accepts;
* professional delivery - every product is where its role and lifecycle belong,
  and no incomplete bundle passes;
* private replay - PASS is written only for what was done, and nothing but a
  failure or another user of the runtime prevents it.

The validators have no state and no concurrency.  What is hard in them is that
they are many rules in a row with early returns, skipped items and dictionaries:
whether together they refuse what their documents describe, and only that, is
beyond examples.

## 2. Plan

In this order; the first four items are the core.

1. `PromotionEngine` - the engine, one action per filesystem operation. **Done.**
2. `AcceptedReleases` - what the engine promises, and `PromotionRefinement` -
   the engine implements it. **Done.**
3. `PromotionEngineProofs` - type correctness and mutual exclusion;
   `PromotionInvariant` and `PromotionConsistencyProofs` - the inductive invariant
   behind `AcceptedIsConsistent` and what follows from it: every step of the engine
   is a step of `AcceptedReleases` or a stutter. **Done.**
4. `WorkspaceValidation` - the lock-free reader, file by file, composed with
   the engine. **Done.**
5. `PrivateRuntime` - the two locks, the binding and the nested call. **Done.**
6. `ManifestRules` - the manifest and both path orders. **Done.**
7. `PackageBuild` - the files of build and extract. **Done.**
8. `ContractRules`, `PrivateProject`, `DeliveryRules` and `ArchiveInspection` -
   each validator's rules beside a definition of what they promise - and
   `DocumentEditing`, which edits documents and has them judged. **Done.**
9. `DocumentEditingProofs` and `ArchiveInspectionProofs` - that all five validators
   are exact, for every value of the constants. **Done.**
10. `PrivateReplay` - the acceptance drill, a long sequence of calls through both
    layers beside other operators. **Done.**
11. `PackageBuildProofs`, `PrivateRuntimeProofs`, `WorkspaceValidationProofs`,
    `PrivateReplayProofs` - what the runs check of these modules, for any number of
    processes. **Done.**

Parameters are CONSTANTS with named assumptions, invariants are conjunctions of
named parts, and no module that is proved about declares a RECURSIVE operator.

Which module stands on which:

| Module | Uses | Component |
|---|---|---|
| `PromotionEngine` | | engine |
| `AcceptedReleases` | | what the engine promises |
| `PromotionRefinement` | `PromotionEngine`, instance of `AcceptedReleases` | engine |
| `PromotionEngineProofs` | `PromotionEngine` | engine |
| `PromotionInvariant` | `PromotionEngine` | what the engine's files hold at each point of a call |
| `PromotionConsistencyProofs` | `PromotionInvariant`, `PromotionEngineProofs`, `PromotionRefinement` | engine |
| `WorkspaceValidation` | `PromotionEngine` | workspace validation beside the engine |
| `PrivateRuntime` | `PromotionEngine` | private runtime around the engine |
| `WorkspaceValidationProofs` | `WorkspaceValidation`, `PromotionConsistencyProofs` | workspace validation |
| `PrivateRuntimeProofs` | `PrivateRuntime`, `PromotionConsistencyProofs` | private runtime |
| `PrivateReplay` | `PrivateRuntime` | the acceptance drill in a runtime that others use |
| `PrivateReplayProofs` | `PrivateReplay`, `PrivateRuntimeProofs` | the acceptance drill |
| `Reports`, `ContractRules` | | contract rules |
| `PrivateProject` | `ContractRules` | loading of private projects, their candidates and releases |
| `DeliveryRules` | `Reports` | professional delivery |
| `ArchiveInspection` | `Reports` | archive inspection and `inspect_package` |
| `ManifestRules` | `Reports` | manifest |
| `DocumentEditing` | the five above | the validators over edited documents |
| `DocumentEditingProofs` | `DocumentEditing` | contract rules, delivery, private projects and their releases, manifests |
| `ArchiveInspectionProofs` | `DocumentEditingProofs` | archive inspection and `inspect_package` |
| `PackageBuild` | | packages |
| `PackageBuildProofs` | `PackageBuild` | packages |

`MC*` modules hold the symmetry and the values of an instance for TLC.

## 3. The engine: `PromotionEngine`

**State.** `lock`, `current`, `lastSuccess`, `archive`, `active` and `history`
are the files of those names; `releases`, `manifests`, `stagedReleases` and
`stagedManifests` are the directories and manifests, installed and staged.
`pc[p]` is the next filesystem operation of process `p`, `job[p]` its arguments
and the local variables the code carries along (the candidate's digest,
`previous_current`, the journal object), with `mode` telling the `try` body
from the handler and from recovery.

**Steps.** A step is one operation that changes the workspace (`mkdir`, a
rename, an atomic write, an unlink), or a block of reads under the lock.
`copytree` and `rmtree` take two steps, with a partial directory in between.
The steps follow the code line by line:

| Code | Actions |
|---|---|
| `WorkspaceLock` | `Acquire`, `Contended` (PROMOTION_LOCKED), `Unlock`; `ForceUnlock` is `--force-lock` |
| checks of `promote_release`, `rollback_release` | `Check`, then `Begin` writes the PREPARED journal with the snapshots |
| the `try` of `promote_release` | `CopyTree`, `Reconcile`, `StageManifest`, `Mark`, `InstallRelease`, `InstallManifest`, `Mark`, `Archive`, `SetCurrent`, `SetLastSuccess`, `Finish*` |
| the `try` of `rollback_release` | `Archive`, `SetCurrent`, `SetLastSuccess`, `Finish*` |
| `finish_journal` | `FinishActive`, `FinishHistory`, `FinishClear` |
| `except Exception` | `Raise`, then `RestoreCurrent`, `RestoreLastSuccess`, `RestoreArchive`, `Remove*`, `Finish*` |
| `recover_workspace` | `CheckRecover`, then `RestoreArchive`, `RestoreCurrent`, `RestoreLastSuccess`, `Remove*`, `Finish*` |

The two orders of restoring differ in the code as well: the handler iterates
over the dictionary it built, recovery over the one it read from JSON written
with sorted keys.

**Failures.** `RaiseException` is an error of the operating system in any
operation: in the `try` it enters the handler; before the journal exists, in the
handler and in recovery it only leaves the `with` statement; while the pid is
written it leaves the lock file.  `RaiseInTail` is the same error in the last
two operations of `finish_journal`, kept apart because it finds a fault (section
7).  `Interrupt` is `SimulatedCrash` or `KeyboardInterrupt`: no handler, but the
lock is released.  `Kill` is SIGKILL or a power loss: the lock file stays.
`MaxFaults` bounds how many happen in one behaviour.

**Abstractions.** A file tree is a member of `Content`, and so are the manifest
built from it and its hash (the hash is taken to be injective); the candidate
may hold any content each time it is read.  A pointer is release, digest and
transaction; timestamps are left out, because an archive sorted after every
change is a set.  A missing archive file is the empty archive, as
`load_archive` and the validator read it.  The journal's paths are functions of
its transaction and target, as in the code.  Temporary files of
`atomic_write_bytes` have unique names and nobody reads them: left out.  The
disk keeps every completed operation in order.

**Policies.** `ExclusiveForce` says whether operators use `--force-lock` one at
a time (always on the lock of a dead holder), `TxReuse` whether a caller may pass
a transaction id twice, `Reasons` whether a rollback reason may exceed the
archive schema.  They are facts about the environment: the code checks none of
them, and section 7 shows what follows.

### The promise: `AcceptedReleases`, and `PromotionRefinement`

`AcceptedReleases` has no files: a store, the two pointers, the set of superseded
releases and the outcome of each transaction, and three atomic actions.
`PromotionRefinement` maps the engine to it.  The commit point is the unlink of
`active.json`: while a journal is open, what is accepted is its `previous`, the
store is without the release being installed, and its history record does not
count.

## 4. The other modules

**`WorkspaceValidation`.** The reader takes no lock.  It reads the journal,
`current.json`, `last_success.json` and `archive.json` in one step each
(`ReadActive` to `ReadArchive`) and keeps what it read in `view`; then, for each
target, it looks for the directory, looks for the manifest, reads it and walks
the tree (`LookFor`, `LookForManifest`, `ReadManifest`, `WalkTree`), with the
engine's steps in between.  `quiet` and `removed` are history variables: whether
anything was written, or a release removed, since the reader began.

A behaviour starts with the engine's empty workspace, or (`found`) with a workspace
that somebody left, and no engine.  In the latter any pointer file, archive entry,
release or manifest may be missing or disagree with any other, and beside what a file
says it has a form (`form`, `manifestForm`).  A pointer file may be no JSON or no object
(POINTER_JSON_INVALID), refused by its schema, the pointer of the other file
(POINTER_TYPE_MISMATCH), an archive out of order (ARCHIVE_ORDER); a manifest
may be no JSON (POINTER_MANIFEST_INVALID), refused by its schema or that of another
root (POINTER_MANIFEST_ROOT_MISMATCH).  A required key that is followed may be
missing, or a manifest be JSON but no object: then there is an exception and no report
(`Breaks`, `BreakOff`), as there is when a manifest vanishes between the look and the
read.

Left out of found workspaces: a pointer's paths are those of its release, so that
it never points elsewhere; a missing key that is not followed, like `schema_version` or
the digest, counts as refused by the schema; a file that is not UTF-8 is not told apart;
an archive without entries is the archive that is missing.  `MANIFEST_MISMATCH` stands
for all that `verify_manifest` says of a tree (the rules are in `ManifestRules`), and
the walk of a tree is one step.

**`PrivateRuntime`.** `run[p]` is the adapter's call around the engine's
`job[p]`: where it is, its project, the candidate it built, whether it made the
binding, and how the engine call ended.  The engine's own steps run while
`run[p].at = "engine"`, and its failures end the call as the code's handler
does: only an `Exception` leads to `Unbind`.  A candidate is a token whose
receipt and control documents name a project each; `Edited` says whether the
project directory may change after it was loaded.  `validate_private_runtime` is
one step, which may find a problem that a concurrent call only passes through.
`recover_private_runtime` of a first promotion that crashed ends with no accepted
release, which that validation then reports: the recovery is done all the same.

**`PrivateReplay`.** One process, `replay`, runs the script: `Plan` is the order of its
gates, `stage` how far it is, `outcome` how its last call ended.  Its calls are
those of `PrivateRuntime`, with the arguments of the script (`AsPlanned`) and fixed
transaction ids, except the crash, which is the engine's promotion under no adapter
(`CallCrash`, `ControlledCrash`: a `SimulatedCrash` after Current, which the
`with` statement lets pass).  `Check*` and `InspectRuntime` are the looks in between;
like `validate_private_runtime` each is one step, which may fail when somebody
writes at the time.  `TakeResult` goes on only for the ending that the script
expects, any other is FAIL.  The drill starts after its two deterministic builds, and
its projects are accepted and not edited (`Undamaged`).  The other processes make any
calls of the adapter.

**`DocumentEditing`.** The modules of the validators are pure: a set of documents,
the rules of the code as operators that return the set of codes reported, and
one definition of what the repository's documents promise (`Coherent`,
`AcceptableProject`, `WholeDelivery`, `AcceptableArchive`), which is written
without looking at the rules: as a statement about the documents, not as a list
of faults.  `DocumentEditing` has one state machine for the five: `subject` is
one of the sound originals, `Edit*` gives one field of it another value, and
`Validate*` sets `verdict` to the codes that the validator reports.  An edit that
leads out of the documents of its kind is none.

* `ContractRules` - `validate_object` and `validate_contract_objects` over state,
  lock and validation, with their two early returns.
* `PrivateProject` - `_load_private_project`.  The disk is a function from paths of
  one or two names to what is there, so that product roots can be nested, hidden
  behind a link, empty or collide by case; a root is class, path and `required`, which
  the adapter's schema lets be false for every class.
  `FirstRoots`, `PlainRoots` and `Loaded` are the roots that survive each `continue`
  of the loop.  `Candidate` is what `_build_candidate` copies while nobody edits the
  project (`PrivateRuntime` has the other case), and `ReleaseIssues` is
  `_validate_release` of the release with that candidate's receipt: that the receipt
  can be read, fits its schema and has the name of the directory is taken for granted.
  A path's syntax (`_relative_path`) is left out: paths that fit
  the adapter's schema are relative and have no dots.
* `DeliveryRules` - the catalog is a sequence of products, in which ids may repeat;
  `Kept` is the dictionary of `validate_master_delivery`.  A file is the set of what
  is wrong with it.
* `ArchiveInspection` - ZIP data is a function from archives to the sequence of
  their members, so an archive can be in several others, or in itself.  `Inspection`
  is the recursion of `_inspect_zip_archive`, as a function of the depth left.  A
  name is what the rules tell apart: its root, its case-folded form, whether it is
  unsafe, a directory, a ZIP.  A package in the form of a directory is what its outer
  archive would extract to, so that the two forms can be compared.
* `ManifestRules` - a tree is a function from paths to files, a path a sequence of
  parts and a part a sequence of characters, because the module has both orders of
  the code: `PathBefore` of `sorted(Path...)` in `build_manifest` and `StringBefore`
  of `sorted(str...)` in `validate_object`; `Sorted` is any list in the first order,
  and the proofs show that there is one.  Paths that the schema's pattern refuses are
  not among those of the model.  The original is any tree without a
  manifest, `BuildManifest` builds one, and somebody else edits the tree and the
  manifest before `VerifyManifest`.  Elsewhere (`PromotionEngine`, `PrivateRuntime`)
  a candidate that the rules refuse is the branch of `Check` or `Reconcile` that
  raises.

**`PackageBuild`.** The output file, the temporary of each process, the
directories under the destination, and processes that build and extract.  A
package is its id and what `inspect_package` would say of it (the
rules behind that are `ArchiveInspection`); only
the release profile looks at the envelope, and `safe_extract_zip` reads the file
a second time and does not.  `rmtree` and the writing of the ZIP take two steps,
with `Part` in between.

## 5. Runs

| Run | Expect | What it asks |
|---|---|---|
| `engine_faults` | pass | twelve properties under any two exceptions, interrupts and kills, with reasons of any length; `CallsAreAtomic` is the refinement of `AcceptedReleases`, and `EngineInv` the inductive invariant behind the theorems of section 6 |
| `engine_liveness` | pass | `UsableAgain` under fairness, after two failures of any kind |
| `validation_race` | pass | `TargetsAreWhole`, `QuietReportIsRight`: the reader beside the engine with one failure, and, undisturbed, over every small workspace that somebody left; `TailAloneIsHarmless` when the failure is an error in the tail of `finish_journal` |
| `private_faults` | pass | `OneProject`, `BindingHeld`, `BindingLasts`, `Recoverable`: two processes, two projects, two failures |
| `private_liveness` | pass | `CoreUsableAgain` under fairness, after interrupts and kills; without exceptions `Recoverable` says that no open transaction is ever without a binding |
| `private_replay` | pass | `PassIsEvidence` with another operator's two calls and one failure of any kind, and `UndisturbedPasses` under fairness |
| `document_edits` | pass | the contract, loading, delivery and archive rules accept exactly what is promised (`AcceptsExactlyCoherent`, `LoadsExactly`, `DeliveryIsExact`, `ArchiveIsExact`); accepted projects become valid releases, but for mandatory roots that are optional and empty (`ReleaseIsValid`); accepted packages are accepted as directories, and nested archives are inspected in both forms, but for those a glob passes over (`ExtractedIsAccepted`, `NestedAreInspected`); no difference between a tree and its manifest goes unreported (`VerifiesExactly`), a manifest that is built lists the whole tree (`BuiltIsComplete`), and only its order can be refused (`RefusedForOrderAlone`) |
| `package_files` | pass | `PublishedIsSound`: two processes build and extract, with and without overwrite, and one failure |
| `tail_then_crash`, `long_reason`, `manifest_order`, `package_swapped` | violation | the findings of section 7 |

**Bounds of the engine.** Two processes: one can be dead, forced or late while
the other works, and with no blocking a third adds only another loser of the
lock.  Two releases and three transactions: enough for a release to be
superseded, rolled back to, and for a failure in the middle of either; all
transactions may fail too.  Two contents: a candidate that changes.  Two faults:
a failure and a failure of its clean-up, or two crashes in a row.  Identifiers
are only compared, so the safety runs use symmetry; the liveness runs do not.

**Other bounds.** `validation_race` has one writing process (writers exclude
each other, as `engine_faults` shows) and one fault, so that a reader can see a
failed promotion cleaned up.  Its found workspaces have up to two archive entries
and damaged files (`MaxEntries`), of which one may be damaged (`MaxDamage`): the rules
look at one file, at a file and what it points to, or at two files.
`private_faults` has two projects and three
contents: a release of each project, and one that mixes them, which can only be
built when `Edited`.  Interrupts, which release the
locks that a kill leaves, are in `private_liveness`.  `private_replay` has two
processes, the drill's five transactions and one more, and its four releases, all of
which the other operator may promote or roll back to as well; PASS is reached with
both calls made and the failure spent.  It alone does not look for deadlocks: when the
drill has ended and the others have made their calls, nothing is left to do.
`package_files` has two processes, one output path and two package ids: a file can be
replaced under a builder or an extractor by a package of the same or another id, and a
failure of one of them can leave the other to clean up or not.

**Bounds of `document_edits`.** Three originals of the contract (a preliminary
result, ready or not, and a final one), one private project with two roots or
three, one delivery with the fewest products that are complete, and packages of
both profiles around chains of three archives.  `MaxEdits` is three for the
contract, as every rule compares at most three documents, and two for the others:
one slip, or one that hides another.  `Revised` names the products of the catalog
that are edited, one of each kind (`INTEGRATED_DD`, base, specialist, workpaper,
acceptance).  Two projects, two actions, one restricted output and `MaxGates = 1`,
as the rules compare for equality and with zero; `MaxCount = 1` for the counts of a
coverage receipt.  `Limits` is two entries, three bytes in all, two per member, ratio
two, one level of nesting, and `MaxSize = 3`, so that each limit can be met and
exceeded.  Paths of manifests have the parts `a` and `a.` and two levels, the smallest in
which the two orders of paths differ, with two files, three file contents and a
link.  The names of members include a ZIP with its suffix in lower case and one in
upper case, and only the first is in `LowerZipName`, the names that `rglob("*.zip")`
finds.

**Fairness.** `Step(p)` is weakly fair: a running process goes on; so are the steps of
the drill (`Replayer`), which never waits.  Starting
recovery is strongly fair, with `--force-lock` when the lock is stale: an
operator who is refused runs recover, again and again.  `FairRuntimeSpec` asks
the same of the adapter's steps, the engine's steps inside it and
`recover-private-runtime --force-lock`.  Faults are bounded, and no fairness is
assumed of them.  The liveness runs have one process, because the lock is not
queued: with two, a recover may find the other process inside each time it
tries, and nothing in the code prevents that.

## 6. Theorems

`PromotionEngineProofs` proves, for every value of the constants:

* `TypeCorrect` - `Spec => []TypeOK`.  The inductive invariant adds to the types
  what the locals hold at each label (`LocalOK`): from `Begin` on a call has a
  journal, from `Check` on a digest, at the tail of `finish_journal` a final
  status.  Each action is a lemma that moves one call (`CallMoves`) and changes
  some files.
* `MutualExclusion` - with `ExclusiveForce`, `Spec => []SingleWriter`.  The
  invariant adds `OneForces`: whoever is about to unlink the lock finds it stale,
  and is alone; without it `ForceUnlock` could remove a live lock (section 7).

`PromotionConsistencyProofs` proves, for any number of processes, releases,
transactions and failures, what `engine_faults` checks of two:

* `Consistency`, `Cleanliness`, `Records`, `FinalStatusIsTrue`, `SuccessIsTrue` - the
  invariants `AcceptedIsConsistent`, `NothingLeftBehind`, `PointersHaveRecords`,
  `DecidedJournalIsDone` and `SuccessIsCommitted`;
* `Immutability`, `RecordsRemain`, `ExpectationHolds` - the action properties
  `ReleasesAreImmutable`, `HistoryRemains` and `NoLostUpdate`;
* `FilesAreAccountedFor` - `Spec => []EngineInv`, the invariant behind all of them.

The first eight are not inductive: that the handler leaves consistent files depends on the
snapshots it restores, on what it has restored so far, and on nobody else having
written since.  `EngineInv` says so, in three parts.  `FilesInv` is about the disk
alone, because after a crash only the disk is left: if a journal is open, it names
every file that is not accepted (`OpenOK`), and a final status in it is the truth.
`Fresh` is that a transaction id is in no record before its call writes one.
`Progress(label, job)` says what a call relies on at each label: which trees are where
(`Placed`), which pointers have been written (`Pointed`), restored (`RestoredTo`) or
removed (`RemovedTo`), and which status is decided (`Decided`).  Only the lock holder
has a `Progress` that mentions files, and by `LockInv` there is at most one, so that a
step of another process, which has no lock, leaves it alone.

The hypotheses (`Hypotheses`) are three, and each is needed: `ExclusiveForce`
and `~TxReuse`, because without them the properties named in section 7 fail, and no
`tail_exception` in `FaultKinds`, because with it `tail_then_crash` refutes
`AcceptedIsConsistent`.  Every other failure may happen at any operation, any number
of times, and rollback reasons may be long.

Under the same hypotheses the module proves `Atomicity` -
`Spec => CallsAreAtomic`: the initial states map to the abstract initial state, and
each step to an abstract step or to a stutter.  `Begin` is a stutter because what its
journal would restore is what is there, and every operation up to the unlink because it
touches only what the journal makes invisible.  `FinishClear`, the unlink of
`active.json`, is `Promote`, `Rollback` or `Abandon`, by the status in the journal; that
the files then hold what the status says is `DecidedJournalIsDone`.

`PackageBuildProofs` proves for any number of processes and failures:

* `TypeCorrect` and `PublishedSound` - `TypeOK` and `PublishedIsSound`.  Its invariant
  says that while an unsound package is at the output path, whoever put it there or
  somebody who came later is still to inspect it.

`PrivateRuntimeProofs` proves of the adapter around the engine:

* `RuntimeTypeCorrect` and `BindingStays` - `RuntimeTypeOK` and `BindingHeld`, with no
  hypothesis.  `RunInv`: at most one adapter call has the runtime's lock, and what
  a promotion has bound stays bound while it has it;
* `ProjectsStayApart` - `OneProject`, under `Hypotheses` and `~Edited` (section 7 has the
  counterexample with `Edited`), and `ProjectForLife` - `BindingLasts`, under
  `Hypotheses`.  `ContentInv`: what the workspace holds, and what a call is about to
  install, was built for the project of the binding, or no binding can change
  meanwhile.  Its engine half is the engine's invariant, because each step of the runtime
  is a step of the engine or leaves the engine's files and calls at rest (`StepKinds`);
* `RecoveryCanStart` - `Recoverable`, under `Hypotheses`.  With exceptions it follows
  from `ContentInv`: what is accepted, and what Current names, was built for the project
  of the binding, and nothing is built for none (`UnboundIsEmpty`).  Without
  exceptions it needs `RecoverInv`: no open journal is without a binding, because while a
  promotion may still take its binding back the only open journal is its own, which the
  engine closes unless it is interrupted, and an interrupted call takes nothing back.

`PrivateReplayProofs` proves of the drill, for any number of other operators, calls and
failures, under `Hypotheses` and `~Edited`:

* `PassIsProof` - `ReplaySpec => []PassIsEvidence`.

What the result PASS says is true of a moment long after the calls it is about, so that
the invariant (`ReplayInv`) has to say of each stage what has been achieved by then and
is not lost again (`Evidence`): from the first promotion on, the runtime is bound to
the drill's project and something is accepted, after which no step of anybody takes the
binding away (`AcceptedStays`, `BindingKept`); the record of each call of the drill that
has returned says COMMITTED, and records stay (`RecordStays`).  The crash is the hard
part.  After it, the open journal is the drill's, and any operator may recover it: it
then goes into the history as RECOVERED, whoever does so and however often that fails
(`CrashStays`), because only the transaction that opened a journal could commit it,
that one is over, and all transactions of others have identifiers of their own
(`OthersApart`).

`OnStage` relates the drill's stage to the adapter call it is in, and that call to the
engine call below it (`PlannedAt`, `CalledAt`), so that a call which reaches the unlink of
`active.json` without having taken anything back has committed what the plan has there
(`ClearingEarns`), and `EndsAs` that a call observed to have returned has done so
(`StepSuccess`).  The crash is the one engine call that no adapter promotion holds the
runtime's lock for: that its release is still the project's follows from something
being accepted already, which fixes the binding (`LaunchedOrBound`).  The rest of the
invariant is that of `PrivateRuntimeProofs`, without `Launched` for the drill.
The run `private_replay` also lets one error fall into the tail of `finish_journal`, which
`Hypotheses` excludes; with that the theorem is not proved.

`WorkspaceValidationProofs` proves of the reader:

* `ReaderTypeCorrect` and `ReportsAreRight` - `ReaderTypeOK` and
  `QuietReportIsRight`, with no hypothesis: also over the workspaces that no engine
  leaves (`found`), with any number of entries and of damaged files, of the forms that
  section 4 lists.  `QuietInv`: as long as nobody writes, the copies are the files,
  and the report is empty exactly when everything judged so far is in order;
* `NoTargetMissed` - `TargetsAreWhole`, under `Hypotheses`, beside any number of writers.
  `BesideInv`: what a pointer names is installed whole or is being removed, and no
  promotion installs over a release that a reader may have seen;
* `TailErrorsAloneAreHarmless` - `TailAloneIsHarmless`, for any number of writers and of
  errors in the tail of `finish_journal`.  The hypotheses (`TailHypotheses`) admit those
  errors, which `Hypotheses` excludes, and demand in return that no failure of another
  kind follows one: either there are no other failures, or there is only one failure.
  That is needed, because `tail_then_crash` is what happens otherwise.

The last one needs an invariant of its own, since the final status in `active.json` is
not the truth while the handler takes back what it calls COMMITTED.  `TailInv` says that
either the engine's invariant holds, or some call is on such a retreat (`Retreat`).
That call owns the open journal; the journal, its status aside, is as the engine's
invariant wants it (`Behind`), so that what it would restore is consistent; and the
files are as far restored and cleaned up as the handler has come (`Regained`).  Nobody
else is inside the lock (lemma `Alone`), and the handler itself is not interrupted
(`Spared`): an error in its own tail only begins the retreat anew.  When its final record
is filed, what the journal says is true again, and with it the engine's invariant.

`DocumentEditingProofs` proves, for every set of projects, actions, outputs, products,
paths and names, every number of gates, counts and edits, and whatever the originals:

* `ContractIsExact` - `Spec => []AcceptsExactlyCoherent`;
* `DeliveryRulesHold` - `Spec => []DeliveryIsExact`, for catalogs of every length.
  The interesting half is that no product is lost when the dictionary keeps one of
  several with the same id: then `CatalogIssues` is not empty;
* `LoadingIsExact` - `Spec => []LoadsExactly`, for every disk and every list of roots;
* `ReleasesAreValid` - `Spec => []ReleaseIsValid`, whatever is declared optional: the
  one thing that `_validate_release` can object to is a mandatory root without files
  (`EmptyMandatory`), and it does exactly then;
* `ManifestRulesHold` - `Spec => []VerifiesExactly`, for trees of any depth and size and
  any names; `BuildingIsComplete` - `Spec => []BuiltIsComplete`, that what
  `build_manifest` returns lists each file of the tree once, as it is; and
  `OnlyOrderIsRefused` - `Spec => []RefusedForOrderAlone`.

The invariant behind all of them, and behind those of the next module (`Inv`), is that
the subject is a document of its kind and that a verdict is the one for the subject as
it is, since an edit withdraws it.  Each group of rules has a lemma that says when it
reports nothing (`ContractRulesAreExact`, `DeliveryRulesAreExact`, and for the loader
one for links, trees, roots and control documents each), and the lemmas together give
the definition of what is promised.

Manifests need more.  `ManifestInv` adds that a manifest called built is that of the
tree as it is.  `Verification` refuses equal paths and strings out of order; that leaves
entries in strict order, as `Describes` wants, only if different paths have different
strings (`TextIsPath`).  No part of a path has a slash in
it, so the last slash of the string ends the path of the directory (`SplitOnce`), and the
rest is induction over the number of parts.  `Manifest` is complete only if a finite
set of paths has a list in order: `LexIsStrict` (the lexicographic order of a strict
order is strict) applied twice, to characters and to parts, and `SortExists` (what is
strictly ordered has a list in order, by counting what comes before each element).

`ArchiveInspectionProofs` proves of packages, for archives of any number of members
and every depth of nesting that `Limits` may allow:

* `ArchiveRulesHold` - `Spec => []ArchiveIsExact`;
* `ExtractionIsHarmless` - `Spec => []ExtractedIsAccepted`;
* `NestedArchivesAreInspected` - `Spec => []NestedAreInspected`, with the exception of
  what a release directory's glob passes over (`PassedOver`, section 7).

The walk is a recursion over the depth, what is nested in an archive another one, and the
expansion of an archive a sum over its members, so each needs an induction.  The library's
induction theorems take an operator as a parameter, which the provers do not instantiate;
`Induction` is therefore stated about the *set* of numbers with the property, and follows
from `NatLessThanWellFounded` and `WFMin`.  `Iteration` shows with it that a recursion over
the numbers has a solution, without which nothing is known of a recursive function.  On top
of them: `SumTakes` (a sum is the same whichever element is taken first) and `SumGrows`;
`LevelIsClean` (the rules for one archive report nothing exactly when it is clean);
`FineNests` (what is acceptable with one level more is what is clean around acceptable
archives); and by induction over the depth left, `WalkIsExact`.  `AcceptableNests`, that what
is nested in an acceptable archive is acceptable under the limits from the start, gives the
other two theorems.

Assumptions: the sentinels differ from the identifiers and documents
(`SentinelAssumption`, `DocumentAssumption`), the constants have their types
(`FaultAssumption`, `PolicyAssumption`, `SizeAssumption`), no part of a path has a slash
in it (`PartAssumption`), and editing starts from trees without a manifest
(`OriginalAssumption`).  TLC evaluates all of them on every run.

Only model-checked is liveness (`UsableAgain`, `CoreUsableAgain`, `UndisturbedPasses`),
which is out of the prover's reach.  Every invariant that a passing run checks, and
every action property, is stated by one of the theorems above.

## 7. What the runs found

Four runs contradict what the code or its documents say:

* `tail_then_crash` - `finish_journal(COMMITTED)` is inside the `try`.  If the
  history record or the unlink fails, the handler undoes a transaction whose
  journal says COMMITTED; killed while it does, it leaves a journal that recovery
  takes at its word.  The workspace ends with Current restored and Last-success
  not, and no open transaction.  An error in the tail alone is harmless
  (`validation_race`).
* `long_reason` - a rollback reason that makes the archive entry longer than 300
  characters commits, and every later promotion and rollback fails.
* `manifest_order` - with a file `a.txt` beside a directory `a`, the manifest just
  built is refused (MANIFEST_PATH_ORDER), so such a candidate can be neither
  promoted nor packaged.
* `package_swapped` - `extract-package` validates the file under the release profile and
  then opens the path again, inspecting it as an archive only.  A package that another
  process puts there in between is installed without its envelope having been
  validated, under the id of the old one, against docs/package-format.md:31.

Two more are in the code and stated exactly, as the one exception of a property that
holds:

* `ReleaseIsValid`: an adapter may declare its Reader or Control root as optional; if it
  has no files the project loads and is promoted, and its release is found invalid after
  the commit (PRIVATE_RUNTIME_PRODUCT_MISSING), by every later call too.
  docs/private-runtime-contract.md:18 says that those classes are mandatory and
  non-empty;
* `NestedAreInspected`: a release directory looks for nested archives with
  `rglob("*.zip")`, which minds the case, and does not look into an `X.ZIP`; the other
  two profiles do.

And two concern several processes, or several failures:

* `Recoverable`: the first promotion into a runtime fails, and so does the engine's
  clean-up.  The adapter removes the binding while the transaction is open, and
  `recover-private-runtime` refuses to start without one, although
  docs/private-runtime-contract.md:61 has it restore every transaction.  A new promotion
  makes a binding, is refused by the engine (RECOVERY_REQUIRED) and takes it back, so
  that only the core's own `recover` helps.  The property says that this happens to a
  runtime only while it is empty, and never after interrupts and kills alone;
* two builds without `--overwrite` can both find no output, and the second replaces the
  first one's package, against docs/package-format.md:27.  Each inspects what is there
  by then, and a builder whose own package was sound may withdraw the other's.  What
  remains is sound (`PublishedIsSound`).

The passing runs hold under assumptions about the environment that the code does
not check.  Each is one constant; changed as follows, TLC refutes the property
named.  These instances are not among the runs:

| Constant | Refuted | What happens |
|---|---|---|
| `ExclusiveForce = FALSE` | `SingleWriter` | two operators force the lock of one dead process, and the second removes the lock of the first |
| `TxReuse = TRUE` | `HistoryRemains` | a transaction id passed twice overwrites the first record |
| `Edited = TRUE` | `OneProject` | the control documents of a project are validated and then copied from the directory again; changed in between, a release of another project becomes Current |

In `private_replay` the drill also passes when another operator fills the runtime
between the look that it does not exist (line 89 of the script) and the promotion of
`v1`, which names no expected current release; the archive then holds a release that
is not the drill's.

Seen while translating, without a property, because no document promises
otherwise: a release directory is checked for neither case collisions nor the
limits on entries and sizes, which the generic directory profile and ZIP files
are; a delivery accepts ARCHIVED products in the Clean Reader pack, and a FULL
review claim with fewer items completed than there are; the rule about
`exclusion_reason` never decides (an active product outside its pack is refused
anyway), and PRIVATE_OUTPUT_CASE_COLLISION cannot occur, since a class has one root.

One more is visible in `PrivateRuntime` without a property: a killed private
promotion leaves two lock files, and `recover-private-runtime --force-lock` removes
the core's only; `CoreUsableAgain` is therefore about the core workspace.

## 8. Not modelled

Left out: the command line (argument parsing and printing), the
JSON schemas (data for the `jsonschema` library; the limits the engine runs into
appear in the modules), `release_gate.py` and `check_repo_hygiene.py` (they read the
repository and change nothing), and the two builds with which the replay compares
hashes.  Durability below
the level of a completed filesystem call: directories and copied files are not
fsynced, and the model's disk does not lose what was written.  A name that
is a file and a directory at once, and damaged data that zlib rather than the CRC
notices, raise errors that neither inspection nor extraction catches; a corrupt member
is one whose CRC is wrong.
