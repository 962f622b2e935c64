-------------------------- MODULE PromotionEngine --------------------------
(***************************************************************************)
(* The transactional filesystem engine: promote_release, rollback_release  *)
(* and recover_workspace over one workspace directory, run by any number   *)
(* of processes, with failures between any two filesystem operations.      *)
(*                                                                         *)
(* One step is one filesystem operation that changes the workspace, or a   *)
(* block of reads made under the lock.  What a file holds is abstracted to *)
(* what the code compares: a release directory and the manifest built from *)
(* it are both the Content token of its file tree (the manifest hash is    *)
(* taken to be injective), and a missing archive file is the empty archive *)
(* (load_archive and validate_workspace read it so).                       *)
(***************************************************************************)
EXTENDS Naturals

CONSTANTS
    Proc,           \* operating-system processes that run the commands
    Release,        \* release identifiers
    Tx,             \* transaction identifiers
    Content,        \* what a candidate directory may hold
    None,           \* no file, or an argument not given
    Free, Stale,    \* the lock file is missing; it was left by a dead process
    FaultKinds,     \* the failures of a run: see the actions under "Failures"
    MaxFaults,      \* BOUND: failures in one behaviour
    ExclusiveForce, \* --force-lock is used by one operator at a time
    TxReuse,        \* a caller may pass a transaction id it passed before
    Reasons         \* rollback reasons: "long" exceeds the archive schema's 300

ASSUME SentinelAssumption ==
    /\ None \notin Proc \cup Release \cup Tx \cup Content
    /\ {Free, Stale} \cap Proc = {}
    /\ Free # Stale
ASSUME FaultAssumption ==
    /\ FaultKinds \subseteq {"exception", "tail_exception", "interrupt", "kill"}
    /\ MaxFaults \in Nat
ASSUME PolicyAssumption ==
    /\ ExclusiveForce \in BOOLEAN
    /\ TxReuse \in BOOLEAN
    /\ Reasons \subseteq {"short", "long"}

VARIABLES
    lock,            \* .promotion.lock: Free, Stale or the process that made it
    current,         \* pointers/current.json
    lastSuccess,     \* pointers/last_success.json
    archive,         \* the entries of pointers/archive.json
    active,          \* transactions/active.json
    history,         \* transactions/history/<tx>.json: its status
    releases,        \* releases/<release>
    manifests,       \* manifests/<release>.manifest.json
    stagedReleases,  \* releases/.staging-<tx>
    stagedManifests, \* manifests/.staging-<tx>.json
    pc,              \* the next operation of each process
    job,             \* the arguments and local variables of its call
    faults           \* failures so far, to bound them

pointerFiles == <<current, lastSuccess, archive>>
trees == <<releases, manifests, stagedReleases, stagedManifests>>
journals == <<active, history>>
vars == <<lock, pointerFiles, journals, trees, pc, job, faults>>
-----------------------------------------------------------------------------
(* The documents in the workspace *)

FinalStatus == {"COMMITTED", "ROLLED_BACK", "RECOVERED"}
Status == {"PREPARED", "STAGED", "INSTALLED"} \cup FinalStatus
Reason == {"short", "long"}

Pointer == [release : Release, digest : Content, tx : Tx]
Entry == [release : Release, digest : Content, tx : Tx, reason : Reason]
Previous == [current : Pointer \cup {None}, lastSuccess : Pointer \cup {None},
             archive : SUBSET Entry]
Journal == [tx : Tx, op : {"PROMOTE", "ROLLBACK"}, status : Status,
            target : Release, prev : Previous]

Partial == "partial"   \* a directory that copytree or rmtree has not finished
Tree == Content \cup {None, Partial}

ASSUME DocumentAssumption ==
    /\ Partial \notin Content \cup {None}
    /\ None \notin Pointer \cup Journal \cup FinalStatus

(* A call: its arguments, previous_current and the candidate's digest as it *)
(* read them, its journal object, and which part of the code it is in.      *)
Mode == {"apply", "abort", "recover", "done"}
Job == [op : {"PROMOTE", "ROLLBACK", "RECOVER", "NONE"}, tx : Tx \cup {None},
        target : Release \cup {None}, expected : Release \cup {None},
        reason : Reason, digest : Content \cup {None},
        previous : Release \cup {None}, journal : Journal \cup {None},
        mode : Mode]
NoJob == [op |-> "NONE", tx |-> None, target |-> None, expected |-> None,
          reason |-> "short", digest |-> None, previous |-> None,
          journal |-> None, mode |-> "apply"]

(* Labels of the operations, grouped by where an exception sends them. *)
Staging == {"copy", "copying", "stage_manifest", "mark_staged",
            "install_release", "install_manifest", "mark_installed"}
Pointing == {"archive", "current", "last_success"}
Restoring == {"restore_current", "restore_last_success", "restore_archive"}
Removing == {"remove_staging", "remove_installed", "remove_staged_manifest",
             "remove_manifest"}
Finishing == {"finish_active", "finish_history", "finish_clear"}
Body == {"check", "begin"} \cup Staging \cup Pointing \cup Restoring
        \cup Removing \cup Finishing
Critical == Body \cup {"unlock"}
Label == {"idle", "force", "lock"} \cup Critical

Init ==
    /\ lock = Free
    /\ current = None /\ lastSuccess = None /\ archive = {}
    /\ active = None
    /\ history = [t \in Tx |-> None]
    /\ releases = [r \in Release |-> None]
    /\ manifests = [r \in Release |-> None]
    /\ stagedReleases = [t \in Tx |-> None]
    /\ stagedManifests = [t \in Tx |-> None]
    /\ pc = [p \in Proc |-> "idle"]
    /\ job = [p \in Proc |-> NoJob]
    /\ faults = 0
-----------------------------------------------------------------------------
(* Calls and the lock *)

Goto(p, label) == pc' = [pc EXCEPT ![p] = label]
Go(p, from, to) == pc[p] = from /\ Goto(p, to)
Quit(p) == Goto(p, "idle") /\ job' = [job EXCEPT ![p] = NoJob]

(* uuid4 makes a fresh identifier; a caller's own is not checked.          *)
MayUse(t) ==
    \/ TxReuse
    \/ /\ history[t] = None
       /\ active # None => active.tx # t
       /\ \A q \in Proc : job[q].tx # t

Start(p, call, label) ==
    /\ Go(p, "idle", label)
    /\ job' = [job EXCEPT ![p] = call]
    /\ UNCHANGED <<lock, pointerFiles, journals, trees, faults>>

StartPromote(p) ==
    \E r \in Release, e \in Release \cup {None}, t \in Tx :
        /\ MayUse(t)
        /\ Start(p, [NoJob EXCEPT !.op = "PROMOTE", !.tx = t, !.target = r,
                                  !.expected = e], "lock")

StartRollback(p) ==
    \E r \in Release, e \in Release \cup {None}, t \in Tx, why \in Reasons :
        /\ MayUse(t)
        /\ Start(p, [NoJob EXCEPT !.op = "ROLLBACK", !.tx = t, !.target = r,
                                  !.expected = e, !.reason = why], "lock")

StartRecover(p) == Start(p, [NoJob EXCEPT !.op = "RECOVER"], "lock")

(* recover --force-lock: the operator has seen that the holder is dead.    *)
StartForcedRecover(p) ==
    /\ lock = Stale
    /\ ExclusiveForce => \A q \in Proc : pc[q] # "force"
    /\ Start(p, [NoJob EXCEPT !.op = "RECOVER"], "force")

ForceUnlock(p) ==
    /\ Go(p, "force", "lock")
    /\ lock' = Free
    /\ UNCHANGED <<pointerFiles, journals, trees, job, faults>>

(* O_CREAT | O_EXCL: only one process can make the lock file.              *)
LockFree_mutant == TRUE          \* mutant: opened without O_EXCL
LockFree == lock = Free

Acquire(p) ==
    /\ LockFree
    /\ Go(p, "lock", "check")
    /\ lock' = p
    /\ UNCHANGED <<pointerFiles, journals, trees, job, faults>>

Contended(p) ==
    /\ ~LockFree
    /\ pc[p] = "lock"
    /\ Quit(p)
    /\ UNCHANGED <<lock, pointerFiles, journals, trees, faults>>

(* __exit__ unlinks the file whoever made it.                              *)
Unlock(p) ==
    /\ pc[p] = "unlock"
    /\ lock' = Free
    /\ Quit(p)
    /\ UNCHANGED <<pointerFiles, journals, trees, faults>>
-----------------------------------------------------------------------------
(* Checks made under the lock, before there is a journal *)

CurrentRelease == IF current = None THEN None ELSE current.release

(* enforce_expected_current *)
AsExpected_mutant(p) ==          \* mutant: any pointer will do
    job[p].expected # None => current # None
AsExpected(p) == job[p].expected \in {None, CurrentRelease}

NotInstalled_mutant(r) == r # CurrentRelease   \* mutant: only Current is immutable
NotInstalled(r) == releases[r] = None /\ manifests[r] = None

(* verify_manifest of an installed release against its own manifest.       *)
Intact(r) == manifests[r] # None /\ releases[r] = manifests[r]

MayPromote(p) ==
    /\ active = None
    /\ AsExpected(p)
    /\ NotInstalled(job[p].target)

MayRollback(p) ==
    /\ active = None
    /\ AsExpected(p)
    /\ CurrentRelease \notin {None, job[p].target}
    /\ Intact(job[p].target)

Admit(p, digest) ==
    /\ Goto(p, "begin")
    /\ job' = [job EXCEPT ![p].digest = digest, ![p].previous = CurrentRelease]

Check(p) ==
    /\ pc[p] = "check"
    /\ \/ /\ job[p].op = "PROMOTE" /\ MayPromote(p)
          /\ \E c \in Content : Admit(p, c)          \* the candidate as it is now
       \/ /\ job[p].op = "PROMOTE"                  \* refused, or CANDIDATE_INVALID
          /\ Goto(p, "unlock") /\ UNCHANGED job
       \/ /\ job[p].op = "ROLLBACK" /\ MayRollback(p)
          /\ Admit(p, manifests[job[p].target])
       \/ /\ job[p].op = "ROLLBACK" /\ ~MayRollback(p)
          /\ Goto(p, "unlock") /\ UNCHANGED job
    /\ UNCHANGED <<lock, pointerFiles, journals, trees, faults>>

Snapshots_mutant ==              \* mutant: the archive is not saved
    [current |-> current, lastSuccess |-> lastSuccess]
Snapshots == [current |-> current, lastSuccess |-> lastSuccess,
              archive |-> archive]

Begin(p) ==
    LET j == [tx |-> job[p].tx, op |-> job[p].op, status |-> "PREPARED",
              target |-> job[p].target, prev |-> Snapshots]
    IN /\ Go(p, "begin", IF j.op = "PROMOTE" THEN "copy" ELSE "archive")
       /\ active' = j
       /\ job' = [job EXCEPT ![p].journal = j]
       /\ UNCHANGED <<lock, pointerFiles, history, trees, faults>>
-----------------------------------------------------------------------------
(* The body of the try: an exception in it enters the handler *)

Raise(p) ==
    /\ Goto(p, "restore_current")
    /\ job' = [job EXCEPT ![p].mode = "abort"]

CopyTree(p) ==
    LET t == job[p].tx
    IN /\ pc[p] = "copy"
       /\ \/ /\ stagedReleases[t] = None
             /\ stagedReleases' = [stagedReleases EXCEPT ![t] = Partial]
             /\ Goto(p, "copying") /\ UNCHANGED job
          \/ /\ stagedReleases[t] # None             \* FileExistsError
             /\ Raise(p) /\ UNCHANGED stagedReleases
       /\ UNCHANGED <<lock, pointerFiles, journals, releases, manifests,
                      stagedManifests, faults>>

(* The copy ends; the candidate may have changed since it was inspected.   *)
CopyMatches_mutant(p, c) == c \in Content      \* mutant: no second manifest
CopyMatches(p, c) == c = job[p].digest

Reconcile(p) ==
    /\ pc[p] = "copying"
    /\ \E c \in Content :
          /\ stagedReleases' = [stagedReleases EXCEPT ![job[p].tx] = c]
          /\ \/ CopyMatches(p, c) /\ Goto(p, "stage_manifest") /\ UNCHANGED job
             \/ Raise(p)   \* PROMOTION_COPY_MISMATCH, or an issue of verify_manifest
    /\ UNCHANGED <<lock, pointerFiles, journals, releases, manifests,
                   stagedManifests, faults>>

StageManifest(p) ==
    /\ Go(p, "stage_manifest", "mark_staged")
    /\ stagedManifests' = [stagedManifests EXCEPT ![job[p].tx] = job[p].digest]
    /\ UNCHANGED <<lock, pointerFiles, journals, releases, manifests,
                   stagedReleases, job, faults>>

WriteJournal(p, status) ==
    LET j == [job[p].journal EXCEPT !.status = status]
    IN active' = j /\ job' = [job EXCEPT ![p].journal = j]

Mark(p) ==
    /\ \/ Go(p, "mark_staged", "install_release") /\ WriteJournal(p, "STAGED")
       \/ Go(p, "mark_installed", "archive") /\ WriteJournal(p, "INSTALLED")
    /\ UNCHANGED <<lock, pointerFiles, history, trees, faults>>

InstallRelease(p) ==
    LET t == job[p].tx
        r == job[p].target
    IN /\ pc[p] = "install_release"
       /\ \/ /\ stagedReleases[t] # None /\ releases[r] = None
             /\ releases' = [releases EXCEPT ![r] = stagedReleases[t]]
             /\ stagedReleases' = [stagedReleases EXCEPT ![t] = None]
             /\ Goto(p, "install_manifest") /\ UNCHANGED job
          \/ /\ stagedReleases[t] = None \/ releases[r] # None
             /\ Raise(p) /\ UNCHANGED <<releases, stagedReleases>>
       /\ UNCHANGED <<lock, pointerFiles, journals, manifests,
                      stagedManifests, faults>>

InstallManifest(p) ==
    LET t == job[p].tx
    IN /\ pc[p] = "install_manifest"
       /\ \/ /\ stagedManifests[t] # None
             /\ manifests' = [manifests EXCEPT ![job[p].target] = stagedManifests[t]]
             /\ stagedManifests' = [stagedManifests EXCEPT ![t] = None]
             /\ Goto(p, "mark_installed") /\ UNCHANGED job
          \/ /\ stagedManifests[t] = None
             /\ Raise(p) /\ UNCHANGED <<manifests, stagedManifests>>
       /\ UNCHANGED <<lock, pointerFiles, journals, releases, stagedReleases,
                      faults>>

(* load_archive refuses an index that does not fit its schema.             *)
ArchiveFits == \A e \in archive : e.reason = "short"

(* archive_previous: the old release's entry, once (order is by its sort).  *)
ArchivePrevious(entries, old, why) ==
    {e \in entries : e.release # old.release}
        \cup {[release |-> old.release, digest |-> old.digest,
               tx |-> why.tx, reason |-> why.reason]}

(* rollback drops the entries of its target and of the previous current.   *)
KeptEntries_mutant(p) == archive         \* mutant: the target stays archived
KeptEntries(p) ==
    IF job[p].op = "PROMOTE" THEN archive
    ELSE {e \in archive : e.release \notin {job[p].target, job[p].previous}}

Archive(p) ==
    LET superseding == job[p].previous # None
    IN /\ pc[p] = "archive"
       /\ \/ /\ ArchiveFits /\ (superseding => current # None)
             /\ archive' = IF superseding
                           THEN ArchivePrevious(KeptEntries(p), current, job[p])
                           ELSE archive
             /\ Goto(p, "current") /\ UNCHANGED job
          \/ /\ ~ArchiveFits \/ (superseding /\ current = None)
             /\ Raise(p) /\ UNCHANGED archive
       /\ UNCHANGED <<lock, current, lastSuccess, journals, trees, faults>>

NewPointer(p) ==
    [release |-> job[p].target, digest |-> job[p].digest, tx |-> job[p].tx]

SetCurrent_mutant(p) ==          \* mutant: finished before the second pointer
    /\ Go(p, "current", "finish_active")
    /\ current' = NewPointer(p)
    /\ UNCHANGED <<lock, lastSuccess, archive, journals, trees, job, faults>>
SetCurrent(p) ==
    /\ Go(p, "current", "last_success")
    /\ current' = NewPointer(p)
    /\ UNCHANGED <<lock, lastSuccess, archive, journals, trees, job, faults>>

SetLastSuccess_mutant(p) ==      \* mutant: only the first success is noted
    /\ Go(p, "last_success", "finish_active")
    /\ lastSuccess' = IF lastSuccess = None THEN NewPointer(p) ELSE lastSuccess
    /\ UNCHANGED <<lock, current, archive, journals, trees, job, faults>>
SetLastSuccess(p) ==
    /\ Go(p, "last_success", "finish_active")
    /\ lastSuccess' = NewPointer(p)
    /\ UNCHANGED <<lock, current, archive, journals, trees, job, faults>>
-----------------------------------------------------------------------------
(* finish_journal: the status in active.json, then the record in history,  *)
(* then active.json is unlinked, which is what commits.                    *)

Outcome_mutant(p) ==             \* mutant: recovery renames what was decided
    CASE job[p].mode = "apply" -> "COMMITTED"
      [] job[p].mode = "abort" -> "ROLLED_BACK"
      [] OTHER -> "RECOVERED"
Outcome(p) ==
    CASE job[p].mode = "apply" -> "COMMITTED"
      [] job[p].mode = "abort" -> "ROLLED_BACK"
      [] OTHER -> IF job[p].journal.status \in FinalStatus
                  THEN job[p].journal.status ELSE "RECOVERED"

FinishActive_mutant(p) ==        \* mutant: no record is kept
    /\ Go(p, "finish_active", "finish_clear")
    /\ WriteJournal(p, Outcome(p))
    /\ UNCHANGED <<lock, pointerFiles, history, trees, faults>>
FinishActive(p) ==
    /\ Go(p, "finish_active", "finish_history")
    /\ WriteJournal(p, Outcome(p))
    /\ UNCHANGED <<lock, pointerFiles, history, trees, faults>>

FinishHistory(p) ==
    LET j == job[p].journal
    IN /\ Go(p, "finish_history", "finish_clear")
       /\ history' = [history EXCEPT ![j.tx] = j.status]
       /\ UNCHANGED <<lock, pointerFiles, active, trees, job, faults>>

FinishClear(p) ==
    /\ Go(p, "finish_clear", "unlock")
    /\ active' = None
    /\ job' = [job EXCEPT ![p].mode = "done"]
    /\ UNCHANGED <<lock, pointerFiles, history, trees, faults>>
-----------------------------------------------------------------------------
(* recover_workspace: what the journal on disk says is finished or undone  *)

ResumeAt_mutant(status) ==       \* mutant: a decided journal is left alone
    IF status \in FinalStatus THEN "unlock" ELSE "restore_archive"
ResumeAt(status) ==
    IF status \in FinalStatus THEN "finish_active" ELSE "restore_archive"

CheckRecover(p) ==
    /\ pc[p] = "check" /\ job[p].op = "RECOVER"
    /\ \/ active = None /\ Goto(p, "unlock") /\ UNCHANGED job
       \/ /\ active # None
          /\ Goto(p, ResumeAt(active.status))
          /\ job' = [job EXCEPT ![p].journal = active, ![p].mode = "recover"]
    /\ UNCHANGED <<lock, pointerFiles, journals, trees, faults>>

(* restore_previous goes through the journal's "previous" in its order:    *)
(* as built in memory (current, last_success, archive) by the handler, and *)
(* with sorted keys (archive, current, last_success) by recovery.          *)
Restored_mutant(p) == "remove_staging"  \* mutant: also after a rollback
RestoredOnly_mutant(p) == "finish_active"  \* mutant: nothing is removed
Restored(p) ==
    IF job[p].journal.op = "PROMOTE" THEN "remove_staging" ELSE "finish_active"

RestoreCurrent(p) ==
    /\ Go(p, "restore_current", "restore_last_success")
    /\ current' = job[p].journal.prev.current
    /\ UNCHANGED <<lock, lastSuccess, archive, journals, trees, job, faults>>

RestoreLastSuccess(p) ==
    /\ Go(p, "restore_last_success",
          IF job[p].mode = "abort" THEN "restore_archive" ELSE Restored(p))
    /\ lastSuccess' = job[p].journal.prev.lastSuccess
    /\ UNCHANGED <<lock, current, archive, journals, trees, job, faults>>

RestoreArchive(p) ==
    /\ Go(p, "restore_archive",
          IF job[p].mode = "abort" THEN Restored(p) ELSE "restore_current")
    /\ archive' = job[p].journal.prev.archive
    /\ UNCHANGED <<lock, current, lastSuccess, journals, trees, job, faults>>

(* remove_created: rmtree the release directories, then the manifests.     *)
Shrunk_mutant(tree) ==           \* mutant: errors of rmtree are ignored
    IF tree \in Content THEN Partial ELSE tree
Shrunk(tree) == IF tree \in Content THEN Partial ELSE None

RemoveStaging(p) ==
    LET t == job[p].journal.tx
    IN /\ Go(p, "remove_staging", IF stagedReleases[t] \in Content
                                  THEN "remove_staging" ELSE "remove_installed")
       /\ stagedReleases' = [stagedReleases EXCEPT ![t] = Shrunk(@)]
       /\ UNCHANGED <<lock, pointerFiles, journals, releases, manifests,
                      stagedManifests, job, faults>>

RemoveInstalled(p) ==
    LET r == job[p].journal.target
    IN /\ Go(p, "remove_installed", IF releases[r] \in Content
                                    THEN "remove_installed"
                                    ELSE "remove_staged_manifest")
       /\ releases' = [releases EXCEPT ![r] = Shrunk(@)]
       /\ UNCHANGED <<lock, pointerFiles, journals, manifests, stagedReleases,
                      stagedManifests, job, faults>>

RemoveStagedManifest(p) ==
    /\ Go(p, "remove_staged_manifest", "remove_manifest")
    /\ stagedManifests' = [stagedManifests EXCEPT ![job[p].journal.tx] = None]
    /\ UNCHANGED <<lock, pointerFiles, journals, releases, manifests,
                   stagedReleases, job, faults>>

RemoveManifest(p) ==
    /\ Go(p, "remove_manifest", "finish_active")
    /\ manifests' = [manifests EXCEPT ![job[p].journal.target] = None]
    /\ UNCHANGED <<lock, pointerFiles, journals, releases, stagedReleases,
                   stagedManifests, job, faults>>
-----------------------------------------------------------------------------
(* Failures *)

Fail(kind) == kind \in FaultKinds /\ faults < MaxFaults /\ faults' = faults + 1

(* An operating-system error.  In the try it enters the handler; before the *)
(* journal, in the handler and in recovery it leaves the with statement;    *)
(* writing the pid, it leaves the lock file, which nobody has acquired.     *)
RaiseException(p) ==
    /\ Fail("exception")
    /\ \/ pc[p] = "lock" /\ LockFree /\ lock' = Stale /\ Quit(p)
       \/ /\ pc[p] \in Staging \cup Pointing \cup {"finish_active"}
          /\ job[p].mode = "apply"
          /\ Raise(p) /\ UNCHANGED lock
       \/ /\ \/ pc[p] \in {"check", "begin"}
             \/ pc[p] \in Body /\ job[p].mode # "apply"
          /\ Goto(p, "unlock") /\ UNCHANGED <<lock, job>>
    /\ UNCHANGED <<pointerFiles, journals, trees>>

(* The same error once active.json already says COMMITTED.                  *)
RaiseInTail(p) ==
    /\ Fail("tail_exception")
    /\ pc[p] \in {"finish_history", "finish_clear"} /\ job[p].mode = "apply"
    /\ Raise(p)
    /\ UNCHANGED <<lock, pointerFiles, journals, trees>>

(* SimulatedCrash, KeyboardInterrupt: not an Exception, so no handler, but  *)
(* the with statement releases the lock.                                    *)
Interrupt(p) ==
    /\ Fail("interrupt")
    /\ pc[p] \in Body
    /\ Goto(p, "unlock")
    /\ UNCHANGED <<lock, pointerFiles, journals, trees, job>>

(* SIGKILL or power loss; its lock file stays.                              *)
Kill(p) ==
    /\ Fail("kill")
    /\ pc[p] # "idle"
    /\ Quit(p)
    /\ lock' = IF lock = p THEN Stale ELSE lock
    /\ UNCHANGED <<pointerFiles, journals, trees>>
-----------------------------------------------------------------------------
Call(p) == StartPromote(p) \/ StartRollback(p) \/ StartRecover(p)
           \/ StartForcedRecover(p)

Locking(p) == ForceUnlock(p) \/ Acquire(p) \/ Contended(p) \/ Unlock(p)
Apply(p) ==
    \/ Check(p) \/ Begin(p) \/ CopyTree(p) \/ Reconcile(p) \/ StageManifest(p)
    \/ Mark(p) \/ InstallRelease(p) \/ InstallManifest(p)
    \/ Archive(p) \/ SetCurrent(p) \/ SetLastSuccess(p)
Finish(p) == FinishActive(p) \/ FinishHistory(p) \/ FinishClear(p)
Undo(p) ==
    \/ CheckRecover(p)
    \/ RestoreCurrent(p) \/ RestoreLastSuccess(p) \/ RestoreArchive(p)
    \/ RemoveStaging(p) \/ RemoveInstalled(p)
    \/ RemoveStagedManifest(p) \/ RemoveManifest(p)
Step(p) == Locking(p) \/ Apply(p) \/ Finish(p) \/ Undo(p)
Failure(p) == RaiseException(p) \/ RaiseInTail(p) \/ Interrupt(p) \/ Kill(p)

Next == \E p \in Proc : Call(p) \/ Step(p) \/ Failure(p)

Spec == Init /\ [][Next]_vars

(* The scheduler runs every call on; an operator who is told               *)
(* RECOVERY_REQUIRED or PROMOTION_LOCKED runs recover again and again.     *)
Fairness ==
    \A p \in Proc :
        /\ WF_vars(Step(p))
        /\ SF_vars(active # None /\ StartRecover(p))
        /\ SF_vars(StartForcedRecover(p))

FairSpec == Spec /\ Fairness
-----------------------------------------------------------------------------
(* Properties *)

(* Every file and local variable holds a value of its kind.                *)
TypeOK ==
    /\ lock \in Proc \cup {Free, Stale}
    /\ current \in Pointer \cup {None}
    /\ lastSuccess \in Pointer \cup {None}
    /\ archive \in SUBSET Entry
    /\ active \in Journal \cup {None}
    /\ history \in [Tx -> FinalStatus \cup {None}]
    /\ releases \in [Release -> Tree]
    /\ manifests \in [Release -> Content \cup {None}]
    /\ stagedReleases \in [Tx -> Tree]
    /\ stagedManifests \in [Tx -> Content \cup {None}]
    /\ pc \in [Proc -> Label]
    /\ job \in [Proc -> Job]
    /\ faults \in 0 .. MaxFaults

(* WorkspaceLock: whoever is inside the with statement made the lock file, *)
(* so no two processes change the workspace at once.                       *)
SingleWriter == \A p \in Proc : pc[p] \in Critical => lock = p

(* What the workspace has accepted: its pointers, or, while a transaction  *)
(* is open, those the journal would bring back.                            *)
Accepted == IF active = None THEN Snapshots ELSE active.prev
Installed(x) == releases[x.release] = x.digest /\ manifests[x.release] = x.digest

Consistent(s) ==
    /\ s.current = s.lastSuccess
    /\ s.current # None => Installed(s.current)
    /\ s.archive # {} => s.current # None
    /\ \A e \in s.archive : Installed(e) /\ e.release # s.current.release
    /\ \A e, f \in s.archive : e.release = f.release => e = f

(* validate_workspace finds nothing wrong with what is accepted: the two   *)
(* pointers agree, every pointer and archive entry names a release that is *)
(* installed and matches its manifest, and Current is not archived - at    *)
(* every moment, whatever failed before, as recovery would leave it.       *)
AcceptedIsConsistent == Consistent(Accepted)

(* When no transaction is open, nothing is left of failed ones: no staging *)
(* directory, no release or manifest that no pointer or entry names.       *)
NothingLeftBehind ==
    active = None =>
        /\ \A t \in Tx : stagedReleases[t] = None /\ stagedManifests[t] = None
        /\ \A r \in Release :
              releases[r] # None \/ manifests[r] # None =>
                  \/ CurrentRelease = r
                  \/ \E e \in archive : e.release = r

(* A journal whose status is final needs only to be filed, as recovery     *)
(* assumes: COMMITTED, and the pointers are the transaction's; otherwise   *)
(* they are the previous ones and the release it installed is gone.        *)
DecidedJournalIsDone ==
    active # None /\ active.status \in FinalStatus =>
        IF active.status = "COMMITTED"
        THEN Consistent(Snapshots) /\ current # None /\ current.tx = active.tx
        ELSE /\ Snapshots = active.prev
             /\ active.op = "PROMOTE" =>
                   /\ stagedReleases[active.tx] = None
                   /\ stagedManifests[active.tx] = None
                   /\ NotInstalled(active.target)

(* Current, Last-success and every archive entry were put there by a       *)
(* transaction whose record says COMMITTED.                                *)
PointersHaveRecords ==
    LET s == Accepted
    IN /\ s.current # None => history[s.current.tx] = "COMMITTED"
       /\ \A e \in s.archive : history[e.tx] = "COMMITTED"

(* A call that returns success has been committed in full, and its release *)
(* is the current one when it returns.                                     *)
SuccessIsCommitted ==
    \A p \in Proc :
        /\ pc[p] = "unlock" /\ job[p].mode = "done"
        /\ job[p].op # "RECOVER" /\ job[p].journal.status = "COMMITTED"
        => /\ active = None /\ history[job[p].tx] = "COMMITTED"
           /\ current = NewPointer(p) /\ lastSuccess = current

(* An accepted release is never changed or removed, also not by the        *)
(* clean-up of a promotion that failed.                                    *)
ReleasesAreImmutable ==
    [][\A r \in Release :
         (Accepted.current # None /\ Accepted.current.release = r)
         \/ (\E e \in Accepted.archive : e.release = r)
         => releases'[r] = releases[r] /\ manifests'[r] = manifests[r]]_vars

(* The record of a finalized transaction stays what it is.                 *)
HistoryRemains ==
    [][\A t \in Tx : history[t] # None => history'[t] = history[t]]_vars

(* expected_current: a call that names the release it means to supersede   *)
(* commits only if that release is the accepted one up to the commit.      *)
NoLostUpdate ==
    [][\A p \in Proc :
         /\ pc[p] = "finish_clear" /\ job[p].mode = "apply"
         /\ active # None /\ active' = None /\ job[p].expected # None
         => /\ Accepted.current # None
            /\ Accepted.current.release = job[p].expected]_vars

(* No schema-valid workspace refuses its next promotion: the archive that  *)
(* a commit leaves can be loaded again.                                    *)
ArchiveLoads == active = None => ArchiveFits

(* However calls fail, the workspace is usable again: no transaction is    *)
(* open and the lock is free, again and again.                             *)
UsableAgain == []<>(active = None /\ lock = Free)
=============================================================================
