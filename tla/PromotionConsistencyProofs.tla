--------------------- MODULE PromotionConsistencyProofs --------------------
(***************************************************************************)
(* Every step of PromotionEngine preserves EngineInv: the files are what    *)
(* the open journal says, for any number of processes, releases,            *)
(* transactions and failures.                                               *)
(***************************************************************************)
EXTENDS PromotionEngineProofs, PromotionRefinement

Inv == LockInv /\ EngineInv

Files == <<pointerFiles, journals, trees>>

LEMMA LabelKinds ==
    /\ Entering \subseteq Label
    /\ Journaled \subseteq Body /\ Working \subseteq Journaled
    /\ Journaled \cap Entering = {} /\ "unlock" \notin Entering \cup Body
    /\ Body \subseteq Critical /\ Body \subseteq Label /\ "unlock" \in Critical
    /\ Entering \cap Critical = {"check", "begin"}
    /\ Critical = Body \cup {"unlock"}
    /\ "idle" \notin Entering \cup Critical
BY DEF Entering, Label, Critical, Body, Journaled, Working, Staging, Pointing,
   Restoring, Removing, Finishing

(* A call's own step: the next label and the local variables it leaves.     *)
Moves(p, to, j) == Goto(p, to) /\ job' = [job EXCEPT ![p] = j]

LEMMA Moved ==
    ASSUME TypeInv, NEW p \in Proc, NEW to, NEW j, Moves(p, to, j)
    PROVE  /\ pc'[p] = to /\ job'[p] = j
           /\ \A q \in Proc : q # p => pc'[q] = pc[q] /\ job'[q] = job[q]
BY DEF TypeInv, CallsTyped, Goto, Moves

LEMMA SameJob ==
    ASSUME TypeInv, NEW p \in Proc, NEW to, Goto(p, to), job' = job
    PROVE  Moves(p, to, job[p])
BY DEF TypeInv, CallsTyped, Moves

(* The files that a step leaves alone are described as before.              *)
LEMMA SameFiles ==
    ASSUME UNCHANGED Files, FilesInv PROVE FilesInv'
<1>1. /\ current' = current /\ lastSuccess' = lastSuccess /\ archive' = archive
      /\ active' = active /\ history' = history
      /\ releases' = releases /\ manifests' = manifests
      /\ stagedReleases' = stagedReleases /\ stagedManifests' = stagedManifests
  BY DEF Files, pointerFiles, journals, trees
<1>2. Snapshots' = Snapshots /\ Accepted' = Accepted /\ CurrentRelease' = CurrentRelease
  BY <1>1 DEF Snapshots, Accepted, CurrentRelease
<1>3. AcceptedIsConsistent'
  BY <1>1, <1>2 DEF FilesInv, AcceptedIsConsistent, Consistent, Installed
<1>4. PointersHaveRecords' /\ NothingLeftBehind'
  BY <1>1, <1>2 DEF FilesInv, PointersHaveRecords, NothingLeftBehind
<1>5. (active # None => OpenOK(active))'
  BY <1>1, <1>2 DEF FilesInv, OpenOK, Unstaged, NotInstalled, InForce, Undone, Installed
<1>6. QED BY <1>3, <1>4, <1>5 DEF FilesInv

LEMMA SameProgress ==
    ASSUME UNCHANGED Files, NEW label, NEW j, Progress(label, j)
    PROVE  Progress(label, j)'
<1>1. /\ current' = current /\ lastSuccess' = lastSuccess /\ archive' = archive
      /\ active' = active /\ history' = history
      /\ releases' = releases /\ manifests' = manifests
      /\ stagedReleases' = stagedReleases /\ stagedManifests' = stagedManifests
  BY DEF Files, pointerFiles, journals, trees
<1>2. Snapshots' = Snapshots /\ CurrentRelease' = CurrentRelease
  BY <1>1 DEF Snapshots, CurrentRelease
<1>3. Admitted(j)' = Admitted(j) /\ Owns(j)' = Owns(j)
  BY <1>1, <1>2 DEF Admitted, NotInstalled, Owns
<1>4. Applying(label, j)' = Applying(label, j)
  BY <1>1, <1>2 DEF Applying, Placed, Pointed
<1>5. /\ RestoredTo(label, j.mode, active)' = RestoredTo(label, j.mode, active)
      /\ RemovedTo(label, active)' = RemovedTo(label, active)
      /\ Undone(active)' = Undone(active)
  BY <1>1, <1>2 DEF RestoredTo, RemovedTo, Undone, Unstaged, NotInstalled
<1>6. Decided(label, j)' = Decided(label, j) /\ Achieved(j)' = Achieved(j)
  BY <1>1 DEF Decided, Achieved
<1>7. QED BY <1>1, <1>3, <1>4, <1>5, <1>6 DEF Progress
-----------------------------------------------------------------------------
(* The three shapes of a step *)

(* A step keeps identifiers fresh if it neither gives its call a new one    *)
(* nor records or journals one that belongs to another call.                *)
LEMMA FreshMoves ==
    ASSUME LockInv, Fresh, NEW p \in Proc, NEW to, NEW j, Moves(p, to, j),
           j.tx \in {None, job[p].tx},
           to \in Entering => /\ pc[p] \in Entering /\ j.mode = job[p].mode
                              /\ history' = history /\ active' = active,
           \A t \in Tx : history'[t] = history[t] \/ (active # None /\ t = active.tx),
           \/ active' = None
           \/ active # None /\ active'.tx = active.tx
           \/ active'.tx = job[p].tx /\ job[p].tx # None
    PROVE  Fresh'
<1>1. /\ pc'[p] = to /\ job'[p] = j
      /\ \A q \in Proc : q # p => pc'[q] = pc[q] /\ job'[q] = job[q]
  BY Moved DEF LockInv
<1>2. Fresh
  OBVIOUS
<1>3. ASSUME NEW q \in Proc, pc'[q] \in Entering
      PROVE  /\ job'[q].mode = "apply"
             /\ job'[q].tx # None => /\ history'[job'[q].tx] = None
                                     /\ active' # None => active'.tx # job'[q].tx
  <2>1. CASE q = p
    BY <1>1, <1>2, <1>3, <2>1 DEF Fresh
  <2>2. CASE q # p
    <3>1. pc[q] \in Entering /\ job'[q] = job[q]
      BY <1>1, <1>3, <2>2
    <3>2. job[q].tx \in Tx \cup {None}
      BY DEF LockInv, TypeInv, CallsTyped, Job
    <3>3. job[q].tx # None => job[q].tx # job[p].tx
      BY <1>2, <2>2 DEF Fresh
    <3>4. QED BY <1>2, <3>1, <3>2, <3>3 DEF Fresh
  <2>3. QED BY <2>1, <2>2
<1>4. ASSUME NEW q \in Proc, NEW r \in Proc, q # r, job'[q].tx = job'[r].tx
      PROVE  job'[q].tx = None
  <2>1. job'[q].tx \in {None, job[q].tx} /\ job'[r].tx \in {None, job[r].tx}
    BY <1>1
  <2>2. QED BY <1>2, <1>4, <2>1 DEF Fresh
<1>5. QED BY <1>3, <1>4 DEF Fresh

LEMMA FreshStep ==
    ASSUME Inv, NEW p \in Proc, NEW to, NEW j, Moves(p, to, j),
           j.tx \in {None, job[p].tx},
           to \in Entering => /\ pc[p] \in Entering /\ j.mode = job[p].mode
                              /\ history' = history /\ active' = active,
           \A t \in Tx : history'[t] = history[t] \/ (active # None /\ t = active.tx),
           \/ active' = None
           \/ active # None /\ active'.tx = active.tx
           \/ active'.tx = job[p].tx /\ job[p].tx # None
    PROVE  Fresh'
BY FreshMoves DEF Inv, EngineInv

(* A step that reads.                                                       *)
LEMMA ReaderStep ==
    ASSUME Inv, NEW p \in Proc, NEW to, NEW j, Moves(p, to, j), UNCHANGED Files,
           to \in Critical => Progress(to, j), Fresh'
    PROVE  EngineInv'
<1>1. /\ pc'[p] = to /\ job'[p] = j
      /\ \A q \in Proc : q # p => pc'[q] = pc[q] /\ job'[q] = job[q]
  BY Moved DEF Inv, LockInv
<1>2. FilesInv'
  BY SameFiles DEF Inv, EngineInv
<1>3. ASSUME NEW q \in Proc, pc'[q] \in Critical
      PROVE  Progress(pc[q], job[q])'
  <2>1. Progress(pc'[q], job'[q])
    BY <1>1, <1>3 DEF Inv, EngineInv
  <2>2. QED BY <2>1, SameProgress
<1>4. QED BY <1>2, <1>3 DEF EngineInv

(* A step that writes: its call holds the lock, so no other is under way.   *)
LEMMA WriterStep ==
    ASSUME Inv, NEW p \in Proc, NEW to, NEW j, Moves(p, to, j), pc[p] \in Critical,
           FilesInv', Progress(pc[p], job[p])', Fresh'
    PROVE  EngineInv'
<1>1. /\ pc'[p] = to /\ job'[p] = j
      /\ \A q \in Proc : q # p => pc'[q] = pc[q] /\ job'[q] = job[q]
  BY Moved DEF Inv, LockInv
<1>2. \A q \in Proc : pc[q] \in Critical => q = p
  BY DEF Inv, LockInv, SingleWriter
<1>3. ASSUME NEW q \in Proc, pc'[q] \in Critical
      PROVE  Progress(pc[q], job[q])'
  BY <1>1, <1>2, <1>3
<1>4. QED BY <1>3 DEF EngineInv

(* What a step of the body may assume of its call.                          *)
LEMMA Here ==
    ASSUME Inv, NEW p \in Proc, pc[p] \in Critical
    PROVE  /\ TypeInv /\ FilesInv /\ Fresh /\ Progress(pc[p], job[p])
           /\ job[p] \in Job /\ LocalOK(pc[p], job[p])
BY DEF Inv, LockInv, EngineInv, TypeInv, CallsTyped

(* A step that leaves all files alone and goes on in the body.              *)
LEMMA GoesOn ==
    ASSUME Inv, NEW p \in Proc, pc[p] \in Critical, NEW to, NEW j, Moves(p, to, j),
           UNCHANGED Files, j.tx = job[p].tx, to \notin Entering, Progress(to, j)
    PROVE  EngineInv'
<1>1. history' = history /\ active' = active
  BY DEF Files, journals
<1>2. \/ active' = None
      \/ active # None /\ active'.tx = active.tx
  BY <1>1
<1>3. Fresh'
  BY <1>1, <1>2, FreshStep
<1>4. QED BY <1>3, ReaderStep

(* A step that writes files, but no record, and leaves the journal open.    *)
LEMMA Writes ==
    ASSUME Inv, NEW p \in Proc, pc[p] \in Critical, NEW to, NEW j, Moves(p, to, j),
           j.tx = job[p].tx, to \notin Entering, history' = history,
           active # None, active'.tx = active.tx, FilesInv', Progress(pc[p], job[p])'
    PROVE  EngineInv'
<1>1. Fresh'
  BY FreshStep
<1>2. QED BY <1>1, WriterStep
-----------------------------------------------------------------------------
(* Steps outside the body *)

LEMMA InitEngineInv == Init => EngineInv
<1> SUFFICES ASSUME Init PROVE EngineInv
  OBVIOUS
<1>1. Snapshots = [current |-> None, lastSuccess |-> None, archive |-> {}]
      /\ Accepted = Snapshots /\ active = None
  BY DEF Init, Snapshots, Accepted
<1>2. AcceptedIsConsistent /\ PointersHaveRecords
  BY <1>1 DEF AcceptedIsConsistent, Consistent, PointersHaveRecords
<1>3. NothingLeftBehind
  BY DEF Init, NothingLeftBehind
<1>4. Fresh
  BY LabelKinds DEF Init, Fresh, NoJob
<1>5. \A p \in Proc : pc[p] \notin Critical
  BY LabelKinds DEF Init
<1>6. QED BY <1>1, <1>2, <1>3, <1>4, <1>5 DEF EngineInv, FilesInv

(* A new call has an identifier that nobody has used.                       *)
LEMMA CallFresh ==
    ASSUME LockInv, Fresh, ~TxReuse, NEW p \in Proc, Call(p)
    PROVE  /\ Fresh' /\ UNCHANGED Files
           /\ \E label \in {"lock", "force"} : \E call : Moves(p, label, call)
<1> DEFINE New(call) == \/ call.tx = None
                        \/ call.tx \in Tx /\ MayUse(call.tx)
           Goal == /\ Fresh' /\ UNCHANGED Files
                   /\ \E label \in {"lock", "force"} : \E call : Moves(p, label, call)
<1>1. ASSUME NEW call, NEW label \in {"lock", "force"}, Start(p, call, label),
             New(call), call.mode = "apply"
      PROVE  Goal
  <2>1. Moves(p, label, call) /\ UNCHANGED Files
    BY <1>1 DEF Start, Go, Moves, Files
  <2>2. /\ pc'[p] = label /\ job'[p] = call
        /\ \A q \in Proc : q # p => pc'[q] = pc[q] /\ job'[q] = job[q]
    BY <2>1, Moved DEF LockInv
  <2>3. history' = history /\ active' = active
    BY <2>1 DEF Files, journals
  <2>4. call.tx # None => /\ history[call.tx] = None
                          /\ active # None => active.tx # call.tx
                          /\ \A q \in Proc : job[q].tx # call.tx
    BY <1>1 DEF MayUse
  <2>5. Fresh'
    BY <1>1, <2>2, <2>3, <2>4 DEF Fresh
  <2>6. QED BY <2>1, <2>5
<1>2. CASE StartPromote(p)
  <2>1. PICK r \in Release, e \in Release \cup {None}, t \in Tx :
           /\ MayUse(t)
           /\ Start(p, [NoJob EXCEPT !.op = "PROMOTE", !.tx = t, !.target = r,
                                     !.expected = e], "lock")
    BY <1>2 DEF StartPromote
  <2>2. QED BY <1>1, <2>1 DEF NoJob
<1>3. CASE StartRollback(p)
  <2>1. PICK r \in Release, e \in Release \cup {None}, t \in Tx, why \in Reasons :
           /\ MayUse(t)
           /\ Start(p, [NoJob EXCEPT !.op = "ROLLBACK", !.tx = t, !.target = r,
                                     !.expected = e, !.reason = why], "lock")
    BY <1>3 DEF StartRollback
  <2>2. QED BY <1>1, <2>1 DEF NoJob
<1>4. CASE StartRecover(p) \/ StartForcedRecover(p)
  BY <1>1, <1>4 DEF StartRecover, StartForcedRecover, NoJob
<1>5. QED BY <1>2, <1>3, <1>4 DEF Call

LEMMA CallInv ==
    ASSUME Inv, ~TxReuse, NEW p \in Proc, Call(p) PROVE EngineInv'
<1>1. Fresh' /\ UNCHANGED Files
  BY CallFresh DEF Inv, EngineInv
<1>2. PICK label \in {"lock", "force"} : \E call : Moves(p, label, call)
  BY CallFresh DEF Inv, EngineInv
<1>3. PICK call : Moves(p, label, call)
  BY <1>2
<1>4. QED BY <1>1, <1>3, ReaderStep, CriticalLabels

LEMMA QuitInv ==
    ASSUME Inv, NEW p \in Proc, Quit(p), UNCHANGED Files PROVE EngineInv'
<1>1. Moves(p, "idle", NoJob)
  BY DEF Quit, Moves
<1>2. history' = history /\ active' = active
  BY DEF Files, journals
<1>3. active' = None \/ (active # None /\ active'.tx = active.tx)
  BY <1>2
<1>4. NoJob.tx = None
  BY DEF NoJob
<1>5. Fresh'
  BY <1>1, <1>2, <1>3, <1>4, FreshStep, LabelKinds
<1>6. QED BY <1>1, <1>5, ReaderStep, LabelKinds

LEMMA LockingInv ==
    ASSUME Inv, NEW p \in Proc, Locking(p) PROVE EngineInv'
<1>1. ASSUME NEW to \in {"lock", "check"}, Goto(p, to), job' = job, UNCHANGED Files,
             pc[p] \in {"force", "lock"}
      PROVE  EngineInv'
  <2>1. Moves(p, to, job[p])
    BY <1>1, SameJob DEF Inv, LockInv
  <2>2. history' = history /\ active' = active
    BY <1>1 DEF Files, journals
  <2>3. active' = None \/ (active # None /\ active'.tx = active.tx)
    BY <2>2
  <2>4. pc[p] \in Entering
    BY <1>1 DEF Entering
  <2>5. Fresh'
    BY <2>1, <2>2, <2>3, <2>4, FreshStep
  <2>6. job[p].mode = "apply"
    BY <2>4 DEF Inv, EngineInv, Fresh
  <2>7. to \in Critical => Progress(to, job[p])
    <3>1. to \notin Journaled \cup {"begin", "unlock"}
      BY <1>1, Labels
    <3>2. QED BY <2>6, <3>1 DEF Progress, Journaled, Finishing
  <2>8. QED BY <1>1, <2>1, <2>5, <2>7, ReaderStep
<1>2. CASE ForceUnlock(p)
  BY <1>1, <1>2 DEF ForceUnlock, Go, Files
<1>3. CASE Acquire(p)
  BY <1>1, <1>3 DEF Acquire, Go, Files
<1>4. CASE Contended(p)
  BY <1>4, QuitInv DEF Contended, Files
<1>5. CASE Unlock(p)
  BY <1>5, QuitInv DEF Unlock, Files
<1>6. QED BY <1>2, <1>3, <1>4, <1>5 DEF Locking
-----------------------------------------------------------------------------
(* What the writes of a transaction leave true of the files *)

LEMMA JournalTyped ==
    ASSUME TypeInv, active # None
    PROVE  /\ active \in Journal /\ active.tx \in Tx /\ active.target \in Release
           /\ active.op \in {"PROMOTE", "ROLLBACK"} /\ active.status \in Status
           /\ active.prev \in Previous
           /\ active.prev.current \in Pointer \cup {None}
           /\ active.prev.archive \subseteq Entry
BY DEF TypeInv, FilesTyped, Journal, Previous

LEMMA SnapshotsTyped ==
    ASSUME TypeInv PROVE Snapshots \in Previous /\ Accepted \in Previous
<1>1. Snapshots \in Previous
  BY DEF TypeInv, FilesTyped, Snapshots, Previous
<1>2. QED BY <1>1, JournalTyped DEF Accepted

(* Snapshots stay consistent while the releases they name are left alone.   *)
LEMMA ConsistentKept ==
    ASSUME NEW s \in Previous, Consistent(s),
           \A r \in Release : Names(s, r) => /\ releases'[r] = releases[r]
                                             /\ manifests'[r] = manifests[r]
    PROVE  Consistent(s)'
<1>1. s.current # None => /\ s.current.release \in Release
                          /\ Names(s, s.current.release)
  BY DEF Previous, Pointer, Names
<1>2. \A e \in s.archive : e.release \in Release /\ Names(s, e.release)
  BY DEF Previous, Entry, Names
<1>3. QED BY <1>1, <1>2 DEF Consistent, Installed

(* While a promotion is open, its own files can change as they like.        *)
LEMMA TreesWritten ==
    ASSUME Inv, active # None, active.op = "PROMOTE", active.status \notin FinalStatus,
           UNCHANGED <<pointerFiles, journals>>,
           \A r \in Release \ {active.target} : /\ releases'[r] = releases[r]
                                                /\ manifests'[r] = manifests[r],
           \A t \in Tx \ {active.tx} : /\ stagedReleases'[t] = stagedReleases[t]
                                       /\ stagedManifests'[t] = stagedManifests[t]
    PROVE  FilesInv'
<1> DEFINE s == active.prev
<1>1. FilesInv /\ TypeInv
  BY DEF Inv, LockInv, EngineInv
<1>2. OpenOK(active) /\ Consistent(s) /\ s \in Previous
  BY <1>1, JournalTyped DEF FilesInv, AcceptedIsConsistent, Accepted
<1>3. active' = active /\ history' = history
  BY DEF journals
<1>4. \A r \in Release : Names(s, r) => r # active.target
  BY <1>2 DEF OpenOK
<1>5. Consistent(s)'
  BY <1>2, <1>3, <1>4, ConsistentKept
<1>6. AcceptedIsConsistent' /\ NothingLeftBehind'
  BY <1>3, <1>5 DEF AcceptedIsConsistent, Accepted, NothingLeftBehind
<1>7. PointersHaveRecords'
  BY <1>1, <1>3 DEF FilesInv, PointersHaveRecords, Accepted
<1>8. active.status \notin {"COMMITTED", "ROLLED_BACK", "RECOVERED"}
  BY DEF FinalStatus
<1>9. OpenOK(active)'
  <2>1. \A t \in Tx \ {active.tx} : Unstaged(t)'
    BY <1>2 DEF OpenOK, Unstaged
  <2>2. \A r \in Release :
           ~NotInstalled(r)' => Names(s, r) \/ (active.op = "PROMOTE" /\ r = active.target)
    BY <1>2 DEF OpenOK, NotInstalled
  <2>3. QED BY <1>2, <1>3, <1>8, <2>1, <2>2 DEF OpenOK
<1>10. QED BY <1>3, <1>6, <1>7, <1>9 DEF FilesInv

(* While a transaction is undecided, the pointer files can too.             *)
LEMMA PointersWritten ==
    ASSUME Inv, active # None, active.status \notin FinalStatus,
           UNCHANGED <<journals, trees>>
    PROVE  FilesInv'
<1> DEFINE s == active.prev
<1>1. FilesInv
  BY DEF Inv, EngineInv
<1>2. OpenOK(active) /\ Consistent(s)
  BY <1>1 DEF FilesInv, AcceptedIsConsistent, Accepted
<1>3. /\ active' = active /\ history' = history
      /\ releases' = releases /\ manifests' = manifests
      /\ stagedReleases' = stagedReleases /\ stagedManifests' = stagedManifests
  BY DEF journals, trees
<1>4. AcceptedIsConsistent' /\ NothingLeftBehind'
  BY <1>2, <1>3 DEF AcceptedIsConsistent, Accepted, NothingLeftBehind, Consistent, Installed
<1>5. PointersHaveRecords'
  BY <1>1, <1>3 DEF FilesInv, PointersHaveRecords, Accepted
<1>6. active.status \notin {"COMMITTED", "ROLLED_BACK", "RECOVERED"}
  BY DEF FinalStatus
<1>7. OpenOK(active)'
  BY <1>2, <1>3, <1>6 DEF OpenOK, Unstaged, NotInstalled
<1>8. QED BY <1>3, <1>4, <1>5, <1>7 DEF FilesInv

(* The status may be written if it is the truth and no record disagrees.    *)
LEMMA StatusWritten ==
    ASSUME Inv, active # None, NEW s \in Status,
           active' = [active EXCEPT !.status = s],
           UNCHANGED <<pointerFiles, history, trees>>,
           history[active.tx] \in {None, s},
           s = "COMMITTED" => InForce(active),
           s \in {"ROLLED_BACK", "RECOVERED"} => Undone(active)
    PROVE  FilesInv'
<1>1. FilesInv /\ TypeInv
  BY DEF Inv, LockInv, EngineInv
<1>2. OpenOK(active) /\ Consistent(active.prev)
  BY <1>1 DEF FilesInv, AcceptedIsConsistent, Accepted
<1>3. /\ current' = current /\ lastSuccess' = lastSuccess /\ archive' = archive
      /\ history' = history
      /\ releases' = releases /\ manifests' = manifests
      /\ stagedReleases' = stagedReleases /\ stagedManifests' = stagedManifests
  BY DEF pointerFiles, trees
<1>4. /\ active' # None /\ active'.tx = active.tx /\ active'.op = active.op
      /\ active'.target = active.target /\ active'.prev = active.prev
      /\ active'.status = s
  BY <1>1, JournalTyped, DocumentAssumption DEF Journal
<1>5. Snapshots' = Snapshots
  BY <1>3 DEF Snapshots
<1>6. AcceptedIsConsistent' /\ NothingLeftBehind'
  BY <1>2, <1>3, <1>4 DEF AcceptedIsConsistent, Accepted, NothingLeftBehind, Consistent,
     Installed
<1>7. PointersHaveRecords'
  BY <1>1, <1>3, <1>4 DEF FilesInv, PointersHaveRecords, Accepted
<1>8. InForce(active) => InForce(active)'
  BY <1>3, <1>4 DEF InForce, Installed, Unstaged, ArchiveAfter
<1>9. Undone(active) => Undone(active)'
  BY <1>3, <1>4, <1>5 DEF Undone, Unstaged, NotInstalled
<1>10. OpenOK(active)'
  BY <1>2, <1>3, <1>4, <1>8, <1>9 DEF OpenOK, Unstaged, NotInstalled, Names
<1>11. QED BY <1>6, <1>7, <1>10 DEF FilesInv
-----------------------------------------------------------------------------
(* The checks, and the journal that opens the transaction *)

LEMMA CheckInv ==
    ASSUME Inv, NEW p \in Proc, Check(p) \/ CheckRecover(p) PROVE EngineInv'
<1>1. pc[p] = "check" /\ pc[p] \in Critical /\ UNCHANGED Files
  BY CriticalLabels DEF Check, CheckRecover, Files
<1>2. TypeInv /\ Fresh /\ job[p] \in Job /\ LocalOK("check", job[p])
  BY <1>1, Here
<1>3. job[p].mode = "apply"
  BY <1>1, <1>2 DEF Fresh, Entering
<1>4. CASE Goto(p, "unlock") /\ UNCHANGED job
  <2>1. Moves(p, "unlock", job[p])
    BY <1>2, <1>4, SameJob
  <2>2. Progress("unlock", job[p])
    BY <1>3, Labels, LabelKinds DEF Progress, Achieved, Working, Journaled, Restoring,
       Removing, Finishing
  <2>3. QED BY <1>1, <2>1, <2>2, GoesOn, LabelKinds
<1>5. ASSUME NEW c \in Content, Admit(p, c), active = None, AsExpected(p),
             job[p].op \in {"PROMOTE", "ROLLBACK"},
             job[p].op = "PROMOTE" => NotInstalled(job[p].target),
             job[p].op = "ROLLBACK" => /\ CurrentRelease \notin {None, job[p].target}
                                       /\ Intact(job[p].target)
                                       /\ c = manifests[job[p].target]
      PROVE  EngineInv'
  <2> DEFINE j == [job[p] EXCEPT !.digest = c, !.previous = CurrentRelease]
  <2>1. Moves(p, "begin", j)
    BY <1>2, <1>5 DEF Admit, Moves, TypeInv, CallsTyped
  <2>2. /\ j.tx = job[p].tx /\ j.mode = job[p].mode /\ j.op = job[p].op
        /\ j.target = job[p].target /\ j.expected = job[p].expected
        /\ j.digest = c /\ j.previous = CurrentRelease
    BY <1>2 DEF Job
  <2>3. Admitted(j)
    BY <1>5, <2>2 DEF Admitted, AsExpected, Intact
  <2>4. Progress("begin", j)
    BY <1>3, <2>2, <2>3, Labels, LabelKinds DEF Progress, Working, Journaled, Restoring,
       Removing, Finishing
  <2>5. history' = history /\ active' = None
    BY <1>1, <1>5 DEF Files, journals
  <2>6. Fresh'
    BY <1>1, <1>5, <2>1, <2>2, <2>5, FreshStep DEF Entering
  <2>7. QED BY <1>1, <2>1, <2>4, <2>6, ReaderStep
<1>6. CASE Check(p)
  <2>1. CASE job[p].op = "PROMOTE" /\ MayPromote(p) /\ \E c \in Content : Admit(p, c)
    BY <1>5, <2>1 DEF MayPromote
  <2>2. CASE job[p].op = "ROLLBACK" /\ MayRollback(p) /\ Admit(p, manifests[job[p].target])
    <3>1. manifests[job[p].target] \in Content
      BY <1>2, <2>2 DEF LocalOK, MayRollback, Intact, TypeInv, FilesTyped
    <3>2. QED BY <1>5, <2>2, <3>1 DEF MayRollback
  <2>3. QED BY <1>4, <1>6, <2>1, <2>2 DEF Check
<1>7. ASSUME active # None, Goto(p, ResumeAt(active.status)), job[p].op = "RECOVER",
             job' = [job EXCEPT ![p].journal = active, ![p].mode = "recover"]
      PROVE  EngineInv'
  <2> DEFINE j == [job[p] EXCEPT !.journal = active, !.mode = "recover"]
             to == ResumeAt(active.status)
  <2>1. Moves(p, to, j)
    BY <1>2, <1>7 DEF Moves, TypeInv, CallsTyped
  <2>2. j.tx = job[p].tx /\ j.mode = "recover" /\ j.op = "RECOVER" /\ j.journal = active
    BY <1>2, <1>7 DEF Job
  <2>3. Owns(j)
    BY <1>7, <2>2 DEF Owns
  <2>4. CASE active.status \in FinalStatus
    <3>1. to = "finish_active"
      BY <2>4 DEF ResumeAt
    <3>2. Progress("finish_active", j)
      BY <2>2, <2>3, <2>4 DEF Progress, Working, Staging, Pointing, Restoring, Removing
    <3>3. "finish_active" \notin Entering
      BY DEF Entering
    <3>4. QED BY <1>1, <2>1, <2>2, <3>1, <3>2, <3>3, GoesOn
  <2>5. CASE active.status \notin FinalStatus
    <3>1. to = "restore_archive"
      BY <2>5 DEF ResumeAt
    <3>2. Progress("restore_archive", j)
      BY <2>2, <2>3, <2>5 DEF Progress, Working, Staging, Pointing, Removing, RestoredTo
    <3>3. "restore_archive" \notin Entering
      BY DEF Entering
    <3>4. QED BY <1>1, <2>1, <2>2, <3>1, <3>2, <3>3, GoesOn
  <2>6. QED BY <2>4, <2>5
<1>8. QED BY <1>4, <1>6, <1>7 DEF CheckRecover

(* The journal that a call writes describes an accepted workspace.          *)
LEMMA BeginInv ==
    ASSUME Inv, NEW p \in Proc, Begin(p) PROVE EngineInv'
<1> DEFINE a == [tx |-> job[p].tx, op |-> job[p].op, status |-> "PREPARED",
                 target |-> job[p].target, prev |-> Snapshots]
           to == IF job[p].op = "PROMOTE" THEN "copy" ELSE "archive"
           j == [job[p] EXCEPT !.journal = a]
<1>1. /\ pc[p] = "begin" /\ pc[p] \in Critical /\ pc[p] \in Entering
      /\ Goto(p, to) /\ active' = a
      /\ job' = [job EXCEPT ![p].journal = a]
      /\ UNCHANGED <<pointerFiles, history, trees>>
  BY CriticalLabels, LabelKinds DEF Begin, Go, Entering
<1>2. /\ TypeInv /\ FilesInv /\ Fresh /\ Progress("begin", job[p])
      /\ job[p] \in Job /\ LocalOK("begin", job[p])
  BY <1>1, Here
<1>3. /\ Admitted(job[p]) /\ active = None /\ job[p].mode = "apply"
      /\ job[p].op \in {"PROMOTE", "ROLLBACK"} /\ job[p].digest \in Content
      /\ job[p].tx \in Tx /\ job[p].target \in Release
  BY <1>1, <1>2 DEF Progress, Admitted, Fresh, LocalOK
<1>4. job[p].tx # None /\ history[job[p].tx] = None
  BY <1>1, <1>2, <1>3, SentinelAssumption DEF Fresh
<1>5. /\ current' = current /\ lastSuccess' = lastSuccess /\ archive' = archive
      /\ history' = history
      /\ releases' = releases /\ manifests' = manifests
      /\ stagedReleases' = stagedReleases /\ stagedManifests' = stagedManifests
  BY <1>1 DEF pointerFiles, trees
<1>6. a \in Journal /\ active' # None /\ Snapshots \in Previous
  BY <1>1, <1>2, <1>3, SnapshotsTyped, DocumentAssumption DEF Journal, Status
<1>7. Snapshots' = Snapshots /\ Accepted = Snapshots /\ Accepted' = Snapshots
  BY <1>1, <1>3, <1>5, <1>6 DEF Snapshots, Accepted
<1>8. Consistent(Snapshots)
  BY <1>2, <1>7 DEF FilesInv, AcceptedIsConsistent
<1>9. AcceptedIsConsistent' /\ PointersHaveRecords' /\ NothingLeftBehind'
  <2>1. AcceptedIsConsistent'
    BY <1>5, <1>7, <1>8 DEF AcceptedIsConsistent, Consistent, Installed
  <2>2. PointersHaveRecords'
    BY <1>2, <1>5, <1>7 DEF FilesInv, PointersHaveRecords
  <2>3. QED BY <1>6, <2>1, <2>2 DEF NothingLeftBehind
<1>10. /\ \A t \in Tx : Unstaged(t)
       /\ \A r \in Release : ~NotInstalled(r) => Names(Snapshots, r)
  BY <1>2, <1>3, SentinelAssumption
  DEF FilesInv, NothingLeftBehind, Unstaged, NotInstalled, Names, Snapshots, CurrentRelease
<1>11. \A r \in Release : Names(Snapshots, r) => ~NotInstalled(r)
  BY <1>6, <1>8, SentinelAssumption
  DEF Names, Consistent, Installed, NotInstalled, Previous, Pointer, Entry
<1>12. job[p].op = "ROLLBACK" =>
          /\ current # None
          /\ \E e \in archive : e.release = job[p].target
          /\ releases[job[p].target] = job[p].digest
          /\ manifests[job[p].target] = job[p].digest
  BY <1>3, <1>10, SentinelAssumption
  DEF Admitted, CurrentRelease, NotInstalled, Names, Snapshots
<1>13. OpenOK(a)
  BY <1>3, <1>4, <1>10, <1>11, <1>12 DEF OpenOK, Admitted, Snapshots
<1>14. OpenOK(active)'
  BY <1>1, <1>5, <1>7, <1>13 DEF OpenOK, Unstaged, NotInstalled
<1>15. FilesInv'
  BY <1>9, <1>14 DEF FilesInv
<1>16. Moves(p, to, j) /\ j \in Job
  BY <1>1, <1>2, <1>6 DEF Moves, TypeInv, CallsTyped, Job
<1>17. /\ j.tx = job[p].tx /\ j.mode = "apply" /\ j.op = job[p].op /\ j.journal = a
       /\ j.target = job[p].target /\ j.expected = job[p].expected
       /\ j.digest = job[p].digest /\ j.previous = CurrentRelease
  BY <1>2, <1>3 DEF Job, Admitted
<1>18. to \in {"copy", "archive"} /\ to \in Working /\ to \notin Entering
  BY DEF Working, Staging, Pointing, Entering
<1>19. PreviousRelease(a) = CurrentRelease
  BY DEF PreviousRelease, CurrentRelease, Snapshots
<1>20. /\ pc'[p] = to /\ job'[p] = j /\ PreviousRelease(active)' = PreviousRelease(a)
       /\ to = "copy" => job[p].op = "PROMOTE"
       /\ to = "archive" => job[p].op = "ROLLBACK"
  BY <1>1, <1>2, <1>3, <1>16, Moved DEF PreviousRelease
<1>21. Owns(job[p])'
  BY <1>1, <1>3, <1>6, <1>17, <1>19, <1>20 DEF Owns, Admitted
<1>22. Placed(pc[p], job[p])'
  BY <1>3, <1>5, <1>10, <1>12, <1>17, <1>18, <1>20 DEF Placed, Pointing, Unstaged
<1>23. Pointed(pc[p], job[p])'
  BY <1>1, <1>7, <1>17, <1>18, <1>19, <1>20 DEF Pointed
<1>24. Applying(pc[p], job[p])'
  BY <1>1, <1>3, <1>17, <1>18, <1>20, <1>22, <1>23 DEF Applying, FinalStatus, Staging
<1>25. Progress(pc[p], job[p])'
  BY <1>17, <1>18, <1>20, <1>21, <1>24 DEF Progress, Restoring, Removing
<1>26. active'.tx = job[p].tx
  BY <1>1
<1>27. Fresh'
  BY <1>4, <1>5, <1>16, <1>17, <1>18, <1>26, FreshStep
<1>28. QED BY <1>1, <1>15, <1>16, <1>25, <1>27, WriterStep
-----------------------------------------------------------------------------
(* The body of the try *)

LEMMA AtWork ==
    ASSUME Inv, NEW p \in Proc,
           \/ pc[p] \in Working
           \/ pc[p] = "finish_active" /\ job[p].mode = "apply"
    PROVE  /\ TypeInv /\ pc[p] \in Critical /\ OpenOK(active)
           /\ Owns(job[p]) /\ Applying(pc[p], job[p])
           /\ job[p].mode = "apply" /\ active # None /\ active.status \notin FinalStatus
           /\ job[p].tx = active.tx /\ active.tx \in Tx
           /\ job[p].target = active.target /\ active.target \in Release
           /\ job[p].op = active.op /\ active.op \in {"PROMOTE", "ROLLBACK"}
           /\ job[p].digest \in Content /\ job[p] \in Job
<1>1. pc[p] \in Critical /\ pc[p] \in Journaled
  BY LabelKinds, Labels DEF Journaled, Finishing
<1>2. /\ TypeInv /\ FilesInv /\ Progress(pc[p], job[p])
      /\ job[p] \in Job /\ LocalOK(pc[p], job[p])
  BY <1>1, Here
<1>3. Owns(job[p]) /\ job[p].mode = "apply" /\ Applying(pc[p], job[p])
  BY <1>1, <1>2 DEF Progress
<1>4. active # None
  BY <1>3 DEF Owns
<1>5. OpenOK(active) /\ active.tx \in Tx /\ active.target \in Release
      /\ active.op \in {"PROMOTE", "ROLLBACK"}
  BY <1>2, <1>4, JournalTyped DEF FilesInv
<1>6. QED BY <1>1, <1>2, <1>3, <1>4, <1>5 DEF Owns, Applying, LocalOK

LEMMA RaiseInv ==
    ASSUME Inv, NEW p \in Proc, Raise(p), FilesInv', UNCHANGED journals,
           \/ pc[p] \in Working
           \/ pc[p] = "finish_active" /\ job[p].mode = "apply"
    PROVE  EngineInv'
<1> DEFINE j == [job[p] EXCEPT !.mode = "abort"]
<1>1. /\ TypeInv /\ pc[p] \in Critical /\ Owns(job[p]) /\ active # None
      /\ active.status \notin FinalStatus /\ job[p] \in Job /\ job[p].mode = "apply"
  BY AtWork
<1>2. Moves(p, "restore_current", j)
  BY <1>1 DEF Raise, Moves, TypeInv, CallsTyped
<1>3. /\ j.tx = job[p].tx /\ j.mode = "abort" /\ j.op = job[p].op
      /\ j.journal = job[p].journal
      /\ j.target = job[p].target /\ j.expected = job[p].expected
  BY <1>1 DEF Job
<1>4. pc'[p] = "restore_current" /\ job'[p] = j
  BY <1>1, <1>2, Moved
<1>5. active' = active /\ history' = history
  BY DEF journals
<1>6. Owns(job[p])'
  BY <1>1, <1>3, <1>4, <1>5 DEF Owns, PreviousRelease
<1>7. Progress(pc[p], job[p])'
  BY <1>1, <1>3, <1>4, <1>5, <1>6
  DEF Progress, Working, Staging, Pointing, Removing, RestoredTo
<1>8. "restore_current" \notin Entering
  BY DEF Entering
<1>9. active'.tx = active.tx
  BY <1>5
<1>10. QED BY <1>1, <1>2, <1>3, <1>5, <1>7, <1>8, <1>9, Writes

LEMMA StaysAtWork ==
    ASSUME Inv, NEW p \in Proc, pc[p] \in Working, UNCHANGED <<job, journals>>,
           NEW to \in Working \cup {"finish_active"}, Goto(p, to),
           to \in Staging => job[p].op = "PROMOTE",
           FilesInv', Placed(to, job[p])', Pointed(to, job[p])'
    PROVE  EngineInv'
<1>1. /\ TypeInv /\ pc[p] \in Critical /\ Owns(job[p]) /\ active # None
      /\ active.status \notin FinalStatus /\ job[p] \in Job /\ job[p].mode = "apply"
      /\ job[p].digest \in Content
  BY AtWork
<1>2. Moves(p, to, job[p]) /\ job' = job /\ pc'[p] = to
  BY <1>1, SameJob, Moved
<1>3. active' = active /\ history' = history
  BY DEF journals
<1>4. Owns(job[p])'
  BY <1>1, <1>2, <1>3 DEF Owns, PreviousRelease
<1>5. Applying(pc[p], job[p])'
  BY <1>1, <1>2, <1>3 DEF Applying
<1>6. Progress(pc[p], job[p])'
  BY <1>1, <1>2, <1>4, <1>5
  DEF Progress, Working, Staging, Pointing, Restoring, Removing
<1>7. to \notin Entering /\ active'.tx = active.tx
  BY <1>3 DEF Entering, Working, Staging, Pointing
<1>8. QED BY <1>1, <1>2, <1>3, <1>6, <1>7, Writes

(* A step that only touches the files of its own promotion.                 *)
LEMMA OwnTrees ==
    ASSUME Inv, NEW p \in Proc, pc[p] \in Working, job[p].op = "PROMOTE",
           UNCHANGED <<pointerFiles, journals>>,
           \A r \in Release \ {job[p].target} : /\ releases'[r] = releases[r]
                                                /\ manifests'[r] = manifests[r],
           \A t \in Tx \ {job[p].tx} : /\ stagedReleases'[t] = stagedReleases[t]
                                       /\ stagedManifests'[t] = stagedManifests[t]
    PROVE  FilesInv'
BY AtWork, TreesWritten

(* While files are staged and installed, the pointer files are as before.   *)
LEMMA StagingPointed ==
    ASSUME Inv, NEW p \in Proc, pc[p] \in Staging, UNCHANGED <<job, pointerFiles, journals>>,
           NEW to \in Staging \cup {"archive"}
    PROVE  Pointed(to, job[p])'
<1>1. Pointed(pc[p], job[p])
  BY AtWork DEF Working, Applying
<1>2. Snapshots' = Snapshots /\ active' = active
  BY DEF pointerFiles, journals, Snapshots
<1>3. to \notin {"current", "last_success", "finish_active"}
  BY DEF Staging
<1>4. QED BY <1>1, <1>2, <1>3 DEF Pointed, PreviousRelease

LEMMA StagingInv ==
    ASSUME Inv, NEW p \in Proc,
           \/ CopyTree(p) \/ Reconcile(p) \/ StageManifest(p)
           \/ InstallRelease(p) \/ InstallManifest(p)
    PROVE  EngineInv'
<1> DEFINE t == job[p].tx
           r == job[p].target
<1>1. pc[p] \in Staging /\ pc[p] \in Working /\ UNCHANGED <<pointerFiles, journals>>
  BY DEF CopyTree, Reconcile, StageManifest, InstallRelease, InstallManifest, Go,
     Staging, Working
<1>2. /\ TypeInv /\ Applying(pc[p], job[p]) /\ t \in Tx /\ r \in Release
      /\ job[p].digest \in Content
  BY <1>1, AtWork
<1>3. job[p].op = "PROMOTE" /\ Placed(pc[p], job[p])
  BY <1>1, <1>2 DEF Applying
<1>4. /\ stagedReleases \in [Tx -> Tree] /\ stagedManifests \in [Tx -> Content \cup {None}]
      /\ releases \in [Release -> Tree] /\ manifests \in [Release -> Content \cup {None}]
  BY <1>2 DEF TypeInv, FilesTyped
<1>5. /\ \A x \in Release \ {r} : releases'[x] = releases[x] /\ manifests'[x] = manifests[x]
      /\ \A x \in Tx \ {t} : /\ stagedReleases'[x] = stagedReleases[x]
                             /\ stagedManifests'[x] = stagedManifests[x]
  <2>1. CASE CopyTree(p) \/ Reconcile(p)
    BY <1>4, <2>1 DEF CopyTree, Reconcile
  <2>2. CASE StageManifest(p) \/ InstallRelease(p) \/ InstallManifest(p)
    BY <1>4, <2>2 DEF StageManifest, InstallRelease, InstallManifest
  <2>3. QED BY <2>1, <2>2
<1>6. FilesInv'
  BY <1>1, <1>3, <1>5, OwnTrees
<1>7. ASSUME NEW to \in Staging, Goto(p, to), UNCHANGED job, Placed(to, job[p])'
      PROVE  EngineInv'
  <2>1. Pointed(to, job[p])'
    BY <1>1, <1>7, StagingPointed
  <2>2. to \in Working
    BY DEF Working
  <2>3. QED BY <1>1, <1>3, <1>6, <1>7, <2>1, <2>2, StaysAtWork
<1>8. CASE Raise(p)
  BY <1>1, <1>6, <1>8, RaiseInv
<1>9. {"copying", "stage_manifest", "mark_staged", "install_manifest", "mark_installed"}
        \subseteq Staging
  BY DEF Staging
<1>10. CASE CopyTree(p)
  <2>1. CASE Goto(p, "copying") /\ UNCHANGED job
    <3>1. Placed("copying", job[p])'
      BY DEF Placed, Pointing
    <3>2. QED BY <1>7, <1>9, <2>1, <3>1
  <2>2. QED BY <1>8, <1>10, <2>1 DEF CopyTree
<1>11. CASE Reconcile(p)
  <2>1. PICK c \in Content :
           /\ stagedReleases' = [stagedReleases EXCEPT ![t] = c]
           /\ \/ CopyMatches(p, c) /\ Goto(p, "stage_manifest") /\ UNCHANGED job
              \/ Raise(p)
    BY <1>11 DEF Reconcile
  <2>2. CASE CopyMatches(p, c) /\ Goto(p, "stage_manifest") /\ UNCHANGED job
    <3>1. stagedReleases'[t] = job[p].digest
      BY <1>2, <1>4, <2>1, <2>2 DEF CopyMatches
    <3>2. Placed("stage_manifest", job[p])'
      BY <2>2, <3>1 DEF Placed, Pointing
    <3>3. QED BY <1>7, <1>9, <2>2, <3>2
  <2>3. QED BY <1>8, <2>1, <2>2
<1>12. CASE StageManifest(p)
  <2>1. /\ Goto(p, "mark_staged") /\ UNCHANGED job /\ pc[p] = "stage_manifest"
        /\ stagedReleases' = stagedReleases
        /\ stagedManifests'[t] = job[p].digest
    BY <1>2, <1>4, <1>12 DEF StageManifest, Go
  <2>2. stagedReleases[t] = job[p].digest
    BY <1>3, <2>1 DEF Placed
  <2>3. Placed("mark_staged", job[p])'
    BY <2>1, <2>2 DEF Placed, Pointing
  <2>4. QED BY <1>7, <1>9, <2>1, <2>3
<1>13. CASE InstallRelease(p)
  <2>1. CASE ~Raise(p)
    <3>1. /\ Goto(p, "install_manifest") /\ UNCHANGED job /\ pc[p] = "install_release"
          /\ releases' = [releases EXCEPT ![r] = stagedReleases[t]]
          /\ stagedReleases' = [stagedReleases EXCEPT ![t] = None]
          /\ stagedManifests' = stagedManifests
      BY <1>13, <2>1 DEF InstallRelease
    <3>2. stagedReleases[t] = job[p].digest /\ stagedManifests[t] = job[p].digest
      BY <1>3, <3>1 DEF Placed
    <3>3. releases'[r] = job[p].digest /\ stagedReleases'[t] = None
      BY <1>2, <1>4, <3>1, <3>2
    <3>4. Placed("install_manifest", job[p])'
      BY <3>1, <3>2, <3>3 DEF Placed, Pointing
    <3>5. QED BY <1>7, <1>9, <3>1, <3>4
  <2>2. QED BY <1>8, <2>1
<1>14. CASE InstallManifest(p)
  <2>1. CASE ~Raise(p)
    <3>1. /\ Goto(p, "mark_installed") /\ UNCHANGED job /\ pc[p] = "install_manifest"
          /\ manifests' = [manifests EXCEPT ![r] = stagedManifests[t]]
          /\ stagedManifests' = [stagedManifests EXCEPT ![t] = None]
          /\ stagedReleases' = stagedReleases /\ releases' = releases
      BY <1>14, <2>1 DEF InstallManifest
    <3>2. /\ stagedReleases[t] = None /\ stagedManifests[t] = job[p].digest
          /\ releases[r] = job[p].digest
      BY <1>3, <3>1 DEF Placed
    <3>3. manifests'[r] = job[p].digest /\ stagedManifests'[t] = None
      BY <1>2, <1>4, <3>1, <3>2
    <3>4. Placed("mark_installed", job[p])'
      BY <3>1, <3>2, <3>3 DEF Placed, Pointing
    <3>5. QED BY <1>7, <1>9, <3>1, <3>4
  <2>2. QED BY <1>8, <2>1
<1>15. QED BY <1>10, <1>11, <1>12, <1>13, <1>14

(* Until a status is decided there is no record.                            *)
LEMMA Unrecorded ==
    ASSUME TypeInv, active # None, OpenOK(active), active.status \notin FinalStatus
    PROVE  history[active.tx] = None
BY JournalTyped DEF OpenOK, TypeInv, FilesTyped

LEMMA MarkInv ==
    ASSUME Inv, NEW p \in Proc, Mark(p) PROVE EngineInv'
<1>1. PICK to \in {"install_release", "archive"}, s \in {"STAGED", "INSTALLED"} :
         /\ Goto(p, to) /\ WriteJournal(p, s)
         /\ pc[p] = IF to = "archive" THEN "mark_installed" ELSE "mark_staged"
  BY DEF Mark, Go
<1>2. pc[p] \in Working /\ pc[p] \in Staging /\ to \in Working /\ to \notin Entering
  BY <1>1 DEF Working, Staging, Pointing, Entering
<1>3. /\ TypeInv /\ pc[p] \in Critical /\ OpenOK(active) /\ Owns(job[p])
      /\ Applying(pc[p], job[p]) /\ active # None /\ active.status \notin FinalStatus
      /\ job[p].mode = "apply" /\ job[p] \in Job
  BY <1>2, AtWork
<1>4. UNCHANGED <<pointerFiles, history, trees>>
  BY DEF Mark
<1>5. /\ current' = current /\ lastSuccess' = lastSuccess /\ archive' = archive
      /\ history' = history
      /\ releases' = releases /\ manifests' = manifests
      /\ stagedReleases' = stagedReleases /\ stagedManifests' = stagedManifests
      /\ Snapshots' = Snapshots
  BY <1>4 DEF pointerFiles, trees, Snapshots
<1>6. active' = [active EXCEPT !.status = s]
      /\ job' = [job EXCEPT ![p].journal = active']
  BY <1>1, <1>3 DEF WriteJournal, Owns
<1>7. s \in Status /\ s \notin FinalStatus
      /\ s \notin {"COMMITTED", "ROLLED_BACK", "RECOVERED"}
  BY DEF Status, FinalStatus
<1>8. FilesInv'
  BY <1>3, <1>4, <1>6, <1>7, Unrecorded, StatusWritten
<1>9. /\ active' # None /\ active'.tx = active.tx /\ active'.op = active.op
      /\ active'.target = active.target /\ active'.prev = active.prev
      /\ active'.status = s
  BY <1>3, <1>6, <1>7, JournalTyped, DocumentAssumption DEF Journal
<1>10. Moves(p, to, [job[p] EXCEPT !.journal = active'])
  BY <1>1, <1>3, <1>6 DEF Moves, TypeInv, CallsTyped
<1>11. /\ pc'[p] = to /\ job'[p].journal = active' /\ job'[p].tx = job[p].tx
       /\ job'[p].op = job[p].op /\ job'[p].target = job[p].target
       /\ job'[p].expected = job[p].expected /\ job'[p].mode = job[p].mode
       /\ job'[p].digest = job[p].digest /\ job'[p].previous = job[p].previous
       /\ job'[p].reason = job[p].reason
  BY <1>3, <1>10, Moved DEF Job
<1>12. Owns(job[p])'
  BY <1>3, <1>9, <1>11 DEF Owns, PreviousRelease
<1>13. Placed(pc[p], job[p])'
  BY <1>1, <1>3, <1>5, <1>11 DEF Applying, Placed, Pointing
<1>14. Pointed(pc[p], job[p])'
  BY <1>1, <1>2, <1>3, <1>5, <1>9, <1>11 DEF Applying, Pointed, PreviousRelease
<1>15. Applying(pc[p], job[p])'
  BY <1>2, <1>3, <1>7, <1>9, <1>11, <1>13, <1>14 DEF Applying
<1>16. Progress(pc[p], job[p])'
  BY <1>1, <1>2, <1>3, <1>11, <1>12, <1>15
  DEF Progress, Working, Staging, Pointing, Restoring, Removing
<1>17. [job[p] EXCEPT !.journal = active'].tx = job[p].tx
  BY <1>3 DEF Job
<1>18. QED BY <1>2, <1>3, <1>5, <1>8, <1>9, <1>10, <1>16, <1>17, Writes

(* archive_previous over the entries that are kept leaves what ArchiveAfter *)
(* says: the old release archived, the new one not.                         *)
LEMMA Archives ==
    ASSUME TypeInv, FilesInv, NEW p \in Proc, active # None, OpenOK(active),
           Snapshots = active.prev, job[p].previous = PreviousRelease(active),
           job[p].target = active.target, job[p].tx = active.tx,
           job[p].op = active.op
    PROVE  (IF job[p].previous # None
            THEN ArchivePrevious(KeptEntries(p), current, job[p]) ELSE archive)
               = ArchiveAfter(active, job[p].reason)
<1>1. current = active.prev.current /\ archive = active.prev.archive
  BY DEF Snapshots
<1>2. Consistent(active.prev)
  BY DEF FilesInv, AcceptedIsConsistent, Accepted
<1>3. current # None => current.release # None
  BY SentinelAssumption DEF TypeInv, FilesTyped, Pointer
<1>4. CASE current = None
  <2>1. job[p].previous = None /\ archive = {}
    BY <1>1, <1>2, <1>4 DEF PreviousRelease, Consistent
  <2>2. QED BY <1>1, <1>4, <2>1 DEF ArchiveAfter
<1>5. CASE current # None
  <2>1. job[p].previous = current.release /\ job[p].previous # None
    BY <1>1, <1>3, <1>5 DEF PreviousRelease
  <2>2. \A e \in archive : e.release # current.release
    BY <1>1, <1>2 DEF Consistent
  <2>3. job[p].op = "PROMOTE" => \A e \in archive : e.release # job[p].target
    BY <1>1 DEF OpenOK, Names
  <2>4. {e \in KeptEntries(p) : e.release # current.release}
           = {e \in archive : e.release # job[p].target}
    BY <2>1, <2>2, <2>3 DEF KeptEntries
  <2>5. QED BY <1>1, <1>5, <2>1, <2>4 DEF ArchivePrevious, ArchiveAfter
<1>6. QED BY <1>4, <1>5

LEMMA PointingInv ==
    ASSUME Inv, NEW p \in Proc, Archive(p) \/ SetCurrent(p) \/ SetLastSuccess(p)
    PROVE  EngineInv'
<1>1. /\ pc[p] \in Pointing /\ pc[p] \in Working /\ UNCHANGED <<journals, trees>>
  BY DEF Archive, SetCurrent, SetLastSuccess, Go, Pointing, Working
<1>2. /\ TypeInv /\ OpenOK(active) /\ Owns(job[p]) /\ Applying(pc[p], job[p])
      /\ active # None /\ active.status \notin FinalStatus
      /\ job[p].tx = active.tx /\ job[p].target = active.target /\ job[p].op = active.op
      /\ job[p].digest \in Content
  BY <1>1, AtWork
<1>3. Placed(pc[p], job[p]) /\ Pointed(pc[p], job[p])
  BY <1>2 DEF Applying
<1>4. FilesInv'
  BY <1>1, <1>2, PointersWritten
<1>5. ASSUME NEW to \in {"current", "last_success", "finish_active"},
             Goto(p, to), UNCHANGED job, Pointed(to, job[p])'
      PROVE  EngineInv'
  <2>1. to \in Working \cup {"finish_active"} /\ to \notin Staging
    BY DEF Working, Staging, Pointing
  <2>2. /\ releases' = releases /\ manifests' = manifests
        /\ stagedReleases' = stagedReleases /\ stagedManifests' = stagedManifests
    BY <1>1 DEF trees
  <2>3. Placed(to, job[p])'
    BY <1>1, <1>3, <1>5, <2>2 DEF Placed, Pointing
  <2>4. QED BY <1>1, <1>4, <1>5, <2>1, <2>3, StaysAtWork
<1>6. active' = active /\ PreviousRelease(active)' = PreviousRelease(active)
  BY <1>1 DEF journals, PreviousRelease
<1>7. CASE Archive(p)
  <2>1. CASE Raise(p)
    BY <1>1, <1>4, <2>1, RaiseInv
  <2>2. CASE ~Raise(p)
    <3>1. /\ pc[p] = "archive" /\ Goto(p, "current") /\ UNCHANGED job
          /\ archive' = IF job[p].previous # None
                        THEN ArchivePrevious(KeptEntries(p), current, job[p])
                        ELSE archive
      BY <1>7, <2>2 DEF Archive
    <3>2. Snapshots = active.prev /\ job[p].previous = PreviousRelease(active)
      BY <1>3, <3>1 DEF Pointed
    <3>3. FilesInv
      BY DEF Inv, EngineInv
    <3>4. archive' = ArchiveAfter(active, job[p].reason)
      BY <1>2, <3>1, <3>2, <3>3, Archives
    <3>5. Pointed("current", job[p])'
      BY <1>6, <3>1, <3>2, <3>4 DEF Pointed, Staging, ArchiveAfter
    <3>6. QED BY <1>5, <3>1, <3>5
  <2>3. QED BY <2>1, <2>2
<1>8. CASE SetCurrent(p)
  <2>1. /\ pc[p] = "current" /\ Goto(p, "last_success") /\ UNCHANGED job
        /\ current' = PointerOf(job[p]) /\ archive' = archive
    BY <1>8 DEF SetCurrent, Go, NewPointer, PointerOf
  <2>2. Pointed("last_success", job[p])'
    BY <1>3, <1>6, <2>1 DEF Pointed, Staging, ArchiveAfter, PointerOf
  <2>3. QED BY <1>5, <2>1, <2>2
<1>9. CASE SetLastSuccess(p)
  <2>1. /\ pc[p] = "last_success" /\ Goto(p, "finish_active") /\ UNCHANGED job
        /\ lastSuccess' = PointerOf(job[p]) /\ archive' = archive /\ current' = current
    BY <1>9 DEF SetLastSuccess, Go, NewPointer, PointerOf
  <2>2. Pointed("finish_active", job[p])'
    BY <1>3, <1>6, <2>1 DEF Pointed, Staging, ArchiveAfter, PointerOf
  <2>3. QED BY <1>5, <2>1, <2>2
<1>10. QED BY <1>7, <1>8, <1>9
-----------------------------------------------------------------------------
(* finish_journal *)

(* A call under a journal, whichever part of the code it is in.             *)
LEMMA UnderJournal ==
    ASSUME Inv, NEW p \in Proc, pc[p] \in Journaled
    PROVE  /\ TypeInv /\ FilesInv /\ pc[p] \in Critical /\ Progress(pc[p], job[p])
           /\ job[p] \in Job /\ Owns(job[p])
           /\ active # None /\ job[p].journal = active
           /\ OpenOK(active) /\ Consistent(active.prev)
           /\ active \in Journal /\ active.tx \in Tx /\ active.target \in Release
<1>1. pc[p] \in Critical
  BY LabelKinds
<1>2. TypeInv /\ FilesInv /\ Progress(pc[p], job[p]) /\ job[p] \in Job
  BY <1>1, Here
<1>3. Owns(job[p])
  BY <1>2 DEF Progress
<1>4. active # None /\ job[p].journal = active
  BY <1>3 DEF Owns
<1>5. QED BY <1>1, <1>2, <1>3, <1>4, JournalTyped
          DEF FilesInv, AcceptedIsConsistent, Accepted

LEMMA AppliedIsDone ==
    ASSUME Inv, NEW p \in Proc, pc[p] = "finish_active", job[p].mode = "apply"
    PROVE  InForce(active) /\ current = PointerOf(job[p]) /\ lastSuccess = current
<1>1. /\ TypeInv /\ Applying("finish_active", job[p]) /\ active # None
      /\ job[p].tx = active.tx /\ job[p].target = active.target
      /\ active.tx \in Tx /\ active.target \in Release /\ job[p] \in Job
  BY AtWork
<1>2. /\ archive = ArchiveAfter(active, job[p].reason)
      /\ current = PointerOf(job[p]) /\ lastSuccess = PointerOf(job[p])
      /\ Unstaged(active.tx)
      /\ releases[active.target] = job[p].digest
      /\ manifests[active.target] = job[p].digest
  BY <1>1 DEF Applying, Placed, Pointed, Unstaged
<1>3. job[p].reason \in Reason
  BY <1>1 DEF Job
<1>4. current # None
  <2>1. PointerOf(job[p]) \in Pointer
    BY <1>1 DEF PointerOf, Pointer, Applying
  <2>2. QED BY <1>2, <2>1, DocumentAssumption
<1>5. QED BY <1>1, <1>2, <1>3, <1>4 DEF InForce, Installed, PointerOf

LEMMA FinishActiveInv ==
    ASSUME Inv, NEW p \in Proc, FinishActive(p) PROVE EngineInv'
<1> DEFINE s == Outcome(p)
<1>1. /\ pc[p] = "finish_active" /\ Goto(p, "finish_history") /\ WriteJournal(p, s)
      /\ UNCHANGED <<pointerFiles, history, trees>>
      /\ pc[p] \in Journaled
  BY DEF FinishActive, Go, Journaled, Finishing
<1>2. /\ TypeInv /\ pc[p] \in Critical /\ Progress("finish_active", job[p])
      /\ job[p] \in Job /\ Owns(job[p]) /\ active # None /\ job[p].journal = active
      /\ OpenOK(active) /\ active \in Journal
  BY <1>1, UnderJournal
<1>3. job[p].mode \in {"apply", "abort", "recover"}
  BY <1>2 DEF Owns
<1>4. /\ s \in FinalStatus /\ s \in Status
      /\ job[p].mode = "apply" => s = "COMMITTED"
      /\ job[p].mode = "abort" => s = "ROLLED_BACK"
      /\ job[p].mode = "recover" =>
            s = IF active.status \in FinalStatus THEN active.status ELSE "RECOVERED"
  BY <1>2, <1>3 DEF Outcome, FinalStatus, Status
<1>5. job[p].mode = "apply" =>
         /\ active.status \notin FinalStatus /\ InForce(active)
         /\ current = PointerOf(job[p]) /\ lastSuccess = current
  BY <1>1, AtWork, AppliedIsDone
<1>6. /\ job[p].mode = "abort" => active.status \notin FinalStatus /\ Undone(active)
      /\ job[p].mode = "recover" /\ active.status \notin FinalStatus => Undone(active)
  BY <1>2 DEF Progress
<1>7. /\ history[active.tx] \in {None, s}
      /\ s = "COMMITTED" => InForce(active)
      /\ s \in {"ROLLED_BACK", "RECOVERED"} => Undone(active)
  <2>1. CASE active.status \notin FinalStatus
    BY <1>2, <1>3, <1>4, <1>5, <1>6, <2>1, Unrecorded
  <2>2. CASE active.status \in FinalStatus
    BY <1>2, <1>3, <1>4, <1>5, <1>6, <2>2 DEF OpenOK
  <2>3. QED BY <2>1, <2>2
<1>8. active' = [active EXCEPT !.status = s]
      /\ job' = [job EXCEPT ![p].journal = active']
  BY <1>1, <1>2 DEF WriteJournal
<1>9. FilesInv'
  BY <1>1, <1>2, <1>4, <1>7, <1>8, StatusWritten
<1>10. /\ active' # None /\ active'.tx = active.tx /\ active'.op = active.op
       /\ active'.target = active.target /\ active'.prev = active.prev
       /\ active'.status = s
  BY <1>2, <1>4, <1>8, DocumentAssumption DEF Journal
<1>11. Moves(p, "finish_history", [job[p] EXCEPT !.journal = active'])
  BY <1>1, <1>2, <1>8 DEF Moves, TypeInv, CallsTyped
<1>12. /\ pc'[p] = "finish_history" /\ job'[p].journal = active'
       /\ job'[p].tx = job[p].tx /\ job'[p].op = job[p].op
       /\ job'[p].target = job[p].target /\ job'[p].expected = job[p].expected
       /\ job'[p].mode = job[p].mode /\ job'[p].digest = job[p].digest
  BY <1>2, <1>11, Moved DEF Job
<1>13. Owns(job[p])'
  BY <1>2, <1>10, <1>12 DEF Owns, PreviousRelease
<1>14. current' = current /\ lastSuccess' = lastSuccess /\ history' = history
  BY <1>1 DEF pointerFiles
<1>15. Decided(pc[p], job[p])'
  BY <1>4, <1>5, <1>10, <1>12, <1>14 DEF Decided, PointerOf
<1>16. Progress(pc[p], job[p])'
  BY <1>3, <1>12, <1>13, <1>15
  DEF Progress, Working, Staging, Pointing, Restoring, Removing
<1>17. [job[p] EXCEPT !.journal = active'].tx = job[p].tx
       /\ "finish_history" \notin Entering
  BY <1>2 DEF Job, Entering
<1>18. QED BY <1>2, <1>9, <1>10, <1>11, <1>14, <1>16, <1>17, Writes

LEMMA FinishHistoryInv ==
    ASSUME Inv, NEW p \in Proc, FinishHistory(p) PROVE EngineInv'
<1>1. /\ pc[p] = "finish_history" /\ Goto(p, "finish_clear") /\ job' = job
      /\ history' = [history EXCEPT ![job[p].journal.tx] = job[p].journal.status]
      /\ UNCHANGED <<pointerFiles, active, trees>>
      /\ pc[p] \in Journaled
  BY DEF FinishHistory, Go, Journaled, Finishing
<1>2. /\ TypeInv /\ FilesInv /\ pc[p] \in Critical /\ Progress("finish_history", job[p])
      /\ Owns(job[p]) /\ active # None /\ job[p].journal = active
      /\ OpenOK(active) /\ Consistent(active.prev) /\ active.tx \in Tx
  BY <1>1, UnderJournal
<1>3. Decided("finish_history", job[p])
  BY <1>2 DEF Progress
<1>4. /\ history'[active.tx] = active.status
      /\ \A t \in Tx \ {active.tx} : history'[t] = history[t]
      /\ history[active.tx] \in {None, active.status}
  BY <1>1, <1>2 DEF OpenOK, TypeInv, FilesTyped
<1>5. /\ current' = current /\ lastSuccess' = lastSuccess /\ archive' = archive
      /\ active' = active
      /\ releases' = releases /\ manifests' = manifests
      /\ stagedReleases' = stagedReleases /\ stagedManifests' = stagedManifests
      /\ Snapshots' = Snapshots
  BY <1>1 DEF pointerFiles, trees, Snapshots
<1>6. AcceptedIsConsistent' /\ NothingLeftBehind'
  BY <1>2, <1>5 DEF AcceptedIsConsistent, Accepted, NothingLeftBehind, Consistent, Installed
<1>7. PointersHaveRecords'
  <2>1. \A t \in Tx : history[t] = "COMMITTED" => history'[t] = "COMMITTED"
    BY <1>3, <1>4, DocumentAssumption DEF Decided, FinalStatus
  <2>2. Accepted' = Accepted /\ Accepted \in Previous
    BY <1>2, <1>5, SnapshotsTyped DEF Accepted
  <2>3. /\ Accepted.current # None => Accepted.current.tx \in Tx
        /\ \A e \in Accepted.archive : e.tx \in Tx
    BY <2>2 DEF Previous, Pointer, Entry
  <2>4. QED BY <1>2, <2>1, <2>2, <2>3 DEF FilesInv, PointersHaveRecords
<1>8. OpenOK(active)'
  BY <1>2, <1>4, <1>5
  DEF OpenOK, Unstaged, NotInstalled, InForce, Undone, Installed, ArchiveAfter
<1>9. FilesInv'
  BY <1>5, <1>6, <1>7, <1>8 DEF FilesInv
<1>10. Moves(p, "finish_clear", job[p]) /\ pc'[p] = "finish_clear"
  BY <1>1, <1>2, SameJob, Moved
<1>11. Owns(job[p])' /\ Decided(pc[p], job[p])'
  BY <1>1, <1>2, <1>3, <1>4, <1>5, <1>10 DEF Owns, Decided, PreviousRelease
<1>12. Progress(pc[p], job[p])'
  BY <1>2, <1>10, <1>11
  DEF Progress, Owns, Working, Staging, Pointing, Restoring, Removing
<1>13. Fresh'
  BY <1>2, <1>4, <1>5, <1>10, FreshStep DEF Entering
<1>14. QED BY <1>2, <1>9, <1>10, <1>12, <1>13, WriterStep

(* What a carried out transaction leaves is a consistent workspace whose    *)
(* files are all accepted.                                                  *)
LEMMA DoneIsConsistent ==
    ASSUME TypeInv, active # None, OpenOK(active), Consistent(active.prev), InForce(active)
    PROVE  /\ Consistent(Snapshots)
           /\ \A r \in Release : ~NotInstalled(r) => Names(Snapshots, r)
<1> DEFINE s == active.prev
<1>1. PICK why \in Reason : archive = ArchiveAfter(active, why)
  BY DEF InForce
<1>2. /\ current # None /\ lastSuccess = current /\ current.release = active.target
      /\ Installed(current)
  BY DEF InForce
<1>3. s.current \in Pointer \cup {None} /\ s.archive \subseteq Entry
      /\ active.target \in Release /\ active.op \in {"PROMOTE", "ROLLBACK"}
  BY JournalTyped
<1>4. CASE s.current = None
  <2>1. archive = {} /\ s.archive = {}
    BY <1>1, <1>4 DEF ArchiveAfter, Consistent
  <2>2. active.op = "PROMOTE"
    BY <1>3, <1>4 DEF OpenOK
  <2>3. Consistent(Snapshots)
    BY <1>2, <2>1 DEF Consistent, Snapshots
  <2>4. \A r \in Release : ~Names(s, r)
    BY <1>4, <2>1 DEF Names
  <2>5. \A r \in Release : ~NotInstalled(r) => r = active.target
    BY <2>4 DEF OpenOK
  <2>6. QED BY <1>2, <2>3, <2>5 DEF Names, Snapshots
<1>5. CASE s.current # None
  <2> DEFINE new == [release |-> s.current.release, digest |-> s.current.digest,
                     tx |-> active.tx, reason |-> why]
  <2>1. archive = {e \in s.archive : e.release # active.target} \cup {new}
    BY <1>1, <1>5 DEF ArchiveAfter
  <2>2. new.release = s.current.release /\ new.digest = s.current.digest
    OBVIOUS
  <2>3. s.current.release # active.target
    BY <1>3, <1>5 DEF OpenOK, Names, Consistent
  <2>4. Installed(new) /\ new.release # active.target
    BY <1>5, <2>2, <2>3 DEF Consistent, Installed
  <2>5. \A e \in archive : Installed(e) /\ e.release # current.release
    BY <1>2, <2>1, <2>4 DEF Consistent
  <2>6. \A e, f \in archive : e.release = f.release => e = f
    BY <2>1, <2>2 DEF Consistent
  <2>7. Consistent(Snapshots)
    BY <1>2, <2>5, <2>6 DEF Consistent, Snapshots
  <2>8. ASSUME NEW r \in Release, ~NotInstalled(r) PROVE Names(Snapshots, r)
    <3>1. Names(s, r) \/ r = active.target
      BY <2>8 DEF OpenOK
    <3>2. CASE r = active.target
      BY <1>2, <3>2 DEF Names, Snapshots
    <3>3. CASE Names(s, r) /\ r # active.target
      <4>1. \E e \in archive : e.release = r
        BY <2>1, <2>2, <3>3 DEF Names
      <4>2. QED BY <4>1 DEF Names, Snapshots
    <3>4. QED BY <3>1, <3>2, <3>3
  <2>9. QED BY <2>7, <2>8
<1>6. QED BY <1>4, <1>5

LEMMA DoneHasRecords ==
    ASSUME PointersHaveRecords, active # None, InForce(active),
           history[active.tx] = "COMMITTED"
    PROVE  /\ history[current.tx] = "COMMITTED"
           /\ \A e \in archive : history[e.tx] = "COMMITTED"
<1>1. PICK why \in Reason : archive = ArchiveAfter(active, why)
  BY DEF InForce
<1>2. \A e \in active.prev.archive : history[e.tx] = "COMMITTED"
  BY DEF PointersHaveRecords, Accepted
<1>3. \A e \in archive : e \in active.prev.archive \/ e.tx = active.tx
  BY <1>1 DEF ArchiveAfter
<1>4. QED BY <1>2, <1>3 DEF InForce

(* What an undone one leaves is the workspace it began with.                *)
LEMMA UndoneIsConsistent ==
    ASSUME TypeInv, active # None, OpenOK(active), Consistent(active.prev),
           Undone(active)
    PROVE  /\ Consistent(Snapshots) /\ Unstaged(active.tx)
           /\ \A r \in Release : ~NotInstalled(r) => Names(Snapshots, r)
BY JournalTyped DEF OpenOK, Undone

LEMMA FinishClearInv ==
    ASSUME Inv, NEW p \in Proc, FinishClear(p) PROVE EngineInv'
<1> DEFINE j == [job[p] EXCEPT !.mode = "done"]
<1>1. /\ pc[p] = "finish_clear" /\ Goto(p, "unlock") /\ active' = None
      /\ job' = [job EXCEPT ![p].mode = "done"]
      /\ UNCHANGED <<pointerFiles, history, trees>>
      /\ pc[p] \in Journaled
  BY DEF FinishClear, Go, Journaled, Finishing
<1>2. /\ TypeInv /\ FilesInv /\ pc[p] \in Critical /\ Progress("finish_clear", job[p])
      /\ job[p] \in Job /\ Owns(job[p]) /\ active # None /\ job[p].journal = active
      /\ OpenOK(active) /\ Consistent(active.prev)
  BY <1>1, UnderJournal
<1>3. Decided("finish_clear", job[p])
  BY <1>2 DEF Progress
<1>4. /\ current' = current /\ lastSuccess' = lastSuccess /\ archive' = archive
      /\ history' = history
      /\ releases' = releases /\ manifests' = manifests
      /\ stagedReleases' = stagedReleases /\ stagedManifests' = stagedManifests
      /\ Snapshots' = Snapshots /\ Accepted' = Snapshots
  BY <1>1 DEF pointerFiles, trees, Snapshots, Accepted
<1>5. active.status \in FinalStatus /\ history[active.tx] = active.status
  BY <1>3 DEF Decided
<1>6. /\ active.status = "COMMITTED" => InForce(active)
      /\ active.status # "COMMITTED" => Undone(active)
  BY <1>2, <1>5 DEF OpenOK, FinalStatus
<1>7. /\ Consistent(Snapshots) /\ Unstaged(active.tx)
      /\ \A r \in Release : ~NotInstalled(r) => Names(Snapshots, r)
  BY <1>2, <1>6, DoneIsConsistent, UndoneIsConsistent DEF InForce
<1>8. AcceptedIsConsistent'
  BY <1>4, <1>7 DEF AcceptedIsConsistent, Consistent, Installed
<1>9. NothingLeftBehind'
  <2>1. \A t \in Tx : Unstaged(t)
    BY <1>2, <1>7 DEF OpenOK
  <2>2. QED BY <1>4, <1>7, <2>1
            DEF NothingLeftBehind, Unstaged, NotInstalled, Names, Snapshots, CurrentRelease
<1>10. PointersHaveRecords'
  <2>1. CASE active.status = "COMMITTED"
    <3>1. PointersHaveRecords
      BY <1>2 DEF FilesInv
    <3>2. /\ history[current.tx] = "COMMITTED"
          /\ \A e \in archive : history[e.tx] = "COMMITTED"
      BY <1>2, <1>5, <1>6, <2>1, <3>1, DoneHasRecords
    <3>3. QED BY <1>4, <3>2 DEF PointersHaveRecords, Snapshots
  <2>2. CASE active.status # "COMMITTED"
    <3>1. Snapshots = Accepted
      BY <1>2, <1>6, <2>2 DEF Undone, Accepted
    <3>2. QED BY <1>2, <1>4, <3>1 DEF FilesInv, PointersHaveRecords
  <2>3. QED BY <2>1, <2>2
<1>11. FilesInv'
  BY <1>1, <1>8, <1>9, <1>10 DEF FilesInv
<1>12. Moves(p, "unlock", j)
  BY <1>1, <1>2 DEF Moves, TypeInv, CallsTyped
<1>13. /\ pc'[p] = "unlock" /\ job'[p].mode = "done" /\ job'[p].journal = active
       /\ job'[p].tx = job[p].tx /\ job'[p].op = job[p].op
       /\ job'[p].target = job[p].target /\ job'[p].digest = job[p].digest
       /\ j.tx = job[p].tx
  BY <1>2, <1>12, Moved DEF Job
<1>14. Achieved(job[p])'
  <2>1. SUFFICES ASSUME job[p].op # "RECOVER", active.status = "COMMITTED"
                 PROVE  /\ history[job[p].tx] = "COMMITTED"
                        /\ current = PointerOf(job[p]) /\ lastSuccess = current
    BY <1>1, <1>4, <1>13 DEF Achieved, PointerOf
  <2>2. job[p].mode = "apply" /\ job[p].tx = active.tx
    BY <1>2, <1>3, <2>1 DEF Owns, Decided
  <2>3. QED BY <1>3, <1>5, <2>1, <2>2 DEF Decided
<1>15. Progress(pc[p], job[p])'
  BY <1>13, <1>14, LabelKinds
  DEF Progress, Journaled, Working, Staging, Pointing, Restoring, Removing, Finishing
<1>16. Fresh'
  BY <1>1, <1>4, <1>12, <1>13, FreshStep, LabelKinds
<1>17. QED BY <1>2, <1>11, <1>12, <1>15, <1>16, WriterStep
-----------------------------------------------------------------------------
(* restore_previous and remove_created *)

LEMMA StaysUndoing ==
    ASSUME Inv, NEW p \in Proc, pc[p] \in Restoring \cup Removing,
           UNCHANGED <<job, journals>>,
           NEW to \in Restoring \cup Removing \cup {"finish_active"}, Goto(p, to),
           FilesInv',
           to \in Restoring => RestoredTo(to, job[p].mode, active)',
           to \in Removing => RemovedTo(to, active)',
           to = "finish_active" => Undone(active)'
    PROVE  EngineInv'
<1>1. /\ TypeInv /\ pc[p] \in Critical /\ Progress(pc[p], job[p]) /\ Owns(job[p])
      /\ active # None
  BY UnderJournal DEF Journaled
<1>2. job[p].mode # "apply" /\ active.status \notin FinalStatus
  BY <1>1 DEF Progress
<1>3. Moves(p, to, job[p]) /\ pc'[p] = to /\ job' = job
      /\ active' = active /\ history' = history
  BY <1>1, SameJob, Moved DEF journals
<1>4. Owns(job[p])'
  BY <1>1, <1>3 DEF Owns, PreviousRelease
<1>5. Progress(pc[p], job[p])'
  <2>1. to \notin Working \cup {"begin", "finish_history", "finish_clear", "unlock"}
        /\ job[p].mode # "done"
    BY <1>1 DEF Working, Staging, Pointing, Restoring, Removing, Owns
  <2>2. QED BY <1>2, <1>3, <1>4, <2>1 DEF Progress
<1>6. to \notin Entering /\ active'.tx = active.tx
  BY <1>3 DEF Entering, Restoring, Removing
<1>7. QED BY <1>1, <1>3, <1>5, <1>6, Writes

LEMMA RestoringInv ==
    ASSUME Inv, NEW p \in Proc,
           RestoreCurrent(p) \/ RestoreLastSuccess(p) \/ RestoreArchive(p)
    PROVE  EngineInv'
<1>1. pc[p] \in Restoring /\ UNCHANGED <<job, journals, trees>>
  BY DEF RestoreCurrent, RestoreLastSuccess, RestoreArchive, Go, Restoring
<1>2. /\ TypeInv /\ Progress(pc[p], job[p]) /\ Owns(job[p]) /\ active # None
      /\ job[p].journal = active /\ OpenOK(active)
      /\ active \in Journal
  BY <1>1, UnderJournal DEF Journaled
<1>3. /\ job[p].mode \in {"abort", "recover"} /\ active.status \notin FinalStatus
      /\ RestoredTo(pc[p], job[p].mode, active)
  BY <1>1, <1>2 DEF Progress, Owns
<1>4. FilesInv'
  BY <1>1, <1>2, <1>3, PointersWritten
<1>5. active' = active /\ job' = job
  BY <1>1 DEF journals
<1>6. ASSUME Goto(p, Restored(p)), Snapshots' = active.prev PROVE EngineInv'
  <2>1. CASE active.op = "PROMOTE"
    <3>1. Goto(p, "remove_staging") /\ "remove_staging" \in Removing
          /\ "remove_staging" \notin Restoring
      BY <1>2, <1>6, <2>1 DEF Restored, Removing, Restoring
    <3>2. RemovedTo("remove_staging", active)'
      BY <1>5, <1>6, <2>1 DEF RemovedTo
    <3>3. QED BY <1>1, <1>4, <3>1, <3>2, StaysUndoing
  <2>2. CASE active.op # "PROMOTE"
    <3>1. Goto(p, "finish_active") /\ "finish_active" \notin Removing \cup Restoring
      BY <1>2, <1>6, <2>2 DEF Restored, Removing, Restoring
    <3>2. Undone(active)'
      BY <1>5, <1>6, <2>2 DEF Undone
    <3>3. QED BY <1>1, <1>4, <3>1, <3>2, StaysUndoing
  <2>3. QED BY <2>1, <2>2
<1>7. ASSUME NEW to \in Restoring, Goto(p, to), RestoredTo(to, job[p].mode, active)'
      PROVE  EngineInv'
  <2>1. to \notin Removing \cup {"finish_active"}
    BY DEF Restoring, Removing
  <2>2. QED BY <1>1, <1>4, <1>7, <2>1, StaysUndoing
<1>8. active.prev = [current |-> active.prev.current,
                     lastSuccess |-> active.prev.lastSuccess,
                     archive |-> active.prev.archive]
  BY <1>2 DEF Journal, Previous
<1>9. Restoring = {"restore_current", "restore_last_success", "restore_archive"}
  BY DEF Restoring
<1>10. CASE RestoreCurrent(p)
  <2>1. /\ pc[p] = "restore_current" /\ Goto(p, "restore_last_success")
        /\ current' = active.prev.current
        /\ lastSuccess' = lastSuccess /\ archive' = archive
    BY <1>2, <1>10 DEF RestoreCurrent, Go
  <2>2. RestoredTo("restore_last_success", job[p].mode, active)'
    BY <1>3, <1>5, <2>1 DEF RestoredTo
  <2>3. QED BY <1>7, <1>9, <2>1, <2>2
<1>11. CASE RestoreLastSuccess(p)
  <2>1. /\ pc[p] = "restore_last_success" /\ lastSuccess' = active.prev.lastSuccess
        /\ current' = current /\ archive' = archive
        /\ Goto(p, IF job[p].mode = "abort" THEN "restore_archive" ELSE Restored(p))
    BY <1>2, <1>11 DEF RestoreLastSuccess, Go
  <2>2. CASE job[p].mode = "abort"
    <3>1. RestoredTo("restore_archive", job[p].mode, active)'
      BY <1>3, <1>5, <2>1, <2>2 DEF RestoredTo
    <3>2. QED BY <1>7, <1>9, <2>1, <2>2, <3>1
  <2>3. CASE job[p].mode = "recover"
    <3>1. Snapshots' = active.prev
      BY <1>3, <1>8, <2>1, <2>3 DEF RestoredTo, Snapshots
    <3>2. QED BY <1>6, <2>1, <2>3, <3>1
  <2>4. QED BY <1>3, <2>2, <2>3
<1>12. CASE RestoreArchive(p)
  <2>1. /\ pc[p] = "restore_archive" /\ archive' = active.prev.archive
        /\ current' = current /\ lastSuccess' = lastSuccess
        /\ Goto(p, IF job[p].mode = "abort" THEN Restored(p) ELSE "restore_current")
    BY <1>2, <1>12 DEF RestoreArchive, Go
  <2>2. CASE job[p].mode = "abort"
    <3>1. Snapshots' = active.prev
      BY <1>3, <1>8, <2>1, <2>2 DEF RestoredTo, Snapshots
    <3>2. QED BY <1>6, <2>1, <2>2, <3>1
  <2>3. CASE job[p].mode = "recover"
    <3>1. RestoredTo("restore_current", job[p].mode, active)'
      BY <1>3, <1>5, <2>1, <2>3 DEF RestoredTo
    <3>2. QED BY <1>7, <1>9, <2>1, <2>3, <3>1
  <2>4. QED BY <1>3, <2>2, <2>3
<1>13. QED BY <1>10, <1>11, <1>12

LEMMA RemovingInv ==
    ASSUME Inv, NEW p \in Proc,
           \/ RemoveStaging(p) \/ RemoveInstalled(p)
           \/ RemoveStagedManifest(p) \/ RemoveManifest(p)
    PROVE  EngineInv'
<1> DEFINE t == active.tx
           r == active.target
<1>1. pc[p] \in Removing /\ UNCHANGED <<job, pointerFiles, journals>>
  BY DEF RemoveStaging, RemoveInstalled, RemoveStagedManifest, RemoveManifest, Go, Removing
<1>2. /\ TypeInv /\ Progress(pc[p], job[p]) /\ active # None
      /\ job[p].journal = active /\ t \in Tx /\ r \in Release
  BY <1>1, UnderJournal DEF Journaled
<1>3. /\ active.status \notin FinalStatus /\ RemovedTo(pc[p], active)
      /\ active.op = "PROMOTE"
  BY <1>1, <1>2 DEF Progress, RemovedTo
<1>4. /\ stagedReleases \in [Tx -> Tree] /\ stagedManifests \in [Tx -> Content \cup {None}]
      /\ releases \in [Release -> Tree] /\ manifests \in [Release -> Content \cup {None}]
  BY <1>2 DEF TypeInv, FilesTyped
<1>5. /\ \A x \in Release \ {r} : releases'[x] = releases[x] /\ manifests'[x] = manifests[x]
      /\ \A x \in Tx \ {t} : /\ stagedReleases'[x] = stagedReleases[x]
                             /\ stagedManifests'[x] = stagedManifests[x]
  BY <1>2, <1>4 DEF RemoveStaging, RemoveInstalled, RemoveStagedManifest, RemoveManifest
<1>6. FilesInv'
  BY <1>1, <1>2, <1>3, <1>5, TreesWritten
<1>7. active' = active /\ Snapshots' = Snapshots
  BY <1>1 DEF journals, pointerFiles, Snapshots
<1>8. ASSUME NEW to \in Removing, Goto(p, to), RemovedTo(to, active)'
      PROVE  EngineInv'
  <2>1. to \notin Restoring \cup {"finish_active"}
    BY DEF Restoring, Removing
  <2>2. QED BY <1>1, <1>6, <1>8, <2>1, StaysUndoing
<1>9. Removing = {"remove_staging", "remove_installed", "remove_staged_manifest",
                  "remove_manifest"}
  BY DEF Removing
<1>10. CASE RemoveStaging(p)
  <2>1. /\ Goto(p, IF stagedReleases[t] \in Content THEN "remove_staging"
                   ELSE "remove_installed")
        /\ stagedReleases'[t] = Shrunk(stagedReleases[t])
    BY <1>2, <1>4, <1>10 DEF RemoveStaging, Go
  <2>2. CASE stagedReleases[t] \in Content
    <3>1. RemovedTo("remove_staging", active)'
      BY <1>3, <1>7 DEF RemovedTo
    <3>2. QED BY <1>8, <1>9, <2>1, <2>2, <3>1
  <2>3. CASE stagedReleases[t] \notin Content
    <3>1. RemovedTo("remove_installed", active)'
      BY <1>3, <1>7, <2>1, <2>3 DEF RemovedTo, Shrunk
    <3>2. QED BY <1>8, <1>9, <2>1, <2>3, <3>1
  <2>4. QED BY <2>2, <2>3
<1>11. CASE RemoveInstalled(p)
  <2>1. /\ pc[p] = "remove_installed" /\ stagedReleases' = stagedReleases
        /\ Goto(p, IF releases[r] \in Content THEN "remove_installed"
                   ELSE "remove_staged_manifest")
        /\ releases'[r] = Shrunk(releases[r])
    BY <1>2, <1>4, <1>11 DEF RemoveInstalled, Go
  <2>2. CASE releases[r] \in Content
    <3>1. RemovedTo("remove_installed", active)'
      BY <1>3, <1>7, <2>1 DEF RemovedTo
    <3>2. QED BY <1>8, <1>9, <2>1, <2>2, <3>1
  <2>3. CASE releases[r] \notin Content
    <3>1. RemovedTo("remove_staged_manifest", active)'
      BY <1>3, <1>7, <2>1, <2>3 DEF RemovedTo, Shrunk
    <3>2. QED BY <1>8, <1>9, <2>1, <2>3, <3>1
  <2>4. QED BY <2>2, <2>3
<1>12. CASE RemoveStagedManifest(p)
  <2>1. /\ pc[p] = "remove_staged_manifest" /\ Goto(p, "remove_manifest")
        /\ stagedReleases' = stagedReleases /\ releases' = releases
        /\ stagedManifests'[t] = None
    BY <1>2, <1>4, <1>12 DEF RemoveStagedManifest, Go
  <2>2. RemovedTo("remove_manifest", active)'
    BY <1>3, <1>7, <2>1 DEF RemovedTo
  <2>3. QED BY <1>8, <1>9, <2>1, <2>2
<1>13. CASE RemoveManifest(p)
  <2>1. /\ pc[p] = "remove_manifest" /\ Goto(p, "finish_active")
        /\ stagedReleases' = stagedReleases /\ stagedManifests' = stagedManifests
        /\ releases' = releases /\ manifests'[r] = None
    BY <1>2, <1>4, <1>13 DEF RemoveManifest, Go
  <2>2. Undone(active)'
    BY <1>3, <1>7, <2>1 DEF RemovedTo, Undone, Unstaged, NotInstalled
  <2>3. "finish_active" \notin Restoring \cup Removing
    BY DEF Restoring, Removing
  <2>4. QED BY <1>1, <1>6, <2>1, <2>2, <2>3, StaysUndoing
<1>14. QED BY <1>10, <1>11, <1>12, <1>13
-----------------------------------------------------------------------------
(* Failures.  An exception after the status is COMMITTED is not among them: *)
(* the handler then takes back what the journal says was done.              *)

LEMMA LeavesInv ==
    ASSUME Inv, NEW p \in Proc, pc[p] \in Body, Goto(p, "unlock"), UNCHANGED <<job, Files>>
    PROVE  EngineInv'
<1>1. pc[p] \in Critical /\ "unlock" \notin Entering
  BY LabelKinds
<1>2. TypeInv /\ Progress(pc[p], job[p])
  BY <1>1, Here
<1>3. job[p].mode # "done"
  BY <1>2 DEF Progress
<1>4. Progress("unlock", job[p])
  BY <1>3, LabelKinds
  DEF Progress, Achieved, Journaled, Working, Staging, Pointing, Restoring, Removing,
      Finishing
<1>5. Moves(p, "unlock", job[p])
  BY <1>2, SameJob
<1>6. QED BY <1>1, <1>4, <1>5, GoesOn

LEMMA FailureInv ==
    ASSUME Inv, NEW p \in Proc, Failure(p), ~RaiseInTail(p)
    PROVE  EngineInv'
<1>1. UNCHANGED Files
  BY DEF Failure, RaiseException, RaiseInTail, Interrupt, Kill, Files
<1>2. CASE RaiseException(p)
  <2>1. CASE Quit(p)
    BY <1>1, <2>1, QuitInv
  <2>2. CASE /\ pc[p] \in Staging \cup Pointing \cup {"finish_active"}
             /\ job[p].mode = "apply" /\ Raise(p)
    <3>1. FilesInv'
      BY <1>1, SameFiles DEF Inv, EngineInv
    <3>2. QED BY <1>1, <2>2, <3>1, RaiseInv DEF Files, Working
  <2>3. CASE /\ pc[p] \in {"check", "begin"} \cup Body
             /\ Goto(p, "unlock") /\ UNCHANGED job
    BY <1>1, <2>3, LeavesInv DEF Body
  <2>4. QED BY <1>2, <2>1, <2>2, <2>3 DEF RaiseException
<1>3. CASE Interrupt(p)
  BY <1>1, <1>3, LeavesInv DEF Interrupt
<1>4. CASE Kill(p)
  BY <1>1, <1>4, QuitInv DEF Kill
<1>5. QED BY <1>2, <1>3, <1>4 DEF Failure
-----------------------------------------------------------------------------
(* Operators force the lock of a dead process one at a time, no transaction *)
(* id is passed twice, and no operation fails in the tail of finish_journal *)
(* (the run tail_then_crash shows what happens when one does).  Rollback    *)
(* reasons may be long, and every other failure may happen, at any time.    *)
Hypotheses ==
    /\ ExclusiveForce
    /\ ~TxReuse
    /\ "tail_exception" \notin FaultKinds

LEMMA InitInv == Init => Inv
BY InitTypeInv, InitLock, InitEngineInv DEF Inv, LockInv

LEMMA OrderlyNext ==
    ASSUME ExclusiveForce, ~TxReuse, Inv, [Next]_vars, \A p \in Proc : ~RaiseInTail(p)
    PROVE  Inv'
<1> SUFFICES EngineInv'
  BY NextLock DEF Inv
<1>1. CASE UNCHANGED vars
  <2>1. UNCHANGED Files /\ pc' = pc /\ job' = job /\ history' = history /\ active' = active
    BY <1>1 DEF vars, Files, journals
  <2>2. FilesInv'
    BY <2>1, SameFiles DEF Inv, EngineInv
  <2>3. Fresh'
    BY <2>1 DEF Inv, EngineInv, Fresh
  <2>4. ASSUME NEW p \in Proc, pc'[p] \in Critical PROVE Progress(pc[p], job[p])'
    BY <2>1, <2>4, SameProgress DEF Inv, EngineInv
  <2>5. QED BY <2>2, <2>3, <2>4 DEF EngineInv
<1>2. ASSUME NEW p \in Proc, Call(p) \/ Locking(p) \/ Failure(p) PROVE EngineInv'
  BY <1>2, CallInv, LockingInv, FailureInv
<1>3. ASSUME NEW p \in Proc, Apply(p) PROVE EngineInv'
  BY <1>3, CheckInv, BeginInv, StagingInv, MarkInv, PointingInv DEF Apply
<1>4. ASSUME NEW p \in Proc, Finish(p) PROVE EngineInv'
  BY <1>4, FinishActiveInv, FinishHistoryInv, FinishClearInv DEF Finish
<1>5. ASSUME NEW p \in Proc, Undo(p) PROVE EngineInv'
  BY <1>5, CheckInv, RestoringInv, RemovingInv DEF Undo
<1>6. QED BY <1>1, <1>2, <1>3, <1>4, <1>5 DEF Next, Step

LEMMA NextInv == ASSUME Hypotheses PROVE Inv /\ [Next]_vars => Inv'
<1>1. \A p \in Proc : ~RaiseInTail(p)
  BY DEF Hypotheses, RaiseInTail, Fail
<1>2. QED BY <1>1, OrderlyNext DEF Hypotheses

(* Why all of the above hold: every file is what the open journal says, for *)
(* each call at the operation it has come to, and every step of every call  *)
(* keeps it so.                                                             *)
THEOREM FilesAreAccountedFor == ASSUME Hypotheses PROVE Spec => []EngineInv
<1>1. Inv => EngineInv
  BY DEF Inv
<1>2. QED BY <1>1, InitInv, NextInv, PTL DEF Spec

(* At every moment, whatever has failed before and whoever is in the middle *)
(* of what, the accepted workspace - as it is, or as the open journal would *)
(* restore it - is one validate_workspace finds nothing wrong with.         *)
THEOREM Consistency == ASSUME Hypotheses PROVE Spec => []AcceptedIsConsistent
<1>1. Inv => AcceptedIsConsistent
  BY DEF Inv, EngineInv, FilesInv
<1>2. QED BY <1>1, InitInv, NextInv, PTL DEF Spec

(* No failed or recovered transaction leaves a file behind.                 *)
THEOREM Cleanliness == ASSUME Hypotheses PROVE Spec => []NothingLeftBehind
<1>1. Inv => NothingLeftBehind
  BY DEF Inv, EngineInv, FilesInv
<1>2. QED BY <1>1, InitInv, NextInv, PTL DEF Spec

(* Everything accepted was put there by a transaction recorded as COMMITTED. *)
THEOREM Records == ASSUME Hypotheses PROVE Spec => []PointersHaveRecords
<1>1. Inv => PointersHaveRecords
  BY DEF Inv, EngineInv, FilesInv
<1>2. QED BY <1>1, InitInv, NextInv, PTL DEF Spec

(* What a final status in active.json says is what the files hold, so       *)
(* recovery may file such a journal without looking at them.                *)
THEOREM FinalStatusIsTrue == ASSUME Hypotheses PROVE Spec => []DecidedJournalIsDone
<1>1. ASSUME Inv PROVE DecidedJournalIsDone
  <2> SUFFICES ASSUME active # None, active.status \in FinalStatus
               PROVE  IF active.status = "COMMITTED"
                      THEN /\ Consistent(Snapshots)
                           /\ current # None /\ current.tx = active.tx
                      ELSE /\ Snapshots = active.prev
                           /\ active.op = "PROMOTE" =>
                                 Unstaged(active.tx) /\ NotInstalled(active.target)
    BY DEF DecidedJournalIsDone, Unstaged
  <2>1. TypeInv /\ OpenOK(active) /\ Consistent(active.prev)
    BY <1>1 DEF Inv, LockInv, EngineInv, FilesInv, AcceptedIsConsistent, Accepted
  <2>2. CASE active.status = "COMMITTED"
    <3>1. InForce(active)
      BY <2>1, <2>2 DEF OpenOK
    <3>2. Consistent(Snapshots)
      BY <2>1, <3>1, DoneIsConsistent
    <3>3. QED BY <2>2, <3>1, <3>2 DEF InForce
  <2>3. CASE active.status # "COMMITTED"
    BY <2>1, <2>3 DEF OpenOK, FinalStatus, Undone
  <2>4. QED BY <2>2, <2>3
<1>2. QED BY <1>1, InitInv, NextInv, PTL DEF Spec

(* A call that returns success has committed in full.                       *)
THEOREM SuccessIsTrue == ASSUME Hypotheses PROVE Spec => []SuccessIsCommitted
<1>1. ASSUME Inv PROVE SuccessIsCommitted
  <2> SUFFICES ASSUME NEW p \in Proc, pc[p] = "unlock", job[p].mode = "done",
                      job[p].op # "RECOVER", job[p].journal.status = "COMMITTED"
               PROVE  /\ active = None /\ history[job[p].tx] = "COMMITTED"
                      /\ current = NewPointer(p) /\ lastSuccess = current
    BY DEF SuccessIsCommitted
  <2>1. Achieved(job[p])
    BY <1>1, LabelKinds DEF Inv, EngineInv, Progress
  <2>2. QED BY <2>1 DEF Achieved, NewPointer, PointerOf
<1>2. QED BY <1>1, InitInv, NextInv, PTL DEF Spec
-----------------------------------------------------------------------------
(* What a step may never do *)

(* The steps that write no journal and no record: what is accepted stays,   *)
(* and with no transaction open nothing changes but locks and calls.        *)
Ordinary(p) ==
    \/ Call(p) \/ Locking(p) \/ Failure(p)
    \/ Check(p) \/ CheckRecover(p)
    \/ CopyTree(p) \/ Reconcile(p) \/ StageManifest(p)
    \/ InstallRelease(p) \/ InstallManifest(p)
    \/ Archive(p) \/ SetCurrent(p) \/ SetLastSuccess(p)
    \/ RestoreCurrent(p) \/ RestoreLastSuccess(p) \/ RestoreArchive(p)
    \/ RemoveStaging(p) \/ RemoveInstalled(p)
    \/ RemoveStagedManifest(p) \/ RemoveManifest(p)

LEMMA OrdinaryOrNot ==
    ASSUME NEW p \in Proc, Call(p) \/ Step(p) \/ Failure(p)
    PROVE  \/ Ordinary(p) \/ Begin(p) \/ Mark(p)
           \/ FinishActive(p) \/ FinishHistory(p) \/ FinishClear(p)
BY DEF Ordinary, Step, Apply, Finish, Undo

LEMMA OrdinaryStep ==
    ASSUME Inv, NEW p \in Proc, Ordinary(p)
    PROVE  /\ UNCHANGED journals
           /\ active = None => UNCHANGED pointerFiles
           /\ \A r \in Release :
                 \/ active # None /\ active.op = "PROMOTE" /\ r = active.target
                 \/ releases'[r] = releases[r] /\ manifests'[r] = manifests[r]
<1>1. CASE \/ Call(p) \/ Locking(p) \/ Failure(p) \/ Check(p) \/ CheckRecover(p)
  BY <1>1
  DEF Call, StartPromote, StartRollback, StartRecover, StartForcedRecover, Start,
      Locking, ForceUnlock, Acquire, Contended, Unlock,
      Failure, RaiseException, RaiseInTail, Interrupt, Kill,
      Check, CheckRecover, trees, journals
<1>2. CASE \/ CopyTree(p) \/ Reconcile(p) \/ StageManifest(p)
           \/ InstallRelease(p) \/ InstallManifest(p)
  <2>1. pc[p] \in Staging /\ pc[p] \in Working /\ UNCHANGED <<journals, pointerFiles>>
    BY <1>2 DEF CopyTree, Reconcile, StageManifest, InstallRelease, InstallManifest, Go,
       Staging, Working
  <2>2. /\ TypeInv /\ active # None /\ job[p].target = active.target
        /\ active.op = "PROMOTE"
    BY <2>1, AtWork DEF Applying
  <2>3. \A r \in Release \ {active.target} :
           releases'[r] = releases[r] /\ manifests'[r] = manifests[r]
    BY <1>2, <2>2
    DEF CopyTree, Reconcile, StageManifest, InstallRelease, InstallManifest, TypeInv,
        FilesTyped
  <2>4. QED BY <2>1, <2>2, <2>3
<1>3. CASE Archive(p) \/ SetCurrent(p) \/ SetLastSuccess(p)
  <2>1. pc[p] \in Working /\ UNCHANGED <<journals, trees>>
    BY <1>3 DEF Archive, SetCurrent, SetLastSuccess, Go, Pointing, Working
  <2>2. QED BY <2>1, AtWork DEF trees
<1>4. CASE RestoreCurrent(p) \/ RestoreLastSuccess(p) \/ RestoreArchive(p)
  <2>1. pc[p] \in Journaled /\ UNCHANGED <<journals, trees>>
    BY <1>4 DEF RestoreCurrent, RestoreLastSuccess, RestoreArchive, Go, Restoring, Journaled
  <2>2. QED BY <2>1, UnderJournal DEF trees
<1>5. CASE \/ RemoveStaging(p) \/ RemoveInstalled(p)
           \/ RemoveStagedManifest(p) \/ RemoveManifest(p)
  <2>1. /\ pc[p] \in Journaled /\ pc[p] \in Removing
        /\ UNCHANGED <<journals, pointerFiles>>
    BY <1>5 DEF RemoveStaging, RemoveInstalled, RemoveStagedManifest, RemoveManifest, Go,
       Removing, Journaled
  <2>2. /\ TypeInv /\ active # None /\ job[p].journal = active
        /\ active.op = "PROMOTE"
    BY <2>1, UnderJournal DEF Progress, RemovedTo
  <2>3. \A r \in Release \ {active.target} :
           releases'[r] = releases[r] /\ manifests'[r] = manifests[r]
    BY <1>5, <2>2
    DEF RemoveStaging, RemoveInstalled, RemoveStagedManifest, RemoveManifest, TypeInv,
        FilesTyped
  <2>4. QED BY <2>1, <2>2, <2>3
<1>6. QED BY <1>1, <1>2, <1>3, <1>4, <1>5 DEF Ordinary

(* An accepted release is never changed or removed: a promotion only writes *)
(* its own target, which no pointer or archive entry names.                 *)
THEOREM Immutability == ASSUME Hypotheses PROVE Spec => ReleasesAreImmutable
<1>1. ASSUME Inv, [Next]_vars, NEW r \in Release,
             \/ Accepted.current # None /\ Accepted.current.release = r
             \/ \E e \in Accepted.archive : e.release = r
      PROVE  releases'[r] = releases[r] /\ manifests'[r] = manifests[r]
  <2>1. active # None /\ active.op = "PROMOTE" => r # active.target
    BY <1>1 DEF Inv, EngineInv, FilesInv, OpenOK, Names, Accepted
  <2>2. CASE UNCHANGED vars
    BY <2>2 DEF vars, trees
  <2>3. ASSUME NEW p \in Proc, Call(p) \/ Step(p) \/ Failure(p)
        PROVE  releases'[r] = releases[r] /\ manifests'[r] = manifests[r]
    <3>1. CASE Ordinary(p)
      BY <1>1, <2>1, <3>1, OrdinaryStep
    <3>2. CASE \/ Begin(p) \/ Mark(p) \/ FinishActive(p) \/ FinishHistory(p)
               \/ FinishClear(p)
      BY <3>2 DEF Begin, Mark, FinishActive, FinishHistory, FinishClear, trees
    <3>3. QED BY <2>3, <3>1, <3>2, OrdinaryOrNot
  <2>4. QED BY <1>1, <2>2, <2>3 DEF Next
<1>2. Inv /\ [Next]_vars =>
         [\A r \in Release :
            (Accepted.current # None /\ Accepted.current.release = r)
            \/ (\E e \in Accepted.archive : e.release = r)
            => releases'[r] = releases[r] /\ manifests'[r] = manifests[r]]_vars
  BY <1>1
<1>3. QED BY <1>2, InitInv, NextInv, PTL DEF Spec, ReleasesAreImmutable

LEMMA RecordStays ==
    ASSUME Inv, NEW p \in Proc, Call(p) \/ Step(p) \/ Failure(p),
           NEW t \in Tx, history[t] # None
    PROVE  history'[t] = history[t]
<1>1. CASE Ordinary(p)
  BY <1>1, OrdinaryStep DEF journals
<1>2. CASE Begin(p) \/ Mark(p) \/ FinishActive(p) \/ FinishClear(p)
  BY <1>2 DEF Begin, Mark, FinishActive, FinishClear
<1>3. CASE FinishHistory(p)
  <2>1. /\ history' = [history EXCEPT ![job[p].journal.tx] = job[p].journal.status]
        /\ pc[p] \in Journaled
    BY <1>3 DEF FinishHistory, Go, Journaled, Finishing
  <2>2. TypeInv /\ job[p].journal = active /\ OpenOK(active) /\ active.tx \in Tx
    BY <2>1, UnderJournal
  <2>3. QED BY <2>1, <2>2 DEF OpenOK, TypeInv, FilesTyped
<1>4. QED BY <1>1, <1>2, <1>3, OrdinaryOrNot

(* The record of a transaction, once filed, stays what it is: recovery that *)
(* files the same journal again writes the same status.                     *)
THEOREM RecordsRemain == ASSUME Hypotheses PROVE Spec => HistoryRemains
<1>1. ASSUME Inv, [Next]_vars, NEW t \in Tx, history[t] # None
      PROVE  history'[t] = history[t]
  <2>1. CASE UNCHANGED vars
    BY <2>1 DEF vars, journals
  <2>2. CASE Next
    BY <1>1, <2>2, RecordStays DEF Next
  <2>3. QED BY <1>1, <2>1, <2>2
<1>2. Inv /\ [Next]_vars =>
         [\A t \in Tx : history[t] # None => history'[t] = history[t]]_vars
  BY <1>1
<1>3. QED BY <1>2, InitInv, NextInv, PTL DEF Spec, HistoryRemains

(* expected_current is an optimistic lock: a call that names the release it *)
(* supersedes commits only over that release.                               *)
THEOREM ExpectationHolds == ASSUME Hypotheses PROVE Spec => NoLostUpdate
<1>1. ASSUME Inv, NEW p \in Proc, pc[p] = "finish_clear", job[p].mode = "apply",
             active # None, job[p].expected # None
      PROVE  Accepted.current # None /\ Accepted.current.release = job[p].expected
  <2>1. Owns(job[p])
    BY <1>1, UnderJournal DEF Journaled, Finishing
  <2>2. QED BY <1>1, <2>1 DEF Owns, PreviousRelease, Accepted
<1>2. Inv =>
         [\A p \in Proc :
            /\ pc[p] = "finish_clear" /\ job[p].mode = "apply"
            /\ active # None /\ active' = None /\ job[p].expected # None
            => /\ Accepted.current # None
               /\ Accepted.current.release = job[p].expected]_vars
  BY <1>1
<1>3. QED BY <1>2, InitInv, NextInv, PTL DEF Spec, NoLostUpdate
-----------------------------------------------------------------------------
(* PromotionEngine implements AcceptedReleases: Begin and every other step  *)
(* of a transaction is a stuttering step, and FinishClear, which unlinks    *)
(* active.json, is the step Promote, Rollback or Abandon.                   *)

Superseded == {e.release : e \in Accepted.archive}

LEMMA InitIsInit == Init => Promised!Init
<1> SUFFICES ASSUME Init PROVE Promised!Init
  OBVIOUS
<1>1. Accepted = [current |-> None, lastSuccess |-> None, archive |-> {}]
      /\ active = None
  BY DEF Init, Accepted, Snapshots
<1>2. AcceptedStore = [r \in Release |-> None]
  BY <1>1 DEF Init, AcceptedStore, OpenPromotion
<1>3. AcceptedOutcome = [t \in Tx |-> None]
  BY <1>1 DEF Init, AcceptedOutcome, OpenTx
<1>4. QED BY <1>1, <1>2, <1>3 DEF Promised!Init

(* A step that leaves the accepted snapshots, the accepted releases and the *)
(* records that count as they are.                                          *)
Stutter ==
    /\ Accepted' = Accepted
    /\ AcceptedStore' = AcceptedStore
    /\ AcceptedOutcome' = AcceptedOutcome

LEMMA OrdinaryStutters ==
    ASSUME Inv, NEW p \in Proc, Ordinary(p) PROVE Stutter
<1>1. /\ active' = active /\ history' = history
      /\ active = None => UNCHANGED pointerFiles
      /\ \A r \in Release : OpenPromotion(r) \/ releases'[r] = releases[r]
  BY OrdinaryStep DEF journals, OpenPromotion
<1>2. Accepted' = Accepted
  BY <1>1 DEF Accepted, Snapshots, pointerFiles
<1>3. AcceptedStore' = AcceptedStore
  BY <1>1 DEF AcceptedStore, OpenPromotion
<1>4. AcceptedOutcome' = AcceptedOutcome
  BY <1>1 DEF AcceptedOutcome, OpenTx
<1>5. QED BY <1>2, <1>3, <1>4 DEF Stutter

(* Opening a transaction changes nothing: what its journal would restore is *)
(* what is there.                                                           *)
LEMMA BeginStutters ==
    ASSUME Inv, NEW p \in Proc, Begin(p) PROVE Stutter
<1> DEFINE a == [tx |-> job[p].tx, op |-> job[p].op, status |-> "PREPARED",
                 target |-> job[p].target, prev |-> Snapshots]
<1>1. /\ pc[p] = "begin" /\ pc[p] \in Critical /\ pc[p] \in Entering
      /\ active' = a /\ UNCHANGED <<pointerFiles, history, trees>>
  BY CriticalLabels DEF Begin, Go, Entering
<1>2. /\ TypeInv /\ Fresh /\ Progress("begin", job[p])
      /\ job[p] \in Job /\ LocalOK("begin", job[p])
  BY <1>1, Here
<1>3. /\ Admitted(job[p]) /\ active = None /\ job[p].op \in {"PROMOTE", "ROLLBACK"}
      /\ job[p].tx \in Tx /\ job[p].target \in Release
  BY <1>1, <1>2 DEF Progress, Admitted, LocalOK
<1>4. history[job[p].tx] = None
  BY <1>1, <1>2, <1>3, SentinelAssumption DEF Fresh
<1>5. a \in Journal
  BY <1>2, <1>3, SnapshotsTyped DEF Journal, Status
<1>6. active' # None
  BY <1>1, <1>5, DocumentAssumption
<1>7. Accepted' = Accepted
  BY <1>1, <1>3, <1>6 DEF Accepted, Snapshots, pointerFiles
<1>8. \A r \in Release : OpenPromotion(r)' => releases[r] = None
  BY <1>1, <1>3 DEF OpenPromotion, Admitted, NotInstalled
<1>9. AcceptedStore' = AcceptedStore
  BY <1>1, <1>3, <1>8 DEF AcceptedStore, OpenPromotion, trees
<1>10. \A t \in Tx : OpenTx(t)' => history[t] = None
  BY <1>1, <1>4 DEF OpenTx
<1>11. AcceptedOutcome' = AcceptedOutcome
  BY <1>1, <1>3, <1>10 DEF AcceptedOutcome, OpenTx
<1>12. QED BY <1>7, <1>9, <1>11 DEF Stutter

(* So does a status that is written, or a record that is filed while its    *)
(* journal is still open.                                                   *)
LEMMA JournalStutters ==
    ASSUME Inv, NEW p \in Proc, Mark(p) \/ FinishActive(p) \/ FinishHistory(p)
    PROVE  Stutter
<1>1. pc[p] \in Journaled
  BY DEF Mark, FinishActive, FinishHistory, Go, Journaled, Working, Staging, Finishing
<1>2. /\ TypeInv /\ active # None /\ active \in Journal /\ job[p].journal = active
      /\ active.tx \in Tx
  BY <1>1, UnderJournal
<1>3. /\ active' # None /\ active'.tx = active.tx /\ active'.op = active.op
      /\ active'.target = active.target /\ active'.prev = active.prev
      /\ releases' = releases
      /\ \A t \in Tx \ {active.tx} : history'[t] = history[t]
  <2>1. CASE FinishHistory(p)
    BY <1>2, <2>1 DEF FinishHistory, trees, TypeInv, FilesTyped
  <2>2. CASE Mark(p) \/ FinishActive(p)
    <3>1. PICK s : WriteJournal(p, s)
      BY <2>2 DEF Mark, FinishActive
    <3>2. active' = [active EXCEPT !.status = s]
      BY <1>2, <3>1 DEF WriteJournal
    <3>3. active' # None
      <4>1. TypeInv'
        BY <1>2, <2>2, InstallTyped, FinishTyped DEF Finish
      <4>2. job'[p].journal = active' /\ pc'[p] \in Journaled
        <5>1. job' = [job EXCEPT ![p].journal = active']
          BY <3>1 DEF WriteJournal
        <5>2. PICK to \in Journaled : Goto(p, to)
          BY <2>2 DEF Mark, FinishActive, Go, Journaled, Working, Staging, Pointing,
             Finishing
        <5>3. job[p] \in Job /\ job \in [Proc -> Job]
          BY <1>2 DEF TypeInv, CallsTyped
        <5>4. QED BY <1>2, <5>1, <5>2, <5>3, OnlyMover DEF Job
      <4>3. active' \in Journal
        BY <4>1, <4>2 DEF TypeInv, CallsTyped, LocalOK
      <4>4. QED BY <4>3, DocumentAssumption
    <3>4. history' = history /\ releases' = releases
      BY <2>2 DEF Mark, FinishActive, trees
    <3>5. QED BY <1>2, <3>2, <3>3, <3>4 DEF Journal
  <2>3. QED BY <2>1, <2>2
<1>4. Accepted' = Accepted
  BY <1>2, <1>3 DEF Accepted
<1>5. AcceptedStore' = AcceptedStore
  BY <1>2, <1>3 DEF AcceptedStore, OpenPromotion
<1>6. AcceptedOutcome' = AcceptedOutcome
  BY <1>2, <1>3 DEF AcceptedOutcome, OpenTx
<1>7. QED BY <1>4, <1>5, <1>6 DEF Stutter

(* What the unlink of active.json does to what is accepted.                 *)
LEMMA Clearing ==
    ASSUME Inv, NEW p \in Proc, FinishClear(p)
    PROVE  /\ TypeInv /\ active # None /\ active \in Journal /\ OpenOK(active)
           /\ Consistent(active.prev) /\ Accepted = active.prev
           /\ Accepted' = Snapshots /\ active' = None
           /\ AcceptedStore' = releases /\ AcceptedOutcome' = history
           /\ history[active.tx] = active.status
           /\ active.status = "COMMITTED" => InForce(active)
           /\ active.status # "COMMITTED" =>
                 Undone(active) /\ active.status \in {"ROLLED_BACK", "RECOVERED"}
<1>1. /\ pc[p] = "finish_clear" /\ active' = None
      /\ UNCHANGED <<pointerFiles, history, trees>> /\ pc[p] \in Journaled
  BY DEF FinishClear, Go, Journaled, Finishing
<1>2. /\ TypeInv /\ Progress("finish_clear", job[p]) /\ active # None
      /\ active \in Journal /\ OpenOK(active) /\ Consistent(active.prev)
  BY <1>1, UnderJournal
<1>3. active.status \in FinalStatus /\ history[active.tx] = active.status
  BY <1>2 DEF Progress, Decided
<1>4. Accepted = active.prev /\ Accepted' = Snapshots
  BY <1>1, <1>2 DEF Accepted, Snapshots, pointerFiles
<1>5. AcceptedStore' = releases /\ AcceptedOutcome' = history
  BY <1>1, <1>2
  DEF AcceptedStore, OpenPromotion, AcceptedOutcome, OpenTx, trees, TypeInv, FilesTyped
<1>6. QED BY <1>1, <1>2, <1>3, <1>4, <1>5 DEF OpenOK, FinalStatus

LEMMA RecordsIt ==
    ASSUME Inv, NEW p \in Proc, FinishClear(p),
           NEW t, t = active.tx, NEW status, active.status = status
    PROVE  Promised!Record(t, status)
<1>1. /\ TypeInv /\ active # None /\ AcceptedOutcome' = history
      /\ history[active.tx] = status /\ active.tx \in Tx
  BY Clearing, JournalTyped
<1>2. AcceptedOutcome[active.tx] = None
      /\ \A x \in Tx \ {active.tx} : AcceptedOutcome[x] = history[x]
  BY <1>1 DEF AcceptedOutcome, OpenTx
<1>3. history = [AcceptedOutcome EXCEPT ![active.tx] = status]
  BY <1>1, <1>2 DEF AcceptedOutcome, TypeInv, FilesTyped
<1>4. QED BY <1>1, <1>2, <1>3 DEF Promised!Record

(* The pointers of a committed transaction, and which releases it leaves    *)
(* archived.                                                                *)
LEMMA Points ==
    ASSUME Inv, NEW p \in Proc, FinishClear(p), active.status = "COMMITTED",
           NEW t, t = active.tx, NEW r, r = active.target, NEW c, c = current.digest
    PROVE  Promised!PointTo(t, r, c) /\ c \in Content /\ releases[r] = c
<1> DEFINE s == active.prev
<1>1. /\ TypeInv /\ active # None /\ OpenOK(active) /\ Consistent(s)
      /\ Accepted = s /\ Accepted' = Snapshots /\ InForce(active)
  BY Clearing
<1>2. /\ current # None /\ lastSuccess = current
      /\ current.release = active.target /\ current.tx = active.tx
      /\ Installed(current)
  BY <1>1 DEF InForce
<1>3. current \in Pointer
  BY <1>1, <1>2 DEF TypeInv, FilesTyped
<1>4. current = [release |-> active.target, digest |-> current.digest, tx |-> active.tx]
  BY <1>2, <1>3 DEF Pointer
<1>5. Superseded' = {e.release : e \in archive}
  BY <1>1 DEF Superseded, Snapshots
<1>6. PICK why \in Reason : archive = ArchiveAfter(active, why)
  BY <1>1 DEF InForce
<1>7. Superseded' = (Superseded \cup Promised!InUse) \ {active.target}
  <2>1. CASE s.current = None
    <3>1. archive = {} /\ s.archive = {}
      BY <1>1, <1>6, <2>1 DEF ArchiveAfter, Consistent
    <3>2. QED BY <1>1, <1>5, <2>1, <3>1 DEF Superseded, Promised!InUse
  <2>2. CASE s.current # None
    <3> DEFINE new == [release |-> s.current.release, digest |-> s.current.digest,
                       tx |-> active.tx, reason |-> why]
    <3>1. archive = {e \in s.archive : e.release # active.target} \cup {new}
      BY <1>6, <2>2 DEF ArchiveAfter
    <3>2. new.release = s.current.release
      OBVIOUS
    <3>3. s.current.release # active.target
      BY <1>1, <2>2, JournalTyped DEF OpenOK, Names, Consistent
    <3>4. {e.release : e \in archive}
             = ({e.release : e \in s.archive} \ {active.target}) \cup {s.current.release}
      BY <3>1, <3>2
    <3>5. Superseded = {e.release : e \in s.archive}
          /\ Promised!InUse = {s.current.release}
      BY <1>1, <2>2 DEF Superseded, Promised!InUse
    <3>6. QED BY <1>5, <3>3, <3>4, <3>5
  <2>3. QED BY <2>1, <2>2
<1>8. Accepted'.current = current /\ Accepted'.lastSuccess = current
  BY <1>1, <1>2 DEF Snapshots
<1>9. Promised!PointTo(t, r, c)
  BY <1>4, <1>7, <1>8 DEF Promised!PointTo, Superseded
<1>10. QED BY <1>2, <1>3, <1>9 DEF Pointer, Installed

LEMMA ClearingIsAtomic ==
    ASSUME Inv, NEW p \in Proc, FinishClear(p) PROVE Promised!Next
<1>0. PICK t, r, c : t = active.tx /\ r = active.target /\ c = current.digest
  OBVIOUS
<1>1. /\ TypeInv /\ active # None /\ OpenOK(active) /\ Accepted = active.prev
      /\ Accepted' = Snapshots /\ AcceptedStore' = releases
      /\ active.status = "COMMITTED" => InForce(active)
      /\ active.status # "COMMITTED" =>
            Undone(active) /\ active.status \in {"ROLLED_BACK", "RECOVERED"}
  BY Clearing
<1>2. t \in Tx /\ r \in Release /\ active.op \in {"PROMOTE", "ROLLBACK"}
  BY <1>0, <1>1, JournalTyped
<1>3. /\ releases \in [Release -> Tree]
      /\ \A x \in Release \ {r} : AcceptedStore[x] = releases[x]
      /\ active.op = "PROMOTE" => AcceptedStore[r] = None
      /\ active.op = "ROLLBACK" => AcceptedStore[r] = releases[r]
  BY <1>0, <1>1, <1>2 DEF AcceptedStore, OpenPromotion, TypeInv, FilesTyped
<1>4. active.op = "ROLLBACK" => releases = AcceptedStore
  BY <1>1, <1>3 DEF AcceptedStore, OpenPromotion
<1>5. CASE active.status = "COMMITTED"
  <2>1. /\ Promised!PointTo(t, r, c) /\ Promised!Record(t, "COMMITTED")
        /\ c \in Content /\ releases[r] = c
    BY <1>0, <1>5, Points, RecordsIt
  <2>2. CASE active.op = "PROMOTE"
    <3>1. releases = [AcceptedStore EXCEPT ![r] = c]
      BY <1>2, <1>3, <2>1, <2>2 DEF AcceptedStore
    <3>2. Promised!Promote(t, r, c)
      BY <1>1, <1>3, <2>1, <2>2, <3>1 DEF Promised!Promote
    <3>3. QED BY <1>2, <2>1, <3>2 DEF Promised!Next
  <2>3. CASE active.op = "ROLLBACK"
    <3>1. r \in {e.release : e \in Accepted.archive}
      BY <1>0, <1>1, <2>3 DEF OpenOK
    <3>2. Promised!Rollback(t, r)
      BY <1>1, <1>3, <1>4, <2>1, <2>3, <3>1
      DEF Promised!Rollback, Promised!PointTo
    <3>3. QED BY <1>2, <3>2 DEF Promised!Next
  <2>4. QED BY <1>2, <2>2, <2>3
<1>6. CASE active.status # "COMMITTED"
  <2>1. Accepted' = Accepted
    BY <1>1, <1>6 DEF Undone
  <2>2. releases = AcceptedStore
    <3>1. active.op = "PROMOTE" => releases[r] = None
      BY <1>0, <1>1, <1>6 DEF Undone, NotInstalled
    <3>2. QED BY <1>2, <1>3, <1>4, <3>1 DEF AcceptedStore
  <2>3. \E status \in {"ROLLED_BACK", "RECOVERED"} : Promised!Record(t, status)
    BY <1>0, <1>1, <1>6, RecordsIt
  <2>4. Promised!Abandon(t)
    BY <1>1, <2>1, <2>2, <2>3 DEF Promised!Abandon
  <2>5. QED BY <1>2, <2>4 DEF Promised!Next
<1>7. QED BY <1>5, <1>6

(* Every call, whatever fails in it or in another, takes effect at once or  *)
(* not at all, and its record says which.                                   *)
THEOREM Atomicity == ASSUME Hypotheses PROVE Spec => CallsAreAtomic
<1>1. ASSUME Stutter PROVE UNCHANGED Promised!acceptedVars
  BY <1>1 DEF Stutter, Promised!acceptedVars
<1>2. ASSUME Inv, [Next]_vars PROVE [Promised!Next]_(Promised!acceptedVars)
  <2>1. CASE UNCHANGED vars
    <3>1. active' = active /\ history' = history /\ releases' = releases
          /\ UNCHANGED pointerFiles
      BY <2>1 DEF vars, journals, trees
    <3>2. Stutter
      BY <3>1 DEF Stutter, Accepted, Snapshots, pointerFiles, AcceptedStore, OpenPromotion,
         AcceptedOutcome, OpenTx
    <3>3. QED BY <1>1, <3>2
  <2>2. ASSUME NEW p \in Proc, Call(p) \/ Step(p) \/ Failure(p)
        PROVE  [Promised!Next]_(Promised!acceptedVars)
    <3>1. CASE FinishClear(p)
      BY <1>2, <3>1, ClearingIsAtomic
    <3>2. CASE \/ Ordinary(p) \/ Begin(p) \/ Mark(p) \/ FinishActive(p)
               \/ FinishHistory(p)
      BY <1>1, <1>2, <3>2, OrdinaryStutters, BeginStutters, JournalStutters
    <3>3. QED BY <2>2, <3>1, <3>2, OrdinaryOrNot
  <2>3. QED BY <1>2, <2>1, <2>2 DEF Next
<1>3. QED BY <1>2, InitIsInit, InitInv, NextInv, PTL
          DEF Spec, CallsAreAtomic, Promised!Spec
=============================================================================
