----------------------- MODULE PromotionEngineProofs -----------------------
(***************************************************************************)
(* Theorems about PromotionEngine, for any number of processes, releases,  *)
(* transactions and failures.                                              *)
(***************************************************************************)
EXTENDS PromotionInvariant, TLAPS

(* What a call's local variables hold, by how far the call has come.       *)
LocalOK(label, j) ==
    /\ label # "idle" => j.op # "NONE"
    /\ j.op \in {"PROMOTE", "ROLLBACK"} => j.tx \in Tx /\ j.target \in Release
    /\ label \in {"begin"} \cup Working =>
          j.op \in {"PROMOTE", "ROLLBACK"} /\ j.digest \in Content
    /\ label \in Journaled => j.journal \in Journal
    /\ label \in {"finish_history", "finish_clear"} =>
          j.journal.status \in FinalStatus

FilesTyped ==
    /\ lock \in Proc \cup {Free, Stale}
    /\ current \in Pointer \cup {None}
    /\ lastSuccess \in Pointer \cup {None}
    /\ archive \in SUBSET Entry
    /\ active \in Journal \cup {None}
    /\ history \in [Tx -> FinalStatus \cup {None}]
    /\ releases \in [Release -> Tree]
    /\ manifests \in [Release -> Content \cup {None}]
    /\ stagedReleases \in [Tx -> Tree]
    /\ stagedManifests \in [Tx -> Content \cup {None}]
    /\ faults \in 0 .. MaxFaults

CallsTyped ==
    /\ pc \in [Proc -> Label]
    /\ job \in [Proc -> Job]
    /\ \A p \in Proc : LocalOK(pc[p], job[p])

TypeInv == FilesTyped /\ CallsTyped

LEMMA Labels ==
    /\ {"idle", "force", "lock", "check", "begin", "unlock"} \subseteq Label
    /\ Journaled \subseteq Label
    /\ Journaled \cap {"idle", "force", "lock", "check", "begin", "unlock"} = {}
    /\ Working \subseteq Journaled
BY DEF Label, Critical, Body, Journaled, Working, Staging, Pointing, Restoring,
   Removing, Finishing

(* A step moves one call; the others' locals are as good as before.        *)
LEMMA CallMoves ==
    ASSUME TypeInv, NEW p \in Proc, NEW label \in Label, NEW j \in Job,
           Goto(p, label), job' = [job EXCEPT ![p] = j], LocalOK(label, j)
    PROVE  CallsTyped'
<1>1. pc' \in [Proc -> Label] /\ job' \in [Proc -> Job]
  BY DEF TypeInv, CallsTyped, Goto
<1>2. ASSUME NEW q \in Proc PROVE LocalOK(pc'[q], job'[q])
  <2>1. CASE q = p
    <3>1. pc'[q] = label /\ job'[q] = j
      BY <2>1 DEF TypeInv, CallsTyped, Goto
    <3>2. QED BY <3>1
  <2>2. CASE q # p
    <3>1. pc'[q] = pc[q] /\ job'[q] = job[q]
      BY <2>2 DEF TypeInv, CallsTyped, Goto
    <3>2. LocalOK(pc[q], job[q])
      BY DEF TypeInv, CallsTyped
    <3>3. QED BY <3>1, <3>2
  <2>3. QED BY <2>1, <2>2
<1>3. QED BY <1>1, <1>2 DEF CallsTyped

LEMMA CallGoesOn ==
    ASSUME TypeInv, NEW p \in Proc, NEW label \in Label,
           Goto(p, label), job' = job, LocalOK(label, job[p])
    PROVE  CallsTyped'
<1>1. job[p] \in Job /\ job' = [job EXCEPT ![p] = job[p]]
  BY DEF TypeInv, CallsTyped
<1>2. QED BY <1>1, CallMoves

LEMMA NewCall == NoJob \in Job /\ LocalOK("idle", NoJob)
<1>1. NoJob \in Job
  BY DEF NoJob, Job, Mode, Reason
<1>2. "idle" \notin {"begin", "finish_history", "finish_clear"} \cup Journaled
  BY Labels
<1>3. NoJob.op = "NONE"
  BY DEF NoJob
<1>4. QED BY <1>1, <1>2, <1>3, Labels DEF LocalOK

LEMMA QuitTyped ==
    ASSUME TypeInv, NEW p \in Proc, Quit(p) PROVE CallsTyped'
BY NewCall, CallMoves, Labels DEF Quit

LEMMA InitTypeInv == Init => TypeInv
<1> SUFFICES ASSUME Init PROVE TypeInv
  OBVIOUS
<1>1. FilesTyped
  BY FaultAssumption DEF Init, FilesTyped, Tree
<1>2. CallsTyped
  BY NewCall, Labels DEF Init, CallsTyped
<1>3. QED BY <1>1, <1>2 DEF TypeInv

(* Which labels ask no more of the locals than the label a call is at.     *)
LEMMA NextLabel ==
    ASSUME NEW j, NEW from, NEW to, LocalOK(from, j), from # "idle",
           \/ to \in {"lock", "check", "unlock"}
           \/ from \in Working /\ to \in Working \cup {"finish_active"}
           \/ from \in Journaled
              /\ to \in Restoring \cup Removing \cup {"finish_active"}
           \/ from = "finish_history" /\ to = "finish_clear"
    PROVE  LocalOK(to, j) /\ to \in Label
BY SMTT(30) DEF LocalOK, Journaled, Working, Staging, Pointing, Restoring, Removing,
   Finishing, Label, Critical, Body

LEMMA GoTyped ==
    ASSUME TypeInv, NEW p \in Proc, NEW to, Go(p, pc[p], to), job' = job,
           pc[p] # "idle",
           \/ to \in {"lock", "check", "unlock"}
           \/ pc[p] \in Working /\ to \in Working \cup {"finish_active"}
           \/ pc[p] \in Journaled
              /\ to \in Restoring \cup Removing \cup {"finish_active"}
           \/ pc[p] = "finish_history" /\ to = "finish_clear"
    PROVE  CallsTyped'
<1>1. LocalOK(pc[p], job[p])
  BY DEF TypeInv, CallsTyped
<1>2. LocalOK(to, job[p]) /\ to \in Label
  BY <1>1, NextLabel
<1>3. QED BY <1>2, CallGoesOn DEF Go

LEMMA CallTyped ==
    ASSUME TypeInv, NEW p \in Proc, Call(p) PROVE TypeInv'
<1> DEFINE Typed(call) == call \in Job /\ LocalOK("lock", call) /\ LocalOK("force", call)
<1>1. ASSUME NEW call, NEW label \in {"lock", "force"}, Start(p, call, label), Typed(call)
      PROVE  TypeInv'
  <2>1. CallsTyped'
    BY <1>1, CallMoves, Labels DEF Start, Go
  <2>2. FilesTyped'
    BY <1>1 DEF TypeInv, Start, FilesTyped, pointerFiles, journals, trees
  <2>3. QED BY <2>1, <2>2 DEF TypeInv
<1>2. CASE StartPromote(p)
  <2>1. PICK r \in Release, e \in Release \cup {None}, t \in Tx :
           Start(p, [NoJob EXCEPT !.op = "PROMOTE", !.tx = t, !.target = r,
                                  !.expected = e], "lock")
    BY <1>2 DEF StartPromote
  <2>2. Typed([NoJob EXCEPT !.op = "PROMOTE", !.tx = t, !.target = r,
                            !.expected = e])
    BY Labels DEF NoJob, Job, Mode, Reason, LocalOK
  <2>3. QED BY <2>1, <2>2, <1>1
<1>3. CASE StartRollback(p)
  <2>1. PICK r \in Release, e \in Release \cup {None}, t \in Tx, why \in Reasons :
           Start(p, [NoJob EXCEPT !.op = "ROLLBACK", !.tx = t, !.target = r,
                                  !.expected = e, !.reason = why], "lock")
    BY <1>3 DEF StartRollback
  <2>2. Typed([NoJob EXCEPT !.op = "ROLLBACK", !.tx = t, !.target = r,
                            !.expected = e, !.reason = why])
    BY Labels, PolicyAssumption DEF NoJob, Job, Mode, Reason, LocalOK
  <2>3. QED BY <2>1, <2>2, <1>1
<1>4. Typed([NoJob EXCEPT !.op = "RECOVER"])
  BY Labels DEF NoJob, Job, Mode, Reason, LocalOK
<1>5. CASE StartRecover(p)
  BY <1>1, <1>4, <1>5 DEF StartRecover
<1>6. CASE StartForcedRecover(p)
  BY <1>1, <1>4, <1>6 DEF StartForcedRecover
<1>7. QED BY <1>2, <1>3, <1>5, <1>6 DEF Call

LEMMA LockingTyped ==
    ASSUME TypeInv, NEW p \in Proc, Locking(p) PROVE TypeInv'
<1>1. CASE ForceUnlock(p)
  <2>1. CallsTyped'
    BY <1>1, GoTyped DEF ForceUnlock, Go
  <2>2. FilesTyped'
    BY <1>1 DEF TypeInv, ForceUnlock, FilesTyped, pointerFiles, journals, trees
  <2>3. QED BY <2>1, <2>2 DEF TypeInv
<1>2. CASE Acquire(p)
  <2>1. CallsTyped'
    BY <1>2, GoTyped DEF Acquire, Go
  <2>2. FilesTyped'
    BY <1>2 DEF TypeInv, Acquire, FilesTyped, pointerFiles, journals, trees
  <2>3. QED BY <2>1, <2>2 DEF TypeInv
<1>3. CASE Contended(p)
  <2>1. CallsTyped'
    BY <1>3, QuitTyped DEF Contended
  <2>2. FilesTyped'
    BY <1>3 DEF TypeInv, Contended, FilesTyped, pointerFiles, journals, trees
  <2>3. QED BY <2>1, <2>2 DEF TypeInv
<1>4. CASE Unlock(p)
  <2>1. CallsTyped'
    BY <1>4, QuitTyped DEF Unlock
  <2>2. FilesTyped'
    BY <1>4 DEF TypeInv, Unlock, FilesTyped, pointerFiles, journals, trees
  <2>3. QED BY <2>1, <2>2 DEF TypeInv
<1>5. QED BY <1>1, <1>2, <1>3, <1>4 DEF Locking

(* Entering the handler is right wherever there is a journal.              *)
LEMMA RaiseTyped ==
    ASSUME TypeInv, NEW p \in Proc, pc[p] \in Journaled, Raise(p)
    PROVE  CallsTyped'
<1> DEFINE j == [job[p] EXCEPT !.mode = "abort"]
<1>1. job' = [job EXCEPT ![p] = j] /\ Goto(p, "restore_current")
  BY DEF Raise
<1>2. job[p] \in Job /\ LocalOK(pc[p], job[p])
  BY DEF TypeInv, CallsTyped
<1>3. j \in Job
  BY <1>2 DEF Job, Mode
<1>4. "restore_current" \in Restoring /\ pc[p] # "idle"
  BY Labels DEF Restoring
<1>5. LocalOK("restore_current", job[p]) /\ "restore_current" \in Label
  BY <1>2, <1>4, NextLabel
<1>6. LocalOK("restore_current", j)
  BY <1>2, <1>5 DEF LocalOK, Job
<1>7. QED BY <1>1, <1>3, <1>5, <1>6, CallMoves

LEMMA CheckTyped ==
    ASSUME TypeInv, NEW p \in Proc, Check(p) PROVE TypeInv'
<1>1. FilesTyped'
  BY DEF TypeInv, Check, FilesTyped, pointerFiles, journals, trees
<1>2. LocalOK("check", job[p]) /\ job[p] \in Job
  BY DEF TypeInv, CallsTyped, Check
<1>3. ASSUME NEW c \in Content, job[p].op \in {"PROMOTE", "ROLLBACK"}, Admit(p, c)
      PROVE  CallsTyped'
  <2> DEFINE j == [job[p] EXCEPT !.digest = c, !.previous = CurrentRelease]
  <2>1. job' = [job EXCEPT ![p] = j] /\ Goto(p, "begin")
    BY <1>2, <1>3 DEF Admit, TypeInv, CallsTyped
  <2>2. CurrentRelease \in Release \cup {None}
    BY DEF CurrentRelease, TypeInv, FilesTyped, Pointer
  <2>3. j \in Job
    BY <1>2, <2>2 DEF Job
  <2>4. LocalOK("begin", j)
    BY <1>2, <1>3, <2>3, Labels DEF LocalOK, Job
  <2>5. QED BY <2>1, <2>3, <2>4, CallMoves, Labels
<1>4. CASE Goto(p, "unlock") /\ UNCHANGED job
  BY <1>1, <1>4, GoTyped DEF Check, Go, TypeInv
<1>5. CASE job[p].op = "ROLLBACK" /\ MayRollback(p) /\ Admit(p, manifests[job[p].target])
  <2>1. manifests[job[p].target] \in Content
    BY <1>2, <1>5 DEF LocalOK, MayRollback, Intact, TypeInv, FilesTyped
  <2>2. CallsTyped'
    BY <1>3, <1>5, <2>1
  <2>3. QED BY <1>1, <2>2 DEF TypeInv
<1>6. QED BY <1>1, <1>3, <1>4, <1>5 DEF Check, TypeInv

LEMMA BeginTyped ==
    ASSUME TypeInv, NEW p \in Proc, Begin(p) PROVE TypeInv'
<1> DEFINE jr == [tx |-> job[p].tx, op |-> job[p].op, status |-> "PREPARED",
                  target |-> job[p].target, prev |-> Snapshots]
           to == IF jr.op = "PROMOTE" THEN "copy" ELSE "archive"
           j == [job[p] EXCEPT !.journal = jr]
<1>1. LocalOK("begin", job[p]) /\ job[p] \in Job
  BY DEF TypeInv, CallsTyped, Begin, Go
<1>2. jr \in Journal
  BY <1>1 DEF LocalOK, Journal, Status, Snapshots, Previous, TypeInv, FilesTyped
<1>3. Goto(p, to) /\ job' = [job EXCEPT ![p] = j] /\ active' = jr
  BY DEF Begin, Go
<1>4. j \in Job
  BY <1>1, <1>2 DEF Job
<1>5. to \in Working /\ to \in Label
  BY Labels DEF Working, Staging, Pointing
<1>6. LocalOK(to, j)
  BY <1>1, <1>2, <1>4, <1>5, Labels DEF LocalOK, Job, Working, Staging, Pointing
<1>7. CallsTyped'
  BY <1>3, <1>4, <1>5, <1>6, CallMoves
<1>8. FilesTyped'
  BY <1>2, <1>3 DEF Begin, TypeInv, FilesTyped, pointerFiles, trees
<1>9. QED BY <1>7, <1>8 DEF TypeInv

LEMMA StagingTyped ==
    ASSUME TypeInv, NEW p \in Proc,
           CopyTree(p) \/ Reconcile(p) \/ StageManifest(p)
    PROVE  TypeInv'
<1>1. job[p] \in Job /\ LocalOK(pc[p], job[p])
  BY DEF TypeInv, CallsTyped
<1>2. {"copy", "copying", "stage_manifest", "mark_staged"} \subseteq Working
  BY DEF Working, Staging
<1>3. CASE CopyTree(p)
  <2>1. CallsTyped'
    BY <1>2, <1>3, GoTyped, RaiseTyped, Labels DEF CopyTree, Go
  <2>2. FilesTyped'
    BY <1>3 DEF CopyTree, TypeInv, FilesTyped, pointerFiles, journals, Tree
  <2>3. QED BY <2>1, <2>2 DEF TypeInv
<1>4. CASE Reconcile(p)
  <2>1. CallsTyped'
    BY <1>2, <1>4, GoTyped, RaiseTyped, Labels DEF Reconcile, Go
  <2>2. FilesTyped'
    BY <1>4 DEF Reconcile, TypeInv, FilesTyped, pointerFiles, journals, Tree
  <2>3. QED BY <2>1, <2>2 DEF TypeInv
<1>5. CASE StageManifest(p)
  <2>1. CallsTyped'
    BY <1>2, <1>5, GoTyped, Labels DEF StageManifest, Go
  <2>2. job[p].digest \in Content
    BY <1>1, <1>2, <1>5 DEF StageManifest, Go, LocalOK
  <2>3. FilesTyped'
    BY <1>5, <2>2 DEF StageManifest, TypeInv, FilesTyped, pointerFiles, journals
  <2>4. QED BY <2>1, <2>3 DEF TypeInv
<1>6. QED BY <1>3, <1>4, <1>5

(* A journal that is written is the call's own with another status.        *)
LEMMA WriteJournalTyped ==
    ASSUME TypeInv, NEW p \in Proc, pc[p] \in Journaled, NEW status \in Status,
           NEW to \in Label, Goto(p, to), WriteJournal(p, status),
           \/ LocalOK(to, job[p]) /\ to \notin {"finish_history", "finish_clear"}
           \/ to = "finish_history" /\ status \in FinalStatus
    PROVE  CallsTyped' /\ active' \in Journal
<1> DEFINE jr == [job[p].journal EXCEPT !.status = status]
           j == [job[p] EXCEPT !.journal = jr]
<1>1. LocalOK(pc[p], job[p]) /\ job[p] \in Job /\ job[p].journal \in Journal
  BY DEF TypeInv, CallsTyped, LocalOK
<1>2. jr \in Journal /\ jr.status = status
  BY <1>1 DEF Journal
<1>3. active' = jr /\ job' = [job EXCEPT ![p] = j]
  BY DEF WriteJournal
<1>4. j \in Job /\ j.op = job[p].op /\ j.tx = job[p].tx /\ j.target = job[p].target
      /\ j.digest = job[p].digest /\ j.journal = jr
  BY <1>1, <1>2 DEF Job
<1>5. LocalOK(to, j)
  <2>1. CASE LocalOK(to, job[p]) /\ to \notin {"finish_history", "finish_clear"}
    BY <2>1, <1>2, <1>4 DEF LocalOK
  <2>2. CASE to = "finish_history" /\ status \in FinalStatus
    <3>1. to \notin {"begin"} \cup Working /\ pc[p] # "idle"
      BY <2>2, Labels DEF Working, Staging, Pointing
    <3>2. QED BY <1>1, <1>2, <1>4, <2>2, <3>1 DEF LocalOK
  <2>3. QED BY <2>1, <2>2
<1>6. QED BY <1>2, <1>3, <1>4, <1>5, CallMoves

LEMMA InstallTyped ==
    ASSUME TypeInv, NEW p \in Proc,
           Mark(p) \/ InstallRelease(p) \/ InstallManifest(p)
    PROVE  TypeInv'
<1>1. job[p] \in Job /\ LocalOK(pc[p], job[p])
  BY DEF TypeInv, CallsTyped
<1>2. {"mark_staged", "install_release", "install_manifest", "mark_installed",
       "archive"} \subseteq Working
  BY DEF Working, Staging, Pointing
<1>3. CASE Mark(p)
  <2>1. PICK to \in {"install_release", "archive"}, status \in Status :
           Goto(p, to) /\ WriteJournal(p, status) /\ pc[p] \in Working
    BY <1>2, <1>3 DEF Mark, Go, Status
  <2>2. LocalOK(to, job[p]) /\ to \in Label
    BY <1>1, <1>2, <2>1, NextLabel, Labels
  <2>3. CallsTyped' /\ active' \in Journal
    BY <2>1, <2>2, WriteJournalTyped, Labels
  <2>4. FilesTyped'
    BY <1>3, <2>3 DEF Mark, TypeInv, FilesTyped, pointerFiles, trees
  <2>5. QED BY <2>3, <2>4 DEF TypeInv
<1>4. CASE InstallRelease(p)
  <2>1. CallsTyped'
    BY <1>2, <1>4, GoTyped, RaiseTyped, Labels DEF InstallRelease, Go
  <2>2. job[p].tx \in Tx /\ job[p].target \in Release
    BY <1>1, <1>2, <1>4 DEF InstallRelease, LocalOK
  <2>3. FilesTyped'
    BY <1>4, <2>2 DEF InstallRelease, TypeInv, FilesTyped, pointerFiles, journals, Tree
  <2>4. QED BY <2>1, <2>3 DEF TypeInv
<1>5. CASE InstallManifest(p)
  <2>1. CallsTyped'
    BY <1>2, <1>5, GoTyped, RaiseTyped, Labels DEF InstallManifest, Go
  <2>2. job[p].tx \in Tx /\ job[p].target \in Release
    BY <1>1, <1>2, <1>5 DEF InstallManifest, LocalOK
  <2>3. FilesTyped'
    BY <1>5, <2>2 DEF InstallManifest, TypeInv, FilesTyped, pointerFiles, journals
  <2>4. QED BY <2>1, <2>3 DEF TypeInv
<1>6. QED BY <1>3, <1>4, <1>5

LEMMA PointingTyped ==
    ASSUME TypeInv, NEW p \in Proc,
           Archive(p) \/ SetCurrent(p) \/ SetLastSuccess(p)
    PROVE  TypeInv'
<1>1. job[p] \in Job /\ LocalOK(pc[p], job[p])
  BY DEF TypeInv, CallsTyped
<1>2. {"archive", "current", "last_success"} \subseteq Working
  BY DEF Working, Pointing
<1>3. pc[p] \in Working
  BY <1>2 DEF Archive, SetCurrent, SetLastSuccess, Go
<1>4. NewPointer(p) \in Pointer /\ job[p].tx \in Tx
  BY <1>1, <1>3 DEF LocalOK, NewPointer, Pointer
<1>5. CASE Archive(p)
  <2>1. CallsTyped'
    BY <1>2, <1>5, GoTyped, RaiseTyped, Labels DEF Archive, Go
  <2>2. archive' \in SUBSET Entry
    <3>1. CASE current # None /\ archive' = ArchivePrevious(KeptEntries(p), current, job[p])
      <4>1. current \in Pointer /\ job[p].reason \in Reason /\ archive \in SUBSET Entry
        BY <3>1, <1>1 DEF TypeInv, FilesTyped, Job
      <4>2. KeptEntries(p) \in SUBSET Entry
        BY <4>1 DEF KeptEntries
      <4>3. [release |-> current.release, digest |-> current.digest,
             tx |-> job[p].tx, reason |-> job[p].reason] \in Entry
        BY <1>4, <4>1 DEF Entry, Pointer
      <4>4. QED BY <3>1, <4>2, <4>3 DEF ArchivePrevious
    <3>2. CASE archive' = archive
      BY <3>2 DEF TypeInv, FilesTyped
    <3>3. QED BY <1>5, <3>1, <3>2 DEF Archive
  <2>3. FilesTyped'
    BY <1>5, <2>2 DEF Archive, TypeInv, FilesTyped, journals, trees
  <2>4. QED BY <2>1, <2>3 DEF TypeInv
<1>6. CASE SetCurrent(p)
  <2>1. CallsTyped'
    BY <1>2, <1>6, GoTyped, Labels DEF SetCurrent, Go
  <2>2. FilesTyped'
    BY <1>4, <1>6 DEF SetCurrent, TypeInv, FilesTyped, journals, trees
  <2>3. QED BY <2>1, <2>2 DEF TypeInv
<1>7. CASE SetLastSuccess(p)
  <2>1. CallsTyped'
    BY <1>2, <1>7, GoTyped, Labels DEF SetLastSuccess, Go
  <2>2. FilesTyped'
    BY <1>4, <1>7 DEF SetLastSuccess, TypeInv, FilesTyped, journals, trees
  <2>3. QED BY <2>1, <2>2 DEF TypeInv
<1>8. QED BY <1>5, <1>6, <1>7

LEMMA FinishTyped ==
    ASSUME TypeInv, NEW p \in Proc, Finish(p) PROVE TypeInv'
<1>1. job[p] \in Job /\ LocalOK(pc[p], job[p])
  BY DEF TypeInv, CallsTyped
<1>2. Finishing \subseteq Journaled /\ Finishing \subseteq Label
  BY Labels DEF Journaled
<1>3. CASE FinishActive(p)
  <2>1. Outcome(p) \in FinalStatus
    BY DEF Outcome, FinalStatus
  <2>2. CallsTyped' /\ active' \in Journal
    BY <1>2, <1>3, <2>1, WriteJournalTyped DEF FinishActive, Go, Finishing, Status
  <2>3. FilesTyped'
    BY <1>3, <2>2 DEF FinishActive, TypeInv, FilesTyped, pointerFiles, trees
  <2>4. QED BY <2>2, <2>3 DEF TypeInv
<1>4. CASE FinishHistory(p)
  <2>1. CallsTyped'
    BY <1>2, <1>4, GoTyped, Labels DEF FinishHistory, Go
  <2>2. job[p].journal \in Journal /\ job[p].journal.status \in FinalStatus
    BY <1>1, <1>2, <1>4 DEF FinishHistory, Go, LocalOK, Finishing
  <2>3. history' \in [Tx -> FinalStatus \cup {None}]
    BY <1>4, <2>2 DEF FinishHistory, TypeInv, FilesTyped, Journal
  <2>4. FilesTyped'
    BY <1>4, <2>3 DEF FinishHistory, TypeInv, FilesTyped, pointerFiles, trees
  <2>5. QED BY <2>1, <2>4 DEF TypeInv
<1>5. CASE FinishClear(p)
  <2> DEFINE j == [job[p] EXCEPT !.mode = "done"]
  <2>1. LocalOK("unlock", job[p])
    BY <1>1, <1>5, NextLabel DEF FinishClear, Go
  <2>2. j \in Job /\ LocalOK("unlock", j)
    BY <1>1, <2>1 DEF Job, Mode, LocalOK
  <2>3. job' = [job EXCEPT ![p] = j] /\ Goto(p, "unlock")
    BY <1>5 DEF FinishClear, Go
  <2>4. CallsTyped'
    BY <2>2, <2>3, CallMoves, Labels
  <2>5. FilesTyped'
    BY <1>5 DEF FinishClear, TypeInv, FilesTyped, pointerFiles, trees
  <2>6. QED BY <2>4, <2>5 DEF TypeInv
<1>6. QED BY <1>3, <1>4, <1>5 DEF Finish

LEMMA CheckRecoverTyped ==
    ASSUME TypeInv, NEW p \in Proc, CheckRecover(p) PROVE TypeInv'
<1>1. FilesTyped'
  BY DEF TypeInv, CheckRecover, FilesTyped, pointerFiles, journals, trees
<1>2. job[p] \in Job /\ LocalOK(pc[p], job[p])
  BY DEF TypeInv, CallsTyped
<1>3. CASE Goto(p, "unlock") /\ UNCHANGED job
  BY <1>1, <1>3, GoTyped DEF CheckRecover, Go, TypeInv
<1>4. CASE /\ active # None /\ Goto(p, ResumeAt(active.status))
           /\ job' = [job EXCEPT ![p].journal = active, ![p].mode = "recover"]
  <2> DEFINE j == [job[p] EXCEPT !.journal = active, !.mode = "recover"]
  <2>1. job' = [job EXCEPT ![p] = j]
    BY <1>2, <1>4 DEF TypeInv, CallsTyped
  <2>2. active \in Journal
    BY <1>4 DEF TypeInv, FilesTyped
  <2>3. j \in Job /\ j.journal = active /\ j.op = job[p].op /\ j.tx = job[p].tx
        /\ j.target = job[p].target
    BY <1>2, <2>2 DEF Job, Mode
  <2>4. ResumeAt(active.status) \in {"finish_active", "restore_archive"}
    BY DEF ResumeAt
  <2>5. /\ {"finish_active", "restore_archive"} \subseteq Label
        /\ {"finish_active", "restore_archive"} \cap ({"begin"} \cup Working) = {}
    BY Labels DEF Journaled, Finishing, Restoring, Working, Staging, Pointing
  <2>6. LocalOK(ResumeAt(active.status), j)
    BY <1>2, <2>2, <2>3, <2>4, <2>5 DEF LocalOK, CheckRecover
  <2>7. CallsTyped'
    BY <1>4, <2>1, <2>3, <2>4, <2>5, <2>6, CallMoves
  <2>8. QED BY <1>1, <2>7 DEF TypeInv
<1>5. QED BY <1>3, <1>4 DEF CheckRecover

LEMMA RestoreTyped ==
    ASSUME TypeInv, NEW p \in Proc,
           RestoreCurrent(p) \/ RestoreLastSuccess(p) \/ RestoreArchive(p)
    PROVE  TypeInv'
<1>1. /\ {"restore_current", "restore_last_success", "restore_archive"} = Restoring
      /\ Restored(p) \in Removing \cup {"finish_active"}
  BY DEF Restoring, Restored, Removing
<1>2. pc[p] \in Restoring /\ pc[p] \in Journaled
  BY <1>1 DEF RestoreCurrent, RestoreLastSuccess, RestoreArchive, Go, Journaled
<1>3. job[p].journal.prev \in Previous
  BY <1>2 DEF TypeInv, CallsTyped, LocalOK, Journal
<1>4. CallsTyped'
  BY <1>1, <1>2, GoTyped, Labels DEF RestoreCurrent, RestoreLastSuccess, RestoreArchive, Go
<1>5. FilesTyped'
  BY <1>3 DEF RestoreCurrent, RestoreLastSuccess, RestoreArchive, Previous,
     TypeInv, FilesTyped, journals, trees
<1>6. QED BY <1>4, <1>5 DEF TypeInv

LEMMA RemoveTyped ==
    ASSUME TypeInv, NEW p \in Proc,
           \/ RemoveStaging(p) \/ RemoveInstalled(p)
           \/ RemoveStagedManifest(p) \/ RemoveManifest(p)
    PROVE  TypeInv'
<1>1. {"remove_staging", "remove_installed", "remove_staged_manifest",
       "remove_manifest"} = Removing
  BY DEF Removing
<1>2. pc[p] \in Removing /\ pc[p] \in Journaled
  BY <1>1 DEF RemoveStaging, RemoveInstalled, RemoveStagedManifest, RemoveManifest,
     Go, Journaled
<1>3. job[p].journal.tx \in Tx /\ job[p].journal.target \in Release
  BY <1>2 DEF TypeInv, CallsTyped, LocalOK, Journal
<1>4. CallsTyped'
  BY <1>1, <1>2, GoTyped, Labels DEF RemoveStaging, RemoveInstalled,
     RemoveStagedManifest, RemoveManifest, Go
<1>5. \A tree : Shrunk(tree) \in Tree
  BY DEF Shrunk, Tree
<1>6. FilesTyped'
  BY <1>3, <1>5 DEF RemoveStaging, RemoveInstalled, RemoveStagedManifest,
     RemoveManifest, TypeInv, FilesTyped, pointerFiles, journals
<1>7. QED BY <1>4, <1>6 DEF TypeInv

LEMMA FailureTyped ==
    ASSUME TypeInv, NEW p \in Proc, Failure(p) PROVE TypeInv'
<1>1. faults' \in 0 .. MaxFaults
  BY FaultAssumption DEF Failure, RaiseException, RaiseInTail, Interrupt, Kill, Fail,
     TypeInv, FilesTyped
<1>2. lock' \in Proc \cup {Free, Stale}
  BY DEF Failure, RaiseException, RaiseInTail, Interrupt, Kill, TypeInv, FilesTyped
<1>3. FilesTyped'
  BY <1>1, <1>2 DEF Failure, RaiseException, RaiseInTail, Interrupt, Kill,
     TypeInv, FilesTyped, pointerFiles, journals, trees
<1>4. /\ Staging \cup Pointing \cup {"finish_active", "finish_history", "finish_clear"}
           \subseteq Journaled
      /\ "idle" \notin Body
  BY DEF Journaled, Working, Finishing, Body, Staging, Pointing, Restoring, Removing
<1>5. CASE Quit(p)
  BY <1>3, <1>5, QuitTyped DEF TypeInv
<1>6. CASE pc[p] \in Journaled /\ Raise(p)
  BY <1>3, <1>6, RaiseTyped DEF TypeInv
<1>7. CASE pc[p] # "idle" /\ Goto(p, "unlock") /\ UNCHANGED job
  BY <1>3, <1>7, GoTyped DEF Go, TypeInv
<1>8. QED
  BY <1>4, <1>5, <1>6, <1>7 DEF Failure, RaiseException, RaiseInTail, Interrupt, Kill

LEMMA NextTyped == TypeInv /\ [Next]_vars => TypeInv'
<1> SUFFICES ASSUME TypeInv, [Next]_vars PROVE TypeInv'
  OBVIOUS
<1>1. CASE UNCHANGED vars
  BY <1>1 DEF vars, pointerFiles, journals, trees, TypeInv, FilesTyped, CallsTyped
<1>2. ASSUME NEW p \in Proc, Apply(p) PROVE TypeInv'
  BY <1>2, CheckTyped, BeginTyped, StagingTyped, InstallTyped, PointingTyped DEF Apply
<1>3. ASSUME NEW p \in Proc, Undo(p) PROVE TypeInv'
  BY <1>3, CheckRecoverTyped, RestoreTyped, RemoveTyped DEF Undo
<1>4. QED
  BY <1>1, <1>2, <1>3, CallTyped, LockingTyped, FinishTyped, FailureTyped DEF Next, Step

(* Every reachable state has values of the right kind, whatever fails and  *)
(* however the lock is forced: also no step reads a field of a missing     *)
(* journal, pointer or manifest.                                           *)
THEOREM TypeCorrect == Spec => []TypeOK
<1>1. TypeInv => TypeOK
  BY DEF TypeInv, FilesTyped, CallsTyped, TypeOK
<1>2. QED BY <1>1, InitTypeInv, NextTyped, PTL DEF Spec
-----------------------------------------------------------------------------
(* Mutual exclusion.  --force-lock breaks it when two operators use it at  *)
(* once; when one at a time does, an operator who is about to unlink the   *)
(* lock file still finds the one the dead process left.                    *)

OneForces ==
    /\ \A p \in Proc : pc[p] = "force" => lock = Stale
    /\ \A p, q \in Proc : pc[p] = "force" /\ pc[q] = "force" => p = q

LockInv == TypeInv /\ SingleWriter /\ OneForces

LEMMA CriticalLabels ==
    /\ Journaled \subseteq Critical
    /\ {"check", "begin", "unlock"} \subseteq Critical
    /\ {"idle", "force", "lock"} \cap Critical = {}
    /\ Critical \subseteq Label
BY DEF Critical, Body, Journaled, Working, Staging, Pointing, Restoring, Removing,
   Finishing, Label

(* A step of the body stays inside the with statement.                     *)
StaysInside(p) ==
    pc[p] \in Critical /\ lock' = lock /\ \E to \in Critical : Goto(p, to)

LEMMA ApplyInside ==
    ASSUME TypeInv, NEW p \in Proc, Apply(p) PROVE StaysInside(p)
<1>1. Working \subseteq Critical /\ "restore_current" \in Critical
      /\ "finish_active" \in Critical
  BY CriticalLabels, Labels DEF Journaled, Restoring, Finishing
<1>2. CASE Check(p) \/ Begin(p)
  BY <1>1, <1>2, CriticalLabels DEF Check, Begin, Admit, Go, StaysInside, Working,
     Staging, Pointing
<1>3. CASE CopyTree(p) \/ Reconcile(p) \/ StageManifest(p)
  BY <1>1, <1>3 DEF CopyTree, Reconcile, StageManifest, Raise, Go, StaysInside,
     Working, Staging
<1>4. CASE Mark(p) \/ InstallRelease(p) \/ InstallManifest(p)
  BY <1>1, <1>4 DEF Mark, InstallRelease, InstallManifest, Raise, Go, StaysInside,
     Working, Staging, Pointing
<1>5. CASE Archive(p) \/ SetCurrent(p) \/ SetLastSuccess(p)
  BY <1>1, <1>5 DEF Archive, SetCurrent, SetLastSuccess, Raise, Go, StaysInside,
     Working, Pointing
<1>6. QED BY <1>2, <1>3, <1>4, <1>5 DEF Apply

LEMMA FinishInside ==
    ASSUME NEW p \in Proc, Finish(p) PROVE StaysInside(p)
BY CriticalLabels DEF Finish, FinishActive, FinishHistory, FinishClear, Go, StaysInside,
   Journaled, Finishing

LEMMA UndoInside ==
    ASSUME NEW p \in Proc, Undo(p) PROVE StaysInside(p)
<1>1. Restoring \cup Removing \cup Finishing \subseteq Critical
  BY CriticalLabels DEF Journaled
<1>2. CASE CheckRecover(p)
  BY <1>1, <1>2, CriticalLabels DEF CheckRecover, ResumeAt, StaysInside, Restoring, Finishing
<1>3. Restored(p) \in Critical
  BY <1>1 DEF Restored, Removing, Finishing
<1>4. CASE RestoreCurrent(p) \/ RestoreLastSuccess(p) \/ RestoreArchive(p)
  BY <1>1, <1>3, <1>4 DEF RestoreCurrent, RestoreLastSuccess, RestoreArchive, Go,
     StaysInside, Restoring
<1>5. CASE RemoveStaging(p) \/ RemoveInstalled(p) \/ RemoveStagedManifest(p)
           \/ RemoveManifest(p)
  BY <1>1, <1>5 DEF RemoveStaging, RemoveInstalled, RemoveStagedManifest,
     RemoveManifest, Go, StaysInside, Removing, Finishing
<1>6. QED BY <1>2, <1>4, <1>5 DEF Undo

(* How a move of one call can change who is where.                         *)
LEMMA OnlyMover ==
    ASSUME TypeInv, NEW p \in Proc, NEW to, Goto(p, to)
    PROVE  pc'[p] = to /\ \A q \in Proc : q # p => pc'[q] = pc[q]
BY DEF TypeInv, CallsTyped, Goto

LEMMA InsideKeepsLock ==
    ASSUME LockInv, NEW p \in Proc, StaysInside(p)
    PROVE  SingleWriter' /\ OneForces'
<1>1. PICK to \in Critical : Goto(p, to)
  BY DEF StaysInside
<1>2. pc'[p] \in Critical /\ \A q \in Proc : q # p => pc'[q] = pc[q]
  BY <1>1, OnlyMover DEF LockInv
<1>3. QED BY <1>2, CriticalLabels DEF StaysInside, LockInv, SingleWriter, OneForces

(* A call that leaves the with statement, or gives up before it.           *)
LEMMA QuitKeepsLock ==
    ASSUME LockInv, NEW p \in Proc, Quit(p),
           \/ lock' = lock
           \/ lock' = Stale /\ lock \in {p, Free}
           \/ lock' = Free /\ lock = p
    PROVE  SingleWriter' /\ OneForces'
<1>1. pc'[p] = "idle" /\ \A q \in Proc : q # p => pc'[q] = pc[q]
  BY OnlyMover DEF LockInv, Quit
<1>2. Free \notin Proc /\ Stale \notin Proc /\ Free # Stale
  BY SentinelAssumption
<1>3. QED BY <1>1, <1>2, CriticalLabels DEF LockInv, SingleWriter, OneForces

LEMMA LockStep ==
    ASSUME ExclusiveForce, LockInv, NEW p \in Proc, Call(p) \/ Locking(p)
    PROVE  SingleWriter' /\ OneForces'
<1>1. Free \notin Proc /\ Stale \notin Proc /\ Free # Stale
  BY SentinelAssumption
<1>2. CASE StartPromote(p) \/ StartRollback(p) \/ StartRecover(p)
  <2>1. Goto(p, "lock") /\ lock' = lock
    BY <1>2 DEF StartPromote, StartRollback, StartRecover, Start, Go
  <2>2. QED BY <2>1, OnlyMover, CriticalLabels DEF LockInv, SingleWriter, OneForces
<1>3. CASE StartForcedRecover(p)
  <2>1. Goto(p, "force") /\ lock' = lock /\ lock = Stale
        /\ \A q \in Proc : pc[q] # "force"
    BY <1>3 DEF StartForcedRecover, Start, Go
  <2>2. pc'[p] = "force" /\ \A q \in Proc : q # p => pc'[q] = pc[q]
    BY <2>1, OnlyMover DEF LockInv
  <2>3. QED BY <2>1, <2>2, CriticalLabels DEF LockInv, SingleWriter, OneForces
<1>4. CASE ForceUnlock(p)
  <2>1. Goto(p, "lock") /\ pc[p] = "force" /\ lock = Stale /\ lock' = Free
    BY <1>4 DEF ForceUnlock, Go, LockInv, OneForces
  <2>2. pc'[p] = "lock" /\ \A q \in Proc : q # p => pc'[q] = pc[q]
    BY <2>1, OnlyMover DEF LockInv
  <2>3. \A q \in Proc : pc'[q] # "force" /\ pc'[q] \notin Critical
    BY <1>1, <2>1, <2>2, CriticalLabels DEF LockInv, SingleWriter, OneForces
  <2>4. QED BY <2>3 DEF SingleWriter, OneForces
<1>5. CASE Acquire(p)
  <2>1. Goto(p, "check") /\ lock = Free /\ lock' = p
    BY <1>5 DEF Acquire, Go, LockFree
  <2>2. pc'[p] = "check" /\ \A q \in Proc : q # p => pc'[q] = pc[q]
    BY <2>1, OnlyMover DEF LockInv
  <2>3. \A q \in Proc : pc[q] # "force" /\ pc[q] \notin Critical
    BY <1>1, <2>1 DEF LockInv, SingleWriter, OneForces
  <2>4. QED BY <2>1, <2>2, <2>3 DEF SingleWriter, OneForces
<1>6. CASE Contended(p)
  BY <1>6, QuitKeepsLock DEF Contended
<1>7. CASE Unlock(p)
  <2>1. lock = p
    BY <1>7, CriticalLabels DEF Unlock, LockInv, SingleWriter
  <2>2. QED BY <1>7, <2>1, QuitKeepsLock DEF Unlock
<1>8. QED BY <1>2, <1>3, <1>4, <1>5, <1>6, <1>7 DEF Call, Locking

LEMMA LockFailure ==
    ASSUME LockInv, NEW p \in Proc, Failure(p)
    PROVE  SingleWriter' /\ OneForces'
<1>1. Journaled \cup {"check", "begin"} = Body /\ "restore_current" \in Critical
      /\ {"finish_active", "finish_history", "finish_clear"} \cup Staging \cup Pointing
            \subseteq Body
      /\ Body \subseteq Critical
  BY CriticalLabels DEF Body, Journaled, Working, Restoring, Finishing, Critical
<1>2. CASE RaiseException(p)
  <2>1. CASE LockFree /\ lock' = Stale /\ Quit(p)
    BY <2>1, QuitKeepsLock DEF LockFree
  <2>2. CASE pc[p] \in Body /\ (Raise(p) \/ Goto(p, "unlock")) /\ lock' = lock
    BY <1>1, <2>2, InsideKeepsLock, CriticalLabels DEF StaysInside, Raise
  <2>3. QED BY <1>1, <1>2, <2>1, <2>2 DEF RaiseException
<1>3. CASE RaiseInTail(p) \/ Interrupt(p)
  BY <1>1, <1>3, InsideKeepsLock, CriticalLabels DEF RaiseInTail, Interrupt, StaysInside, Raise
<1>4. CASE Kill(p)
  BY <1>4, QuitKeepsLock DEF Kill
<1>5. QED BY <1>2, <1>3, <1>4 DEF Failure

LEMMA InitLock == Init => SingleWriter /\ OneForces
BY CriticalLabels DEF Init, SingleWriter, OneForces

LEMMA NextLock ==
    ASSUME ExclusiveForce PROVE LockInv /\ [Next]_vars => LockInv'
<1> SUFFICES ASSUME LockInv, [Next]_vars PROVE SingleWriter' /\ OneForces'
  BY NextTyped DEF LockInv
<1>1. CASE UNCHANGED vars
  BY <1>1 DEF vars, LockInv, SingleWriter, OneForces
<1>2. ASSUME NEW p \in Proc, Step(p) PROVE SingleWriter' /\ OneForces'
  <2>1. Apply(p) \/ Finish(p) \/ Undo(p) => StaysInside(p)
    BY ApplyInside, FinishInside, UndoInside DEF LockInv
  <2>2. QED BY <1>2, <2>1, InsideKeepsLock, LockStep DEF Step
<1>3. QED BY <1>1, <1>2, LockStep, LockFailure DEF Next

(* When --force-lock is used by one operator at a time, and only on a lock *)
(* whose holder is dead, no two processes are ever in a transaction        *)
(* at once, whatever calls fail.                                           *)
THEOREM MutualExclusion == ASSUME ExclusiveForce PROVE Spec => []SingleWriter
<1>1. Init => LockInv
  BY InitTypeInv, InitLock DEF LockInv
<1>2. LockInv /\ [Next]_vars => LockInv'
  BY NextLock
<1>3. LockInv => SingleWriter
  BY DEF LockInv
<1>4. QED BY <1>1, <1>2, <1>3, PTL DEF Spec
=============================================================================
