------------------------- MODULE PromotionInvariant ------------------------
(***************************************************************************)
(* Why PromotionEngine's workspace is consistent: what the files hold at    *)
(* every point of a transaction, from the journal's point of view.  The     *)
(* engine's invariants follow from EngineInv, which every step preserves.   *)
(***************************************************************************)
EXTENDS PromotionEngine

Working == Staging \cup Pointing
Journaled == Working \cup Restoring \cup Removing \cup Finishing

(* Release r is the current one of the snapshots s, or archived in them.    *)
Names(s, r) ==
    \/ s.current # None /\ s.current.release = r
    \/ \E e \in s.archive : e.release = r

PreviousRelease(a) ==
    IF a.prev.current = None THEN None ELSE a.prev.current.release

(* The archive once the journal a's transaction has superseded the release  *)
(* that was current.                                                        *)
ArchiveAfter(a, why) ==
    IF a.prev.current = None THEN {}
    ELSE {e \in a.prev.archive : e.release # a.target}
         \cup {[release |-> a.prev.current.release,
                digest |-> a.prev.current.digest, tx |-> a.tx, reason |-> why]}

Unstaged(t) == stagedReleases[t] = None /\ stagedManifests[t] = None

(* The transaction of journal a has been carried out.                       *)
InForce(a) ==
    /\ current # None /\ lastSuccess = current
    /\ current.release = a.target /\ current.tx = a.tx
    /\ Installed(current)
    /\ Unstaged(a.tx)
    /\ \E why \in Reason : archive = ArchiveAfter(a, why)

(* The transaction of journal a has been undone.                            *)
Undone(a) ==
    /\ Snapshots = a.prev
    /\ a.op = "PROMOTE" => Unstaged(a.tx) /\ NotInstalled(a.target)

(* What an open journal can rely on: only its own transaction has files of  *)
(* its own, a promotion's target is no accepted release, a rollback's is,   *)
(* and a final status is the truth.                                         *)
OpenOK(a) ==
    /\ \A t \in Tx \ {a.tx} : Unstaged(t)
    /\ \A r \in Release :
          ~NotInstalled(r) => Names(a.prev, r) \/ (a.op = "PROMOTE" /\ r = a.target)
    /\ a.op = "PROMOTE" => ~Names(a.prev, a.target)
    /\ a.op = "ROLLBACK" => /\ Unstaged(a.tx)
                            /\ a.prev.current # None
                            /\ \E e \in a.prev.archive : e.release = a.target
    /\ history[a.tx] \in {None, a.status}
    /\ a.status = "COMMITTED" => InForce(a)
    /\ a.status \in {"ROLLED_BACK", "RECOVERED"} => Undone(a)

FilesInv ==
    /\ AcceptedIsConsistent /\ PointersHaveRecords /\ NothingLeftBehind
    /\ active # None => OpenOK(active)

(* A transaction identifier is in no record and no journal until its call   *)
(* writes one, and no two calls have the same one.                          *)
Entering == {"lock", "force", "check", "begin"}

Fresh ==
    /\ \A p \in Proc : pc[p] \in Entering =>
          /\ job[p].mode = "apply"
          /\ job[p].tx # None => /\ history[job[p].tx] = None
                                 /\ active # None => active.tx # job[p].tx
    /\ \A p, q \in Proc : p # q /\ job[p].tx = job[q].tx => job[p].tx = None
-----------------------------------------------------------------------------
(* How far a call has come: what holds when its next operation is label and *)
(* its local variables are j.                                               *)

PointerOf(j) == [release |-> j.target, digest |-> j.digest, tx |-> j.tx]

(* What the checks under the lock have found still holds.                   *)
Admitted(j) ==
    /\ active = None
    /\ j.previous = CurrentRelease
    /\ j.expected \in {None, CurrentRelease}
    /\ IF j.op = "PROMOTE" THEN NotInstalled(j.target)
       ELSE /\ CurrentRelease \notin {None, j.target}
            /\ releases[j.target] = j.digest /\ manifests[j.target] = j.digest

(* Its journal object is what active.json holds.                            *)
Owns(j) ==
    /\ active # None /\ j.journal = active
    /\ j.mode \in {"apply", "abort", "recover"}
    /\ j.mode # "recover" =>
          /\ j.tx = active.tx /\ j.target = active.target /\ j.op = active.op
          /\ j.expected \in {None, PreviousRelease(active)}
    /\ j.mode = "recover" => j.op = "RECOVER"

(* Where the promoted tree and its manifest are.                            *)
Placed(label, j) ==
    /\ label \in {"stage_manifest", "mark_staged", "install_release"} =>
          stagedReleases[j.tx] = j.digest
    /\ label \in {"mark_staged", "install_release", "install_manifest"} =>
          stagedManifests[j.tx] = j.digest
    /\ label \in {"install_manifest", "mark_installed", "finish_active"} \cup Pointing =>
          stagedReleases[j.tx] = None /\ releases[j.target] = j.digest
    /\ label \in {"mark_installed", "finish_active"} \cup Pointing =>
          stagedManifests[j.tx] = None /\ manifests[j.target] = j.digest

(* Which pointer files have been written.                                   *)
Pointed(label, j) ==
    /\ j.previous = PreviousRelease(active)
    /\ label \in Staging \cup {"archive"} => Snapshots = active.prev
    /\ label \in {"current", "last_success", "finish_active"} =>
          archive = ArchiveAfter(active, j.reason)
    /\ label \in {"last_success", "finish_active"} => current = PointerOf(j)
    /\ label = "finish_active" => lastSuccess = PointerOf(j)

Applying(label, j) ==
    /\ active.status \notin FinalStatus
    /\ j.digest \in Content
    /\ label \in Staging => j.op = "PROMOTE"
    /\ Placed(label, j) /\ Pointed(label, j)

(* Which pointer files the handler, or recovery, has restored.              *)
RestoredTo(label, mode, a) ==
    /\ label = "restore_last_success" => current = a.prev.current
    /\ mode = "abort" /\ label = "restore_archive" =>
          current = a.prev.current /\ lastSuccess = a.prev.lastSuccess
    /\ mode = "recover" /\ label \in {"restore_current", "restore_last_success"} =>
          archive = a.prev.archive

(* Which of the files a promotion created have been removed.                *)
RemovedTo(label, a) ==
    /\ Snapshots = a.prev
    /\ a.op = "PROMOTE"
    /\ label # "remove_staging" => stagedReleases[a.tx] = None
    /\ label \in {"remove_staged_manifest", "remove_manifest"} => releases[a.target] = None
    /\ label = "remove_manifest" => stagedManifests[a.tx] = None

(* The status the call has decided on is in the journal.                    *)
Decided(label, j) ==
    /\ active.status \in FinalStatus
    /\ j.mode = "apply" =>
          active.status = "COMMITTED" /\ current = PointerOf(j) /\ lastSuccess = current
    /\ j.mode = "abort" => active.status = "ROLLED_BACK"
    /\ label = "finish_clear" => history[active.tx] = active.status

(* What a call that returns success has achieved.                           *)
Achieved(j) ==
    j.mode = "done" /\ j.op # "RECOVER" /\ j.journal.status = "COMMITTED" =>
       /\ active = None /\ history[j.tx] = "COMMITTED"
       /\ current = PointerOf(j) /\ lastSuccess = current

Progress(label, j) ==
    /\ label \in Body => j.mode # "done"
    /\ label = "begin" => Admitted(j)
    /\ label \in Journaled => Owns(j)
    /\ label \in Working => j.mode = "apply"
    /\ label \in Working \cup {"finish_active"} /\ j.mode = "apply" => Applying(label, j)
    /\ label \in Restoring \cup Removing =>
          j.mode # "apply" /\ active.status \notin FinalStatus
    /\ label \in Restoring => RestoredTo(label, j.mode, active)
    /\ label \in Removing => RemovedTo(label, active)
    /\ label = "finish_active" /\ j.mode # "apply" =>
          /\ j.mode = "abort" => active.status \notin FinalStatus
          /\ active.status \notin FinalStatus => Undone(active)
    /\ label \in {"finish_history", "finish_clear"} => Decided(label, j)
    /\ label = "unlock" => Achieved(j)

(* From any moment on, recovery alone makes the workspace what the journal  *)
(* says it is, and a call that goes on finds the files as it left them.     *)
EngineInv ==
    /\ FilesInv
    /\ Fresh
    /\ \A p \in Proc : pc[p] \in Critical => Progress(pc[p], job[p])
=============================================================================
