--------------------------- MODULE PrivateRuntime ---------------------------
(***************************************************************************)
(* The private-project adapter around the engine: a runtime directory with *)
(* a lock and a binding of its own, and the core workspace below it.       *)
(* promote_private_release calls promote_release under the runtime's lock; *)
(* rollback_private_release and recover_private_runtime call the engine    *)
(* under no lock but the engine's.                                         *)
(*                                                                         *)
(* A release is a token of Content; of what is in it only the project ids  *)
(* in its receipt and in its control documents are told apart.             *)
(***************************************************************************)
EXTENDS PromotionEngine

CONSTANTS
    Project,      \* project ids
    receiptOf,    \* the project id in the receipt of a release
    controlOf,    \* the project id in its control documents
    Edited        \* a project directory may change after it was loaded

ASSUME ContentAssumption ==
    /\ receiptOf \in [Content -> Project]
    /\ controlOf \in [Content -> Project]
    /\ None \notin Project
    /\ Edited \in BOOLEAN

VARIABLES
    rootLock,   \* <runtime>/.promotion.lock
    binding,    \* <runtime>/private_runtime.json: its project id
    run         \* the adapter call of each process, around its engine call

runtimeVars == <<rootLock, binding, run>>
allVars == <<vars, runtimeVars>>

Place == {"idle", "root_lock", "bind", "build", "read_binding", "validate_first",
          "call", "engine", "unbind", "root_unlock", "validate"}
Locked == {"bind", "build", "unbind", "root_unlock"}
Ending == {"ok", "raised", "interrupted"}
Run == [op : {"PROMOTE", "ROLLBACK", "RECOVER", "NONE"}, at : Place,
        project : Project \cup {None}, target : Release \cup {None},
        candidate : Content \cup {None}, forced : BOOLEAN, created : BOOLEAN,
        ending : Ending]
NoRun == [op |-> "NONE", at |-> "idle", project |-> None, target |-> None,
          candidate |-> None, forced |-> FALSE, created |-> FALSE,
          ending |-> "raised"]

RuntimeInit ==
    Init /\ rootLock = Free /\ binding = None /\ run = [p \in Proc |-> NoRun]

Promoting(p) == run[p].op = "PROMOTE"
HoldsRoot(p) == \/ run[p].at \in Locked
                \/ Promoting(p) /\ run[p].at \in {"call", "engine"}

Begins(p, call) ==
    run[p].at = "idle" /\ run' = [run EXCEPT ![p] = call]
    /\ UNCHANGED <<vars, rootLock, binding>>
Proceed(p, from, to) == run[p].at = from /\ run' = [run EXCEPT ![p].at = to]
Done(p) == run' = [run EXCEPT ![p] = NoRun]
-----------------------------------------------------------------------------
(* Calls.  _load_private_project has accepted the project: the ids in its  *)
(* control documents are the adapter's.                                    *)

StartPromotePrivate(p) ==
    \E x \in Project :
        Begins(p, [NoRun EXCEPT !.op = "PROMOTE", !.at = "root_lock",
                                !.project = x])

StartRollbackPrivate(p) ==
    \E r \in Release :
        Begins(p, [NoRun EXCEPT !.op = "ROLLBACK", !.at = "read_binding",
                                !.target = r])

StartRecoverPrivate(p) ==
    \E f \in BOOLEAN :
        Begins(p, [NoRun EXCEPT !.op = "RECOVER", !.at = "read_binding",
                                !.forced = f])
-----------------------------------------------------------------------------
(* The runtime's lock and binding *)

RootFree_mutant == TRUE          \* mutant: promotions take no runtime lock
RootFree == rootLock = Free

LockRoot(p) ==
    /\ RootFree
    /\ Proceed(p, "root_lock", "bind")
    /\ rootLock' = p
    /\ UNCHANGED <<vars, binding>>

RootContended(p) ==
    /\ run[p].at = "root_lock" /\ ~RootFree
    /\ Done(p)
    /\ UNCHANGED <<vars, rootLock, binding>>

Accepts_mutant(x) == TRUE        \* mutant: PRIVATE_RUNTIME_PROJECT_CONFLICT lost
Accepts(x) == binding \in {None, x}

Bind(p) ==
    LET x == run[p].project
    IN /\ run[p].at = "bind"
       /\ \/ /\ Accepts(x)
             /\ binding' = x
             /\ run' = [run EXCEPT ![p].at = "build",
                                   ![p].created = (binding = None)]
          \/ /\ ~Accepts(x)
             /\ run' = [run EXCEPT ![p].at = "root_unlock"]
             /\ UNCHANGED binding
       /\ UNCHANGED <<vars, rootLock>>

(* _build_candidate copies the control documents again, as they are by now, *)
(* and writes a receipt with the id that was loaded.                        *)
Build(p) ==
    /\ run[p].at = "build"
    /\ \E c \in Content :
          /\ receiptOf[c] = run[p].project
          /\ Edited \/ controlOf[c] = run[p].project
          /\ run' = [run EXCEPT ![p].at = "call", ![p].candidate = c]
    /\ UNCHANGED <<vars, rootLock, binding>>

(* except Exception: a binding made by a call that accepted nothing goes.  *)
MayUnbind_mutant(p) == run[p].ending = "raised"   \* mutant: whoever made it
MayUnbind(p) == run[p].created /\ current = None

Unbind(p) ==
    /\ Proceed(p, "unbind", "root_unlock")
    /\ binding' = IF MayUnbind(p) THEN None ELSE binding
    /\ UNCHANGED <<vars, rootLock>>

UnlockRoot(p) ==
    /\ run[p].at = "root_unlock"
    /\ rootLock' = Free
    /\ IF run[p].ending = "ok" THEN run' = [run EXCEPT ![p].at = "validate"]
       ELSE Done(p)
    /\ UNCHANGED <<vars, binding>>
-----------------------------------------------------------------------------
(* Reads: the binding, and validate_private_runtime *)

ReadBinding(p) ==
    /\ \/ /\ binding # None
          /\ Proceed(p, "read_binding",
                     IF run[p].op = "ROLLBACK" THEN "validate_first" ELSE "call")
       \/ binding = None /\ run[p].at = "read_binding" /\ Done(p)
    /\ UNCHANGED <<vars, rootLock, binding>>

(* _validate_release *)
Belongs(c) == c \in Content /\ receiptOf[c] = binding /\ controlOf[c] = binding

RuntimeValid ==
    /\ binding # None /\ active = None
    /\ current # None /\ current = lastSuccess
    /\ Consistent(Snapshots) /\ ArchiveFits
    /\ \A r \in Release : releases[r] # None => Belongs(releases[r])

(* Reads that race a writer may also find it invalid.                      *)
Alone(p) == \A q \in Proc \ {p} : run[q].at = "idle"
MayRollBackTo(r) == RuntimeValid /\ Belongs(releases[r])

ValidateFirst(p) ==
    /\ run[p].at = "validate_first"
    /\ \/ /\ MayRollBackTo(run[p].target)
          /\ Proceed(p, "validate_first", "call")
       \/ /\ ~MayRollBackTo(run[p].target) \/ ~Alone(p)
          /\ Done(p)
    /\ UNCHANGED <<vars, rootLock, binding>>

(* What it finds afterwards is reported, and undoes nothing.               *)
Validate(p) ==
    /\ run[p].at = "validate" /\ Done(p)
    /\ UNCHANGED <<vars, rootLock, binding>>
-----------------------------------------------------------------------------
(* The engine call *)

CallEngine(p) ==
    /\ Proceed(p, "call", "engine")
    /\ CASE run[p].op = "PROMOTE" -> StartPromote(p)
         [] run[p].op = "ROLLBACK" -> /\ StartRollback(p)
                                      /\ job'[p].target = run[p].target
         [] OTHER -> IF run[p].forced /\ lock = Stale THEN StartForcedRecover(p)
                     ELSE StartRecover(p)
    /\ UNCHANGED <<rootLock, binding>>

(* An invalid transaction id is refused before the engine takes its lock.  *)
EngineRefuses(p) ==
    /\ run[p].op \in {"PROMOTE", "ROLLBACK"}
    /\ run[p].at = "call"
    /\ IF Promoting(p) THEN run' = [run EXCEPT ![p].at = "unbind"] ELSE Done(p)
    /\ UNCHANGED <<vars, rootLock, binding>>

(* The candidate is in a temporary directory that nobody else writes to.   *)
FromCandidate(p) ==
    Promoting(p) =>
        /\ pc[p] = "check" => job'[p].digest \in {None, run[p].candidate}
        /\ pc[p] = "copying" => stagedReleases'[job[p].tx] = run[p].candidate

(* How the call will end, when it leaves the engine's lock.                *)
EndingAfter(p) ==
    IF \/ pc[p] = "finish_clear" /\ job[p].mode # "abort"
       \/ pc[p] = "check" /\ job[p].op = "RECOVER" /\ active = None
    THEN "ok" ELSE run[p].ending

Onward_mutant(p, ending) ==      \* mutant: except BaseException
    IF Promoting(p) THEN IF ending = "ok" THEN "root_unlock" ELSE "unbind"
    ELSE IF ending = "ok" THEN "validate" ELSE "idle"
Onward(p, ending) ==
    CASE Promoting(p) /\ ending = "raised" -> "unbind"
      [] Promoting(p) /\ ending # "raised" -> "root_unlock"
      [] ~Promoting(p) /\ ending = "ok" -> "validate"
      [] OTHER -> "idle"

Returns_mutant(p, ending) ==     \* mutant: before the engine's lock is released
    LET to == IF pc'[p] \in {"unlock", "idle"} THEN Onward(p, ending) ELSE "engine"
    IN run' = [run EXCEPT ![p] = IF to = "idle" THEN NoRun
                                 ELSE [@ EXCEPT !.at = to, !.ending = ending]]
Returns(p, ending) ==
    LET to == IF pc'[p] = "idle" THEN Onward(p, ending) ELSE "engine"
    IN run' = [run EXCEPT ![p] = IF to = "idle" THEN NoRun
                                 ELSE [@ EXCEPT !.at = to, !.ending = ending]]

EngineStep(p) ==
    /\ run[p].at = "engine"
    /\ Step(p) /\ FromCandidate(p) /\ Returns(p, EndingAfter(p))
    /\ UNCHANGED <<rootLock, binding>>

EngineFailure(p) ==
    /\ run[p].at = "engine"
    /\ \/ RaiseException(p) /\ Returns(p, "raised")
       \/ RaiseInTail(p) /\ Returns(p, "raised")
       \/ Interrupt(p) /\ Returns(p, "interrupted")
    /\ UNCHANGED <<rootLock, binding>>
-----------------------------------------------------------------------------
(* Failures outside the engine *)

NoEngineChange ==
    UNCHANGED <<lock, pointerFiles, journals, trees, pc, job>>

RuntimeException(p) ==
    /\ Fail("exception")
    /\ \/ /\ run[p].at = "root_lock" /\ RootFree
          /\ rootLock' = Stale /\ Done(p)
       \/ Proceed(p, "bind", "root_unlock") /\ UNCHANGED rootLock
       \/ Proceed(p, "build", "unbind") /\ UNCHANGED rootLock
       \/ Proceed(p, "unbind", "root_unlock") /\ UNCHANGED rootLock
    /\ NoEngineChange /\ UNCHANGED binding

RuntimeInterrupt(p) ==
    /\ Fail("interrupt")
    /\ run[p].at \in {"bind", "build", "unbind"}
    /\ Proceed(p, run[p].at, "root_unlock")
    /\ NoEngineChange /\ UNCHANGED <<rootLock, binding>>

RuntimeKill(p) ==
    /\ \/ Kill(p)
       \/ run[p].at \notin {"idle", "engine"} /\ Fail("kill") /\ NoEngineChange
    /\ rootLock' = IF rootLock = p THEN Stale ELSE rootLock
    /\ Done(p)
    /\ UNCHANGED binding
-----------------------------------------------------------------------------
Adapter(p) ==
    \/ LockRoot(p) \/ RootContended(p) \/ Bind(p) \/ Build(p)
    \/ Unbind(p) \/ UnlockRoot(p)
    \/ ReadBinding(p) \/ ValidateFirst(p) \/ Validate(p)
    \/ CallEngine(p) \/ EngineRefuses(p)
RuntimeNext ==
    \E p \in Proc :
        \/ StartPromotePrivate(p) \/ StartRollbackPrivate(p)
        \/ StartRecoverPrivate(p)
        \/ Adapter(p) \/ EngineStep(p) \/ EngineFailure(p)
        \/ RuntimeException(p) \/ RuntimeInterrupt(p) \/ RuntimeKill(p)

RuntimeSpec == RuntimeInit /\ [][RuntimeNext]_allVars

(* Every call goes on; an operator whose runtime needs it runs             *)
(* recover-private-runtime --force-lock again and again.                   *)
ForcedRecovery(p) ==
    StartRecoverPrivate(p) /\ run'[p].forced /\ (active # None \/ lock = Stale)
FairRuntimeSpec ==
    /\ RuntimeSpec
    /\ \A p \in Proc : /\ WF_allVars(Adapter(p))
                       /\ WF_allVars(EngineStep(p))
                       /\ SF_allVars(ForcedRecovery(p))
-----------------------------------------------------------------------------
(* Every file and local variable of the adapter holds a value of its kind, *)
(* and a call is in the engine exactly while the adapter waits for it.     *)
RuntimeTypeOK ==
    /\ rootLock \in Proc \cup {Free, Stale}
    /\ binding \in Project \cup {None}
    /\ run \in [Proc -> Run]
    /\ \A p \in Proc : run[p].at # "engine" => pc[p] = "idle"

(* "A runtime is accepted only when every release matches the binding":    *)
(* no promotion, rollback or recovery, failed or not, leaves a current or  *)
(* archived release that belongs to another project than the runtime.      *)
OneProject ==
    LET s == Accepted
    IN /\ s.current # None => Belongs(s.current.digest)
       /\ \A e \in s.archive : Belongs(e.digest)

(* The project a promotion found in the binding, or wrote into it, is      *)
(* still there when its release is installed: no failing promotion takes   *)
(* the binding away from under another.                                    *)
BindingHeld ==
    \A p \in Proc :
        Promoting(p) /\ run[p].at \in {"build", "call", "engine"}
        => binding = run[p].project

(* A runtime that has accepted a release keeps its project for life.       *)
BindingLasts ==
    [][Accepted.current # None => binding' = binding]_allVars

(* recover-private-runtime begins by reading the binding.  Interrupts and  *)
(* kills never leave it without one while a transaction is open.  Errors   *)
(* in a promotion and again in its handler may, as the adapter then takes  *)
(* back the binding it made; but only the journal of a first promotion is  *)
(* left so, when nothing was accepted and no current release can be seen.  *)
Recoverable ==
    active # None /\ binding = None =>
        /\ "exception" \in FaultKinds
        /\ active.op = "PROMOTE" /\ Accepted.current = None /\ current = None

(* However calls end, the core workspace becomes usable again.             *)
CoreUsableAgain == []<>(active = None /\ lock = Free)
=============================================================================
