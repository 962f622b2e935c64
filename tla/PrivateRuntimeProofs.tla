------------------------ MODULE PrivateRuntimeProofs -----------------------
(***************************************************************************)
(* Theorems about PrivateRuntime, for any number of processes, projects,    *)
(* releases, contents and failures.                                         *)
(***************************************************************************)
EXTENDS PrivateRuntime, PromotionConsistencyProofs

(* An adapter call r has the runtime's lock; it relies on the binding.      *)
Holds(r) == r.at \in Locked \/ (r.op = "PROMOTE" /\ r.at \in {"call", "engine"})
Bound(r) == r.op = "PROMOTE" /\ r.at \in {"build", "call", "engine"}

(* The candidate c was built for project x.                                 *)
BuiltFor(c, x) ==
    c \in Content /\ receiptOf[c] = x /\ (Edited \/ controlOf[c] = x)

(* What an adapter call's local variables hold, by how far it has come.     *)
RunOK(r) ==
    /\ r.at \in {"read_binding", "validate_first"} => r.op # "PROMOTE"
    /\ r.at \in {"root_lock"} \cup Locked => r.op = "PROMOTE"
    /\ r.op = "PROMOTE" => r.project \in Project
    /\ r.op = "PROMOTE" /\ r.at \in {"call", "engine"} =>
          BuiltFor(r.candidate, r.project)

RunInv ==
    /\ RuntimeTypeOK
    /\ \A p \in Proc : /\ RunOK(run[p])
                       /\ Holds(run[p]) => rootLock = p
                       /\ Bound(run[p]) => binding = run[p].project
-----------------------------------------------------------------------------
(* The engine below the adapter *)

(* The engine's files and calls stay as they are; a failure is counted.     *)
EngineRests == NoEngineChange /\ faults' \in 0 .. MaxFaults

LEMMA RestsTyped == ASSUME TypeInv, EngineRests PROVE TypeInv'
<1>1. FilesTyped'
  BY DEF EngineRests, NoEngineChange, TypeInv, FilesTyped, pointerFiles, journals, trees
<1>2. pc' = pc /\ job' = job
  BY DEF EngineRests, NoEngineChange
<1>3. CallsTyped'
  BY <1>2 DEF TypeInv, CallsTyped
<1>4. QED BY <1>1, <1>3 DEF TypeInv

LEMMA RestsInv == ASSUME Inv, EngineRests PROVE Inv'
<1>1. UNCHANGED Files /\ pc' = pc /\ job' = job /\ lock' = lock
      /\ history' = history /\ active' = active
  BY DEF EngineRests, NoEngineChange, Files, journals
<1>2. LockInv'
  BY <1>1, RestsTyped DEF Inv, LockInv, SingleWriter, OneForces
<1>3. FilesInv' /\ Fresh'
  BY <1>1, SameFiles DEF Inv, EngineInv, Fresh
<1>4. ASSUME NEW p \in Proc, pc'[p] \in Critical PROVE Progress(pc[p], job[p])'
  BY <1>1, <1>4, SameProgress DEF Inv, EngineInv
<1>5. QED BY <1>2, <1>3, <1>4 DEF Inv, EngineInv

LEMMA Counted == ASSUME TypeInv, NEW kind, Fail(kind) PROVE faults' \in 0 .. MaxFaults
BY FaultAssumption DEF TypeInv, FilesTyped, Fail

LEMMA StepKinds ==
    ASSUME TypeInv, [RuntimeNext]_allVars PROVE [Next]_vars \/ EngineRests
<1>1. CASE UNCHANGED allVars
  BY <1>1 DEF allVars
<1>2. ASSUME NEW p \in Proc,
             \/ StartPromotePrivate(p) \/ StartRollbackPrivate(p)
             \/ StartRecoverPrivate(p)
             \/ LockRoot(p) \/ RootContended(p) \/ Bind(p) \/ Build(p)
             \/ Unbind(p) \/ UnlockRoot(p)
             \/ ReadBinding(p) \/ ValidateFirst(p) \/ Validate(p) \/ EngineRefuses(p)
      PROVE  UNCHANGED vars
  BY <1>2
  DEF StartPromotePrivate, StartRollbackPrivate, StartRecoverPrivate, Begins,
      LockRoot, RootContended, Bind, Build, Unbind, UnlockRoot, ReadBinding,
      ValidateFirst, Validate, EngineRefuses
<1>3. ASSUME NEW p \in Proc, CallEngine(p) \/ EngineStep(p) \/ EngineFailure(p)
      PROVE  Next
  BY <1>3 DEF CallEngine, EngineStep, EngineFailure, Next, Call, Failure
<1>4. ASSUME NEW p \in Proc,
             RuntimeException(p) \/ RuntimeInterrupt(p) \/ RuntimeKill(p)
      PROVE  Next \/ EngineRests
  BY <1>4, Counted
  DEF RuntimeException, RuntimeInterrupt, RuntimeKill, EngineRests, Next, Failure
<1>5. QED BY <1>1, <1>2, <1>3, <1>4 DEF RuntimeNext, Adapter
-----------------------------------------------------------------------------
(* The adapter's calls, its lock and the binding *)

(* A step that moves one adapter call and, at most, that process's engine   *)
(* call; it touches the lock or the binding only if no other call has them. *)
LEMMA RunMoves ==
    ASSUME RunInv, NEW p \in Proc, NEW r \in Run, run' = [run EXCEPT ![p] = r],
           RunOK(r), r.at # "engine" => pc'[p] = "idle",
           \A q \in Proc \ {p} : pc'[q] = pc[q],
           Holds(r) => rootLock' = p, Bound(r) => binding' = r.project,
           rootLock' = rootLock \/ rootLock \notin Proc \ {p},
           binding' = binding \/ rootLock = p,
           rootLock' \in Proc \cup {Free, Stale}, binding' \in Project \cup {None}
    PROVE  RunInv'
<1>1. run'[p] = r /\ \A q \in Proc \ {p} : run'[q] = run[q]
  BY DEF RunInv, RuntimeTypeOK
<1>2. RuntimeTypeOK'
  BY <1>1 DEF RunInv, RuntimeTypeOK
<1>3. ASSUME NEW q \in Proc
      PROVE  /\ RunOK(run'[q])
             /\ Holds(run'[q]) => rootLock' = q
             /\ Bound(run'[q]) => binding' = run'[q].project
  <2>1. CASE q = p
    BY <1>1, <2>1
  <2>2. CASE q # p
    <3>1. Bound(run[q]) => Holds(run[q])
      BY DEF Bound, Holds, Locked
    <3>2. QED BY <1>1, <2>2, <3>1 DEF RunInv
  <2>3. QED BY <2>1, <2>2
<1>4. QED BY <1>2, <1>3 DEF RunInv, RunOK, Holds, Bound, BuiltFor

LEMMA NoRunOK == NoRun \in Run /\ RunOK(NoRun) /\ ~Holds(NoRun) /\ ~Bound(NoRun)
                 /\ NoRun.at = "idle"
BY DEF NoRun, Run, RunOK, Holds, Bound, Locked, Place, Ending

LEMMA InitRun == RuntimeInit => RunInv
BY NoRunOK DEF RuntimeInit, Init, RunInv, RuntimeTypeOK

LEMMA ThisRun ==
    ASSUME RunInv, NEW p \in Proc
    PROVE  /\ run[p] \in Run /\ RunOK(run[p])
           /\ Holds(run[p]) => rootLock = p
           /\ Bound(run[p]) => binding = run[p].project
           /\ run[p].at # "engine" => pc[p] = "idle"
           /\ rootLock \in Proc \cup {Free, Stale} /\ binding \in Project \cup {None}
           /\ run = [run EXCEPT ![p] = run[p]]
BY DEF RunInv, RuntimeTypeOK

(* Done(p) ends the call, with or without the lock.                         *)
LEMMA RunEnds ==
    ASSUME RunInv, NEW p \in Proc, Done(p), pc'[p] = "idle",
           \A q \in Proc \ {p} : pc'[q] = pc[q], binding' = binding,
           rootLock' = rootLock \/ rootLock \notin Proc \ {p},
           rootLock' \in Proc \cup {Free, Stale}
    PROVE  RunInv'
BY NoRunOK, ThisRun, RunMoves DEF Done

(* The call goes on at another label, with the same locals.                 *)
At(r, to) == [r EXCEPT !.at = to]

LEMMA AtPlace ==
    ASSUME NEW r \in Run, NEW to \in Place
    PROVE  /\ At(r, to) \in Run /\ At(r, to).at = to /\ At(r, to).op = r.op
           /\ At(r, to).project = r.project /\ At(r, to).candidate = r.candidate
BY DEF At, Run

(* A call that goes on keeps what it holds, or lets the lock go.            *)
LEMMA RunGoesOn ==
    ASSUME RunInv, NEW p \in Proc, NEW to \in Place, run' = [run EXCEPT ![p].at = to],
           RunOK(At(run[p], to)), to # "engine" => pc'[p] = "idle",
           \A q \in Proc \ {p} : pc'[q] = pc[q],
           Holds(At(run[p], to)) => Holds(run[p]),
           Bound(At(run[p], to)) => Bound(run[p]),
           UNCHANGED <<rootLock, binding>>
    PROVE  RunInv'
<1>1. run' = [run EXCEPT ![p] = At(run[p], to)]
  BY DEF At
<1>2. PICK r \in Run : r = At(run[p], to)
  BY ThisRun, AtPlace
<1>3. r.at = to /\ r.project = run[p].project
  BY <1>2, ThisRun, AtPlace
<1>4. /\ Holds(r) => rootLock' = p
      /\ Bound(r) => binding' = r.project
      /\ RunOK(r) /\ run' = [run EXCEPT ![p] = r]
      /\ rootLock' \in Proc \cup {Free, Stale} /\ binding' \in Project \cup {None}
  BY <1>1, <1>2, <1>3, ThisRun
<1>5. QED BY <1>3, <1>4, RunMoves

LEMMA StartsKeep ==
    ASSUME RunInv, NEW p \in Proc,
           StartPromotePrivate(p) \/ StartRollbackPrivate(p) \/ StartRecoverPrivate(p)
    PROVE  RunInv'
<1>1. ASSUME NEW r \in Run, Begins(p, r), RunOK(r), ~Holds(r), ~Bound(r), r.at # "engine"
      PROVE  RunInv'
  <2>1. /\ run' = [run EXCEPT ![p] = r] /\ pc' = pc
        /\ UNCHANGED <<rootLock, binding>> /\ pc[p] = "idle"
    BY <1>1, ThisRun DEF Begins, vars
  <2>2. QED BY <1>1, <2>1, ThisRun, RunMoves
<1>2. CASE StartPromotePrivate(p)
  <2>1. PICK x \in Project :
           Begins(p, [NoRun EXCEPT !.op = "PROMOTE", !.at = "root_lock", !.project = x])
    BY <1>2 DEF StartPromotePrivate
  <2>2. QED BY <1>1, <2>1 DEF NoRun, Run, RunOK, Holds, Bound, Locked, Place, Ending
<1>3. CASE StartRollbackPrivate(p)
  <2>1. PICK r \in Release :
           Begins(p, [NoRun EXCEPT !.op = "ROLLBACK", !.at = "read_binding", !.target = r])
    BY <1>3 DEF StartRollbackPrivate
  <2>2. QED BY <1>1, <2>1 DEF NoRun, Run, RunOK, Holds, Bound, Locked, Place, Ending
<1>4. CASE StartRecoverPrivate(p)
  <2>1. PICK f \in BOOLEAN :
           Begins(p, [NoRun EXCEPT !.op = "RECOVER", !.at = "read_binding", !.forced = f])
    BY <1>4 DEF StartRecoverPrivate
  <2>2. QED BY <1>1, <2>1 DEF NoRun, Run, RunOK, Holds, Bound, Locked, Place, Ending
<1>5. QED BY <1>2, <1>3, <1>4

(* The runtime's lock, the binding and the candidate.                       *)
LEMMA LockKeeps ==
    ASSUME RunInv, NEW p \in Proc, LockRoot(p) \/ RootContended(p) \/ UnlockRoot(p)
    PROVE  RunInv'
<1>1. Free \notin Proc
  BY SentinelAssumption
<1>2. CASE LockRoot(p)
  <2>1. /\ run' = [run EXCEPT ![p] = At(run[p], "bind")]
        /\ rootLock = Free /\ rootLock' = p /\ binding' = binding /\ pc' = pc
        /\ run[p].at = "root_lock"
    BY <1>2 DEF LockRoot, RootFree, Proceed, At, vars
  <2>2. "bind" \in Place
    BY DEF Place
  <2>3. At(run[p], "bind").at = "bind" /\ At(run[p], "bind") \in Run
        /\ RunOK(At(run[p], "bind")) /\ ~Bound(At(run[p], "bind"))
    BY <2>1, <2>2, ThisRun, AtPlace DEF RunOK, Bound, Locked
  <2>4. QED BY <1>1, <2>1, <2>3, ThisRun, RunMoves
<1>3. CASE RootContended(p)
  BY <1>3, ThisRun, RunEnds DEF RootContended, vars
<1>4. CASE UnlockRoot(p)
  <2>1. /\ run[p].at = "root_unlock" /\ rootLock' = Free /\ binding' = binding
        /\ pc' = pc /\ rootLock = p
    BY <1>4, ThisRun DEF UnlockRoot, vars, Holds, Locked
  <2>2. CASE Done(p)
    BY <2>1, <2>2, ThisRun, RunEnds
  <2>3. CASE run' = [run EXCEPT ![p].at = "validate"]
    <3>1. run' = [run EXCEPT ![p] = At(run[p], "validate")]
      BY <2>3 DEF At
    <3>2. "validate" \in Place
      BY DEF Place
    <3>3. /\ At(run[p], "validate").at = "validate" /\ At(run[p], "validate") \in Run
          /\ RunOK(At(run[p], "validate")) /\ ~Bound(At(run[p], "validate"))
          /\ ~Holds(At(run[p], "validate"))
      BY <2>1, <3>2, ThisRun, AtPlace DEF RunOK, Bound, Locked, Holds
    <3>4. QED BY <2>1, <3>1, <3>3, ThisRun, RunMoves
  <2>4. QED BY <1>4, <2>2, <2>3 DEF UnlockRoot
<1>5. QED BY <1>2, <1>3, <1>4

LEMMA BindingKeeps ==
    ASSUME RunInv, NEW p \in Proc, Bind(p) \/ Build(p) \/ Unbind(p)
    PROVE  RunInv'
<1> DEFINE x == run[p].project
<1>1. /\ UNCHANGED <<vars, rootLock>> /\ pc' = pc /\ pc[p] = "idle"
      /\ run[p].at \in {"bind", "build", "unbind"} /\ run[p].op = "PROMOTE"
      /\ x \in Project /\ rootLock = p /\ run[p] \in Run /\ RunOK(run[p])
  BY ThisRun DEF Bind, Build, Unbind, Proceed, vars, RunOK, Holds, Locked
<1>2. {"build", "call", "root_unlock"} \subseteq Place
  BY DEF Place
<1>3. CASE Bind(p)
  <2>1. CASE run' = [run EXCEPT ![p].at = "root_unlock"] /\ UNCHANGED binding
    <3>1. /\ RunOK(At(run[p], "root_unlock")) /\ ~Bound(At(run[p], "root_unlock"))
          /\ Holds(run[p])
      BY <1>1, <1>2, AtPlace DEF RunOK, Bound, Holds, Locked
    <3>2. QED BY <1>1, <1>2, <2>1, <3>1, RunGoesOn
  <2>2. CASE /\ binding' = x
             /\ run' = [run EXCEPT ![p].at = "build", ![p].created = (binding = None)]
    <3> DEFINE r == [run[p] EXCEPT !.at = "build", !.created = (binding = None)]
    <3>1. /\ r \in Run /\ r.at = "build" /\ r.op = "PROMOTE" /\ r.project = x
          /\ run' = [run EXCEPT ![p] = r]
      BY <1>1, <1>2, <2>2 DEF Run
    <3> HIDE DEF r
    <3>2. RunOK(r) /\ r.at # "engine"
      BY <1>1, <3>1 DEF RunOK, Locked
    <3>3. QED BY <1>1, <2>2, <3>1, <3>2, ThisRun, RunMoves
  <2>3. QED BY <1>3, <2>1, <2>2 DEF Bind
<1>4. CASE Build(p)
  <2>1. PICK c \in Content :
           /\ receiptOf[c] = x
           /\ Edited \/ controlOf[c] = x
           /\ run' = [run EXCEPT ![p].at = "call", ![p].candidate = c]
    BY <1>4 DEF Build
  <2> DEFINE r == [run[p] EXCEPT !.at = "call", !.candidate = c]
  <2>2. /\ r \in Run /\ r.at = "call" /\ r.op = "PROMOTE" /\ r.project = x
        /\ r.candidate = c /\ run' = [run EXCEPT ![p] = r]
    BY <1>1, <1>2, <2>1 DEF Run
  <2> HIDE DEF r
  <2>3. BuiltFor(c, x)
    BY <2>1 DEF BuiltFor
  <2>4. RunOK(r) /\ r.at # "engine"
    BY <1>1, <2>2, <2>3 DEF RunOK, Locked
  <2>5. binding = x /\ binding' = binding
    BY <1>1, <1>4, ThisRun DEF Build, Bound
  <2>6. QED BY <1>1, <2>2, <2>4, <2>5, ThisRun, RunMoves
<1>5. CASE Unbind(p)
  <2>1. run' = [run EXCEPT ![p] = At(run[p], "root_unlock")]
    BY <1>5 DEF Unbind, Proceed, At
  <2>2. /\ At(run[p], "root_unlock") \in Run /\ At(run[p], "root_unlock").at # "engine"
        /\ RunOK(At(run[p], "root_unlock")) /\ ~Bound(At(run[p], "root_unlock"))
    BY <1>1, <1>2, AtPlace DEF RunOK, Bound, Locked
  <2>3. binding' \in Project \cup {None}
    BY <1>5, ThisRun DEF Unbind
  <2>4. QED BY <1>1, <2>1, <2>2, <2>3, ThisRun, RunMoves
<1>6. QED BY <1>3, <1>4, <1>5

LEMMA ReadsKeep ==
    ASSUME RunInv, NEW p \in Proc,
           ReadBinding(p) \/ ValidateFirst(p) \/ Validate(p) \/ EngineRefuses(p)
    PROVE  RunInv'
<1>1. /\ UNCHANGED <<vars, rootLock, binding>> /\ pc' = pc /\ pc[p] = "idle"
      /\ run[p] \in Run /\ RunOK(run[p])
  BY ThisRun DEF ReadBinding, ValidateFirst, Validate, EngineRefuses, Proceed, vars
<1>2. {"validate_first", "call", "unbind"} \subseteq Place
  BY DEF Place
<1>3. ASSUME NEW to \in {"validate_first", "call"}, Proceed(p, run[p].at, to),
             run[p].at \in {"read_binding", "validate_first"}
      PROVE  RunInv'
  <2>1. RunOK(At(run[p], to)) /\ ~Bound(At(run[p], to)) /\ ~Holds(At(run[p], to))
    BY <1>1, <1>2, <1>3, AtPlace DEF RunOK, Bound, Holds, Locked
  <2>2. QED BY <1>1, <1>2, <1>3, <2>1, RunGoesOn DEF Proceed
<1>4. CASE Done(p)
  BY <1>1, <1>4, ThisRun, RunEnds
<1>5. CASE ReadBinding(p)
  BY <1>3, <1>4, <1>5 DEF ReadBinding, Proceed
<1>6. CASE ValidateFirst(p)
  BY <1>3, <1>4, <1>6 DEF ValidateFirst, Proceed
<1>7. CASE Validate(p)
  BY <1>4, <1>7 DEF Validate
<1>8. CASE EngineRefuses(p)
  <2>1. CASE Promoting(p) /\ run' = [run EXCEPT ![p].at = "unbind"]
    <3>1. run[p].at = "call" /\ run[p].op = "PROMOTE"
      BY <1>8, <2>1 DEF EngineRefuses, Promoting
    <3>2. /\ RunOK(At(run[p], "unbind")) /\ ~Bound(At(run[p], "unbind"))
          /\ Holds(run[p])
      BY <1>1, <1>2, <3>1, AtPlace DEF RunOK, Bound, Holds, Locked
    <3>3. QED BY <1>1, <1>2, <2>1, <3>2, RunGoesOn
  <2>2. QED BY <1>4, <1>8, <2>1 DEF EngineRefuses
<1>9. QED BY <1>5, <1>6, <1>7, <1>8

(* An engine call, its steps and its failures are its own process's.        *)
LEMMA OthersStay ==
    ASSUME TypeInv, NEW p \in Proc, Call(p) \/ Step(p) \/ Failure(p)
    PROVE  \A q \in Proc \ {p} : pc'[q] = pc[q]
<1>1. ASSUME NEW to, Goto(p, to) PROVE \A q \in Proc \ {p} : pc'[q] = pc[q]
  BY <1>1, OnlyMover
<1>2. CASE Call(p)
  BY <1>1, <1>2 DEF Call, StartPromote, StartRollback, StartRecover,
     StartForcedRecover, Start, Go
<1>3. CASE Locking(p)
  BY <1>1, <1>3 DEF Locking, ForceUnlock, Acquire, Contended, Unlock, Quit, Go
<1>4. CASE Apply(p) \/ Finish(p) \/ Undo(p)
  BY <1>1, <1>4, ApplyInside, FinishInside, UndoInside DEF StaysInside
<1>5. CASE Failure(p)
  BY <1>1, <1>5 DEF Failure, RaiseException, RaiseInTail, Interrupt, Kill, Quit, Raise
<1>6. QED BY <1>2, <1>3, <1>4, <1>5 DEF Step

LEMMA CallKeeps ==
    ASSUME TypeInv, RunInv, NEW p \in Proc, CallEngine(p)
    PROVE  RunInv'
<1>1. /\ run[p].at = "call" /\ run' = [run EXCEPT ![p].at = "engine"]
      /\ UNCHANGED <<rootLock, binding>> /\ Call(p)
      /\ run[p] \in Run /\ RunOK(run[p])
  BY ThisRun DEF CallEngine, Proceed, Call
<1>2. "engine" \in Place
  BY DEF Place
<1>3. /\ RunOK(At(run[p], "engine"))
      /\ Holds(At(run[p], "engine")) => Holds(run[p])
      /\ Bound(At(run[p], "engine")) => Bound(run[p])
  BY <1>1, <1>2, AtPlace DEF RunOK, Holds, Bound, Locked
<1>4. QED BY <1>1, <1>2, <1>3, OthersStay, RunGoesOn

(* The engine call returns to the adapter, or goes on below it.             *)
LEMMA ReturnKeeps ==
    ASSUME TypeInv, RunInv, NEW p \in Proc, run[p].at = "engine",
           NEW ending \in Ending, Returns(p, ending),
           Call(p) \/ Step(p) \/ Failure(p), UNCHANGED <<rootLock, binding>>
    PROVE  RunInv'
<1>1. PICK to \in Place :
         /\ to = IF pc'[p] = "idle" THEN Onward(p, ending) ELSE "engine"
         /\ \/ to \in {"engine", "idle", "validate"}
            \/ /\ to \in {"unbind", "root_unlock"}
               /\ run[p].op = "PROMOTE"
  BY DEF Place, Onward, Promoting
<1> DEFINE r == [run[p] EXCEPT !.at = to, !.ending = ending]
<1>2. run' = [run EXCEPT ![p] = IF to = "idle" THEN NoRun ELSE r]
  BY <1>1 DEF Returns
<1>3. to # "engine" => pc'[p] = "idle"
  BY <1>1
<1>4. \A q \in Proc \ {p} : pc'[q] = pc[q]
  BY OthersStay
<1>5. run[p] \in Run /\ RunOK(run[p])
      /\ (Bound(run[p]) => binding = run[p].project)
      /\ (Holds(run[p]) => rootLock = p)
  BY ThisRun
<1>6. CASE to = "idle"
  <2>1. Done(p)
    BY <1>2, <1>6 DEF Done
  <2>2. QED BY <1>3, <1>4, <1>6, <2>1, ThisRun, RunEnds
<1>7. CASE to # "idle"
  <2>1. /\ r \in Run /\ r.at = to /\ r.op = run[p].op /\ r.project = run[p].project
        /\ r.candidate = run[p].candidate /\ run' = [run EXCEPT ![p] = r]
    BY <1>2, <1>5, <1>7 DEF Run
  <2> HIDE DEF r
  <2>2. RunOK(r)
    BY <1>1, <1>5, <1>7, <2>1 DEF RunOK, Locked
  <2>3. (Holds(r) => Holds(run[p])) /\ (Bound(r) => Bound(run[p]))
    BY <1>1, <1>7, <2>1 DEF Holds, Bound, Locked
  <2>4. /\ Holds(r) => rootLock' = p
        /\ Bound(r) => binding' = r.project
    BY <1>5, <2>1, <2>3
  <2>5. QED BY <1>3, <1>4, <2>1, <2>2, <2>4, ThisRun, RunMoves
<1>8. QED BY <1>6, <1>7

LEMMA EngineKeeps ==
    ASSUME TypeInv, RunInv, NEW p \in Proc, EngineStep(p) \/ EngineFailure(p)
    PROVE  RunInv'
<1>1. /\ run[p].at = "engine" /\ UNCHANGED <<rootLock, binding>>
      /\ Step(p) \/ Failure(p)
  BY DEF EngineStep, EngineFailure, Failure
<1>2. EndingAfter(p) \in Ending
  BY ThisRun DEF EndingAfter, Run, Ending
<1>3. PICK ending \in Ending : Returns(p, ending)
  BY <1>2 DEF EngineStep, EngineFailure, Ending
<1>4. QED BY <1>1, <1>3, ReturnKeeps

(* Failures of the adapter itself, and of the process.                      *)
LEMMA AdapterFailureKeeps ==
    ASSUME TypeInv, RunInv, NEW p \in Proc,
           RuntimeException(p) \/ RuntimeInterrupt(p) \/ RuntimeKill(p)
    PROVE  RunInv'
<1>1. Free \notin Proc /\ Stale \notin Proc
  BY SentinelAssumption
<1>2. {"root_unlock", "unbind"} \subseteq Place
  BY DEF Place
<1>3. /\ run[p] \in Run /\ RunOK(run[p])
      /\ run[p].at # "engine" => pc[p] = "idle"
  BY ThisRun
<1>4. ASSUME NoEngineChange, UNCHANGED <<rootLock, binding>>,
             NEW to \in {"root_unlock", "unbind"}, Proceed(p, run[p].at, to),
             run[p].at \in {"bind", "build", "unbind"}
      PROVE  RunInv'
  <2>1. pc' = pc /\ run' = [run EXCEPT ![p].at = to]
    BY <1>4 DEF NoEngineChange, Proceed
  <2>2. /\ RunOK(At(run[p], to)) /\ ~Bound(At(run[p], to)) /\ Holds(run[p])
    BY <1>2, <1>3, <1>4, AtPlace DEF RunOK, Bound, Holds, Locked
  <2>3. QED BY <1>2, <1>3, <1>4, <2>1, <2>2, RunGoesOn
<1>5. CASE RuntimeException(p)
  <2>1. CASE run[p].at = "root_lock" /\ RootFree /\ rootLock' = Stale /\ Done(p)
    <3>1. pc' = pc /\ binding' = binding /\ rootLock = Free
      BY <1>5, <2>1 DEF RuntimeException, NoEngineChange, RootFree
    <3>2. QED BY <1>1, <1>3, <2>1, <3>1, RunEnds
  <2>2. QED BY <1>4, <1>5, <2>1 DEF RuntimeException, Proceed
<1>6. CASE RuntimeInterrupt(p)
  BY <1>4, <1>6 DEF RuntimeInterrupt
<1>7. CASE RuntimeKill(p)
  <2>1. pc'[p] = "idle" /\ \A q \in Proc \ {p} : pc'[q] = pc[q]
    <3>1. CASE Kill(p)
      BY <3>1, OnlyMover DEF Kill, Quit
    <3>2. CASE run[p].at # "engine" /\ NoEngineChange
      BY <1>3, <3>2 DEF NoEngineChange
    <3>3. QED BY <1>7, <3>1, <3>2 DEF RuntimeKill
  <2>2. /\ Done(p) /\ binding' = binding
        /\ \/ rootLock' = rootLock
           \/ rootLock' = Stale /\ rootLock = p
    BY <1>7 DEF RuntimeKill
  <2>3. QED BY <1>1, <2>1, <2>2, ThisRun, RunEnds
<1>8. QED BY <1>5, <1>6, <1>7

LEMMA NextRun == TypeInv /\ RunInv /\ [RuntimeNext]_allVars => TypeInv' /\ RunInv'
<1> SUFFICES ASSUME TypeInv, RunInv, [RuntimeNext]_allVars PROVE TypeInv' /\ RunInv'
  OBVIOUS
<1>1. TypeInv'
  BY StepKinds, NextTyped, RestsTyped
<1>2. CASE UNCHANGED allVars
  <2>1. /\ pc' = pc /\ run' = run /\ rootLock' = rootLock /\ binding' = binding
    BY <1>2 DEF allVars, vars, runtimeVars
  <2>2. QED BY <1>1, <2>1 DEF RunInv, RuntimeTypeOK, RunOK, Holds, Bound, BuiltFor
<1>3. ASSUME NEW p \in Proc,
             \/ StartPromotePrivate(p) \/ StartRollbackPrivate(p)
             \/ StartRecoverPrivate(p)
             \/ Adapter(p) \/ EngineStep(p) \/ EngineFailure(p)
             \/ RuntimeException(p) \/ RuntimeInterrupt(p) \/ RuntimeKill(p)
      PROVE  RunInv'
  BY <1>3, StartsKeep, LockKeeps, BindingKeeps, ReadsKeep, CallKeeps, EngineKeeps,
     AdapterFailureKeeps DEF Adapter
<1>4. QED BY <1>1, <1>2, <1>3 DEF RuntimeNext

(* Type correctness of the adapter: every file and local variable holds a   *)
(* value of its kind, and an engine call runs exactly while its adapter     *)
(* call waits for it.                                                       *)
THEOREM RuntimeTypeCorrect == RuntimeSpec => []RuntimeTypeOK
<1>1. RuntimeInit => TypeInv /\ RunInv
  BY InitRun, InitTypeInv DEF RuntimeInit
<1>2. TypeInv /\ RunInv => RuntimeTypeOK
  BY DEF RunInv
<1>3. QED BY <1>1, <1>2, NextRun, PTL DEF RuntimeSpec

(* The runtime's lock protects the binding: what a promotion found there    *)
(* or wrote there stays until its release is installed or it gives up,      *)
(* whatever other calls do or fail to do.                                   *)
THEOREM BindingStays == RuntimeSpec => []BindingHeld
<1>1. RuntimeInit => TypeInv /\ RunInv
  BY InitRun, InitTypeInv DEF RuntimeInit
<1>2. TypeInv /\ RunInv => BindingHeld
  BY DEF RunInv, BindingHeld, Bound, Promoting
<1>3. QED BY <1>1, <1>2, NextRun, PTL DEF RuntimeSpec
-----------------------------------------------------------------------------
(* Whose releases the workspace holds *)

Carrying == {"begin"} \cup Working

AllFor(s, x) ==
    /\ s.current # None => BuiltFor(s.current.digest, x)
    /\ \A e \in s.archive : BuiltFor(e.digest, x)

(* What is accepted, or current, was built for the project of the binding;  *)
(* as long as something is accepted, current.json is there.                 *)
FilesFor ==
    /\ AllFor(Accepted, binding)
    /\ current # None => BuiltFor(current.digest, binding)
    /\ current = None => Accepted.current = None

(* So was what an engine call is about to install or to bring back.         *)
CallsFor == \A p \in Proc : pc[p] \in Carrying => BuiltFor(job[p].digest, binding)

(* An adapter call that is in promote_release is a promotion.               *)
LaunchedAt(p) == run[p].at = "engine" /\ job[p].op = "PROMOTE" => Promoting(p)
Launched == \A p \in Proc : LaunchedAt(p)

ContentInv == FilesFor /\ CallsFor /\ Launched

LEMMA CarryingLabels ==
    /\ Carrying \cap {"idle", "force", "lock", "check", "unlock"} = {}
    /\ Carrying \cap (Restoring \cup Removing \cup Finishing) = {}
    /\ Carrying \subseteq Critical
BY DEF Carrying, Working, Staging, Pointing, Restoring, Removing, Finishing,
   Critical, Body

(* What an engine step does to its call's local variables.                  *)
LocalsOf(p) ==
    /\ \A q \in Proc \ {p} : job'[q] = job[q]
    /\ pc'[p] = "idle" \/ (job'[p].op = job[p].op /\ job'[p].tx = job[p].tx)
    /\ pc'[p] \in Carrying =>
          \/ Check(p)
          \/ pc[p] \in Carrying /\ job'[p].digest = job[p].digest

LEMMA LocalsEdited ==
    ASSUME TypeInv, NEW p \in Proc, NEW to, NEW j \in Job, Moves(p, to, j),
           j.op = job[p].op, j.tx = job[p].tx, j.digest = job[p].digest,
           to \in Carrying => pc[p] \in Carrying
    PROVE  LocalsOf(p)
BY Moved DEF LocalsOf

LEMMA LocalsKept ==
    ASSUME TypeInv, NEW p \in Proc, NEW to, Goto(p, to), job' = job,
           to \in Carrying => pc[p] \in Carrying
    PROVE  LocalsOf(p)
BY OnlyMover DEF LocalsOf

LEMMA LocalsLeft ==
    ASSUME TypeInv, NEW p \in Proc, Quit(p) PROVE LocalsOf(p) /\ pc'[p] = "idle"
<1>1. Moves(p, "idle", NoJob)
  BY DEF Quit, Moves
<1>2. QED BY <1>1, Moved, CarryingLabels DEF LocalsOf

LEMMA LocalsRaised ==
    ASSUME TypeInv, NEW p \in Proc, Raise(p)
    PROVE  LocalsOf(p) /\ pc'[p] = "restore_current"
<1> DEFINE j == [job[p] EXCEPT !.mode = "abort"]
<1>1. Moves(p, "restore_current", j) /\ job[p] \in Job
  BY DEF Raise, Moves, TypeInv, CallsTyped
<1>2. j \in Job /\ j.op = job[p].op /\ j.tx = job[p].tx /\ j.digest = job[p].digest
  BY <1>1 DEF Job, Mode
<1>3. "restore_current" \notin Carrying
  BY CarryingLabels DEF Restoring
<1>4. QED BY <1>1, <1>2, <1>3, LocalsEdited, Moved

LEMMA LocalsJournal ==
    ASSUME TypeInv, NEW p \in Proc, NEW to, Goto(p, to), NEW s, WriteJournal(p, s),
           to \in Carrying => pc[p] \in Carrying
    PROVE  LocalsOf(p)
<1>1. PICK jr : job' = [job EXCEPT ![p].journal = jr]
  BY DEF WriteJournal
<1>2. /\ pc'[p] = to /\ job[p] \in Job
      /\ \A q \in Proc \ {p} : job'[q] = job[q]
      /\ job'[p].op = job[p].op /\ job'[p].tx = job[p].tx
      /\ job'[p].digest = job[p].digest
  BY <1>1, OnlyMover DEF TypeInv, CallsTyped, Job
<1>3. QED BY <1>2 DEF LocalsOf

LEMMA StepLocals ==
    ASSUME TypeInv, NEW p \in Proc, Step(p) PROVE LocalsOf(p)
<1>1. CASE Locking(p)
  BY <1>1, LocalsKept, LocalsLeft, CarryingLabels
  DEF Locking, ForceUnlock, Acquire, Contended, Unlock, Go
<1>2. CASE Check(p)
  <2>1. CASE Goto(p, "unlock") /\ UNCHANGED job
    BY <2>1, LocalsKept, CarryingLabels
  <2>2. ASSUME NEW c, Admit(p, c) PROVE LocalsOf(p)
    BY <1>2, <2>2 DEF Admit, LocalsOf, TypeInv, CallsTyped, Job
  <2>3. QED BY <1>2, <2>1, <2>2 DEF Check
<1>3. CASE Begin(p)
  <2>1. PICK jr, to : job' = [job EXCEPT ![p].journal = jr] /\ Goto(p, to)
    BY <1>3 DEF Begin, Go
  <2>2. /\ job[p] \in Job /\ pc[p] \in Carrying
        /\ \A q \in Proc \ {p} : job'[q] = job[q]
        /\ job'[p].op = job[p].op /\ job'[p].tx = job[p].tx
        /\ job'[p].digest = job[p].digest
    BY <1>3, <2>1 DEF TypeInv, CallsTyped, Job, Begin, Go, Carrying
  <2>3. QED BY <2>2 DEF LocalsOf
<1>4. CASE CopyTree(p) \/ Reconcile(p) \/ StageManifest(p)
  BY <1>4, LocalsKept, LocalsRaised
  DEF CopyTree, Reconcile, StageManifest, Go, Carrying, Working, Staging
<1>5. CASE Mark(p)
  BY <1>5, LocalsJournal DEF Mark, Go, Carrying, Working, Staging
<1>6. CASE InstallRelease(p) \/ InstallManifest(p)
  BY <1>6, LocalsKept, LocalsRaised
  DEF InstallRelease, InstallManifest, Go, Carrying, Working, Staging
<1>7. CASE Archive(p) \/ SetCurrent(p) \/ SetLastSuccess(p)
  BY <1>7, LocalsKept, LocalsRaised
  DEF Archive, SetCurrent, SetLastSuccess, Go, Carrying, Working, Pointing
<1>8. CASE Finish(p)
  <2>1. CASE FinishActive(p)
    BY <2>1, LocalsJournal, CarryingLabels DEF FinishActive, Go, Finishing
  <2>2. CASE FinishHistory(p)
    BY <2>2, LocalsKept, CarryingLabels DEF FinishHistory, Go, Finishing
  <2>3. CASE FinishClear(p)
    <3> DEFINE j == [job[p] EXCEPT !.mode = "done"]
    <3>1. Moves(p, "unlock", j) /\ job[p] \in Job
      BY <2>3 DEF FinishClear, Go, Moves, TypeInv, CallsTyped
    <3>2. j \in Job /\ j.op = job[p].op /\ j.tx = job[p].tx /\ j.digest = job[p].digest
      BY <3>1 DEF Job, Mode
    <3>3. QED BY <3>1, <3>2, LocalsEdited, CarryingLabels
  <2>4. QED BY <1>8, <2>1, <2>2, <2>3 DEF Finish
<1>9. CASE CheckRecover(p)
  <2>1. CASE Goto(p, "unlock") /\ UNCHANGED job
    BY <2>1, LocalsKept, CarryingLabels
  <2>2. CASE /\ Goto(p, ResumeAt(active.status))
             /\ job' = [job EXCEPT ![p].journal = active, ![p].mode = "recover"]
    <3>1. ResumeAt(active.status) \notin Carrying
      BY CarryingLabels DEF ResumeAt, Finishing, Restoring
    <3>2. /\ job[p] \in Job /\ pc'[p] = ResumeAt(active.status)
          /\ \A q \in Proc \ {p} : job'[q] = job[q]
          /\ job'[p].op = job[p].op /\ job'[p].tx = job[p].tx
      BY <2>2, OnlyMover DEF TypeInv, CallsTyped, Job
    <3>3. QED BY <3>1, <3>2 DEF LocalsOf
  <2>3. QED BY <1>9, <2>1, <2>2 DEF CheckRecover
<1>10. CASE RestoreCurrent(p) \/ RestoreLastSuccess(p) \/ RestoreArchive(p)
  BY <1>10, LocalsKept, CarryingLabels
  DEF RestoreCurrent, RestoreLastSuccess, RestoreArchive, Restored, Go,
      Restoring, Removing, Finishing
<1>11. CASE \/ RemoveStaging(p) \/ RemoveInstalled(p)
            \/ RemoveStagedManifest(p) \/ RemoveManifest(p)
  BY <1>11, LocalsKept, CarryingLabels
  DEF RemoveStaging, RemoveInstalled, RemoveStagedManifest, RemoveManifest, Go,
      Removing, Finishing
<1>12. QED
  BY <1>1, <1>2, <1>3, <1>4, <1>5, <1>6, <1>7, <1>8, <1>9, <1>10, <1>11
  DEF Step, Apply, Undo

LEMMA FailureLocals ==
    ASSUME TypeInv, NEW p \in Proc, Failure(p)
    PROVE  LocalsOf(p) /\ pc'[p] \notin Carrying
<1>1. CASE Quit(p)
  BY <1>1, LocalsLeft, CarryingLabels
<1>2. CASE Raise(p)
  BY <1>2, LocalsRaised, CarryingLabels DEF Restoring
<1>3. CASE Goto(p, "unlock") /\ job' = job
  BY <1>3, LocalsKept, OnlyMover, CarryingLabels
<1>4. QED BY <1>1, <1>2, <1>3 DEF Failure, RaiseException, RaiseInTail, Interrupt, Kill

LEMMA CallLocals ==
    ASSUME TypeInv, NEW p \in Proc, Call(p)
    PROVE  pc'[p] \notin Carrying /\ \A q \in Proc \ {p} : job'[q] = job[q]
<1>1. ASSUME NEW call, NEW label \in {"lock", "force"}, Start(p, call, label)
      PROVE  pc'[p] \notin Carrying /\ \A q \in Proc \ {p} : job'[q] = job[q]
  BY <1>1, OnlyMover, CarryingLabels DEF Start, Go, TypeInv, CallsTyped
<1>2. QED
  BY <1>1 DEF Call, StartPromote, StartRollback, StartRecover, StartForcedRecover
-----------------------------------------------------------------------------
(* What engine steps do to the accepted and the current release *)

LEMMA AcceptedMoves ==
    ASSUME Inv, NEW p \in Proc, Call(p) \/ Step(p) \/ Failure(p)
    PROVE  Accepted' = Accepted \/ FinishClear(p)
<1>1. CASE \/ Ordinary(p) \/ Begin(p) \/ Mark(p) \/ FinishActive(p)
           \/ FinishHistory(p)
  BY <1>1, OrdinaryStutters, BeginStutters, JournalStutters DEF Stutter
<1>2. QED BY <1>1, OrdinaryOrNot

LEMMA CurrentMoves ==
    ASSUME Inv, NEW p \in Proc, Call(p) \/ Step(p) \/ Failure(p)
    PROVE  \/ current' = current
           \/ /\ current' = PointerOf(job[p]) /\ PointerOf(job[p]) \in Pointer
              /\ pc[p] \in Carrying
           \/ current' = Accepted.current
<1>1. CASE SetCurrent(p)
  <2>1. pc[p] \in Working /\ current' = NewPointer(p)
    BY <1>1 DEF SetCurrent, Go, Working, Pointing
  <2>2. PointerOf(job[p]) \in Pointer
    BY <2>1, AtWork DEF PointerOf, Pointer
  <2>3. QED BY <2>1, <2>2 DEF NewPointer, PointerOf, Carrying
<1>2. CASE RestoreCurrent(p)
  <2>1. pc[p] \in Journaled /\ current' = job[p].journal.prev.current
    BY <1>2 DEF RestoreCurrent, Go, Journaled, Restoring
  <2>2. QED BY <2>1, UnderJournal DEF Accepted
<1>3. CASE Call(p) \/ Locking(p) \/ Failure(p)
  BY <1>3
  DEF Call, StartPromote, StartRollback, StartRecover, StartForcedRecover, Start,
      Locking, ForceUnlock, Acquire, Contended, Unlock,
      Failure, RaiseException, RaiseInTail, Interrupt, Kill, pointerFiles
<1>4. CASE Apply(p) /\ ~SetCurrent(p)
  BY <1>4
  DEF Apply, Check, Begin, CopyTree, Reconcile, StageManifest, Mark, InstallRelease,
      InstallManifest, Archive, SetLastSuccess, pointerFiles
<1>5. CASE Finish(p)
  BY <1>5 DEF Finish, FinishActive, FinishHistory, FinishClear, pointerFiles
<1>6. CASE Undo(p) /\ ~RestoreCurrent(p)
  BY <1>6
  DEF Undo, CheckRecover, RestoreLastSuccess, RestoreArchive, RemoveStaging,
      RemoveInstalled, RemoveStagedManifest, RemoveManifest, pointerFiles
<1>7. QED BY <1>1, <1>2, <1>3, <1>4, <1>5, <1>6 DEF Step

(* A commit archives the release that was current and keeps of the archive  *)
(* what it keeps.                                                           *)
LEMMA ClearedFor ==
    ASSUME Inv, NEW p \in Proc, FinishClear(p), NEW x, AllFor(Accepted, x),
           current # None => BuiltFor(current.digest, x)
    PROVE  AllFor(Snapshots, x)
<1>1. /\ Accepted = active.prev
      /\ active.status = "COMMITTED" => InForce(active)
      /\ active.status # "COMMITTED" => Undone(active)
  BY Clearing
<1>2. CASE active.status = "COMMITTED"
  <2>1. PICK why \in Reason : archive = ArchiveAfter(active, why)
    BY <1>1, <1>2 DEF InForce
  <2>2. ASSUME NEW e \in archive PROVE BuiltFor(e.digest, x)
    <3>1. /\ active.prev.current # None
          /\ \/ e \in active.prev.archive
             \/ e.digest = active.prev.current.digest
      BY <2>1, <2>2 DEF ArchiveAfter
    <3>2. QED BY <1>1, <3>1 DEF AllFor
  <2>3. QED BY <2>2 DEF AllFor, Snapshots
<1>3. CASE active.status # "COMMITTED"
  BY <1>1, <1>3 DEF Undone
<1>4. QED BY <1>2, <1>3

LEMMA FilesForStep ==
    ASSUME Inv, FilesFor, CallsFor, NEW p \in Proc, Call(p) \/ Step(p) \/ Failure(p),
           binding' = binding
    PROVE  FilesFor'
<1>0. PICK x : x = binding
  OBVIOUS
<1>1. binding' = x /\ AllFor(Accepted, x)
  BY <1>0 DEF FilesFor
<1>2. current' # None => BuiltFor(current'.digest, x)
  <2>1. CASE current' = current
    BY <1>0, <2>1 DEF FilesFor
  <2>2. CASE current' = PointerOf(job[p]) /\ pc[p] \in Carrying
    BY <1>0, <2>2 DEF CallsFor, PointerOf
  <2>3. CASE current' = Accepted.current
    BY <1>1, <2>3 DEF AllFor
  <2>4. QED BY <2>1, <2>2, <2>3, CurrentMoves
<1>3. CASE FinishClear(p)
  <2>1. /\ UNCHANGED pointerFiles /\ Accepted' = Snapshots
        /\ current # None => BuiltFor(current.digest, x)
    BY <1>0, <1>3, Clearing DEF FinishClear, FilesFor
  <2>2. AllFor(Snapshots, x)
    BY <1>1, <1>3, <2>1, ClearedFor
  <2>3. AllFor(Accepted', x) /\ Accepted'.current = current'
    BY <2>1, <2>2 DEF Snapshots, pointerFiles
  <2>4. QED BY <1>1, <1>2, <2>3 DEF FilesFor, AllFor
<1>4. CASE Accepted' = Accepted
  <2>1. current' = None => Accepted.current = None
    BY CurrentMoves, DocumentAssumption DEF FilesFor
  <2>2. QED BY <1>1, <1>2, <1>4, <2>1 DEF FilesFor, AllFor
<1>5. QED BY <1>3, <1>4, AcceptedMoves

(* What the checks admit was built for the project of the binding: the      *)
(* candidate of a promotion, or an archived release.                        *)
LEMMA AdmittedFor ==
    ASSUME Inv, RunInv, FilesFor, NEW p \in Proc, LaunchedAt(p), run[p].at = "engine",
           Check(p), FromCandidate(p), pc'[p] \in Carrying
    PROVE  BuiltFor(job'[p].digest, binding)
<1>1. TypeInv /\ pc[p] = "check" /\ pc[p] \in Critical
  BY CriticalLabels DEF Inv, LockInv, Check
<1>2. \A to : Goto(p, to) => pc'[p] = to
  BY <1>1, OnlyMover
<1>3. pc'[p] # "unlock"
  BY CarryingLabels
<1>4. ASSUME NEW c, Admit(p, c) PROVE job'[p].digest = c
  BY <1>1, <1>4 DEF Admit, TypeInv, CallsTyped, Job
<1>5. CASE job[p].op = "PROMOTE" /\ \E c \in Content : Admit(p, c)
  <2>1. PICK c \in Content : Admit(p, c)
    BY <1>5
  <2>2. job'[p].digest = c /\ c # None
    BY <1>4, <2>1, SentinelAssumption
  <2>3. run[p].op = "PROMOTE" /\ c = run[p].candidate
    BY <1>1, <1>5, <2>2 DEF LaunchedAt, Promoting, FromCandidate
  <2>4. BuiltFor(run[p].candidate, run[p].project) /\ binding = run[p].project
    BY <2>3, ThisRun DEF RunOK, Bound
  <2>5. QED BY <2>2, <2>3, <2>4
<1>6. CASE /\ job[p].op = "ROLLBACK" /\ MayRollback(p)
           /\ Admit(p, manifests[job[p].target])
  <2> DEFINE r == job[p].target
  <2>1. /\ active = None /\ CurrentRelease \notin {None, r} /\ manifests[r] # None
        /\ r \in Release /\ job'[p].digest = manifests[r]
    BY <1>1, <1>4, <1>6 DEF MayRollback, Intact, TypeInv, CallsTyped, LocalOK
  <2>2. FilesInv
    BY DEF Inv, EngineInv
  <2>3. PICK e \in archive : e.release = r
    BY <2>1, <2>2 DEF FilesInv, NothingLeftBehind
  <2>4. Accepted = Snapshots
    BY <2>1 DEF Accepted
  <2>5. Installed(e)
    BY <2>2, <2>4 DEF FilesInv, AcceptedIsConsistent, Consistent, Snapshots
  <2>6. BuiltFor(e.digest, binding)
    BY <2>4 DEF FilesFor, AllFor, Snapshots
  <2>7. QED BY <2>1, <2>3, <2>5, <2>6 DEF Installed
<1>7. QED BY <1>2, <1>3, <1>5, <1>6 DEF Check

LEMMA CallsForStep ==
    ASSUME Inv, FilesFor, CallsFor, NEW p \in Proc, binding' = binding,
           Call(p) \/ Failure(p) \/ Step(p),
           Check(p) /\ pc'[p] \in Carrying => BuiltFor(job'[p].digest, binding)
    PROVE  CallsFor'
<1>1. TypeInv
  BY DEF Inv, LockInv
<1>2. \A q \in Proc \ {p} : pc'[q] = pc[q] /\ job'[q] = job[q]
  BY <1>1, OthersStay, CallLocals, FailureLocals, StepLocals DEF LocalsOf
<1>3. pc'[p] \in Carrying => BuiltFor(job'[p].digest, binding)
  <2>1. CASE Call(p) \/ Failure(p)
    BY <1>1, <2>1, CallLocals, FailureLocals
  <2>2. CASE Step(p)
    BY <1>1, <2>2, StepLocals DEF LocalsOf, CallsFor
  <2>3. QED BY <2>1, <2>2
<1>4. ASSUME NEW q \in Proc, pc'[q] \in Carrying PROVE BuiltFor(job'[q].digest, binding)
  BY <1>2, <1>3, <1>4 DEF CallsFor
<1>5. PICK x : x = binding
  OBVIOUS
<1>6. \A q \in Proc : pc'[q] \in Carrying => BuiltFor(job'[q].digest, x)
  BY <1>4, <1>5
<1>7. QED BY <1>5, <1>6 DEF CallsFor
-----------------------------------------------------------------------------
(* The adapter's own steps *)

(* A step of one adapter call, and whether it is in the engine afterwards.  *)
LEMMA OutsideMoves ==
    ASSUME RunInv, NEW p \in Proc,
           \/ StartPromotePrivate(p) \/ StartRollbackPrivate(p)
           \/ StartRecoverPrivate(p)
           \/ LockRoot(p) \/ RootContended(p) \/ Bind(p) \/ Build(p)
           \/ Unbind(p) \/ UnlockRoot(p)
           \/ ReadBinding(p) \/ ValidateFirst(p) \/ Validate(p) \/ EngineRefuses(p)
           \/ RuntimeException(p) \/ RuntimeInterrupt(p) \/ RuntimeKill(p)
    PROVE  run'[p].at # "engine" /\ \A q \in Proc \ {p} : run'[q] = run[q]
<1>1. run \in [Proc -> Run] /\ run[p] \in Run /\ NoRun \in Run /\ NoRun.at = "idle"
  BY ThisRun, NoRunOK DEF RunInv, RuntimeTypeOK
<1>2. CASE Done(p)
  BY <1>1, <1>2 DEF Done
<1>3. ASSUME NEW to, to # "engine", run' = [run EXCEPT ![p].at = to]
      PROVE  run'[p].at # "engine" /\ \A q \in Proc \ {p} : run'[q] = run[q]
  BY <1>1, <1>3 DEF Run
<1>4. CASE \/ StartPromotePrivate(p) \/ StartRollbackPrivate(p)
           \/ StartRecoverPrivate(p)
  <2>1. ASSUME NEW call, Begins(p, call), call.at # "engine"
        PROVE  run'[p].at # "engine" /\ \A q \in Proc \ {p} : run'[q] = run[q]
    BY <1>1, <2>1 DEF Begins
  <2>2. CASE StartPromotePrivate(p)
    <3>1. PICK x \in Project :
             Begins(p, [NoRun EXCEPT !.op = "PROMOTE", !.at = "root_lock",
                                     !.project = x])
      BY <2>2 DEF StartPromotePrivate
    <3>2. QED BY <2>1, <3>1 DEF NoRun
  <2>3. CASE StartRollbackPrivate(p)
    <3>1. PICK r \in Release :
             Begins(p, [NoRun EXCEPT !.op = "ROLLBACK", !.at = "read_binding",
                                     !.target = r])
      BY <2>3 DEF StartRollbackPrivate
    <3>2. QED BY <2>1, <3>1 DEF NoRun
  <2>4. CASE StartRecoverPrivate(p)
    <3>1. PICK f \in BOOLEAN :
             Begins(p, [NoRun EXCEPT !.op = "RECOVER", !.at = "read_binding",
                                     !.forced = f])
      BY <2>4 DEF StartRecoverPrivate
    <3>2. QED BY <2>1, <3>1 DEF NoRun
  <2>5. QED BY <1>4, <2>2, <2>3, <2>4
<1>5. CASE Bind(p) \/ Build(p)
  BY <1>1, <1>5 DEF Bind, Build, Run
<1>6. CASE \/ LockRoot(p) \/ RootContended(p) \/ Unbind(p) \/ UnlockRoot(p)
           \/ ReadBinding(p) \/ ValidateFirst(p) \/ Validate(p) \/ EngineRefuses(p)
  BY <1>2, <1>3, <1>6
  DEF LockRoot, RootContended, Unbind, UnlockRoot, ReadBinding, ValidateFirst,
      Validate, EngineRefuses, Proceed
<1>7. CASE RuntimeException(p) \/ RuntimeInterrupt(p) \/ RuntimeKill(p)
  BY <1>2, <1>3, <1>7 DEF RuntimeException, RuntimeInterrupt, RuntimeKill, Proceed
<1>8. QED BY <1>4, <1>5, <1>6, <1>7

LEMMA InsideMoves ==
    ASSUME RunInv, NEW p \in Proc, CallEngine(p) \/ EngineStep(p) \/ EngineFailure(p)
    PROVE  /\ \A q \in Proc \ {p} : run'[q] = run[q]
           /\ run'[p].at = "engine" => run'[p].op = run[p].op
           /\ run'[p].at = "engine" => CallEngine(p) \/ pc'[p] # "idle"
<1>1. run \in [Proc -> Run] /\ run[p] \in Run /\ NoRun \in Run /\ NoRun.at = "idle"
  BY ThisRun, NoRunOK DEF RunInv, RuntimeTypeOK
<1>2. CASE CallEngine(p)
  BY <1>1, <1>2 DEF CallEngine, Proceed, Run
<1>3. CASE EngineStep(p) \/ EngineFailure(p)
  <2>1. PICK ending : Returns(p, ending)
    BY <1>3 DEF EngineStep, EngineFailure
  <2>2. PICK to : /\ to = IF pc'[p] = "idle" THEN Onward(p, ending) ELSE "engine"
                  /\ run' = [run EXCEPT ![p] =
                        IF to = "idle" THEN NoRun
                        ELSE [run[p] EXCEPT !.at = to, !.ending = ending]]
    BY <2>1 DEF Returns
  <2>3. Onward(p, ending) # "engine"
    BY DEF Onward
  <2>4. CASE to = "idle"
    BY <1>1, <2>2, <2>4
  <2>5. CASE to # "idle"
    BY <1>1, <2>2, <2>3, <2>5 DEF Run
  <2>6. QED BY <2>4, <2>5
<1>4. QED BY <1>2, <1>3

LEMMA EngineLaunched ==
    ASSUME TypeInv, RunInv, NEW p \in Proc, LaunchedAt(p),
           CallEngine(p) \/ EngineStep(p) \/ EngineFailure(p)
    PROVE  /\ LaunchedAt(p)'
           /\ \A q \in Proc \ {p} : job'[q] = job[q] /\ run'[q] = run[q]
<1>1. CallEngine(p) => Call(p)
  BY DEF CallEngine, Call
<1>2. EngineStep(p) \/ EngineFailure(p) =>
         LocalsOf(p) /\ run[p].at = "engine"
  BY StepLocals, FailureLocals DEF EngineStep, EngineFailure, Failure
<1>3. \A q \in Proc \ {p} : job'[q] = job[q] /\ run'[q] = run[q]
  BY <1>1, <1>2, CallLocals, InsideMoves DEF LocalsOf
<1>4. run'[p].at = "engine" /\ job'[p].op = "PROMOTE" => run'[p].op = "PROMOTE"
  <2>1. CASE CallEngine(p)
    <3>1. run'[p].at = "engine" => run'[p].op = run[p].op
      BY InsideMoves
    <3>2. run[p].op # "PROMOTE" => job'[p].op # "PROMOTE"
      BY <2>1
      DEF CallEngine, StartRollback, StartRecover, StartForcedRecover, Start, NoJob,
          TypeInv, CallsTyped
    <3>3. QED BY <3>1, <3>2
  <2>2. CASE EngineStep(p) \/ EngineFailure(p)
    <3>1. /\ run'[p].at = "engine" => run'[p].op = run[p].op
          /\ run'[p].at = "engine" => CallEngine(p) \/ pc'[p] # "idle"
      BY InsideMoves
    <3>2. run[p].at = "engine" /\ ~CallEngine(p)
      BY <1>2, <2>2 DEF CallEngine, Proceed
    <3>3. QED BY <1>2, <2>2, <3>1, <3>2 DEF LocalsOf, LaunchedAt, Promoting
  <2>3. QED BY <2>1, <2>2
<1>5. QED BY <1>3, <1>4 DEF LaunchedAt, Promoting

(* Nothing is accepted when a binding is made, and nothing is there to be   *)
(* accepted when one is taken away.                                         *)
LEMMA BindingMoves ==
    ASSUME RunInv, FilesFor, NEW p \in Proc, Bind(p) \/ Unbind(p)
    PROVE  binding' = binding \/ (current = None /\ Accepted.current = None)
<1>1. CASE Bind(p)
  <2>1. binding' = binding \/ binding = None
    BY <1>1 DEF Bind, Accepts
  <2>2. \A c : ~BuiltFor(c, None)
    BY ContentAssumption DEF BuiltFor
  <2>3. QED BY <2>1, <2>2 DEF FilesFor
<1>2. CASE Unbind(p)
  BY <1>2 DEF Unbind, MayUnbind, FilesFor
<1>3. QED BY <1>1, <1>2

(* No call carries a release while the binding changes under it.            *)
LEMMA BindingUnused ==
    ASSUME Inv, RunInv, Launched, Accepted.current = None, current = None,
           NEW p \in Proc, rootLock = p, run[p].at \in {"bind", "unbind"}
    PROVE  \A q \in Proc : pc[q] \notin Carrying
<1> SUFFICES ASSUME NEW q \in Proc, pc[q] \in Carrying PROVE FALSE
  OBVIOUS
<1>1. /\ pc[q] \in Critical /\ pc[q] # "idle" /\ run[q].at = "engine"
  BY CarryingLabels, ThisRun
<1>2. /\ TypeInv /\ Progress(pc[q], job[q]) /\ LocalOK(pc[q], job[q])
  BY <1>1, Here
<1>3. job[q].op \in {"PROMOTE", "ROLLBACK"}
  BY <1>2 DEF LocalOK, Carrying
<1>4. CASE job[q].op = "PROMOTE"
  <2>1. Holds(run[q])
    BY <1>1, <1>4 DEF Launched, LaunchedAt, Promoting, Holds
  <2>2. rootLock = q
    BY <2>1, ThisRun
  <2>3. QED BY <1>1, <2>2
<1>5. CASE job[q].op = "ROLLBACK"
  <2>1. CASE pc[q] = "begin"
    BY <1>2, <1>5, <2>1 DEF Progress, Admitted, CurrentRelease
  <2>2. CASE pc[q] \in Working
    <3>1. active # None /\ OpenOK(active) /\ active.op = "ROLLBACK"
      BY <1>5, <2>2, AtWork
    <3>2. QED BY <3>1 DEF OpenOK, Accepted
  <2>3. QED BY <1>1, <2>1, <2>2 DEF Carrying
<1>6. QED BY <1>3, <1>4, <1>5

(* The engine's files and calls stay; the binding may go only as above.     *)
LEMMA ContentRests ==
    ASSUME Inv, FilesFor, CallsFor,
           UNCHANGED <<pointerFiles, active, pc, job>>,
           \/ binding' = binding
           \/ /\ current = None /\ Accepted.current = None
              /\ \A q \in Proc : pc[q] \notin Carrying
    PROVE  FilesFor' /\ CallsFor'
<1>1. /\ current' = current /\ Accepted' = Accepted /\ pc' = pc /\ job' = job
  BY DEF pointerFiles, Accepted, Snapshots
<1>2. CASE binding' = binding
  BY <1>1, <1>2 DEF FilesFor, CallsFor, AllFor, BuiltFor
<1>3. CASE /\ current = None /\ Accepted.current = None
           /\ \A q \in Proc : pc[q] \notin Carrying
  <2>1. Accepted.archive = {}
    BY <1>3 DEF Inv, EngineInv, FilesInv, AcceptedIsConsistent, Consistent
  <2>2. PICK x : x = binding'
    OBVIOUS
  <2>3. AllFor(Accepted, x)
    BY <1>3, <2>1 DEF AllFor
  <2>4. QED BY <1>1, <1>3, <2>2, <2>3 DEF FilesFor, CallsFor, AllFor
<1>4. QED BY <1>2, <1>3
-----------------------------------------------------------------------------
(* Every step *)

RuntimeInv == Inv /\ RunInv /\ ContentInv

(* A step of the adapter outside the engine.                                *)
Outside(p) ==
    \/ StartPromotePrivate(p) \/ StartRollbackPrivate(p)
    \/ StartRecoverPrivate(p)
    \/ LockRoot(p) \/ RootContended(p) \/ Bind(p) \/ Build(p)
    \/ Unbind(p) \/ UnlockRoot(p)
    \/ ReadBinding(p) \/ ValidateFirst(p) \/ Validate(p) \/ EngineRefuses(p)
    \/ RuntimeException(p) \/ RuntimeInterrupt(p)
    \/ RuntimeKill(p) /\ NoEngineChange

LEMMA OutsideRests ==
    ASSUME RunInv, NEW p \in Proc, Outside(p)
    PROVE  /\ UNCHANGED <<pointerFiles, active, pc, job>> /\ history' = history
           /\ Bind(p) \/ Unbind(p) \/ binding' = binding
           /\ Bind(p) \/ Unbind(p) => rootLock = p /\ run[p].at \in {"bind", "unbind"}
<1>1. UNCHANGED <<pointerFiles, active, pc, job>> /\ history' = history
  BY DEF Outside, StartPromotePrivate, StartRollbackPrivate, StartRecoverPrivate, Begins,
     LockRoot, RootContended, Bind, Build, Unbind, UnlockRoot, ReadBinding,
     ValidateFirst, Validate, EngineRefuses, RuntimeException, RuntimeInterrupt,
     NoEngineChange, vars, journals
<1>2. Bind(p) \/ Unbind(p) \/ binding' = binding
  BY DEF Outside, StartPromotePrivate, StartRollbackPrivate, StartRecoverPrivate, Begins,
     LockRoot, RootContended, Build, UnlockRoot, ReadBinding,
     ValidateFirst, Validate, EngineRefuses, RuntimeException, RuntimeInterrupt,
     RuntimeKill
<1>3. Bind(p) \/ Unbind(p) => rootLock = p /\ run[p].at \in {"bind", "unbind"}
  BY ThisRun DEF Bind, Unbind, Proceed, Holds, Locked
<1>4. QED BY <1>1, <1>2, <1>3

LEMMA OutsideFiles ==
    ASSUME Inv, RunInv, FilesFor, CallsFor, Accepted.current = None => Launched,
           NEW p \in Proc, Outside(p)
    PROVE  FilesFor' /\ CallsFor'
<1>1. /\ UNCHANGED <<pointerFiles, active, pc, job>>
      /\ Bind(p) \/ Unbind(p) \/ binding' = binding
      /\ Bind(p) \/ Unbind(p) => rootLock = p /\ run[p].at \in {"bind", "unbind"}
  BY OutsideRests
<1>2. \/ binding' = binding
      \/ /\ current = None /\ Accepted.current = None
         /\ \A q \in Proc : pc[q] \notin Carrying
  BY <1>1, BindingMoves, BindingUnused
<1>3. QED BY <1>1, <1>2, ContentRests

LEMMA OutsideContent ==
    ASSUME RuntimeInv, NEW p \in Proc, Outside(p)
    PROVE  ContentInv'
<1>1. Inv /\ RunInv /\ FilesFor /\ CallsFor /\ Launched
  BY DEF RuntimeInv, ContentInv
<1>2. job' = job
  BY <1>1, OutsideRests
<1>3. FilesFor' /\ CallsFor'
  BY <1>1, OutsideFiles
<1>4. run'[p].at # "engine" /\ \A q \in Proc \ {p} : run'[q] = run[q]
  BY <1>1, OutsideMoves DEF Outside
<1>5. Launched'
  BY <1>1, <1>2, <1>4 DEF Launched, LaunchedAt, Promoting
<1>6. QED BY <1>3, <1>5 DEF ContentInv

(* A step of the engine, as the adapter takes it.                           *)
Inside(p) ==
    \/ CallEngine(p) \/ EngineStep(p) \/ EngineFailure(p)
    \/ RuntimeKill(p) /\ Kill(p)

LEMMA InsideSteps ==
    ASSUME NEW p \in Proc, Inside(p)
    PROVE  binding' = binding /\ (Call(p) \/ Step(p) \/ Failure(p))
BY DEF Inside, CallEngine, EngineStep, EngineFailure, RuntimeKill, Call, Failure

LEMMA InsideFiles ==
    ASSUME Inv, RunInv, FilesFor, CallsFor, NEW p \in Proc, Inside(p),
           \/ LaunchedAt(p)
           \/ Check(p) /\ pc'[p] \in Carrying => BuiltFor(job'[p].digest, binding)
    PROVE  FilesFor' /\ CallsFor'
<1>1. TypeInv /\ binding' = binding /\ (Call(p) \/ Step(p) \/ Failure(p))
  BY InsideSteps DEF Inv, LockInv
<1>2. \/ Step(p) /\ FromCandidate(p) /\ run[p].at = "engine"
      \/ Call(p) \/ Failure(p)
  BY DEF Inside, CallEngine, EngineStep, EngineFailure, RuntimeKill, Call, Failure
<1>3. Check(p) /\ pc'[p] \in Carrying => BuiltFor(job'[p].digest, binding)
  BY <1>1, <1>2, CallLocals, FailureLocals, AdmittedFor
<1>4. QED BY <1>1, <1>3, FilesForStep, CallsForStep

LEMMA InsideContent ==
    ASSUME RuntimeInv, NEW p \in Proc, Inside(p)
    PROVE  ContentInv'
<1>1. /\ Inv /\ RunInv /\ FilesFor /\ CallsFor /\ Launched /\ LaunchedAt(p) /\ TypeInv
  BY DEF RuntimeInv, ContentInv, Inv, LockInv, Launched
<1>2. FilesFor' /\ CallsFor'
  BY <1>1, InsideFiles
<1>3. Launched'
  <2>1. CASE CallEngine(p) \/ EngineStep(p) \/ EngineFailure(p)
    BY <1>1, <2>1, EngineLaunched DEF Launched, LaunchedAt, Promoting
  <2>2. CASE RuntimeKill(p) /\ Kill(p)
    <3>1. run'[p].at # "engine" /\ \A q \in Proc \ {p} : run'[q] = run[q]
      BY <1>1, <2>2, OutsideMoves
    <3>2. \A q \in Proc \ {p} : job'[q] = job[q]
      BY <1>1, <2>2, FailureLocals DEF Failure, LocalsOf
    <3>3. QED BY <1>1, <3>1, <3>2 DEF Launched, LaunchedAt, Promoting
  <2>3. QED BY <2>1, <2>2 DEF Inside
<1>4. QED BY <1>2, <1>3 DEF ContentInv

LEMMA RuntimeSteps ==
    ASSUME NEW p \in Proc,
           \/ StartPromotePrivate(p) \/ StartRollbackPrivate(p)
           \/ StartRecoverPrivate(p)
           \/ Adapter(p) \/ EngineStep(p) \/ EngineFailure(p)
           \/ RuntimeException(p) \/ RuntimeInterrupt(p) \/ RuntimeKill(p)
    PROVE  Outside(p) \/ Inside(p)
<1>1. RuntimeKill(p) => Kill(p) \/ NoEngineChange
  BY DEF RuntimeKill
<1>2. QED BY <1>1 DEF Adapter, Outside, Inside

LEMMA InitContent == RuntimeInit => ContentInv
<1> SUFFICES ASSUME RuntimeInit PROVE ContentInv
  OBVIOUS
<1>1. /\ current = None /\ Accepted = Snapshots /\ archive = {}
      /\ \A p \in Proc : pc[p] = "idle" /\ run[p] = NoRun
  BY DEF RuntimeInit, Init, Accepted
<1>2. FilesFor
  BY <1>1 DEF FilesFor, AllFor, Snapshots
<1>3. CallsFor /\ Launched
  BY <1>1, CarryingLabels, NoRunOK DEF CallsFor, Launched, LaunchedAt
<1>4. QED BY <1>2, <1>3 DEF ContentInv

LEMMA NextRuntime ==
    ASSUME Hypotheses PROVE RuntimeInv /\ [RuntimeNext]_allVars => RuntimeInv'
<1> SUFFICES ASSUME RuntimeInv, [RuntimeNext]_allVars PROVE RuntimeInv'
  OBVIOUS
<1>1. Inv /\ RunInv /\ TypeInv /\ FilesFor /\ CallsFor /\ Launched
  BY DEF RuntimeInv, ContentInv, Inv, LockInv
<1>2. Inv'
  BY <1>1, StepKinds, NextInv, RestsInv
<1>3. RunInv'
  BY <1>1, NextRun
<1>4. CASE UNCHANGED allVars
  <2>1. /\ UNCHANGED <<pointerFiles, active, pc, job>>
        /\ binding' = binding /\ run' = run
    BY <1>4 DEF allVars, vars, runtimeVars, journals
  <2>2. FilesFor' /\ CallsFor'
    BY <1>1, <2>1, ContentRests
  <2>3. Launched'
    BY <1>1, <2>1 DEF Launched, LaunchedAt, Promoting
  <2>4. QED BY <1>2, <1>3, <2>2, <2>3 DEF RuntimeInv, ContentInv
<1>5. CASE RuntimeNext
  <2>1. ContentInv'
    BY <1>5, RuntimeSteps, OutsideContent, InsideContent DEF RuntimeNext
  <2>2. QED BY <1>2, <1>3, <2>1 DEF RuntimeInv
<1>6. QED BY <1>4, <1>5

LEMMA InitRuntime == RuntimeInit => RuntimeInv
BY InitRun, InitInv, InitContent DEF RuntimeInit, RuntimeInv

(* No promotion, rollback or recovery, whatever fails in it or in another,  *)
(* leaves a current or archived release of another project than the         *)
(* runtime's, as long as nobody edits a project while it is promoted.       *)
THEOREM ProjectsStayApart ==
    ASSUME Hypotheses, ~Edited PROVE RuntimeSpec => []OneProject
<1>1. RuntimeInv => OneProject
  BY DEF RuntimeInv, ContentInv, FilesFor, AllFor, BuiltFor, OneProject, Belongs
<1>2. QED BY <1>1, InitRuntime, NextRuntime, PTL DEF RuntimeSpec

LEMMA BindingKept ==
    ASSUME RunInv, FilesFor, Accepted.current # None, NEW p \in Proc,
           Outside(p) \/ Inside(p)
    PROVE  binding' = binding
<1>1. CASE Outside(p)
  BY <1>1, OutsideRests, BindingMoves
<1>2. CASE Inside(p)
  BY <1>2, InsideSteps
<1>3. QED BY <1>1, <1>2

(* A runtime that has accepted a release keeps its project: the binding is  *)
(* made before anything is accepted, and taken back only if nothing was.    *)
THEOREM ProjectForLife == ASSUME Hypotheses PROVE RuntimeSpec => BindingLasts
<1>1. ASSUME RuntimeInv, [RuntimeNext]_allVars, Accepted.current # None
      PROVE  binding' = binding
  <2>1. RunInv /\ FilesFor
    BY <1>1 DEF RuntimeInv, ContentInv
  <2>2. CASE UNCHANGED allVars
    BY <2>2 DEF allVars, runtimeVars
  <2>3. CASE RuntimeNext
    BY <1>1, <2>1, <2>3, RuntimeSteps, BindingKept DEF RuntimeNext
  <2>4. QED BY <1>1, <2>2, <2>3
<1>2. QED BY <1>1, InitRuntime, NextRuntime, PTL DEF RuntimeSpec, BindingLasts
-----------------------------------------------------------------------------
(* Whether a runtime can be recovered *)

(* A promotion that made the binding, while it may still take it back.      *)
First(r) ==
    r.op = "PROMOTE" /\ r.created /\ r.at \in {"build", "call", "engine", "unbind"}

(* Until it has committed, nothing is accepted; and no journal is open but  *)
(* its own, which it closes itself unless it is interrupted.                *)
FirstOK(p) ==
    /\ \/ run[p].ending = "raised"
       \/ run[p].at = "engine" /\ pc[p] = "unlock"
    /\ run[p].ending # "ok" => Accepted.current = None
    /\ active # None =>
          /\ run[p].at = "engine"
          /\ pc[p] \in Journaled \/ run[p].ending = "interrupted"

(* Without errors, a journal is never left without a binding.               *)
HasBinding == active # None => binding # None

RecoverInv ==
    /\ HasBinding
    /\ \A p \in Proc :
          /\ run[p].at \in {"root_lock", "bind"} => run[p].ending = "raised"
          /\ First(run[p]) => FirstOK(p)

LEMMA FirstHolds ==
    ASSUME RunInv, NEW p \in Proc, First(run[p]) PROVE rootLock = p
BY ThisRun DEF First, Holds, Locked

(* Only Begin opens a journal: under a promotion, or over a current release. *)
LEMMA JournalOpens ==
    ASSUME Inv, NEW p \in Proc, Call(p) \/ Step(p) \/ Failure(p)
    PROVE  active' # None => active # None \/ Begin(p)
<1>1. CASE Ordinary(p)
  BY <1>1, OrdinaryStep DEF journals
<1>2. CASE Mark(p) \/ FinishActive(p) \/ FinishHistory(p)
  <2>1. pc[p] \in Journaled
    BY <1>2 DEF Mark, FinishActive, FinishHistory, Go, Journaled, Working, Staging,
       Finishing
  <2>2. QED BY <2>1, UnderJournal
<1>3. CASE FinishClear(p)
  BY <1>3 DEF FinishClear
<1>4. QED BY <1>1, <1>2, <1>3, OrdinaryOrNot

LEMMA BeginOver ==
    ASSUME Inv, NEW p \in Proc, Begin(p)
    PROVE  /\ pc[p] \in Critical /\ pc[p] # "idle" /\ pc'[p] \in Journaled
           /\ job[p].op = "PROMOTE" \/ Accepted.current # None
<1>1. /\ pc[p] = "begin" /\ pc[p] \in Critical
      /\ \E to \in {"copy", "archive"} : Goto(p, to)
  BY CriticalLabels DEF Begin, Go
<1>2. TypeInv /\ Progress("begin", job[p]) /\ LocalOK("begin", job[p])
  BY <1>1, Here
<1>3. job[p].op \in {"PROMOTE", "ROLLBACK"} /\ Admitted(job[p])
  BY <1>2 DEF LocalOK, Progress
<1>4. job[p].op = "ROLLBACK" => Accepted.current # None
  BY <1>3 DEF Admitted, Accepted, Snapshots, CurrentRelease
<1>5. pc'[p] \in Journaled
  BY <1>1, <1>2, OnlyMover DEF Journaled, Working, Staging, Pointing
<1>6. QED BY <1>1, <1>3, <1>4, <1>5

(* Which step a call takes at the labels that matter here.                  *)
LEMMA StepsFrom ==
    ASSUME TypeInv, NEW p \in Proc, Step(p)
    PROVE  /\ pc[p] = "unlock" => Unlock(p)
           /\ pc[p] = "finish_clear" => FinishClear(p)
           /\ pc[p] = "check" /\ job[p].op = "RECOVER" => CheckRecover(p)
           /\ pc[p] \in Journaled => pc'[p] \in Journaled \/ FinishClear(p)
<1>1. ASSUME NEW to, Goto(p, to) PROVE pc'[p] = to
  BY <1>1, OnlyMover
<1>2. CASE Locking(p)
  BY <1>2
  DEF Locking, ForceUnlock, Acquire, Contended, Unlock, Go, Journaled, Working,
      Staging, Pointing, Restoring, Removing, Finishing
<1>3. CASE Check(p) \/ Begin(p)
  BY <1>3
  DEF Check, Begin, Go, Journaled, Working, Staging, Pointing, Restoring, Removing,
      Finishing
<1>4. CASE CopyTree(p) \/ Reconcile(p) \/ StageManifest(p) \/ Mark(p)
  BY <1>1, <1>4
  DEF CopyTree, Reconcile, StageManifest, Mark, Raise, Go, Journaled, Working, Staging,
      Pointing, Restoring
<1>5. CASE \/ InstallRelease(p) \/ InstallManifest(p)
           \/ Archive(p) \/ SetCurrent(p) \/ SetLastSuccess(p)
  BY <1>1, <1>5
  DEF InstallRelease, InstallManifest, Archive, SetCurrent, SetLastSuccess, Raise, Go,
      Journaled, Working, Staging, Pointing, Restoring, Finishing
<1>6. CASE Finish(p)
  BY <1>1, <1>6
  DEF Finish, FinishActive, FinishHistory, FinishClear, Go, Journaled, Finishing
<1>7. CASE CheckRecover(p)
  BY <1>7
  DEF CheckRecover, Journaled, Working, Staging, Pointing, Restoring, Removing, Finishing
<1>8. CASE RestoreCurrent(p) \/ RestoreLastSuccess(p) \/ RestoreArchive(p)
  BY <1>1, <1>8
  DEF RestoreCurrent, RestoreLastSuccess, RestoreArchive, Restored, Go, Journaled,
      Restoring, Removing, Finishing
<1>9. CASE \/ RemoveStaging(p) \/ RemoveInstalled(p)
           \/ RemoveStagedManifest(p) \/ RemoveManifest(p)
  BY <1>1, <1>9
  DEF RemoveStaging, RemoveInstalled, RemoveStagedManifest, RemoveManifest, Go,
      Journaled, Removing, Finishing
<1>10. QED
  BY <1>2, <1>3, <1>4, <1>5, <1>6, <1>7, <1>8, <1>9 DEF Step, Apply, Undo

(* The engine steps of others leave a first promotion as it is: they can    *)
(* neither open a journal nor close one under it.                           *)
LEMMA OthersFirst ==
    ASSUME RuntimeInv, RecoverInv, NEW p \in Proc, Call(p) \/ Step(p) \/ Failure(p),
           Begin(p) => run[p].at = "engine",
           NEW q \in Proc \ {p}, run'[q] = run[q], First(run[q])
    PROVE  FirstOK(q)'
<1>1. Inv /\ RunInv /\ Launched /\ TypeInv /\ SingleWriter /\ FirstOK(q)
  BY DEF RuntimeInv, ContentInv, RecoverInv, Inv, LockInv
<1>2. pc'[q] = pc[q]
  BY <1>1, OthersStay
<1>3. pc[q] \in Critical => pc[p] \notin Critical
  BY <1>1 DEF SingleWriter
<1>4. active # None => pc[q] \in Critical
  BY <1>1, CriticalLabels DEF FirstOK
<1>5. ~FinishClear(p)
  BY <1>1, <1>3, <1>4, Clearing, CriticalLabels
  DEF FinishClear, Go, Journaled, Finishing
<1>6. ~Begin(p)
  <2> SUFFICES ASSUME Begin(p) PROVE FALSE
    OBVIOUS
  <2>1. pc[p] \in Critical /\ (job[p].op = "PROMOTE" \/ Accepted.current # None)
    BY <1>1, BeginOver
  <2>2. CASE job[p].op = "PROMOTE"
    <3>1. Holds(run[p])
      BY <1>1, <2>2 DEF Launched, LaunchedAt, Promoting, Holds
    <3>2. QED BY <1>1, <3>1, FirstHolds, ThisRun
  <2>3. CASE Accepted.current # None
    <3>1. pc[q] = "unlock"
      BY <1>1, <2>3 DEF FirstOK
    <3>2. QED BY <1>3, <2>1, <3>1, CriticalLabels
  <2>4. QED BY <2>1, <2>2, <2>3
<1>7. Accepted' = Accepted /\ (active' # None => active # None)
  BY <1>1, <1>5, <1>6, AcceptedMoves, JournalOpens
<1>8. QED BY <1>1, <1>2, <1>7 DEF FirstOK

(* A first promotion that is not committed brings back that nothing was     *)
(* accepted.                                                                *)
LEMMA AbortedFirst ==
    ASSUME Inv, NEW p \in Proc, FinishClear(p), job[p].mode = "abort"
    PROVE  Accepted' = Accepted
<1>1. pc[p] = "finish_clear" /\ pc[p] \in Journaled
  BY DEF FinishClear, Go, Journaled, Finishing
<1>2. Progress("finish_clear", job[p])
  BY <1>1, UnderJournal
<1>3. active.status = "ROLLED_BACK"
  BY <1>2 DEF Progress, Decided
<1>4. QED BY <1>3, Clearing DEF Undone

(* How an adapter call inside the engine goes on.                           *)
LEMMA ReturnsTo ==
    ASSUME RunInv, NEW p \in Proc, NEW ending, Returns(p, ending), First(run'[p])
    PROVE  /\ run[p].op = "PROMOTE" /\ run[p].created
           /\ run'[p].ending = ending
           /\ pc'[p] # "idle" => run'[p].at = "engine"
           /\ pc'[p] = "idle" => ending = "raised"
<1>1. run \in [Proc -> Run] /\ run[p] \in Run
  BY ThisRun DEF RunInv, RuntimeTypeOK
<1>2. PICK to : /\ to = IF pc'[p] = "idle" THEN Onward(p, ending) ELSE "engine"
                /\ run' = [run EXCEPT ![p] =
                      IF to = "idle" THEN NoRun
                      ELSE [run[p] EXCEPT !.at = to, !.ending = ending]]
  BY DEF Returns
<1>3. to # "idle"
  BY <1>1, <1>2, NoRunOK DEF First, NoRun
<1>4. /\ run'[p].op = run[p].op /\ run'[p].created = run[p].created
      /\ run'[p].at = to /\ run'[p].ending = ending
  BY <1>1, <1>2, <1>3 DEF Run
<1>5. /\ run[p].op = "PROMOTE" /\ run[p].created
      /\ to \in {"build", "call", "engine", "unbind"}
  BY <1>4 DEF First
<1>6. pc'[p] = "idle" => ending = "raised"
  BY <1>2, <1>5 DEF Onward, Promoting
<1>7. QED BY <1>2, <1>4, <1>5, <1>6

LEMMA InsidePlaces ==
    ASSUME RunInv, NEW p \in Proc, CallEngine(p) \/ EngineStep(p) \/ EngineFailure(p)
    PROVE  run'[p].at \notin {"root_lock", "bind"}
<1>1. run \in [Proc -> Run] /\ run[p] \in Run /\ NoRun \in Run /\ NoRun.at = "idle"
  BY ThisRun, NoRunOK DEF RunInv, RuntimeTypeOK
<1>2. CASE CallEngine(p)
  BY <1>1, <1>2 DEF CallEngine, Proceed, Run
<1>3. CASE EngineStep(p) \/ EngineFailure(p)
  <2>1. PICK ending : Returns(p, ending)
    BY <1>3 DEF EngineStep, EngineFailure
  <2>2. PICK to : /\ to = IF pc'[p] = "idle" THEN Onward(p, ending) ELSE "engine"
                  /\ run' = [run EXCEPT ![p] =
                        IF to = "idle" THEN NoRun
                        ELSE [run[p] EXCEPT !.at = to, !.ending = ending]]
    BY <2>1 DEF Returns
  <2>3. to \notin {"root_lock", "bind"}
    BY <2>2 DEF Onward
  <2>4. run'[p] = NoRun \/ run'[p].at = to
    BY <1>1, <2>2 DEF Run
  <2>5. QED BY <1>1, <2>3, <2>4
<1>4. QED BY <1>2, <1>3

LEMMA CallFirst ==
    ASSUME RuntimeInv, RecoverInv, NEW p \in Proc, CallEngine(p), First(run'[p])
    PROVE  FirstOK(p)'
<1>1. Inv /\ RunInv /\ TypeInv /\ run[p] \in Run /\ run \in [Proc -> Run]
  BY ThisRun DEF RuntimeInv, RunInv, RuntimeTypeOK, Inv, LockInv
<1>2. /\ run[p].at = "call" /\ run'[p].op = run[p].op
      /\ run'[p].created = run[p].created /\ run'[p].ending = run[p].ending
  BY <1>1 DEF CallEngine, Proceed, Run
<1>3. FirstOK(p)
  BY <1>2 DEF First, RecoverInv
<1>4. Call(p)
  BY DEF CallEngine, Call
<1>5. ~FinishClear(p) /\ ~Begin(p)
  BY <1>1, <1>2, ThisRun DEF FinishClear, Begin, Go
<1>6. Accepted' = Accepted /\ (active' # None => active # None)
  BY <1>1, <1>4, <1>5, AcceptedMoves, JournalOpens
<1>7. QED BY <1>2, <1>3, <1>6 DEF FirstOK

LEMMA StepFirst ==
    ASSUME RuntimeInv, RecoverInv, NEW p \in Proc, EngineStep(p), First(run'[p])
    PROVE  FirstOK(p)'
<1> DEFINE ending == EndingAfter(p)
<1>1. /\ Inv /\ RunInv /\ TypeInv /\ Step(p) /\ run[p].at = "engine"
      /\ Returns(p, ending)
  BY DEF EngineStep, RuntimeInv, Inv, LockInv
<1>2. /\ run[p].op = "PROMOTE" /\ run[p].created
      /\ run'[p].ending = ending
      /\ pc'[p] # "idle" => run'[p].at = "engine"
      /\ pc'[p] = "idle" => ending = "raised"
  BY <1>1, ReturnsTo
<1>3. FirstOK(p)
  BY <1>1, <1>2 DEF First, RecoverInv
<1>4. CASE pc[p] = "unlock"
  <2>1. Unlock(p) /\ pc'[p] = "idle"
    BY <1>1, <1>4, StepsFrom, OnlyMover DEF Unlock, Quit
  <2>2. ending = run[p].ending /\ ending = "raised"
    BY <1>2, <1>4, <2>1 DEF EndingAfter
  <2>3. pc[p] \notin Journaled
    BY <1>4 DEF Journaled, Working, Staging, Pointing, Restoring, Removing, Finishing
  <2>4. active' = active /\ Accepted' = Accepted
    BY <2>1 DEF Unlock, pointerFiles, journals, Accepted, Snapshots
  <2>5. QED BY <1>2, <1>3, <2>2, <2>3, <2>4 DEF FirstOK
<1>5. CASE pc[p] # "unlock"
  <2>1. run[p].ending = "raised" /\ Accepted.current = None
        /\ (active # None => pc[p] \in Journaled)
    BY <1>3, <1>5 DEF FirstOK
  <2>2. CASE FinishClear(p)
    <3>1. active' = None /\ pc'[p] = "unlock" /\ pc[p] = "finish_clear"
      BY <1>1, <2>2, OnlyMover DEF FinishClear, Go
    <3>2. ending # "ok" => Accepted' = Accepted
      BY <1>1, <2>2, <3>1, AbortedFirst DEF EndingAfter
    <3>3. run'[p].at = "engine"
      BY <1>2, <3>1
    <3>4. QED BY <1>2, <2>1, <3>1, <3>2, <3>3 DEF FirstOK
  <2>3. CASE ~FinishClear(p)
    <3>1. Accepted' = Accepted
      BY <1>1, <2>3, AcceptedMoves
    <3>2. active' # None => pc'[p] \in Journaled
      BY <1>1, <2>1, <2>3, StepsFrom, JournalOpens, BeginOver
    <3>3. pc'[p] \in Journaled => pc'[p] # "idle"
      BY CriticalLabels
    <3>4. ending = "raised" \/ pc'[p] = "unlock"
      <4>1. CASE pc[p] = "check" /\ job[p].op = "RECOVER" /\ active = None
        BY <1>1, <4>1, StepsFrom, OnlyMover DEF CheckRecover
      <4>2. CASE ~(pc[p] = "check" /\ job[p].op = "RECOVER" /\ active = None)
        BY <1>1, <2>1, <2>3, <4>2, StepsFrom DEF EndingAfter
      <4>3. QED BY <4>1, <4>2
    <3>5. QED BY <1>2, <2>1, <3>1, <3>2, <3>3, <3>4 DEF FirstOK
  <2>4. QED BY <2>2, <2>3
<1>6. QED BY <1>4, <1>5

LEMMA InterruptFirst ==
    ASSUME RuntimeInv, RecoverInv, NEW p \in Proc, run[p].at = "engine",
           Interrupt(p), Returns(p, "interrupted"), First(run'[p])
    PROVE  FirstOK(p)'
<1>1. Inv /\ RunInv /\ TypeInv
  BY DEF RuntimeInv, Inv, LockInv
<1>2. /\ run[p].op = "PROMOTE" /\ run[p].created
      /\ run'[p].ending = "interrupted"
      /\ pc'[p] # "idle" => run'[p].at = "engine"
  BY <1>1, ReturnsTo
<1>3. pc[p] \in Body /\ pc'[p] = "unlock" /\ UNCHANGED <<pointerFiles, journals>>
  BY <1>1, OnlyMover DEF Interrupt
<1>4. pc[p] # "unlock"
  BY <1>3
  DEF Body, Staging, Pointing, Restoring, Removing, Finishing
<1>5. Accepted.current = None
  BY <1>2, <1>4 DEF First, RecoverInv, FirstOK
<1>6. Accepted' = Accepted
  BY <1>3 DEF pointerFiles, journals, Accepted, Snapshots
<1>7. QED BY <1>2, <1>3, <1>5, <1>6 DEF FirstOK

(* A binding that was not there was made when no journal was open.          *)
LEMMA OutsideFirst ==
    ASSUME RuntimeInv, RecoverInv, "exception" \notin FaultKinds, NEW p \in Proc,
           Outside(p)
    PROVE  /\ run'[p].at \in {"root_lock", "bind"} => run'[p].ending = "raised"
           /\ First(run'[p]) => FirstOK(p)'
<1>1. /\ Inv /\ RunInv /\ FilesFor
      /\ run \in [Proc -> Run] /\ run[p] \in Run /\ RunOK(run[p])
  BY ThisRun DEF RuntimeInv, ContentInv, RunInv, RuntimeTypeOK
<1>2. NoRun \in Run /\ NoRun.at = "idle" /\ ~First(NoRun) /\ NoRun.ending = "raised"
  BY NoRunOK DEF First, NoRun
<1>3. /\ pc' = pc /\ active' = active /\ Accepted' = Accepted
  BY <1>1, OutsideRests DEF pointerFiles, Accepted, Snapshots
<1>4. CASE Done(p)
  BY <1>1, <1>2, <1>4 DEF Done, First
<1>5. ASSUME NEW call, Begins(p, call), call.at \in {"root_lock", "read_binding"},
             call.ending = "raised"
      PROVE  run'[p].at \in {"root_lock", "read_binding"} /\ run'[p].ending = "raised"
  BY <1>1, <1>5 DEF Begins
<1>6. CASE \/ StartPromotePrivate(p) \/ StartRollbackPrivate(p)
           \/ StartRecoverPrivate(p)
  <2>1. run'[p].at \in {"root_lock", "read_binding"} /\ run'[p].ending = "raised"
    BY <1>5, <1>6
    DEF StartPromotePrivate, StartRollbackPrivate, StartRecoverPrivate, NoRun
  <2>2. QED BY <2>1 DEF First
<1>7. CASE LockRoot(p)
  BY <1>1, <1>7 DEF LockRoot, Proceed, Run, First, RecoverInv
<1>8. CASE Bind(p)
  <2>1. /\ run[p].ending = "raised" /\ run'[p].ending = "raised"
        /\ run'[p].at \in {"build", "root_unlock"}
        /\ run'[p].at = "build" => run'[p].created = (binding = None)
    BY <1>1, <1>8 DEF Bind, Run, RecoverInv
  <2>2. \A c : ~BuiltFor(c, None)
    BY ContentAssumption DEF BuiltFor
  <2>3. binding = None => Accepted.current = None /\ active = None
    BY <1>1, <2>2 DEF FilesFor, AllFor, RecoverInv, HasBinding
  <2>4. QED BY <1>3, <2>1, <2>3 DEF First, FirstOK
<1>9. ASSUME NEW to \in {"validate_first", "validate", "call", "unbind", "root_unlock"},
             run[p].at # "engine",
             \/ run' = [run EXCEPT ![p].at = to]
             \/ \E c \in Content :
                   run' = [run EXCEPT ![p].at = to, ![p].candidate = c],
             First([run[p] EXCEPT !.at = to]) => First(run[p])
      PROVE  /\ run'[p].at \in {"root_lock", "bind"} => run'[p].ending = "raised"
             /\ First(run'[p]) => FirstOK(p)'
  <2>1. /\ run'[p].at = to /\ run'[p].ending = run[p].ending
        /\ run'[p].op = run[p].op /\ run'[p].created = run[p].created
    BY <1>1, <1>9 DEF Run
  <2>2. First(run'[p]) => FirstOK(p)
    BY <1>1, <1>9, <2>1 DEF First, RecoverInv, Run
  <2>3. QED BY <1>3, <1>9, <2>1, <2>2 DEF FirstOK
<1>10. CASE Build(p) \/ Unbind(p) \/ EngineRefuses(p)
  <2>1. CASE Build(p)
    BY <1>1, <1>9, <2>1 DEF Build, First, Run
  <2>2. CASE Unbind(p)
    BY <1>1, <1>9, <2>2 DEF Unbind, Proceed, First, Run
  <2>3. CASE EngineRefuses(p)
    BY <1>1, <1>4, <1>9, <2>3 DEF EngineRefuses, First, Run
  <2>4. QED BY <1>10, <2>1, <2>2, <2>3
<1>11. CASE \/ RootContended(p) \/ UnlockRoot(p)
            \/ ReadBinding(p) \/ ValidateFirst(p) \/ Validate(p)
  <2>1. CASE RootContended(p) \/ Validate(p)
    BY <1>4, <2>1 DEF RootContended, Validate
  <2>2. CASE UnlockRoot(p)
    BY <1>1, <1>4, <1>9, <2>2 DEF UnlockRoot, First, Run
  <2>3. CASE ReadBinding(p) \/ ValidateFirst(p)
    <3>1. Done(p) \/ (run[p].op # "PROMOTE" /\ run[p].at # "engine")
      BY <1>1, <2>3 DEF ReadBinding, ValidateFirst, Proceed, RunOK
    <3>2. \A to : ~First([run[p] EXCEPT !.at = to]) \/ run[p].op = "PROMOTE"
      BY <1>1 DEF First, Run
    <3>3. QED BY <1>4, <1>9, <2>3, <3>1, <3>2 DEF ReadBinding, ValidateFirst, Proceed
  <2>4. QED BY <1>11, <2>1, <2>2, <2>3
<1>12. CASE RuntimeInterrupt(p)
  BY <1>1, <1>9, <1>12 DEF RuntimeInterrupt, Proceed, First, Run
<1>13. CASE RuntimeKill(p)
  BY <1>4, <1>13 DEF RuntimeKill
<1>14. ~RuntimeException(p)
  BY DEF RuntimeException, Fail
<1>15. QED
  BY <1>6, <1>7, <1>8, <1>10, <1>11, <1>12, <1>13, <1>14 DEF Outside

LEMMA HasBindingStep ==
    ASSUME RuntimeInv, RecoverInv, NEW p \in Proc,
           \/ Outside(p)
           \/ CallEngine(p) \/ EngineStep(p) \/ EngineFailure(p)
           \/ RuntimeKill(p) /\ Kill(p)
    PROVE  HasBinding'
<1>1. /\ Inv /\ RunInv /\ FilesFor /\ Launched /\ HasBinding
      /\ run[p] \in Run /\ RunOK(run[p])
  BY ThisRun DEF RuntimeInv, ContentInv, RecoverInv
<1>2. CASE Outside(p)
  <2>1. active' = active /\ (Bind(p) \/ Unbind(p) \/ binding' = binding)
    BY <1>1, <1>2, OutsideRests
  <2>2. CASE Bind(p)
    <3>1. run[p].project # None
      BY <1>1, <2>2, ContentAssumption DEF Bind, RunOK, Locked
    <3>2. QED BY <1>1, <2>1, <2>2, <3>1 DEF Bind, HasBinding
  <2>3. CASE Unbind(p)
    <3>1. run[p].at = "unbind" /\ run[p].op = "PROMOTE"
      BY <1>1, <2>3 DEF Unbind, Proceed, RunOK, Locked
    <3>2. run[p].created => active = None
      BY <3>1 DEF First, FirstOK, RecoverInv
    <3>3. QED BY <1>1, <2>1, <2>3, <3>2 DEF Unbind, MayUnbind, HasBinding
  <2>4. QED BY <1>1, <2>1, <2>2, <2>3 DEF HasBinding
<1>3. CASE \/ CallEngine(p) \/ EngineStep(p) \/ EngineFailure(p)
           \/ RuntimeKill(p) /\ Kill(p)
  <2>1. binding' = binding /\ (Call(p) \/ Step(p) \/ Failure(p))
    BY <1>3 DEF CallEngine, EngineStep, EngineFailure, RuntimeKill, Call, Failure
  <2>2. CASE Begin(p)
    <3>1. pc[p] # "idle" /\ (job[p].op = "PROMOTE" \/ Accepted.current # None)
      BY <1>1, <2>2, BeginOver
    <3>2. run[p].at = "engine"
      BY <1>1, <3>1, ThisRun
    <3>3. CASE job[p].op = "PROMOTE"
      <4>1. Bound(run[p]) /\ run[p].project # None
        BY <1>1, <3>2, <3>3, ContentAssumption DEF Launched, LaunchedAt, Promoting, Bound, RunOK
      <4>2. QED BY <1>1, <2>1, <4>1, ThisRun DEF HasBinding
    <3>4. CASE Accepted.current # None
      BY <1>1, <2>1, <3>4, ContentAssumption DEF FilesFor, AllFor, BuiltFor, HasBinding
    <3>5. QED BY <3>1, <3>3, <3>4
  <2>3. QED BY <1>1, <2>1, <2>2, JournalOpens DEF HasBinding
<1>4. QED BY <1>2, <1>3

LEMMA RecoverStep ==
    ASSUME RuntimeInv, RecoverInv, "exception" \notin FaultKinds, Hypotheses,
           NEW p \in Proc,
           \/ Outside(p)
           \/ CallEngine(p) \/ EngineStep(p) \/ EngineFailure(p)
           \/ RuntimeKill(p) /\ Kill(p)
    PROVE  RecoverInv'
<1>1. Inv /\ RunInv
  BY DEF RuntimeInv
<1>2. \A q \in Proc \ {p} : run'[q] = run[q]
  BY <1>1, OutsideMoves, InsideMoves DEF Outside
<1>3. ASSUME NEW q \in Proc \ {p}, First(run[q]) PROVE FirstOK(q)'
  <2>1. run'[q] = run[q] /\ FirstOK(q)
    BY <1>2, <1>3 DEF RecoverInv
  <2>2. CASE Outside(p)
    <3>1. pc' = pc /\ active' = active /\ Accepted' = Accepted
      BY <1>1, <2>2, OutsideRests DEF pointerFiles, Accepted, Snapshots
    <3>2. QED BY <2>1, <3>1 DEF FirstOK
  <2>3. CASE \/ CallEngine(p) \/ EngineStep(p) \/ EngineFailure(p)
             \/ RuntimeKill(p) /\ Kill(p)
    <3>1. Call(p) \/ Step(p) \/ Failure(p)
      BY <2>3 DEF CallEngine, EngineStep, EngineFailure, RuntimeKill, Call, Failure
    <3>2. Begin(p) => run[p].at = "engine"
      BY <1>1, BeginOver, ThisRun
    <3>3. QED BY <1>3, <2>1, <3>1, <3>2, OthersFirst
  <2>4. QED BY <2>2, <2>3
<1>4. /\ run'[p].at \in {"root_lock", "bind"} => run'[p].ending = "raised"
      /\ First(run'[p]) => FirstOK(p)'
  <2>1. CASE Outside(p)
    BY <2>1, OutsideFirst
  <2>2. CASE CallEngine(p) \/ EngineStep(p)
    <3>1. run'[p].at \notin {"root_lock", "bind"}
      BY <1>1, <2>2, InsidePlaces
    <3>2. QED BY <2>2, <3>1, CallFirst, StepFirst
  <2>3. CASE EngineFailure(p)
    <3>1. run'[p].at \notin {"root_lock", "bind"}
      BY <1>1, <2>3, InsidePlaces
    <3>2. run[p].at = "engine" /\ Interrupt(p) /\ Returns(p, "interrupted")
      BY <2>3 DEF EngineFailure, RaiseException, RaiseInTail, Fail, Hypotheses
    <3>3. QED BY <3>1, <3>2, InterruptFirst
  <2>4. CASE RuntimeKill(p) /\ Kill(p)
    <3>1. run'[p] = NoRun
      BY <1>1, <2>4 DEF RuntimeKill, Done, RunInv, RuntimeTypeOK
    <3>2. QED BY <3>1 DEF NoRun, First
  <2>5. QED BY <2>1, <2>2, <2>3, <2>4
<1>5. HasBinding'
  BY HasBindingStep
<1>6. QED BY <1>2, <1>3, <1>4, <1>5 DEF RecoverInv

LEMMA NextRecover ==
    ASSUME Hypotheses, "exception" \notin FaultKinds
    PROVE  RuntimeInv /\ RecoverInv /\ [RuntimeNext]_allVars => RecoverInv'
<1> SUFFICES ASSUME RuntimeInv, RecoverInv, [RuntimeNext]_allVars PROVE RecoverInv'
  OBVIOUS
<1>1. CASE UNCHANGED allVars
  BY <1>1
  DEF allVars, vars, runtimeVars, journals, pointerFiles, RecoverInv, HasBinding, First,
      FirstOK, Accepted, Snapshots
<1>2. CASE RuntimeNext
  BY <1>2, RuntimeSteps, RecoverStep DEF RuntimeNext, Inside
<1>3. QED BY <1>1, <1>2

LEMMA InitRecover == RuntimeInit => RecoverInv
BY NoRunOK DEF RuntimeInit, Init, RecoverInv, HasBinding, First, NoRun

(* A runtime without a binding has accepted nothing and has no current      *)
(* release, so a journal open in it is not a rollback's.                    *)
LEMMA UnboundIsEmpty ==
    ASSUME RuntimeInv, active # None, binding = None
    PROVE  active.op = "PROMOTE" /\ Accepted.current = None /\ current = None
<1>1. FilesFor /\ TypeInv /\ OpenOK(active)
  BY DEF RuntimeInv, ContentInv, Inv, LockInv, EngineInv, FilesInv
<1>2. \A c : ~BuiltFor(c, None)
  BY ContentAssumption DEF BuiltFor
<1>3. Accepted.current = None /\ current = None
  BY <1>1, <1>2 DEF FilesFor, AllFor
<1>4. active.op \in {"PROMOTE", "ROLLBACK"} /\ active.op # "ROLLBACK"
  BY <1>1, <1>3 DEF TypeInv, FilesTyped, Journal, OpenOK, Accepted
<1>5. QED BY <1>3, <1>4

(* Whatever fails, in a promotion and in its handler: a transaction that    *)
(* recover-private-runtime cannot reach is a first promotion's with nothing *)
(* accepted and nothing to be seen, and it takes an operating-system error  *)
(* to leave one; killed and interrupted calls never lose the binding.       *)
THEOREM RecoveryCanStart == ASSUME Hypotheses PROVE RuntimeSpec => []Recoverable
<1>1. CASE "exception" \in FaultKinds
  <2>1. RuntimeInv => Recoverable
    BY <1>1, UnboundIsEmpty DEF Recoverable
  <2>2. QED BY <2>1, InitRuntime, NextRuntime, PTL DEF RuntimeSpec
<1>2. CASE "exception" \notin FaultKinds
  <2>1. RecoverInv => Recoverable
    BY DEF RecoverInv, HasBinding, Recoverable
  <2>2. RuntimeInv /\ RecoverInv /\ [RuntimeNext]_allVars => RecoverInv'
    BY <1>2, NextRecover
  <2>3. QED BY <2>1, <2>2, InitRuntime, InitRecover, NextRuntime, PTL DEF RuntimeSpec
<1>3. QED BY <1>1, <1>2
=============================================================================
