------------------------- MODULE PrivateReplayProofs -------------------------
(***************************************************************************)
(* A theorem about PrivateReplay: what the result PASS of the drill is     *)
(* evidence of, for any number of other operators and any failures.        *)
(***************************************************************************)
EXTENDS PrivateReplay, PrivateRuntimeProofs

(* The calls of the other operators are not the drill's.                   *)
Foreign(t) == t \notin {replayTx[s] : s \in DOMAIN replayTx}
OthersApart ==
    \A q \in Proc \ {replay} : LaunchedAt(q) /\ Foreign(job[q].tx)

(* An adapter call r of the drill is the one that the plan has at stage s. *)
PlannedAt(r, s) ==
    /\ r.op = "PROMOTE" => /\ Plan[s] \in {"v1", "v2", "contamination"}
                           /\ r.project = Arguments[Plan[s]].project
    /\ r.op = "ROLLBACK" => Plan[s] = "rollback"
    /\ r.op = "RECOVER" => Plan[s] = "recover"
    /\ r.op = "NONE" => Plan[s] = "crash"

(* So is the engine call j below it; the crash has no adapter call.        *)
CalledAt(r, j, s) ==
    /\ j.op = IF r.op = "NONE" THEN "PROMOTE" ELSE r.op
    /\ j.op # "RECOVER" => j.tx = replayTx[Plan[s]]

(* What the local variables of the adapter call r say of how it goes.      *)
EndsAs(r, label) ==
    /\ r.at = "idle" => r.ending = "raised"
    /\ r.at = "validate" => r.ending = "ok"
    /\ r.ending = "interrupted" => r.op = "NONE" /\ label = "unlock"
    /\ r.op = "NONE" => r.at \in {"idle", "engine", "validate"}

OnStage ==
    /\ stage \in 1 .. Len(Plan)
    /\ result = "PASS" => stage = Len(Plan)
    /\ outcome = "crashed" => Plan[stage] = "crash"
    /\ EndsAs(run[replay], pc[replay])
    /\ run[replay].at # "idle" =>
          /\ result = "running"
          /\ outcome \in {"pending", "conflict", "needless"}
          /\ PlannedAt(run[replay], stage)
    /\ run[replay].at = "engine" => CalledAt(run[replay], job[replay], stage)

(* What the drill has achieved so far.                                     *)
Succeeded == outcome = "returned" \/ (outcome = "pending" /\ run[replay].ending = "ok")

BoundNow == binding = own /\ Accepted.current # None

CrashTx == replayTx["crash"]
CrashOpen ==
    /\ active # None /\ active.tx = CrashTx
    /\ active.status \notin {"COMMITTED", "ROLLED_BACK"}
Crashed == history[CrashTx] = "RECOVERED" \/ CrashOpen
Awaited == stage > 9 \/ run[replay].ending = "interrupted" \/ outcome = "crashed"

Evidence ==
    /\ stage > 1 \/ Succeeded => BoundNow
    /\ \A i \in 1 .. stage :
          Plan[i] \in {"v1", "v2", "rollback"} /\ (i < stage \/ Succeeded)
          => history[replayTx[Plan[i]]] = "COMMITTED"
    /\ Awaited => Crashed
    /\ stage > 11 \/ (stage = 11 /\ Succeeded) => history[CrashTx] = "RECOVERED"

ReplayInv ==
    /\ Inv /\ RunInv /\ FilesFor /\ CallsFor
    /\ OthersApart /\ OnStage /\ Evidence

LEMMA ThePlan ==
    /\ Len(Plan) = 15
    /\ \A i \in 1 .. 15 :
          /\ Plan[i] = "v1" <=> i = 1
          /\ Plan[i] = "v2" <=> i = 3
          /\ Plan[i] = "rollback" <=> i = 6
          /\ Plan[i] = "crash" <=> i = 9
          /\ Plan[i] = "recover" <=> i = 11
          /\ Plan[i] = "contamination" <=> i = 13
BY DEF Plan

LEMMA TheIdentifiers ==
    /\ replay \in Proc /\ own # foreign /\ own \in Project /\ CrashTx \in Tx
    /\ \A s \in {"v1", "v2", "rollback", "crash", "contamination"} : replayTx[s] \in Tx
    /\ \A s \in {"v1", "v2", "crash"} : Arguments[s].project = own
    /\ ~Foreign(CrashTx)
    /\ \A s \in {"v1", "v2", "rollback", "crash", "contamination"} : ~Foreign(replayTx[s])
BY ReplayAssumption DEF CrashTx, Arguments, Foreign
-----------------------------------------------------------------------------
(* What lasts, whoever goes on *)

Lasting ==
    /\ Accepted.current # None => Accepted'.current # None /\ binding' = binding
    /\ \A t \in Tx : history[t] # None => history'[t] = history[t]

(* Once a release is accepted, one always is.                              *)
LEMMA AcceptedStays ==
    ASSUME Inv, NEW p \in Proc, Call(p) \/ Step(p) \/ Failure(p), Accepted.current # None
    PROVE  Accepted'.current # None
<1>1. CASE FinishClear(p)
  BY <1>1, Clearing DEF InForce, Undone, Snapshots
<1>2. QED BY <1>1, AcceptedMoves

LEMMA StepsLast ==
    ASSUME Inv, RunInv, FilesFor, NEW p \in Proc, Outside(p) \/ Inside(p)
    PROVE  Lasting
<1>1. CASE Outside(p)
  <2>1. UNCHANGED <<pointerFiles, active>> /\ history' = history
    BY <1>1, OutsideRests
  <2>2. Accepted' = Accepted
    BY <2>1 DEF pointerFiles, Accepted, Snapshots
  <2>3. QED BY <1>1, <2>1, <2>2, BindingKept DEF Lasting
<1>2. CASE Inside(p)
  <2>1. Call(p) \/ Step(p) \/ Failure(p)
    BY <1>2, InsideSteps
  <2>2. QED BY <1>2, <2>1, AcceptedStays, RecordStays, BindingKept DEF Lasting
<1>3. QED BY <1>1, <1>2

(* The call that unlinks active.json without having taken anything back has *)
(* committed its own transaction, if it has one.                            *)
LEMMA Commits ==
    ASSUME Inv, NEW p \in Proc, FinishClear(p), job[p].mode # "abort",
           job[p].op # "RECOVER"
    PROVE  history'[job[p].tx] = "COMMITTED" /\ Accepted'.current # None
<1>1. /\ pc[p] = "finish_clear" /\ pc[p] \in Journaled /\ history' = history
  BY DEF FinishClear, Go, Journaled, Finishing
<1>2. Owns(job[p]) /\ Decided("finish_clear", job[p])
  BY <1>1, UnderJournal DEF Progress
<1>3. job[p].mode = "apply" /\ job[p].tx = active.tx /\ active.status = "COMMITTED"
  BY <1>2 DEF Owns, Decided
<1>4. QED BY <1>1, <1>3, Clearing DEF InForce, Snapshots

(* The journal that the crash has left is brought to an end as RECOVERED,   *)
(* unless the transaction that opened it goes on.                           *)
LEMMA CrashStays ==
    ASSUME Inv, NEW p \in Proc, Call(p) \/ Step(p) \/ Failure(p), Crashed,
           history[CrashTx] # "RECOVERED" /\ pc[p] \in Journaled =>
              job[p].op = "RECOVER" \/ job[p].tx # CrashTx
    PROVE  Crashed'
<1>1. CrashTx \in Tx
  BY TheIdentifiers
<1>2. CASE history[CrashTx] = "RECOVERED"
  <2>1. history[CrashTx] # None
    BY <1>2, DocumentAssumption DEF FinalStatus
  <2>2. QED BY <1>1, <1>2, <2>1, RecordStays DEF Crashed
<1>3. CASE CrashOpen /\ history[CrashTx] # "RECOVERED"
  <2>1. active # None /\ active.tx = CrashTx
        /\ active.status \notin {"COMMITTED", "ROLLED_BACK"}
    BY <1>3 DEF CrashOpen
  <2>2. CASE Ordinary(p)
    BY <2>1, <2>2, OrdinaryStep DEF journals, Crashed, CrashOpen
  <2>3. CASE Begin(p)
    <3>1. pc[p] = "begin" /\ pc[p] \in Critical
      BY <2>3, CriticalLabels DEF Begin, Go
    <3>2. QED BY <2>1, <3>1, Here DEF Progress, Admitted
  <2>4. CASE Mark(p) \/ FinishActive(p) \/ FinishHistory(p) \/ FinishClear(p)
    <3>1. pc[p] \in Journaled
      BY <2>4
      DEF Mark, FinishActive, FinishHistory, FinishClear, Go, Journaled, Working, Staging,
          Finishing
    <3>2. /\ Owns(job[p]) /\ active \in Journal /\ job[p].journal = active
          /\ Progress(pc[p], job[p]) /\ TypeInv
      BY <3>1, UnderJournal
    <3>3. job[p].mode = "recover"
      <4>1. active.op # "RECOVER"
        BY <3>2 DEF Journal
      <4>2. QED BY <1>3, <2>1, <3>1, <3>2, <4>1 DEF Owns
    <3>4. ~Mark(p)
      BY <3>2, <3>3 DEF Mark, Go, Progress, Working, Staging
    <3>5. CASE FinishActive(p)
      <4>1. Outcome(p) = "RECOVERED"
        BY <2>1, <3>2, <3>3 DEF Outcome, FinalStatus
      <4>2. active' = [active EXCEPT !.status = "RECOVERED"]
        BY <3>2, <3>5, <4>1 DEF FinishActive, WriteJournal
      <4>3. /\ active' \in Journal /\ active'.tx = CrashTx
            /\ active'.status = "RECOVERED"
        BY <2>1, <3>2, <4>2 DEF Journal, Status, FinalStatus
      <4>4. active' # None
        BY <4>3, DocumentAssumption
      <4>5. QED BY <4>3, <4>4 DEF Crashed, CrashOpen
    <3>6. CASE FinishHistory(p)
      BY <2>1, <3>6 DEF FinishHistory, Crashed, CrashOpen
    <3>7. CASE FinishClear(p)
      <4>1. history' = history
        BY <3>7 DEF FinishClear
      <4>2. QED BY <2>1, <3>7, <4>1, Clearing DEF Crashed
    <3>8. QED BY <2>4, <3>4, <3>5, <3>6, <3>7
  <2>5. QED BY <2>2, <2>3, <2>4, OrdinaryOrNot
<1>4. QED BY <1>2, <1>3 DEF Crashed
-----------------------------------------------------------------------------
(* How a step changes the adapter call that takes it, and no other *)

LEMMA OwnMove ==
    ASSUME Inv, RunInv, NEW p \in Proc, Outside(p) \/ Inside(p)
    PROVE  \A q \in Proc \ {p} : run'[q] = run[q] /\ job'[q] = job[q] /\ pc'[q] = pc[q]
<1>1. TypeInv
  BY DEF Inv, LockInv
<1>2. CASE Outside(p)
  BY <1>2, OutsideRests, OutsideMoves DEF Outside
<1>3. CASE Inside(p)
  <2>1. Call(p) \/ Step(p) \/ Failure(p)
    BY <1>3, InsideSteps
  <2>2. \A q \in Proc \ {p} : job'[q] = job[q] /\ pc'[q] = pc[q]
    BY <1>1, <2>1, OthersStay, CallLocals, StepLocals, FailureLocals DEF LocalsOf
  <2>3. QED BY <1>3, <2>2, InsideMoves, OutsideMoves DEF Inside
<1>4. QED BY <1>2, <1>3

LEMMA LaunchedStays ==
    ASSUME Inv, RunInv, NEW p \in Proc, Outside(p) \/ Inside(p), LaunchedAt(p)
    PROVE  LaunchedAt(p)'
<1>1. TypeInv
  BY DEF Inv, LockInv
<1>2. CASE CallEngine(p) \/ EngineStep(p) \/ EngineFailure(p)
  BY <1>1, <1>2, EngineLaunched
<1>3. CASE Outside(p) \/ RuntimeKill(p)
  BY <1>3, OutsideMoves DEF Outside, LaunchedAt
<1>4. QED BY <1>2, <1>3 DEF Inside

(* The call r has become s: it is over, or goes on under the same name, and *)
(* validates the runtime at the end only if it has succeeded.               *)
GoesOnAs(r, s) ==
    \/ s = NoRun
    \/ /\ s.op = r.op /\ s.project = r.project /\ s.at # "idle" /\ r.at # "idle"
       /\ s.at = "validate" => s.ending = "ok"

Begun(p) ==
    StartPromotePrivate(p) \/ StartRollbackPrivate(p) \/ StartRecoverPrivate(p)

LEMMA OutsideRun ==
    ASSUME RunInv, NEW p \in Proc, Outside(p), ~Begun(p), EndsAs(run[p], pc[p])
    PROVE  /\ GoesOnAs(run[p], run'[p])
           /\ \/ run'[p] = NoRun
              \/ /\ run'[p].ending = run[p].ending
                 /\ run[p].at \notin {"idle", "engine", "validate"}
           /\ run'[p].at # "engine"
<1>1. run \in [Proc -> Run] /\ run[p] \in Run /\ RunOK(run[p])
  BY ThisRun DEF RunInv, RuntimeTypeOK
<1>2. CASE Done(p)
  BY <1>1, <1>2, NoRunOK DEF Done, GoesOnAs
<1>3. ASSUME NEW to, to \notin {"idle", "engine"}, to = "validate" => run[p].ending = "ok",
             run[p].at \notin {"idle", "engine", "validate"},
             run' = [run EXCEPT ![p].at = to]
      PROVE  /\ GoesOnAs(run[p], run'[p])
             /\ run'[p].ending = run[p].ending
             /\ run'[p].at # "engine"
  BY <1>1, <1>3 DEF GoesOnAs, Run
<1>4. CASE Bind(p) \/ Build(p)
  <2>0. run[p].at \in {"bind", "build"}
    BY <1>4 DEF Bind, Build
  <2>1. CASE run' = [run EXCEPT ![p].at = "root_unlock"]
    BY <1>1, <2>0, <2>1 DEF GoesOnAs, Run
  <2>2. CASE run' = [run EXCEPT ![p].at = "build", ![p].created = (binding = None)]
    BY <1>1, <2>0, <2>2 DEF GoesOnAs, Run
  <2>3. ASSUME NEW c \in Content,
               run' = [run EXCEPT ![p].at = "call", ![p].candidate = c]
        PROVE  /\ GoesOnAs(run[p], run'[p])
               /\ run'[p].ending = run[p].ending
               /\ run'[p].at # "engine"
    BY <1>1, <2>0, <2>3 DEF GoesOnAs, Run
  <2>4. QED BY <1>4, <2>0, <2>1, <2>2, <2>3 DEF Bind, Build
<1>5. CASE \/ LockRoot(p) \/ RootContended(p) \/ Unbind(p) \/ UnlockRoot(p)
           \/ ReadBinding(p) \/ ValidateFirst(p) \/ Validate(p) \/ EngineRefuses(p)
  BY <1>2, <1>3, <1>5
  DEF LockRoot, RootContended, Unbind, UnlockRoot, ReadBinding, ValidateFirst,
      Validate, EngineRefuses, Proceed
<1>6. CASE RuntimeException(p) \/ RuntimeInterrupt(p) \/ RuntimeKill(p)
  BY <1>2, <1>3, <1>6 DEF RuntimeException, RuntimeInterrupt, RuntimeKill, Proceed
<1>7. QED BY <1>4, <1>5, <1>6 DEF Outside, Begun

LEMMA ReturnRun ==
    ASSUME RunInv, NEW p \in Proc, NEW ending, Returns(p, ending), run[p].at = "engine"
    PROVE  /\ GoesOnAs(run[p], run'[p])
           /\ run'[p] # NoRun => run'[p].ending = ending
           /\ pc'[p] # "idle" => run'[p].at = "engine" /\ run'[p] # NoRun
           /\ pc'[p] = "idle" => run'[p].at # "engine"
           /\ pc'[p] = "idle" /\ ~Promoting(p) /\ ending # "ok" => run'[p] = NoRun
           /\ ~Promoting(p) => run'[p].at \in {"idle", "engine", "validate"}
<1>1. run \in [Proc -> Run] /\ run[p] \in Run /\ NoRun.at = "idle"
  BY ThisRun, NoRunOK DEF RunInv, RuntimeTypeOK
<1>2. PICK to : /\ to = IF pc'[p] = "idle" THEN Onward(p, ending) ELSE "engine"
                /\ run' = [run EXCEPT ![p] =
                      IF to = "idle" THEN NoRun
                      ELSE [run[p] EXCEPT !.at = to, !.ending = ending]]
  BY DEF Returns
<1>3. /\ Onward(p, ending) # "engine"
      /\ Onward(p, ending) = "validate" => ending = "ok"
      /\ ~Promoting(p) /\ ending # "ok" => Onward(p, ending) = "idle"
      /\ ~Promoting(p) => Onward(p, ending) \in {"idle", "validate"}
  BY DEF Onward
<1>4. CASE to = "idle"
  BY <1>1, <1>2, <1>3, <1>4 DEF GoesOnAs
<1>5. CASE to # "idle"
  BY <1>1, <1>2, <1>3, <1>5 DEF GoesOnAs, Run
<1>6. QED BY <1>4, <1>5

LEMMA CallRun ==
    ASSUME RunInv, NEW p \in Proc, CallEngine(p)
    PROVE  /\ GoesOnAs(run[p], run'[p]) /\ run[p].at = "call"
           /\ run'[p].at = "engine" /\ run'[p].ending = run[p].ending
<1>1. run \in [Proc -> Run] /\ run[p] \in Run
  BY ThisRun DEF RunInv, RuntimeTypeOK
<1>2. QED BY <1>1 DEF CallEngine, Proceed, GoesOnAs, Run
-----------------------------------------------------------------------------
(* Every process, the drill's included, keeps the runtime as it should be *)

LEMMA RuntimeKept ==
    ASSUME Hypotheses, Inv, RunInv, NEW p \in Proc, Outside(p) \/ Inside(p)
    PROVE  Inv' /\ RunInv'
<1>1. TypeInv
  BY DEF Inv, LockInv
<1>2. RuntimeNext
  BY DEF Outside, Inside, RuntimeNext, Adapter
<1>3. QED BY <1>1, <1>2, StepKinds, NextInv, RestsInv, NextRun

(* Only the crash is not launched by the adapter, over an accepted release. *)
LEMMA LaunchedOrBound ==
    ASSUME ReplayInv
    PROVE  LaunchedAt(replay) \/ (BoundNow /\ run[replay].op = "NONE" /\ Plan[stage] = "crash")
<1>1. /\ run[replay] \in Run /\ RunInv /\ OnStage /\ Evidence
  BY TheIdentifiers, ThisRun DEF ReplayInv
<1>2. ASSUME run[replay].at = "engine", job[replay].op = "PROMOTE",
             run[replay].op # "PROMOTE"
      PROVE  run[replay].op = "NONE" /\ PlannedAt(run[replay], stage)
  BY <1>1, <1>2 DEF OnStage, CalledAt, Run
<1>3. stage \in 1 .. 15 /\ (Plan[stage] = "crash" => stage = 9)
  BY <1>1, ThePlan DEF OnStage
<1>4. QED BY <1>1, <1>2, <1>3 DEF PlannedAt, LaunchedAt, Promoting, Evidence

(* The drill's own releases are built for its project.                     *)
LEMMA UndamagedIsOwn ==
    ASSUME ReplayInv, Undamaged, Check(replay), pc'[replay] \in Carrying,
           BoundNow, run[replay].op = "NONE", Plan[stage] = "crash"
    PROVE  BuiltFor(job'[replay].digest, binding)
<1>1. /\ TypeInv /\ RunInv /\ OnStage /\ replay \in Proc
  BY TheIdentifiers DEF ReplayInv, Inv, LockInv
<1>2. pc[replay] = "check" /\ run[replay].at = "engine"
  BY <1>1, ThisRun DEF Check
<1>3. job[replay].op = "PROMOTE"
  BY <1>1, <1>2 DEF OnStage, CalledAt
<1>4. ~Goto(replay, "unlock")
  BY <1>1, OnlyMover, CarryingLabels
<1>5. PICK c \in Content : Admit(replay, c) /\ MayPromote(replay)
  BY <1>3, <1>4 DEF Check
<1>6. job'[replay].digest = c
  BY <1>1, <1>5 DEF Admit, TypeInv, CallsTyped, Job
<1>7. {receiptOf[c], controlOf[c]} = {own}
  BY <1>2, <1>3, <1>5, <1>6, TheIdentifiers DEF Undamaged
<1>8. QED BY <1>5, <1>6, <1>7 DEF BuiltFor, BoundNow

LEMMA DrillFiles ==
    ASSUME ReplayInv, Outside(replay) \/ Inside(replay),
           pc'[replay] \in Carrying => Undamaged
    PROVE  FilesFor' /\ CallsFor'
<1>1. /\ Inv /\ RunInv /\ TypeInv /\ FilesFor /\ CallsFor /\ OthersApart /\ replay \in Proc
  BY TheIdentifiers DEF ReplayInv, Inv, LockInv
<1>2. CASE Outside(replay)
  <2>1. Accepted.current = None => Launched
    BY <1>1, LaunchedOrBound DEF BoundNow, OthersApart, Launched
  <2>2. QED BY <1>1, <1>2, <2>1, OutsideFiles
<1>3. CASE Inside(replay)
  <2>1. Call(replay) \/ Step(replay) \/ Failure(replay)
    BY <1>1, <1>3, InsideSteps
  <2>2. CASE LaunchedAt(replay)
    BY <1>1, <1>3, <2>2, InsideFiles
  <2>3. CASE BoundNow /\ run[replay].op = "NONE" /\ Plan[stage] = "crash"
    <3>1. Check(replay) /\ pc'[replay] \in Carrying =>
             BuiltFor(job'[replay].digest, binding)
      BY <1>1, <2>1, <2>3, CallLocals, FailureLocals, UndamagedIsOwn
    <3>2. QED BY <1>1, <1>3, <3>1, InsideFiles
  <2>4. QED BY <2>2, <2>3, LaunchedOrBound
<1>4. QED BY <1>2, <1>3
-----------------------------------------------------------------------------
(* The evidence grows *)

(* What a call of the drill has to have achieved when it succeeds.         *)
Earned ==
    /\ BoundNow'
    /\ Plan[stage] \in {"v1", "v2", "rollback"} =>
          history'[replayTx[Plan[stage]]] = "COMMITTED"
    /\ stage = 11 => history'[CrashTx] = "RECOVERED"

LEMMA EvidenceGrows ==
    ASSUME OnStage, Evidence, stage' = stage, Lasting,
           Succeeded' => Succeeded \/ Earned, Awaited' => Crashed'
    PROVE  Evidence'
<1>0. stage \in 1 .. 15
  BY ThePlan DEF OnStage
<1>1. None # "COMMITTED" /\ None # "RECOVERED"
  BY DocumentAssumption DEF FinalStatus
<1>2. \A s \in {"v1", "v2", "rollback", "crash"} : replayTx[s] \in Tx
  BY TheIdentifiers
<1>3. BoundNow => BoundNow'
  BY DEF Lasting, BoundNow
<1>4. \A s \in {"v1", "v2", "rollback", "crash"} :
         history[replayTx[s]] \in {"COMMITTED", "RECOVERED"} =>
            history'[replayTx[s]] = history[replayTx[s]]
  BY <1>1, <1>2 DEF Lasting
<1>5. stage' > 1 \/ Succeeded' => BoundNow'
  BY <1>3 DEF Evidence, Earned
<1>6. ASSUME NEW i \in 1 .. stage', Plan[i] \in {"v1", "v2", "rollback"},
             i < stage' \/ Succeeded'
      PROVE  history'[replayTx[Plan[i]]] = "COMMITTED"
  <2>1. i \in 1 .. stage /\ (i < stage \/ i = stage)
    BY <1>0, <1>6
  <2>2. CASE i < stage \/ Succeeded
    BY <1>4, <1>6, <2>1, <2>2 DEF Evidence
  <2>3. CASE i = stage /\ Earned
    BY <1>6, <2>3 DEF Earned
  <2>4. QED BY <1>6, <2>1, <2>2, <2>3
<1>7. stage' > 11 \/ (stage' = 11 /\ Succeeded') => history'[CrashTx] = "RECOVERED"
  BY <1>4 DEF Evidence, Earned, CrashTx
<1>8. QED BY <1>5, <1>6, <1>7 DEF Evidence

(* What a call of the drill has crashed stays to be recovered: the drill's *)
(* own calls after it are the recovery, and those that follow that.         *)
LEMMA CrashKept ==
    ASSUME ReplayInv, Awaited, Outside(replay) \/ Inside(replay)
    PROVE  Crashed'
<1>1. /\ Inv /\ RunInv /\ OnStage /\ Evidence /\ Crashed /\ replay \in Proc
      /\ run[replay] \in Run /\ stage \in 1 .. 15
  BY TheIdentifiers, ThePlan, ThisRun DEF ReplayInv, Evidence, OnStage
<1>2. CASE Outside(replay)
  <2>1. active' = active /\ history' = history
    BY <1>1, <1>2, OutsideRests
  <2>2. QED BY <1>1, <2>1 DEF Crashed, CrashOpen
<1>3. CASE Inside(replay)
  <2>1. Call(replay) \/ Step(replay) \/ Failure(replay)
    BY <1>1, <1>3, InsideSteps
  <2>2. ASSUME history[CrashTx] # "RECOVERED", pc[replay] \in Journaled
        PROVE  job[replay].op = "RECOVER"
    <3>1. pc[replay] \notin {"idle", "unlock"} /\ run[replay].at = "engine"
      BY <1>1, <2>2, Labels, ThisRun
    <3>2. outcome # "crashed" /\ run[replay].ending # "interrupted"
      BY <1>1, <3>1 DEF OnStage, EndsAs
    <3>3. stage \in 10 .. 11
      BY <1>1, <2>2, <3>2 DEF Awaited, Evidence
    <3>4. PlannedAt(run[replay], stage) /\ CalledAt(run[replay], job[replay], stage)
      BY <1>1, <3>1 DEF OnStage
    <3>5. Plan[stage] \notin {"v1", "v2", "contamination", "rollback", "crash"}
      BY <3>3, ThePlan
    <3>6. run[replay].op = "RECOVER"
      BY <1>1, <3>4, <3>5 DEF PlannedAt, Run
    <3>7. QED BY <3>4, <3>6 DEF CalledAt
  <2>3. QED BY <1>1, <2>1, <2>2, CrashStays
<1>4. QED BY <1>2, <1>3

(* A call of the drill that commits, or recovers, has done what it was for. *)
LEMMA ClearingEarns ==
    ASSUME ReplayInv, FinishClear(replay), job[replay].mode # "abort", Inside(replay),
           Lasting
    PROVE  Earned
<1>1. /\ Inv /\ RunInv /\ OnStage /\ Evidence /\ replay \in Proc
      /\ run[replay] \in Run /\ stage \in 1 .. 15
  BY TheIdentifiers, ThePlan, ThisRun DEF ReplayInv, OnStage
<1>2. binding' = binding
  BY <1>1, InsideSteps
<1>3. run[replay].at = "engine"
  BY <1>1, ThisRun DEF FinishClear, Go
<1>4. PlannedAt(run[replay], stage) /\ CalledAt(run[replay], job[replay], stage)
  BY <1>1, <1>3 DEF OnStage
<1>5. stage > 1 => BoundNow'
  BY <1>1 DEF Evidence, BoundNow, Lasting
<1>6. CASE run[replay].op \in {"PROMOTE", "ROLLBACK"}
  <2>1. /\ history'[replayTx[Plan[stage]]] = "COMMITTED"
        /\ Accepted'.current # None
    BY <1>1, <1>4, <1>6, Commits DEF CalledAt
  <2>2. stage # 11
    BY <1>1, <1>4, <1>6, ThePlan DEF PlannedAt
  <2>3. stage = 1 => binding = own
    <3>1. stage = 1 => Plan[stage] = "v1" /\ run[replay].op = "PROMOTE"
      BY <1>1, <1>4, <1>6, ThePlan DEF PlannedAt
    <3>2. stage = 1 => run[replay].project = own /\ Bound(run[replay])
      BY <1>3, <1>4, <3>1, TheIdentifiers DEF PlannedAt, Bound
    <3>3. QED BY <1>1, <3>2, ThisRun
  <2>4. BoundNow'
    BY <1>1, <1>2, <1>5, <2>1, <2>3 DEF BoundNow
  <2>5. QED BY <2>1, <2>2, <2>4 DEF Earned
<1>7. CASE run[replay].op \in {"RECOVER", "NONE"}
  <2>1. stage > 1 /\ Plan[stage] \notin {"v1", "v2", "rollback"}
    BY <1>1, <1>4, <1>7, ThePlan DEF PlannedAt
  <2>2. stage = 11 => history'[CrashTx] = "RECOVERED"
    BY <1>1, CrashKept, Clearing DEF Awaited, Crashed, CrashOpen
  <2>3. QED BY <1>5, <2>1, <2>2 DEF Earned
<1>8. QED BY <1>1, <1>6, <1>7 DEF Run
-----------------------------------------------------------------------------
(* The steps of the drill *)

(* A step that the drill takes in the runtime, and all that it has to show. *)
LEMMA DrillStep ==
    ASSUME Hypotheses, ReplayInv, Outside(replay) \/ Inside(replay),
           pc'[replay] \in Carrying => Undamaged, OnStage', stage' = stage,
           Succeeded' => Succeeded \/ (FinishClear(replay) /\ job[replay].mode # "abort"
                                       /\ Inside(replay)),
           Awaited' => Awaited \/ Crashed'
    PROVE  ReplayInv'
<1>1. Inv /\ RunInv /\ FilesFor /\ OnStage /\ Evidence /\ OthersApart /\ replay \in Proc
  BY TheIdentifiers DEF ReplayInv
<1>2. Inv' /\ RunInv'
  BY <1>1, RuntimeKept
<1>3. FilesFor' /\ CallsFor'
  BY DrillFiles
<1>4. \A q \in Proc \ {replay} : run'[q] = run[q] /\ job'[q] = job[q]
  BY <1>1, OwnMove
<1>5. OthersApart'
  BY <1>1, <1>4 DEF OthersApart, LaunchedAt, Promoting, Foreign
<1>6. Lasting
  BY <1>1, StepsLast
<1>7. Succeeded' => Succeeded \/ Earned
  BY <1>6, ClearingEarns
<1>8. Awaited' => Crashed'
  BY CrashKept
<1>9. Evidence'
  BY <1>1, <1>6, <1>7, <1>8, EvidenceGrows
<1>10. QED BY <1>2, <1>3, <1>5, <1>9 DEF ReplayInv

LEMMA NoRunFits ==
    /\ NoRun.op = "NONE" /\ NoRun.at = "idle" /\ NoRun.ending = "raised"
    /\ \A label : EndsAs(NoRun, label)
BY DEF NoRun, EndsAs

(* What the invariant says of the drill's own call.                        *)
LEMMA TheDrill ==
    ASSUME ReplayInv
    PROVE  /\ Inv /\ RunInv /\ TypeInv /\ OnStage /\ Evidence /\ replay \in Proc
           /\ run[replay] \in Run /\ stage \in 1 .. 15
           /\ pc[replay] # "idle" => run[replay].at = "engine"
BY TheIdentifiers, ThePlan, ThisRun DEF ReplayInv, OnStage, Inv, LockInv

(* A call is begun, as the plan has it.                                    *)
LEMMA CallsKeep ==
    ASSUME Hypotheses, ReplayInv, CallPromote \/ CallRollback \/ CallRecover
    PROVE  ReplayInv'
<1>1. /\ OnStage /\ stage \in 1 .. 15 /\ replay \in Proc /\ run \in [Proc -> Run]
      /\ RunInv
  BY TheDrill DEF RunInv, RuntimeTypeOK
<1>2. /\ result = "running" /\ outcome = "none" /\ outcome' = "pending"
      /\ stage' = stage /\ result' = result /\ run[replay].at = "idle"
  BY DEF CallPromote, CallRollback, CallRecover, Doing, Resting, Calls
<1>3. Begun(replay)
  BY DEF CallPromote, CallRollback, CallRecover, Calls, Begun
<1>4. Outside(replay)
  BY <1>3 DEF Outside, Begun
<1>5. /\ run'[replay].at \in {"root_lock", "read_binding"}
      /\ run'[replay].ending = "raised" /\ run'[replay].op # "NONE"
      /\ PlannedAt(run'[replay], stage)
  <2>1. CASE CallPromote
    <3>1. PICK x \in Project :
             Begins(replay, [NoRun EXCEPT !.op = "PROMOTE", !.at = "root_lock",
                                          !.project = x])
      BY <2>1 DEF CallPromote, Calls, StartPromotePrivate
    <3>2. /\ run'[replay].op = "PROMOTE" /\ run'[replay].at = "root_lock"
          /\ run'[replay].ending = "raised"
      BY <1>1, <3>1 DEF Begins, NoRun
    <3>3. QED BY <2>1, <3>2 DEF CallPromote, Doing, PlannedAt
  <2>2. CASE CallRollback
    <3>1. PICK r \in Release :
             Begins(replay, [NoRun EXCEPT !.op = "ROLLBACK", !.at = "read_binding",
                                          !.target = r])
      BY <2>2 DEF CallRollback, Calls, StartRollbackPrivate
    <3>2. /\ run'[replay].op = "ROLLBACK" /\ run'[replay].at = "read_binding"
          /\ run'[replay].ending = "raised"
      BY <1>1, <3>1 DEF Begins, NoRun
    <3>3. QED BY <2>2, <3>2 DEF CallRollback, Doing, PlannedAt
  <2>3. CASE CallRecover
    <3>1. PICK f \in BOOLEAN :
             Begins(replay, [NoRun EXCEPT !.op = "RECOVER", !.at = "read_binding",
                                          !.forced = f])
      BY <2>3 DEF CallRecover, Calls, StartRecoverPrivate
    <3>2. /\ run'[replay].op = "RECOVER" /\ run'[replay].at = "read_binding"
          /\ run'[replay].ending = "raised"
      BY <1>1, <3>1 DEF Begins, NoRun
    <3>3. QED BY <2>3, <3>2 DEF CallRecover, Doing, PlannedAt
  <2>4. QED BY <2>1, <2>2, <2>3
<1>6. EndsAs(run[replay], pc[replay])'
  BY <1>5 DEF EndsAs
<1>7. OnStage'
  BY <1>1, <1>2, <1>5, <1>6 DEF OnStage
<1>8. ~Succeeded' /\ (Awaited' => Awaited)
  BY <1>2, <1>5 DEF Succeeded, Awaited
<1>9. pc'[replay] \notin Carrying
  <2>1. pc' = pc /\ pc[replay] = "idle"
    BY <1>1, <1>2, <1>4, OutsideRests, ThisRun
  <2>2. QED BY <2>1, CarryingLabels
<1>10. QED BY <1>2, <1>4, <1>7, <1>8, <1>9, DrillStep

(* A call goes on, or is over: the plan has it as before.                  *)
LEMMA PlanKept ==
    ASSUME NEW r, NEW s, GoesOnAs(r, s), PlannedAt(r, stage), s.at # "idle"
    PROVE  PlannedAt(s, stage)
BY NoRunFits DEF GoesOnAs, PlannedAt

(* How the drill's call stands after a step outside the engine, or in it.   *)
LEMMA OutsideStage ==
    ASSUME ReplayInv, Outside(replay), ~Begun(replay)
    PROVE  /\ EndsAs(run[replay], pc[replay])' /\ run'[replay].at # "engine"
           /\ GoesOnAs(run[replay], run'[replay])
           /\ run'[replay].ending \in {"raised", run[replay].ending}
           /\ run'[replay].ending = "interrupted" => run[replay].ending = "interrupted"
<1>1. /\ RunInv /\ replay \in Proc /\ EndsAs(run[replay], pc[replay])
      /\ pc[replay] # "idle" => run[replay].at = "engine"
  BY TheDrill DEF OnStage
<1>2. /\ GoesOnAs(run[replay], run'[replay])
      /\ \/ run'[replay] = NoRun
         \/ /\ run'[replay].ending = run[replay].ending
            /\ run[replay].at \notin {"idle", "engine", "validate"}
      /\ run'[replay].at # "engine"
  BY <1>1, OutsideRun
<1>3. CASE run'[replay] = NoRun
  BY <1>2, <1>3, NoRunFits
<1>4. CASE run'[replay] # NoRun
  <2>1. run[replay].ending # "interrupted" /\ run[replay].op # "NONE"
    BY <1>1, <1>2, <1>4 DEF EndsAs
  <2>2. QED BY <1>2, <1>4, <2>1 DEF EndsAs, GoesOnAs
<1>5. QED BY <1>3, <1>4

LEMMA ReturnStage ==
    ASSUME ReplayInv, Step(replay) \/ Failure(replay), run[replay].at = "engine",
           NEW ending, Returns(replay, ending),
           ending = "interrupted" =>
              run[replay].ending = "interrupted" /\ pc'[replay] = "idle"
    PROVE  /\ EndsAs(run[replay], pc[replay])'
           /\ GoesOnAs(run[replay], run'[replay])
           /\ run'[replay].ending \in {"raised", ending}
           /\ run'[replay].ending # "interrupted"
           /\ run'[replay].at = "engine" =>
                 CalledAt(run[replay], job[replay], stage)'
                 \/ stage' # stage
<1>1. /\ RunInv /\ TypeInv /\ replay \in Proc /\ EndsAs(run[replay], pc[replay])
      /\ CalledAt(run[replay], job[replay], stage) /\ run[replay] \in Run
  BY TheDrill DEF OnStage
<1>2. /\ GoesOnAs(run[replay], run'[replay])
      /\ run'[replay] # NoRun => run'[replay].ending = ending
      /\ pc'[replay] # "idle" => run'[replay].at = "engine" /\ run'[replay] # NoRun
      /\ pc'[replay] = "idle" => run'[replay].at # "engine"
      /\ pc'[replay] = "idle" /\ ~Promoting(replay) /\ ending # "ok" =>
            run'[replay] = NoRun
      /\ ~Promoting(replay) => run'[replay].at \in {"idle", "engine", "validate"}
  BY <1>1, ReturnRun
<1>3. ending = "interrupted" => run'[replay] = NoRun
  <2>1. run[replay].ending = "interrupted" => run[replay].op = "NONE"
    BY <1>1 DEF EndsAs
  <2>2. QED BY <1>2, <2>1 DEF Promoting
<1>4. CASE run'[replay] = NoRun
  BY <1>2, <1>4, NoRunFits
<1>5. CASE run'[replay] # NoRun
  <2>1. run'[replay].ending = ending /\ ending # "interrupted"
        /\ run'[replay].op = run[replay].op
        /\ run'[replay].at # "idle"
    BY <1>2, <1>3, <1>5 DEF GoesOnAs
  <2>2. EndsAs(run[replay], pc[replay])'
    BY <1>2, <1>5, <2>1 DEF EndsAs, GoesOnAs, Promoting
  <2>3. pc'[replay] # "idle" =>
           job'[replay].op = job[replay].op /\ job'[replay].tx = job[replay].tx
    BY <1>1, StepLocals, FailureLocals DEF LocalsOf
  <2>4. stage' = stage /\ run'[replay].at = "engine" =>
           CalledAt(run[replay], job[replay], stage)'
    BY <1>1, <1>2, <2>1, <2>3 DEF CalledAt
  <2>5. QED BY <1>2, <2>1, <2>2, <2>4
<1>6. QED BY <1>4, <1>5

LEMMA EnteringStage ==
    ASSUME ReplayInv, CallEngine(replay), AsPlanned, stage' = stage
    PROVE  /\ EndsAs(run[replay], pc[replay])'
           /\ GoesOnAs(run[replay], run'[replay])
           /\ run'[replay].ending = run[replay].ending
           /\ run'[replay].ending # "interrupted"
           /\ CalledAt(run[replay], job[replay], stage)'
<1>1. /\ RunInv /\ TypeInv /\ replay \in Proc /\ EndsAs(run[replay], pc[replay])
      /\ run[replay] \in Run
      /\ pc[replay] # "idle" => run[replay].at = "engine"
  BY TheDrill DEF OnStage
<1>2. /\ GoesOnAs(run[replay], run'[replay]) /\ run[replay].at = "call"
      /\ run'[replay].at = "engine" /\ run'[replay].ending = run[replay].ending
  BY <1>1, CallRun
<1>3. run[replay].ending # "interrupted" /\ run[replay].op # "NONE" /\ pc[replay] = "idle"
  BY <1>1, <1>2 DEF EndsAs
<1>4. run'[replay].op = run[replay].op
  BY <1>2, NoRunFits DEF GoesOnAs
<1>5. EndsAs(run[replay], pc[replay])'
  BY <1>2, <1>3, <1>4 DEF EndsAs
<1>6. job'[replay].op = run[replay].op
  <2>1. job \in [Proc -> Job]
    BY <1>1 DEF TypeInv, CallsTyped
  <2>2. CASE run[replay].op = "PROMOTE"
    BY <1>1, <2>1, <2>2 DEF CallEngine, StartPromote, Start, NoJob
  <2>3. CASE run[replay].op = "ROLLBACK"
    BY <1>1, <2>1, <2>3 DEF CallEngine, StartRollback, Start, NoJob
  <2>4. CASE run[replay].op = "RECOVER"
    BY <1>1, <2>1, <2>4 DEF CallEngine, StartRecover, StartForcedRecover, Start, NoJob
  <2>5. QED BY <1>1, <1>3, <2>2, <2>3, <2>4 DEF Run
<1>7. job'[replay].op # "RECOVER" => job'[replay].tx = replayTx[Plan[stage]]
  BY <1>1, <1>3, <1>6 DEF AsPlanned, Run
<1>8. QED BY <1>2, <1>3, <1>4, <1>5, <1>6, <1>7 DEF CalledAt

LEMMA NotBegun ==
    ASSUME NEW p \in Proc,
           \/ LockRoot(p) \/ RootContended(p) \/ Bind(p) \/ Build(p)
           \/ Unbind(p) \/ UnlockRoot(p)
           \/ ReadBinding(p) \/ ValidateFirst(p) \/ Validate(p) \/ EngineRefuses(p)
           \/ RuntimeException(p) \/ RuntimeInterrupt(p)
           \/ EngineStep(p) \/ CallEngine(p)
    PROVE  run[p].at # "idle" /\ ~Begun(p)
<1>1. run[p].at # "idle"
  BY DEF LockRoot, RootContended, Bind, Build, Unbind, UnlockRoot, ReadBinding,
     ValidateFirst, Validate, EngineRefuses, RuntimeException, RuntimeInterrupt,
     EngineStep, CallEngine, Proceed
<1>2. Begun(p) => run[p].at = "idle"
  BY DEF Begun, StartPromotePrivate, StartRollbackPrivate, StartRecoverPrivate, Begins
<1>3. QED BY <1>1, <1>2

(* What the drill observes of a call that goes on or ends.                 *)
LEMMA Observed ==
    ASSUME ReplayInv, Observe, run[replay].at # "idle",
           EndsAs(run[replay], pc[replay])', GoesOnAs(run[replay], run'[replay]),
           run'[replay].ending = "interrupted" => run[replay].ending = "interrupted",
           run'[replay].at = "engine" => CalledAt(run[replay], job[replay], stage)'
    PROVE  OnStage' /\ (Awaited' => Awaited)
<1>1. /\ OnStage /\ stage \in 1 .. 15 /\ stage' = stage /\ result' = result
      /\ result = "running" /\ outcome \in {"pending", "conflict", "needless"}
      /\ PlannedAt(run[replay], stage)
  BY TheDrill DEF OnStage, Observe
<1>2. /\ outcome' = "crashed" => run[replay].ending = "interrupted"
      /\ run'[replay].at # "idle" =>
            outcome' \in {"pending", "conflict", "needless"}
  BY <1>1 DEF Observe, Ends, Over
<1>3. run[replay].ending = "interrupted" => Plan[stage] = "crash"
  BY <1>1 DEF OnStage, EndsAs, PlannedAt
<1>4. run'[replay].at # "idle" => PlannedAt(run'[replay], stage)
  BY <1>1, PlanKept
<1>5. OnStage'
  BY <1>1, <1>2, <1>3, <1>4 DEF OnStage
<1>6. Awaited' => Awaited
  BY <1>1, <1>2 DEF Awaited
<1>7. QED BY <1>5, <1>6

(* Success is found where the engine call has ended well.                  *)
LEMMA ObservedSuccess ==
    ASSUME ReplayInv, Observe, run[replay].at # "idle", Succeeded',
           run'[replay].ending \in {"raised", run[replay].ending}
    PROVE  Succeeded
<1>1. OnStage /\ outcome \in {"pending", "conflict", "needless"}
  BY DEF ReplayInv, OnStage
<1>2. /\ outcome' = "returned" => outcome = "pending" /\ run[replay].at = "validate"
      /\ outcome' = "pending" => outcome = "pending"
  BY <1>1 DEF Observe, Ends
<1>3. QED BY <1>1, <1>2 DEF Succeeded, OnStage, EndsAs

LEMMA StepSuccess ==
    ASSUME ReplayInv, Observe, EngineStep(replay), Succeeded',
           run'[replay].ending \in {"raised", EndingAfter(replay)}
    PROVE  Succeeded \/ (FinishClear(replay) /\ job[replay].mode # "abort")
<1>1. /\ OnStage /\ TypeInv /\ replay \in Proc /\ run[replay] \in Run
      /\ Step(replay) /\ run[replay].at = "engine"
  BY TheDrill DEF EngineStep
<1>2. outcome \in {"pending", "conflict", "needless"}
      /\ CalledAt(run[replay], job[replay], stage)
  BY <1>1 DEF OnStage
<1>3. CASE pc[replay] = "finish_clear" /\ job[replay].mode # "abort"
  BY <1>1, <1>3, StepsFrom
<1>4. CASE pc[replay] = "check" /\ job[replay].op = "RECOVER" /\ active = None
  <2>1. run[replay].op = "RECOVER"
    BY <1>1, <1>2, <1>4 DEF CalledAt, Run
  <2>2. CheckRecover(replay) /\ pc'[replay] = "unlock"
    BY <1>1, <1>4, StepsFrom, OnlyMover DEF CheckRecover
  <2>3. run'[replay].at = "engine"
    BY <1>1, <2>2, TheDrill, ReturnRun DEF EngineStep
  <2>4. ~Refused /\ Needless /\ ~Over
    BY <1>1, <1>4, <2>1, <2>3 DEF Refused, Needless, Over
  <2>5. outcome' = "needless"
    BY <2>4 DEF Observe
  <2>6. QED BY <2>5 DEF Succeeded
<1>5. CASE /\ ~(pc[replay] = "finish_clear" /\ job[replay].mode # "abort")
           /\ ~(pc[replay] = "check" /\ job[replay].op = "RECOVER" /\ active = None)
  <2>1. EndingAfter(replay) = run[replay].ending
    BY <1>5 DEF EndingAfter
  <2>2. QED BY <1>1, <2>1, ObservedSuccess
<1>6. QED BY <1>3, <1>4, <1>5

LEMMA ReplayStepKeeps ==
    ASSUME Hypotheses, ReplayInv, ReplayStep PROVE ReplayInv'
<1>1. /\ OnStage /\ TypeInv /\ RunInv /\ replay \in Proc /\ Observe /\ AsPlanned
      /\ Undamaged /\ stage' = stage
      /\ pc[replay] # "idle" => run[replay].at = "engine"
  BY TheDrill DEF ReplayStep, Observe
<1>2. CASE CallEngine(replay)
  <2>1. run[replay].at # "idle" /\ Inside(replay)
    BY <1>1, <1>2, NotBegun DEF Inside
  <2>2. OnStage' /\ (Awaited' => Awaited) /\ (Succeeded' => Succeeded)
    BY <1>1, <1>2, <2>1, EnteringStage, Observed, ObservedSuccess
  <2>3. QED BY <1>1, <2>1, <2>2, DrillStep
<1>3. CASE EngineStep(replay)
  <2>1. /\ run[replay].at # "idle" /\ Inside(replay) /\ Step(replay)
        /\ run[replay].at = "engine" /\ Returns(replay, EndingAfter(replay))
    BY <1>1, <1>3, NotBegun DEF Inside, EngineStep
  <2>2. EndingAfter(replay) = "interrupted" =>
           run[replay].ending = "interrupted" /\ pc'[replay] = "idle"
    <3>1. EndingAfter(replay) = "interrupted" =>
             run[replay].ending = "interrupted" /\ pc[replay] = "unlock"
      BY <1>1 DEF EndingAfter, OnStage, EndsAs
    <3>2. pc[replay] = "unlock" => pc'[replay] = "idle"
      BY <1>1, <2>1, StepsFrom, OnlyMover DEF Unlock, Quit
    <3>3. QED BY <3>1, <3>2
  <2>3. OnStage' /\ (Awaited' => Awaited)
    BY <1>1, <2>1, <2>2, ReturnStage, Observed
  <2>4. run'[replay].ending \in {"raised", EndingAfter(replay)}
    BY <2>1, <2>2, ReturnStage
  <2>5. Succeeded' => Succeeded \/ (FinishClear(replay) /\ job[replay].mode # "abort")
    BY <1>1, <1>3, <2>4, StepSuccess
  <2>6. QED BY <1>1, <2>1, <2>3, <2>5, DrillStep
<1>4. CASE Adapter(replay) /\ ~CallEngine(replay)
  <2>1. Outside(replay) /\ run[replay].at # "idle" /\ ~Begun(replay)
    BY <1>1, <1>4, NotBegun DEF Adapter, Outside
  <2>2. OnStage' /\ (Awaited' => Awaited) /\ (Succeeded' => Succeeded)
    BY <1>1, <2>1, OutsideStage, Observed, ObservedSuccess
  <2>3. QED BY <1>1, <2>1, <2>2, DrillStep
<1>5. QED BY <1>2, <1>3, <1>4 DEF ReplayStep

LEMMA ReplayExceptionKeeps ==
    ASSUME Hypotheses, ReplayInv, run[replay].at # "idle", ReplayException
    PROVE  ReplayInv'
<1>1. /\ OnStage /\ TypeInv /\ RunInv /\ replay \in Proc /\ stage \in 1 .. 15
      /\ outcome \in {"pending", "conflict", "needless"}
      /\ result = "running" /\ PlannedAt(run[replay], stage)
      /\ pc[replay] # "idle" => run[replay].at = "engine"
  BY TheDrill DEF OnStage
<1>2. Fault
  BY DEF ReplayException, Resting
<1>3. stage' = stage /\ result' = result
      /\ outcome' = (IF run'[replay].at = "idle" THEN "raised" ELSE outcome)
  BY <1>2 DEF Fault, Over
<1>4. ASSUME EndsAs(run[replay], pc[replay])', GoesOnAs(run[replay], run'[replay]),
             run'[replay].at = "engine" => CalledAt(run[replay], job[replay], stage)'
      PROVE  OnStage'
  <2>1. run'[replay].at # "idle" => PlannedAt(run'[replay], stage)
    BY <1>1, <1>4, PlanKept
  <2>2. QED BY <1>1, <1>3, <1>4, <2>1 DEF OnStage
<1>5. ASSUME run'[replay].ending \in {"raised", run[replay].ending}
      PROVE  Succeeded' => Succeeded
  BY <1>1, <1>3, <1>5 DEF Succeeded
<1>6. ASSUME run'[replay].ending = "interrupted" => run[replay].ending = "interrupted"
      PROVE  Awaited' => Awaited
  BY <1>1, <1>3, <1>6 DEF Awaited
<1>7. CASE EngineFailure(replay) /\ Returns(replay, "raised")
  <2>1. Inside(replay) /\ Failure(replay) /\ run[replay].at = "engine"
    BY <1>7 DEF Inside, EngineFailure, Failure
  <2>2. pc'[replay] \notin Carrying
    BY <1>1, <2>1, FailureLocals
  <2>3. OnStage' /\ (Succeeded' => Succeeded) /\ (Awaited' => Awaited)
    BY <1>3, <1>4, <1>5, <1>6, <1>7, <2>1, ReturnStage
  <2>4. QED BY <1>3, <2>1, <2>2, <2>3, DrillStep
<1>8. CASE RuntimeException(replay)
  <2>1. Outside(replay) /\ ~Begun(replay)
    BY <1>1, <1>8, NotBegun DEF Outside
  <2>2. pc'[replay] \notin Carrying
    <3>1. pc' = pc /\ run[replay].at # "engine"
      BY <1>1, <1>8, <2>1, OutsideRests DEF RuntimeException, Proceed
    <3>2. QED BY <1>1, <3>1, CarryingLabels
  <2>3. OnStage' /\ (Succeeded' => Succeeded) /\ (Awaited' => Awaited)
    BY <1>4, <1>5, <1>6, <2>1, OutsideStage
  <2>4. QED BY <1>3, <2>1, <2>2, <2>3, DrillStep
<1>9. QED BY <1>7, <1>8 DEF ReplayException, EngineFailure, Resting

LEMMA ReplayKilledKeeps ==
    ASSUME Hypotheses, ReplayInv, RuntimeKill(replay), ReplayKilled
    PROVE  ReplayInv'
<1>1. /\ OnStage /\ TypeInv /\ RunInv /\ replay \in Proc /\ stage \in 1 .. 15
      /\ run \in [Proc -> Run]
      /\ pc[replay] # "idle" => run[replay].at = "engine"
  BY TheDrill DEF OnStage, RunInv, RuntimeTypeOK
<1>2. stage' = stage /\ result' = "gone" /\ outcome' = "none" /\ run'[replay] = NoRun
  BY <1>1 DEF ReplayKilled, RuntimeKill, Done
<1>3. OnStage'
  BY <1>1, <1>2, NoRunFits DEF OnStage
<1>4. ~Succeeded' /\ (Awaited' => Awaited)
  BY <1>2, NoRunFits DEF Succeeded, Awaited
<1>5. CASE Kill(replay)
  <2>1. Inside(replay) /\ pc'[replay] \notin Carrying
    BY <1>1, <1>5, FailureLocals DEF Inside, Failure
  <2>2. QED BY <1>2, <1>3, <1>4, <2>1, DrillStep
<1>6. CASE NoEngineChange /\ run[replay].at # "engine"
  <2>1. Outside(replay) /\ pc'[replay] \notin Carrying
    BY <1>1, <1>6, CarryingLabels DEF Outside, NoEngineChange
  <2>2. QED BY <1>2, <1>3, <1>4, <2>1, DrillStep
<1>7. QED BY <1>5, <1>6 DEF RuntimeKill
-----------------------------------------------------------------------------
(* Between the calls: the drill's gates, and the results it takes *)

(* The drill goes to its next stage when it has what this one is for, or    *)
(* stays, or gives up; nothing changes in the runtime.                      *)
LEMMA QuietKeeps ==
    ASSUME ReplayInv, Inv', RunInv',
           UNCHANGED <<pointerFiles, journals, pc, job, run, binding>>,
           run[replay].at = "idle", outcome' = "none",
           result' = "PASS" => stage' = 15,
           \/ stage' = stage
           \/ /\ stage' = stage + 1 /\ stage < 15
              /\ stage \in {1, 3, 6, 11} => Succeeded
              /\ stage = 9 => Awaited
    PROVE  ReplayInv'
<1>1. /\ FilesFor /\ CallsFor /\ OthersApart /\ OnStage /\ Evidence /\ Inv
      /\ stage \in 1 .. 15 /\ EndsAs(run[replay], pc[replay])
  BY TheDrill DEF ReplayInv, OnStage
<1>2. /\ pc' = pc /\ job' = job /\ run' = run /\ binding' = binding /\ active' = active
      /\ history' = history /\ Accepted' = Accepted
  BY DEF journals, pointerFiles, Accepted, Snapshots
<1>3. FilesFor' /\ CallsFor'
  BY <1>1, <1>2, ContentRests
<1>4. OthersApart'
  BY <1>1, <1>2 DEF OthersApart, LaunchedAt, Promoting, Foreign
<1>5. stage' \in 1 .. 15
  BY <1>1
<1>6. OnStage'
  BY <1>1, <1>2, <1>5, ThePlan DEF OnStage, EndsAs
<1>7. ~Succeeded' /\ run[replay].ending = "raised"
  BY <1>1 DEF Succeeded, EndsAs
<1>8. (BoundNow' <=> BoundNow) /\ (Crashed' <=> Crashed)
  BY <1>2 DEF BoundNow, Crashed, CrashOpen
<1>9. stage' > 1 => BoundNow
  BY <1>1 DEF Evidence
<1>10. ASSUME NEW i \in 1 .. stage', Plan[i] \in {"v1", "v2", "rollback"}, i < stage'
       PROVE  history[replayTx[Plan[i]]] = "COMMITTED"
  <2>1. i \in 1 .. stage /\ (i < stage \/ (i = stage /\ stage' # stage))
    BY <1>1, <1>10
  <2>2. i = stage => stage \in {1, 3, 6}
    BY <1>1, <1>10, <2>1, ThePlan
  <2>3. i < stage \/ Succeeded
    BY <2>1, <2>2
  <2>4. QED BY <1>1, <1>10, <2>1, <2>3 DEF Evidence
<1>11. Awaited' => Crashed
  <2>1. Awaited' => stage' > 9
    BY <1>2, <1>7 DEF Awaited
  <2>2. stage' > 9 => Awaited
    BY <1>1 DEF Awaited
  <2>3. QED BY <1>1, <2>1, <2>2 DEF Evidence
<1>12. stage' > 11 => history[CrashTx] = "RECOVERED"
  BY <1>1 DEF Evidence
<1>13. Evidence'
  BY <1>2, <1>7, <1>8, <1>9, <1>10, <1>11, <1>12 DEF Evidence, CrashTx
<1>14. QED BY <1>3, <1>4, <1>6, <1>13 DEF ReplayInv

(* Nothing at all changes in the runtime, but for the count of failures.    *)
LEMMA RunRests ==
    ASSUME RunInv, pc' = pc, UNCHANGED runtimeVars PROVE RunInv'
BY DEF runtimeVars, RunInv, RuntimeTypeOK, RunOK, Holds, Bound, BuiltFor

LEMMA GatesKeep ==
    ASSUME Hypotheses, ReplayInv,
           \/ CheckRuntime \/ CheckPointers \/ InspectRuntime \/ CheckFailClosed
           \/ TakeResult
    PROVE  ReplayInv'
<1>1. Inv /\ RunInv /\ TypeInv /\ OnStage /\ stage \in 1 .. 15
  BY TheDrill
<1>2. /\ UNCHANGED allVars /\ run[replay].at = "idle" /\ outcome' = "none"
      /\ Passes \/ Fails
  BY DEF CheckRuntime, CheckPointers, InspectRuntime, CheckFailClosed, TakeResult, Gate,
     Resting, Passes, Fails
<1>3. Inv' /\ RunInv'
  BY <1>1, <1>2, StepKinds, NextInv, RestsInv, NextRun
<1>4. UNCHANGED <<pointerFiles, journals, pc, job, run, binding>>
  BY <1>2 DEF allVars, vars, runtimeVars
<1>5. CASE Fails
  BY <1>2, <1>3, <1>4, <1>5, QuietKeeps DEF Fails
<1>6. CASE Passes
  <2>1. result = "running"
    BY DEF CheckRuntime, CheckPointers, InspectRuntime, CheckFailClosed, TakeResult, Doing
  <2>2. /\ result' = "PASS" => stage' = 15
        /\ stage' = stage \/ (stage' = stage + 1 /\ stage < 15)
    BY <1>1, <1>6, <2>1, ThePlan DEF Passes
  <2>3. CASE \/ CheckRuntime \/ CheckPointers \/ InspectRuntime \/ CheckFailClosed
    <3>1. Plan[stage] \in {"validate", "pointers", "inspect", "fail_closed"}
      BY <2>3 DEF CheckRuntime, CheckPointers, InspectRuntime, CheckFailClosed, Doing
    <3>2. stage \notin {1, 3, 6, 9, 11}
      BY <1>1, <3>1, ThePlan
    <3>3. QED BY <1>2, <1>3, <1>4, <2>2, <3>2, QuietKeeps
  <2>4. CASE TakeResult /\ outcome = Wanted
    <3>1. stage \in {1, 3, 6, 11} => outcome = "returned"
      BY <1>1, <2>4, ThePlan DEF Wanted
    <3>2. stage = 9 => outcome = "crashed"
      BY <1>1, <2>4, ThePlan DEF Wanted
    <3>3. QED BY <1>2, <1>3, <1>4, <2>2, <3>1, <3>2, QuietKeeps DEF Succeeded, Awaited
  <2>5. CASE TakeResult /\ outcome # Wanted
    BY <1>2, <1>3, <1>4, <2>2, <2>5, QuietKeeps DEF TakeResult, Fails
  <2>6. QED BY <2>3, <2>4, <2>5
<1>7. QED BY <1>2, <1>5, <1>6
-----------------------------------------------------------------------------
(* The crash *)

(* The core is called without the adapter, over the release accepted last. *)
LEMMA CallCrashKeeps ==
    ASSUME Hypotheses, ReplayInv, CallCrash PROVE ReplayInv'
<1>1. /\ Inv /\ RunInv /\ TypeInv /\ FilesFor /\ CallsFor /\ OthersApart
      /\ OnStage /\ Evidence /\ stage \in 1 .. 15 /\ replay \in Proc
      /\ run \in [Proc -> Run]
  BY TheDrill DEF ReplayInv, RunInv, RuntimeTypeOK
<1>2. /\ Call(replay) /\ run[replay].at = "idle" /\ binding' = binding
      /\ rootLock' = rootLock
      /\ run' = [run EXCEPT ![replay] = [NoRun EXCEPT !.at = "engine"]]
      /\ outcome' = "pending" /\ stage' = stage /\ result' = "running"
  BY DEF CallCrash, Resting, Calls, Call, Doing
<1>3. stage = 9 /\ Plan[stage] = "crash"
  BY <1>1, ThePlan DEF CallCrash, Doing
<1>4. pc[replay] = "idle"
  BY <1>1, <1>2, ThisRun
<1>5. /\ \A q \in Proc \ {replay} : pc'[q] = pc[q] /\ job'[q] = job[q]
      /\ pc'[replay] \notin Carrying
  BY <1>1, <1>2, OthersStay, CallLocals
<1>6. Inv'
  BY <1>1, <1>2, NextInv DEF Next
<1>7. RunInv'
  <2> DEFINE r == [NoRun EXCEPT !.at = "engine"]
  <2>1. r \in Run /\ r.at = "engine" /\ r.op = "NONE"
    BY NoRunOK DEF NoRun, Run, Place
  <2>2. RunOK(r) /\ ~Holds(r) /\ ~Bound(r)
    BY <2>1 DEF RunOK, Holds, Bound, Locked
  <2>3. rootLock \in Proc \cup {Free, Stale} /\ binding \in Project \cup {None}
    BY <1>1, ThisRun
  <2>4. QED BY <1>1, <1>2, <1>5, <2>1, <2>2, <2>3, RunMoves
<1>8. FilesFor' /\ CallsFor'
  BY <1>1, <1>2, <1>5, FilesForStep, CallsForStep
<1>9. /\ run'[replay].at = "engine" /\ run'[replay].op = "NONE"
      /\ run'[replay].ending = "raised"
      /\ \A q \in Proc \ {replay} : run'[q] = run[q]
  BY <1>1, <1>2, NoRunFits DEF NoRun
<1>10. OthersApart'
  BY <1>1, <1>5, <1>9 DEF OthersApart, LaunchedAt, Promoting, Foreign
<1>11. job'[replay].op = "PROMOTE"
  BY <1>1 DEF CallCrash, Calls, StartPromote, Start, NoJob, TypeInv, CallsTyped
<1>12. CalledAt(run[replay], job[replay], stage)'
  BY <1>2, <1>4, <1>9, <1>11 DEF CallCrash, AsPlanned, CalledAt
<1>13. OnStage'
  <2>1. PlannedAt(run'[replay], stage) /\ EndsAs(run[replay], pc[replay])'
    BY <1>3, <1>9 DEF PlannedAt, EndsAs
  <2>2. QED BY <1>1, <1>2, <1>9, <1>12, <2>1 DEF OnStage
<1>14. Lasting
  BY <1>1, <1>2, AcceptedStays, RecordStays DEF Lasting
<1>15. ~Succeeded' /\ ~Awaited'
  BY <1>2, <1>3, <1>9 DEF Succeeded, Awaited
<1>16. Evidence'
  BY <1>1, <1>2, <1>14, <1>15, EvidenceGrows
<1>17. QED BY <1>6, <1>7, <1>8, <1>10, <1>13, <1>16 DEF ReplayInv

(* After current.json the call is left, with its journal open.              *)
LEMMA ControlledCrashKeeps ==
    ASSUME ReplayInv, ControlledCrash PROVE ReplayInv'
<1>1. /\ Inv /\ RunInv /\ TypeInv /\ LockInv /\ FilesFor /\ CallsFor /\ OthersApart
      /\ OnStage /\ Evidence /\ stage \in 1 .. 15 /\ replay \in Proc
      /\ run \in [Proc -> Run] /\ run[replay] \in Run
  BY TheDrill DEF ReplayInv, RunInv, RuntimeTypeOK, Inv
<1>2. /\ pc[replay] = "last_success" /\ Plan[stage] = "crash" /\ result = "running"
      /\ Goto(replay, "unlock") /\ Returns(replay, "interrupted")
      /\ UNCHANGED <<lock, pointerFiles, journals, trees, job, faults, rootLock, binding>>
      /\ stage' = stage /\ outcome' = outcome /\ result' = result
  BY DEF ControlledCrash, AtCrash, Doing, replayVars
<1>3. /\ pc[replay] \in Working /\ pc[replay] \in Body /\ pc[replay] \in Critical
      /\ pc[replay] # "idle"
  BY <1>2 DEF Working, Staging, Pointing, Body, Critical
<1>4. pc'[replay] = "unlock" /\ \A q \in Proc \ {replay} : pc'[q] = pc[q]
  BY <1>1, <1>2, OnlyMover
<1>5. /\ job' = job /\ history' = history /\ active' = active /\ binding' = binding
      /\ rootLock' = rootLock /\ current' = current /\ Accepted' = Accepted
  BY <1>2 DEF journals, pointerFiles, Accepted, Snapshots
<1>6. /\ run[replay].at = "engine" /\ CalledAt(run[replay], job[replay], stage)
      /\ PlannedAt(run[replay], stage)
      /\ outcome \in {"pending", "conflict", "needless"}
  BY <1>1, <1>3, TheDrill DEF OnStage
<1>7. run[replay].op = "NONE"
  BY <1>1, <1>2, <1>6 DEF PlannedAt, Run
<1> DEFINE r == [run[replay] EXCEPT !.at = "engine", !.ending = "interrupted"]
<1>8. run' = [run EXCEPT ![replay] = r]
  BY <1>2, <1>4 DEF Returns
<1>9. /\ r \in Run /\ r.at = "engine" /\ r.op = "NONE" /\ r.ending = "interrupted"
      /\ run'[replay] = r /\ \A q \in Proc \ {replay} : run'[q] = run[q]
  BY <1>1, <1>7, <1>8 DEF Run, Place, Ending
<1>10. Inv'
  <2>1. UNCHANGED <<job, Files>>
    BY <1>2 DEF Files
  <2>2. EngineInv'
    BY <1>1, <1>2, <1>3, <2>1, LeavesInv
  <2>3. CallsTyped'
    BY <1>1, <1>2, <1>3, GoTyped DEF Go
  <2>4. FilesTyped'
    BY <1>1, <1>2 DEF TypeInv, FilesTyped, pointerFiles, journals, trees
  <2>5. StaysInside(replay)
    BY <1>2, <1>3, CriticalLabels DEF StaysInside
  <2>6. SingleWriter' /\ OneForces'
    BY <1>1, <2>5, InsideKeepsLock
  <2>7. QED BY <2>2, <2>3, <2>4, <2>6 DEF Inv, LockInv, TypeInv
<1>11. RunInv'
  <2>1. RunOK(r) /\ ~Holds(r) /\ ~Bound(r)
    BY <1>9 DEF RunOK, Holds, Bound, Locked
  <2>2. rootLock \in Proc \cup {Free, Stale} /\ binding \in Project \cup {None}
    BY <1>1, ThisRun
  <2>3. QED BY <1>1, <1>4, <1>5, <1>8, <1>9, <2>1, <2>2, RunMoves
<1>12. FilesFor'
  BY <1>1, <1>5 DEF FilesFor, AllFor, BuiltFor
<1>13. CallsFor'
  BY <1>1, <1>4, <1>5, CarryingLabels DEF CallsFor, BuiltFor
<1>14. OthersApart'
  BY <1>1, <1>5, <1>9 DEF OthersApart, LaunchedAt, Promoting, Foreign
<1>15. OnStage'
  <2>1. PlannedAt(r, stage) /\ EndsAs(run[replay], pc[replay])'
    BY <1>2, <1>4, <1>9 DEF PlannedAt, EndsAs
  <2>2. CalledAt(run[replay], job[replay], stage)'
    BY <1>2, <1>5, <1>6, <1>7, <1>9 DEF CalledAt
  <2>3. QED BY <1>1, <1>2, <1>6, <1>9, <2>1, <2>2 DEF OnStage
<1>16. CrashOpen
  <2>1. /\ job[replay].mode = "apply" /\ active # None
        /\ active.status \notin FinalStatus /\ job[replay].tx = active.tx
    BY <1>1, <1>3, AtWork
  <2>2. job[replay].tx = CrashTx
    BY <1>2, <1>6, <1>7 DEF CalledAt, CrashTx
  <2>3. QED BY <2>1, <2>2 DEF CrashOpen, FinalStatus
<1>17. Lasting /\ Crashed' /\ ~Succeeded'
  BY <1>2, <1>5, <1>6, <1>9, <1>16 DEF Lasting, Crashed, CrashOpen, Succeeded
<1>18. Evidence'
  BY <1>1, <1>2, <1>17, EvidenceGrows
<1>19. QED BY <1>10, <1>11, <1>12, <1>13, <1>14, <1>15, <1>18 DEF ReplayInv
-----------------------------------------------------------------------------
(* Whatever else happens *)

LEMMA OthersKeep ==
    ASSUME Hypotheses, ReplayInv, Others PROVE ReplayInv'
<1>1. /\ Inv /\ RunInv /\ TypeInv /\ FilesFor /\ CallsFor /\ OthersApart
      /\ OnStage /\ Evidence /\ replay \in Proc
  BY TheDrill DEF ReplayInv
<1>2. PICK q \in Proc \ {replay} :
         /\ \/ StartPromotePrivate(q) \/ StartRollbackPrivate(q)
            \/ StartRecoverPrivate(q)
            \/ Adapter(q) \/ EngineStep(q) \/ EngineFailure(q)
            \/ RuntimeException(q) \/ RuntimeInterrupt(q) \/ RuntimeKill(q)
         /\ Foreign(job'[q].tx)
         /\ stage' = stage /\ outcome' = outcome /\ result' = result
  BY DEF Others, Foreign
<1>3. Outside(q) \/ Inside(q)
  BY <1>2, RuntimeSteps
<1>4. LaunchedAt(q) /\ Foreign(job[q].tx)
  BY <1>1 DEF OthersApart
<1>5. Inv' /\ RunInv'
  BY <1>1, <1>3, RuntimeKept
<1>6. \A x \in Proc \ {q} : run'[x] = run[x] /\ job'[x] = job[x] /\ pc'[x] = pc[x]
  BY <1>1, <1>3, OwnMove
<1>7. FilesFor' /\ CallsFor'
  <2>1. CASE Outside(q)
    <3>1. Accepted.current = None => Launched
      BY <1>1, LaunchedOrBound DEF BoundNow, OthersApart, Launched
    <3>2. QED BY <1>1, <2>1, <3>1, OutsideFiles
  <2>2. CASE Inside(q)
    BY <1>1, <1>4, <2>2, InsideFiles
  <2>3. QED BY <1>3, <2>1, <2>2
<1>8. OthersApart'
  <2>1. LaunchedAt(q)' /\ Foreign(job'[q].tx)
    BY <1>1, <1>2, <1>3, <1>4, LaunchedStays
  <2>2. QED BY <1>1, <1>6, <2>1 DEF OthersApart, LaunchedAt, Promoting, Foreign
<1>9. run'[replay] = run[replay] /\ job'[replay] = job[replay] /\ pc'[replay] = pc[replay]
  BY <1>1, <1>6
<1>10. OnStage'
  BY <1>1, <1>2, <1>9 DEF OnStage, EndsAs, PlannedAt, CalledAt
<1>11. Crashed => Crashed'
  <2>1. CASE Outside(q)
    BY <1>1, <2>1, OutsideRests DEF Crashed, CrashOpen
  <2>2. CASE Inside(q)
    <3>1. job[q].tx # CrashTx
      BY <1>4, TheIdentifiers
    <3>2. QED BY <1>1, <2>2, <3>1, InsideSteps, CrashStays
  <2>3. QED BY <1>3, <2>1, <2>2
<1>12. (Succeeded' <=> Succeeded) /\ (Awaited' <=> Awaited)
  BY <1>2, <1>9 DEF Succeeded, Awaited
<1>13. Lasting
  BY <1>1, <1>3, StepsLast
<1>14. Evidence'
  <2>1. Awaited' => Crashed'
    BY <1>1, <1>11, <1>12 DEF Evidence
  <2>2. QED BY <1>1, <1>2, <1>12, <1>13, <2>1, EvidenceGrows
<1>15. QED BY <1>5, <1>7, <1>8, <1>10, <1>14 DEF ReplayInv

(* The drill fails, or is killed, between two calls.                        *)
LEMMA IdleFailureKeeps ==
    ASSUME ReplayInv, NEW kind, Fail(kind), NoEngineChange, UNCHANGED runtimeVars,
           run[replay].at = "idle", outcome' = "none", result' # "PASS", stage' = stage
    PROVE  ReplayInv'
<1>1. Inv /\ RunInv /\ TypeInv
  BY TheDrill
<1>2. EngineRests
  BY <1>1, Counted DEF EngineRests
<1>3. Inv' /\ RunInv'
  BY <1>1, <1>2, RestsInv, RunRests DEF NoEngineChange
<1>4. UNCHANGED <<pointerFiles, journals, pc, job, run, binding>>
  BY DEF NoEngineChange, runtimeVars
<1>5. QED BY <1>3, <1>4, QuietKeeps

LEMMA FailuresKeep ==
    ASSUME Hypotheses, ReplayInv, ReplayException \/ ReplayKilled PROVE ReplayInv'
<1>1. CASE ReplayException /\ run[replay].at # "idle"
  BY <1>1, ReplayExceptionKeeps
<1>2. CASE ReplayException /\ run[replay].at = "idle"
  <2>1. ~RuntimeException(replay)
    BY <1>2, TheDrill, NotBegun
  <2>2. /\ Fail("exception") /\ NoEngineChange /\ UNCHANGED runtimeVars /\ Fails
    BY <1>2, <2>1 DEF ReplayException
  <2>3. QED BY <1>2, <2>2, IdleFailureKeeps DEF Fails
<1>3. CASE ReplayKilled /\ RuntimeKill(replay)
  BY <1>3, ReplayKilledKeeps
<1>4. CASE ReplayKilled /\ ~RuntimeKill(replay)
  <2>1. /\ Fail("kill") /\ NoEngineChange /\ UNCHANGED runtimeVars
        /\ run[replay].at = "idle" /\ outcome' = "none" /\ result' = "gone"
        /\ stage' = stage
    BY <1>4 DEF ReplayKilled
  <2>2. QED BY <2>1, IdleFailureKeeps
<1>5. QED BY <1>1, <1>2, <1>3, <1>4

LEMMA StutterKeeps ==
    ASSUME Hypotheses, ReplayInv, UNCHANGED everything PROVE ReplayInv'
<1>1. /\ Inv /\ RunInv /\ TypeInv /\ FilesFor /\ CallsFor /\ OthersApart
      /\ OnStage /\ Evidence
  BY TheDrill DEF ReplayInv
<1>2. /\ UNCHANGED allVars /\ UNCHANGED <<pointerFiles, journals, pc, job, run, binding>>
      /\ stage' = stage /\ outcome' = outcome /\ result' = result
  BY DEF everything, allVars, vars, runtimeVars, replayVars
<1>3. Inv' /\ RunInv'
  BY <1>1, <1>2, StepKinds, NextInv, RestsInv, NextRun
<1>4. /\ pc' = pc /\ job' = job /\ run' = run /\ binding' = binding /\ active' = active
      /\ history' = history /\ Accepted' = Accepted
  BY <1>2 DEF journals, pointerFiles, Accepted, Snapshots
<1>5. FilesFor' /\ CallsFor'
  BY <1>1, <1>2, <1>4, ContentRests
<1>6. OthersApart' /\ OnStage'
  BY <1>1, <1>2, <1>4
  DEF OthersApart, LaunchedAt, Promoting, Foreign, OnStage, EndsAs, PlannedAt, CalledAt
<1>7. Evidence'
  BY <1>1, <1>2, <1>4
  DEF Evidence, BoundNow, Crashed, CrashOpen, Awaited, Succeeded
<1>8. QED BY <1>3, <1>5, <1>6, <1>7 DEF ReplayInv

LEMMA InitReplay == ReplayInit => ReplayInv
<1> SUFFICES ASSUME ReplayInit PROVE ReplayInv
  OBVIOUS
<1>1. Inv /\ RunInv /\ FilesFor /\ CallsFor
  BY InitRuntime DEF ReplayInit, RuntimeInv, ContentInv
<1>2. /\ \A p \in Proc : run[p] = NoRun /\ job[p] = NoJob
      /\ stage = 1 /\ outcome = "none" /\ result = "running" /\ replay \in Proc
  BY TheIdentifiers DEF ReplayInit, RuntimeInit, Init
<1>3. OthersApart
  <2>1. Foreign(None)
    BY ReplayAssumption, SentinelAssumption DEF Foreign
  <2>2. QED BY <1>2, <2>1, NoRunFits DEF OthersApart, LaunchedAt, NoJob
<1>4. OnStage
  BY <1>2, NoRunFits, ThePlan DEF OnStage
<1>5. Evidence
  BY <1>2, NoRunFits, ThePlan DEF Evidence, Succeeded, Awaited
<1>6. QED BY <1>1, <1>3, <1>4, <1>5 DEF ReplayInv

LEMMA NextReplay ==
    ASSUME Hypotheses PROVE ReplayInv /\ [ReplayNext]_everything => ReplayInv'
<1>1. ReplayInv /\ Replayer => ReplayInv'
  BY GatesKeep, CallsKeep, CallCrashKeeps, ReplayStepKeeps, ControlledCrashKeeps
  DEF Replayer
<1>2. QED BY <1>1, FailuresKeep, OthersKeep, StutterKeeps DEF ReplayNext

(* The result PASS is evidence, however many other operators use the       *)
(* runtime and whatever fails, but for errors in the tail of               *)
(* finish_journal: the promotions and the rollback of the drill were       *)
(* committed, its crash was recovered, and every release in the runtime is *)
(* its own project's, as long as nobody edits a project while it is built. *)
THEOREM PassIsProof ==
    ASSUME Hypotheses, ~Edited PROVE ReplaySpec => []PassIsEvidence
<1>1. ReplayInv => PassIsEvidence
  <2> SUFFICES ASSUME ReplayInv, result = "PASS" PROVE PassIsEvidence
    BY DEF PassIsEvidence
  <2>1. Evidence /\ FilesFor /\ stage = 15
    BY ThePlan DEF ReplayInv, OnStage
  <2>2. \A i \in 1 .. 14 : Plan[i] \in {"v1", "v2", "rollback"} =>
           history[replayTx[Plan[i]]] = "COMMITTED"
    BY <2>1 DEF Evidence
  <2>3. \A s \in {"v1", "v2", "rollback"} : history[replayTx[s]] = "COMMITTED"
    BY <2>2, ThePlan
  <2>4. history[replayTx["crash"]] = "RECOVERED" /\ binding = own
    BY <2>1 DEF Evidence, BoundNow, CrashTx
  <2>5. OneProject
    BY <2>1 DEF FilesFor, AllFor, BuiltFor, OneProject, Belongs
  <2>6. QED BY <2>3, <2>4, <2>5 DEF PassIsEvidence
<1>2. QED BY <1>1, InitReplay, NextReplay, PTL DEF ReplaySpec
=============================================================================
