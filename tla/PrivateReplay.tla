---------------------------- MODULE PrivateReplay ----------------------------
(***************************************************************************)
(* The acceptance drill of the private adapter: one process plays a fixed  *)
(* sequence of calls in a new runtime - two promotions, a rollback, a      *)
(* crash and its recovery, and a promotion of another project, which must  *)
(* be refused - looks at the files in between, and ends with PASS or FAIL. *)
(* Other operators may use the same runtime meanwhile.                     *)
(***************************************************************************)
EXTENDS PrivateRuntime, Sequences, FiniteSets

CONSTANTS
    replay,          \* the process that runs the drill
    own, foreign,    \* the project of the drill, and that of the contamination
    v1, v2, v3, v4,  \* the releases: two, that of the crash, the contamination's
    replayTx,        \* the transaction id of each call
    MaxCalls         \* BOUND: calls of other processes

(* The first gates of the drill: ids are equal and distinct as they must   *)
(* be, and the runtime does not exist (the initial state).                 *)
ASSUME ReplayAssumption ==
    /\ replay \in Proc /\ own # foreign /\ {own, foreign} \subseteq Project
    /\ Cardinality({v1, v2, v3}) = 3 /\ {v1, v2, v3, v4} \subseteq Release
    /\ replayTx \in [{"v1", "v2", "rollback", "crash", "contamination"} -> Tx]
    /\ MaxCalls \in Nat

VARIABLES
    stage,      \* how far the drill is
    outcome,    \* of its last call: none, pending, or how it ended
    result,     \* of the drill; "gone" when it was killed and wrote none
    calls       \* calls of other processes so far

replayVars == <<stage, outcome, result, calls>>
everything == <<allVars, replayVars>>

Plan == <<"v1", "validate", "v2", "validate", "pointers",
          "rollback", "validate", "inspect",
          "crash", "fail_closed", "recover", "validate",
          "contamination", "validate", "inspect">>

Arguments ==
    [v1            |-> [project |-> own, target |-> v1, expected |-> None],
     v2            |-> [project |-> own, target |-> v2, expected |-> v1],
     rollback      |-> [project |-> own, target |-> v1, expected |-> v2],
     crash         |-> [project |-> own, target |-> v3, expected |-> v1],
     contamination |-> [project |-> foreign, target |-> v4, expected |-> v1]]

ReplayInit ==
    RuntimeInit /\ stage = 1 /\ outcome = "none" /\ result = "running" /\ calls = 0

Doing(S) == result = "running" /\ Plan[stage] \in S
Resting == outcome = "none" /\ run[replay].at = "idle"
-----------------------------------------------------------------------------
(* A gate that is passed leads to the next, or to the result.              *)
Passes ==
    /\ outcome' = "none" /\ UNCHANGED calls
    /\ IF stage = Len(Plan) THEN result' = "PASS" /\ UNCHANGED stage
       ELSE stage' = stage + 1 /\ UNCHANGED result

(* Any Exception ends the drill: main writes the result FAIL.              *)
Fails == outcome' = "none" /\ result' = "FAIL" /\ UNCHANGED <<stage, calls>>

(* What is read while somebody writes may also be found wrong.             *)
Gate(holds) ==
    /\ Resting
    /\ \/ holds /\ Passes
       \/ (~holds \/ ~Alone(replay)) /\ Fails
    /\ UNCHANGED allVars

CheckRuntime == Doing({"validate"}) /\ Gate(RuntimeValid)

CheckPointers ==
    Doing({"pointers"})
    /\ Gate(/\ current # None /\ current.release = v2
            /\ lastSuccess # None /\ lastSuccess.release = v2
            /\ \E e \in archive : e.release = v1)

InspectRuntime ==
    Doing({"inspect"}) /\ Gate(RuntimeValid /\ CurrentRelease = v1)

(* RECOVERY_REQUIRED must be among the issues, whatever the others are.    *)
CheckFailClosed ==
    Doing({"fail_closed"}) /\ Gate(binding # None /\ active # None)
-----------------------------------------------------------------------------
(* The calls, and how they end *)

Calls(call) == call /\ outcome' = "pending" /\ UNCHANGED <<stage, result, calls>>

AsPlanned ==
    pc[replay] = "idle" /\ job'[replay].op \in {"PROMOTE", "ROLLBACK"} =>
        LET a == Arguments[Plan[stage]]
        IN /\ job'[replay].target = a.target /\ job'[replay].expected = a.expected
           /\ job'[replay].tx = replayTx[Plan[stage]]

CallPromote ==
    /\ Doing({"v1", "v2", "contamination"}) /\ Resting
    /\ Calls(StartPromotePrivate(replay))
    /\ run'[replay].project = Arguments[Plan[stage]].project

CallRollback ==
    /\ Doing({"rollback"}) /\ Resting
    /\ Calls(StartRollbackPrivate(replay)) /\ run'[replay].target = v1

CallRecover ==
    /\ Doing({"recover"}) /\ Resting
    /\ Calls(StartRecoverPrivate(replay)) /\ ~run'[replay].forced

(* promote_release itself is called on the core, without the adapter.      *)
CallCrash ==
    /\ Doing({"crash"}) /\ Resting
    /\ Calls(StartPromote(replay)) /\ AsPlanned
    /\ run' = [run EXCEPT ![replay] = [NoRun EXCEPT !.at = "engine"]]
    /\ UNCHANGED <<rootLock, binding>>

(* Only one kind of failure is waited for by the caller.                   *)
Wanted == CASE Plan[stage] = "crash" -> "crashed"
            [] Plan[stage] = "contamination" -> "conflict"
            [] OTHER -> "returned"

TakeResult_mutant ==             \* mutant: every PrivateRuntimeError is caught
    /\ result = "running" /\ run[replay].at = "idle"
    /\ outcome \notin {"none", "pending"}
    /\ IF outcome \in {Wanted, "raised"} THEN Passes ELSE Fails
    /\ UNCHANGED allVars
TakeResult ==
    /\ result = "running" /\ run[replay].at = "idle"
    /\ outcome \notin {"none", "pending"}
    /\ IF outcome = Wanted THEN Passes ELSE Fails
    /\ UNCHANGED allVars

(* How a call ends, as far as the drill tells: by the refused binding, by  *)
(* a recovery that had nothing to undo (recovered is False, also when only *)
(* a decided journal was filed), or, when it is over, by whether it was    *)
(* the crash and whether the runtime was then found valid.                 *)
Refused == run[replay].at = "bind" /\ run'[replay].at = "root_unlock"
Needless ==
    /\ run[replay].op = "RECOVER" /\ pc[replay] = "check"
    /\ active = None \/ active.status \in FinalStatus
Over == run'[replay].at = "idle"

Ends ==
    CASE run[replay].at = "validate" ->
           {x \in {"returned", "raised"} :
              IF x = "returned" THEN RuntimeValid ELSE ~RuntimeValid \/ ~Alone(replay)}
      [] run[replay].ending = "interrupted" -> {"crashed"}
      [] OTHER -> {"raised"}

Observe ==
    /\ outcome' \in CASE Refused -> {"conflict"}
                      [] Needless -> {"needless"}
                      [] Over /\ outcome = "pending" -> Ends
                      [] OTHER -> {outcome}
    /\ UNCHANGED <<stage, result, calls>>

Fault ==
    /\ outcome' = IF Over THEN "raised" ELSE outcome
    /\ UNCHANGED <<stage, result, calls>>
-----------------------------------------------------------------------------
(* The projects of the drill are ones that the manifest rules accept too,  *)
(* and nobody edits them: no candidate is refused for what is in it.       *)
Undamaged ==
    /\ pc[replay] = "check" /\ job[replay].op = "PROMOTE" /\ MayPromote(replay) =>
          /\ pc'[replay] = "begin"
          /\ LET c == job'[replay].digest
             IN {receiptOf[c], controlOf[c]} = {Arguments[Plan[stage]].project}
    /\ pc[replay] = "copying" => pc'[replay] = "stage_manifest"

AtCrash == Doing({"crash"}) /\ pc[replay] = "last_success"   \* crash-after-current

ReplayStep ==
    /\ Adapter(replay) \/ EngineStep(replay)
    /\ ~AtCrash /\ ~EngineRefuses(replay)
    /\ AsPlanned /\ Undamaged /\ Observe

(* SimulatedCrash passes the handler and the with statement unlocks.       *)
ControlledCrash ==
    /\ AtCrash
    /\ Goto(replay, "unlock") /\ Returns(replay, "interrupted")
    /\ UNCHANGED <<lock, pointerFiles, journals, trees, job, faults, rootLock, binding>>
    /\ UNCHANGED replayVars

Replayer ==
    \/ CheckRuntime \/ CheckPointers \/ InspectRuntime \/ CheckFailClosed
    \/ CallPromote \/ CallRollback \/ CallRecover \/ CallCrash
    \/ ReplayStep \/ ControlledCrash \/ TakeResult
-----------------------------------------------------------------------------
(* What may go wrong meanwhile *)

ReplayException ==
    /\ result = "running"
    /\ \/ /\ run[replay].at = "engine" /\ ~AtCrash
          /\ RaiseException(replay) \/ RaiseInTail(replay)
          /\ Returns(replay, "raised") /\ UNCHANGED <<rootLock, binding>>
          /\ Fault
       \/ RuntimeException(replay) /\ Fault
       \/ Resting /\ Fail("exception") /\ NoEngineChange /\ UNCHANGED runtimeVars
          /\ Fails

ReplayKilled ==
    /\ result = "running"
    /\ \/ RuntimeKill(replay)
       \/ /\ run[replay].at = "idle" /\ Fail("kill")
          /\ NoEngineChange /\ UNCHANGED runtimeVars
    /\ result' = "gone" /\ outcome' = "none" /\ UNCHANGED <<stage, calls>>

(* Other operators, whose transactions have identifiers of their own.      *)
Others ==
    \E q \in Proc \ {replay} :
        /\ \/ /\ calls < MaxCalls /\ calls' = calls + 1
              /\ StartPromotePrivate(q) \/ StartRollbackPrivate(q)
                 \/ StartRecoverPrivate(q)
           \/ /\ Adapter(q) \/ EngineStep(q) \/ EngineFailure(q)
                 \/ RuntimeException(q) \/ RuntimeInterrupt(q) \/ RuntimeKill(q)
              /\ UNCHANGED calls
        /\ job'[q].tx \notin {replayTx[s] : s \in DOMAIN replayTx}
        /\ UNCHANGED <<stage, outcome, result>>

ReplayNext == Replayer \/ ReplayException \/ ReplayKilled \/ Others

(* The script goes on.                                                     *)
ReplaySpec ==
    ReplayInit /\ [][ReplayNext]_everything /\ WF_everything(Replayer)
-----------------------------------------------------------------------------
(* "PASS" in the result file is evidence, whoever else used the runtime    *)
(* and whatever failed: the promotions and the rollback of the drill were  *)
(* committed, its crash was recovered, and the runtime still belongs to    *)
(* its project, with no release of the contaminating one.                  *)
PassIsEvidence ==
    result = "PASS" =>
        /\ \A s \in {"v1", "v2", "rollback"} : history[replayTx[s]] = "COMMITTED"
        /\ history[replayTx["crash"]] = "RECOVERED"
        /\ binding = own /\ OneProject

(* Left alone, the long sequence of calls ends with PASS: every call finds *)
(* the workspace as it needs it, and the crash leaves nothing that the     *)
(* calls after its recovery could stumble over.                            *)
UndisturbedPasses ==
    <>(faults > 0 \/ calls > 0) \/ <>(result = "PASS")
=============================================================================
