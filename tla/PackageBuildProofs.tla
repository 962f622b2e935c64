------------------------- MODULE PackageBuildProofs -------------------------
(* What the run package_files checks of two processes and one failure, for  *)
(* every number of processes and of failures.                               *)
EXTENDS PackageBuild, TLAPS

(* What a call needs to know at each label.                                 *)
LocalOK(label, j, tmp) ==
    /\ label \in {"check", "write", "writing"} => j.package \in Package
    /\ label = "replace" => tmp \in Package
    /\ label \in {"destination", "removing", "extract", "install"} => j.root \in Id
    /\ label = "install" => j.package \in Package

TypeInv == TypeOK /\ \A p \in Proc : LocalOK(pc[p], job[p], temporary[p])

LEMMA IdleOK == \A tmp : LocalOK("idle", NoJob, tmp)
BY DEF LocalOK

(* A step of one call that leaves its own label and locals right.           *)
LEMMA CallMoves ==
    ASSUME TypeInv, NEW p \in Proc, NEW to \in Place, NEW j \in Job,
           NEW tmp \in Package \cup {None, Part},
           pc' = [pc EXCEPT ![p] = to], job' = [job EXCEPT ![p] = j],
           temporary' = [temporary EXCEPT ![p] = tmp],
           LocalOK(to, j, tmp),
           output' \in Package \cup {None},
           target' \in [Id -> Package \cup {None, Part}],
           faults' \in 0 .. MaxFaults
    PROVE  TypeInv'
<1>1. TypeOK'
  BY DEF TypeInv, TypeOK
<1>2. ASSUME NEW q \in Proc PROVE LocalOK(pc[q], job[q], temporary[q])'
  <2>1. CASE q = p
    <3>1. pc'[q] = to /\ job'[q] = j /\ temporary'[q] = tmp
      BY <2>1 DEF TypeInv, TypeOK
    <3>2. QED BY <3>1 DEF LocalOK
  <2>2. CASE q # p
    <3>1. pc'[q] = pc[q] /\ job'[q] = job[q] /\ temporary'[q] = temporary[q]
      BY <2>2 DEF TypeInv, TypeOK
    <3>2. QED BY <3>1 DEF TypeInv, LocalOK
  <2>3. QED BY <2>1, <2>2
<1>3. QED BY <1>1, <1>2 DEF TypeInv

LEMMA Kept ==
    ASSUME TypeInv, NEW p \in Proc
    PROVE  /\ job[p] \in Job /\ job = [job EXCEPT ![p] = job[p]]
           /\ temporary[p] \in Package \cup {None, Part}
           /\ temporary = [temporary EXCEPT ![p] = temporary[p]]
           /\ output \in Package \cup {None}
           /\ target \in [Id -> Package \cup {None, Part}]
           /\ faults \in 0 .. MaxFaults
           /\ LocalOK(pc[p], job[p], temporary[p])
           /\ NoJob \in Job
BY DEF TypeInv, TypeOK, Job, NoJob

(* A step that moves one call and writes neither its temporary nor locals.  *)
LEMMA CallGoesOn ==
    ASSUME TypeInv, NEW p \in Proc, NEW to \in Place,
           Go(p, pc[p], to), UNCHANGED <<job, temporary>>,
           LocalOK(to, job[p], temporary[p]),
           output' \in Package \cup {None},
           target' \in [Id -> Package \cup {None, Part}],
           faults' \in 0 .. MaxFaults
    PROVE  TypeInv'
<1>1. /\ job[p] \in Job /\ job' = [job EXCEPT ![p] = job[p]]
      /\ temporary[p] \in Package \cup {None, Part}
      /\ temporary' = [temporary EXCEPT ![p] = temporary[p]]
  BY Kept
<1>2. QED BY <1>1, CallMoves DEF Go

LEMMA CallEnds ==
    ASSUME TypeInv, NEW p \in Proc, Return(p), UNCHANGED temporary,
           output' \in Package \cup {None},
           target' \in [Id -> Package \cup {None, Part}],
           faults' \in 0 .. MaxFaults
    PROVE  TypeInv'
<1>1. /\ temporary[p] \in Package \cup {None, Part} /\ NoJob \in Job
      /\ temporary' = [temporary EXCEPT ![p] = temporary[p]]
  BY Kept
<1>2. "idle" \in Place BY DEF Place
<1>3. QED BY <1>1, <1>2, IdleOK, CallMoves DEF Return

LEMMA BuildTyped ==
    ASSUME TypeInv, NEW p \in Proc,
           StartBuild(p) \/ CheckOutput(p) \/ WriteZip(p) \/ Replace(p)
           \/ InspectOutput(p) \/ Retract(p)
    PROVE  TypeInv'
<1>0. /\ job[p] \in Job /\ job = [job EXCEPT ![p] = job[p]]
      /\ temporary[p] \in Package \cup {None, Part}
      /\ temporary = [temporary EXCEPT ![p] = temporary[p]]
      /\ output \in Package \cup {None}
      /\ target \in [Id -> Package \cup {None, Part}]
      /\ faults \in 0 .. MaxFaults
      /\ LocalOK(pc[p], job[p], temporary[p])
  BY Kept
<1>1. CASE StartBuild(p)
  <2>1. PICK x \in Package, over \in BOOLEAN :
           /\ Go(p, "idle", "check")
           /\ job' = [job EXCEPT ![p].package = x, ![p].overwrite = over]
    BY <1>1 DEF StartBuild
  <2> DEFINE j == [job[p] EXCEPT !.package = x, !.overwrite = over]
  <2>2. j \in Job /\ job' = [job EXCEPT ![p] = j] /\ LocalOK("check", j, temporary[p])
    BY <1>0, <2>1 DEF Job, LocalOK
  <2> HIDE DEF j
  <2>3. "check" \in Place BY DEF Place
  <2>4. /\ pc' = [pc EXCEPT ![p] = "check"]
        /\ temporary' = [temporary EXCEPT ![p] = temporary[p]]
        /\ UNCHANGED <<output, target, faults>>
    BY <1>0, <1>1, <2>1 DEF StartBuild, Go
  <2>5. QED BY <1>0, <2>2, <2>3, <2>4, CallMoves
<1>2. CASE CheckOutput(p)
  <2>1. CASE MayWrite(p) /\ Go(p, "check", "write") /\ UNCHANGED job
    BY <1>0, <1>2, <2>1, CallGoesOn DEF CheckOutput, Go, Place, LocalOK
  <2>2. CASE Return(p)
    BY <1>0, <1>2, <2>2, CallEnds DEF CheckOutput
  <2>3. QED BY <1>2, <2>1, <2>2 DEF CheckOutput
<1>3. CASE WriteZip(p)
  <2>1. CASE Go(p, "write", "writing") /\ temporary' = [temporary EXCEPT ![p] = Part]
    <3>1. "writing" \in Place /\ LocalOK("writing", job[p], Part)
      BY <1>0, <2>1 DEF Place, LocalOK, Go
    <3>2. job' = [job EXCEPT ![p] = job[p]] /\ UNCHANGED <<output, target, faults>>
      BY <1>0, <1>3 DEF WriteZip
    <3>3. QED BY <1>0, <2>1, <3>1, <3>2, CallMoves DEF Go
  <2>2. CASE /\ Go(p, "writing", "replace")
             /\ temporary' = [temporary EXCEPT ![p] = job[p].package]
    <3>1. /\ "replace" \in Place /\ job[p].package \in Package
          /\ LocalOK("replace", job[p], job[p].package)
      BY <1>0, <2>2 DEF Place, LocalOK, Go
    <3>2. job' = [job EXCEPT ![p] = job[p]] /\ UNCHANGED <<output, target, faults>>
      BY <1>0, <1>3 DEF WriteZip
    <3>3. QED BY <1>0, <2>2, <3>1, <3>2, CallMoves DEF Go
  <2>3. QED BY <1>3, <2>1, <2>2 DEF WriteZip
<1>4. CASE Replace(p)
  <2>1. /\ "inspect" \in Place /\ LocalOK("inspect", job[p], None)
        /\ temporary[p] \in Package
    BY <1>0, <1>4 DEF Place, LocalOK, Replace, Go
  <2>2. job' = [job EXCEPT ![p] = job[p]] /\ UNCHANGED <<target, faults>>
    BY <1>0, <1>4 DEF Replace
  <2>3. QED BY <1>0, <1>4, <2>1, <2>2, CallMoves DEF Replace, Go
<1>5. CASE InspectOutput(p)
  <2>1. CASE Return(p)
    BY <1>0, <1>5, <2>1, CallEnds DEF InspectOutput
  <2>2. CASE Go(p, "inspect", "retract") /\ UNCHANGED job
    BY <1>0, <1>5, <2>2, CallGoesOn DEF InspectOutput, Go, Place, LocalOK
  <2>3. QED BY <1>5, <2>1, <2>2 DEF InspectOutput
<1>6. CASE Retract(p)
  BY <1>0, <1>6, CallEnds DEF Retract
<1>7. QED BY <1>1, <1>2, <1>3, <1>4, <1>5, <1>6

LEMMA ExtractTyped ==
    ASSUME TypeInv, NEW p \in Proc,
           StartExtract(p) \/ InspectPackage(p) \/ CheckDestination(p)
           \/ Remove(p) \/ Extract(p) \/ Install(p) \/ Fail(p)
    PROVE  TypeInv'
<1>0. /\ job[p] \in Job /\ job = [job EXCEPT ![p] = job[p]]
      /\ temporary[p] \in Package \cup {None, Part}
      /\ temporary = [temporary EXCEPT ![p] = temporary[p]]
      /\ output \in Package \cup {None}
      /\ target \in [Id -> Package \cup {None, Part}]
      /\ faults \in 0 .. MaxFaults
      /\ LocalOK(pc[p], job[p], temporary[p])
  BY Kept
<1>1. CASE StartExtract(p)
  <2>1. PICK over \in BOOLEAN : /\ Go(p, "idle", "inspect_package")
                                /\ job' = [job EXCEPT ![p].overwrite = over]
    BY <1>1 DEF StartExtract
  <2> DEFINE j == [job[p] EXCEPT !.overwrite = over]
  <2>2. /\ j \in Job /\ job' = [job EXCEPT ![p] = j]
        /\ LocalOK("inspect_package", j, temporary[p])
    BY <1>0, <2>1 DEF Job, LocalOK
  <2> HIDE DEF j
  <2>3. "inspect_package" \in Place BY DEF Place
  <2>4. /\ pc' = [pc EXCEPT ![p] = "inspect_package"]
        /\ temporary' = [temporary EXCEPT ![p] = temporary[p]]
        /\ UNCHANGED <<output, target, faults>>
    BY <1>0, <1>1, <2>1 DEF StartExtract, Go
  <2>5. QED BY <1>0, <2>2, <2>3, <2>4, CallMoves
<1>2. CASE InspectPackage(p)
  <2>1. CASE Sound(output) /\ Go(p, "inspect_package", "destination")
             /\ job' = [job EXCEPT ![p].root = output.id]
    <3> DEFINE j == [job[p] EXCEPT !.root = output.id]
    <3>1. output \in Package /\ output.id \in Id
      BY <1>0, <2>1 DEF Sound, Package
    <3>2. /\ j \in Job /\ job' = [job EXCEPT ![p] = j]
          /\ LocalOK("destination", j, temporary[p])
      BY <1>0, <2>1, <3>1 DEF Job, LocalOK
    <3> HIDE DEF j
    <3>3. "destination" \in Place BY DEF Place
    <3>4. /\ pc' = [pc EXCEPT ![p] = "destination"]
          /\ temporary' = [temporary EXCEPT ![p] = temporary[p]]
          /\ UNCHANGED <<output, target, faults>>
      BY <1>0, <1>2, <2>1 DEF InspectPackage, Go
    <3>5. QED BY <1>0, <3>2, <3>3, <3>4, CallMoves
  <2>2. CASE Return(p)
    BY <1>0, <1>2, <2>2, CallEnds DEF InspectPackage
  <2>3. QED BY <1>2, <2>1, <2>2 DEF InspectPackage
<1>3. CASE CheckDestination(p)
  <2>1. CASE Return(p) /\ UNCHANGED target
    BY <1>0, <1>3, <2>1, CallEnds DEF CheckDestination
  <2>2. CASE Go(p, "destination", "extract") /\ UNCHANGED <<target, job>>
    BY <1>0, <1>3, <2>2, CallGoesOn DEF CheckDestination, Go, Place, LocalOK
  <2>3. CASE /\ Go(p, "destination", "removing") /\ UNCHANGED job
             /\ target' = [target EXCEPT ![job[p].root] = Part]
    BY <1>0, <1>3, <2>3, CallGoesOn DEF CheckDestination, Go, Place, LocalOK
  <2>4. QED BY <1>3, <2>1, <2>2, <2>3 DEF CheckDestination
<1>4. CASE Remove(p)
  BY <1>0, <1>4, CallGoesOn DEF Remove, Go, Place, LocalOK
<1>5. CASE Extract(p)
  <2>1. CASE SafeArchive(output) /\ Go(p, "extract", "install")
             /\ job' = [job EXCEPT ![p].package = output]
    <3> DEFINE j == [job[p] EXCEPT !.package = output]
    <3>1. /\ j \in Job /\ job' = [job EXCEPT ![p] = j]
          /\ LocalOK("install", j, temporary[p])
      BY <1>0, <2>1 DEF Job, LocalOK, SafeArchive, Go
    <3> HIDE DEF j
    <3>2. "install" \in Place BY DEF Place
    <3>3. /\ pc' = [pc EXCEPT ![p] = "install"]
          /\ temporary' = [temporary EXCEPT ![p] = temporary[p]]
          /\ UNCHANGED <<output, target, faults>>
      BY <1>0, <1>5, <2>1 DEF Extract, Go
    <3>4. QED BY <1>0, <3>1, <3>2, <3>3, CallMoves
  <2>2. CASE Return(p)
    BY <1>0, <1>5, <2>2, CallEnds DEF Extract
  <2>3. QED BY <1>5, <2>1, <2>2 DEF Extract
<1>6. CASE Install(p)
  <2>1. target' \in [Id -> Package \cup {None, Part}]
    BY <1>0, <1>6 DEF Install, LocalOK
  <2>2. QED BY <1>0, <1>6, <2>1, CallEnds DEF Install
<1>7. CASE Fail(p)
  <2>1. faults' \in 0 .. MaxFaults
    BY <1>0, <1>7, FaultAssumption DEF Fail
  <2>2. QED BY <1>0, <1>7, <2>1, CallEnds DEF Fail
<1>8. QED BY <1>1, <1>2, <1>3, <1>4, <1>5, <1>6, <1>7

LEMMA InitTypeInv == Init => TypeInv
BY FaultAssumption DEF Init, TypeInv, TypeOK, LocalOK, Place, Job, NoJob

LEMMA NextTypeInv == TypeInv /\ [Next]_vars => TypeInv'
<1>1. ASSUME TypeInv, UNCHANGED vars PROVE TypeInv'
  BY <1>1 DEF vars, TypeInv, TypeOK, LocalOK
<1>2. QED BY <1>1, BuildTyped, ExtractTyped DEF Next

(* No half written ZIP is ever at the output path, and nothing but packages *)
(* is installed, for any number of processes and failures.                  *)
THEOREM TypeCorrect == Spec => []TypeOK
BY InitTypeInv, NextTypeInv, PTL DEF Spec, TypeInv
-----------------------------------------------------------------------------
(* While an unsound package is at the output path, and nothing has failed,  *)
(* whoever put it there, or someone who came later, is still to inspect it. *)
PublishedInv ==
    faults = 0 => \/ output = None \/ Sound(output)
                  \/ \E p \in Proc : pc[p] \in {"inspect", "retract"}

LEMMA NextPublished == TypeInv /\ PublishedInv /\ [Next]_vars => PublishedInv'
<1> SUFFICES ASSUME TypeInv, PublishedInv, [Next]_vars, faults' = 0
             PROVE  \/ output' = None \/ Sound(output')
                    \/ \E p \in Proc : pc'[p] \in {"inspect", "retract"}
  BY DEF PublishedInv, Sound
<1>1. pc \in [Proc -> Place] /\ faults \in Nat
  BY DEF TypeInv, TypeOK
<1>2. CASE UNCHANGED vars
  BY <1>2 DEF vars, PublishedInv
<1>3. ASSUME NEW p \in Proc, UNCHANGED <<output, faults>>,
             NEW to, pc' = [pc EXCEPT ![p] = to],
             pc[p] \in {"inspect", "retract"} =>
                to \in {"inspect", "retract"} \/ output = None \/ Sound(output)
      PROVE  \/ output' = None \/ Sound(output')
             \/ \E q \in Proc : pc'[q] \in {"inspect", "retract"}
  <2>1. CASE output = None \/ Sound(output)
    BY <1>3, <2>1
  <2>2. CASE ~(output = None \/ Sound(output))
    <3>1. PICK q \in Proc : pc[q] \in {"inspect", "retract"}
      BY <1>3, <2>2 DEF PublishedInv
    <3>2. pc'[q] \in {"inspect", "retract"}
      BY <1>1, <1>3, <2>2, <3>1
    <3>3. QED BY <3>2
  <2>3. QED BY <2>1, <2>2
<1>4. ASSUME NEW p \in Proc, Replace(p)
      PROVE  \E q \in Proc : pc'[q] \in {"inspect", "retract"}
  BY <1>1, <1>4 DEF Replace, Go
<1>5. ASSUME NEW p \in Proc, Retract(p) PROVE output' = None
  BY <1>5 DEF Retract
<1>6. ASSUME NEW p \in Proc, Fail(p) PROVE FALSE
  BY <1>1, <1>6 DEF Fail
<1>7. ASSUME NEW p \in Proc,
             StartBuild(p) \/ CheckOutput(p) \/ WriteZip(p) \/ InspectOutput(p)
      PROVE  /\ UNCHANGED <<output, faults>>
             /\ \E to : /\ pc' = [pc EXCEPT ![p] = to]
                        /\ pc[p] \in {"inspect", "retract"} =>
                             to = "retract" \/ Sound(output)
  BY <1>7 DEF StartBuild, CheckOutput, WriteZip, InspectOutput, Go, Return
<1>8. ASSUME NEW p \in Proc,
             StartExtract(p) \/ InspectPackage(p) \/ CheckDestination(p)
             \/ Remove(p) \/ Extract(p) \/ Install(p)
      PROVE  /\ UNCHANGED <<output, faults>>
             /\ pc[p] \notin {"inspect", "retract"}
             /\ \E to : pc' = [pc EXCEPT ![p] = to]
  BY <1>8 DEF StartExtract, InspectPackage, CheckDestination, Remove, Extract,
              Install, Go, Return
<1>9. CASE Next
  <2>1. PICK p \in Proc :
           \/ StartBuild(p) \/ CheckOutput(p) \/ WriteZip(p) \/ InspectOutput(p)
           \/ StartExtract(p) \/ InspectPackage(p) \/ CheckDestination(p)
           \/ Remove(p) \/ Extract(p) \/ Install(p)
           \/ Replace(p) \/ Retract(p) \/ Fail(p)
    BY <1>9 DEF Next
  <2>2. CASE StartBuild(p) \/ CheckOutput(p) \/ WriteZip(p) \/ InspectOutput(p)
    <3>1. PICK to : /\ pc' = [pc EXCEPT ![p] = to]
                    /\ pc[p] \in {"inspect", "retract"} =>
                         to = "retract" \/ Sound(output)
      BY <2>2, <1>7
    <3>2. UNCHANGED <<output, faults>>
      BY <2>2, <1>7
    <3>3. QED BY <3>1, <3>2, <1>3
  <2>3. CASE StartExtract(p) \/ InspectPackage(p) \/ CheckDestination(p)
             \/ Remove(p) \/ Extract(p) \/ Install(p)
    BY <2>3, <1>3, <1>8
  <2>4. QED BY <2>1, <2>2, <2>3, <1>4, <1>5, <1>6
<1>10. QED BY <1>2, <1>9

(* Builds that nothing interrupts leave a sound package or none, however    *)
(* many of them, and of extractions, run on one output path.                *)
THEOREM PublishedSound == Spec => []PublishedIsSound
<1>1. Init => PublishedInv
  BY DEF Init, PublishedInv
<1>2. TypeInv /\ PublishedInv => PublishedIsSound
  BY DEF PublishedInv, PublishedIsSound
<1>3. QED BY <1>1, <1>2, InitTypeInv, NextTypeInv, NextPublished, PTL DEF Spec
=============================================================================
