---------------------------- MODULE PackageBuild ----------------------------
(***************************************************************************)
(* build_release_package and extract_release_package: processes that build *)
(* one output file, with and without overwrite, and processes that extract *)
(* it into one destination, with failures between filesystem operations.   *)
(*                                                                         *)
(* A package is its id (its root directory) and what inspect_package says  *)
(* of it: sound; with a bad archive (a member over the limits, nested too  *)
(* deep); or with a bad envelope, which only the strict profile looks at.  *)
(* A build can make each of these: a nested ZIP of the source may be over  *)
(* the limits, and the manifest it writes need not verify (ManifestRules). *)
(***************************************************************************)
EXTENDS Naturals

CONSTANTS
    Proc,
    Id,         \* package ids
    None,       \* no such file or directory
    Part,       \* a file half written, or a directory half removed
    FaultKinds, \* "exception": an operating-system error; "kill"
    MaxFaults   \* BOUND: failures in one behaviour

ASSUME FaultAssumption ==
    FaultKinds \subseteq {"exception", "kill"} /\ MaxFaults \in Nat

VARIABLES
    output,     \* the ZIP file at the output path
    temporary,  \* .<output>.<pid>.tmp of each process
    target,     \* <destination>/<id> for each id
    pc,         \* the next operation of each process
    job,        \* its arguments and local variables
    faults

vars == <<output, temporary, target, pc, job, faults>>

Quality == {"sound", "bad_archive", "bad_envelope"}
Package == [id : Id, quality : Quality]
ASSUME DocumentAssumption ==
    None \notin Package \cup Id /\ Part \notin Package \cup {None}

Place == {"idle", "check", "write", "writing", "replace", "inspect", "retract",
          "inspect_package", "destination", "removing", "extract", "install"}
Job == [package : Package \cup {None}, overwrite : BOOLEAN, root : Id \cup {None}]
NoJob == [package |-> None, overwrite |-> FALSE, root |-> None]

Init ==
    /\ output = None
    /\ temporary = [p \in Proc |-> None]
    /\ target = [i \in Id |-> None]
    /\ pc = [p \in Proc |-> "idle"] /\ job = [p \in Proc |-> NoJob]
    /\ faults = 0

Go(p, from, to) == pc[p] = from /\ pc' = [pc EXCEPT ![p] = to]
Return(p) == pc' = [pc EXCEPT ![p] = "idle"] /\ job' = [job EXCEPT ![p] = NoJob]
-----------------------------------------------------------------------------
(* build_release_package *)

StartBuild(p) ==
    \E x \in Package, over \in BOOLEAN :
        /\ Go(p, "idle", "check")
        /\ job' = [job EXCEPT ![p].package = x, ![p].overwrite = over]
        /\ UNCHANGED <<output, temporary, target, faults>>

MayWrite(p) == output = None \/ job[p].overwrite

CheckOutput(p) ==
    /\ pc[p] = "check"
    /\ \/ MayWrite(p) /\ Go(p, "check", "write") /\ UNCHANGED job
       \/ Return(p)              \* FileExistsError, or the source is not accepted
    /\ UNCHANGED <<output, temporary, target, faults>>

(* The temporary file of an earlier process with this pid is removed.      *)
WriteZip_mutant(p) ==            \* mutant: written at the output path itself
    /\ \/ Go(p, "write", "writing") /\ output' = Part /\ UNCHANGED temporary
       \/ /\ Go(p, "writing", "replace") /\ UNCHANGED output
          /\ temporary' = [temporary EXCEPT ![p] = job[p].package]
    /\ UNCHANGED <<target, job, faults>>
WriteZip(p) ==
    /\ \/ Go(p, "write", "writing") /\ temporary' = [temporary EXCEPT ![p] = Part]
       \/ /\ Go(p, "writing", "replace")
          /\ temporary' = [temporary EXCEPT ![p] = job[p].package]
    /\ UNCHANGED <<output, target, job, faults>>

Replace(p) ==
    /\ Go(p, "replace", "inspect")
    /\ output' = temporary[p]
    /\ temporary' = [temporary EXCEPT ![p] = None]
    /\ UNCHANGED <<target, job, faults>>

(* inspect_package with the strict profile, of whatever is there.          *)
Sound(x) == x # None /\ x.quality = "sound"
SafeArchive(x) == x # None /\ x.quality # "bad_archive"

InspectOutput_mutant(p) ==       \* mutant: what does not validate is reported only
    /\ pc[p] = "inspect" /\ Return(p)
    /\ UNCHANGED <<output, temporary, target, faults>>
InspectOutput(p) ==
    /\ pc[p] = "inspect"
    /\ \/ Sound(output) /\ Return(p)
       \/ ~Sound(output) /\ Go(p, "inspect", "retract") /\ UNCHANGED job
    /\ UNCHANGED <<output, temporary, target, faults>>

Retract(p) ==
    /\ pc[p] = "retract" /\ Return(p)
    /\ output' = None
    /\ UNCHANGED <<temporary, target, faults>>
-----------------------------------------------------------------------------
(* extract_release_package *)

StartExtract(p) ==
    \E over \in BOOLEAN :
        /\ Go(p, "idle", "inspect_package")
        /\ job' = [job EXCEPT ![p].overwrite = over]
        /\ UNCHANGED <<output, temporary, target, faults>>

InspectPackage(p) ==
    /\ pc[p] = "inspect_package"
    /\ \/ /\ Sound(output)
          /\ Go(p, "inspect_package", "destination")
          /\ job' = [job EXCEPT ![p].root = output.id]
       \/ ~Sound(output) /\ Return(p)
    /\ UNCHANGED <<output, temporary, target, faults>>

CheckDestination(p) ==
    LET i == job[p].root
    IN /\ pc[p] = "destination"
       /\ \/ /\ target[i] = None
             /\ Go(p, "destination", "extract") /\ UNCHANGED <<target, job>>
          \/ /\ target[i] # None /\ ~job[p].overwrite
             /\ Return(p) /\ UNCHANGED target           \* FileExistsError
          \/ /\ target[i] # None /\ job[p].overwrite
             /\ Go(p, "destination", "removing")        \* rmtree begins
             /\ target' = [target EXCEPT ![i] = Part] /\ UNCHANGED job
       /\ UNCHANGED <<output, temporary, faults>>

Remove(p) ==
    /\ Go(p, "removing", "extract")
    /\ target' = [target EXCEPT ![job[p].root] = None]
    /\ UNCHANGED <<output, temporary, job, faults>>

(* safe_extract_zip reads the file again, and looks at the archive only.   *)
Extract(p) ==
    /\ pc[p] = "extract"
    /\ \/ /\ SafeArchive(output)
          /\ Go(p, "extract", "install")
          /\ job' = [job EXCEPT ![p].package = output]
       \/ ~SafeArchive(output) /\ Return(p)
    /\ UNCHANGED <<output, temporary, target, faults>>

(* os.replace of a directory fails if the target is there and not empty.   *)
Install(p) ==
    LET i == job[p].root
    IN /\ pc[p] = "install" /\ Return(p)
       /\ target' = [target EXCEPT ![i] = IF @ = None THEN job[p].package ELSE @]
       /\ UNCHANGED <<output, temporary, faults>>
-----------------------------------------------------------------------------
(* An error or a kill ends the call where it is.                           *)
Fail(p) ==
    /\ FaultKinds # {} /\ faults < MaxFaults /\ faults' = faults + 1
    /\ pc[p] # "idle" /\ Return(p)
    /\ UNCHANGED <<output, temporary, target>>

Next ==
    \E p \in Proc :
        \/ StartBuild(p) \/ CheckOutput(p) \/ WriteZip(p) \/ Replace(p)
        \/ InspectOutput(p) \/ Retract(p)
        \/ StartExtract(p) \/ InspectPackage(p) \/ CheckDestination(p) \/ Remove(p)
        \/ Extract(p) \/ Install(p)
        \/ Fail(p)

Spec == Init /\ [][Next]_vars
-----------------------------------------------------------------------------
(* Every file, directory and local variable holds a value of its kind; no  *)
(* half written ZIP is ever at the output path.                            *)
TypeOK ==
    /\ output \in Package \cup {None}
    /\ temporary \in [Proc -> Package \cup {None, Part}]
    /\ target \in [Id -> Package \cup {None, Part}]
    /\ pc \in [Proc -> Place] /\ job \in [Proc -> Job]
    /\ faults \in 0 .. MaxFaults

(* A build that was not cut short leaves a sound package or none, whoever  *)
(* builds or extracts beside it: what was published before it validated is *)
(* withdrawn, if not by its builder then by the one whose file replaced it *)
(* or who found it there in place of his own.                              *)
PublishedIsSound ==
    faults = 0 /\ (\A p \in Proc : pc[p] = "idle") =>
        output = None \/ Sound(output)
-----------------------------------------------------------------------------
(* A statement of the documentation that holds for a process alone, and    *)
(* fails when two work on one file: what a call checks and what it acts on *)
(* some steps later need not be the same.                                  *)

(* docs/package-format.md:31, extract-package "validates the complete      *)
(* strict release package before extraction": what is installed under a    *)
(* package id is sound, so a file that was only read, by safe_extract_zip, *)
(* after another file had been validated is not.                           *)
ExtractedIsValidated ==
    \A i \in Id : target[i] \in Package => Sound(target[i])
=============================================================================
