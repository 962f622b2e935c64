------------------------ MODULE WorkspaceValidation ------------------------
(***************************************************************************)
(* validate_workspace: a reader without the lock, composed with the engine *)
(* that writes meanwhile.  It reads the journal, the two pointers and the  *)
(* archive one file at a time, and then, for each target they name, looks  *)
(* for it, reads its manifest and walks its tree.                          *)
(***************************************************************************)
EXTENDS PromotionEngine, FiniteSets, Reports

CONSTANTS
    MaxEntries,  \* bound on a found workspace: archive entries and damaged files
    MaxDamage    \* bound on a found workspace: damaged files

VARIABLES
    at,       \* what the reader does next
    view,     \* the pointer files as it read them
    todo,     \* targets it has still to look at
    target,   \* the target it is looking at, and the manifest it read
    issues,   \* the codes of its report so far
    quiet,    \* nothing has been written since it began
    removed,  \* a release or manifest has been removed since it began
    found,    \* the workspace is one that was found, and no engine runs
    form,     \* what each pointer file is like, beside what it says
    manifestForm  \* and each manifest file

readerVars == <<at, view, todo, target, issues, quiet, removed, found, form, manifestForm>>
forms == <<form, manifestForm>>
files == <<pointerFiles, journals, trees>>
allVars == <<vars, readerVars>>

(* The engine writes sound files only.  One that is found may be           *)
(*   unreadable: no JSON, or (a pointer file) no JSON object;              *)
(*   malformed: refused by its schema, for something that is not followed  *)
(*     (a file without schema_version or a pointer without digest is one); *)
(*   incomplete: a key that is followed is missing, and there is an        *)
(*     exception;                                                          *)
(*   wrong_type: the pointer of the other file;                            *)
(*   unsorted: an archive whose entries are not in order;                  *)
(*   wrong_root: a manifest of another release;                            *)
(*   not_object: a manifest that is JSON, but no object.                   *)
PointerFile == {"current", "last_success", "archive"}
PointerForm == {"sound", "unreadable", "malformed", "incomplete", "wrong_type"}
ArchiveForm == {"sound", "unreadable", "malformed", "incomplete", "unsorted"}
ManifestForm == {"sound", "unreadable", "malformed", "not_object", "wrong_root"}
FileForms ==
    {g \in [PointerFile -> PointerForm \cup ArchiveForm] :
        /\ g["archive"] \in ArchiveForm
        /\ g["current"] \in PointerForm /\ g["last_success"] \in PointerForm}
Undamaged ==
    /\ form = [f \in PointerFile |-> "sound"]
    /\ manifestForm = [r \in Release |-> "sound"]

NoView == [current |-> None, lastSuccess |-> None, archive |-> {}]
Target == [file : PointerFile,
           release : Release, digest : Content]
Code == {"RECOVERY_REQUIRED", "CURRENT_POINTER_MISSING",
         "LAST_SUCCESS_POINTER_MISSING", "CURRENT_LAST_SUCCESS_MISMATCH",
         "POINTER_JSON_INVALID", "POINTER_TYPE_MISMATCH",
         "SCHEMA_VIOLATION", "ARCHIVE_DUPLICATE_RELEASE", "ARCHIVE_ORDER",
         "ARCHIVE_CURRENT_CONFLICT", "POINTER_TARGET_MISSING",
         "POINTER_MANIFEST_INVALID", "POINTER_MANIFEST_ROOT_MISMATCH",
         "POINTER_MANIFEST_HASH_MISMATCH", "MANIFEST_MISMATCH"}

ReaderInit ==
    /\ at = "idle" /\ view = NoView /\ todo = {} /\ target = None
    /\ issues = {} /\ quiet = TRUE /\ removed = FALSE

Reader(from, to) ==
    at = from /\ at' = to /\ UNCHANGED <<vars, quiet, removed, found, forms>>
Report(codes) == issues' = issues \cup codes
-----------------------------------------------------------------------------
ReadActive ==
    /\ Reader("idle", "current")
    /\ Report(When(active # None, "RECOVERY_REQUIRED"))
    /\ UNCHANGED <<view, todo, target>>

(* safe_read, the schema of a pointer and its type.  Nothing that can be    *)
(* read is None, whether there is no file or an unreadable one.             *)
PointerIssues(f) ==
    When(form[f] = "unreadable", "POINTER_JSON_INVALID")
    \cup When(form[f] \in {"malformed", "incomplete"}, "SCHEMA_VIOLATION")
    \cup When(form[f] = "wrong_type", "POINTER_TYPE_MISMATCH")

ReadCurrent ==
    /\ Reader("current", "last_success")
    /\ view' = [view EXCEPT !.current = current]
    /\ Report(PointerIssues("current")
              \cup When(current = None, "CURRENT_POINTER_MISSING"))
    /\ UNCHANGED <<todo, target>>

ReadLastSuccess ==
    /\ Reader("last_success", "archive")
    /\ view' = [view EXCEPT !.lastSuccess = lastSuccess]
    /\ Report(PointerIssues("last_success")
              \cup When(lastSuccess = None, "LAST_SUCCESS_POINTER_MISSING"))
    /\ UNCHANGED <<todo, target>>

(* The targets of what was read, whatever the files say by now.            *)
Named_mutant(file, x) == x       \* mutant: it is forgotten what names it
Named(file, x) == [file |-> file, release |-> x.release, digest |-> x.digest]
Targets(v) ==
    {Named("current", x) : x \in {v.current} \ {None}}
    \cup {Named("last_success", x) : x \in {v.lastSuccess} \ {None}}
    \cup {Named("archive", e) : e \in v.archive}

ReadArchive ==
    /\ Reader("archive", "targets")
    /\ view' = [view EXCEPT !.archive = archive]
    /\ todo' = Targets(view')
    /\ Report(When(form["archive"] = "unreadable", "POINTER_JSON_INVALID"))
    /\ UNCHANGED target

(* _validate_target, for each target in the order of the files: the        *)
(* directory and the manifest must exist, then the manifest is read, then  *)
(* verify_manifest walks the directory.                                    *)
IsNext(x) ==
    CASE x.file = "current" -> TRUE
      [] x.file = "last_success" -> \A y \in todo : y.file # "current"
      [] OTHER -> \A y \in todo : y.file = "archive"

LookFor(x) ==
    /\ IsNext(x) /\ form[x.file] # "incomplete"
    /\ todo' = todo \ {x}
    /\ \/ /\ releases[x.release] = None
          /\ Reader("targets", "targets")
          /\ Report({"POINTER_TARGET_MISSING"})
          /\ UNCHANGED target
       \/ /\ releases[x.release] # None
          /\ Reader("targets", "manifest_exists")
          /\ target' = [named |-> x, manifest |-> None]
          /\ UNCHANGED issues
    /\ UNCHANGED view

ManifestHere == manifests[target.named.release] # None

LookForManifest ==
    /\ \/ /\ Reader("manifest_exists", "manifest")
          /\ ManifestHere
          /\ UNCHANGED <<issues, target>>
       \/ /\ Reader("manifest_exists", "targets")
          /\ ~ManifestHere
          /\ Report({"POINTER_TARGET_MISSING"})
          /\ target' = None
    /\ UNCHANGED <<view, todo>>

FormOfManifest == manifestForm[target.named.release]

ReadManifest ==
    /\ at = "manifest" /\ ManifestHere /\ FormOfManifest # "not_object"
    /\ \/ /\ Reader("manifest", "tree")
          /\ FormOfManifest # "unreadable"
          /\ target' = [target EXCEPT !.manifest = manifests[target.named.release]]
          /\ Report(When(FormOfManifest = "wrong_root", "POINTER_MANIFEST_ROOT_MISMATCH")
                    \cup When(target'.manifest # target.named.digest,
                              "POINTER_MANIFEST_HASH_MISMATCH"))
       \/ /\ Reader("manifest", "targets")
          /\ FormOfManifest = "unreadable"
          /\ target' = None
          /\ Report({"POINTER_MANIFEST_INVALID"})
    /\ UNCHANGED <<view, todo>>

(* verify_manifest: MANIFEST_MISMATCH stands for all that it says of trees. *)
WalkTree ==
    /\ Reader("tree", "targets")
    /\ Report(IF FormOfManifest = "malformed" THEN {"SCHEMA_VIOLATION"}
              ELSE When(releases[target.named.release] # target.manifest,
                        "MANIFEST_MISMATCH"))
    /\ target' = None
    /\ UNCHANGED <<view, todo>>

(* Exceptions, and no report: a key that is followed is not there, the      *)
(* manifest has vanished since it was seen, or it is no object.             *)
Breaks ==
    \/ at = "targets" /\ \E x \in todo : IsNext(x) /\ form[x.file] = "incomplete"
    \/ at = "manifest" /\ (~ManifestHere \/ FormOfManifest = "not_object")

BreakOff ==
    /\ Breaks
    /\ at' = "idle" /\ view' = NoView /\ todo' = {} /\ target' = None
    /\ issues' = {} /\ quiet' = TRUE /\ removed' = FALSE
    /\ UNCHANGED <<vars, found, forms>>

(* Rules about what was read, whatever it points to.                       *)
Agree_mutant(x, y) == x.digest = y.digest   \* mutant: the releases are not compared
Agree(x, y) == x.release = y.release /\ x.digest = y.digest

ArchiveIssues(entries) ==
    LET refused == form["archive"] \in {"malformed", "incomplete"}
                   \/ \E e \in entries : e.reason = "long"
    IN When(refused, "SCHEMA_VIOLATION")
       \cup When(~refused /\ \E e, f \in entries : e # f /\ e.release = f.release,
                 "ARCHIVE_DUPLICATE_RELEASE")
       \cup When(~refused /\ form["archive"] = "unsorted", "ARCHIVE_ORDER")

ViewIssues(v) ==
    When(/\ v.current # None /\ v.lastSuccess # None
         /\ ~Agree(v.current, v.lastSuccess), "CURRENT_LAST_SUCCESS_MISMATCH")
    \cup ArchiveIssues(v.archive)
    \cup When(\E e \in v.archive : v.current # None /\ e.release = v.current.release,
              "ARCHIVE_CURRENT_CONFLICT")

Conclude ==
    /\ todo = {}
    /\ Reader("targets", "done")
    /\ Report(ViewIssues(view))
    /\ UNCHANGED <<view, todo, target>>

(* The next validation starts from nothing.                                *)
Again ==
    /\ at = "done" /\ at' = "idle" /\ view' = NoView /\ issues' = {}
    /\ quiet' = TRUE /\ removed' = FALSE
    /\ UNCHANGED <<vars, todo, target, found, forms>>

ReaderNext ==
    \/ ReadActive \/ ReadCurrent \/ ReadLastSuccess \/ ReadArchive
    \/ \E x \in todo : LookFor(x)
    \/ LookForManifest \/ ReadManifest \/ WalkTree \/ BreakOff \/ Conclude \/ Again

(* The engine goes on while the reader reads; the reader is not told.      *)
Removes(p) == RemoveInstalled(p) \/ RemoveManifest(p)
EngineNext ==
    /\ ~found
    /\ Next
    /\ quiet' = (at = "idle" \/ (quiet /\ UNCHANGED files))
    /\ removed' = (at # "idle" /\ (removed \/ \E p \in Proc : Removes(p)))
    /\ UNCHANGED <<at, view, todo, target, issues, found, forms>>

(* A workspace as an operator may have left it, and no engine.             *)
(* The reader does not look at transactions, so one will do.  The two       *)
(* paths of a pointer are those of its release.                             *)
Damage(g) == Cardinality({x \in DOMAIN g : g[x] # "sound"})
LittleDamaged(G) == {g \in G : Damage(g) <= MaxDamage}
FoundForms == LittleDamaged(FileForms)
FoundManifestForms == LittleDamaged([Release -> ManifestForm])

(* A file that is missing is not damaged, and an unreadable one says        *)
(* nothing.                                                                 *)
Says(f, pointers) ==
    CASE form[f] = "sound" -> pointers \cup {None}
      [] form[f] = "unreadable" -> {None}
      [] OTHER -> pointers

AnyWorkspace ==
    /\ form \in FoundForms /\ manifestForm \in FoundManifestForms
    /\ Damage(form) + Damage(manifestForm) <= MaxDamage
    /\ \E t \in Tx :
         LET pointers == {x \in Pointer : x.tx = t}
             entries == {e \in Entry : e.tx = t}
             size == MaxEntries - Damage(form) - Damage(manifestForm)
         IN /\ current \in Says("current", pointers)
            /\ lastSuccess \in Says("last_success", pointers)
            /\ archive \in {a \in SUBSET entries : Cardinality(a) <= size}
    /\ form["archive"] = "unreadable" => archive = {}
    /\ form["archive"] \in {"incomplete", "unsorted"} => archive # {}
    /\ releases \in [Release -> Tree]
    /\ manifests \in [Release -> Content \cup {None}]
    /\ \A r \in Release : manifests[r] = None => manifestForm[r] = "sound"
    /\ lock = Free /\ active = None /\ faults = 0
    /\ history = [t \in Tx |-> None]
    /\ stagedReleases = [t \in Tx |-> None]
    /\ stagedManifests = [t \in Tx |-> None]
    /\ pc = [p \in Proc |-> "idle"] /\ job = [p \in Proc |-> NoJob]

ValidationInit ==
    /\ ReaderInit
    /\ \/ Init /\ Undamaged /\ found = FALSE
       \/ AnyWorkspace /\ found = TRUE
ValidationSpec == ValidationInit /\ [][EngineNext \/ ReaderNext]_allVars
-----------------------------------------------------------------------------
ReaderTypeOK ==
    /\ at \in {"idle", "current", "last_success", "archive", "targets",
               "manifest_exists", "manifest", "tree", "done"}
    /\ view.current \in Pointer \cup {None}
    /\ view.lastSuccess \in Pointer \cup {None}
    /\ view.archive \in SUBSET Entry
    /\ todo \in SUBSET Target
    /\ target \in [named : Target, manifest : Content \cup {None}] \cup {None}
    /\ issues \in SUBSET Code
    /\ quiet \in BOOLEAN /\ removed \in BOOLEAN /\ found \in BOOLEAN
    /\ form \in FileForms /\ manifestForm \in [Release -> ManifestForm]

(* What a workspace must be to be called healthy: no transaction is open,  *)
(* both pointers name one release, every release that is named is whole,   *)
(* the archive lists what is not current, once and within its schema, and  *)
(* every file that is named is sound.                                      *)
Healthy ==
    /\ active = None
    /\ current # None /\ lastSuccess # None
    /\ lastSuccess.release = current.release /\ lastSuccess.digest = current.digest
    /\ \A x \in {current} \cup archive :
          /\ releases[x.release] = x.digest /\ manifests[x.release] = x.digest
          /\ manifestForm[x.release] = "sound"
    /\ \A e \in archive : e.release # current.release /\ e.reason = "short"
    /\ \A e, f \in archive : e.release = f.release => e = f
    /\ \A f \in PointerFile : form[f] = "sound"

(* A report about a workspace that nobody wrote to meanwhile, when there   *)
(* is one, is empty exactly when the workspace is healthy: what is wrong   *)
(* in any file that is named, in what a pointer names, or between two      *)
(* files, is reported, and nothing else is.                                *)
QuietReportIsRight == at = "done" /\ quiet => (issues = {} <=> Healthy)

(* Pointers are published after what they point to and withdrawn before    *)
(* it: a reader racing a promotion or a rollback may find the pointers in  *)
(* disagreement, but never one whose target is missing or altered, unless  *)
(* a failed promotion was being cleaned up meanwhile.                      *)
TargetsAreWhole ==
    ~found /\ ~removed =>
        issues \cap {"POINTER_TARGET_MISSING", "MANIFEST_MISMATCH",
                    "POINTER_MANIFEST_HASH_MISMATCH"} = {}

(* An error in the last operations of finish_journal, alone, does no harm: *)
(* what the engine leaves is consistent all the same.                      *)
TailAloneIsHarmless == ~found => AcceptedIsConsistent
=============================================================================
