--------------------- MODULE WorkspaceValidationProofs ---------------------
(***************************************************************************)
(* Theorems about WorkspaceValidation: the reader beside any number of      *)
(* processes that promote, roll back, fail and recover, and alone over any  *)
(* workspace it may find.                                                   *)
(***************************************************************************)
EXTENDS WorkspaceValidation, PromotionConsistencyProofs

(* The reader is looking at one target; it has read all pointer files.      *)
Inspecting == {"manifest_exists", "manifest", "tree"}
PastArchive == {"targets", "done"} \cup Inspecting

Inspected == [named : Target, manifest : Content \cup {None}]

ReaderInv ==
    /\ ReaderTypeOK
    /\ view \in Previous
    /\ at = "idle" => view = NoView
    /\ at \in Inspecting => target \in Inspected
    /\ at \notin {"targets"} \cup Inspecting => todo = {}
-----------------------------------------------------------------------------
(* The engine's files, when the engine runs and when they were found *)

LEMMA FoundTyped == AnyWorkspace => TypeInv
<1> SUFFICES ASSUME AnyWorkspace PROVE TypeInv
  OBVIOUS
<1>1. PICK t \in Tx :
         LET pointers == {x \in Pointer : x.tx = t}
             entries == {e \in Entry : e.tx = t}
             size == MaxEntries - Damage(form) - Damage(manifestForm)
         IN /\ current \in Says("current", pointers)
            /\ lastSuccess \in Says("last_success", pointers)
            /\ archive \in {a \in SUBSET entries : Cardinality(a) <= size}
  BY DEF AnyWorkspace
<1>2. \A f, P : P \subseteq Pointer => Says(f, P) \subseteq Pointer \cup {None}
  BY DEF Says
<1>3. /\ current \in Pointer \cup {None} /\ lastSuccess \in Pointer \cup {None}
      /\ archive \in SUBSET Entry
  <2>1. {x \in Pointer : x.tx = t} \subseteq Pointer
    OBVIOUS
  <2>2. QED BY <1>1, <1>2, <2>1
<1>4. FilesTyped
  BY <1>3, FaultAssumption DEF AnyWorkspace, FilesTyped, Tree
<1>5. CallsTyped
  BY NewCall, Labels DEF AnyWorkspace, CallsTyped
<1>6. QED BY <1>4, <1>5 DEF TypeInv

FormsTyped ==
    /\ form \in FileForms
    /\ manifestForm \in [Release -> ManifestForm]

LEMMA InitForms == ValidationInit => FormsTyped
<1>1. Undamaged => FormsTyped
  BY DEF Undamaged, FormsTyped, FileForms, PointerFile, PointerForm, ArchiveForm, ManifestForm
<1>2. AnyWorkspace => FormsTyped
  BY DEF AnyWorkspace, FoundForms, FoundManifestForms, LittleDamaged, FormsTyped
<1>3. QED BY <1>1, <1>2 DEF ValidationInit

LEMMA InitFiles == ValidationInit => TypeInv
BY FoundTyped, InitTypeInv DEF ValidationInit

LEMMA FilesStep ==
    TypeInv /\ [EngineNext \/ ReaderNext]_allVars => TypeInv'
<1> SUFFICES ASSUME TypeInv, [EngineNext \/ ReaderNext]_allVars PROVE TypeInv'
  OBVIOUS
<1>1. ASSUME ReaderNext PROVE UNCHANGED vars
  BY <1>1
  DEF ReaderNext, ReadActive, ReadCurrent, ReadLastSuccess, ReadArchive, LookFor,
      LookForManifest, ReadManifest, BreakOff, WalkTree, Conclude, Again, Reader
<1>2. [Next]_vars
  BY <1>1 DEF EngineNext, allVars
<1>3. QED BY <1>2, NextTyped
-----------------------------------------------------------------------------
(* The reader's own variables *)

LEMMA FilesOfKind ==
    ASSUME TypeInv
    PROVE  /\ current \in Pointer \cup {None} /\ lastSuccess \in Pointer \cup {None}
           /\ archive \in SUBSET Entry
           /\ \A r \in Release : manifests[r] \in Content \cup {None}
BY DEF TypeInv, FilesTyped

LEMMA TargetsTyped ==
    ASSUME NEW v, v.current \in Pointer \cup {None}, v.lastSuccess \in Pointer \cup {None},
           v.archive \in SUBSET Entry
    PROVE  Targets(v) \in SUBSET Target
<1>1. ASSUME NEW x \in Pointer \cup Entry, NEW f \in {"current", "last_success", "archive"}
      PROVE  Named(f, x) \in Target
  BY <1>1 DEF Named, Target, PointerFile, Pointer, Entry
<1>2. QED BY <1>1 DEF Targets

LEMMA Reported ==
    ASSUME issues \in SUBSET Code, NEW codes \in SUBSET Code, Report(codes)
    PROVE  issues' \in SUBSET Code
BY DEF Report

LEMMA ReaderBegins == ReaderInit /\ found \in BOOLEAN /\ FormsTyped => ReaderInv
<1> SUFFICES ASSUME ReaderInit, found \in BOOLEAN, FormsTyped PROVE ReaderInv
  OBVIOUS
<1>1. view \in Previous
  BY DEF ReaderInit, NoView, Previous
<1>2. quiet \in BOOLEAN /\ removed \in BOOLEAN
  BY DEF ReaderInit
<1>3. QED BY <1>1, <1>2 DEF ReaderInit, ReaderInv, ReaderTypeOK, Inspecting, Previous, FormsTyped

LEMMA FilesReported ==
    /\ \A f : PointerIssues(f) \in SUBSET Code
    /\ \A E : ArchiveIssues(E) \in SUBSET Code
    /\ \A v : ViewIssues(v) \in SUBSET Code
<1>1. \A f : PointerIssues(f) \in SUBSET Code
  BY DEF PointerIssues, When, Code
<1>2. \A E : ArchiveIssues(E) \in SUBSET Code
  BY DEF ArchiveIssues, When, Code
<1>3. \A v : ViewIssues(v) \in SUBSET Code
  BY <1>2 DEF ViewIssues, When, Code
<1>4. QED BY <1>1, <1>2, <1>3

LEMMA ReadingTyped ==
    TypeInv /\ ReaderInv /\ [EngineNext \/ ReaderNext]_allVars => ReaderInv'
<1> SUFFICES ASSUME TypeInv, ReaderInv, [EngineNext \/ ReaderNext]_allVars
             PROVE  ReaderInv'
  OBVIOUS
<1> USE DEF ReaderInv, Inspecting, Previous
<1>1. /\ current \in Pointer \cup {None} /\ lastSuccess \in Pointer \cup {None}
      /\ archive \in SUBSET Entry
      /\ \A r \in Release : manifests[r] \in Content \cup {None}
  BY FilesOfKind
<1>2. ReaderTypeOK
  OBVIOUS
<1> USE DEF forms
<1>3. CASE UNCHANGED allVars
  BY <1>2, <1>3 DEF allVars, readerVars, ReaderTypeOK
<1>4. CASE EngineNext
  BY <1>2, <1>4 DEF EngineNext, ReaderTypeOK
<1>5. CASE ReadActive
  <2>1. issues' \in SUBSET Code
    BY <1>2, <1>5, Reported DEF ReadActive, When, Code, ReaderTypeOK
  <2>2. QED BY <1>2, <1>5, <2>1 DEF ReadActive, Reader, ReaderTypeOK
<1>6. CASE ReadCurrent
  <2>1. issues' \in SUBSET Code
    BY <1>2, <1>6, FilesReported, Reported DEF ReadCurrent, When, Code, ReaderTypeOK
  <2>2. QED BY <1>1, <1>2, <1>6, <2>1 DEF ReadCurrent, Reader, ReaderTypeOK
<1>7. CASE ReadLastSuccess
  <2>1. issues' \in SUBSET Code
    BY <1>2, <1>7, FilesReported, Reported DEF ReadLastSuccess, When, Code, ReaderTypeOK
  <2>2. QED BY <1>1, <1>2, <1>7, <2>1 DEF ReadLastSuccess, Reader, ReaderTypeOK
<1>8. CASE ReadArchive
  <2> DEFINE v == [view EXCEPT !.archive = archive]
  <2>1. view' = v /\ todo' = Targets(v)
    BY <1>8 DEF ReadArchive
  <2>2. /\ v.current \in Pointer \cup {None} /\ v.lastSuccess \in Pointer \cup {None}
        /\ v.archive \in SUBSET Entry
    BY <1>1, <1>2 DEF ReaderTypeOK
  <2> HIDE DEF v
  <2>3. todo' \in SUBSET Target
    BY <2>1, <2>2, TargetsTyped
  <2>4. issues' \in SUBSET Code
    BY <1>2, <1>8, Reported DEF ReadArchive, When, Code, ReaderTypeOK
  <2>5. QED BY <1>2, <1>8, <2>1, <2>2, <2>3, <2>4 DEF ReadArchive, Reader, ReaderTypeOK
<1>9. ASSUME NEW x \in todo, LookFor(x) PROVE ReaderInv'
  <2>1. x \in Target /\ todo' \in SUBSET Target /\ at = "targets"
    BY <1>2, <1>9 DEF ReaderTypeOK, LookFor, Reader
  <2>2. CASE Reader("targets", "targets") /\ Report({"POINTER_TARGET_MISSING"})
             /\ UNCHANGED target
    <3>1. issues' \in SUBSET Code
      BY <1>2, <2>2, Reported DEF Code, ReaderTypeOK
    <3>2. QED BY <1>2, <1>9, <2>1, <2>2, <3>1 DEF LookFor, Reader, ReaderTypeOK
  <2>3. CASE /\ Reader("targets", "manifest_exists")
             /\ target' = [named |-> x, manifest |-> None] /\ UNCHANGED issues
    <3>1. target' \in Inspected
      BY <2>1, <2>3 DEF Inspected
    <3>2. QED BY <1>2, <1>9, <2>1, <2>3, <3>1 DEF LookFor, Reader, ReaderTypeOK, Inspected
  <2>4. QED BY <1>9, <2>2, <2>3 DEF LookFor
<1>10. CASE LookForManifest
  <2>1. issues' \in SUBSET Code
    BY <1>2, <1>10, Reported DEF LookForManifest, Code, ReaderTypeOK
  <2>2. QED BY <1>2, <1>10, <2>1 DEF LookForManifest, Reader, ReaderTypeOK
<1>11. CASE ReadManifest
  <2>1. target \in Inspected /\ at = "manifest"
    BY <1>11 DEF ReadManifest
  <2>2. CASE /\ at' = "tree"
             /\ target' = [target EXCEPT !.manifest = manifests[target.named.release]]
             /\ Reader("manifest", "tree")
             /\ Report(When(FormOfManifest = "wrong_root", "POINTER_MANIFEST_ROOT_MISMATCH")
                       \cup When(target'.manifest # target.named.digest,
                                 "POINTER_MANIFEST_HASH_MISMATCH"))
    <3>1. target' \in Inspected
      BY <1>1, <2>1, <2>2 DEF Inspected, Target
    <3>2. issues' \in SUBSET Code
      BY <1>2, <2>2, Reported DEF When, Code, ReaderTypeOK
    <3>3. QED BY <1>2, <1>11, <2>1, <2>2, <3>1, <3>2
          DEF ReadManifest, Reader, ReaderTypeOK, Inspected
  <2>3. CASE /\ at' = "targets" /\ target' = None /\ Reader("manifest", "targets")
             /\ Report({"POINTER_MANIFEST_INVALID"})
    <3>1. issues' \in SUBSET Code
      BY <1>2, <2>3, Reported DEF Code, ReaderTypeOK
    <3>2. QED BY <1>2, <1>11, <2>1, <2>3, <3>1 DEF ReadManifest, Reader, ReaderTypeOK
  <2>4. QED BY <1>11, <2>2, <2>3 DEF ReadManifest, Reader
<1>12. CASE BreakOff
  BY <1>2, <1>12 DEF BreakOff, ReaderTypeOK, NoView
<1>13. CASE WalkTree
  <2>1. issues' \in SUBSET Code
    BY <1>2, <1>13, Reported DEF WalkTree, When, Code, ReaderTypeOK
  <2>2. QED BY <1>2, <1>13, <2>1 DEF WalkTree, Reader, ReaderTypeOK
<1>14. CASE Conclude
  <2>1. ViewIssues(view) \in SUBSET Code
    BY FilesReported
  <2>2. issues' \in SUBSET Code
    BY <1>2, <1>14, <2>1, Reported DEF Conclude, ReaderTypeOK
  <2>3. QED BY <1>2, <1>14, <2>2 DEF Conclude, Reader, ReaderTypeOK
<1>15. CASE Again
  BY <1>2, <1>15 DEF Again, ReaderTypeOK, NoView
<1>16. QED
  BY <1>3, <1>4, <1>5, <1>6, <1>7, <1>8, <1>9, <1>10, <1>11, <1>12, <1>13, <1>14, <1>15
  DEF ReaderNext

(* What the reader keeps is always of its kind, also over a workspace that  *)
(* the engine cannot have left.                                             *)
THEOREM ReaderTypeCorrect == ValidationSpec => []ReaderTypeOK
<1>1. ValidationInit => TypeInv /\ ReaderInv
  BY InitFiles, InitForms, ReaderBegins DEF ValidationInit
<1>2. ReaderInv => ReaderTypeOK
  BY DEF ReaderInv
<1>3. TypeInv /\ ReaderInv /\ [EngineNext \/ ReaderNext]_allVars
      => (TypeInv /\ ReaderInv)'
  BY FilesStep, ReadingTyped
<1>4. QED BY <1>1, <1>2, <1>3, PTL DEF ValidationSpec
-----------------------------------------------------------------------------
(* A quiet reading *)

Whole(x) == releases[x.release] = x.digest /\ manifests[x.release] = x.digest

Flawless(x) == Whole(x) /\ manifestForm[x.release] = "sound"

(* A manifest that passes its own checks before the tree is compared.       *)
Fits(x) == target.manifest = x.digest /\ manifestForm[x.release] # "wrong_root"

(* The targets the reader has judged.                                       *)
Judged ==
    {x \in Targets(view) \ todo : at \in Inspecting => x # target.named}

(* What the reader knows of a workspace in which it has seen no problem.    *)
Clean ==
    /\ active = None
    /\ at # "current" => current # None /\ form["current"] = "sound"
    /\ at \notin {"current", "last_success"} =>
          lastSuccess # None /\ form["last_success"] = "sound"
    /\ at \in PastArchive =>
          form["archive"] # "unreadable" /\ \A x \in Judged : Flawless(x)
    /\ at = "tree" => Fits(target.named)
    /\ at = "done" => ViewIssues(view) = {}

(* As long as nobody writes, the reader has read the files as they are, and *)
(* its report so far says all there is to say of what it has looked at.     *)
ReadTruly ==
    /\ at # "current" => view.current = current
    /\ at \notin {"current", "last_success"} => view.lastSuccess = lastSuccess
    /\ at \in PastArchive => view.archive = archive /\ todo \subseteq Targets(view)
    /\ at \in Inspecting =>
          target.named \in Targets(view) \ todo
    /\ at = "tree" => /\ target.manifest = manifests[target.named.release]
                      /\ manifestForm[target.named.release]
                             \in {"sound", "malformed", "wrong_root"}
    /\ issues = {} <=> Clean

QuietInv == (at = "idle" => issues = {}) /\ (at # "idle" /\ quiet => ReadTruly)

LEMMA SameReading ==
    ASSUME UNCHANGED <<files, at, view, todo, target, issues, forms>>, ReadTruly
    PROVE  ReadTruly'
<1>1. /\ current' = current /\ lastSuccess' = lastSuccess /\ archive' = archive
      /\ active' = active /\ releases' = releases /\ manifests' = manifests
      /\ at' = at /\ view' = view /\ todo' = todo /\ target' = target /\ issues' = issues
      /\ form' = form /\ manifestForm' = manifestForm
  BY DEF files, pointerFiles, journals, trees, forms
<1>2. Judged' = Judged /\ ViewIssues(view)' = ViewIssues(view)
  BY <1>1 DEF Judged, ViewIssues, ArchiveIssues
<1>3. Clean' = Clean
  BY <1>1, <1>2 DEF Clean, Flawless, Whole, Fits
<1>4. QED BY <1>1, <1>3 DEF ReadTruly

LEMMA FilesRest ==
    ASSUME UNCHANGED vars
    PROVE  /\ current' = current /\ lastSuccess' = lastSuccess /\ archive' = archive
           /\ active' = active /\ releases' = releases /\ manifests' = manifests
BY DEF vars, pointerFiles, journals, trees

(* Both pointers are there, can be read and are what they should be.        *)
BothRead ==
    /\ active = None /\ current # None /\ lastSuccess # None
    /\ form["current"] = "sound" /\ form["last_success"] = "sound"

LEMMA SoundPointers ==
    ASSUME form \in FileForms
    PROVE  \A f \in {"current", "last_success"} : PointerIssues(f) = {} <=> form[f] = "sound"
<1>1. form["current"] \in PointerForm /\ form["last_success"] \in PointerForm
  BY DEF FileForms
<1>2. \A f \in {"current", "last_success"} : form[f] \in PointerForm
  BY <1>1
<1>3. QED BY <1>2 DEF PointerIssues, PointerForm, When

(* The steps that read the four pointer files.                              *)
LEMMA PointersRead ==
    ASSUME TypeInv, ReaderInv, QuietInv, quiet' = quiet, quiet,
           ReadActive \/ ReadCurrent \/ ReadLastSuccess \/ ReadArchive
    PROVE  ReadTruly'
<1>0. \A f \in {"current", "last_success"} : PointerIssues(f) = {} <=> form[f] = "sound"
  BY SoundPointers DEF ReaderInv, ReaderTypeOK
<1> USE DEF Inspecting, PastArchive, Report, When
<1>1. CASE ReadActive
  <2>1. /\ issues = {} /\ at' = "current"
        /\ issues' = issues \cup (IF active # None THEN {"RECOVERY_REQUIRED"} ELSE {})
        /\ UNCHANGED vars
    BY <1>1 DEF ReadActive, Reader, QuietInv
  <2>2. issues' = {} <=> active' = None
    BY <2>1, FilesRest
  <2>3. QED BY <2>1, <2>2 DEF ReadTruly, Clean
<1>2. CASE ReadCurrent
  <2>1. /\ ReadTruly /\ at = "current" /\ at' = "last_success" /\ UNCHANGED vars
        /\ view' = [view EXCEPT !.current = current] /\ view \in Previous
        /\ issues' = issues \cup (PointerIssues("current") \cup
                        (IF current = None THEN {"CURRENT_POINTER_MISSING"} ELSE {}))
        /\ UNCHANGED forms
    BY <1>2 DEF ReadCurrent, Reader, QuietInv, ReaderInv
  <2>2. view'.current = current
    BY <2>1 DEF Previous
  <2>3. issues' = {} <=> active' = None /\ current' # None /\ form'["current"] = "sound"
    BY <1>0, <2>1, FilesRest DEF ReadTruly, Clean, forms
  <2>4. QED BY <2>1, <2>2, <2>3, FilesRest DEF ReadTruly, Clean
<1>3. CASE ReadLastSuccess
  <2>1. /\ ReadTruly /\ at = "last_success" /\ at' = "archive" /\ UNCHANGED vars
        /\ view' = [view EXCEPT !.lastSuccess = lastSuccess] /\ view \in Previous
        /\ issues' = issues \cup (PointerIssues("last_success") \cup
                        (IF lastSuccess = None THEN {"LAST_SUCCESS_POINTER_MISSING"} ELSE {}))
        /\ UNCHANGED forms
    BY <1>3 DEF ReadLastSuccess, Reader, QuietInv, ReaderInv
  <2>2. view'.lastSuccess = lastSuccess /\ view'.current = view.current
    BY <2>1 DEF Previous
  <2>3. issues' = {} <=> BothRead'
    BY <1>0, <2>1, FilesRest DEF ReadTruly, Clean, forms, BothRead
  <2>4. QED BY <2>1, <2>2, <2>3, FilesRest DEF ReadTruly, Clean, BothRead
<1>4. CASE ReadArchive
  <2>1. /\ ReadTruly /\ at = "archive" /\ at' = "targets" /\ UNCHANGED vars
        /\ view' = [view EXCEPT !.archive = archive] /\ view \in Previous
        /\ issues' = issues \cup
              (IF form["archive"] = "unreadable" THEN {"POINTER_JSON_INVALID"} ELSE {})
        /\ todo' = Targets(view') /\ UNCHANGED forms
    BY <1>4 DEF ReadArchive, Reader, QuietInv, ReaderInv
  <2>2. /\ view'.lastSuccess = view.lastSuccess /\ view'.current = view.current
        /\ view'.archive = archive
    BY <2>1 DEF Previous
  <2>3. Judged' = {}
    BY <2>1 DEF Judged
  <2>4. issues' = {} <=> BothRead' /\ form'["archive"] # "unreadable"
    BY <2>1, FilesRest DEF ReadTruly, Clean, forms, BothRead
  <2>5. QED BY <2>1, <2>2, <2>3, <2>4, FilesRest DEF ReadTruly, Clean, BothRead
<1>5. QED BY <1>1, <1>2, <1>3, <1>4

(* A step past the archive that leaves what was read as it is.              *)
LEMMA TargetsGoOn ==
    ASSUME ReadTruly, at \in PastArchive, at' \in PastArchive, UNCHANGED <<vars, view, forms>>,
           todo' \subseteq todo,
           at' \in Inspecting => target'.named \in Targets(view) \ todo',
           at' = "tree" => /\ target'.manifest = manifests[target'.named.release]
                           /\ manifestForm[target'.named.release]
                                  \in {"sound", "malformed", "wrong_root"},
           issues' = {} <=> Clean'
    PROVE  ReadTruly'
<1>1. view' = view /\ Targets(view)' = Targets(view)
  OBVIOUS
<1>2. "current" \notin PastArchive /\ "last_success" \notin PastArchive
  BY DEF PastArchive, Inspecting
<1>3. at \notin {"current", "last_success"} /\ at' \notin {"current", "last_success"}
  BY <1>2
<1>4. QED BY <1>1, <1>3, FilesRest DEF ReadTruly, forms

AllRead == BothRead /\ form["archive"] # "unreadable"

(* What is clean is decided by the targets judged, and the rest stays.      *)
LEMMA CleanSplit ==
    ASSUME ReadTruly, at \in PastArchive
    PROVE  issues = {} <=> /\ AllRead
                           /\ \A x \in Judged : Flawless(x)
                           /\ at = "tree" => Fits(target.named)
                           /\ at = "done" => ViewIssues(view) = {}
<1>1. at \notin {"current", "last_success"}
  BY DEF PastArchive, Inspecting
<1>2. QED BY <1>1 DEF ReadTruly, Clean, AllRead, BothRead

LEMMA CleanSplitNext ==
    ASSUME at' \in PastArchive
    PROVE  Clean' <=> /\ AllRead'
                      /\ \A x \in Judged' : Flawless(x)'
                      /\ at' = "tree" => Fits(target.named)'
                      /\ at' = "done" => ViewIssues(view)' = {}
<1>1. at' \notin {"current", "last_success"}
  BY DEF PastArchive, Inspecting
<1>2. QED BY <1>1 DEF Clean, AllRead, BothRead

LEMMA WholeStays == ASSUME UNCHANGED vars PROVE \A x : Whole(x)' <=> Whole(x)
BY FilesRest DEF Whole

(* The steps that look at one target, and the rules at the end.             *)
LEMMA TargetsRead ==
    ASSUME TypeInv, ReaderInv, QuietInv, quiet' = quiet, quiet,
           \/ \E x \in todo : LookFor(x)
           \/ LookForManifest \/ ReadManifest \/ WalkTree \/ Conclude
    PROVE  ReadTruly'
<1>0. /\ at \in {"targets"} \cup Inspecting /\ at' \in PastArchive
      /\ UNCHANGED <<vars, view, forms>>
  BY DEF LookFor, LookForManifest, ReadManifest, WalkTree, Conclude, Reader, Inspecting,
         PastArchive
<1>1. /\ ReadTruly /\ at \in PastArchive /\ view' = view /\ at # "done"
      /\ todo \subseteq Targets(view)
  BY <1>0 DEF QuietInv, Inspecting, PastArchive, ReadTruly
<1>2. /\ active' = active /\ current' = current /\ lastSuccess' = lastSuccess
      /\ releases' = releases /\ manifests' = manifests
      /\ form' = form /\ manifestForm' = manifestForm
  BY <1>0, FilesRest DEF forms
<1> DEFINE Base == AllRead
<1>3. issues = {} <=> /\ Base /\ \A x \in Judged : Flawless(x)
                      /\ at = "tree" => Fits(target.named)
  BY <1>1, CleanSplit
<1>4. Clean' <=> /\ Base /\ \A x \in Judged' : Flawless(x)
                 /\ at' = "tree" => Fits(target.named)'
                 /\ at' = "done" => ViewIssues(view) = {}
  <2>1. AllRead' = AllRead /\ \A x : Flawless(x)' <=> Flawless(x)
    BY <1>2 DEF AllRead, BothRead, Flawless, Whole
  <2>2. ViewIssues(view)' = ViewIssues(view)
    BY <1>1, <1>2 DEF ViewIssues, ArchiveIssues
  <2>3. QED BY <1>0, <2>1, <2>2, CleanSplitNext
<1>5. \A x \in Target : x.release \in Release /\ x.digest \in Content /\ x.digest # None
  BY SentinelAssumption DEF Target
<1>6. Targets(view) \in SUBSET Target
  BY TargetsTyped DEF ReaderInv, ReaderTypeOK
<1> HIDE DEF Base
<1>7. ASSUME NEW x \in todo, LookFor(x) PROVE ReadTruly'
  <2>1. /\ at = "targets" /\ todo' = todo \ {x} /\ x \in Targets(view) /\ x \in Target
    BY <1>1, <1>6, <1>7 DEF LookFor, Reader
  <2>2. Judged = Targets(view) \ todo
    BY <2>1 DEF Judged, Inspecting
  <2>3. CASE /\ releases[x.release] = None /\ at' = "targets"
             /\ Report({"POINTER_TARGET_MISSING"})
    <3>1. x \in Judged' /\ ~Flawless(x)
      BY <1>1, <1>5, <2>1, <2>3 DEF Judged, Flawless, Whole, Inspecting
    <3>2. issues' # {} /\ ~Clean'
      BY <1>4, <2>3, <3>1 DEF Report
    <3>3. QED BY <1>0, <1>1, <2>1, <2>3, <3>2, TargetsGoOn DEF Inspecting
  <2>4. CASE /\ at' = "manifest_exists" /\ target' = [named |-> x, manifest |-> None]
             /\ issues' = issues
    <3>1. target'.named = x /\ at' \in Inspecting
      BY <2>4 DEF Inspecting
    <3>2. Judged' = Judged
      BY <1>1, <2>1, <2>2, <3>1 DEF Judged
    <3>3. issues' = {} <=> Clean'
      BY <1>3, <1>4, <2>1, <2>4, <3>2
    <3>4. QED BY <1>0, <1>1, <2>1, <2>4, <3>1, <3>3, TargetsGoOn
  <2>5. QED BY <1>7, <2>3, <2>4 DEF LookFor, Reader
<1> DEFINE x == target.named
<1>8. at \in Inspecting =>
         /\ x \in Targets(view) \ todo /\ x \in Target
         /\ x.release \in Release /\ x.digest \in Content /\ x.digest # None
         /\ target = [named |-> x, manifest |-> target.manifest]
         /\ Judged \cup {x} = Targets(view) \ todo
  <2> HAVE at \in Inspecting
  <2>1. x \in Targets(view) \ todo /\ target \in Inspected
    BY <1>1 DEF ReadTruly, ReaderInv
  <2>2. Judged = (Targets(view) \ todo) \ {x}
    BY DEF Judged
  <2>3. target = [named |-> x, manifest |-> target.manifest]
    BY <2>1 DEF Inspected
  <2>4. QED BY <1>5, <1>6, <2>1, <2>2, <2>3
<1> HIDE DEF x
<1>9. CASE LookForManifest
  <2>1. at = "manifest_exists" /\ at \in Inspecting /\ todo' = todo
    BY <1>9 DEF LookForManifest, Reader, Inspecting
  <2>2. CASE at' = "manifest" /\ UNCHANGED <<issues, target>>
    <3>1. Judged' = Judged /\ at' \in Inspecting /\ target'.named = x
      BY <1>1, <2>1, <2>2 DEF Judged, Inspecting, x
    <3>2. issues' = {} <=> Clean'
      BY <1>3, <1>4, <2>1, <2>2, <3>1
    <3>3. QED BY <1>0, <1>1, <1>8, <2>1, <2>2, <3>1, <3>2, TargetsGoOn
  <2>3. CASE at' = "targets" /\ ~ManifestHere /\ Report({"POINTER_TARGET_MISSING"})
    <3>1. x \in Judged' /\ ~Flawless(x)
      BY <1>1, <1>8, <2>1, <2>3 DEF Judged, Flawless, Whole, Inspecting, ManifestHere, x
    <3>2. issues' # {} /\ ~Clean'
      BY <1>4, <2>3, <3>1 DEF Report
    <3>3. QED BY <1>0, <1>1, <2>1, <2>3, <3>2, TargetsGoOn DEF Inspecting
  <2>4. QED BY <1>9, <2>2, <2>3 DEF LookForManifest, Reader
<1>10. CASE ReadManifest
  <2>1. at = "manifest" /\ at \in Inspecting /\ todo' = todo
    BY <1>10 DEF ReadManifest, Reader, Inspecting
  <2>2. CASE /\ at' = "tree" /\ FormOfManifest \notin {"unreadable", "not_object"}
             /\ target' = [target EXCEPT !.manifest = manifests[x.release]]
             /\ issues' = issues
                     \cup (When(FormOfManifest = "wrong_root", "POINTER_MANIFEST_ROOT_MISMATCH")
                     \cup When(target'.manifest # x.digest, "POINTER_MANIFEST_HASH_MISMATCH"))
    <3>1. target'.named = x /\ target'.manifest = manifests[x.release] /\ at' \in Inspecting
      BY <1>8, <2>1, <2>2 DEF Inspecting
    <3>2. Judged' = Judged
      BY <1>1, <2>1, <3>1 DEF Judged, x
    <3>3. Fits(target.named)' <=> target'.manifest = x.digest
                                  /\ manifestForm[x.release] # "wrong_root"
      BY <1>2, <3>1 DEF Fits
    <3>4. FormOfManifest = manifestForm[x.release]
      BY DEF FormOfManifest, x
    <3>5. issues' = {} <=> issues = {} /\ Fits(target.named)'
      BY <2>2, <3>3, <3>4 DEF When
    <3>6. issues' = {} <=> Clean'
      BY <1>3, <1>4, <2>1, <2>2, <3>2, <3>5
    <3>7. manifestForm[x.release] \in {"sound", "malformed", "wrong_root"}
      BY <1>8, <2>1, <2>2, <3>4 DEF ReaderInv, ReaderTypeOK, ManifestForm
    <3>8. QED BY <1>0, <1>1, <1>8, <2>1, <2>2, <3>1, <3>6, <3>7, TargetsGoOn
  <2>3. CASE /\ at' = "targets" /\ FormOfManifest = "unreadable"
             /\ Report({"POINTER_MANIFEST_INVALID"})
    <3>1. x \in Judged' /\ ~Flawless(x)
      BY <1>1, <1>8, <2>1, <2>3 DEF Judged, Flawless, Inspecting, FormOfManifest, x
    <3>2. issues' # {} /\ ~Clean'
      BY <1>4, <2>3, <3>1 DEF Report
    <3>3. QED BY <1>0, <1>1, <2>1, <2>3, <3>2, TargetsGoOn DEF Inspecting
  <2>4. QED BY <1>10, <2>2, <2>3 DEF ReadManifest, Reader, Report, x
<1>11. CASE WalkTree
  <2>1. /\ at = "tree" /\ at' = "targets" /\ at \in Inspecting /\ at' \notin Inspecting
        /\ todo' = todo
        /\ issues' = issues \cup IF manifestForm[x.release] = "malformed"
                                 THEN {"SCHEMA_VIOLATION"}
                                 ELSE When(releases[x.release] # target.manifest,
                                           "MANIFEST_MISMATCH")
    BY <1>11 DEF WalkTree, Reader, Inspecting, Report, FormOfManifest, x
  <2>2. Judged' = Judged \cup {x}
    BY <1>1, <1>8, <2>1 DEF Judged
  <2>3. /\ target.manifest = manifests[x.release]
        /\ manifestForm[x.release] \in {"sound", "malformed", "wrong_root"}
    BY <1>1, <2>1 DEF ReadTruly, x
  <2>4. Flawless(x) <=> /\ Fits(x) /\ manifestForm[x.release] # "malformed"
                        /\ releases[x.release] = target.manifest
    BY <2>3 DEF Flawless, Whole, Fits
  <2>5. issues' = {} <=> /\ issues = {} /\ releases[x.release] = target.manifest
                         /\ manifestForm[x.release] # "malformed"
    BY <2>1 DEF When
  <2>6. issues' = {} <=> Clean'
    BY <1>3, <1>4, <2>1, <2>2, <2>4, <2>5 DEF x
  <2>7. QED BY <1>0, <1>1, <2>1, <2>6, TargetsGoOn
<1>12. CASE Conclude
  <2>1. /\ at = "targets" /\ at' = "done" /\ todo' = todo
        /\ issues' = issues \cup ViewIssues(view)
    BY <1>12 DEF Conclude, Reader, Report
  <2>2. Judged' = Judged
    BY <1>1, <2>1 DEF Judged, Inspecting
  <2>3. issues' = {} <=> Clean'
    BY <1>3, <1>4, <2>1, <2>2
  <2>4. QED BY <1>0, <1>1, <2>1, <2>3, TargetsGoOn DEF Inspecting
<1>13. QED BY <1>7, <1>9, <1>10, <1>11, <1>12

LEMMA QuietBegins == ReaderInit => QuietInv
BY DEF ReaderInit, QuietInv

LEMMA QuietStep ==
    TypeInv /\ ReaderInv /\ QuietInv /\ [EngineNext \/ ReaderNext]_allVars => QuietInv'
<1> SUFFICES ASSUME TypeInv, ReaderInv, QuietInv, [EngineNext \/ ReaderNext]_allVars
             PROVE  QuietInv'
  OBVIOUS
<1>1. CASE UNCHANGED allVars
  <2>1. /\ UNCHANGED <<files, at, view, todo, target, issues, forms>> /\ quiet' = quiet
    BY <1>1 DEF allVars, readerVars, vars, files, forms
  <2>2. QED BY <2>1, SameReading DEF QuietInv
<1>2. CASE EngineNext
  <2>1. /\ UNCHANGED <<at, view, todo, target, issues, forms>>
        /\ at # "idle" /\ quiet' => quiet /\ UNCHANGED files
    BY <1>2 DEF EngineNext
  <2>2. QED BY <2>1, SameReading DEF QuietInv
<1>3. CASE BreakOff \/ Again
  BY <1>3 DEF BreakOff, Again, QuietInv
<1>4. CASE ReadActive \/ ReadCurrent \/ ReadLastSuccess \/ ReadArchive
  <2>1. quiet' = quiet /\ at' # "idle"
    BY <1>4 DEF ReadActive, ReadCurrent, ReadLastSuccess, ReadArchive, Reader
  <2>2. QED BY <1>4, <2>1, PointersRead DEF QuietInv
<1>5. CASE \/ \E x \in todo : LookFor(x)
           \/ LookForManifest \/ ReadManifest \/ WalkTree \/ Conclude
  <2>1. quiet' = quiet /\ at' # "idle"
    BY <1>5 DEF LookFor, LookForManifest, ReadManifest, WalkTree, Conclude, Reader
  <2>2. QED BY <1>5, <2>1, TargetsRead DEF QuietInv
<1>6. QED BY <1>1, <1>2, <1>3, <1>4, <1>5 DEF ReaderNext

(* At the end every target has been judged, and a clean reading is the      *)
(* definition of a healthy workspace.                                       *)
LEMMA HealthyIsClean ==
    ASSUME TypeInv, ReaderInv, ReadTruly, at = "done" PROVE issues = {} <=> Healthy
<1>1. /\ view.current = current /\ view.lastSuccess = lastSuccess
      /\ view.archive = archive /\ todo = {} /\ at \in PastArchive /\ at \notin Inspecting
  BY DEF ReadTruly, ReaderInv, PastArchive, Inspecting
<1>2. Judged = Targets(view)
  BY <1>1 DEF Judged
<1>3. issues = {} <=> /\ AllRead
                      /\ \A x \in Targets(view) : Flawless(x)
                      /\ ViewIssues(view) = {}
  BY <1>1, <1>2, CleanSplit
<1>4. ASSUME current # None, lastSuccess # None
      PROVE  (\A x \in Targets(view) : Flawless(x)) <=>
                /\ Flawless(current) /\ Flawless(lastSuccess)
                /\ \A e \in archive : Flawless(e)
  <2>1. Targets(view) = {Named("current", current), Named("last_success", lastSuccess)}
                        \cup {Named("archive", e) : e \in archive}
    BY <1>1, <1>4 DEF Targets
  <2>2. \A f, x : Flawless(Named(f, x)) <=> Flawless(x)
    BY DEF Flawless, Whole, Named
  <2>3. QED BY <2>1, <2>2
<1> DEFINE Refused == form["archive"] \in {"malformed", "incomplete"}
                      \/ \E e \in archive : e.reason = "long"
           Twice == \E e, f \in archive : e # f /\ e.release = f.release
           Same == lastSuccess.release = current.release /\ lastSuccess.digest = current.digest
           Apart == \A e \in archive : e.release # current.release
           Short == \A e \in archive : e.reason = "short"
<1>5. ArchiveIssues(archive) = {} <=> ~Refused /\ ~Twice /\ form["archive"] # "unsorted"
  BY DEF ArchiveIssues, When
<1>6. ViewIssues(view) = {} <=>
         /\ ~(current # None /\ lastSuccess # None /\ ~Agree(current, lastSuccess))
         /\ ArchiveIssues(archive) = {}
         /\ ~\E e \in archive : current # None /\ e.release = current.release
  BY <1>1 DEF ViewIssues, When
<1>7. /\ Agree(current, lastSuccess) <=> Same
      /\ Same => (Flawless(current) <=> Flawless(lastSuccess))
  BY DEF Agree, Flawless, Whole
<1>8. (\E e \in archive : e.reason = "long") <=> ~Short
  <2>1. \A e \in archive : e.reason \in {"short", "long"}
    BY FilesOfKind DEF Entry, Reason
  <2>2. QED BY <2>1
<1>9. form["archive"] \in ArchiveForm
  BY DEF ReaderInv, ReaderTypeOK, FileForms
<1>10. (\A f \in PointerFile : form[f] = "sound") <=>
          /\ form["current"] = "sound" /\ form["last_success"] = "sound"
          /\ form["archive"] = "sound"
  BY DEF PointerFile
<1>11. form["archive"] = "sound" <=>
          form["archive"] \notin {"unreadable", "malformed", "incomplete", "unsorted"}
  BY <1>9 DEF ArchiveForm
<1>12. Healthy <=>
         /\ active = None /\ current # None /\ lastSuccess # None /\ Same
         /\ Flawless(current) /\ \A e \in archive : Flawless(e)
         /\ Apart /\ Short /\ ~Twice
         /\ form["current"] = "sound" /\ form["last_success"] = "sound"
         /\ form["archive"] = "sound"
  BY <1>10 DEF Healthy, Flawless, Whole
<1>13. AllRead <=> /\ active = None /\ current # None /\ lastSuccess # None
                   /\ form["current"] = "sound" /\ form["last_success"] = "sound"
                   /\ form["archive"] # "unreadable"
  BY DEF AllRead, BothRead
<1> HIDE DEF Twice, Same, Short
<1>14. QED BY <1>3, <1>4, <1>5, <1>6, <1>7, <1>8, <1>11, <1>12, <1>13

(* Over every workspace, with any number of its pointer, archive and        *)
(* manifest files missing or damaged in any of the modelled ways, and       *)
(* beside every engine: if nobody writes while the reader reads and it      *)
(* comes to a report, this is empty exactly when the workspace is healthy.  *)
THEOREM ReportsAreRight == ValidationSpec => []QuietReportIsRight
<1>1. ValidationInit => TypeInv /\ ReaderInv /\ QuietInv
  BY InitFiles, InitForms, ReaderBegins, QuietBegins DEF ValidationInit
<1>2. TypeInv /\ ReaderInv /\ QuietInv => QuietReportIsRight
  BY HealthyIsClean DEF QuietReportIsRight, QuietInv
<1>3. TypeInv /\ ReaderInv /\ QuietInv /\ [EngineNext \/ ReaderNext]_allVars
      => (TypeInv /\ ReaderInv /\ QuietInv)'
  BY FilesStep, ReadingTyped, QuietStep
<1>4. QED BY <1>1, <1>2, <1>3, PTL DEF ValidationSpec
-----------------------------------------------------------------------------
(* A reading beside the engine *)

Published ==
    /\ current # None => Installed(current)
    /\ lastSuccess # None => Installed(lastSuccess)
    /\ \A e \in archive : Installed(e)

(* A promotion's manifest is installed once.                                *)
Vacant ==
    \A p \in Proc : pc[p] \in Staging \ {"mark_installed"} =>
        manifests[job[p].target] = None

Faulty == {"POINTER_TARGET_MISSING", "MANIFEST_MISMATCH",
           "POINTER_MANIFEST_HASH_MISMATCH"}

(* Nothing the reader has read of has gone.                                 *)
StillWhole ==
    /\ view.current # None => Whole(view.current)
    /\ view.lastSuccess # None => Whole(view.lastSuccess)
    /\ \A e \in view.archive : Whole(e)
    /\ \A x \in todo : Whole(x)
    /\ at \in Inspecting => Whole(target.named)
    /\ at = "tree" => target.manifest = target.named.digest
    /\ issues \cap Faulty = {}

BesideInv ==
    ~found => /\ Inv /\ Published /\ Vacant /\ Undamaged
              /\ ~removed => StillWhole

EngineMoves(p) == Call(p) \/ Step(p) \/ Failure(p)

(* The steps that write a tree or a manifest, or a pointer file.            *)
Trees(p) ==
    \/ CopyTree(p) \/ Reconcile(p) \/ StageManifest(p)
    \/ InstallRelease(p) \/ InstallManifest(p)
    \/ RemoveStaging(p) \/ RemoveStagedManifest(p) \/ Removes(p)
Pointers(p) ==
    \/ Archive(p) \/ SetCurrent(p) \/ SetLastSuccess(p)
    \/ RestoreCurrent(p) \/ RestoreLastSuccess(p) \/ RestoreArchive(p)

LEMMA WhoWrites ==
    ASSUME NEW p \in Proc, EngineMoves(p)
    PROVE  /\ Trees(p) \/ UNCHANGED <<releases, manifests>>
           /\ Pointers(p) \/ UNCHANGED pointerFiles
<1>1. CASE Call(p) \/ Locking(p) \/ Failure(p) \/ Check(p) \/ CheckRecover(p)
  BY <1>1
  DEF Call, StartPromote, StartRollback, StartRecover, StartForcedRecover, Start,
      Locking, ForceUnlock, Acquire, Contended, Unlock, trees,
      Failure, RaiseException, RaiseInTail, Interrupt, Kill, Check, CheckRecover
<1>2. CASE \/ Begin(p) \/ Mark(p) \/ FinishActive(p) \/ FinishHistory(p) \/ FinishClear(p)
  BY <1>2 DEF Begin, Mark, FinishActive, FinishHistory, FinishClear, trees
<1>3. CASE Trees(p)
  BY <1>3
  DEF Trees, CopyTree, Reconcile, StageManifest, InstallRelease, InstallManifest,
      RemoveStaging, RemoveStagedManifest, Removes, RemoveInstalled, RemoveManifest
<1>4. CASE Pointers(p)
  BY <1>4
  DEF Pointers, Archive, SetCurrent, SetLastSuccess, RestoreCurrent,
      RestoreLastSuccess, RestoreArchive, trees
<1>5. QED
  BY <1>1, <1>2, <1>3, <1>4
  DEF EngineMoves, Step, Apply, Finish, Undo, Trees, Pointers, Removes

(* What is installed stays installed, unless it is removed: a promotion     *)
(* installs over nothing.                                                   *)
LEMMA InstalledLasts ==
    ASSUME Inv, Vacant, NEW p \in Proc, EngineMoves(p), ~Removes(p),
           NEW r \in Release, NEW c \in Content, releases[r] = c, manifests[r] = c
    PROVE  releases'[r] = c /\ manifests'[r] = c
<1>1. TypeInv /\ c # None
  BY SentinelAssumption DEF Inv, LockInv
<1>2. CASE UNCHANGED <<releases, manifests>>
  BY <1>2
<1>3. CASE \/ CopyTree(p) \/ Reconcile(p) \/ StageManifest(p)
           \/ RemoveStaging(p) \/ RemoveStagedManifest(p)
  BY <1>3 DEF CopyTree, Reconcile, StageManifest, RemoveStaging, RemoveStagedManifest
<1>4. CASE InstallRelease(p)
  BY <1>1, <1>4 DEF InstallRelease, TypeInv, FilesTyped
<1>5. CASE InstallManifest(p)
  <2>1. pc[p] \in Staging \ {"mark_installed"}
    BY <1>5 DEF InstallManifest, Staging
  <2>2. manifests[job[p].target] = None
    BY <2>1 DEF Vacant
  <2>3. QED BY <1>1, <1>5, <2>2 DEF InstallManifest, TypeInv, FilesTyped
<1>6. QED BY <1>2, <1>3, <1>4, <1>5, WhoWrites DEF Trees

LEMMA OthersRest ==
    ASSUME TypeInv, NEW p \in Proc, EngineMoves(p), NEW q \in Proc, q # p
    PROVE  pc'[q] = pc[q] /\ job'[q] = job[q]
<1> USE DEF TypeInv, CallsTyped, Goto, Go, Quit
<1>1. CASE Call(p) \/ Locking(p)
  BY <1>1
  DEF Call, StartPromote, StartRollback, StartRecover, StartForcedRecover, Start,
      Locking, ForceUnlock, Acquire, Contended, Unlock
<1>2. CASE Failure(p)
  BY <1>2 DEF Failure, RaiseException, RaiseInTail, Interrupt, Kill, Raise
<1>3. CASE Check(p) \/ CheckRecover(p) \/ Begin(p)
  BY <1>3 DEF Check, Admit, CheckRecover, Begin
<1>4. CASE Mark(p) \/ FinishActive(p) \/ FinishHistory(p) \/ FinishClear(p)
  BY <1>4 DEF Mark, FinishActive, FinishHistory, FinishClear, WriteJournal
<1>5. CASE Trees(p)
  BY <1>5
  DEF Trees, CopyTree, Reconcile, StageManifest, InstallRelease, InstallManifest, Raise,
      RemoveStaging, RemoveStagedManifest, Removes, RemoveInstalled, RemoveManifest
<1>6. CASE Pointers(p)
  BY <1>6
  DEF Pointers, Archive, SetCurrent, SetLastSuccess, RestoreCurrent, Raise,
      RestoreLastSuccess, RestoreArchive
<1>7. QED
  BY <1>1, <1>2, <1>3, <1>4, <1>5, <1>6
  DEF EngineMoves, Step, Apply, Finish, Undo, Trees, Pointers, Removes

LEMMA TreesInside ==
    ASSUME NEW p \in Proc, Trees(p) \/ Pointers(p) PROVE pc[p] \in Critical
BY DEF Trees, CopyTree, Reconcile, StageManifest, InstallRelease, InstallManifest,
   RemoveStaging, RemoveStagedManifest, Removes, RemoveInstalled, RemoveManifest,
   Pointers, Archive, SetCurrent, SetLastSuccess, RestoreCurrent, RestoreLastSuccess,
   RestoreArchive, Go, Critical, Body, Staging, Pointing, Restoring, Removing

Early == Staging \ {"mark_installed"}

LEMMA EarlyLabels ==
    /\ Early = {"copy", "copying", "stage_manifest", "mark_staged",
                "install_release", "install_manifest"}
    /\ Early \subseteq Critical
BY DEF Early, Staging, Critical, Body

(* The steps after which a call is still to install its manifest.           *)
LEMMA EntersEarly ==
    ASSUME TypeInv, NEW p \in Proc, EngineMoves(p), pc'[p] \in Early
    PROVE  /\ manifests' = manifests /\ job'[p].target = job[p].target
           /\ \/ pc[p] \in Early
              \/ pc[p] = "begin" /\ job[p].op = "PROMOTE"
<1> USE EarlyLabels DEF TypeInv, CallsTyped, Goto, Go
<1>1. CASE Call(p) \/ Locking(p)
  BY <1>1
  DEF Call, StartPromote, StartRollback, StartRecover, StartForcedRecover, Start,
      Locking, ForceUnlock, Acquire, Contended, Unlock, Quit
<1>2. CASE Failure(p)
  BY <1>2 DEF Failure, RaiseException, RaiseInTail, Interrupt, Kill, Raise, Quit
<1>3. CASE Check(p) \/ CheckRecover(p)
  BY <1>3 DEF Check, Admit, CheckRecover, ResumeAt
<1>4. CASE Begin(p)
  BY <1>4 DEF Begin, trees, Job
<1>5. CASE Mark(p)
  BY <1>5 DEF Mark, WriteJournal, trees, Job
<1>6. CASE FinishActive(p) \/ FinishHistory(p) \/ FinishClear(p)
  BY <1>6 DEF FinishActive, FinishHistory, FinishClear
<1>7. CASE CopyTree(p) \/ Reconcile(p) \/ StageManifest(p) \/ InstallRelease(p)
  BY <1>7 DEF CopyTree, Reconcile, StageManifest, InstallRelease, Raise
<1>8. CASE \/ InstallManifest(p) \/ RemoveStaging(p) \/ RemoveStagedManifest(p)
           \/ RemoveInstalled(p) \/ RemoveManifest(p)
  BY <1>8
  DEF InstallManifest, RemoveStaging, RemoveStagedManifest, RemoveInstalled,
      RemoveManifest, Raise
<1>9. CASE Pointers(p)
  BY <1>9
  DEF Pointers, Archive, SetCurrent, SetLastSuccess, RestoreCurrent, Raise,
      RestoreLastSuccess, RestoreArchive, Restored
<1>10. QED
  BY <1>1, <1>2, <1>3, <1>4, <1>5, <1>6, <1>7, <1>8, <1>9
  DEF EngineMoves, Step, Apply, Finish, Undo, Pointers

LEMMA VacantStep ==
    ASSUME Inv, Vacant, NEW p \in Proc, EngineMoves(p) PROVE Vacant'
<1>1. TypeInv
  BY DEF Inv, LockInv
<1>2. SUFFICES ASSUME NEW q \in Proc, pc'[q] \in Early
               PROVE  manifests'[job'[q].target] = None
  BY DEF Vacant, Early
<1>3. CASE q = p
  <2>1. /\ manifests' = manifests /\ job'[p].target = job[p].target
        /\ \/ pc[p] \in Early
           \/ pc[p] = "begin" /\ job[p].op = "PROMOTE"
    BY <1>1, <1>2, <1>3, EntersEarly
  <2>2. CASE pc[p] \in Early
    BY <1>3, <2>1, <2>2 DEF Vacant, Early
  <2>3. CASE pc[p] = "begin" /\ job[p].op = "PROMOTE"
    <3>1. Admitted(job[p])
      BY <2>3, Here, CriticalLabels DEF Progress
    <3>2. QED BY <1>3, <2>1, <2>3, <3>1 DEF Admitted, NotInstalled
  <2>4. QED BY <2>1, <2>2, <2>3
<1>4. CASE q # p
  <2>1. pc[q] \in Early /\ job'[q] = job[q] /\ pc[q] \in Critical
    BY <1>1, <1>2, <1>4, OthersRest, EarlyLabels
  <2>2. pc[p] \notin Critical
    BY <1>4, <2>1, SentinelAssumption DEF Inv, LockInv, SingleWriter
  <2>3. manifests' = manifests
    BY <2>2, TreesInside, WhoWrites
  <2>4. QED BY <2>1, <2>3 DEF Vacant, Early
<1>5. QED BY <1>3, <1>4

(* A pointer file is written after, and its release removed before it is    *)
(* withdrawn.                                                               *)
LEMMA PublishedStep ==
    ASSUME Inv, Published, Vacant, NEW p \in Proc, EngineMoves(p) PROVE Published'
<1>1. /\ TypeInv /\ current \in Pointer \cup {None}
      /\ lastSuccess \in Pointer \cup {None} /\ archive \in SUBSET Entry
  BY DEF Inv, LockInv, TypeInv, FilesTyped
<1>2. \A x \in Pointer \cup Entry : x.release \in Release /\ x.digest \in Content
  BY DEF Pointer, Entry
<1>3. CASE UNCHANGED pointerFiles /\ ~Removes(p)
  <2>1. \A x \in Pointer \cup Entry : Installed(x) =>
           releases'[x.release] = x.digest /\ manifests'[x.release] = x.digest
    BY <1>2, <1>3, InstalledLasts DEF Installed
  <2>2. QED BY <1>1, <1>3, <2>1 DEF Published, Installed, pointerFiles
<1>4. CASE Removes(p)
  <2>1. /\ pc[p] \in Removing /\ UNCHANGED pointerFiles /\ pc[p] \in Journaled
        /\ \A r \in Release : r # job[p].journal.target =>
              releases'[r] = releases[r] /\ manifests'[r] = manifests[r]
    BY <1>1, <1>4 DEF Removes, RemoveInstalled, RemoveManifest, Go, Removing, Journaled,
       TypeInv, FilesTyped
  <2>2. /\ job[p].journal = active /\ Snapshots = active.prev /\ active.op = "PROMOTE"
        /\ ~Names(active.prev, active.target)
    BY <2>1, UnderJournal DEF Progress, RemovedTo, OpenOK
  <2>3. /\ current # None => current.release # active.target
        /\ \A e \in archive : e.release # active.target
    BY <2>2 DEF Names, Snapshots
  <2>4. lastSuccess = current
    BY <2>1, <2>2, UnderJournal DEF Consistent, Snapshots
  <2>5. QED BY <1>1, <1>2, <2>1, <2>2, <2>3, <2>4 DEF Published, Installed, pointerFiles
<1>5. CASE Archive(p) \/ SetCurrent(p) \/ SetLastSuccess(p)
  <2>1. pc[p] \in Pointing /\ pc[p] \in Working /\ UNCHANGED trees
    BY <1>5 DEF Archive, SetCurrent, SetLastSuccess, Go, Pointing, Working
  <2>2. releases[job[p].target] = job[p].digest /\ manifests[job[p].target] = job[p].digest
    BY <2>1, AtWork DEF Applying, Placed
  <2>3. Installed(NewPointer(p))
    BY <2>2 DEF Installed, NewPointer
  <2>4. CASE Archive(p)
    <3>1. UNCHANGED <<current, lastSuccess>>
      BY <2>4 DEF Archive
    <3>2. \A e \in archive' : e \in archive \/
             (current # None /\ e.release = current.release /\ e.digest = current.digest)
      BY <2>4 DEF Archive, ArchivePrevious, KeptEntries
    <3>3. \A e \in archive' : Installed(e)
      BY <3>2 DEF Published, Installed
    <3>4. QED BY <2>1, <3>1, <3>3 DEF Published, Installed, trees
  <2>5. CASE SetCurrent(p) \/ SetLastSuccess(p)
    BY <2>1, <2>3, <2>5 DEF SetCurrent, SetLastSuccess, Published, Installed, trees
  <2>6. QED BY <1>5, <2>4, <2>5
<1>6. CASE RestoreCurrent(p) \/ RestoreLastSuccess(p) \/ RestoreArchive(p)
  <2>1. pc[p] \in Journaled /\ UNCHANGED trees
    BY <1>6 DEF RestoreCurrent, RestoreLastSuccess, RestoreArchive, Go, Restoring, Journaled
  <2>2. job[p].journal = active /\ Consistent(active.prev)
    BY <2>1, UnderJournal
  <2>3. CASE RestoreCurrent(p)
    BY <2>1, <2>2, <2>3 DEF RestoreCurrent, Consistent, Published, Installed, trees
  <2>4. CASE RestoreLastSuccess(p)
    BY <2>1, <2>2, <2>4 DEF RestoreLastSuccess, Consistent, Published, Installed, trees
  <2>5. CASE RestoreArchive(p)
    BY <2>1, <2>2, <2>5 DEF RestoreArchive, Consistent, Published, Installed, trees
  <2>6. QED BY <1>6, <2>3, <2>4, <2>5
<1>7. QED BY <1>3, <1>4, <1>5, <1>6, WhoWrites DEF Pointers

LEMMA EngineStays ==
    ASSUME Inv, Published, Vacant, UNCHANGED vars, Hypotheses
    PROVE  Inv' /\ Published' /\ Vacant' /\ \A x : Whole(x)' <=> Whole(x)
<1>1. Inv'
  BY NextInv
<1>2. pc' = pc /\ job' = job
  BY DEF vars
<1>3. QED BY <1>1, <1>2, FilesRest DEF Published, Vacant, Installed, Whole

(* What was whole when the reader read of it is whole while nothing is      *)
(* removed.                                                                 *)
LEMMA BesideEngine ==
    ASSUME TypeInv, ReaderInv, QuietInv, Inv, Vacant, NEW p \in Proc, EngineMoves(p),
           at # "idle" => StillWhole /\ ~Removes(p),
           UNCHANGED <<at, view, todo, target, issues>>
    PROVE  StillWhole'
<1>1. CASE at = "idle"
  <2>1. /\ view' = NoView /\ todo' = {} /\ issues' = {} /\ at' = "idle"
    BY <1>1 DEF ReaderInv, QuietInv, Inspecting
  <2>2. QED BY <2>1 DEF StillWhole, NoView, Inspecting
<1>2. CASE at # "idle"
  <2>1. \A x : x.release \in Release /\ x.digest \in Content /\ Whole(x) =>
           releases'[x.release] = x.digest /\ manifests'[x.release] = x.digest
    BY <1>2, InstalledLasts DEF Whole
  <2>2. \A x \in Pointer \cup Entry \cup Target :
           x.release \in Release /\ x.digest \in Content
    BY DEF Pointer, Entry, Target
  <2>3. /\ view.current \in Pointer \cup {None} /\ view.lastSuccess \in Pointer \cup {None}
        /\ view.archive \in SUBSET Entry /\ todo \in SUBSET Target
        /\ at \in Inspecting => target.named \in Target
    BY DEF ReaderInv, ReaderTypeOK, Inspected
  <2>4. QED BY <1>2, <2>1, <2>2, <2>3 DEF StillWhole, Whole
<1>3. QED BY <1>1, <1>2

LEMMA OtherIssues ==
    /\ \A f : PointerIssues(f) \cap Faulty = {}
    /\ \A v : ViewIssues(v) \cap Faulty = {}
<1>1. \A E : ArchiveIssues(E) \cap Faulty = {}
  BY DEF ArchiveIssues, When, Faulty
<1>2. QED BY <1>1 DEF PointerIssues, ViewIssues, When, Faulty

LEMMA BesideReads ==
    ASSUME TypeInv, ReaderInv, QuietInv, Published, StillWhole, UNCHANGED vars,
           ReadActive \/ ReadCurrent \/ ReadLastSuccess \/ ReadArchive
    PROVE  StillWhole'
<1>1. \A x : Whole(x)' <=> Whole(x)
  BY WholeStays
<1>2. /\ current # None => Whole(current)
      /\ lastSuccess # None => Whole(lastSuccess)
      /\ \A e \in archive : Whole(e)
  BY DEF Published, Installed, Whole
<1> USE DEF Inspecting, Report, When, Faulty
<1>3. CASE ReadActive
  BY <1>1, <1>3 DEF ReadActive, Reader, StillWhole
<1>4. CASE ReadCurrent
  <2>1. /\ view'.current = current /\ view'.lastSuccess = view.lastSuccess
        /\ view'.archive = view.archive
    BY <1>4 DEF ReadCurrent, ReaderInv, Previous
  <2>2. QED BY <1>1, <1>2, <1>4, <2>1, OtherIssues DEF ReadCurrent, Reader, StillWhole
<1>5. CASE ReadLastSuccess
  <2>1. /\ view'.current = view.current /\ view'.lastSuccess = lastSuccess
        /\ view'.archive = view.archive
    BY <1>5 DEF ReadLastSuccess, ReaderInv, Previous
  <2>2. QED BY <1>1, <1>2, <1>5, <2>1, OtherIssues DEF ReadLastSuccess, Reader, StillWhole
<1>6. CASE ReadArchive
  <2>1. /\ view'.current = view.current /\ view'.lastSuccess = view.lastSuccess
        /\ view'.archive = archive /\ todo' = Targets(view') /\ at' = "targets"
    BY <1>6 DEF ReadArchive, Reader, ReaderInv, Previous
  <2>2. /\ view'.current # None => Whole(view'.current)
        /\ view'.lastSuccess # None => Whole(view'.lastSuccess)
        /\ \A e \in view'.archive : Whole(e)
    BY <1>2, <2>1 DEF StillWhole
  <2>3. \A f, x : Whole(x) => Whole(Named(f, x))
    BY DEF Whole, Named
  <2>4. \A x \in todo' : Whole(x)
    BY <2>1, <2>2, <2>3 DEF Targets
  <2>5. issues' \cap Faulty = {}
    BY <1>6 DEF ReadArchive, StillWhole
  <2>6. QED BY <1>1, <2>1, <2>2, <2>4, <2>5 DEF StillWhole
<1>7. QED BY <1>3, <1>4, <1>5, <1>6

LEMMA BesideTargets ==
    ASSUME TypeInv, ReaderInv, StillWhole, UNCHANGED vars, Undamaged,
           \/ \E x \in todo : LookFor(x)
           \/ LookForManifest \/ ReadManifest \/ WalkTree \/ Conclude
    PROVE  StillWhole'
<1>1. \A x : Whole(x)' <=> Whole(x)
  BY WholeStays
<1>2. \A x \in Target : x.digest # None
  BY SentinelAssumption DEF Target
<1>3. at \in Inspecting => Whole(target.named) /\ target.named.digest # None
  BY <1>2 DEF StillWhole, ReaderInv, Inspected
<1>0. at \in Inspecting => FormOfManifest = "sound"
  <2>1. at \in Inspecting => target.named.release \in Release
    BY DEF ReaderInv, Inspected, Target
  <2>2. QED BY <2>1 DEF Undamaged, FormOfManifest
<1> USE DEF Inspecting, Report, When
<1>4. ASSUME NEW x \in todo, LookFor(x) PROVE StillWhole'
  <2>1. Whole(x) /\ x.digest # None
    BY <1>2, <1>4 DEF StillWhole, ReaderInv, ReaderTypeOK
  <2>2. /\ at' = "manifest_exists" /\ target' = [named |-> x, manifest |-> None]
        /\ todo' = todo \ {x} /\ UNCHANGED <<issues, view>>
    BY <1>4, <2>1 DEF LookFor, Reader, Whole
  <2>3. target'.named = x
    BY <2>2
  <2>4. QED BY <1>1, <2>1, <2>2, <2>3 DEF StillWhole
<1>5. CASE LookForManifest
  <2>1. at = "manifest_exists" /\ ManifestHere
    BY <1>3, <1>5 DEF LookForManifest, Reader, ManifestHere, Whole
  <2>2. at' = "manifest" /\ UNCHANGED <<issues, target, view, todo>>
    BY <1>5, <2>1 DEF LookForManifest, Reader
  <2>3. QED BY <1>1, <1>3, <2>1, <2>2 DEF StillWhole
<1>6. CASE ReadManifest
  <2>1. /\ at = "manifest" /\ at' = "tree" /\ UNCHANGED <<view, todo>>
        /\ target \in Inspected
        /\ target' = [target EXCEPT !.manifest = manifests[target.named.release]]
    BY <1>0, <1>6 DEF ReadManifest, Reader, ReaderInv
  <2>2. target'.named = target.named /\ target'.manifest = target.named.digest
    BY <1>3, <2>1 DEF Inspected, Whole
  <2>3. issues' = issues
    BY <1>0, <1>6, <2>1, <2>2 DEF ReadManifest, Reader
  <2>4. QED BY <1>1, <1>3, <2>1, <2>2, <2>3 DEF StillWhole
<1>7. CASE WalkTree
  <2>1. /\ at = "tree" /\ at' = "targets" /\ UNCHANGED <<view, todo>>
        /\ releases[target.named.release] = target.manifest
    BY <1>3, <1>7 DEF WalkTree, Reader, StillWhole, Whole
  <2>2. issues' = issues
    BY <1>0, <1>7, <2>1 DEF WalkTree
  <2>3. QED BY <1>1, <2>1, <2>2 DEF StillWhole
<1>8. CASE Conclude
  <2>1. ViewIssues(view) \cap Faulty = {}
    BY OtherIssues
  <2>2. at' = "done" /\ issues' = issues \cup ViewIssues(view) /\ UNCHANGED <<view, todo>>
    BY <1>8 DEF Conclude, Reader
  <2>3. QED BY <1>1, <2>1, <2>2 DEF StillWhole
<1>9. QED BY <1>4, <1>5, <1>6, <1>7, <1>8

LEMMA BesideBegins == ReaderInit /\ Init => Inv /\ Published /\ Vacant /\ StillWhole
<1> SUFFICES ASSUME ReaderInit, Init PROVE Inv /\ Published /\ Vacant /\ StillWhole
  OBVIOUS
<1>1. Published
  BY DEF Init, Published
<1>2. "idle" \notin Early
  BY EarlyLabels
<1>3. Vacant
  BY <1>2 DEF Init, Vacant, Early
<1>4. StillWhole
  BY DEF ReaderInit, StillWhole, NoView, Inspecting
<1>5. QED BY <1>1, <1>3, <1>4, InitInv

LEMMA BesideStep ==
    ASSUME Hypotheses, TypeInv, ReaderInv, QuietInv, BesideInv,
           [EngineNext \/ ReaderNext]_allVars
    PROVE  BesideInv'
<1>1. found' = found
  BY DEF allVars, readerVars, EngineNext, ReaderNext, ReadActive, ReadCurrent,
     ReadLastSuccess, ReadArchive, LookFor, LookForManifest, ReadManifest,
     BreakOff, WalkTree, Conclude, Again, Reader
<1>0. Undamaged => Undamaged'
  BY DEF allVars, readerVars, forms, EngineNext, ReaderNext, ReadActive, ReadCurrent,
     ReadLastSuccess, ReadArchive, LookFor, LookForManifest, ReadManifest,
     BreakOff, WalkTree, Conclude, Again, Reader, Undamaged
<1>2. SUFFICES ASSUME ~found
               PROVE  Inv' /\ Published' /\ Vacant' /\ (~removed' => StillWhole')
  BY <1>0, <1>1 DEF BesideInv
<1>3. Inv /\ Published /\ Vacant /\ Undamaged /\ (~removed => StillWhole)
  BY <1>2 DEF BesideInv
<1>4. CASE EngineNext
  <2>1. PICK p \in Proc : EngineMoves(p)
    BY <1>4 DEF EngineNext, Next, EngineMoves
  <2>2. Inv' /\ Published' /\ Vacant'
    BY <1>3, <1>4, <2>1, NextInv, PublishedStep, VacantStep DEF EngineNext
  <2>3. ASSUME ~removed' PROVE StillWhole'
    <3>1. at # "idle" => StillWhole /\ ~Removes(p)
      BY <1>3, <1>4, <2>3 DEF EngineNext
    <3>2. QED BY <1>3, <1>4, <2>1, <3>1, BesideEngine DEF EngineNext
  <2>4. QED BY <2>2, <2>3
<1>5. ASSUME UNCHANGED vars, removed' = removed, StillWhole => StillWhole'
      PROVE  Inv' /\ Published' /\ Vacant' /\ (~removed' => StillWhole')
  BY <1>3, <1>5, EngineStays
<1>6. CASE UNCHANGED allVars
  <2>1. UNCHANGED vars /\ UNCHANGED <<at, view, todo, target, issues, removed>>
    BY <1>6 DEF allVars, readerVars
  <2>2. StillWhole => StillWhole'
    BY <2>1, WholeStays DEF StillWhole
  <2>3. QED BY <1>5, <2>1, <2>2
<1>7. CASE ReadActive \/ ReadCurrent \/ ReadLastSuccess \/ ReadArchive
  <2>1. UNCHANGED vars /\ removed' = removed
    BY <1>7 DEF ReadActive, ReadCurrent, ReadLastSuccess, ReadArchive, Reader
  <2>2. QED BY <1>3, <1>5, <1>7, <2>1, BesideReads
<1>8. CASE \/ \E x \in todo : LookFor(x)
           \/ LookForManifest \/ ReadManifest \/ WalkTree \/ Conclude
  <2>1. UNCHANGED vars /\ removed' = removed
    BY <1>8 DEF LookFor, LookForManifest, ReadManifest, WalkTree, Conclude, Reader
  <2>2. QED BY <1>3, <1>5, <1>8, <2>1, BesideTargets
<1>9. CASE BreakOff \/ Again
  <2>1. /\ UNCHANGED vars /\ at' = "idle" /\ view' = NoView /\ issues' = {}
        /\ todo' = {}
    BY <1>9 DEF BreakOff, Again, ReaderInv, Inspecting
  <2>2. StillWhole'
    BY <2>1 DEF StillWhole, NoView, Inspecting
  <2>3. QED BY <1>3, <2>1, <2>2, EngineStays
<1>10. QED BY <1>4, <1>6, <1>7, <1>8, <1>9 DEF ReaderNext

(* Beside any number of writers and whatever fails: a reader never finds a  *)
(* target missing or altered, unless a failed promotion was being cleaned   *)
(* up since it began.                                                       *)
THEOREM NoTargetMissed == ASSUME Hypotheses PROVE ValidationSpec => []TargetsAreWhole
<1> DEFINE All == TypeInv /\ ReaderInv /\ QuietInv /\ BesideInv
<1>1. ValidationInit => All
  BY InitFiles, InitForms, ReaderBegins, QuietBegins, BesideBegins DEF ValidationInit, BesideInv
<1>2. All => TargetsAreWhole
  BY DEF BesideInv, StillWhole, Faulty, TargetsAreWhole
<1>3. All /\ [EngineNext \/ ReaderNext]_allVars => All'
  BY FilesStep, ReadingTyped, QuietStep, BesideStep
<1> HIDE DEF All
<1>4. QED BY <1>1, <1>2, <1>3, PTL DEF ValidationSpec
-----------------------------------------------------------------------------
(* An error in the tail of finish_journal.  The handler then takes back a   *)
(* transaction whose journal says COMMITTED, and a failure of the handler   *)
(* would leave that journal to a recovery that believes it.  What comes     *)
(* with the error decides: no other failure in the behaviour, or no failure *)
(* of another kind.                                                         *)

TailHypotheses ==
    /\ ExclusiveForce
    /\ ~TxReuse
    /\ MaxFaults <= 1 \/ FaultKinds \subseteq {"tail_exception"}

(* The handler will not be interrupted.                                     *)
Spared == faults >= MaxFaults \/ FaultKinds \subseteq {"tail_exception"}

(* The journal's own identifier is in none of the pointers it saved.        *)
Apart(a) ==
    /\ a.prev.current # None => a.prev.current.tx # a.tx
    /\ \A e \in a.prev.archive : e.tx # a.tx

(* OpenOK, whatever the journal's status and record say, and with it what   *)
(* is accepted while it is open.                                            *)
Behind(a) ==
    /\ Consistent(a.prev)
    /\ Apart(a)
    /\ a.prev.current # None => history[a.prev.current.tx] = "COMMITTED"
    /\ \A e \in a.prev.archive : history[e.tx] = "COMMITTED"
    /\ \A t \in Tx \ {a.tx} : Unstaged(t)
    /\ \A r \in Release :
          ~NotInstalled(r) => Names(a.prev, r) \/ (a.op = "PROMOTE" /\ r = a.target)
    /\ a.op = "PROMOTE" => ~Names(a.prev, a.target)
    /\ a.op = "ROLLBACK" => /\ Unstaged(a.tx)
                            /\ a.prev.current # None
                            /\ \E e \in a.prev.archive : e.release = a.target

Retreating == Restoring \cup Removing \cup {"finish_active", "finish_history"}

(* What p's handler has to have achieved when its next operation is label.  *)
Regained(label, a) ==
    /\ label \in Restoring => RestoredTo(label, "abort", a)
    /\ label \in Removing => RemovedTo(label, a)
    /\ label \in {"finish_active", "finish_history"} => Undone(a)
    /\ label = "finish_history" => a.status = "ROLLED_BACK"

(* p's handler takes back a transaction that was COMMITTED in its journal.  *)
Retreat(p) ==
    /\ Spared /\ Fresh
    /\ pc[p] \in Retreating
    /\ Owns(job[p]) /\ job[p].mode = "abort"
    /\ Behind(active) /\ Regained(pc[p], active)

TailInv ==
    /\ LockInv
    /\ active # None => Apart(active)
    /\ EngineInv \/ \E p \in Proc : Retreat(p)

LEMMA RetreatLabels ==
    /\ Retreating \subseteq Critical /\ Retreating \subseteq Label
    /\ Retreating \cap Entering = {}
    /\ Restoring \cap Removing = {}
    /\ {"finish_active", "finish_history"} \cap (Restoring \cup Removing) = {}
BY DEF Retreating, Critical, Label, Body, Restoring, Removing, Finishing, Entering

(* Nobody else is inside while p's handler is.                              *)
LEMMA Alone ==
    ASSUME LockInv, NEW p \in Proc, Retreat(p)
    PROVE  /\ TypeInv /\ pc[p] \in Critical /\ lock = p
           /\ active # None /\ job[p].journal = active /\ job[p] \in Job
           /\ active \in Journal /\ active.tx \in Tx /\ active.target \in Release
           /\ active.prev \in Previous /\ active.status \in Status
           /\ \A q \in Proc : q # p => pc[q] \notin Critical \cup {"force"}
<1>1. TypeInv /\ pc[p] \in Critical /\ Owns(job[p])
  BY RetreatLabels DEF LockInv, Retreat
<1>2. lock = p
  BY <1>1 DEF LockInv, SingleWriter
<1>3. \A q \in Proc : q # p => pc[q] \notin Critical \cup {"force"}
  BY <1>2, SentinelAssumption DEF LockInv, SingleWriter, OneForces
<1>4. active # None /\ job[p].journal = active /\ job[p] \in Job
  BY <1>1 DEF Owns, TypeInv, CallsTyped
<1>5. QED BY <1>1, <1>2, <1>3, <1>4, JournalTyped

LEMMA SameRetreat ==
    ASSUME UNCHANGED Files, NEW label, NEW j
    PROVE  /\ Behind(active) => Behind(active)'
           /\ Regained(label, active) => Regained(label, active)'
           /\ Owns(j) => Owns(j)'
<1>1. /\ current' = current /\ lastSuccess' = lastSuccess /\ archive' = archive
      /\ active' = active /\ history' = history
      /\ releases' = releases /\ manifests' = manifests
      /\ stagedReleases' = stagedReleases /\ stagedManifests' = stagedManifests
  BY DEF Files, pointerFiles, journals, trees
<1>2. Snapshots' = Snapshots
  BY <1>1 DEF Snapshots
<1>3. Behind(active) => Behind(active)'
  BY <1>1 DEF Behind, Consistent, Installed, Unstaged, NotInstalled, Apart
<1>4. Regained(label, active) => Regained(label, active)'
  BY <1>1, <1>2 DEF Regained, RestoredTo, RemovedTo, Undone, Unstaged, NotInstalled
<1>5. Owns(j) => Owns(j)'
  BY <1>1 DEF Owns
<1>6. QED BY <1>3, <1>4, <1>5
-----------------------------------------------------------------------------
(* The identifiers of what is accepted are not the open transaction's *)

LEMMA JournalStays ==
    ASSUME Inv, NEW p \in Proc, EngineMoves(p), ~Begin(p), active' # None
    PROVE  active # None /\ active'.tx = active.tx /\ active'.prev = active.prev
<1>1. CASE Ordinary(p)
  BY <1>1, OrdinaryStep DEF journals
<1>2. CASE Mark(p) \/ FinishActive(p)
  <2>1. pc[p] \in Journaled /\ \E s : WriteJournal(p, s)
    BY <1>2 DEF Mark, FinishActive, Go, Journaled, Working, Staging, Finishing
  <2>2. job[p].journal = active /\ active # None /\ active \in Journal
    BY <2>1, UnderJournal
  <2>3. QED BY <2>1, <2>2 DEF WriteJournal, Journal
<1>3. CASE FinishHistory(p) \/ FinishClear(p)
  BY <1>3 DEF FinishHistory, FinishClear
<1>4. QED BY <1>1, <1>2, <1>3, OrdinaryOrNot DEF EngineMoves

LEMMA ApartStep ==
    ASSUME Inv, active # None => Apart(active), NEW p \in Proc, EngineMoves(p)
    PROVE  active' # None => Apart(active)'
<1>1. CASE Begin(p)
  <2>1. /\ pc[p] = "begin" /\ pc[p] \in Critical /\ pc[p] \in Entering
        /\ active'.tx = job[p].tx /\ active'.prev = Snapshots
    BY <1>1, CriticalLabels DEF Begin, Go, Entering
  <2>2. /\ FilesInv /\ Fresh /\ Progress("begin", job[p]) /\ job[p] \in Job
        /\ LocalOK("begin", job[p])
    BY <2>1, Here
  <2>3. Accepted = Snapshots /\ history[job[p].tx] # "COMMITTED"
    <3>1. active = None /\ job[p].tx \in Tx
      BY <2>2 DEF Progress, Admitted, LocalOK
    <3>2. history[job[p].tx] = None
      BY <2>1, <2>2, <3>1, SentinelAssumption DEF Fresh
    <3>3. QED BY <3>1, <3>2, DocumentAssumption DEF Accepted, FinalStatus
  <2>4. QED BY <2>1, <2>2, <2>3 DEF FilesInv, PointersHaveRecords, Apart
<1>2. CASE ~Begin(p)
  BY <1>2, JournalStays DEF Apart
<1>3. QED BY <1>1, <1>2

(* The handler begins.                                                      *)
LEMMA TailRaises ==
    ASSUME TailHypotheses, Inv, active # None => Apart(active),
           NEW p \in Proc, RaiseInTail(p)
    PROVE  Retreat(p)'
<1> DEFINE j == [job[p] EXCEPT !.mode = "abort"]
<1>1. /\ pc[p] \in {"finish_history", "finish_clear"} /\ job[p].mode = "apply"
      /\ Raise(p) /\ UNCHANGED Files /\ faults < MaxFaults /\ faults' = faults + 1
      /\ pc[p] \in Journaled
  BY DEF RaiseInTail, Fail, Files, Journaled, Finishing
<1>2. /\ TypeInv /\ FilesInv /\ Fresh /\ pc[p] \in Critical /\ job[p] \in Job
      /\ Owns(job[p]) /\ active # None /\ OpenOK(active) /\ Consistent(active.prev)
  BY <1>1, UnderJournal DEF Inv, EngineInv
<1>3. Moves(p, "restore_current", j)
  BY <1>1, <1>2 DEF Raise, Moves, TypeInv, CallsTyped
<1>4. /\ j.tx = job[p].tx /\ j.mode = "abort" /\ j.op = job[p].op
      /\ j.journal = job[p].journal
      /\ j.target = job[p].target /\ j.expected = job[p].expected
  BY <1>2 DEF Job
<1>5. pc'[p] = "restore_current" /\ job'[p] = j
  BY <1>2, <1>3, Moved
<1>6. active' = active /\ history' = history
  BY <1>1 DEF Files, journals
<1>7. Behind(active)'
  <2>1. Behind(active)
    BY <1>2 DEF Behind, OpenOK, FilesInv, PointersHaveRecords, Accepted
  <2>2. QED BY <1>1, <2>1, SameRetreat
<1>8. Owns(job[p])'
  BY <1>1, <1>2, <1>4, <1>5, <1>6 DEF Owns, PreviousRelease
<1>9. Spared'
  <2>1. faults \in Nat /\ MaxFaults \in Nat
    BY <1>2, FaultAssumption DEF TypeInv, FilesTyped
  <2>2. QED BY <1>1, <2>1 DEF Spared, TailHypotheses
<1>10. "restore_current" \in Retreating /\ "restore_current" \in Restoring
       /\ "restore_current" \notin Entering
  BY RetreatLabels DEF Retreating, Restoring
<1>11. Fresh'
  BY <1>2, <1>3, <1>4, <1>6, <1>10, FreshMoves DEF Inv
<1>12. Regained(pc[p], active)'
  BY <1>5, <1>10, RetreatLabels DEF Regained, RestoredTo
<1>13. QED BY <1>4, <1>5, <1>7, <1>8, <1>9, <1>10, <1>11, <1>12 DEF Retreat
-----------------------------------------------------------------------------
(* The steps of the handler, and of the others meanwhile *)

LEMMA Bystanders ==
    ASSUME LockInv, ~TxReuse, NEW p \in Proc, Retreat(p),
           NEW q \in Proc, q # p, EngineMoves(q)
    PROVE  Retreat(p)' /\ active' = active
<1>1. /\ TypeInv /\ lock = p /\ lock # Free /\ lock # Stale
      /\ pc[q] \notin Critical \cup {"force"}
  BY Alone, SentinelAssumption
<1>2. pc'[p] = pc[p] /\ job'[p] = job[p]
  BY <1>1, OthersRest
<1>3. Fresh /\ Spared
  BY DEF Retreat
<1>4. ASSUME Fresh', UNCHANGED Files, faults' = faults PROVE Retreat(p)' /\ active' = active
  <2>1. active' = active
    BY <1>4 DEF Files, journals
  <2>2. Owns(job[p])' /\ Behind(active)' /\ Regained(pc[p], active)'
    BY <1>2, <1>4, SameRetreat DEF Retreat
  <2>3. QED BY <1>2, <1>3, <1>4, <2>1, <2>2 DEF Retreat, Spared
<1>5. CASE Call(q)
  <2>1. faults' = faults
    BY <1>5 DEF Call, StartPromote, StartRollback, StartRecover, StartForcedRecover, Start
  <2>2. QED BY <1>3, <1>4, <1>5, <2>1, CallFresh
<1>6. CASE Locking(q)
  <2>1. Contended(q)
    BY <1>1, <1>6, CriticalLabels DEF Locking, ForceUnlock, Acquire, Unlock, Go, LockFree
  <2>2. /\ Moves(q, "idle", NoJob) /\ UNCHANGED Files /\ faults' = faults
        /\ NoJob.tx = None /\ "idle" \notin Entering
    BY <2>1, LabelKinds DEF Contended, Quit, Moves, Files, NoJob
  <2>3. history' = history /\ active' = active
    BY <2>2 DEF Files, journals
  <2>4. \/ active' = None
        \/ active # None /\ active'.tx = active.tx
    BY <2>3
  <2>5. Fresh'
    BY <1>3, <2>2, <2>3, <2>4, FreshMoves
  <2>6. QED BY <1>4, <2>2, <2>5
<1>7. ~Failure(q)
  <2>1. pc[q] \notin {"finish_history", "finish_clear"}
    BY <1>1 DEF Critical, Body, Finishing
  <2>2. faults >= MaxFaults => ~(faults < MaxFaults)
    BY <1>1, FaultAssumption DEF TypeInv, FilesTyped
  <2>3. QED
    BY <1>3, <2>1, <2>2
    DEF Spared, Failure, RaiseException, RaiseInTail, Interrupt, Kill, Fail
<1>8. ~(Apply(q) \/ Finish(q) \/ Undo(q))
  BY <1>1, ApplyInside, FinishInside, UndoInside DEF StaysInside
<1>9. QED BY <1>5, <1>6, <1>7, <1>8 DEF EngineMoves, Step

LEMMA RetreatsOn ==
    ASSUME LockInv, NEW p \in Proc, Retreat(p),
           NEW to \in Retreating \ {"finish_history"}, Goto(p, to),
           UNCHANGED <<job, journals, faults>>, Behind(active)', Regained(to, active)'
    PROVE  Retreat(p)'
<1>1. TypeInv /\ pc[p] \in Critical
  BY Alone
<1>2. /\ Moves(p, to, job[p]) /\ pc'[p] = to /\ job' = job
      /\ active' = active /\ history' = history
  BY <1>1, SameJob, Moved DEF journals
<1>3. Owns(job[p])'
  BY <1>2 DEF Retreat, Owns, PreviousRelease
<1>4. Spared'
  BY DEF Retreat, Spared
<1>5. to \notin Entering
  BY RetreatLabels
<1>6. \/ active' = None
      \/ active # None /\ active'.tx = active.tx
  BY <1>2
<1>7. Fresh'
  BY <1>2, <1>5, <1>6, FreshMoves DEF Retreat
<1>8. QED BY <1>2, <1>3, <1>4, <1>7 DEF Retreat

LEMMA RetreatRestores ==
    ASSUME LockInv, NEW p \in Proc, Retreat(p),
           RestoreCurrent(p) \/ RestoreLastSuccess(p) \/ RestoreArchive(p)
    PROVE  Retreat(p)'
<1>1. pc[p] \in Restoring /\ UNCHANGED <<job, journals, trees, faults>>
  BY DEF RestoreCurrent, RestoreLastSuccess, RestoreArchive, Go, Restoring
<1>2. /\ active # None /\ job[p].journal = active /\ active \in Journal
      /\ active.prev \in Previous
  BY Alone
<1>3. /\ job[p].mode = "abort" /\ Behind(active)
      /\ RestoredTo(pc[p], "abort", active)
  BY <1>1 DEF Retreat, Regained
<1>4. /\ active' = active /\ history' = history
      /\ releases' = releases /\ manifests' = manifests
      /\ stagedReleases' = stagedReleases /\ stagedManifests' = stagedManifests
  BY <1>1 DEF journals, trees
<1>5. Behind(active)'
  BY <1>3, <1>4 DEF Behind, Consistent, Installed, Unstaged, NotInstalled, Apart
<1>6. /\ "restore_last_success" \in Restoring /\ "restore_archive" \in Restoring
      /\ "remove_staging" \in Removing
  BY DEF Restoring, Removing
<1>7. Restoring \cup Removing \cup {"finish_active"} \subseteq Retreating \ {"finish_history"}
  BY RetreatLabels DEF Retreating
<1>8. CASE RestoreCurrent(p)
  <2>1. Goto(p, "restore_last_success") /\ current' = active.prev.current
    BY <1>2, <1>8 DEF RestoreCurrent, Go
  <2>2. Regained("restore_last_success", active)'
    BY <1>4, <1>6, <2>1, RetreatLabels DEF Regained, RestoredTo
  <2>3. QED BY <1>1, <1>5, <1>6, <1>7, <2>1, <2>2, RetreatsOn
<1>9. CASE RestoreLastSuccess(p)
  <2>1. /\ pc[p] = "restore_last_success" /\ Goto(p, "restore_archive")
        /\ lastSuccess' = active.prev.lastSuccess /\ current' = current
    BY <1>2, <1>3, <1>9 DEF RestoreLastSuccess, Go
  <2>2. current' = active.prev.current
    BY <1>3, <2>1 DEF RestoredTo
  <2>3. Regained("restore_archive", active)'
    BY <1>4, <1>6, <2>1, <2>2, RetreatLabels DEF Regained, RestoredTo
  <2>4. QED BY <1>1, <1>5, <1>6, <1>7, <2>1, <2>3, RetreatsOn
<1>10. CASE RestoreArchive(p)
  <2>1. /\ pc[p] = "restore_archive" /\ Goto(p, Restored(p))
        /\ archive' = active.prev.archive
        /\ current' = current /\ lastSuccess' = lastSuccess
    BY <1>2, <1>3, <1>10 DEF RestoreArchive, Go
  <2>2. active.prev = [current |-> active.prev.current,
                       lastSuccess |-> active.prev.lastSuccess,
                       archive |-> active.prev.archive]
    BY <1>2 DEF Previous
  <2>3. Snapshots' = active.prev
    BY <1>3, <2>1, <2>2 DEF RestoredTo, Snapshots
  <2>4. CASE active.op = "PROMOTE"
    <3>1. Restored(p) = "remove_staging"
      BY <1>2, <2>4 DEF Restored
    <3>2. Regained("remove_staging", active)'
      BY <1>4, <1>6, <2>3, <2>4, RetreatLabels DEF Regained, RemovedTo
    <3>3. QED BY <1>1, <1>5, <1>6, <1>7, <2>1, <3>1, <3>2, RetreatsOn
  <2>5. CASE active.op # "PROMOTE"
    <3>1. Restored(p) = "finish_active"
      BY <1>2, <2>5 DEF Restored
    <3>2. Regained("finish_active", active)'
      BY <1>4, <2>3, <2>5, RetreatLabels DEF Regained, Undone
    <3>3. QED BY <1>1, <1>5, <1>7, <2>1, <3>1, <3>2, RetreatsOn
  <2>6. QED BY <2>4, <2>5
<1>11. QED BY <1>8, <1>9, <1>10

LEMMA RetreatRemoves ==
    ASSUME LockInv, NEW p \in Proc, Retreat(p),
           \/ RemoveStaging(p) \/ RemoveInstalled(p)
           \/ RemoveStagedManifest(p) \/ RemoveManifest(p)
    PROVE  Retreat(p)'
<1> DEFINE t == active.tx
           r == active.target
<1>1. pc[p] \in Removing /\ UNCHANGED <<job, pointerFiles, journals, faults>>
  BY DEF RemoveStaging, RemoveInstalled, RemoveStagedManifest, RemoveManifest, Go, Removing
<1>2. /\ TypeInv /\ active # None /\ job[p].journal = active
      /\ t \in Tx /\ r \in Release /\ active.prev \in Previous
  BY Alone
<1>3. Behind(active) /\ RemovedTo(pc[p], active) /\ active.op = "PROMOTE"
  BY <1>1 DEF Retreat, Regained, RemovedTo
<1>4. /\ stagedReleases \in [Tx -> Tree] /\ stagedManifests \in [Tx -> Content \cup {None}]
      /\ releases \in [Release -> Tree] /\ manifests \in [Release -> Content \cup {None}]
  BY <1>2 DEF TypeInv, FilesTyped
<1>5. /\ \A x \in Release \ {r} : releases'[x] = releases[x] /\ manifests'[x] = manifests[x]
      /\ \A x \in Tx \ {t} : /\ stagedReleases'[x] = stagedReleases[x]
                             /\ stagedManifests'[x] = stagedManifests[x]
  BY <1>2, <1>4 DEF RemoveStaging, RemoveInstalled, RemoveStagedManifest, RemoveManifest
<1>6. active' = active /\ history' = history /\ Snapshots' = Snapshots
  BY <1>1 DEF journals, pointerFiles, Snapshots
<1>7. Behind(active)'
  <2>1. Consistent(active.prev)'
    BY <1>2, <1>3, <1>5, <1>6, ConsistentKept DEF Behind
  <2>2. \A x \in Tx \ {t} : Unstaged(x)'
    BY <1>3, <1>5 DEF Behind, Unstaged
  <2>3. \A x \in Release : ~NotInstalled(x)' => Names(active.prev, x) \/ x = r
    BY <1>3, <1>5 DEF Behind, NotInstalled
  <2>4. QED BY <1>3, <1>6, <2>1, <2>2, <2>3 DEF Behind, Apart
<1>8. /\ Removing = {"remove_staging", "remove_installed", "remove_staged_manifest",
                     "remove_manifest"}
      /\ Removing \cup {"finish_active"} \subseteq Retreating \ {"finish_history"}
  BY RetreatLabels DEF Removing, Retreating
<1>9. ASSUME NEW to \in Removing, Goto(p, to), RemovedTo(to, active)' PROVE Retreat(p)'
  <2>1. Regained(to, active)'
    BY <1>9, RetreatLabels DEF Regained
  <2>2. QED BY <1>1, <1>7, <1>8, <1>9, <2>1, RetreatsOn
<1>10. CASE RemoveStaging(p)
  <2>1. /\ Goto(p, IF stagedReleases[t] \in Content THEN "remove_staging"
                   ELSE "remove_installed")
        /\ stagedReleases'[t] = Shrunk(stagedReleases[t])
    BY <1>2, <1>4, <1>10 DEF RemoveStaging, Go
  <2>2. RemovedTo("remove_staging", active)'
    BY <1>3, <1>6 DEF RemovedTo
  <2>3. stagedReleases[t] \notin Content => RemovedTo("remove_installed", active)'
    BY <1>3, <1>6, <2>1 DEF RemovedTo, Shrunk
  <2>4. QED BY <1>8, <1>9, <2>1, <2>2, <2>3
<1>11. CASE RemoveInstalled(p)
  <2>1. /\ pc[p] = "remove_installed" /\ stagedReleases' = stagedReleases
        /\ Goto(p, IF releases[r] \in Content THEN "remove_installed"
                   ELSE "remove_staged_manifest")
        /\ releases'[r] = Shrunk(releases[r])
    BY <1>2, <1>4, <1>11 DEF RemoveInstalled, Go
  <2>2. RemovedTo("remove_installed", active)'
    BY <1>3, <1>6, <2>1 DEF RemovedTo
  <2>3. releases[r] \notin Content => RemovedTo("remove_staged_manifest", active)'
    BY <1>3, <1>6, <2>1 DEF RemovedTo, Shrunk
  <2>4. QED BY <1>8, <1>9, <2>1, <2>2, <2>3
<1>12. CASE RemoveStagedManifest(p)
  <2>1. /\ pc[p] = "remove_staged_manifest" /\ Goto(p, "remove_manifest")
        /\ stagedReleases' = stagedReleases /\ releases' = releases
        /\ stagedManifests'[t] = None
    BY <1>2, <1>4, <1>12 DEF RemoveStagedManifest, Go
  <2>2. RemovedTo("remove_manifest", active)'
    BY <1>3, <1>6, <2>1 DEF RemovedTo
  <2>3. QED BY <1>8, <1>9, <2>1, <2>2
<1>13. CASE RemoveManifest(p)
  <2>1. /\ pc[p] = "remove_manifest" /\ Goto(p, "finish_active")
        /\ stagedReleases' = stagedReleases /\ stagedManifests' = stagedManifests
        /\ releases' = releases /\ manifests'[r] = None
    BY <1>2, <1>4, <1>13 DEF RemoveManifest, Go
  <2>2. Undone(active)'
    BY <1>3, <1>6, <2>1 DEF RemovedTo, Undone, Unstaged, NotInstalled
  <2>3. Regained("finish_active", active)'
    BY <2>2, RetreatLabels DEF Regained
  <2>4. QED BY <1>1, <1>7, <1>8, <2>1, <2>3, RetreatsOn
<1>14. QED BY <1>10, <1>11, <1>12, <1>13

(* The status becomes ROLLED_BACK, and then the record: the handler is now  *)
(* where any other handler would be.                                        *)
LEMMA RetreatDecides ==
    ASSUME LockInv, NEW p \in Proc, Retreat(p), FinishActive(p) PROVE Retreat(p)'
<1>1. /\ pc[p] = "finish_active" /\ Goto(p, "finish_history")
      /\ WriteJournal(p, Outcome(p))
      /\ UNCHANGED <<pointerFiles, history, trees, faults>>
  BY DEF FinishActive, Go
<1>2. /\ TypeInv /\ job[p] \in Job /\ active # None /\ job[p].journal = active
      /\ active \in Journal
  BY Alone
<1>3. /\ job[p].mode = "abort" /\ Owns(job[p]) /\ Behind(active) /\ Undone(active)
      /\ Spared /\ Fresh
  BY <1>1 DEF Retreat, Regained
<1>4. /\ active' = [active EXCEPT !.status = "ROLLED_BACK"]
      /\ job' = [job EXCEPT ![p].journal = active']
  BY <1>1, <1>2, <1>3 DEF WriteJournal, Outcome
<1>5. /\ active' \in Journal /\ active' # None /\ active'.status = "ROLLED_BACK"
      /\ active'.tx = active.tx /\ active'.op = active.op
      /\ active'.target = active.target /\ active'.prev = active.prev
  <2>1. active' \in Journal
    BY <1>2, <1>4 DEF Journal, Status, FinalStatus
  <2>2. QED BY <1>2, <1>4, <2>1, DocumentAssumption DEF Journal
<1>6. /\ current' = current /\ lastSuccess' = lastSuccess /\ archive' = archive
      /\ history' = history
      /\ releases' = releases /\ manifests' = manifests
      /\ stagedReleases' = stagedReleases /\ stagedManifests' = stagedManifests
  BY <1>1 DEF pointerFiles, trees
<1>7. Moves(p, "finish_history", [job[p] EXCEPT !.journal = active'])
  BY <1>1, <1>2, <1>4 DEF Moves, TypeInv, CallsTyped
<1>8. /\ pc'[p] = "finish_history" /\ job'[p].journal = active'
      /\ job'[p].tx = job[p].tx /\ job'[p].op = job[p].op
      /\ job'[p].target = job[p].target /\ job'[p].expected = job[p].expected
      /\ job'[p].mode = "abort"
  BY <1>2, <1>3, <1>7, Moved DEF Job
<1>9. Owns(job[p])'
  BY <1>3, <1>5, <1>8 DEF Owns, PreviousRelease
<1>10. Behind(active)'
  BY <1>3, <1>5, <1>6 DEF Behind, Consistent, Installed, Unstaged, NotInstalled, Apart, Names
<1>11. Regained(pc[p], active)'
  <2>1. Snapshots' = Snapshots
    BY <1>6 DEF Snapshots
  <2>2. Undone(active)'
    BY <1>3, <1>5, <1>6, <2>1 DEF Undone, Unstaged, NotInstalled
  <2>3. QED BY <1>5, <1>8, <2>2, RetreatLabels DEF Regained
<1>12. "finish_history" \in Retreating \ Entering
       /\ [job[p] EXCEPT !.journal = active'].tx = job[p].tx
  BY <1>2, RetreatLabels DEF Retreating, Job
<1>13. Fresh'
  BY <1>2, <1>3, <1>5, <1>6, <1>7, <1>12, FreshMoves
<1>14. Spared'
  BY <1>1, <1>3 DEF Spared
<1>15. QED BY <1>8, <1>9, <1>10, <1>11, <1>12, <1>13, <1>14 DEF Retreat

LEMMA RetreatEnds ==
    ASSUME LockInv, NEW p \in Proc, Retreat(p), FinishHistory(p)
    PROVE  EngineInv' /\ active' = active
<1>1. /\ pc[p] = "finish_history" /\ Goto(p, "finish_clear") /\ job' = job
      /\ history' = [history EXCEPT ![job[p].journal.tx] = job[p].journal.status]
      /\ UNCHANGED <<pointerFiles, active, trees>>
  BY DEF FinishHistory, Go
<1>2. /\ TypeInv /\ pc[p] \in Critical /\ active # None /\ job[p].journal = active
      /\ active.tx \in Tx /\ active.prev \in Previous
      /\ \A q \in Proc : q # p => pc[q] \notin Critical
  BY Alone
<1>3. /\ job[p].mode = "abort" /\ Owns(job[p]) /\ Behind(active) /\ Undone(active)
      /\ active.status = "ROLLED_BACK" /\ Fresh
  BY <1>1 DEF Retreat, Regained
<1>4. /\ history'[active.tx] = "ROLLED_BACK"
      /\ \A t \in Tx \ {active.tx} : history'[t] = history[t]
  BY <1>1, <1>2, <1>3 DEF TypeInv, FilesTyped
<1>5. /\ current' = current /\ lastSuccess' = lastSuccess /\ archive' = archive
      /\ active' = active
      /\ releases' = releases /\ manifests' = manifests
      /\ stagedReleases' = stagedReleases /\ stagedManifests' = stagedManifests
      /\ Snapshots' = Snapshots
  BY <1>1 DEF pointerFiles, trees, Snapshots
<1>6. AcceptedIsConsistent' /\ NothingLeftBehind'
  BY <1>2, <1>3, <1>5
  DEF Behind, AcceptedIsConsistent, Accepted, NothingLeftBehind, Consistent, Installed
<1>7. PointersHaveRecords'
  <2>1. /\ active.prev.current # None => active.prev.current.tx \in Tx
        /\ \A e \in active.prev.archive : e.tx \in Tx
    BY <1>2 DEF Previous, Pointer, Entry
  <2>2. Accepted' = active.prev
    BY <1>2, <1>5 DEF Accepted
  <2>3. QED BY <1>3, <1>4, <2>1, <2>2 DEF Behind, Apart, PointersHaveRecords
<1>8. OpenOK(active)'
  BY <1>3, <1>4, <1>5 DEF Behind, OpenOK, Unstaged, NotInstalled, Undone
<1>9. FilesInv'
  BY <1>5, <1>6, <1>7, <1>8 DEF FilesInv
<1>10. /\ Moves(p, "finish_clear", job[p]) /\ pc'[p] = "finish_clear"
       /\ \A q \in Proc : q # p => pc'[q] = pc[q]
  BY <1>1, <1>2, SameJob, Moved
<1>11. Owns(job[p])'
  BY <1>1, <1>3, <1>5 DEF Owns, PreviousRelease
<1>12. Decided(pc[p], job[p])'
  BY <1>1, <1>3, <1>4, <1>5, <1>10 DEF Decided, FinalStatus
<1>13. Progress(pc[p], job[p])'
  BY <1>1, <1>3, <1>10, <1>11, <1>12
  DEF Progress, Working, Staging, Pointing, Restoring, Removing
<1>14. Fresh'
  BY <1>2, <1>3, <1>4, <1>5, <1>10, FreshMoves DEF Entering
<1>15. \A q \in Proc : pc'[q] \in Critical => q = p
  BY <1>2, <1>10
<1>16. QED BY <1>5, <1>9, <1>13, <1>14, <1>15 DEF EngineInv
-----------------------------------------------------------------------------
LEMMA RetreatStep ==
    ASSUME ~TxReuse, LockInv, NEW p \in Proc, Retreat(p), NEW q \in Proc, EngineMoves(q)
    PROVE  /\ EngineInv' \/ Retreat(p)'
           /\ active' # None => Apart(active)'
<1>1. CASE q # p
  BY <1>1, Bystanders DEF Retreat, Behind
<1>2. CASE q = p
  <2>1. /\ pc[p] \in Retreating /\ pc[p] \in Critical /\ Spared
        /\ job[p].mode = "abort" /\ faults \in 0 .. MaxFaults
    BY Alone DEF Retreat, TypeInv, FilesTyped
  <2>2. ~Call(p) /\ ~Locking(p) /\ ~Apply(p) /\ ~CheckRecover(p) /\ ~FinishClear(p)
    BY <2>1
    DEF Retreating, Restoring, Removing, Call, StartPromote, StartRollback, StartRecover,
        StartForcedRecover, Start, Locking, ForceUnlock, Acquire, Contended, Unlock, Go,
        Apply, Check, Begin, CopyTree, Reconcile, StageManifest, Mark, InstallRelease,
        InstallManifest, Archive, SetCurrent, SetLastSuccess, CheckRecover, FinishClear
  <2>3. ~Failure(p)
    <3>1. faults >= MaxFaults => ~(faults < MaxFaults)
      BY <2>1, FaultAssumption
    <3>2. QED
      BY <2>1, <3>1
      DEF Spared, Failure, RaiseException, RaiseInTail, Interrupt, Kill, Fail
  <2>4. CASE RestoreCurrent(p) \/ RestoreLastSuccess(p) \/ RestoreArchive(p)
    BY <2>4, RetreatRestores DEF Retreat, Behind
  <2>5. CASE \/ RemoveStaging(p) \/ RemoveInstalled(p)
             \/ RemoveStagedManifest(p) \/ RemoveManifest(p)
    BY <2>5, RetreatRemoves DEF Retreat, Behind
  <2>6. CASE FinishActive(p)
    BY <2>6, RetreatDecides DEF Retreat, Behind
  <2>7. CASE FinishHistory(p)
    <3>1. EngineInv' /\ active' = active
      BY <2>7, RetreatEnds
    <3>2. QED BY <3>1 DEF Retreat, Behind, Apart
  <2>8. QED
    BY <1>2, <2>2, <2>3, <2>4, <2>5, <2>6, <2>7 DEF EngineMoves, Step, Finish, Undo
<1>3. QED BY <1>1, <1>2

LEMMA TailBegins == Init => TailInv
BY InitInv DEF Init, Inv, TailInv

LEMMA TailNext == ASSUME TailHypotheses PROVE TailInv /\ [Next]_vars => TailInv'
<1> SUFFICES ASSUME TailInv, [Next]_vars PROVE TailInv'
  OBVIOUS
<1>1. ExclusiveForce /\ ~TxReuse /\ LockInv'
  BY NextLock DEF TailHypotheses, TailInv
<1>2. CASE EngineInv
  <2>1. Inv /\ (active # None => Apart(active))
    BY <1>2 DEF TailInv, Inv
  <2>2. active' # None => Apart(active)'
    <3>1. CASE UNCHANGED vars
      BY <2>1, <3>1 DEF vars, journals, Apart
    <3>2. CASE Next
      BY <2>1, <3>2, ApartStep DEF Next, EngineMoves
    <3>3. QED BY <3>1, <3>2
  <2>3. CASE \E p \in Proc : RaiseInTail(p)
    BY <1>1, <2>1, <2>2, <2>3, TailRaises DEF TailInv
  <2>4. CASE \A p \in Proc : ~RaiseInTail(p)
    <3>1. Inv'
      BY <1>1, <2>1, <2>4, OrderlyNext
    <3>2. QED BY <1>1, <2>2, <3>1 DEF TailInv, Inv
  <2>5. QED BY <2>3, <2>4
<1>3. CASE \E p \in Proc : Retreat(p)
  <2>1. PICK p \in Proc : Retreat(p)
    BY <1>3
  <2>2. LockInv
    BY DEF TailInv
  <2>3. CASE UNCHANGED vars
    <3>1. UNCHANGED Files /\ pc' = pc /\ job' = job /\ faults' = faults
          /\ history' = history /\ active' = active
      BY <2>3 DEF vars, Files, journals
    <3>2. Owns(job[p])' /\ Behind(active)' /\ Regained(pc[p], active)'
      BY <2>1, <3>1, SameRetreat DEF Retreat
    <3>3. Fresh' /\ Spared'
      BY <2>1, <3>1 DEF Retreat, Fresh, Spared
    <3>4. Retreat(p)'
      BY <2>1, <3>1, <3>2, <3>3 DEF Retreat
    <3>5. QED BY <1>1, <3>2, <3>4 DEF TailInv, Behind
  <2>4. CASE Next
    <3>1. PICK q \in Proc : EngineMoves(q)
      BY <2>4 DEF Next, EngineMoves
    <3>2. QED BY <1>1, <2>1, <2>2, <3>1, RetreatStep DEF TailInv
  <2>5. QED BY <2>3, <2>4
<1>4. QED BY <1>2, <1>3 DEF TailInv

LEMMA TailConsistent == TailInv => AcceptedIsConsistent
BY DEF TailInv, EngineInv, FilesInv, Retreat, Owns, Behind, AcceptedIsConsistent, Accepted

(* Beside any number of writers: an error in the last operations of         *)
(* finish_journal does no harm if it is the only failure, or all failures   *)
(* are of its kind; what is accepted is consistent throughout, also while   *)
(* the handler takes back what active.json already calls COMMITTED.         *)
THEOREM TailErrorsAloneAreHarmless ==
    ASSUME TailHypotheses PROVE ValidationSpec => []TailAloneIsHarmless
<1> DEFINE Quietly == ~found => TailInv
<1>1. ValidationInit => Quietly
  BY TailBegins DEF ValidationInit
<1>2. Quietly => TailAloneIsHarmless
  BY TailConsistent DEF TailAloneIsHarmless
<1>3. ASSUME Quietly, [EngineNext \/ ReaderNext]_allVars PROVE Quietly'
  <2>1. found' = found
    BY <1>3 DEF allVars, readerVars, EngineNext, ReaderNext, ReadActive, ReadCurrent,
       ReadLastSuccess, ReadArchive, LookFor, LookForManifest, ReadManifest,
       BreakOff, WalkTree, Conclude, Again, Reader
  <2>2. [Next]_vars
    BY <1>3 DEF allVars, EngineNext, ReaderNext, ReadActive, ReadCurrent,
       ReadLastSuccess, ReadArchive, LookFor, LookForManifest, ReadManifest,
       BreakOff, WalkTree, Conclude, Again, Reader
  <2>3. QED BY <1>3, <2>1, <2>2, TailNext
<1> HIDE DEF Quietly
<1>4. QED BY <1>1, <1>2, <1>3, PTL DEF ValidationSpec
=============================================================================
