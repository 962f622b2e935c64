-------------------------- MODULE DocumentEditing --------------------------
(***************************************************************************)
(* Whoever keeps the control documents of a project, its directory, its    *)
(* delivery, its packages or the manifest of a product edits them, one     *)
(* field at a time, and has them validated: what the rules of five modules *)
(* say of everything that a few slips can make of a sound original.        *)
(***************************************************************************)
EXTENDS PrivateProject, DeliveryRules, ArchiveInspection, ManifestRules

Kind == {"contract", "project", "delivery", "package", "manifest"}

CONSTANTS
    Original,     \* for each kind, the documents that editing starts from
    MaxEdits,     \* BOUND: for each kind, the fields edited
    Revised       \* BOUND: the products of a catalog that are edited

Document(k) ==
    CASE k = "contract" -> Contract [] k = "project" -> Project
      [] k = "delivery" -> Delivery [] k = "package" -> Package
      [] k = "manifest" -> Described

ASSUME EditsAssumption == MaxEdits \in [Kind -> Nat]
ASSUME OriginalAssumption ==
    /\ \A k \in Kind : \A d \in Original[k] : d \in Document(k)
    /\ \A d \in Original["manifest"] : ~d.built

VARIABLES
    kind,         \* what is edited
    subject,      \* as it is now
    verdict,      \* the codes reported; not yet: Unknown
    edits         \* edits so far, to bound them

vars == <<kind, subject, verdict, edits>>
Unknown == {"not validated"}

Init ==
    /\ kind \in Kind /\ subject \in Original[kind]
    /\ verdict = Unknown /\ edits = 0
-----------------------------------------------------------------------------
(* One field of d is given another value, of those that new has for it.    *)
Change(d, new) == UNION {{[d EXCEPT ![f] = v] : v \in new[f]} : f \in DOMAIN new}

ChangedBoundaries(b) ==
    Change(b, [gates |-> 0 .. MaxGates, restricted |-> SUBSET RestrictedOutput,
               ready |-> BOOLEAN])

ChangedControlled(d) ==
    Change(d, [version |-> Version, fits |-> BOOLEAN, project |-> ProjectId,
               status |-> Status, class |-> ProductClass, next |-> NextAction,
               boundaries |-> ChangedBoundaries(d.boundaries)])

ChangedValidation(d) ==
    Change(d, [version |-> Version, fits |-> BOOLEAN, project |-> ProjectId,
               status |-> {"PASS", "FAIL"},
               boundaries |-> ChangedBoundaries(d.boundaries)])

ChangedContract(c) ==
    Change(c, [state |-> ChangedControlled(c.state), lock |-> ChangedControlled(c.lock),
               validation |-> ChangedValidation(c.validation)])

ChangedRoots(s) ==
    {RemoveAt(s, i) : i \in DOMAIN s}
    \cup {Append(s, r) : r \in ProductRoot}
    \cup Change(s, [i \in DOMAIN s |->
                      Change(s[i], [class |-> Class, path |-> DiskPath,
                                    required |-> BOOLEAN])])

(* A path is made into something; what was in a directory goes with it.    *)
Put(d, path, thing) ==
    [q \in DiskPath |->
       CASE q = path -> thing
         [] IsStrictPrefix(path, q) /\ thing # "directory" -> "absent"
         [] OTHER -> d[q]]

ChangedProject(p) ==
    Change(p, [root |-> RootThing, config |-> FileStatus, version |-> Version,
               fits |-> BOOLEAN, project |-> ProjectId,
               control |-> Change(p.control, [k \in Control |-> FileStatus]),
               contract |-> ChangedContract(p.contract), roots |-> ChangedRoots(p.roots),
               disk |-> {Put(p.disk, q, x) : q \in DiskPath, x \in Thing}])
-----------------------------------------------------------------------------
ChangedFile(file) == {{}} \cup {file \cup {x} : x \in FileFault}

ChangedProduct(p) ==
    Change(p, [id |-> ProductId, role |-> Role, lifecycle |-> Lifecycle,
               status |-> ReaderStatus, pack |-> Pack \cup {"EXCLUDED"},
               path |-> FilePath, parents |-> {{x} : x \in ProductId},
               reason |-> BOOLEAN, file |-> ChangedFile(p.file)])

ChangedPack(e) ==
    Change(e, [products |-> {e.products \cup {x} : x \in ProductId}
                            \cup {e.products \ {x} : x \in ProductId},
               file |-> ChangedFile(e.file)])

ChangedCoverage(c) ==
    Change(c, [f \in CountField |-> 0 .. MaxCount])
    \cup Change(c, [claim |-> {"FULL", "PARTIAL", "NONE"}, complete |-> BOOLEAN])

ChangedRecovery(r) ==
    Change(r, [matches |-> BOOLEAN, verified |-> BOOLEAN, pass |-> BOOLEAN,
               authority |-> Authority])

ChangedDelivery(d) ==
    Change(d, [fits |-> Change(d.fits, [x \in DeliveryDocument |-> {"yes", "no", "breaks"}]),
               catalog |-> {RemoveAt(d.catalog, i) : i \in DOMAIN d.catalog}
                           \cup Change(d.catalog, [i \in DOMAIN d.catalog \cap Revised |->
                                                     ChangedProduct(d.catalog[i])]),
               master |-> {"CANDIDATE", "PASS", "FAIL"},
               packs |-> Change(d.packs, [k \in Pack |-> ChangedPack(d.packs[k])]),
               authority |-> ChangedFile(d.authority),
               coverage |-> ChangedCoverage(d.coverage),
               recovery |-> ChangedRecovery(d.recovery)])
-----------------------------------------------------------------------------
ChangedMembers(s) ==
    {RemoveAt(s, i) : i \in DOMAIN s}
    \cup {Append(s, [m EXCEPT !.name = n]) : m \in ToSet(s), n \in Name}
    \cup Change(s, [i \in DOMAIN s |->
                      Change(s[i], [name |-> Name, size |-> 0 .. MaxSize,
                                    packed |-> 0 .. MaxSize, encrypted |-> BOOLEAN,
                                    link |-> BOOLEAN, corrupt |-> BOOLEAN,
                                    holds |-> Archive \cup {NotZip}])])

ChangedPackage(x) ==
    Change(x, [form |-> {"missing", "file", "zip", "directory"},
               profile |-> {"auto", "archive", "release", "other"},
               zip |-> Change(x.zip, [a \in Archive |-> ChangedMembers(x.zip[a])]),
               size |-> 0 .. MaxSize, descriptor |-> Json, idIsRoot |-> BOOLEAN,
               manifest |-> Json, rootIsPayload |-> BOOLEAN, verifies |-> BOOLEAN,
               payload |-> {"missing", "file", "directory"}, extra |-> BOOLEAN])
-----------------------------------------------------------------------------
(* Somebody changes the directory, or the manifest file.                   *)
ChangedTree(t) ==
    IF t = Nothing THEN {}
    ELSE {Nothing}
         \cup {[q \in DOMAIN t \cup {p} |-> IF q = p THEN c ELSE t[q]] :
                 p \in Path, c \in Content \cup Irregular}
         \cup {[q \in DOMAIN t \ {p} |-> t[q]] : p \in DOMAIN t}

ChangedEntries(m) ==
    IF m = Nothing THEN {}
    ELSE {RemoveAt(m, i) : i \in DOMAIN m}
         \cup {[m EXCEPT ![i] = e] : i \in DOMAIN m, e \in Entry}
         \cup {InsertAt(m, i, e) : i \in 1 .. Len(m) + 1, e \in Entry}

ChangedManifest(x) ==
    Change([x EXCEPT !.built = FALSE],
           [tree |-> ChangedTree(x.tree), manifest |-> ChangedEntries(x.manifest)])
-----------------------------------------------------------------------------
(* What was edited is still a document of its kind.                        *)
Edit(k, changed(_)) ==
    /\ kind = k /\ edits < MaxEdits[k] /\ edits' = edits + 1
    /\ subject' \in {d \in changed(subject) : d \in Document(k)}
    /\ verdict' = Unknown
    /\ UNCHANGED kind

EditContract == Edit("contract", ChangedContract)
EditProject == Edit("project", ChangedProject)
EditDelivery == Edit("delivery", ChangedDelivery)
EditPackage == Edit("package", ChangedPackage)
EditManifest == Edit("manifest", ChangedManifest)

(* build_manifest raises ValueError for a tree it cannot describe.         *)
BuildManifest ==
    /\ kind = "manifest"
    /\ \/ /\ InspectionIssues(subject.tree) = {}
          /\ subject' = [subject EXCEPT !.manifest = Manifest(subject.tree),
                                        !.built = TRUE]
          /\ verdict' = Unknown
          /\ UNCHANGED <<kind, edits>>
       \/ InspectionIssues(subject.tree) # {} /\ UNCHANGED vars

Judge(k, issues(_)) ==
    /\ kind = k
    /\ verdict' = issues(subject)
    /\ UNCHANGED <<kind, subject, edits>>

ValidateContract == Judge("contract", ContractIssues)
ValidateProject == Judge("project", LoadIssues)
ValidateDelivery == Judge("delivery", DeliveryIssues)
ValidatePackage == Judge("package", PackageIssues)
VerifyManifest ==
    kind = "manifest" /\ subject.manifest # Nothing /\ Judge("manifest", Verification)

Next ==
    \/ EditContract \/ ValidateContract
    \/ EditProject \/ ValidateProject
    \/ EditDelivery \/ ValidateDelivery
    \/ EditPackage \/ ValidatePackage
    \/ EditManifest \/ BuildManifest \/ VerifyManifest

Spec == Init /\ [][Next]_vars
-----------------------------------------------------------------------------
Judged(k) == kind = k /\ verdict # Unknown

(* The contract rules, written one by one with early returns, report       *)
(* nothing exactly when the three documents are coherent: together they    *)
(* leave no incoherence out, although no rule says so alone.               *)
AcceptsExactlyCoherent ==
    Judged("contract") =>
        (verdict = {} <=> Coherent(subject))

(* _load_private_project accepts exactly the projects that the adapter's   *)
(* contract lists, although it skips duplicate classes, refused paths and  *)
(* missing roots before it looks at the rest.                              *)
LoadsExactly ==
    Judged("project") => (verdict = {} <=> AcceptableProject(subject))

(* A project that was accepted and built is a valid release of its own     *)
(* runtime, with one exception that validate_private_runtime finds when    *)
(* the promotion has committed: the Reader or the Control root was         *)
(* declared optional, and has no file.                                     *)
EmptyMandatory(p) ==
    \E i \in DOMAIN p.roots :
        /\ p.roots[i].class \in Mandatory
        /\ \A q \in DiskPath : IsStrictPrefix(p.roots[i].path, q) => p.disk[q] # "file"
ReleaseIsValid ==
    Judged("project") /\ verdict = {} /\ Buildable(subject) =>
        ReleaseIssues(subject.project, Candidate(subject))
            = When(EmptyMandatory(subject), "PRIVATE_RUNTIME_PRODUCT_MISSING")

(* The bundle validator reports nothing exactly when every product is      *)
(* where it belongs, each pack lists the products placed in it, parents,   *)
(* roles and receipts are complete and every file is whole.                *)
DeliveryIsExact ==
    Judged("delivery") => (verdict = {} <=> WholeDelivery(subject))

(* A ZIP file passes the archive profile exactly when it and every archive *)
(* nested in it, along whatever way, is clean and none is too deep.        *)
ArchiveIsExact ==
    Judged("package") /\ subject.form = "zip" /\ subject.profile = "archive" =>
        (verdict = {} <=> subject.size <= Limits.total
                          /\ AcceptableArchive(subject.zip, subject.outer))

(* A package accepted as a ZIP file is accepted as the directory that it   *)
(* extracts to: the rules for directories, which inspect what is nested    *)
(* one level less deep, never refuse what the rules for archives let pass. *)
ExtractedIsAccepted ==
    Judged("package") /\ verdict = {} /\ subject.form = "zip"
        /\ subject.profile # "archive"
    => PackageIssues([subject EXCEPT !.form = "directory"]) = {}

(* "Nested ZIP files are recursively inspected", whatever the profile and  *)
(* whether the package is a file or a directory, with one exception: in a  *)
(* release directory the glob for *.zip passes over an archive whose       *)
(* suffix is not lower case, whatever it holds.                            *)
PassedOver(x, m) == x.form = "directory" /\ IsRelease(x) /\ m.name \notin LowerZipName
NestedAreInspected ==
    Judged("package") /\ verdict = {} =>
        \A m \in Nested(subject.zip[subject.outer]) :
            \/ m.holds # NotZip /\ AcceptableArchive(subject.zip, m.holds)
            \/ PassedOver(subject, m)

(* verify_manifest: however tree and manifest were changed since, no       *)
(* difference goes unreported, and nothing is reported without one.        *)
VerifiesExactly ==
    Judged("manifest") =>
        (verdict = {} <=> Describes(subject.manifest, subject.tree))

(* What build_manifest returns is complete against the tree it was built   *)
(* from, at whatever depth: each file has one entry, with the size and the *)
(* hash of what it holds, and no entry is of anything else.                *)
BuiltIsComplete ==
    kind = "manifest" /\ subject.built =>
        LET t == subject.tree
            m == subject.manifest
        IN /\ \A p \in DOMAIN t : \E i \in DOMAIN m :
                 m[i] = [path |-> p, size |-> t[p].size, hash |-> t[p].hash]
           /\ \A i \in DOMAIN m : m[i].path \in DOMAIN t
           /\ \A i, j \in DOMAIN m : i # j => m[i].path # m[j].path

(* The manifest of an unchanged tree is refused for the order of its paths *)
(* or not at all, and for that exactly when two files of the tree are in   *)
(* one order as paths and in the other as strings.                         *)
RefusedForOrderAlone ==
    Judged("manifest") /\ subject.built =>
        LET files == DOMAIN subject.tree
        IN verdict = When(\E p, q \in files : PathBefore(p, q) /\ StringBefore(q, p),
                          "MANIFEST_PATH_ORDER")

(* tests/test_manifest_reconciliation.py, "assertEqual(verify_manifest(     *)
(* root, manifest), [])": an unchanged tree verifies against its manifest. *)
BuiltIsAccepted ==
    Judged("manifest") /\ subject.built => verdict = {}
=============================================================================
