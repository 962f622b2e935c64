--------------------------- MODULE PrivateProject ---------------------------
(***************************************************************************)
(* A private project directory: what _load_private_project asks of it, the *)
(* candidate _build_candidate makes of one that loaded, and what           *)
(* _validate_release asks of that candidate once it is a release.          *)
(*                                                                         *)
(* The disk is a function from paths to what is there.  Paths that fit the *)
(* adapter's schema are relative and have no dots, so what is left of      *)
(* _resolve_private_path is its look for symbolic links.                   *)
(***************************************************************************)
EXTENDS ContractRules, SequencesExt

CONSTANTS
    File,         \* names of files and directories
    CaseKey       \* each name with its case folded

Class == {"READER", "CONTROL", "SUPPLEMENTAL"}

Mandatory == {"READER", "CONTROL"}
Control == {"state", "lock", "validation"}
Thing == {"absent", "directory", "file", "link", "special"}
DiskPath == {<<f>> : f \in File} \cup {<<f, g>> : f \in File, g \in File}
Disk == {d \in [DiskPath -> Thing] :
           \A q \in DiskPath : Len(q) = 2 /\ d[q] # "absent" => d[<<q[1]>>] = "directory"}

FileStatus == {"usable", "refused", "missing", "unreadable"}
RootThing == {"directory", "missing", "file", "link"}
ProductRoot == [class : Class, path : DiskPath, required : BOOLEAN]
ProductRoots == {s \in Seq(ProductRoot) : Len(s) \in 2 .. 3}   \* BOUND: the schema has 10
Project == [root : RootThing, config : FileStatus, version : Version, fits : BOOLEAN,
            project : ProjectId, control : [Control -> FileStatus],
            contract : Contract, roots : ProductRoots, disk : Disk]
-----------------------------------------------------------------------------
(* _resolve_private_path and _tree_stats                                   *)

ThroughLink(d, path) == \E q \in DiskPath : IsPrefix(q, path) /\ d[q] = "link"

Below(d, path) == {q \in DiskPath : IsStrictPrefix(path, q) /\ d[q] # "absent"}
FilesIn(d, path) == {q \in Below(d, path) : d[q] = "file"}
Folded(q) == [i \in DOMAIN q |-> CaseKey[q[i]]]

TreeIssues(d, path) ==
    LET here == FilesIn(d, path)
    IN When(\E q \in Below(d, path) : d[q] = "link", "PRIVATE_PRODUCT_SYMLINK")
       \cup When(\E q \in Below(d, path) : d[q] = "special",
                 "PRIVATE_PRODUCT_SPECIAL_FILE")
       \cup When(\E q, r \in here : q # r /\ Folded(q) = Folded(r),
                 "PRIVATE_PRODUCT_CASE_COLLISION")
-----------------------------------------------------------------------------
(* _load_private_project: of the roots of one class the first counts, of   *)
(* those the ones not behind a link, and of those the directories.         *)

FirstRoots(p) == {i \in DOMAIN p.roots :
                    \A j \in 1 .. i - 1 : p.roots[j].class # p.roots[i].class}
PlainRoots(p) == {i \in FirstRoots(p) : ~ThroughLink(p.disk, p.roots[i].path)}
Loaded(p) == {i \in PlainRoots(p) : p.disk[p.roots[i].path] = "directory"}
ClassesOf(p, some) == {p.roots[i].class : i \in some}

Overlap_mutant(x, y) == x = y    \* mutant: a root inside another is overlooked
Overlap(x, y) == IsPrefix(x, y) \/ IsPrefix(y, x)

RootIssues(p) ==
    LET there(i) == p.disk[p.roots[i].path]
        required(i) == p.roots[i].required
    IN When(FirstRoots(p) # DOMAIN p.roots, "PRIVATE_PRODUCT_CLASS_DUPLICATE")
       \cup When(PlainRoots(p) # FirstRoots(p), "PRIVATE_PATH_SYMLINK")
       \cup When(\E i \in PlainRoots(p) : there(i) = "absent" /\ required(i),
                 "PRIVATE_PRODUCT_ROOT_MISSING")
       \cup When(\E i \in PlainRoots(p) : there(i) \notin {"absent", "directory"},
                 "PRIVATE_PRODUCT_ROOT_NOT_DIRECTORY")
       \cup (UNION {TreeIssues(p.disk, p.roots[i].path) : i \in Loaded(p)})
       \cup When(\E i \in Loaded(p) :
                    required(i) /\ FilesIn(p.disk, p.roots[i].path) = {},
                 "PRIVATE_PRODUCT_ROOT_EMPTY")
       \cup When(~(Mandatory \subseteq ClassesOf(p, FirstRoots(p))),
                 "PRIVATE_REQUIRED_PRODUCT_CLASS_MISSING")
       \cup When(\E i, j \in PlainRoots(p) :
                    i # j /\ Overlap(p.roots[i].path, p.roots[j].path),
                 "PRIVATE_PRODUCT_ROOT_OVERLAP")

StatusIssues(status, absent) ==
    CASE status = "refused" -> {"PRIVATE_PATH_SYMLINK"}
      [] status = "missing" -> {absent}
      [] status = "unreadable" -> {"JSON_INVALID"}
      [] OTHER -> {}

(* The three agree with each other; they must with the adapter, too.       *)
IdentityIssues_mutant(p) == {}   \* mutant: agreement is taken for enough
IdentityIssues(p) ==
    When(\E k \in Control : p.contract[k].project # p.project,
         "PRIVATE_PROJECT_ID_MISMATCH")

ControlIssues(p) ==
    LET c == p.contract
    IN IF \E k \in Control : p.control[k] # "usable"
       THEN UNION {StatusIssues(p.control[k], "PRIVATE_CONTROL_FILE_MISSING") :
                     k \in Control}
       ELSE ContractIssues(c)
            \cup IdentityIssues(p)
            \cup When(c.state.status # "CURRENT", "PRIVATE_STATE_NOT_CURRENT")
            \cup When(c.validation.status # "PASS", "PRIVATE_VALIDATION_NOT_PASS")

LoadIssues(p) ==
    CASE p.root # "directory" -> {"PRIVATE_PROJECT_ROOT"}   \* missing, file or link
      [] p.root = "directory" /\ p.config # "usable" ->
            StatusIssues(p.config, "FILE_NOT_FOUND")
      [] p.root = "directory" /\ p.config = "usable" /\ SchemaIssues(p) # {} ->
            SchemaIssues(p)
      [] OTHER -> ControlIssues(p) \cup RootIssues(p)
-----------------------------------------------------------------------------
(* _build_candidate, while nobody changes the project: the control files   *)
(* and the trees of the loaded roots; the schema of the receipt asks for   *)
(* two products.                                                           *)
Buildable(p) ==
    LoadIssues(p) = {} /\ \E i, j \in Loaded(p) : i # j

Candidate(p) ==
    [receipt |-> [project |-> p.project, control |-> p.contract],
     contract |-> p.contract,
     products |-> [c \in ClassesOf(p, Loaded(p)) |->
                     UNION {FilesIn(p.disk, p.roots[i].path) :
                              i \in {j \in Loaded(p) : p.roots[j].class = c}}]]

(* _validate_release, in a runtime bound to project, of a release whose    *)
(* receipt is a Candidate's: it can be read, fits its schema and has the   *)
(* name of the release directory.                                          *)
ReleaseIssues(project, r) ==
    LET c == r.contract
    IN When(r.receipt.project # project, "PRIVATE_RUNTIME_PROJECT_CONFLICT")
       \cup When(\E k \in Control : c[k] # r.receipt.control[k],
                 "PRIVATE_CONTROL_HASH_MISMATCH")
       \cup ContractIssues(c)
       \cup When(\E k \in Control : c[k].project # project,
                 "PRIVATE_RUNTIME_PROJECT_CONFLICT")
       \cup When(\E m \in Mandatory : m \notin DOMAIN r.products \/ r.products[m] = {},
                 "PRIVATE_RUNTIME_PRODUCT_MISSING")
-----------------------------------------------------------------------------
(* docs/private-runtime-contract.md, "A private project is accepted only   *)
(* when": the control documents "pass their strict schemas and cross-      *)
(* object contract", all ids match, state CURRENT, validation PASS,        *)
(* "required product roots exist and contain files", "symlinks, special    *)
(* files, root overlap and case collisions are absent".                    *)
AcceptableProject(p) ==
    LET c == p.contract
        parts == {p.roots[i].path : i \in DOMAIN p.roots}
        in(path) == {q \in DiskPath : IsPrefix(path, q)}
    IN /\ p.root = "directory" /\ p.config = "usable"
       /\ p.version = "1.0.0" /\ p.fits
       /\ \A k \in Control : p.control[k] = "usable" /\ c[k].project = p.project
       /\ Coherent(c)
       /\ c.state.status = "CURRENT" /\ c.validation.status = "PASS"
       /\ Mandatory \subseteq ClassesOf(p, DOMAIN p.roots)
       /\ \A i, j \in DOMAIN p.roots : i # j =>
            /\ p.roots[i].class # p.roots[j].class
            /\ in(p.roots[i].path) \cap in(p.roots[j].path) = {}
       /\ \A i \in DOMAIN p.roots : p.roots[i].required =>
            \E q \in in(p.roots[i].path) : p.disk[q] = "file" /\ q # p.roots[i].path
       /\ \A path \in parts :
            /\ p.disk[path] \in {"absent", "directory"}
            /\ p.disk[<<path[1]>>] # "link"
            /\ \A q \in in(path) : p.disk[q] \notin {"link", "special"}
            /\ \A q, r \in in(path) : p.disk[q] = "file" /\ p.disk[r] = "file"
                                      /\ Folded(q) = Folded(r) => q = r
=============================================================================
