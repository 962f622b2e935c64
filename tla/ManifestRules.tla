--------------------------- MODULE ManifestRules ---------------------------
(***************************************************************************)
(* build_manifest and verify_manifest: a directory tree and its manifest.  *)
(*                                                                         *)
(* A path is the sequence of its parts, a part the sequence of its         *)
(* characters: build_manifest sorts Path objects, part by part, and the    *)
(* manifest rules sort strings, where a slash is a character like others.  *)
(* A file is its size and hash; the hash determines the file.              *)
(***************************************************************************)
EXTENDS Naturals, SequencesExt, Reports

CONSTANTS
    PartName,   \* what a file or directory may be called
    Slash,      \* the character between two parts
    Content,    \* what a file may hold: its size and hash
    Irregular,  \* symbolic links and special files
    Nothing,    \* no directory; no manifest yet
    MaxDepth,   \* BOUND: parts of a path
    MaxFiles    \* BOUND: files in a tree and entries in a manifest

ASSUME ContentAssumption ==
    /\ \A c \in Content : DOMAIN c = {"size", "hash"}
    /\ \A c, d \in Content : c.hash = d.hash => c = d
ASSUME PartAssumption ==     \* no part has a slash in it
    Slash \in Nat /\ \A n \in PartName : n \in Seq(Nat) /\ Slash \notin ToSet(n)
ASSUME BoundAssumption == MaxDepth \in Nat /\ MaxFiles \in Nat

Path == UNION {[1 .. n -> PartName] : n \in 1 .. MaxDepth}
Entry == [path : Path, size : {c.size : c \in Content},
          hash : {c.hash : c \in Content}]

(* No file is also a directory.                                            *)
IsTree(paths) ==
    \A p, q \in paths : p # q => ~IsPrefix(p, q)
Trees == UNION {[S -> Content \cup Irregular] :
                  S \in {P \in SUBSET Path : IsFiniteSet(P) /\ Cardinality(P) <= MaxFiles
                                              /\ IsTree(P)}}
Entries == {s \in Seq(Entry) : Len(s) <= MaxFiles}
Described == [tree : Trees \cup {Nothing}, manifest : Entries \cup {Nothing},
              built : BOOLEAN]   \* the manifest was built from the tree as it is
-----------------------------------------------------------------------------
(* Two orders of paths *)

Lexicographic(s, t, less(_, _)) ==
    \E n \in 1 .. Len(t) :
        /\ \A i \in 1 .. n - 1 : i <= Len(s) /\ s[i] = t[i]
        /\ n = Len(s) + 1 \/ (n <= Len(s) /\ less(s[n], t[n]))

LessText(s, t) == Lexicographic(s, t, <)
AsText(p) == FlattenSeq([i \in 1 .. Len(p) |->
                           IF i = 1 THEN p[i] ELSE <<Slash>> \o p[i]])

PathBefore(p, q) == Lexicographic(p, q, LessText)      \* sorted(Path, ...)
StringBefore(p, q) == LessText(AsText(p), AsText(q))   \* sorted(str, ...)
-----------------------------------------------------------------------------
(* inspect_release_tree                                                    *)
InspectionIssues(t) ==
    IF t = Nothing THEN {"MANIFEST_ROOT_MISSING"}
    ELSE When(\E p \in DOMAIN t : t[p] \in Irregular, "MANIFEST_IRREGULAR_FILE")

EntryOf(t, p) == [path |-> p, size |-> t[p].size, hash |-> t[p].hash]
Sorted_mutant(paths) ==          \* mutant: as rglob happens to find them
    CHOOSE s \in [1 .. Cardinality(paths) -> paths] :
        \A i, j \in DOMAIN s : i # j => s[i] # s[j]
Sorted(paths) ==
    CHOOSE s \in [1 .. Cardinality(paths) -> paths] :
        \A i, j \in DOMAIN s : i < j => PathBefore(s[i], s[j])
Manifest_mutant(t) ==            \* mutant: glob("*"), the root directory alone
    LET files == Sorted({p \in DOMAIN t : Len(p) = 1})
    IN [i \in DOMAIN files |-> EntryOf(t, files[i])]
Manifest(t) ==
    LET files == Sorted(DOMAIN t) IN [i \in DOMAIN files |-> EntryOf(t, files[i])]

(* validate_object("manifest"), of entries that fit the schema: the paths  *)
(* that its pattern refuses (empty, absolute, with a part "..", with a line *)
(* break) are not among those of Path.                                     *)
SamePath(e, f) == e.path = f.path

ManifestIssues(m) ==
    When(\E i, j \in DOMAIN m : i < j /\ SamePath(m[i], m[j]),
         "MANIFEST_DUPLICATE_PATH")
    \cup When(\E i, j \in DOMAIN m : i < j /\ StringBefore(m[j].path, m[i].path),
              "MANIFEST_PATH_ORDER")

(* The comparison by path, reached only without issues before it.          *)
Differences_mutant(expected, actual) ==    \* mutant: extra files are not looked for
    When(\E e \in expected : \A a \in actual : a.path # e.path,
         "MANIFEST_FILE_MISSING")
    \cup When(\E e \in expected, a \in actual : e.path = a.path /\ e.hash # a.hash,
              "MANIFEST_HASH_MISMATCH")
Differences(expected, actual) ==
    LET both == {x \in expected \X actual : x[1].path = x[2].path}
    IN When(\E e \in expected : \A a \in actual : a.path # e.path,
            "MANIFEST_FILE_MISSING")
       \cup When(\E a \in actual : \A e \in expected : a.path # e.path,
                 "MANIFEST_FILE_EXTRA")
       \cup When(\E x \in both : x[1].size # x[2].size, "MANIFEST_SIZE_MISMATCH")
       \cup When(\E x \in both : x[1].hash # x[2].hash, "MANIFEST_HASH_MISMATCH")

Verification(x) ==
    LET first == ManifestIssues(x.manifest) \cup InspectionIssues(x.tree)
    IN IF first # {} THEN first
       ELSE Differences(ToSet(x.manifest), ToSet(Manifest(x.tree)))
-----------------------------------------------------------------------------
(* The manifest lists the files of the tree, all of them and no others,    *)
(* once each, in the order of their paths as strings, as they are.         *)
Describes(m, t) ==
    /\ t # Nothing
    /\ \A p \in DOMAIN t : t[p] \notin Irregular
    /\ ToSet(m) = {EntryOf(t, p) : p \in DOMAIN t}
    /\ \A i, j \in DOMAIN m : i < j => StringBefore(m[i].path, m[j].path)
=============================================================================
