------------------------- MODULE ArchiveInspection -------------------------
(***************************************************************************)
(* inspect_archive: the walk over the members of a ZIP file and, level by  *)
(* level, over the ZIP files among them; and inspect_package around it,    *)
(* for ZIP files, strict release directories and directories of any kind.  *)
(*                                                                         *)
(* A name is what the rules tell apart: its root, its name with case       *)
(* folded, whether it is unsafe, a directory, a nested archive.  ZIP data  *)
(* is a function from archives to their members, so that an archive may    *)
(* be nested in several, or in itself.                                     *)
(***************************************************************************)
EXTENDS Naturals, SequencesExt, Reports

CONSTANTS
    Name,           \* names of members and of files in a directory
    RootOf, FoldOf, \* the first part of a name; the name with its case folded
    UnsafeName, DirectoryName, ZipName,
    LowerZipName,   \* the ZIP names that end in .zip in lower case
    Archive,        \* ZIP data
    NotZip,         \* data that is no ZIP file
    MaxSize,        \* BOUND: bytes of a member, expanded and compressed
    Limits          \* PackageLimits

ASSUME LimitsAssumption ==
    Limits \in [entries : Nat \ {0}, total : Nat \ {0}, member : Nat \ {0},
                ratio : Nat \ {0}, depth : Nat]
ASSUME SizeAssumption == MaxSize \in Nat

Member == [name : Name, size : 0 .. MaxSize, packed : 0 .. MaxSize,
           encrypted : BOOLEAN, link : BOOLEAN, corrupt : BOOLEAN,
           holds : Archive \cup {NotZip}]

IsSafe(m) == m.name \notin UnsafeName
IsData(m) == IsSafe(m) /\ m.name \notin DirectoryName
IsNested(m) == IsData(m) /\ m.name \in ZipName
-----------------------------------------------------------------------------
(* _inspect_zip_archive, without what is nested                            *)

Oversized(m) == m.size > Limits.member
Bomb(m) == m.size > 0 /\ (m.packed = 0 \/ m.size > Limits.ratio * m.packed)
Expanded(s, chosen) ==
    MapThenSumSet(LAMBDA i : IF IsData(s[i]) THEN s[i].size ELSE 0, chosen)
Roots(s) == {RootOf[m.name] : m \in {n \in ToSet(s) : IsSafe(n)}}

CaseIssues(s, chosen) ==
    When(\E i, j \in chosen : s[i].name # s[j].name /\ FoldOf[s[i].name] = FoldOf[s[j].name],
         "PACKAGE_CASE_COLLISION")
NameIssues(s) ==
    When(\E i, j \in DOMAIN s : i # j /\ s[i].name = s[j].name,
         "PACKAGE_DUPLICATE_MEMBER")
    \cup CaseIssues(s, DOMAIN s)

MemberIssues(m) ==
    When(~IsSafe(m), "PACKAGE_UNSAFE_PATH")
    \cup When(IsSafe(m) /\ m.encrypted, "PACKAGE_ENCRYPTED_MEMBER")
    \cup When(IsSafe(m) /\ m.link, "PACKAGE_SYMLINK_MEMBER")
    \cup When(IsData(m) /\ Oversized(m), "PACKAGE_MEMBER_SIZE_LIMIT")
    \cup When(IsData(m) /\ Bomb(m), "PACKAGE_COMPRESSION_RATIO_LIMIT")

(* testzip stops at the first member it cannot read, of any name.          *)
TestIssues_mutant(s) == {}       \* mutant: members are listed, not tested
TestIssues(s) ==
    LET stops == {i \in DOMAIN s : s[i].encrypted \/ s[i].corrupt}
    IN IF stops = {} THEN {}
       ELSE IF s[Min(stops)].encrypted THEN {"PACKAGE_ENCRYPTED_MEMBER"}
       ELSE {"PACKAGE_CORRUPT"}

LevelIssues(s) ==
    When(Len(s) > Limits.entries, "PACKAGE_ENTRY_LIMIT")
    \cup NameIssues(s)
    \cup (UNION {MemberIssues(m) : m \in ToSet(s)})
    \cup When(Expanded(s, DOMAIN s) > Limits.total, "PACKAGE_TOTAL_SIZE_LIMIT")
    \cup When(Cardinality(Roots(s)) # 1, "PACKAGE_NOT_SINGLE_ROOT")
    \cup TestIssues(s)
-----------------------------------------------------------------------------
(* The walk: with no depth left a nested archive is refused, otherwise it  *)
(* is read, if it may be, and inspected with the limits from the start.    *)
MayRead(m) == ~Oversized(m) /\ ~m.encrypted
Opens(m) == MayRead(m) /\ ~m.corrupt /\ m.holds # NotZip

ReadIssues_mutant(m) ==          \* mutant: data that is no ZIP is passed over
    When(MayRead(m) /\ m.corrupt, "PACKAGE_NESTED_READ_FAILED")
ReadIssues(m) ==
    When(MayRead(m) /\ m.corrupt, "PACKAGE_NESTED_READ_FAILED")
    \cup When(MayRead(m) /\ ~m.corrupt /\ m.holds = NotZip, "PACKAGE_INVALID_ZIP")

Nested(s) == {m \in ToSet(s) : IsNested(m)}

Inspection(zip) ==
    LET inspect[left \in 0 .. Limits.depth] ==
          [a \in Archive |->
             LevelIssues(zip[a])
             \cup (UNION {IF left = 0 THEN {"PACKAGE_NESTED_DEPTH_LIMIT"}
                          ELSE ReadIssues(m) : m \in Nested(zip[a])})
             \cup (UNION {inspect[left - 1][m.holds] :
                            m \in {n \in Nested(zip[a]) : left > 0 /\ Opens(n)}})]
    IN inspect[Limits.depth]

(* inspect_archive of a file of this size.                                 *)
ArchiveIssues(zip, data, size) ==
    IF size > Limits.total THEN {"PACKAGE_ARCHIVE_SIZE_LIMIT"}
    ELSE IF data = NotZip THEN {"PACKAGE_INVALID_ZIP"}
    ELSE Inspection(zip)[data]
-----------------------------------------------------------------------------
(* inspect_package.  A package is what is at the path, with the ZIP data   *)
(* of all archives involved: the outer one stands for the file at the path *)
(* or for the files of the directory, which are what it would extract to.  *)
(* Of package.json and manifest.json only what the rules say of them; that *)
(* verify_manifest reports nothing is verifies (see ManifestReconcile).    *)
Json == {"missing", "unreadable", "unfit", "fits"}
Package == [form : {"missing", "file", "zip", "directory"},
            profile : {"auto", "archive", "release", "other"},
            zip : [Archive -> Seq(Member)], outer : Archive, size : 0 .. MaxSize,
            descriptor : Json, idIsRoot : BOOLEAN,
            manifest : Json, rootIsPayload : BOOLEAN, verifies : BOOLEAN,
            payload : {"missing", "file", "directory"}, extra : BOOLEAN]

JsonIssues(status) ==
    CASE status = "missing" -> {"PACKAGE_ENVELOPE_MISSING"}
      [] status = "unreadable" -> {"JSON_INVALID"}
      [] status = "unfit" -> {"SCHEMA_VIOLATION"}
      [] OTHER -> {}
IsObject(status) == status \in {"unfit", "fits"}

NestedIssues_mutant(zip, nested) == {}   \* mutant: left to the manifest
NestedIssues(zip, nested) ==
    UNION {ArchiveIssues(zip, m.holds, m.size) : m \in nested}

(* validate_release_directory: payload.rglob("*.zip") minds the case.      *)
EnvelopeIssues(x) ==
    When(x.extra, "PACKAGE_ENVELOPE_EXTRA")
    \cup JsonIssues(x.descriptor) \cup JsonIssues(x.manifest)
    \cup When(x.payload # "directory", "PACKAGE_PAYLOAD_MISSING")
    \cup When(IsObject(x.descriptor) /\ ~x.idIsRoot, "PACKAGE_ID_ROOT_MISMATCH")
    \cup When(IsObject(x.manifest) /\ ~x.rootIsPayload, "PACKAGE_MANIFEST_ROOT_MISMATCH")
    \cup When(x.manifest = "fits" /\ x.payload = "directory" /\ ~x.verifies,
              "MANIFEST_MISMATCH")
    \cup IF x.payload = "directory"
         THEN NestedIssues(x.zip, {m \in Nested(x.zip[x.outer]) : m.name \in LowerZipName})
         ELSE {}

GenericIssues(x) ==
    LET s == x.zip[x.outer]
        files == {i \in DOMAIN s : IsData(s[i]) /\ ~s[i].link}
    IN When(\E m \in ToSet(s) : m.link, "MANIFEST_IRREGULAR_FILE")
       \cup When(Cardinality(files) > Limits.entries, "PACKAGE_ENTRY_LIMIT")
       \cup When(Expanded(s, files) > Limits.total, "PACKAGE_TOTAL_SIZE_LIMIT")
       \cup CaseIssues(s, files)
       \cup When(\E i \in files : Oversized(s[i]), "PACKAGE_MEMBER_SIZE_LIMIT")
       \cup NestedIssues(x.zip, {m \in Nested(s) : ~m.link})

HasEnvelope(x) ==
    x.descriptor # "missing" \/ x.manifest # "missing" \/ x.payload # "missing"
IsRelease(x) == x.profile = "release" \/ HasEnvelope(x)

DirectoryIssues(x) ==
    CASE x.profile = "archive" -> {"PACKAGE_PROFILE_MISMATCH"}
      [] x.profile # "archive" /\ IsRelease(x) -> EnvelopeIssues(x)
      [] OTHER -> GenericIssues(x)

ZipIssues(x) ==
    LET outer == ArchiveIssues(x.zip, x.outer, x.size)
    IN IF outer = {} /\ x.profile # "archive" /\ IsRelease(x)
       THEN EnvelopeIssues(x) ELSE outer

PackageIssues(x) ==
    CASE x.profile = "other" -> {"PACKAGE_PROFILE_INVALID"}
      [] x.profile # "other" /\ x.form = "directory" -> DirectoryIssues(x)
      [] x.profile # "other" /\ x.form = "zip" -> ZipIssues(x)
      [] x.profile # "other" /\ x.form = "missing" -> {"FILE_NOT_FOUND"}
      [] OTHER -> {"PACKAGE_TYPE_UNSUPPORTED"}
-----------------------------------------------------------------------------
(* docs/package-format.md: "Validation rejects unsafe paths, duplicate     *)
(* members, case-insensitive collisions, encrypted members, symbolic       *)
(* links, excessive file counts, oversized members, excessive expansion,   *)
(* excessive compression ratios and nested archives beyond the configured  *)
(* depth.  Nested ZIP files are recursively inspected."                    *)
CleanArchive(s) ==
    /\ s # <<>> /\ Len(s) <= Limits.entries /\ Expanded(s, DOMAIN s) <= Limits.total
    /\ \A i, j \in DOMAIN s : RootOf[s[i].name] = RootOf[s[j].name]
    /\ \A i, j \in DOMAIN s : FoldOf[s[i].name] = FoldOf[s[j].name] => i = j
    /\ \A m \in ToSet(s) : IsSafe(m) /\ ~m.encrypted /\ ~m.link /\ ~m.corrupt
    /\ \A m \in ToSet(s) : m.name \notin DirectoryName =>
         m.size <= Limits.member /\ m.size <= Limits.ratio * m.packed

(* The archives nested k deep in a, however often and along whatever way.  *)
NestedIn(zip, a) ==
    LET level[k \in 0 .. Limits.depth + 1] ==
          IF k = 0 THEN {a}
          ELSE {m.holds : m \in UNION {Nested(zip[b]) : b \in level[k - 1] \ {NotZip}}}
    IN level

AcceptableArchive(zip, a) ==
    LET level == NestedIn(zip, a)
    IN /\ \A k \in 0 .. Limits.depth : \A b \in level[k] :
            b # NotZip /\ CleanArchive(zip[b])
       /\ level[Limits.depth + 1] = {}
=============================================================================
