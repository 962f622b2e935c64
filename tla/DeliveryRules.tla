--------------------------- MODULE DeliveryRules ---------------------------
(***************************************************************************)
(* validate_professional_delivery_bundle: the catalog of products, the     *)
(* master delivery that lists them by packs, the coverage and recovery     *)
(* receipts, and the files they all name.                                  *)
(*                                                                         *)
(* A file is the set of what is wrong with it.  A document fits its        *)
(* schema, does not, or breaks: the rules run into a field that is not     *)
(* there, and the KeyError is all the caller gets.                         *)
(***************************************************************************)
EXTENDS Naturals, SequencesExt, Reports

CONSTANTS
    ProductId,
    FilePath,
    MaxCount     \* BOUND: the numbers in the coverage receipt

ASSUME CountAssumption == MaxCount \in Nat

Pack == {"CLEAN_READER", "WORKPAPER", "INTERNAL_AUDIT"}
Active == {"CURRENT", "ACCEPTED_PARENT"}
Lifecycle == Active \cup {"SUPERSEDED", "WITHDRAWN", "ARCHIVED", "NOT_APPLICABLE"}

BaseRoles == {"BASE_DD"}
SpecialistRoles == {"SPECIALIST_FULL_REPORT", "SPECIALIST_ISSUE_MEMO",
                    "SPECIALIST_ADVISER_PACK", "FORMAL_NOT_READY"}
SupplementalRoles == {"SUPPLEMENTAL_RESEARCH", "CURRENT_UPDATE"}
ParentGroups == {BaseRoles, SpecialistRoles, SupplementalRoles}
WorkpaperRoles == {"SOURCE_CONTROL", "FACT_PACK", "CALCULATION_MODEL",
                   "PROFESSIONAL_WORKPAPER"}
AuditRoles == {"ACCEPTANCE", "AUDIT_ARCHIVE"}
ReaderRoles == BaseRoles \cup SpecialistRoles \cup SupplementalRoles
               \cup {"READER_GUIDE", "INTEGRATED_DD", "TRANSACTION_STRATEGY",
                     "INVESTMENT_MEMO", "ACTION_BOOK"}
Role == ReaderRoles \cup WorkpaperRoles \cup AuditRoles
RequiredRoles == {"INTEGRATED_DD", "INVESTMENT_MEMO", "ACTION_BOOK",
                  "READER_GUIDE", "ACCEPTANCE"}

HomePack(role) ==                \* ACTIVE_ROLE_PACK
    IF role \in ReaderRoles THEN "CLEAN_READER"
    ELSE IF role \in WorkpaperRoles THEN "WORKPAPER" ELSE "INTERNAL_AUDIT"
ReaderStatus == {"READER", "SUPPORT", "CONTROL", "AUDIT"}
AllowedStatus(pack) ==           \* PACK_READER_STATUS
    CASE pack = "CLEAN_READER" -> {"READER", "SUPPORT"}
      [] pack = "WORKPAPER" -> {"CONTROL"}
      [] pack = "INTERNAL_AUDIT" -> {"AUDIT"}
      [] OTHER -> ReaderStatus

FileFault == {"unsafe", "missing", "size", "hash", "not_zip", "bad_zip"}
Product == [id : ProductId, role : Role, lifecycle : Lifecycle,
            status : ReaderStatus, pack : Pack \cup {"EXCLUDED"}, path : FilePath,
            parents : SUBSET ProductId, reason : BOOLEAN, file : SUBSET FileFault]
PackEntry == [products : SUBSET ProductId, file : SUBSET FileFault]
DeliveryDocument == {"catalog", "master", "coverage", "recovery"}
CountField == {"sources", "reviewed", "unreadable", "deferred",
               "total", "completed", "open"}
Coverage == [sources : 0 .. MaxCount, reviewed : 0 .. MaxCount,
             unreadable : 0 .. MaxCount, deferred : 0 .. MaxCount,
             total : 0 .. MaxCount, completed : 0 .. MaxCount, open : 0 .. MaxCount,
             claim : {"FULL", "PARTIAL", "NONE"}, complete : BOOLEAN]
Authority == {"CURRENT", "RECOVERY_PARENT", "WITHDRAWN", "UNKNOWN"}
Recovery == [matches : BOOLEAN, verified : BOOLEAN, pass : BOOLEAN,
             authority : Authority]
Delivery == [fits : [DeliveryDocument -> {"yes", "no", "breaks"}],
             catalog : Seq(Product), master : {"CANDIDATE", "PASS", "FAIL"},
             packs : [Pack -> PackEntry], authority : SUBSET FileFault,
             coverage : Coverage, recovery : Recovery]

-----------------------------------------------------------------------------
(* validate_catalog                                                        *)

ProductIssues(p, known) ==
    When(~(p.parents \subseteq known), "missing parent")
    \cup When(p.lifecycle = "WITHDRAWN" /\ p.pack = "CLEAN_READER",
              "withdrawn product in Clean Reader")
    \cup When(p.lifecycle = "SUPERSEDED" /\ p.pack = "CLEAN_READER",
              "superseded product in Clean Reader")
    \cup When(p.lifecycle = "NOT_APPLICABLE" /\ p.pack # "EXCLUDED",
              "not-applicable product must be excluded")
    \cup When(p.lifecycle \in Active /\ p.pack = "EXCLUDED" /\ ~p.reason,
              "accepted/current excluded without reason")
    \cup When(p.lifecycle \in Active /\ p.pack # HomePack(p.role),
              "active role must be in its pack")
    \cup When(p.lifecycle \in Active /\ p.status \notin AllowedStatus(p.pack),
              "reader_status incompatible with pack")

CatalogIssues(c) ==
    When(\E i, j \in DOMAIN c : i # j /\ c[i].id = c[j].id, "duplicate product_id")
    \cup When(\E i, j \in DOMAIN c : i # j /\ c[i].path = c[j].path,
              "duplicate product path")
    \cup (UNION {ProductIssues(p, {q.id : q \in ToSet(c)}) : p \in ToSet(c)})

(* validate_master_delivery: of several products with one id, the          *)
(* dictionary keeps the last.                                              *)
Kept(c) == {c[i] : i \in {j \in DOMAIN c :
                            \A k \in DOMAIN c : k > j => c[k].id # c[j].id}}

GroupIssues(group, kept) ==
    LET lifecycles == {p.lifecycle : p \in {q \in kept : q.role \in group}}
    IN CASE lifecycles = {} -> {"missing required parent group"}
         [] lifecycles # {} /\ lifecycles # {"NOT_APPLICABLE"} ->
              When(lifecycles \cap (Active \cup {"SUPERSEDED"}) = {},
                   "no accepted product in parent group")
         [] OTHER -> {}

Listed(packs) == UNION {packs[k].products : k \in Pack}

PlacementIssues_mutant(p, packs) ==    \* mutant: any pack will do
    IF p.pack = "EXCLUDED"
    THEN When(p.id \in Listed(packs), "excluded product included in a pack")
    ELSE When(p.id \notin Listed(packs), "product missing from declared pack")
PlacementIssues(p, packs) ==
    IF p.pack = "EXCLUDED"
    THEN When(p.id \in Listed(packs), "excluded product included in a pack")
    ELSE When(p.id \notin Listed(packs), "product missing from declared pack")
         \cup When(p.id \notin packs[p.pack].products, "placement mismatch")

MasterIssues(status, packs, kept) ==
    LET found ==
          When(\E x \in Listed(packs) : \A p \in kept : p.id # x, "unknown product")
          \cup When(\E k, l \in Pack : k # l
                       /\ packs[k].products \cap packs[l].products # {},
                    "product appears in multiple packs")
          \cup When(\E r \in RequiredRoles :
                       \A p \in kept : p.role = r => p.lifecycle \notin Active,
                    "missing required role")
          \cup (UNION {GroupIssues(g, kept) : g \in ParentGroups})
          \cup (UNION {PlacementIssues(p, packs) : p \in kept})
    IN found \cup When(status = "PASS" /\ found # {},
                       "status PASS is incompatible with validation issues")
-----------------------------------------------------------------------------
(* validate_source_review_coverage, validate_system_recovery_receipt       *)

CoverageIssues(c) ==
    LET disposed == c.reviewed + c.unreadable + c.deferred
        complete == /\ disposed = c.sources /\ c.completed = c.total
                    /\ c.open = 0 /\ c.deferred = 0
    IN When(disposed # c.sources, "disposition total")
       \cup When(c.completed > c.total, "P0/P1 completed exceeds total")
       \cup When(c.complete # complete, "coverage_complete is inconsistent")
       \cup When(c.claim = "FULL" /\ (c.unreadable > 0 \/ c.deferred > 0 \/ c.open > 0),
                 "FULL professional review claim is not supported")

RecoveryIssues(r) ==
    When(r.pass # (r.matches /\ r.authority \in {"CURRENT", "RECOVERY_PARENT"}
                   /\ r.verified), "recovery gate inconsistent")

(* What is first in the way of a file is reported, then its contents.      *)
FileIssues(file, contents) ==
    IF "unsafe" \in file THEN {"unsafe relative path"}
    ELSE IF "missing" \in file THEN {"file missing"}
    ELSE When(file \cap contents # {}, "file differs")

(* validate_professional_delivery_bundle                                   *)
DeliveryIssues(d) ==
    IF \E x \in DeliveryDocument : d.fits[x] = "breaks" THEN {"KeyError"}
    ELSE When(\E x \in DeliveryDocument : d.fits[x] = "no", "schema")
         \cup CatalogIssues(d.catalog)
         \cup MasterIssues(d.master, d.packs, Kept(d.catalog))
         \cup CoverageIssues(d.coverage) \cup RecoveryIssues(d.recovery)
         \cup (UNION {FileIssues(p.file, {"size", "hash"}) :
                        p \in {q \in ToSet(d.catalog) :
                                 q.pack # "EXCLUDED" /\ q.lifecycle # "NOT_APPLICABLE"}})
         \cup (UNION {FileIssues(d.packs[k].file, {"hash", "not_zip", "bad_zip"}) :
                        k \in Pack})
         \cup FileIssues(d.authority, {})
-----------------------------------------------------------------------------
(* docs/professional-delivery-controls.md: "active role-to-pack rules so   *)
(* reader, workpaper, and audit products cannot be silently misplaced";    *)
(* "rejects memo-only or incomplete delivery bundles"; "entity-file,       *)
(* subpack ZIP, authority-file, size, file-count, CRC, safe-path, and      *)
(* SHA-256 verification".                                                  *)

(* Every product is where its role and lifecycle belong, and each pack     *)
(* lists the products placed in it, those and no others.                   *)
WellPlaced(c, packs) ==
    /\ \A p \in ToSet(c) :
         CASE p.lifecycle \in Active ->
                p.pack = HomePack(p.role) /\ p.status \in AllowedStatus(p.pack)
           [] p.lifecycle \in {"SUPERSEDED", "WITHDRAWN"} -> p.pack # "CLEAN_READER"
           [] p.lifecycle = "NOT_APPLICABLE" -> p.pack = "EXCLUDED"
           [] OTHER -> TRUE
    /\ \A k \in Pack :
         packs[k].products = {p.id : p \in {q \in ToSet(c) : q.pack = k}}

Complete(c) ==
    /\ \A r \in RequiredRoles :
         \E p \in ToSet(c) : p.role = r /\ p.lifecycle \in Active
    /\ \A g \in ParentGroups :
         LET group == {p \in ToSet(c) : p.role \in g}
         IN /\ group # {}
            /\ (\A p \in group : p.lifecycle = "NOT_APPLICABLE")
               \/ \E p \in group : p.lifecycle \in Active \cup {"SUPERSEDED"}

Reviewed(c) ==
    /\ c.reviewed + c.unreadable + c.deferred = c.sources /\ c.completed <= c.total
    /\ c.complete <=> c.completed = c.total /\ c.open = 0 /\ c.deferred = 0
    /\ c.claim = "FULL" => c.unreadable = 0 /\ c.deferred = 0 /\ c.open = 0

WholeDelivery(d) ==
    /\ \A x \in DeliveryDocument : d.fits[x] = "yes"
    /\ \A i, j \in DOMAIN d.catalog :
         i # j => d.catalog[i].id # d.catalog[j].id
                  /\ d.catalog[i].path # d.catalog[j].path
    /\ \A p \in ToSet(d.catalog), x \in ProductId :
         x \in p.parents => \E q \in ToSet(d.catalog) : q.id = x
    /\ WellPlaced(d.catalog, d.packs) /\ Complete(d.catalog)
    /\ Reviewed(d.coverage) /\ RecoveryIssues(d.recovery) = {}
    /\ \A p \in ToSet(d.catalog) :
         p.pack \in Pack => p.file \cap {"unsafe", "missing", "size", "hash"} = {}
    /\ \A k \in Pack : d.packs[k].file \ {"size"} = {}
    /\ d.authority \cap {"unsafe", "missing"} = {}
=============================================================================
