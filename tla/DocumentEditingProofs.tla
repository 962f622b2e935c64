----------------------- MODULE DocumentEditingProofs -----------------------
(***************************************************************************)
(* What the rules say of documents of any size: the contract rules, the    *)
(* delivery rules, the loading of a private project and the manifest rules *)
(* are exact, and a project that loads makes a release that its runtime    *)
(* accepts, provided that no adapter declares a mandatory class optional.  *)
(***************************************************************************)
EXTENDS DocumentEditing, SequenceTheorems, FiniteSetTheorems, WellFoundedInduction, TLAPS

(***************************************************************************)
(* The contract rules.  An object has no issue exactly when it fits its    *)
(* schema and does not claim decision readiness with open gates or         *)
(* restricted outputs.                                                     *)
(***************************************************************************)
LEMMA ObjectAccepted ==
    ASSUME NEW d, d.version \in Version, d.fits \in BOOLEAN
    PROVE  ObjectIssues(d) = {} <=>
             /\ d.version = "1.0.0" /\ d.fits
             /\ d.boundaries.ready => d.boundaries.gates = 0
                                      /\ d.boundaries.restricted = {}
BY DEF ObjectIssues, SchemaIssues, BoundaryIssues, When, Version

LEMMA ObjectRefused ==
    ASSUME NEW d, d.version \in Version, d.fits \in BOOLEAN
    PROVE  ObjectIssues(d) \cap Structural = {} <=> d.version = "1.0.0" /\ d.fits
BY DEF ObjectIssues, SchemaIssues, BoundaryIssues, When, Version, Structural

LEMMA Agreed ==
    ASSUME NEW s, NEW l, NEW v
    PROVE  AgreementIssues(s, l, v) = {} <=>
             /\ s.project = l.project /\ s.project = v.project
             /\ s.status = l.status /\ s.class = l.class /\ s.next = l.next
             /\ \A f \in {l.boundaries, v.boundaries} :
                  /\ s.boundaries.gates = f.gates
                  /\ s.boundaries.restricted = f.restricted
                  /\ s.boundaries.ready = f.ready
BY DEF AgreementIssues, AllEqual, When

(* Boundaries are the same when their three fields are.                    *)
LEMMA SameBoundaries ==
    ASSUME NEW a \in Boundaries, NEW b \in Boundaries,
           a.gates = b.gates, a.restricted = b.restricted, a.ready = b.ready
    PROVE  a = b
BY DEF Boundaries

LEMMA ContractRulesAreExact ==
    ASSUME NEW c \in Contract
    PROVE  ContractIssues(c) = {} <=> Coherent(c)
<1> DEFINE s == c.state
           l == c.lock
           v == c.validation
           own == ObjectIssues(s) \cup ObjectIssues(l) \cup ObjectIssues(v)
           fit == \A d \in {s, l, v} : d.version = "1.0.0" /\ d.fits
<1>1. \A d \in {s, l, v} : /\ d.version \in Version /\ d.fits \in BOOLEAN
                           /\ d.boundaries \in Boundaries
  BY DEF Contract, Controlled, Validation
<1>2. own \cap Structural = {} <=> fit
  BY <1>1, ObjectRefused
<1>3. own = {} <=> fit /\ \A d \in {s, l, v} :
                            d.boundaries.ready => d.boundaries.gates = 0
                                                  /\ d.boundaries.restricted = {}
  BY <1>1, ObjectAccepted
<1>4. AgreementIssues(s, l, v) = {} <=>
        /\ s.project = l.project /\ s.project = v.project
        /\ s.status = l.status /\ s.class = l.class /\ s.next = l.next
        /\ s.boundaries = l.boundaries /\ s.boundaries = v.boundaries
  BY <1>1, Agreed, SameBoundaries
<1>5. FinalIssues(s) = {} <=>
        (s.class = "FINAL_FULL_DD" => /\ s.boundaries.gates = 0
                                      /\ s.boundaries.restricted = {}
                                      /\ s.boundaries.ready)
  BY <1>1 DEF FinalIssues, When, Boundaries
<1>6. ContractIssues(c) = {} <=>
        fit /\ own = {} /\ AgreementIssues(s, l, v) = {} /\ FinalIssues(s) = {}
  BY <1>2 DEF ContractIssues
<1>7. fit <=> \A k \in {"state", "lock", "validation"} :
                c[k].version = "1.0.0" /\ c[k].fits
  OBVIOUS
<1>8. QED
  BY <1>3, <1>4, <1>5, <1>6, <1>7 DEF Coherent
-----------------------------------------------------------------------------
(***************************************************************************)
(* What holds whatever is edited: the subject is a document of its kind,   *)
(* of which nothing is needed for manifests, and a verdict is that of the  *)
(* rules on the subject as it is.                                          *)
(***************************************************************************)
Ruling(k, d) ==
    CASE k = "contract" -> ContractIssues(d) [] k = "project" -> LoadIssues(d)
      [] k = "delivery" -> DeliveryIssues(d) [] k = "package" -> PackageIssues(d)
      [] k = "manifest" -> Verification(d)

Inv ==
    /\ kind \in Kind /\ (kind # "manifest" => subject \in Document(kind))
    /\ verdict # Unknown => verdict = Ruling(kind, subject)

LEMMA EditKeeps ==
    ASSUME NEW k \in Kind, NEW S, Inv, kind = k,
           subject' \in {d \in S : d \in Document(k)}, verdict' = Unknown, kind' = kind
    PROVE  Inv'
BY DEF Inv, Document

LEMMA InvHolds == Spec => []Inv
<1>1. Init => Inv
  BY OriginalAssumption DEF Init, Inv
<1>2. Inv /\ [Next]_vars => Inv'
  <2> SUFFICES ASSUME Inv, [Next]_vars PROVE Inv'
    OBVIOUS
  <2> USE DEF Kind
  <2>1. CASE EditContract
    BY <2>1, EditKeeps DEF EditContract, Edit
  <2>2. CASE EditProject
    BY <2>2, EditKeeps DEF EditProject, Edit
  <2>3. CASE EditDelivery
    BY <2>3, EditKeeps DEF EditDelivery, Edit
  <2>4. CASE EditPackage
    BY <2>4, EditKeeps DEF EditPackage, Edit
  <2>5. CASE ValidateContract
    BY <2>5 DEF ValidateContract, Judge, Inv, Ruling, Document
  <2>6. CASE ValidateProject
    BY <2>6 DEF ValidateProject, Judge, Inv, Ruling, Document
  <2>7. CASE ValidateDelivery
    BY <2>7 DEF ValidateDelivery, Judge, Inv, Ruling, Document
  <2>8. CASE ValidatePackage
    BY <2>8 DEF ValidatePackage, Judge, Inv, Ruling, Document
  <2>9. CASE EditManifest
    BY <2>9, EditKeeps DEF EditManifest, Edit
  <2>10. CASE BuildManifest
    BY <2>10 DEF BuildManifest, Inv, vars
  <2>11. CASE VerifyManifest
    BY <2>11 DEF VerifyManifest, Judge, Inv, Ruling
  <2>12. CASE UNCHANGED vars
    BY <2>12 DEF vars, Inv
  <2>13. QED
    BY <2>1, <2>2, <2>3, <2>4, <2>5, <2>6, <2>7, <2>8, <2>9, <2>10, <2>11, <2>12
    DEF Next
<1>3. QED
  BY <1>1, <1>2, PTL DEF Spec

(* Whatever documents an author writes, validate_contract_objects reports  *)
(* nothing exactly when the documented cross-object contract holds.        *)
THEOREM ContractIsExact == Spec => []AcceptsExactlyCoherent
<1>1. Inv => AcceptsExactlyCoherent
  BY ContractRulesAreExact DEF Inv, AcceptsExactlyCoherent, Judged, Document, Ruling
<1>2. QED
  BY <1>1, InvHolds, PTL
-----------------------------------------------------------------------------
(***************************************************************************)
(* The delivery rules, of which the placement of products is the hard      *)
(* part: the rules go over packs, ids and products separately.             *)
(***************************************************************************)
UniqueIds(c) == \A i, j \in DOMAIN c : i # j => c[i].id # c[j].id

(* The dictionary of a catalog without duplicates loses nothing.           *)
LEMMA KeptIsAll ==
    ASSUME NEW c \in Seq(Product), UniqueIds(c)
    PROVE  /\ Kept(c) = ToSet(c)
           /\ \A p, q \in ToSet(c) : p.id = q.id => p = q
BY DEF Kept, ToSet, UniqueIds

LEMMA HomeIsAPack ==
    \A r : HomePack(r) \in Pack
BY DEF HomePack, Pack

LEMMA ProductRules ==
    ASSUME NEW p \in Product, NEW known
    PROVE  ProductIssues(p, known) = {} <=>
             /\ p.parents \subseteq known
             /\ CASE p.lifecycle \in Active ->
                       p.pack = HomePack(p.role) /\ p.status \in AllowedStatus(p.pack)
                  [] p.lifecycle \in {"SUPERSEDED", "WITHDRAWN"} ->
                       p.pack # "CLEAN_READER"
                  [] p.lifecycle = "NOT_APPLICABLE" -> p.pack = "EXCLUDED"
                  [] OTHER -> TRUE
<1>1. p.lifecycle \in Lifecycle /\ HomePack(p.role) # "EXCLUDED"
  BY HomeIsAPack DEF Product, Pack
<1>2. CASE p.lifecycle \in Active
  BY <1>1, <1>2 DEF ProductIssues, When, Active
<1>3. CASE p.lifecycle \in {"SUPERSEDED", "WITHDRAWN"}
  BY <1>1, <1>3 DEF ProductIssues, When, Active
<1>4. CASE p.lifecycle = "NOT_APPLICABLE"
  BY <1>1, <1>4 DEF ProductIssues, When, Active
<1>5. CASE p.lifecycle = "ARCHIVED"
  BY <1>1, <1>5 DEF ProductIssues, When, Active
<1>6. QED
  BY <1>1, <1>2, <1>3, <1>4, <1>5 DEF Lifecycle

(* Placed product by product and listed pack by pack comes to the same.    *)
LEMMA PlacementRules ==
    ASSUME NEW S \in SUBSET Product, NEW packs \in [Pack -> PackEntry],
           \A p, q \in S : p.id = q.id => p = q
    PROVE  (/\ \A x \in Listed(packs) : \E p \in S : p.id = x
            /\ \A k, l \in Pack : k # l => packs[k].products \cap packs[l].products = {}
            /\ \A p \in S : PlacementIssues(p, packs) = {})
           <=> \A k \in Pack : packs[k].products = {p.id : p \in {q \in S : q.pack = k}}
<1>1. \A p \in S : p.pack \in Pack \cup {"EXCLUDED"}
  BY DEF Product
<1>2. \A p \in S : PlacementIssues(p, packs) = {} <=>
                     IF p.pack = "EXCLUDED" THEN p.id \notin Listed(packs)
                     ELSE p.id \in packs[p.pack].products
  BY <1>1 DEF PlacementIssues, When, Listed
<1>3. \A x : x \in Listed(packs) <=> \E k \in Pack : x \in packs[k].products
  BY DEF Listed
<1>4. "EXCLUDED" \notin Pack
  BY DEF Pack
<1>5. ASSUME \A x \in Listed(packs) : \E p \in S : p.id = x,
             \A k, l \in Pack : k # l => packs[k].products \cap packs[l].products = {},
             \A p \in S : PlacementIssues(p, packs) = {},
             NEW k \in Pack
      PROVE  packs[k].products = {p.id : p \in {q \in S : q.pack = k}}
  <2>1. ASSUME NEW x \in packs[k].products
        PROVE  \E p \in S : p.id = x /\ p.pack = k
    <3>1. PICK p \in S : p.id = x
      BY <1>3, <1>5
    <3>2. p.pack # "EXCLUDED" /\ x \in packs[p.pack].products
      BY <1>2, <1>3, <1>5, <3>1
    <3>3. p.pack = k
      BY <1>1, <1>5, <3>2
    <3>4. QED
      BY <3>1, <3>3
  <2>2. ASSUME NEW p \in S, p.pack = k
        PROVE  p.id \in packs[k].products
    BY <1>2, <1>4, <1>5, <2>2
  <2>3. QED
    BY <2>1, <2>2
<1>6. ASSUME \A k \in Pack : packs[k].products = {p.id : p \in {q \in S : q.pack = k}}
      PROVE  /\ \A x \in Listed(packs) : \E p \in S : p.id = x
             /\ \A k, l \in Pack : k # l => packs[k].products \cap packs[l].products = {}
             /\ \A p \in S : PlacementIssues(p, packs) = {}
  <2>1. \A k \in Pack : \A x : x \in packs[k].products
                                <=> \E p \in S : p.id = x /\ p.pack = k
    BY <1>6
  <2>2. \A x \in Listed(packs) : \E p \in S : p.id = x
    BY <1>3, <2>1
  <2>3. \A k, l \in Pack : k # l => packs[k].products \cap packs[l].products = {}
    BY <2>1
  <2>4. ASSUME NEW p \in S
        PROVE  IF p.pack = "EXCLUDED" THEN p.id \notin Listed(packs)
               ELSE p.id \in packs[p.pack].products
    BY <1>1, <1>3, <1>4, <2>1
  <2>5. QED
    BY <1>2, <2>2, <2>3, <2>4
<1>7. QED
  BY <1>5, <1>6

LEMMA GroupRules ==
    ASSUME NEW g, NEW S \in SUBSET Product
    PROVE  GroupIssues(g, S) = {} <=>
             LET group == {p \in S : p.role \in g}
             IN /\ group # {}
                /\ (\A p \in group : p.lifecycle = "NOT_APPLICABLE")
                   \/ \E p \in group : p.lifecycle \in Active \cup {"SUPERSEDED"}
<1> DEFINE group == {p \in S : p.role \in g}
           lifecycles == {p.lifecycle : p \in group}
<1>1. lifecycles = {} <=> group = {}
  OBVIOUS
<1>2. ASSUME group # {}
      PROVE  lifecycles = {"NOT_APPLICABLE"}
               <=> \A p \in group : p.lifecycle = "NOT_APPLICABLE"
  BY <1>2
<1>3. lifecycles \cap (Active \cup {"SUPERSEDED"}) = {}
        <=> ~\E p \in group : p.lifecycle \in Active \cup {"SUPERSEDED"}
  OBVIOUS
<1>4. GroupIssues(g, S) = {} <=>
        /\ lifecycles # {}
        /\ lifecycles = {"NOT_APPLICABLE"}
           \/ lifecycles \cap (Active \cup {"SUPERSEDED"}) # {}
  BY DEF GroupIssues, When
<1>5. QED
  BY <1>1, <1>2, <1>3, <1>4

LEMMA MasterRules ==
    ASSUME NEW S \in SUBSET Product, NEW packs \in [Pack -> PackEntry],
           NEW status, \A p, q \in S : p.id = q.id => p = q
    PROVE  MasterIssues(status, packs, S) = {} <=>
             /\ \A k \in Pack :
                  packs[k].products = {p.id : p \in {q \in S : q.pack = k}}
             /\ \A r \in RequiredRoles : \E p \in S : p.role = r /\ p.lifecycle \in Active
             /\ \A g \in ParentGroups : GroupIssues(g, S) = {}
<1> DEFINE known == \A x \in Listed(packs) : \E p \in S : p.id = x
           apart == \A k, l \in Pack :
                      k # l => packs[k].products \cap packs[l].products = {}
           roles == \A r \in RequiredRoles :
                      \E p \in S : p.role = r /\ p.lifecycle \in Active
<1>1. MasterIssues(status, packs, S) = {} <=>
        /\ known /\ apart /\ roles
        /\ \A g \in ParentGroups : GroupIssues(g, S) = {}
        /\ \A p \in S : PlacementIssues(p, packs) = {}
  <2>1. (UNION {GroupIssues(g, S) : g \in ParentGroups}) = {}
          <=> \A g \in ParentGroups : GroupIssues(g, S) = {}
    OBVIOUS
  <2>2. (UNION {PlacementIssues(p, packs) : p \in S}) = {}
          <=> \A p \in S : PlacementIssues(p, packs) = {}
    OBVIOUS
  <2>3. MasterIssues(status, packs, S) = {} <=>
          /\ known /\ apart /\ roles
          /\ (UNION {GroupIssues(g, S) : g \in ParentGroups}) = {}
          /\ (UNION {PlacementIssues(p, packs) : p \in S}) = {}
    <3> DEFINE u == When(\E x \in Listed(packs) : \A p \in S : p.id # x,
                         "unknown product")
               m == When(\E k, l \in Pack : k # l
                            /\ packs[k].products \cap packs[l].products # {},
                         "product appears in multiple packs")
               r == When(\E x \in RequiredRoles :
                           \A p \in S : p.role = x => p.lifecycle \notin Active,
                         "missing required role")
               g == UNION {GroupIssues(x, S) : x \in ParentGroups}
               h == UNION {PlacementIssues(p, packs) : p \in S}
               found == u \cup m \cup r \cup g \cup h
    <3>1. u = {} <=> known
      BY DEF When
    <3>2. m = {} <=> apart
      BY DEF When
    <3>3. r = {} <=> roles
      BY DEF When
    <3>4. MasterIssues(status, packs, S)
            = found \cup When(status = "PASS" /\ found # {},
                "status PASS is incompatible with validation issues")
      BY Zenon DEF MasterIssues
    <3>5. MasterIssues(status, packs, S) = {} <=> found = {}
      <4> HIDE DEF found
      <4> QED  BY <3>4 DEF When
    <3>6. found = {} <=> u = {} /\ m = {} /\ r = {} /\ g = {} /\ h = {}
      <4> HIDE DEF u, m, r, g, h
      <4> QED  OBVIOUS
    <3>7. QED
      BY <3>1, <3>2, <3>3, <3>5, <3>6
  <2>4. QED
    BY <2>1, <2>2, <2>3
<1>2. QED
  BY <1>1, PlacementRules

LEMMA FileRules ==
    ASSUME NEW file, NEW contents
    PROVE  FileIssues(file, contents) = {} <=>
             "unsafe" \notin file /\ "missing" \notin file /\ file \cap contents = {}
BY DEF FileIssues, When

LEMMA CoverageRules ==
    ASSUME NEW c \in Coverage
    PROVE  CoverageIssues(c) = {} <=> Reviewed(c)
<1> DEFINE disposed == c.reviewed + c.unreadable + c.deferred
<1>1. /\ c.unreadable \in Nat /\ c.deferred \in Nat /\ c.open \in Nat
      /\ c.completed \in Nat /\ c.total \in Nat /\ c.complete \in BOOLEAN
  BY CountAssumption DEF Coverage
<1>2. CoverageIssues(c) = {} <=>
        /\ disposed = c.sources /\ ~(c.completed > c.total)
        /\ c.complete = (/\ disposed = c.sources /\ c.completed = c.total
                         /\ c.open = 0 /\ c.deferred = 0)
        /\ ~(c.claim = "FULL" /\ (c.unreadable > 0 \/ c.deferred > 0 \/ c.open > 0))
  BY DEF CoverageIssues, When
<1>3. ~(c.completed > c.total) <=> c.completed <= c.total
  BY <1>1
<1>4. /\ c.unreadable > 0 <=> c.unreadable # 0
      /\ c.deferred > 0 <=> c.deferred # 0
      /\ c.open > 0 <=> c.open # 0
  BY <1>1
<1>5. QED
  BY <1>1, <1>2, <1>3, <1>4 DEF Reviewed

LEMMA CatalogRules ==
    ASSUME NEW c \in Seq(Product), NEW packs \in [Pack -> PackEntry], NEW status
    PROVE  CatalogIssues(c) = {} /\ MasterIssues(status, packs, Kept(c)) = {} <=>
             /\ \A i, j \in DOMAIN c :
                  i # j => c[i].id # c[j].id /\ c[i].path # c[j].path
             /\ \A p \in ToSet(c), x \in ProductId :
                  x \in p.parents => \E q \in ToSet(c) : q.id = x
             /\ WellPlaced(c, packs) /\ Complete(c)
<1> DEFINE S == ToSet(c)
           known == {q.id : q \in S}
<1>1. S \in SUBSET Product
  BY DEF ToSet
<1>2. CatalogIssues(c) = {} <=>
        /\ UniqueIds(c)
        /\ \A i, j \in DOMAIN c : i # j => c[i].path # c[j].path
        /\ \A p \in S : ProductIssues(p, known) = {}
  BY DEF CatalogIssues, When, UniqueIds
<1>3. \A p \in S : p.parents \subseteq known <=>
        \A x \in ProductId : x \in p.parents => \E q \in S : q.id = x
  BY <1>1 DEF Product
<1>4. SUFFICES ASSUME UniqueIds(c)
               PROVE  (\A p \in S : ProductIssues(p, known) = {})
                      /\ MasterIssues(status, packs, S) = {} <=>
                      /\ \A p \in S : p.parents \subseteq known
                      /\ WellPlaced(c, packs) /\ Complete(c)
  BY <1>2, <1>3, KeptIsAll DEF UniqueIds
<1>5. \A p, q \in S : p.id = q.id => p = q
  BY <1>4, KeptIsAll
<1>6. MasterIssues(status, packs, S) = {} <=>
        /\ \A k \in Pack : packs[k].products = {p.id : p \in {q \in S : q.pack = k}}
        /\ Complete(c)
  <2> DEFINE parents == \A g \in ParentGroups : GroupIssues(g, S) = {}
  <2>1. MasterIssues(status, packs, S) = {} <=>
          /\ \A k \in Pack : packs[k].products = {p.id : p \in {q \in S : q.pack = k}}
          /\ \A r \in RequiredRoles : \E p \in S : p.role = r /\ p.lifecycle \in Active
          /\ parents
    BY <1>1, <1>5, MasterRules
  <2>2. (\A r \in RequiredRoles : \E p \in S : p.role = r /\ p.lifecycle \in Active)
          /\ parents <=> Complete(c)
    BY <1>1, GroupRules DEF Complete
  <2>3. QED
    BY <2>1, <2>2
<1>7. \A p \in S : ProductIssues(p, known) = {} <=>
        /\ p.parents \subseteq known
        /\ CASE p.lifecycle \in Active ->
                  p.pack = HomePack(p.role) /\ p.status \in AllowedStatus(p.pack)
             [] p.lifecycle \in {"SUPERSEDED", "WITHDRAWN"} -> p.pack # "CLEAN_READER"
             [] p.lifecycle = "NOT_APPLICABLE" -> p.pack = "EXCLUDED"
             [] OTHER -> TRUE
  BY <1>1, ProductRules
<1>8. QED
  BY <1>6, <1>7 DEF WellPlaced

LEMMA DeliveryRulesAreExact ==
    ASSUME NEW d \in Delivery
    PROVE  DeliveryIssues(d) = {} <=> WholeDelivery(d)
<1> DEFINE c == d.catalog
           placed == {q \in ToSet(c) : q.pack # "EXCLUDED"
                                       /\ q.lifecycle # "NOT_APPLICABLE"}
<1>1. /\ d.fits \in [DeliveryDocument -> {"yes", "no", "breaks"}]
      /\ c \in Seq(Product) /\ d.packs \in [Pack -> PackEntry]
      /\ d.coverage \in Coverage /\ d.authority \in SUBSET FileFault
  BY DEF Delivery
<1>2. ToSet(c) \in SUBSET Product
  BY <1>1 DEF ToSet
<1>3. DeliveryIssues(d) = {} <=>
        /\ \A x \in DeliveryDocument : d.fits[x] = "yes"
        /\ CatalogIssues(c) = {} /\ MasterIssues(d.master, d.packs, Kept(c)) = {}
        /\ CoverageIssues(d.coverage) = {} /\ RecoveryIssues(d.recovery) = {}
        /\ \A p \in placed : FileIssues(p.file, {"size", "hash"}) = {}
        /\ \A k \in Pack : FileIssues(d.packs[k].file, {"hash", "not_zip", "bad_zip"}) = {}
        /\ FileIssues(d.authority, {}) = {}
  <2> DEFINE schema == When(\E x \in DeliveryDocument : d.fits[x] = "no", "schema")
             files == UNION {FileIssues(p.file, {"size", "hash"}) : p \in placed}
             packed == UNION {FileIssues(d.packs[k].file, {"hash", "not_zip", "bad_zip"}) :
                                k \in Pack}
             rest == schema \cup CatalogIssues(c)
                     \cup MasterIssues(d.master, d.packs, Kept(c))
                     \cup CoverageIssues(d.coverage) \cup RecoveryIssues(d.recovery)
                     \cup files \cup packed \cup FileIssues(d.authority, {})
  <2>1. DeliveryIssues(d) = IF \E x \in DeliveryDocument : d.fits[x] = "breaks"
                            THEN {"KeyError"} ELSE rest
    BY Zenon DEF DeliveryIssues
  <2>2. schema = {} <=> \A x \in DeliveryDocument : d.fits[x] # "no"
    BY DEF When
  <2>3. files = {} <=> \A p \in placed : FileIssues(p.file, {"size", "hash"}) = {}
    OBVIOUS
  <2>4. packed = {} <=>
          \A k \in Pack : FileIssues(d.packs[k].file, {"hash", "not_zip", "bad_zip"}) = {}
    OBVIOUS
  <2>5. rest = {} <=>
          /\ schema = {} /\ CatalogIssues(c) = {}
          /\ MasterIssues(d.master, d.packs, Kept(c)) = {}
          /\ CoverageIssues(d.coverage) = {} /\ RecoveryIssues(d.recovery) = {}
          /\ files = {} /\ packed = {} /\ FileIssues(d.authority, {}) = {}
    <3> HIDE DEF schema, files, packed, placed, c
    <3> QED  OBVIOUS
  <2>6. \A x \in DeliveryDocument : d.fits[x] \in {"yes", "no", "breaks"}
    BY <1>1
  <2>7. QED
    <3> HIDE DEF schema, files, packed, rest, placed
    <3> QED  BY <2>1, <2>2, <2>3, <2>4, <2>5, <2>6
<1>4. \A k \in Pack :
        FileIssues(d.packs[k].file, {"hash", "not_zip", "bad_zip"}) = {}
          <=> d.packs[k].file \ {"size"} = {}
  <2> TAKE k \in Pack
  <2>1. d.packs[k].file \in SUBSET FileFault
    BY <1>1 DEF PackEntry
  <2>2. QED
    BY <2>1, FileRules DEF FileFault
<1>5. ASSUME WellPlaced(c, d.packs)
      PROVE  (\A p \in placed : FileIssues(p.file, {"size", "hash"}) = {}) <=>
               \A p \in ToSet(c) :
                 p.pack \in Pack => p.file \cap {"unsafe", "missing", "size", "hash"} = {}
  <2>1. placed = {p \in ToSet(c) : p.pack \in Pack}
    BY <1>2, <1>5 DEF WellPlaced, Product, Pack, Active
  <2>2. QED
    BY <2>1, FileRules
<1>6. FileIssues(d.authority, {}) = {} <=> d.authority \cap {"unsafe", "missing"} = {}
  BY FileRules
<1> DEFINE schemas == \A x \in DeliveryDocument : d.fits[x] = "yes"
           catalog == /\ \A i, j \in DOMAIN c :
                           i # j => c[i].id # c[j].id /\ c[i].path # c[j].path
                      /\ \A p \in ToSet(c), x \in ProductId :
                           x \in p.parents => \E q \in ToSet(c) : q.id = x
                      /\ WellPlaced(c, d.packs) /\ Complete(c)
           products == \A p \in ToSet(c) :
                         p.pack \in Pack =>
                           p.file \cap {"unsafe", "missing", "size", "hash"} = {}
           subpacks == \A k \in Pack : d.packs[k].file \ {"size"} = {}
<1>7. CatalogIssues(c) = {} /\ MasterIssues(d.master, d.packs, Kept(c)) = {} <=> catalog
  BY <1>1, CatalogRules
<1>8. CoverageIssues(d.coverage) = {} <=> Reviewed(d.coverage)
  BY <1>1, CoverageRules
<1>9. WholeDelivery(d) <=>
        /\ schemas /\ catalog /\ Reviewed(d.coverage) /\ RecoveryIssues(d.recovery) = {}
        /\ products /\ subpacks /\ d.authority \cap {"unsafe", "missing"} = {}
  BY Zenon DEF WholeDelivery
<1>10. DeliveryIssues(d) = {} <=>
        /\ schemas /\ catalog /\ Reviewed(d.coverage) /\ RecoveryIssues(d.recovery) = {}
        /\ \A p \in placed : FileIssues(p.file, {"size", "hash"}) = {}
        /\ subpacks /\ d.authority \cap {"unsafe", "missing"} = {}
  <2> HIDE DEF placed, catalog, c
  <2> QED  BY <1>3, <1>4, <1>6, <1>7, <1>8
<1>11. catalog => WellPlaced(c, d.packs)
  OBVIOUS
<1>12. QED
  <2> HIDE DEF placed, catalog, schemas, subpacks
  <2> QED  BY <1>5, <1>9, <1>10, <1>11

(* Whatever delivery is written, the bundle validator reports nothing      *)
(* exactly when it is whole.                                               *)
THEOREM DeliveryRulesHold == Spec => []DeliveryIsExact
<1>1. Inv => DeliveryIsExact
  BY DeliveryRulesAreExact DEF Inv, DeliveryIsExact, Judged, Document, Ruling
<1>2. QED
  BY <1>1, InvHolds, PTL
-----------------------------------------------------------------------------
(***************************************************************************)
(* _load_private_project is exact, whatever is on disk: that it skips      *)
(* duplicate classes, paths behind links and roots that are not there      *)
(* before it looks at the rest hides nothing.                              *)
(***************************************************************************)

(* Paths have one or two parts, and few prefixes.                          *)
LEMMA PathParts ==
    \A q \in DiskPath : /\ q \in Seq(File) /\ Len(q) \in 1 .. 2
                        /\ q[1] \in File /\ <<q[1]>> \in DiskPath
                        /\ Len(q) = 1 => q = <<q[1]>>
<1>1. ASSUME NEW f \in File
      PROVE  /\ <<f>> \in Seq(File) /\ Len(<<f>>) = 1 /\ <<f>>[1] = f
  BY <1>1
<1>2. ASSUME NEW f \in File, NEW g \in File
      PROVE  /\ <<f, g>> \in Seq(File) /\ Len(<<f, g>>) = 2 /\ <<f, g>>[1] = f
  BY <1>2
<1> TAKE q \in DiskPath
<1>3. CASE \E f \in File : q = <<f>>
  BY <1>1, <1>3 DEF DiskPath
<1>4. CASE \E f \in File, g \in File : q = <<f, g>>
  <2>1. PICK f \in File, g \in File : q = <<f, g>>
    BY <1>4
  <2>2. Len(q) # 1 /\ <<f>> \in DiskPath
    BY <1>2, <2>1 DEF DiskPath
  <2>3. QED
    BY <1>2, <2>1, <2>2
<1>5. QED
  BY <1>3, <1>4 DEF DiskPath

LEMMA PathPrefix ==
    ASSUME NEW a \in DiskPath, NEW b \in DiskPath
    PROVE  IsPrefix(a, b) <=> a = b \/ a = <<b[1]>>
<1>1. a \in Seq(File) /\ b \in Seq(File) /\ Len(a) \in 1 .. 2 /\ Len(b) \in 1 .. 2
  BY PathParts
<1>2. SubSeq(a, 1, Len(a)) = a /\ SubSeq(b, 1, Len(b)) = b
  BY <1>1, SubSeqFull
<1>3. SubSeq(b, 1, 1) = <<b[1]>>
  <2>1. b[1] \in File
    BY PathParts
  <2>2. SubSeq(b, 1, 1) = SubSeq(b, 1, 0) \o <<b[1]>>
    BY <1>1, SubSeqRecursiveSecond
  <2>3. SubSeq(b, 1, 0) = << >>
    BY SubSeqEmpty
  <2>4. <<b[1]>> \in Seq(File)
    BY <2>1
  <2>5. << >> \o <<b[1]>> = <<b[1]>>
    BY <2>4, ConcatEmptySeq
  <2>6. QED
    BY <2>2, <2>3, <2>5
<1>4. Len(b) = 1 => b = <<b[1]>>
  BY PathParts
<1>5. CASE Len(a) = 1
  <2>1. ASSUME a = b
        PROVE  a = <<b[1]>>
    <3>1. Len(b) = 1
      BY <1>5, <2>1
    <3>2. b = <<b[1]>>
      BY <1>4, <3>1, Zenon
    <3>3. QED
      BY <2>1, <3>2, Zenon
  <2>2. QED
    BY <1>1, <1>2, <1>3, <1>5, <2>1 DEF IsPrefix
<1>6. CASE Len(a) = 2
  <2>1. a # <<b[1]>>
    BY <1>6
  <2>2. QED
    BY <1>1, <1>2, <1>6, <2>1 DEF IsPrefix
<1>7. QED
  BY <1>1, <1>5, <1>6

(* Roots overlap when they have a path in common.                          *)
LEMMA Apart ==
    ASSUME NEW a \in DiskPath, NEW b \in DiskPath
    PROVE  Overlap(a, b) <=> \E q \in DiskPath : IsPrefix(a, q) /\ IsPrefix(b, q)
<1>1. ASSUME Overlap(a, b)
      PROVE  \E q \in DiskPath : IsPrefix(a, q) /\ IsPrefix(b, q)
  BY <1>1, PathPrefix DEF Overlap
<1>2. ASSUME NEW q \in DiskPath, IsPrefix(a, q), IsPrefix(b, q)
      PROVE  Overlap(a, b)
  <2>1. (a = q \/ a = <<q[1]>>) /\ (b = q \/ b = <<q[1]>>)
    BY <1>2, PathPrefix
  <2>2. QED
    BY <2>1, PathPrefix DEF Overlap
<1>3. QED
  BY <1>1, <1>2
-----------------------------------------------------------------------------
(* What is not a directory holds nothing.                                  *)
LEMMA InsideDirectory ==
    ASSUME NEW d \in Disk, NEW a \in DiskPath, NEW q \in DiskPath,
           IsPrefix(a, q), q # a, d[q] # "absent"
    PROVE  d[a] = "directory"
<1>1. a = <<q[1]>>
  BY PathPrefix
<1>2. Len(q) = 2
  BY <1>1, PathParts
<1>3. QED
  BY <1>1, <1>2 DEF Disk

(***************************************************************************)
(* A project that loads makes a release its runtime accepts, or one with   *)
(* too few files: the loader asks for the classes Reader and Control to be *)
(* declared, but looks for files only in what is declared required.        *)
(***************************************************************************)
LEMMA RootsTyped ==
    ASSUME NEW p \in Project
    PROVE  /\ p.roots \in Seq(ProductRoot) /\ p.disk \in Disk
           /\ DOMAIN p.roots \subseteq Nat
           /\ \A i \in DOMAIN p.roots :
                /\ p.roots[i] \in ProductRoot
                /\ p.roots[i].path \in DiskPath /\ p.roots[i].required \in BOOLEAN
<1>1. p.roots \in Seq(ProductRoot) /\ p.disk \in Disk
  BY DEF Project, ProductRoots
<1>2. /\ DOMAIN p.roots \subseteq Nat
      /\ \A i \in DOMAIN p.roots : p.roots[i] \in ProductRoot
  BY <1>1
<1>3. \A r \in ProductRoot : r.path \in DiskPath /\ r.required \in BOOLEAN
  BY DEF ProductRoot
<1>4. QED  BY <1>1, <1>2, <1>3

LEMMA FilesBelow ==
    ASSUME NEW d \in Disk, NEW a \in DiskPath
    PROVE  /\ FilesIn(d, a) = {} <=>
                \A q \in DiskPath : IsStrictPrefix(a, q) => d[q] # "file"
           /\ d[a] # "directory" => FilesIn(d, a) = {}
<1>1. ASSUME NEW q \in DiskPath
      PROVE  q \in FilesIn(d, a) <=> IsStrictPrefix(a, q) /\ d[q] = "file"
  BY DEF FilesIn, Below
<1>2. FilesIn(d, a) \subseteq DiskPath
  BY DEF FilesIn, Below
<1>3. ASSUME NEW q \in DiskPath, IsStrictPrefix(a, q), d[q] = "file"
      PROVE  d[a] = "directory"
  BY <1>3, InsideDirectory DEF IsStrictPrefix
<1>4. QED
  BY <1>1, <1>2, <1>3

(* Of each mandatory class there is one root, and it has no files when it  *)
(* is not there.                                                           *)
LEMMA MandatoryRoot ==
    ASSUME NEW p \in Project, RootIssues(p) = {}, NEW m \in Mandatory
    PROVE  \E i \in DOMAIN p.roots :
              /\ \A j \in DOMAIN p.roots : p.roots[j].class = m <=> j = i
              /\ p.roots[i].path \in DiskPath
              /\ i \notin Loaded(p) => FilesIn(p.disk, p.roots[i].path) = {}
<1>1. /\ p.roots \in Seq(ProductRoot) /\ p.disk \in Disk
      /\ \A i \in DOMAIN p.roots : p.roots[i] \in ProductRoot
      /\ DOMAIN p.roots \subseteq Nat
  BY DEF Project, ProductRoots
<1>2. /\ FirstRoots(p) = DOMAIN p.roots /\ PlainRoots(p) = FirstRoots(p)
      /\ Mandatory \subseteq ClassesOf(p, FirstRoots(p))
  BY DEF RootIssues, When
<1>3. PICK i \in DOMAIN p.roots : p.roots[i].class = m
  BY <1>2 DEF ClassesOf
<1>4. ASSUME NEW j \in DOMAIN p.roots, NEW k \in DOMAIN p.roots,
             p.roots[j].class = p.roots[k].class
      PROVE  ~(j < k)
  <2>1. k \in FirstRoots(p)
    BY <1>2
  <2>2. \A x \in 1 .. k - 1 : p.roots[x].class # p.roots[k].class
    BY <2>1 DEF FirstRoots
  <2>3. DOMAIN p.roots = 1 .. Len(p.roots) /\ Len(p.roots) \in Nat
    BY <1>1
  <2>4. QED
    BY <1>4, <2>2, <2>3
<1>5. \A j \in DOMAIN p.roots : p.roots[j].class = m <=> j = i
  <2>1. ASSUME NEW j \in DOMAIN p.roots, p.roots[j].class = m PROVE j = i
    <3>1. ~(j < i) /\ ~(i < j)
      BY <1>3, <1>4, <2>1
    <3>2. QED  BY <1>1, <3>1
  <2>2. QED  BY <1>3, <2>1
<1>6. p.roots[i].path \in DiskPath
  BY <1>1 DEF ProductRoot
<1>7. ASSUME i \notin Loaded(p) PROVE FilesIn(p.disk, p.roots[i].path) = {}
  <2>1. p.disk[p.roots[i].path] # "directory"
    BY <1>2, <1>7 DEF Loaded
  <2>2. QED  BY <1>1, <1>6, <2>1, FilesBelow
<1>8. QED  BY <1>5, <1>6, <1>7

LEMMA LoadedIsValid ==
    ASSUME NEW p \in Project, LoadIssues(p) = {}
    PROVE  ReleaseIssues(p.project, Candidate(p))
              = When(EmptyMandatory(p), "PRIVATE_RUNTIME_PRODUCT_MISSING")
<1> DEFINE r == Candidate(p)
           trees(m) == {FilesIn(p.disk, p.roots[i].path) :
                          i \in {j \in Loaded(p) : p.roots[j].class = m}}
           bare(i) == FilesIn(p.disk, p.roots[i].path) = {}
           missing(m) == m \notin DOMAIN r.products \/ r.products[m] = {}
<1>1. ControlIssues(p) = {} /\ RootIssues(p) = {}
  BY DEF LoadIssues, StatusIssues, Project, FileStatus
<1>2. \A k \in Control : p.control[k] = "usable"
  <2>1. \A k \in Control : p.control[k] \in FileStatus
    BY DEF Project
  <2>2. \A x \in FileStatus : StatusIssues(x, "PRIVATE_CONTROL_FILE_MISSING") = {} => x = "usable"
    BY DEF FileStatus, StatusIssues
  <2>3. QED
    BY <1>1, <2>1, <2>2 DEF ControlIssues
<1>3. ContractIssues(p.contract) = {} /\ IdentityIssues(p) = {}
  BY <1>1, <1>2 DEF ControlIssues
<1>4. \A k \in Control : p.contract[k].project = p.project
  BY <1>3 DEF IdentityIssues, When
<1>5. /\ r.contract = p.contract /\ r.receipt.project = p.project
      /\ r.receipt.control = p.contract
      /\ r.products = [c \in ClassesOf(p, Loaded(p)) |-> UNION trees(c)]
  BY DEF Candidate
<1>6. ASSUME NEW m \in Mandatory
      PROVE  missing(m) <=> \E i \in DOMAIN p.roots : p.roots[i].class = m /\ bare(i)
  <2>1. PICK i \in DOMAIN p.roots :
              /\ \A j \in DOMAIN p.roots : p.roots[j].class = m <=> j = i
              /\ i \notin Loaded(p) => bare(i)
    BY <1>1, MandatoryRoot
  <2>2. Loaded(p) \subseteq DOMAIN p.roots
    BY DEF Loaded, PlainRoots, FirstRoots
  <2>3. m \in ClassesOf(p, Loaded(p)) <=> i \in Loaded(p)
    BY <2>1, <2>2 DEF ClassesOf
  <2>4. i \in Loaded(p) => UNION trees(m) = FilesIn(p.disk, p.roots[i].path)
    <3>1. i \in Loaded(p) => {j \in Loaded(p) : p.roots[j].class = m} = {i}
      BY <2>1, <2>2
    <3>2. QED  BY <3>1
  <2>5. missing(m) <=> m \notin ClassesOf(p, Loaded(p)) \/ UNION trees(m) = {}
    <3> HIDE DEF trees, r
    <3> QED  BY <1>5
  <2>6. missing(m) <=> bare(i)
    <3> HIDE DEF trees, bare, missing
    <3>1. i \in Loaded(p) => (UNION trees(m) = {} <=> bare(i))
      BY <2>4 DEF bare
    <3>2. QED  BY <2>1, <2>3, <2>5, <3>1
  <2> HIDE DEF missing, bare
  <2>7. QED  BY <2>1, <2>6
<1>7. (\E m \in Mandatory : missing(m)) <=> EmptyMandatory(p)
  <2>1. ASSUME NEW i \in DOMAIN p.roots
        PROVE  bare(i) <=> \A q \in DiskPath :
                  IsStrictPrefix(p.roots[i].path, q) => p.disk[q] # "file"
    <3>1. p.roots[i].path \in DiskPath /\ p.disk \in Disk
      BY RootsTyped
    <3>2. QED  BY <3>1, FilesBelow
  <2> HIDE DEF missing, bare
  <2>2. EmptyMandatory(p) <=>
           \E i \in DOMAIN p.roots : p.roots[i].class \in Mandatory /\ bare(i)
    BY <2>1 DEF EmptyMandatory
  <2>3. QED  BY <1>6, <2>2
<1>8. QED
  <2>1. \A k \in Control : r.contract[k] = r.receipt.control[k]
    BY <1>5
  <2>2. ContractIssues(r.contract) = {} /\ r.receipt.project = p.project
        /\ \A k \in Control : r.contract[k].project = p.project
    BY <1>3, <1>4, <1>5
  <2>3. ReleaseIssues(p.project, r)
           = When(\E m \in Mandatory : missing(m), "PRIVATE_RUNTIME_PRODUCT_MISSING")
    <3> HIDE DEF r
    <3> QED  BY <2>1, <2>2 DEF ReleaseIssues, When
  <2>4. QED
    <3> HIDE DEF r, missing
    <3>1. ReleaseIssues(p.project, r)
             = When(EmptyMandatory(p), "PRIVATE_RUNTIME_PRODUCT_MISSING")
      BY <1>7, <2>3 DEF When
    <3>2. QED  BY <3>1 DEF r

(* validate_private_runtime finds nothing in a release that the loading    *)
(* let pass, except that a mandatory class has no files.                   *)
THEOREM ReleasesAreValid == Spec => []ReleaseIsValid
<1>1. Inv => ReleaseIsValid
  BY LoadedIsValid DEF Inv, ReleaseIsValid, Judged, Document, Ruling
<1>2. QED
  BY <1>1, InvHolds, PTL
-----------------------------------------------------------------------------
LEMMA LinkRules ==
    ASSUME NEW d \in Disk, NEW a \in DiskPath
    PROVE  ThroughLink(d, a) <=> d[a] = "link" \/ d[<<a[1]>>] = "link"
<1>1. <<a[1]>> \in DiskPath
  BY PathParts
<1>2. QED
  BY <1>1, PathPrefix DEF ThroughLink

In(path) == {q \in DiskPath : IsPrefix(path, q)}
Plain(d, path) ==
    /\ \A q \in In(path) : d[q] \notin {"link", "special"}
    /\ \A q, r \in In(path) : d[q] = "file" /\ d[r] = "file"
                             /\ Folded(q) = Folded(r) => q = r

(* What is not there holds nothing.                                        *)
LEMMA AbsentIsPlain ==
    ASSUME NEW d \in Disk, NEW a \in DiskPath, d[a] = "absent"
    PROVE  Plain(d, a)
<1>1. \A q \in In(a) : d[q] = "absent"
  BY InsideDirectory DEF In
<1>2. QED
  BY <1>1 DEF Plain

LEMMA TreeRules ==
    ASSUME NEW d \in Disk, NEW a \in DiskPath, d[a] = "directory"
    PROVE  /\ TreeIssues(d, a) = {} <=> Plain(d, a)
           /\ FilesIn(d, a) = {q \in In(a) : d[q] = "file" /\ q # a}
<1>1. FilesIn(d, a) = {q \in In(a) : d[q] = "file"}
  BY DEF FilesIn, Below, IsStrictPrefix, In
<1>2. \A x \in {"link", "special"} :
        (\E q \in Below(d, a) : d[q] = x) <=> \E q \in In(a) : d[q] = x
  BY DEF Below, IsStrictPrefix, In
<1>3. TreeIssues(d, a) = {} <=>
        /\ ~\E q \in Below(d, a) : d[q] = "link"
        /\ ~\E q \in Below(d, a) : d[q] = "special"
        /\ ~\E q, r \in FilesIn(d, a) : q # r /\ Folded(q) = Folded(r)
  BY DEF TreeIssues, When
<1>4. TreeIssues(d, a) = {} <=> Plain(d, a)
  BY <1>1, <1>2, <1>3 DEF Plain
<1>5. QED
  BY <1>1, <1>4

(* The rules for the product roots, root by root and pair by pair.         *)
LEMMA RootRules ==
    ASSUME NEW p \in Project
    PROVE  RootIssues(p) = {} <=>
             /\ \A i, j \in DOMAIN p.roots : i # j =>
                  /\ p.roots[i].class # p.roots[j].class
                  /\ ~Overlap(p.roots[i].path, p.roots[j].path)
             /\ Mandatory \subseteq ClassesOf(p, DOMAIN p.roots)
             /\ \A i \in DOMAIN p.roots :
                  LET path == p.roots[i].path
                  IN /\ p.disk[path] \in {"absent", "directory"}
                     /\ p.disk[<<path[1]>>] # "link" /\ Plain(p.disk, path)
                     /\ p.roots[i].required =>
                          \E q \in In(path) : p.disk[q] = "file" /\ q # path
<1> DEFINE path(i) == p.roots[i].path
           there(i) == p.disk[path(i)]
           required(i) == p.roots[i].required
           all == DOMAIN p.roots
           classes == \A i, j \in all : i # j => p.roots[i].class # p.roots[j].class
           links == \A i \in all : ~ThroughLink(p.disk, path(i))
<1>1. /\ p.roots \in Seq(ProductRoot) /\ p.disk \in Disk
      /\ all \subseteq Nat
      /\ \A i \in all : path(i) \in DiskPath /\ required(i) \in BOOLEAN
  BY RootsTyped
<1>2. FirstRoots(p) = all <=> classes
  <2>1. ASSUME FirstRoots(p) = all, NEW i \in all, NEW j \in all, i # j
        PROVE  p.roots[i].class # p.roots[j].class
    <3>1. CASE i < j
      BY <1>1, <2>1, <3>1 DEF FirstRoots
    <3>2. CASE j < i
      BY <1>1, <2>1, <3>2 DEF FirstRoots
    <3>3. QED
      BY <1>1, <2>1, <3>1, <3>2
  <2>2. ASSUME classes, NEW i \in all
        PROVE  i \in FirstRoots(p)
    BY <1>1, <2>2 DEF FirstRoots
  <2>3. QED
    BY <2>1, <2>2 DEF FirstRoots
<1>3. FirstRoots(p) = all => (PlainRoots(p) = FirstRoots(p) <=> links)
  BY DEF PlainRoots
<1>4. PlainRoots(p) = all => Loaded(p) = {i \in all : there(i) = "directory"}
  BY DEF Loaded
<1> DEFINE duplicate == When(FirstRoots(p) # all, "PRIVATE_PRODUCT_CLASS_DUPLICATE")
           linked == When(PlainRoots(p) # FirstRoots(p), "PRIVATE_PATH_SYMLINK")
           missing == When(\E i \in PlainRoots(p) : there(i) = "absent" /\ required(i),
                           "PRIVATE_PRODUCT_ROOT_MISSING")
           odd == When(\E i \in PlainRoots(p) : there(i) \notin {"absent", "directory"},
                       "PRIVATE_PRODUCT_ROOT_NOT_DIRECTORY")
           trees == UNION {TreeIssues(p.disk, path(i)) : i \in Loaded(p)}
           empty == When(\E i \in Loaded(p) :
                            required(i) /\ FilesIn(p.disk, path(i)) = {},
                         "PRIVATE_PRODUCT_ROOT_EMPTY")
           lacking == When(~(Mandatory \subseteq ClassesOf(p, FirstRoots(p))),
                           "PRIVATE_REQUIRED_PRODUCT_CLASS_MISSING")
           overlap == When(\E i, j \in PlainRoots(p) :
                              i # j /\ Overlap(path(i), path(j)),
                           "PRIVATE_PRODUCT_ROOT_OVERLAP")
<1>5. RootIssues(p) = {} <=>
        /\ duplicate = {} /\ linked = {} /\ missing = {} /\ odd = {}
        /\ trees = {} /\ empty = {} /\ lacking = {} /\ overlap = {}
  <2>1. RootIssues(p) = duplicate \cup linked \cup missing \cup odd \cup trees
                        \cup empty \cup lacking \cup overlap
    BY Zenon DEF RootIssues
  <2>2. QED
    <3> HIDE DEF duplicate, linked, missing, odd, trees, empty, lacking, overlap
    <3> QED  BY <2>1
<1> DEFINE found == /\ \A i \in all : ~(there(i) = "absent" /\ required(i))
                    /\ \A i \in all : there(i) \in {"absent", "directory"}
                    /\ \A i \in Loaded(p) : TreeIssues(p.disk, path(i)) = {}
                    /\ \A i \in Loaded(p) :
                         ~(required(i) /\ FilesIn(p.disk, path(i)) = {})
           apart == \A i, j \in all : i # j => ~Overlap(path(i), path(j))
           mandatory == Mandatory \subseteq ClassesOf(p, all)
<1>6. duplicate = {} /\ linked = {} <=> classes /\ links
  <2>1. duplicate = {} <=> FirstRoots(p) = all
    BY DEF When
  <2>2. linked = {} <=> PlainRoots(p) = FirstRoots(p)
    BY DEF When
  <2>3. QED
    <3> HIDE DEF duplicate, linked, classes, links, all
    <3> QED  BY <1>2, <1>3, <2>1, <2>2
<1>7. ASSUME classes, links
      PROVE  missing = {} /\ odd = {} /\ trees = {} /\ empty = {} /\ lacking = {}
               /\ overlap = {} <=> found /\ apart /\ mandatory
  <2>1. FirstRoots(p) = all /\ PlainRoots(p) = all
    BY <1>2, <1>3, <1>7
  <2>2. missing = {} <=> \A i \in all : ~(there(i) = "absent" /\ required(i))
    BY <2>1 DEF When
  <2>3. odd = {} <=> \A i \in all : there(i) \in {"absent", "directory"}
    BY <2>1 DEF When
  <2>4. trees = {} <=> \A i \in Loaded(p) : TreeIssues(p.disk, path(i)) = {}
    OBVIOUS
  <2>5. empty = {} <=> \A i \in Loaded(p) :
                         ~(required(i) /\ FilesIn(p.disk, path(i)) = {})
    BY DEF When
  <2>6. lacking = {} <=> mandatory
    BY <2>1 DEF When
  <2>7. overlap = {} <=> apart
    BY <2>1 DEF When
  <2>8. QED
    <3> HIDE DEF missing, odd, trees, empty, lacking, overlap, apart, mandatory
    <3> QED  BY <2>2, <2>3, <2>4, <2>5, <2>6, <2>7
<1> DEFINE whole(i) == /\ there(i) \in {"absent", "directory"}
                       /\ p.disk[<<path(i)[1]>>] # "link" /\ Plain(p.disk, path(i))
                       /\ required(i) =>
                            \E q \in In(path(i)) : p.disk[q] = "file" /\ q # path(i)
<1>8. ASSUME classes
      PROVE  links /\ found <=> \A i \in all : whole(i)
  <2> DEFINE fine(i) == /\ ~ThroughLink(p.disk, path(i))
                        /\ ~(there(i) = "absent" /\ required(i))
                        /\ there(i) \in {"absent", "directory"}
                        /\ there(i) = "directory" =>
                             /\ TreeIssues(p.disk, path(i)) = {}
                             /\ ~(required(i) /\ FilesIn(p.disk, path(i)) = {})
  <2>1. links /\ found <=> \A i \in all : fine(i)
    <3>1. links => Loaded(p) = {i \in all : there(i) = "directory"}
      BY <1>2, <1>3, <1>4, <1>8
    <3>2. QED
      BY <3>1
  <2>2. ASSUME NEW i \in all
        PROVE  fine(i) <=> whole(i)
    <3>1. ~ThroughLink(p.disk, path(i))
            <=> there(i) # "link" /\ p.disk[<<path(i)[1]>>] # "link"
      BY <1>1, <2>2, LinkRules
    <3>2. CASE there(i) = "absent"
      <4>1. Plain(p.disk, path(i))
        BY <1>1, <3>2, AbsentIsPlain
      <4>2. ~\E q \in In(path(i)) : p.disk[q] = "file" /\ q # path(i)
        BY <1>1, <3>2, InsideDirectory DEF In
      <4>3. QED
        BY <3>1, <3>2, <4>1, <4>2
    <3>3. CASE there(i) = "directory"
      <4>1. /\ TreeIssues(p.disk, path(i)) = {} <=> Plain(p.disk, path(i))
            /\ FilesIn(p.disk, path(i))
                 = {q \in In(path(i)) : p.disk[q] = "file" /\ q # path(i)}
        BY <1>1, <3>3, TreeRules
      <4>2. FilesIn(p.disk, path(i)) # {}
              <=> \E q \in In(path(i)) : p.disk[q] = "file" /\ q # path(i)
        BY <4>1
      <4>3. QED
        BY <3>1, <3>3, <4>1, <4>2
    <3>4. QED
      BY <3>1, <3>2, <3>3
  <2>3. QED
    <3> HIDE DEF fine, whole, links, found, all
    <3> QED  BY <2>1, <2>2
<1>9. RootIssues(p) = {} <=> classes /\ apart /\ mandatory /\ \A i \in all : whole(i)
  <2> HIDE DEF duplicate, linked, missing, odd, trees, empty, lacking, overlap,
               classes, links, found, apart, mandatory, whole, all
  <2> QED  BY <1>5, <1>6, <1>7, <1>8
<1>10. QED
  BY <1>9
-----------------------------------------------------------------------------
(* The control files, and with the roots the whole project.                *)
LEMMA ControlRules ==
    ASSUME NEW p \in Project
    PROVE  ControlIssues(p) = {} <=>
             /\ \A k \in Control : p.control[k] = "usable"
                                  /\ p.contract[k].project = p.project
             /\ Coherent(p.contract)
             /\ p.contract.state.status = "CURRENT"
             /\ p.contract.validation.status = "PASS"
<1> DEFINE usable == \A k \in Control : p.control[k] = "usable"
<1>1. p.contract \in Contract /\ \A k \in Control : p.control[k] \in FileStatus
  BY DEF Project
<1>2. CASE usable
  <2>1. ControlIssues(p) = {} <=>
          /\ ContractIssues(p.contract) = {} /\ IdentityIssues(p) = {}
          /\ p.contract.state.status = "CURRENT"
          /\ p.contract.validation.status = "PASS"
    BY <1>2 DEF ControlIssues, When
  <2>2. IdentityIssues(p) = {} <=> \A k \in Control : p.contract[k].project = p.project
    BY DEF IdentityIssues, When
  <2>3. QED
    BY <1>1, <1>2, <2>1, <2>2, ContractRulesAreExact
<1>3. CASE ~usable
  <2>1. PICK k \in Control : p.control[k] # "usable"
    BY <1>3
  <2>2. StatusIssues(p.control[k], "PRIVATE_CONTROL_FILE_MISSING") # {}
    BY <1>1, <2>1 DEF StatusIssues, FileStatus
  <2>3. ControlIssues(p) = UNION {StatusIssues(p.control[j], "PRIVATE_CONTROL_FILE_MISSING") : j \in Control}
    BY <1>3 DEF ControlIssues
  <2>4. QED
    BY <1>3, <2>2, <2>3
<1>4. QED
  BY <1>2, <1>3

LEMMA LoadRules ==
    ASSUME NEW p \in Project
    PROVE  LoadIssues(p) = {} <=>
             /\ p.root = "directory" /\ p.config = "usable"
             /\ p.version = "1.0.0" /\ p.fits
             /\ ControlIssues(p) = {} /\ RootIssues(p) = {}
<1>1. p.config \in FileStatus /\ p.version \in Version /\ p.fits \in BOOLEAN
  BY DEF Project
<1>2. StatusIssues(p.config, "FILE_NOT_FOUND") = {} <=> p.config = "usable"
  BY <1>1 DEF StatusIssues, FileStatus
<1>3. SchemaIssues(p) = {} <=> p.version = "1.0.0" /\ p.fits
  BY <1>1 DEF SchemaIssues, When, Version
<1>4. CASE p.root # "directory"
  BY <1>4 DEF LoadIssues
<1>5. CASE p.root = "directory" /\ p.config # "usable"
  BY <1>2, <1>5 DEF LoadIssues
<1>6. CASE p.root = "directory" /\ p.config = "usable"
  BY <1>3, <1>6 DEF LoadIssues
<1>7. QED
  BY <1>4, <1>5, <1>6

LEMMA ProjectRulesAreExact ==
    ASSUME NEW p \in Project
    PROVE  LoadIssues(p) = {} <=> AcceptableProject(p)
<1> DEFINE path(i) == p.roots[i].path
           all == DOMAIN p.roots
<1>1. \A i \in all : path(i) \in DiskPath
  BY RootsTyped
<1>2. \A i, j \in all : ~Overlap(path(i), path(j)) <=> In(path(i)) \cap In(path(j)) = {}
  BY <1>1, Apart DEF In
<1> DEFINE control == /\ p.root = "directory" /\ p.config = "usable"
                      /\ p.version = "1.0.0" /\ p.fits
                      /\ \A k \in Control : p.control[k] = "usable"
                                           /\ p.contract[k].project = p.project
                      /\ Coherent(p.contract)
                      /\ p.contract.state.status = "CURRENT"
                      /\ p.contract.validation.status = "PASS"
           mandatory == Mandatory \subseteq ClassesOf(p, all)
           differ == \A i, j \in all : i # j =>
                       /\ p.roots[i].class # p.roots[j].class
                       /\ In(path(i)) \cap In(path(j)) = {}
           filled == \A i \in all : p.roots[i].required =>
                       \E q \in In(path(i)) : p.disk[q] = "file" /\ q # path(i)
           plain == \A i \in all : /\ p.disk[path(i)] \in {"absent", "directory"}
                                  /\ p.disk[<<path(i)[1]>>] # "link"
                                  /\ Plain(p.disk, path(i))
<1>3. RootIssues(p) = {} <=> mandatory /\ differ /\ filled /\ plain
  <2> DEFINE apart == \A i, j \in all : i # j =>
                        /\ p.roots[i].class # p.roots[j].class
                        /\ ~Overlap(path(i), path(j))
             whole(i) == /\ p.disk[path(i)] \in {"absent", "directory"}
                         /\ p.disk[<<path(i)[1]>>] # "link" /\ Plain(p.disk, path(i))
                         /\ p.roots[i].required =>
                              \E q \in In(path(i)) : p.disk[q] = "file" /\ q # path(i)
  <2>1. RootIssues(p) = {} <=> apart /\ mandatory /\ \A i \in all : whole(i)
    BY RootRules, Zenon
  <2>2. apart <=> differ
    BY <1>2
  <2>3. (\A i \in all : whole(i)) <=> filled /\ plain
    OBVIOUS
  <2>4. QED
    <3> HIDE DEF apart, whole, mandatory, differ, filled, plain, all
    <3> QED  BY <2>1, <2>2, <2>3
<1>4. LoadIssues(p) = {} <=> control /\ RootIssues(p) = {}
  BY LoadRules, ControlRules
<1>5. AcceptableProject(p) <=> control /\ mandatory /\ differ /\ filled /\ plain
  <2>1. plain <=> \A x \in {p.roots[i].path : i \in DOMAIN p.roots} :
                    /\ p.disk[x] \in {"absent", "directory"}
                    /\ p.disk[<<x[1]>>] # "link" /\ Plain(p.disk, x)
    OBVIOUS
  <2>2. QED
    BY <2>1 DEF AcceptableProject, In, Plain
<1>6. QED
  <2> HIDE DEF control, mandatory, differ, filled, plain
  <2> QED  BY <1>3, <1>4, <1>5

(* Whatever project directory there is, _load_private_project accepts it   *)
(* exactly when it is what the adapter's contract lists.                   *)
THEOREM LoadingIsExact == Spec => []LoadsExactly
<1>1. Inv => LoadsExactly
  BY ProjectRulesAreExact DEF Inv, LoadsExactly, Judged, Document, Ruling
<1>2. QED
  BY <1>1, InvHolds, PTL
-----------------------------------------------------------------------------
(***************************************************************************)
(* Induction over the numbers, for what a recursion over them defines.  A  *)
(* property is the set of numbers that have it: a least number outside of  *)
(* the set, which well-foundedness provides, would contradict the step.    *)
(***************************************************************************)

(* The order of the numbers, as a relation.                                *)
LEMMA LessThan ==
    \E R : IsWellFoundedOn(R, Nat) /\ \A m, n \in Nat : <<m, n>> \in R <=> m < n
BY NatLessThanWellFounded DEF OpToRel

(* Induction, for a property given as the set of numbers that have it.     *)
LEMMA Induction ==
    ASSUME NEW S, 0 \in S, \A n \in Nat : n \in S => n + 1 \in S
    PROVE  \A n \in Nat : n \in S
<1> DEFINE T == {n \in Nat : n \notin S}
<1>1. PICK R : IsWellFoundedOn(R, Nat) /\ \A m, n \in Nat : <<m, n>> \in R <=> m < n
  BY LessThan
<1>2. SUFFICES ASSUME T # {} PROVE FALSE
  OBVIOUS
<1>3. \E n \in T : \A m \in T : ~(<<m, n>> \in R)
  <2>1. IsWellFoundedOn(R, Nat)
    BY <1>1
  <2>2. T \subseteq Nat
    OBVIOUS
  <2> HIDE DEF T
  <2>3. QED BY <1>2, <2>1, <2>2, WFMin, Zenon
<1>4. PICK n \in T : \A m \in T : ~(<<m, n>> \in R)
  BY <1>3
<1>5. n \in Nat /\ n # 0 /\ n - 1 \in Nat /\ n - 1 \in T
  BY <1>4
<1>6. ~(n - 1 < n)
  BY <1>1, <1>4, <1>5, Zenon
<1>7. QED BY <1>5, <1>6
-----------------------------------------------------------------------------
(***************************************************************************)
(* The manifest rules. Sorting needs that the two orders of paths are      *)
(* strict: the order part by part, and the order of the strings, for which *)
(* different paths must have different strings, as no part has a slash in  *)
(* it.                                                                     *)
(***************************************************************************)

(* A strict order in which any two elements of A compare.                  *)
StrictOrder(R, A) ==
    /\ \A x \in A : <<x, x>> \notin R
    /\ \A x, y, z \in A : <<x, y>> \in R /\ <<y, z>> \in R => <<x, z>> \in R
    /\ \A x, y \in A : x = y \/ <<x, y>> \in R \/ <<y, x>> \in R

Lex(R, s, t) ==
    \E n \in 1 .. Len(t) :
        /\ \A i \in 1 .. n - 1 : i <= Len(s) /\ s[i] = t[i]
        /\ n = Len(s) + 1 \/ (n <= Len(s) /\ <<s[n], t[n]>> \in R)
LexOrder(R, A) == {x \in Seq(A) \X Seq(A) : Lex(R, x[1], x[2])}

(* Every nonempty set of numbers has a least one.                          *)
LEMMA Least ==
    ASSUME NEW S \in SUBSET Nat, S # {}
    PROVE  \E n \in S : \A m \in S : n <= m
<1>1. PICK R : IsWellFoundedOn(R, Nat) /\ \A m, n \in Nat : <<m, n>> \in R <=> m < n
  BY LessThan
<1>2. PICK n \in S : \A m \in S : ~(<<m, n>> \in R)
  <2>1. IsWellFoundedOn(R, Nat) /\ S \subseteq Nat
    BY <1>1
  <2>2. QED BY <2>1, WFMin, Zenon
<1>3. \A m \in S : ~(m < n)
  BY <1>1, <1>2
<1>4. QED BY <1>3

(* The lexicographic order of a strict order is strict.                    *)
LEMMA LexIsStrict ==
    ASSUME NEW A, NEW R, StrictOrder(R, A)
    PROVE  StrictOrder(LexOrder(R, A), Seq(A))
<1>0. \A s, t \in Seq(A) : <<s, t>> \in LexOrder(R, A) <=> Lex(R, s, t)
  BY DEF LexOrder
<1>1. ASSUME NEW s \in Seq(A), Lex(R, s, s) PROVE FALSE
  <2>1. PICK n \in 1 .. Len(s) :
          n = Len(s) + 1 \/ (n <= Len(s) /\ <<s[n], s[n]>> \in R)
    BY <1>1 DEF Lex
  <2>2. s[n] \in A /\ n # Len(s) + 1
    OBVIOUS
  <2>3. QED BY <2>1, <2>2 DEF StrictOrder
<1>2. ASSUME NEW s \in Seq(A), NEW t \in Seq(A), NEW u \in Seq(A), Lex(R, s, t), Lex(R, t, u)
      PROVE  Lex(R, s, u)
  <2>1. PICK n \in 1 .. Len(t) :
          /\ \A i \in 1 .. n - 1 : i <= Len(s) /\ s[i] = t[i]
          /\ n = Len(s) + 1 \/ (n <= Len(s) /\ <<s[n], t[n]>> \in R)
    BY <1>2 DEF Lex
  <2>2. PICK m \in 1 .. Len(u) :
          /\ \A i \in 1 .. m - 1 : i <= Len(t) /\ t[i] = u[i]
          /\ m = Len(t) + 1 \/ (m <= Len(t) /\ <<t[m], u[m]>> \in R)
    BY <1>2 DEF Lex
  <2>3. n \in Nat /\ m \in Nat /\ Len(s) \in Nat /\ Len(t) \in Nat /\ Len(u) \in Nat
    OBVIOUS
  <2>4. ASSUME n < m PROVE Lex(R, s, u)
    <3>1. n \in 1 .. Len(u) /\ n \in 1 .. m - 1 /\ t[n] = u[n]
      BY <2>2, <2>3, <2>4
    <3>2. \A i \in 1 .. n - 1 : i <= Len(s) /\ s[i] = u[i]
      BY <2>1, <2>2, <2>3, <2>4
    <3>3. QED BY <2>1, <3>1, <3>2 DEF Lex
  <2>5. ASSUME m < n PROVE Lex(R, s, u)
    <3>1. m \in 1 .. n - 1 /\ s[m] = t[m] /\ m <= Len(s) /\ <<t[m], u[m]>> \in R
      BY <2>1, <2>2, <2>3, <2>5
    <3>2. \A i \in 1 .. m - 1 : i <= Len(s) /\ s[i] = u[i]
      BY <2>1, <2>2, <2>3, <2>5
    <3>3. QED BY <3>1, <3>2 DEF Lex
  <2>6. ASSUME m = n PROVE Lex(R, s, u)
    <3>1. <<t[n], u[n]>> \in R /\ n \in 1 .. Len(u)
      BY <2>1, <2>2, <2>3, <2>6
    <3>2. \A i \in 1 .. n - 1 : i <= Len(s) /\ s[i] = u[i]
      BY <2>1, <2>2, <2>6
    <3>3. n <= Len(s) => <<s[n], u[n]>> \in R
      <4>1. SUFFICES ASSUME n <= Len(s) PROVE <<s[n], u[n]>> \in R
        OBVIOUS
      <4>2. s[n] \in A /\ t[n] \in A /\ u[n] \in A
        BY <2>3, <3>1, <4>1
      <4>3. <<s[n], t[n]>> \in R
        BY <2>1, <2>3, <4>1
      <4>4. QED BY <3>1, <4>2, <4>3 DEF StrictOrder
    <3>4. QED BY <2>1, <3>1, <3>2, <3>3 DEF Lex
  <2>7. QED BY <2>3, <2>4, <2>5, <2>6
<1>3. ASSUME NEW s \in Seq(A), NEW t \in Seq(A), s # t
      PROVE  Lex(R, s, t) \/ Lex(R, t, s)
  <2> DEFINE D == {n \in Nat : n >= 1 /\ (n > Len(s) \/ n > Len(t) \/ s[n] # t[n])}
  <2>1. Len(s) \in Nat /\ Len(t) \in Nat
    OBVIOUS
  <2>2. Len(s) + 1 \in D
    BY <2>1
  <2>3. PICK n \in D : \A m \in D : n <= m
    <3>1. D \in SUBSET Nat /\ D # {}
      BY <2>2
    <3> HIDE DEF D
    <3>2. QED BY <3>1, Least
  <2>4. \A i \in 1 .. n - 1 : i <= Len(s) /\ i <= Len(t) /\ s[i] = t[i]
    <3>1. ASSUME NEW i \in 1 .. n - 1 PROVE i <= Len(s) /\ i <= Len(t) /\ s[i] = t[i]
      <4>1. i \in Nat /\ i >= 1 /\ i < n
        BY <2>3
      <4>2. i \notin D
        BY <2>3, <4>1
      <4>3. QED BY <2>1, <4>1, <4>2
    <3>2. QED BY <3>1
  <2>5. n \in Nat /\ n >= 1 /\ (n > Len(s) \/ n > Len(t) \/ s[n] # t[n])
    BY <2>3
  <2> HIDE DEF D
  <2>6. n <= Len(s) + 1 /\ n <= Len(t) + 1
    <3>1. ASSUME n > Len(s) + 1 PROVE FALSE
      <4>1. Len(s) + 1 \in 1 .. n - 1
        BY <2>1, <2>5, <3>1
      <4>2. QED BY <2>1, <2>4, <4>1
    <3>2. ASSUME n > Len(t) + 1 PROVE FALSE
      <4>1. Len(t) + 1 \in 1 .. n - 1
        BY <2>1, <2>5, <3>2
      <4>2. QED BY <2>1, <2>4, <4>1
    <3>3. QED BY <2>1, <2>5, <3>1, <3>2
  <2>7. ASSUME n = Len(s) + 1, n = Len(t) + 1 PROVE FALSE
    <3>1. \A i \in 1 .. Len(s) : s[i] = t[i]
      BY <2>1, <2>4, <2>7
    <3>2. Len(s) = Len(t)
      BY <2>1, <2>7
    <3>3. s = t
      BY <3>1, <3>2
    <3>4. QED BY <1>3, <3>3
  <2>8. ASSUME n = Len(s) + 1, n <= Len(t) PROVE Lex(R, s, t)
    <3>1. n \in 1 .. Len(t)
      BY <2>1, <2>5, <2>8
    <3>2. QED BY <2>4, <2>8, <3>1 DEF Lex
  <2>9. ASSUME n = Len(t) + 1, n <= Len(s) PROVE Lex(R, t, s)
    <3>1. n \in 1 .. Len(s)
      BY <2>1, <2>5, <2>9
    <3>2. QED BY <2>4, <2>9, <3>1 DEF Lex
  <2>10. ASSUME n <= Len(s), n <= Len(t) PROVE Lex(R, s, t) \/ Lex(R, t, s)
    <3>1. s[n] \in A /\ t[n] \in A /\ s[n] # t[n] /\ n \in 1 .. Len(s) /\ n \in 1 .. Len(t)
      BY <2>1, <2>5, <2>10
    <3>2. <<s[n], t[n]>> \in R \/ <<t[n], s[n]>> \in R
      BY <3>1 DEF StrictOrder
    <3>3. QED BY <2>4, <2>10, <3>1, <3>2 DEF Lex
  <2>11. QED BY <2>1, <2>5, <2>6, <2>7, <2>8, <2>9, <2>10
<1>4. QED
  <2>1. \A s \in Seq(A) : <<s, s>> \notin LexOrder(R, A)
    BY <1>0, <1>1
  <2>2. \A s, t, u \in Seq(A) : <<s, t>> \in LexOrder(R, A) /\ <<t, u>> \in LexOrder(R, A)
                                  => <<s, u>> \in LexOrder(R, A)
    BY <1>0, <1>2
  <2>3. \A s, t \in Seq(A) : s = t \/ <<s, t>> \in LexOrder(R, A) \/ <<t, s>> \in LexOrder(R, A)
    BY <1>0, <1>3
  <2>4. QED BY <2>1, <2>2, <2>3 DEF StrictOrder

(* What is strictly ordered can be listed in order.                        *)
Sorts(s, S, R) ==
    /\ s \in [1 .. Cardinality(S) -> S]
    /\ \A i, j \in 1 .. Cardinality(S) : i < j => <<s[i], s[j]>> \in R

LEMMA SortExists ==
    ASSUME NEW S, IsFiniteSet(S), NEW R, StrictOrder(R, S)
    PROVE  \E s : Sorts(s, S, R)
<1> DEFINE N == Cardinality(S)
           before(x) == {y \in S : <<y, x>> \in R}
           rank == [x \in S |-> Cardinality(before(x)) + 1]
<1>1. N \in Nat /\ IsFiniteSet(1 .. N) /\ Cardinality(1 .. N) = N
  <2>1. N \in Nat
    BY FS_CardinalityType
  <2> HIDE DEF N
  <2>2. QED BY <2>1, FS_Interval
<1>2. ASSUME NEW x \in S
      PROVE  rank[x] \in 1 .. N /\ IsFiniteSet(before(x))
  <2>1. before(x) \in SUBSET (S \ {x})
    BY DEF StrictOrder
  <2>2. IsFiniteSet(S \ {x}) /\ Cardinality(S \ {x}) = N - 1
    BY FS_RemoveElement
  <2>3. IsFiniteSet(before(x)) /\ Cardinality(before(x)) <= N - 1
    <3> HIDE DEF before, N
    <3>1. QED BY <2>1, <2>2, FS_Subset
  <2>4. Cardinality(before(x)) \in Nat
    <3> HIDE DEF before
    <3>1. QED BY <2>3, FS_CardinalityType
  <2> HIDE DEF before, N
  <2>5. QED BY <1>1, <2>3, <2>4
<1>3. ASSUME NEW x \in S, NEW y \in S, <<x, y>> \in R
      PROVE  rank[x] < rank[y]
  <2>1. before(x) \in SUBSET before(y) /\ x \in before(y) /\ x \notin before(x)
    BY <1>3 DEF StrictOrder
  <2>2. IsFiniteSet(before(x)) /\ IsFiniteSet(before(y))
    BY <1>2
  <2>3. Cardinality(before(x)) <= Cardinality(before(y))
        /\ Cardinality(before(x)) # Cardinality(before(y))
    <3> HIDE DEF before
    <3>1. before(x) # before(y)
      BY <2>1
    <3>2. QED BY <2>1, <2>2, <3>1, FS_Subset
  <2>4. Cardinality(before(x)) \in Nat /\ Cardinality(before(y)) \in Nat
    <3> HIDE DEF before
    <3>1. QED BY <2>2, FS_CardinalityType
  <2> HIDE DEF before
  <2>5. QED BY <2>3, <2>4
<1> HIDE DEF rank, before
<1>4. rank \in [S -> 1 .. N]
  BY <1>2 DEF rank
<1>5. \A x, y \in S : rank[x] = rank[y] => x = y
  <2>1. \A x \in S : rank[x] \in Nat
    BY <1>1, <1>4
  <2>2. ASSUME NEW x \in S, NEW y \in S, x # y PROVE rank[x] # rank[y]
    <3>1. <<x, y>> \in R \/ <<y, x>> \in R
      BY <2>2 DEF StrictOrder
    <3>2. rank[x] < rank[y] \/ rank[y] < rank[x]
      BY <1>3, <3>1
    <3>3. QED BY <2>1, <3>2
  <2>3. QED BY <2>2
<1>6. \A i \in 1 .. N : \E x \in S : rank[x] = i
  <2>1. rank \in Injection(S, 1 .. N)
    BY <1>4, <1>5 DEF Injection, IsInjective
  <2> HIDE DEF N
  <2>2. rank \in Surjection(S, 1 .. N)
    BY <1>1, <2>1, FS_Injection DEF N
  <2>3. QED BY <2>2 DEF Surjection
<1> DEFINE s == [i \in 1 .. N |-> CHOOSE x \in S : rank[x] = i]
<1>7. \A i \in 1 .. N : s[i] \in S /\ rank[s[i]] = i
  BY <1>6
<1>8. s \in [1 .. N -> S]
  BY <1>7
<1>9. ASSUME NEW i \in 1 .. N, NEW j \in 1 .. N, i < j
      PROVE  <<s[i], s[j]>> \in R
  <2> HIDE DEF s
  <2>1. s[i] \in S /\ s[j] \in S /\ rank[s[i]] = i /\ rank[s[j]] = j
    BY <1>7
  <2>2. i \in Nat /\ j \in Nat /\ i # j /\ ~(j < i)
    BY <1>1, <1>9
  <2>3. s[i] # s[j]
    BY <2>1, <2>2
  <2>4. <<s[j], s[i]>> \notin R
    <3>1. SUFFICES ASSUME <<s[j], s[i]>> \in R PROVE FALSE
      OBVIOUS
    <3>2. rank[s[j]] < rank[s[i]]
      BY <1>3, <2>1, <3>1
    <3>3. QED BY <2>1, <2>2, <3>2
  <2>5. QED BY <2>1, <2>3, <2>4 DEF StrictOrder
<1>10. Sorts(s, S, R)
  <2> HIDE DEF s
  <2>1. QED BY <1>8, <1>9 DEF Sorts
<1>11. QED BY <1>10

(* A list in strict order has everything, once.                            *)
LEMMA SortedLists ==
    ASSUME NEW S, IsFiniteSet(S), NEW R, StrictOrder(R, S), NEW s, Sorts(s, S, R)
    PROVE  /\ \A x \in S : \E i \in 1 .. Cardinality(S) : s[i] = x
           /\ \A i, j \in 1 .. Cardinality(S) : s[i] = s[j] => i = j
<1> DEFINE N == Cardinality(S)
<1>1. N \in Nat /\ IsFiniteSet(1 .. N) /\ Cardinality(1 .. N) = N
  <2>1. N \in Nat
    BY FS_CardinalityType
  <2> HIDE DEF N
  <2>2. QED BY <2>1, FS_Interval
<1>2. s \in [1 .. N -> S] /\ \A i, j \in 1 .. N : i < j => s[i] # s[j]
  BY DEF Sorts, StrictOrder
<1>3. \A i, j \in 1 .. N : s[i] = s[j] => i = j
  <2> HIDE DEF N
  <2>1. QED BY <1>1, <1>2
<1>4. s \in Injection(1 .. N, S)
  BY <1>2, <1>3 DEF Injection, IsInjective
<1>5. s \in Surjection(1 .. N, S)
  BY <1>1, <1>4, FS_Injection
<1>6. QED BY <1>3, <1>5 DEF Surjection

(* A text is a, the character x and b, which has no x.                     *)
SplitsAt(t, a, x, b) == t = a \o (<<x>> \o b) /\ x \notin ToSet(b)

(* The last slash ends what comes before the last part.                    *)
LEMMA SplitOnce ==
    ASSUME NEW t, NEW x \in Nat,
           NEW a \in Seq(Nat), NEW b \in Seq(Nat), NEW c \in Seq(Nat), NEW d \in Seq(Nat),
           SplitsAt(t, a, x, b), SplitsAt(t, c, x, d)
    PROVE  a = c /\ b = d
<1>0. x \notin ToSet(b) /\ x \notin ToSet(d) /\ a \o (<<x>> \o b) = c \o (<<x>> \o d)
  BY DEF SplitsAt
<1> DEFINE l == a \o (<<x>> \o b)
           r == c \o (<<x>> \o d)
<1>1. /\ Len(a) \in Nat /\ Len(b) \in Nat /\ Len(c) \in Nat /\ Len(d) \in Nat
      /\ Len(l) = Len(a) + 1 + Len(b) /\ Len(r) = Len(c) + 1 + Len(d)
  OBVIOUS
<1>2. /\ \A i \in 1 .. Len(a) : l[i] = a[i]
      /\ l[Len(a) + 1] = x
      /\ \A i \in 1 .. Len(b) : l[Len(a) + 1 + i] = b[i]
  OBVIOUS
<1>3. /\ \A i \in 1 .. Len(c) : r[i] = c[i]
      /\ r[Len(c) + 1] = x
      /\ \A i \in 1 .. Len(d) : r[Len(c) + 1 + i] = d[i]
  OBVIOUS
<1>4. (\A i \in 1 .. Len(b) : b[i] # x) /\ \A i \in 1 .. Len(d) : d[i] # x
  BY <1>0 DEF ToSet
<1>5. l = r
  BY <1>0
<1> HIDE DEF l, r
<1>6. ~(Len(a) < Len(c))
  <2>1. SUFFICES ASSUME Len(a) < Len(c) PROVE FALSE
    OBVIOUS
  <2>2. Len(c) - Len(a) \in 1 .. Len(b)
    BY <1>1, <1>5, <2>1
  <2>3. l[Len(a) + 1 + (Len(c) - Len(a))] = b[Len(c) - Len(a)]
    BY <1>2, <2>2
  <2>4. Len(a) + 1 + (Len(c) - Len(a)) = Len(c) + 1
    BY <1>1
  <2>5. QED BY <1>3, <1>4, <1>5, <2>2, <2>3, <2>4
<1>7. ~(Len(c) < Len(a))
  <2>1. SUFFICES ASSUME Len(c) < Len(a) PROVE FALSE
    OBVIOUS
  <2>2. Len(a) - Len(c) \in 1 .. Len(d)
    BY <1>1, <1>5, <2>1
  <2>3. r[Len(c) + 1 + (Len(a) - Len(c))] = d[Len(a) - Len(c)]
    BY <1>3, <2>2
  <2>4. Len(c) + 1 + (Len(a) - Len(c)) = Len(a) + 1
    BY <1>1
  <2>5. QED BY <1>2, <1>4, <1>5, <2>2, <2>3, <2>4
<1>8. Len(a) = Len(c) /\ Len(b) = Len(d)
  BY <1>1, <1>5, <1>6, <1>7
<1>9. a = c
  <2>1. \A i \in 1 .. Len(a) : a[i] = c[i]
    BY <1>2, <1>3, <1>5, <1>8
  <2>2. QED BY <1>8, <2>1, SeqEqual
<1>10. b = d
  <2>1. \A i \in 1 .. Len(b) : b[i] = d[i]
    BY <1>2, <1>3, <1>5, <1>8
  <2>2. QED BY <1>8, <2>1, SeqEqual
<1>11. QED BY <1>9, <1>10

(* A path is a sequence of texts without a slash.                          *)
LEMMA PathIsTexts ==
    ASSUME NEW p \in Path
    PROVE  /\ p \in Seq(PartName) /\ Len(p) \in Nat \ {0} /\ DOMAIN p = 1 .. Len(p)
           /\ \A i \in 1 .. Len(p) : p[i] \in Seq(Nat) /\ Slash \notin ToSet(p[i])
<1>1. PICK n \in 1 .. MaxDepth : p \in [1 .. n -> PartName]
  BY DEF Path
<1>2. n \in Nat \ {0} /\ Len(p) = n
  BY <1>1, BoundAssumption
<1>3. p \in Seq(PartName)
  BY <1>1, <1>2
<1>4. \A i \in 1 .. n : p[i] \in PartName
  BY <1>1
<1>5. QED BY <1>1, <1>2, <1>3, <1>4, PartAssumption

(* The text of the first n parts, one after the other.                     *)
Joins(f, p) ==
    /\ f[1] = p[1]
    /\ \A n \in Nat \ {0} : n < Len(p) => f[n + 1] = f[n] \o (<<Slash>> \o p[n + 1])

(* The string of a path joins all its parts.                               *)
LEMMA TextJoins ==
    ASSUME NEW p \in Path
    PROVE  \E f : Joins(f, p) /\ AsText(p) = f[Len(p)]
<1> DEFINE q == [i \in 1 .. Len(p) |-> IF i = 1 THEN p[i] ELSE <<Slash>> \o p[i]]
           Flat(f, n) == f = [i \in 1 .. n |-> IF i = 1 THEN q[i] ELSE f[i - 1] \o q[i]]
           S == {k \in Nat : \E f : Flat(f, k)}
           flatten == CHOOSE f : Flat(f, Len(q))
<1>1. Len(p) \in Nat \ {0} /\ Len(q) = Len(p)
  BY PathIsTexts
<1> HIDE DEF q
<1>2. 0 \in S
  <2> DEFINE f == [i \in 1 .. 0 |-> IF i = 1 THEN q[i] ELSE q[i]]
  <2>1. Flat(f, 0)
    <3>1. \A i : i \notin 1 .. 0
      OBVIOUS
    <3>2. \A i \in 1 .. 0 : f[i] = IF i = 1 THEN q[i] ELSE f[i - 1] \o q[i]
      BY <3>1
    <3>3. f = [i \in 1 .. 0 |-> f[i]]
      OBVIOUS
    <3> HIDE DEF f
    <3>4. QED BY <3>2, <3>3, Zenon
  <2> HIDE DEF f, Flat
  <2>2. QED BY <2>1
<1>3. ASSUME NEW k \in Nat, k \in S PROVE k + 1 \in S
  <2>1. PICK f : Flat(f, k)
    BY <1>3
  <2> DEFINE g == [i \in 1 .. k + 1 |-> IF i \in 1 .. k THEN f[i]
                                        ELSE IF i = 1 THEN q[i] ELSE f[i - 1] \o q[i]]
  <2>2. ASSUME NEW i \in 1 .. k + 1
        PROVE  g[i] = IF i = 1 THEN q[i] ELSE g[i - 1] \o q[i]
    <3>1. CASE i \in 1 .. k
      <4>1. g[i] = f[i] /\ f[i] = IF i = 1 THEN q[i] ELSE f[i - 1] \o q[i]
        BY <2>1, <3>1
      <4>2. i # 1 => g[i - 1] = f[i - 1]
        <5>1. i # 1 => i - 1 \in 1 .. k /\ i - 1 \in 1 .. k + 1
          BY <1>3, <3>1
        <5>2. QED BY <5>1
      <4> HIDE DEF g
      <4>3. QED BY <4>1, <4>2
    <3>2. CASE i = k + 1
      <4>1. i \notin 1 .. k /\ (i # 1 => i - 1 \in 1 .. k /\ i - 1 \in 1 .. k + 1)
        BY <1>3, <3>2
      <4>2. g[i] = IF i = 1 THEN q[i] ELSE f[i - 1] \o q[i]
        BY <4>1
      <4>3. i # 1 => g[i - 1] = f[i - 1]
        BY <4>1
      <4> HIDE DEF g
      <4>4. QED BY <4>2, <4>3
    <3>3. QED BY <1>3, <3>1, <3>2
  <2>3. g = [i \in 1 .. k + 1 |-> g[i]]
    OBVIOUS
  <2> HIDE DEF g
  <2>4. Flat(g, k + 1)
    BY <2>2, <2>3, Zenon
  <2> HIDE DEF Flat
  <2>5. QED BY <2>4
<1>4. \A k \in Nat : k \in S
  <2> HIDE DEF S
  <2>1. QED BY <1>2, <1>3, Induction
<1>5. Flat(flatten, Len(q))
  <2>1. \E f : Flat(f, Len(q))
    BY <1>1, <1>4
  <2> HIDE DEF Flat
  <2>2. QED BY <2>1
<1>6. AsText(p) = flatten[Len(q)]
  <2>1. AsText(p) = FlattenSeq(q)
    BY Zenon DEF AsText, q
  <2>2. FlattenSeq(q) = IF Len(q) = 0 THEN q ELSE flatten[Len(q)]
    BY Zenon DEF FlattenSeq
  <2> HIDE DEF flatten
  <2>3. QED BY <1>1, <2>1, <2>2
<1> HIDE DEF flatten
<1>7. \A i \in 1 .. Len(p) : flatten[i] = IF i = 1 THEN q[i] ELSE flatten[i - 1] \o q[i]
  BY <1>1, <1>5
<1>8. flatten[1] = p[1]
  BY <1>1, <1>7 DEF q
<1>9. ASSUME NEW n \in Nat \ {0}, n < Len(p)
      PROVE  flatten[n + 1] = flatten[n] \o (<<Slash>> \o p[n + 1])
  <2>1. n + 1 \in 1 .. Len(p) /\ n + 1 # 1 /\ (n + 1) - 1 = n
    BY <1>1, <1>9
  <2>2. flatten[n + 1] = flatten[n] \o q[n + 1]
    BY <1>7, <2>1
  <2>3. q[n + 1] = <<Slash>> \o p[n + 1]
    BY <2>1 DEF q
  <2>4. QED BY <2>2, <2>3
<1>10. QED BY <1>1, <1>6, <1>8, <1>9 DEF Joins

(* What is joined is text.                                                 *)
LEMMA JoinsTyped ==
    ASSUME NEW p \in Path, NEW f, Joins(f, p)
    PROVE  \A n \in 1 .. Len(p) : f[n] \in Seq(Nat)
<1> DEFINE S == {n \in Nat : n < Len(p) => f[n + 1] \in Seq(Nat)}
<1>1. Len(p) \in Nat \ {0} /\ \A i \in 1 .. Len(p) : p[i] \in Seq(Nat)
  BY PathIsTexts
<1>2. 0 \in S
  <2>1. 1 \in 1 .. Len(p) /\ f[0 + 1] = p[1]
    BY <1>1 DEF Joins
  <2>2. QED BY <1>1, <2>1
<1>3. ASSUME NEW n \in Nat, n \in S PROVE n + 1 \in S
  <2>1. SUFFICES ASSUME n + 1 < Len(p) PROVE f[(n + 1) + 1] \in Seq(Nat)
    OBVIOUS
  <2>2. f[n + 1] \in Seq(Nat)
    BY <1>1, <1>3, <2>1
  <2>3. f[(n + 1) + 1] = f[n + 1] \o (<<Slash>> \o p[(n + 1) + 1])
    <3>1. n + 1 \in Nat \ {0}
      OBVIOUS
    <3>2. QED BY <2>1, <3>1, Zenon DEF Joins
  <2>4. p[(n + 1) + 1] \in Seq(Nat) /\ <<Slash>> \in Seq(Nat)
    BY <1>1, <2>1, PartAssumption
  <2>5. QED BY <2>2, <2>3, <2>4
<1> HIDE DEF S
<1>4. \A n \in Nat : n \in S
  BY <1>2, <1>3, Induction
<1>5. ASSUME NEW n \in 1 .. Len(p) PROVE f[n] \in Seq(Nat)
  <2>1. n - 1 \in Nat /\ n - 1 < Len(p) /\ (n - 1) + 1 = n
    BY <1>1
  <2>2. n - 1 \in S
    BY <1>4, <2>1
  <2>3. QED BY <2>1, <2>2 DEF S
<1>6. QED BY <1>5

(* There is a slash in it as soon as two parts are joined.                 *)
LEMMA SlashJoins ==
    ASSUME NEW p \in Path, NEW f, Joins(f, p), NEW n \in 1 .. Len(p)
    PROVE  Slash \in ToSet(f[n]) <=> n # 1
<1>1. Len(p) \in Nat \ {0} /\ \A i \in 1 .. Len(p) : p[i] \in Seq(Nat) /\ Slash \notin ToSet(p[i])
  BY PathIsTexts
<1>2. CASE n = 1
  BY <1>1, <1>2 DEF Joins
<1>3. CASE n # 1
  <2>1. n - 1 \in Nat \ {0} /\ n - 1 < Len(p) /\ (n - 1) + 1 = n /\ n - 1 \in 1 .. Len(p)
    BY <1>1, <1>3
  <2>2. f[n] = f[n - 1] \o (<<Slash>> \o p[n])
    BY <2>1 DEF Joins
  <2>3. f[n - 1] \in Seq(Nat) /\ p[n] \in Seq(Nat) /\ Slash \in Nat
    BY <1>1, <2>1, JoinsTyped, PartAssumption
  <2>4. f[n][Len(f[n - 1]) + 1] = Slash /\ Len(f[n - 1]) + 1 \in DOMAIN f[n]
    <3> DEFINE a == f[n - 1]
               b == p[n]
    <3>1. a \in Seq(Nat) /\ b \in Seq(Nat) /\ f[n] = a \o (<<Slash>> \o b)
      BY <2>2, <2>3
    <3> HIDE DEF a, b
    <3>2. f[n][Len(a) + 1] = Slash /\ Len(a) + 1 \in DOMAIN f[n]
      BY <2>3, <3>1
    <3>3. QED BY <3>2 DEF a
  <2>5. QED BY <1>3, <2>4 DEF ToSet
<1>4. QED BY <1>2, <1>3

(* Different paths have different strings.                                 *)
LEMMA TextIsPath ==
    ASSUME NEW p \in Path, NEW q \in Path, AsText(p) = AsText(q)
    PROVE  p = q
<1>1. PICK f : Joins(f, p) /\ AsText(p) = f[Len(p)]
  BY TextJoins
<1>2. PICK g : Joins(g, q) /\ AsText(q) = g[Len(q)]
  BY TextJoins
<1>3. /\ Len(p) \in Nat \ {0} /\ Len(q) \in Nat \ {0}
      /\ p \in Seq(PartName) /\ q \in Seq(PartName)
      /\ \A i \in 1 .. Len(p) : p[i] \in Seq(Nat) /\ Slash \notin ToSet(p[i])
      /\ \A i \in 1 .. Len(q) : q[i] \in Seq(Nat) /\ Slash \notin ToSet(q[i])
  BY PathIsTexts
<1> DEFINE Same(n) == \A m \in 1 .. Len(q) : f[n] = g[m] =>
                         n = m /\ \A i \in 1 .. n : p[i] = q[i]
           S == {k \in Nat : k < Len(p) => Same(k + 1)}
<1>4. 0 \in S
  <2>1. ASSUME NEW m \in 1 .. Len(q), f[1] = g[m] PROVE m = 1 /\ p[1] = q[1]
    <3>1. 1 \in 1 .. Len(p)
      BY <1>3
    <3>2. m = 1
      BY <1>1, <1>2, <2>1, <3>1, SlashJoins
    <3>3. QED BY <1>1, <1>2, <2>1, <3>2 DEF Joins
  <2>2. Same(0 + 1)
    BY <2>1
  <2> HIDE DEF Same
  <2>3. QED BY <2>2
<1>5. ASSUME NEW k \in Nat, k \in S PROVE k + 1 \in S
  <2> DEFINE n == k + 1
  <2>1. SUFFICES ASSUME n < Len(p) PROVE Same(n + 1)
    OBVIOUS
  <2>2. Same(n) /\ n \in Nat \ {0} /\ n \in 1 .. Len(p) /\ n + 1 \in 1 .. Len(p)
    <3>1. k < Len(p)
      BY <1>3, <2>1
    <3> HIDE DEF Same
    <3>2. QED BY <1>3, <1>5, <2>1, <3>1
  <2> HIDE DEF n
  <2>3. ASSUME NEW m \in 1 .. Len(q), f[n + 1] = g[m]
        PROVE  n + 1 = m /\ \A i \in 1 .. n + 1 : p[i] = q[i]
    <3>1. m # 1
      <4>1. Slash \in ToSet(f[n + 1])
        BY <1>1, <2>2, SlashJoins
      <4>2. QED BY <1>2, <2>3, <4>1, SlashJoins
    <3> DEFINE l == m - 1
    <3>2. l \in Nat \ {0} /\ l < Len(q) /\ l \in 1 .. Len(q) /\ l + 1 = m
      BY <1>3, <3>1
    <3> HIDE DEF l
    <3>3. f[n + 1] = f[n] \o (<<Slash>> \o p[n + 1])
      BY <1>1, <2>1, <2>2 DEF Joins
    <3>4. g[m] = g[l] \o (<<Slash>> \o q[m])
      BY <1>2, <3>2 DEF Joins
    <3>5. f[n] \in Seq(Nat) /\ g[l] \in Seq(Nat)
      BY <1>1, <1>2, <2>2, <3>2, JoinsTyped
    <3>6. f[n] = g[l] /\ p[n + 1] = q[m]
      <4>1. /\ p[n + 1] \in Seq(Nat) /\ Slash \notin ToSet(p[n + 1])
            /\ q[m] \in Seq(Nat) /\ Slash \notin ToSet(q[m]) /\ Slash \in Nat
        BY <1>3, <2>2, PartAssumption
      <4>2. f[n] \o (<<Slash>> \o p[n + 1]) = g[l] \o (<<Slash>> \o q[m])
        BY <2>3, <3>3, <3>4
      <4>3. SplitsAt(g[m], f[n], Slash, p[n + 1]) /\ SplitsAt(g[m], g[l], Slash, q[m])
        BY <2>3, <3>3, <3>4, <4>1, Zenon DEF SplitsAt
      <4> HIDE DEF Same, S
      <4>4. QED BY <3>5, <4>1, <4>3, SplitOnce
    <3>7. n = l /\ \A i \in 1 .. n : p[i] = q[i]
      BY <2>2, <3>2, <3>6
    <3>8. \A i \in 1 .. n + 1 : i \in 1 .. n \/ i = n + 1
      BY <2>2
    <3>9. QED BY <3>2, <3>6, <3>7, <3>8
  <2>4. QED BY <2>3
<1> HIDE DEF S
<1>6. \A k \in Nat : k \in S
  BY <1>4, <1>5, Induction
<1>7. Same(Len(p))
  <2>1. Len(p) - 1 \in Nat /\ Len(p) - 1 < Len(p) /\ (Len(p) - 1) + 1 = Len(p)
    BY <1>3
  <2>2. Len(p) - 1 \in S
    BY <1>6, <2>1
  <2> HIDE DEF Same
  <2>3. QED BY <2>1, <2>2 DEF S
<1>8. Len(p) = Len(q) /\ \A i \in 1 .. Len(p) : p[i] = q[i]
  <2>1. Len(q) \in 1 .. Len(q)
    <3>1. \A n \in Nat \ {0} : n \in 1 .. n
      OBVIOUS
    <3>2. QED BY <1>3, <3>1
  <2>2. f[Len(p)] = g[Len(q)]
    BY <1>1, <1>2
  <2>3. QED BY <1>7, <2>1, <2>2
<1>9. QED BY <1>3, <1>8, SeqEqual

LEMMA PartOfOrder ==
    ASSUME NEW A, NEW B \in SUBSET A, NEW R, StrictOrder(R, A)
    PROVE  StrictOrder(R, B)
BY DEF StrictOrder

NumberOrder == {x \in Nat \X Nat : x[1] < x[2]}
TextOrder == LexOrder(NumberOrder, Nat)
PathOrder == LexOrder(TextOrder, Seq(Nat))

(* Texts are strictly ordered, by character.                               *)
LEMMA TextsAreOrdered ==
    /\ StrictOrder(TextOrder, Seq(Nat))
    /\ \A s, t \in Seq(Nat) : LessText(s, t) <=> <<s, t>> \in TextOrder
<1>1. StrictOrder(NumberOrder, Nat)
  BY DEF StrictOrder, NumberOrder
<1>2. StrictOrder(TextOrder, Seq(Nat))
  BY <1>1, LexIsStrict DEF TextOrder
<1>3. ASSUME NEW s \in Seq(Nat), NEW t \in Seq(Nat)
      PROVE  LessText(s, t) <=> Lex(NumberOrder, s, t)
  <2>1. Len(s) \in Nat /\ Len(t) \in Nat
    OBVIOUS
  <2>2. \A n \in 1 .. Len(t) : n <= Len(s) => (s[n] < t[n] <=> <<s[n], t[n]>> \in NumberOrder)
    BY <2>1 DEF NumberOrder
  <2>3. QED BY <2>2 DEF LessText, Lexicographic, Lex
<1>4. QED BY <1>2, <1>3 DEF TextOrder, LexOrder

(* So are paths, by part.                                                  *)
LEMMA PathsAreOrdered ==
    /\ StrictOrder(PathOrder, Seq(Seq(Nat)))
    /\ \A p, q \in Seq(Seq(Nat)) : PathBefore(p, q) <=> <<p, q>> \in PathOrder
<1>1. StrictOrder(PathOrder, Seq(Seq(Nat)))
  BY TextsAreOrdered, LexIsStrict DEF PathOrder
<1>2. ASSUME NEW p \in Seq(Seq(Nat)), NEW q \in Seq(Seq(Nat))
      PROVE  PathBefore(p, q) <=> Lex(TextOrder, p, q)
  <2>1. Len(p) \in Nat /\ Len(q) \in Nat
    OBVIOUS
  <2>2. \A n \in 1 .. Len(q) : n <= Len(p) =>
            (LessText(p[n], q[n]) <=> <<p[n], q[n]>> \in TextOrder)
    <3>1. \A n \in 1 .. Len(q) : n <= Len(p) => p[n] \in Seq(Nat) /\ q[n] \in Seq(Nat)
      BY <2>1
    <3>2. QED BY <3>1, TextsAreOrdered
  <2>3. QED BY <2>2 DEF PathBefore, Lexicographic, Lex
<1>3. QED BY <1>1, <1>2 DEF PathOrder, LexOrder

LEMMA PathIsSequence == Path \subseteq Seq(Seq(Nat))
<1>1. ASSUME NEW p \in Path PROVE p \in Seq(Seq(Nat))
  <2>1. p \in Seq(PartName) /\ Len(p) \in Nat
    BY PathIsTexts
  <2>2. PartName \subseteq Seq(Nat)
    BY PartAssumption
  <2>3. QED BY <2>1, <2>2
<1>2. QED BY <1>1

(* The strings of paths are strictly ordered too.                          *)
LEMMA StringsAreOrdered ==
    /\ \A p \in Path : ~StringBefore(p, p)
    /\ \A p, q \in Path : p = q \/ StringBefore(p, q) \/ StringBefore(q, p)
    /\ \A p, q \in Path : StringBefore(p, q) => ~StringBefore(q, p)
<1>1. \A p \in Path : AsText(p) \in Seq(Nat)
  <2>1. ASSUME NEW p \in Path PROVE AsText(p) \in Seq(Nat)
    <3>1. PICK f : Joins(f, p) /\ AsText(p) = f[Len(p)]
      BY TextJoins
    <3>2. Len(p) \in 1 .. Len(p)
      <4>1. \A n \in Nat \ {0} : n \in 1 .. n
        OBVIOUS
      <4>2. QED BY <4>1, PathIsTexts
    <3>3. QED BY <3>1, <3>2, JoinsTyped
  <2>2. QED BY <2>1
<1>2. \A p, q \in Path : StringBefore(p, q) <=> <<AsText(p), AsText(q)>> \in TextOrder
  BY <1>1, TextsAreOrdered DEF StringBefore
<1>3. \A p, q \in Path : AsText(p) = AsText(q) => p = q
  BY TextIsPath
<1>4. \A p \in Path : <<AsText(p), AsText(p)>> \notin TextOrder
  BY <1>1, TextsAreOrdered DEF StrictOrder
<1>5. \A p, q \in Path : AsText(p) = AsText(q) \/ <<AsText(p), AsText(q)>> \in TextOrder
                                              \/ <<AsText(q), AsText(p)>> \in TextOrder
  BY <1>1, TextsAreOrdered DEF StrictOrder
<1>6. \A p, q \in Path : ~(<<AsText(p), AsText(q)>> \in TextOrder
                          /\ <<AsText(q), AsText(p)>> \in TextOrder)
  <2>1. \A s, t \in Seq(Nat) : ~(<<s, t>> \in TextOrder /\ <<t, s>> \in TextOrder)
    BY TextsAreOrdered DEF StrictOrder
  <2>2. QED BY <1>1, <2>1
<1>7. QED BY <1>2, <1>3, <1>4, <1>5, <1>6, Zenon
-----------------------------------------------------------------------------
(* build_manifest lists the files of a tree, each once.                    *)
LEMMA SortedIsSorted ==
    ASSUME NEW P \in SUBSET Path, IsFiniteSet(P)
    PROVE  /\ Sorts(Sorted(P), P, PathOrder) /\ StrictOrder(PathOrder, P)
           /\ Cardinality(P) \in Nat /\ DOMAIN Sorted(P) = 1 .. Cardinality(P)
<1>1. P \in SUBSET Seq(Seq(Nat))
  BY PathIsSequence
<1>2. StrictOrder(PathOrder, P)
  BY <1>1, PathsAreOrdered, PartOfOrder
<1>3. \E s : Sorts(s, P, PathOrder)
  BY <1>2, SortExists
<1> DEFINE Good(s) == \A i, j \in DOMAIN s : i < j => PathBefore(s[i], s[j])
           T == [1 .. Cardinality(P) -> P]
<1>4. \A s \in T : Good(s) <=> Sorts(s, P, PathOrder)
  <2>1. ASSUME NEW s \in T PROVE Good(s) <=> Sorts(s, P, PathOrder)
    <3>1. DOMAIN s = 1 .. Cardinality(P)
      OBVIOUS
    <3>2. \A i \in 1 .. Cardinality(P) : s[i] \in Seq(Seq(Nat))
      BY <1>1
    <3>3. \A i, j \in 1 .. Cardinality(P) : PathBefore(s[i], s[j]) <=> <<s[i], s[j]>> \in PathOrder
      BY <3>2, PathsAreOrdered
    <3>4. QED BY <3>1, <3>3 DEF Sorts
  <2>2. QED BY <2>1
<1>5. \E s \in T : Good(s)
  <2>1. \A s : Sorts(s, P, PathOrder) => s \in T
    BY DEF Sorts
  <2> HIDE DEF Good, T
  <2>2. QED BY <1>3, <1>4, <2>1
<1>6. Sorted(P) = CHOOSE s \in T : Good(s)
  BY Zenon DEF Sorted
<1> HIDE DEF Good
<1>7. Sorted(P) \in T /\ Good(Sorted(P))
  <2> HIDE DEF T
  <2>1. QED BY <1>5, <1>6, Zenon
<1>8. Sorts(Sorted(P), P, PathOrder)
  BY <1>4, <1>7
<1>9. Cardinality(P) \in Nat
  BY FS_CardinalityType
<1>10. QED BY <1>2, <1>7, <1>8, <1>9

LEMMA TreeParts ==
    ASSUME NEW t \in Trees
    PROVE  /\ DOMAIN t \in SUBSET Path /\ IsFiniteSet(DOMAIN t)
           /\ Cardinality(DOMAIN t) <= MaxFiles
           /\ \A p \in DOMAIN t : t[p] \in Content \cup Irregular
BY DEF Trees

(* The manifest of a tree has an entry for each of its files, once, in the *)
(* order of their paths.                                                   *)
LEMMA ManifestListsTree ==
    ASSUME NEW t \in Trees, InspectionIssues(t) = {}
    PROVE  /\ Manifest(t) \in Entries
           /\ ToSet(Manifest(t)) = {EntryOf(t, p) : p \in DOMAIN t}
           /\ \A i, j \in DOMAIN Manifest(t) : i # j => Manifest(t)[i].path # Manifest(t)[j].path
           /\ \A i, j \in DOMAIN Manifest(t) :
                 i < j => PathBefore(Manifest(t)[i].path, Manifest(t)[j].path)
<1> DEFINE P == DOMAIN t
           s == Sorted(P)
           N == Cardinality(P)
<1>1. P \in SUBSET Path /\ IsFiniteSet(P) /\ N <= MaxFiles
  BY TreeParts
<1>2. Sorts(s, P, PathOrder) /\ StrictOrder(PathOrder, P) /\ N \in Nat /\ DOMAIN s = 1 .. N
  <2> HIDE DEF P
  <2>1. QED BY <1>1, SortedIsSorted
<1>3. /\ \A p \in P : \E i \in 1 .. N : s[i] = p
      /\ \A i, j \in 1 .. N : s[i] = s[j] => i = j
  <2> HIDE DEF P, s
  <2>1. QED BY <1>1, <1>2, SortedLists
<1>4. \A i \in 1 .. N : s[i] \in P
  BY <1>2 DEF Sorts
<1>5. \A p \in P : t[p] \in Content
  <2>1. t # Nothing /\ \A p \in P : t[p] \notin Irregular
    BY DEF InspectionIssues, When
  <2>2. QED BY <2>1, TreeParts
<1>6. Manifest(t) = [i \in 1 .. N |-> EntryOf(t, s[i])]
  BY <1>2, Zenon DEF Manifest
<1> HIDE DEF s, P, N
<1>7. \A i \in 1 .. N : EntryOf(t, s[i]) \in Entry
  <2>1. ASSUME NEW i \in 1 .. N PROVE EntryOf(t, s[i]) \in Entry
    <3>1. s[i] \in Path /\ t[s[i]] \in Content
      BY <1>1, <1>4, <1>5
    <3>2. QED BY <3>1 DEF EntryOf, Entry
  <2>2. QED BY <2>1
<1>8. Manifest(t) \in Seq(Entry) /\ Len(Manifest(t)) = N /\ DOMAIN Manifest(t) = 1 .. N
  BY <1>2, <1>6, <1>7
<1>9. Manifest(t) \in Entries
  BY <1>1, <1>8 DEF Entries
<1>10. ToSet(Manifest(t)) = {EntryOf(t, p) : p \in P}
  BY <1>3, <1>4, <1>6, <1>8 DEF ToSet
<1>11. \A i \in 1 .. N : Manifest(t)[i].path = s[i]
  BY <1>6 DEF EntryOf
<1>12. \A i, j \in 1 .. N : i < j => PathBefore(s[i], s[j])
  <2>1. \A i, j \in 1 .. N : i < j => <<s[i], s[j]>> \in PathOrder
    BY <1>2 DEF Sorts, N
  <2>2. \A i \in 1 .. N : s[i] \in Seq(Seq(Nat))
    BY <1>1, <1>4, PathIsSequence
  <2>3. QED BY <2>1, <2>2, PathsAreOrdered
<1>13. QED BY <1>3, <1>8, <1>9, <1>10, <1>11, <1>12 DEF P

LEMMA TreeIsRegular ==
    ASSUME NEW t
    PROVE  InspectionIssues(t) = {} <=> t # Nothing /\ \A p \in DOMAIN t : t[p] \notin Irregular
BY DEF InspectionIssues, When

LEMMA EntryPaths ==
    ASSUME NEW m \in Entries
    PROVE  /\ DOMAIN m = 1 .. Len(m) /\ Len(m) \in Nat /\ ToSet(m) \in SUBSET Entry
           /\ \A i \in DOMAIN m : m[i] \in Entry /\ m[i].path \in Path
<1>1. m \in Seq(Entry)
  BY DEF Entries
<1>2. \A i \in DOMAIN m : m[i] \in Entry
  BY <1>1
<1>3. QED BY <1>1, <1>2 DEF Entry, ToSet

(* The rules for the order say that the paths are strictly ordered.        *)
LEMMA OrderRules ==
    ASSUME NEW m \in Entries
    PROVE  ManifestIssues(m) = {} <=>
               \A i, j \in DOMAIN m : i < j => StringBefore(m[i].path, m[j].path)
<1>1. \A i \in DOMAIN m : m[i].path \in Path
  BY EntryPaths
<1>2. ManifestIssues(m) = {} <=>
          \A i, j \in DOMAIN m : i < j => /\ m[i].path # m[j].path
                                          /\ ~StringBefore(m[j].path, m[i].path)
  BY DEF ManifestIssues, SamePath, When
<1>3. \A i, j \in DOMAIN m :
          StringBefore(m[i].path, m[j].path) <=> /\ m[i].path # m[j].path
                                                 /\ ~StringBefore(m[j].path, m[i].path)
  BY <1>1, StringsAreOrdered
<1>4. QED BY <1>2, <1>3

(* The comparison finds nothing in sets of entries exactly when they are   *)
(* the same, where one of them has each path once.                         *)
OncePerPath(E) == \A e, f \in E : e.path = f.path => e = f

LEMMA ComparisonIsExact ==
    ASSUME NEW E \in SUBSET Entry, NEW A \in SUBSET Entry, OncePerPath(A)
    PROVE  Differences(E, A) = {} <=> E = A
<1>1. Differences(E, A) = {} <=>
          /\ \A e \in E : \E a \in A : a.path = e.path
          /\ \A a \in A : \E e \in E : a.path = e.path
          /\ \A e \in E, a \in A : e.path = a.path => e.size = a.size /\ e.hash = a.hash
  <2> DEFINE both == {x \in E \X A : x[1].path = x[2].path}
             missing == \E e \in E : \A a \in A : a.path # e.path
             extra == \E a \in A : \A e \in E : a.path # e.path
             size == \E x \in both : x[1].size # x[2].size
             hash == \E x \in both : x[1].hash # x[2].hash
  <2>1. Differences(E, A) = {} <=> ~missing /\ ~extra /\ ~size /\ ~hash
    <3>1. Differences(E, A) = When(missing, "MANIFEST_FILE_MISSING")
              \cup When(extra, "MANIFEST_FILE_EXTRA")
              \cup When(size, "MANIFEST_SIZE_MISMATCH")
              \cup When(hash, "MANIFEST_HASH_MISMATCH")
      BY Zenon DEF Differences
    <3> HIDE DEF missing, extra, size, hash
    <3>2. QED BY <3>1 DEF When
  <2>2. (~size /\ ~hash) <=>
          \A e \in E, a \in A : e.path = a.path => e.size = a.size /\ e.hash = a.hash
    <3>1. \A x \in both : x[1] \in E /\ x[2] \in A /\ x[1].path = x[2].path
      OBVIOUS
    <3>2. \A e \in E, a \in A : e.path = a.path => <<e, a>> \in both
      OBVIOUS
    <3> HIDE DEF both
    <3>3. QED BY <3>1, <3>2
  <2> HIDE DEF size, hash
  <2>3. QED BY <2>1, <2>2
<1>2. \A e, a \in Entry : e.path = a.path /\ e.size = a.size /\ e.hash = a.hash => e = a
  BY DEF Entry
<1>3. QED
  <2> HIDE DEF Differences
  <2>1. ASSUME Differences(E, A) = {} PROVE E = A
    <3>1. \A e \in E : e \in A
      BY <1>1, <1>2, <2>1
    <3>2. \A a \in A : a \in E
      BY <1>1, <1>2, <2>1
    <3>3. QED BY <3>1, <3>2
  <2>2. ASSUME E = A PROVE Differences(E, A) = {}
    BY <1>1, <2>2 DEF OncePerPath
  <2>3. QED BY <2>1, <2>2

LEMMA TreeEntries ==
    ASSUME NEW t \in Trees, InspectionIssues(t) = {}
    PROVE  /\ ToSet(Manifest(t)) = {EntryOf(t, p) : p \in DOMAIN t}
           /\ ToSet(Manifest(t)) \in SUBSET Entry /\ OncePerPath(ToSet(Manifest(t)))
<1>1. Manifest(t) \in Entries /\ ToSet(Manifest(t)) = {EntryOf(t, p) : p \in DOMAIN t}
  BY ManifestListsTree
<1>2. OncePerPath({EntryOf(t, p) : p \in DOMAIN t})
  BY DEF OncePerPath, EntryOf
<1>3. QED BY <1>1, <1>2, EntryPaths

(* Verification reports nothing exactly when the manifest describes the    *)
(* tree.                                                                   *)
LEMMA VerificationIsExact ==
    ASSUME NEW x \in Described, x.manifest # Nothing
    PROVE  Verification(x) = {} <=> Describes(x.manifest, x.tree)
<1> DEFINE m == x.manifest
           t == x.tree
<1>1. m \in Entries /\ (t # Nothing => t \in Trees)
  BY DEF Described
<1>2. Verification(x) = {} <=>
        /\ ManifestIssues(m) = {} /\ InspectionIssues(t) = {}
        /\ Differences(ToSet(m), ToSet(Manifest(t))) = {}
  BY DEF Verification
<1> HIDE DEF m, t
<1>3. InspectionIssues(t) = {} =>
        (Differences(ToSet(m), ToSet(Manifest(t))) = {}
           <=> ToSet(m) = {EntryOf(t, p) : p \in DOMAIN t})
  <2>1. SUFFICES ASSUME InspectionIssues(t) = {}
                 PROVE  Differences(ToSet(m), ToSet(Manifest(t))) = {}
                          <=> ToSet(m) = {EntryOf(t, p) : p \in DOMAIN t}
    OBVIOUS
  <2>2. t \in Trees
    BY <1>1, <2>1, TreeIsRegular
  <2>3. ToSet(m) \in SUBSET Entry
    BY <1>1, EntryPaths
  <2> DEFINE E == ToSet(m)
             A == ToSet(Manifest(t))
  <2>4. A \in SUBSET Entry /\ OncePerPath(A) /\ A = {EntryOf(t, p) : p \in DOMAIN t}
    BY <2>1, <2>2, TreeEntries
  <2>5. E \in SUBSET Entry
    BY <2>3
  <2> HIDE DEF E, A
  <2>6. Differences(E, A) = {} <=> E = A
    BY <2>4, <2>5, ComparisonIsExact
  <2>7. QED BY <2>4, <2>6 DEF E, A
<1>4. Verification(x) = {} <=> Describes(m, t)
  BY <1>1, <1>2, <1>3, OrderRules, TreeIsRegular DEF Describes
<1>5. QED BY <1>4 DEF m, t

(* The manifest of a tree lists its files: each of them, as it is, and     *)
(* nothing else.                                                           *)
LEMMA BuiltListsFiles ==
    ASSUME NEW t \in Trees, InspectionIssues(t) = {}, NEW m, m = Manifest(t)
    PROVE  /\ \A p \in DOMAIN t : \E i \in DOMAIN m :
                m[i] = [path |-> p, size |-> t[p].size, hash |-> t[p].hash]
           /\ \A i \in DOMAIN m : m[i].path \in DOMAIN t
           /\ \A i, j \in DOMAIN m : i # j => m[i].path # m[j].path
<1>1. /\ ToSet(m) = {EntryOf(t, p) : p \in DOMAIN t}
      /\ \A i, j \in DOMAIN m : i # j => m[i].path # m[j].path
  BY ManifestListsTree
<1>2. ASSUME NEW p \in DOMAIN t
      PROVE  \E i \in DOMAIN m : m[i] = [path |-> p, size |-> t[p].size, hash |-> t[p].hash]
  <2>1. EntryOf(t, p) \in ToSet(m)
    BY <1>1
  <2>2. QED BY <2>1 DEF ToSet, EntryOf
<1>3. ASSUME NEW i \in DOMAIN m PROVE m[i].path \in DOMAIN t
  <2>1. m[i] \in ToSet(m)
    BY DEF ToSet
  <2>2. PICK p \in DOMAIN t : m[i] = EntryOf(t, p)
    BY <1>1, <2>1
  <2>3. QED BY <2>2 DEF EntryOf
<1>4. QED BY <1>1, <1>2, <1>3

(* Two files of the tree whose paths are in one order and whose strings    *)
(* are in the other.                                                       *)
Crossed(t) == \E p, q \in DOMAIN t : PathBefore(p, q) /\ StringBefore(q, p)

LEMMA PathOrderIsStrict ==
    \A p, q \in Path : PathBefore(p, q) => p # q /\ ~PathBefore(q, p)
<1>1. \A p, q \in Seq(Seq(Nat)) : <<p, q>> \in PathOrder => p # q /\ <<q, p>> \notin PathOrder
  BY PathsAreOrdered DEF StrictOrder
<1>2. QED BY <1>1, PathsAreOrdered, PathIsSequence

(* The rules for the order refuse the manifest of a tree with such files.  *)
LEMMA BuiltOrder ==
    ASSUME NEW t \in Trees, InspectionIssues(t) = {}, NEW m, m = Manifest(t)
    PROVE  ManifestIssues(m) = When(Crossed(t), "MANIFEST_PATH_ORDER")
<1>1. /\ m \in Entries
      /\ \A i, j \in DOMAIN m : i # j => m[i].path # m[j].path
      /\ \A i, j \in DOMAIN m : i < j => PathBefore(m[i].path, m[j].path)
  BY ManifestListsTree
<1>2. /\ \A p \in DOMAIN t : \E i \in DOMAIN m : m[i].path = p
      /\ \A i \in DOMAIN m : m[i].path \in DOMAIN t /\ m[i].path \in Path
  BY <1>1, BuiltListsFiles, EntryPaths
<1>3. DOMAIN m \subseteq Nat
  BY <1>1, EntryPaths
<1> DEFINE refused == \E i, j \in DOMAIN m : i < j /\ StringBefore(m[j].path, m[i].path)
<1>4. refused => Crossed(t)
  BY <1>1, <1>2 DEF Crossed
<1>5. Crossed(t) => refused
  <2>1. SUFFICES ASSUME NEW p \in DOMAIN t, NEW q \in DOMAIN t,
                        PathBefore(p, q), StringBefore(q, p)
                 PROVE  refused
    BY DEF Crossed
  <2>2. PICK i \in DOMAIN m, j \in DOMAIN m : m[i].path = p /\ m[j].path = q
    BY <1>2
  <2>3. p \in Path /\ q \in Path
    BY <1>2, <2>2
  <2>4. i # j /\ ~(j < i)
    BY <1>1, <2>1, <2>2, <2>3, PathOrderIsStrict
  <2>5. i < j
    BY <1>3, <2>4
  <2>6. QED BY <2>1, <2>2, <2>5
<1>6. ~\E i, j \in DOMAIN m : i < j /\ SamePath(m[i], m[j])
  <2>1. \A i, j \in DOMAIN m : i < j => i # j
    BY <1>3
  <2>2. QED BY <1>1, <2>1 DEF SamePath
<1>7. ManifestIssues(m) = When(refused, "MANIFEST_PATH_ORDER")
  BY <1>6 DEF ManifestIssues, When
<1> HIDE DEF refused
<1>8. QED BY <1>4, <1>5, <1>7 DEF When

(* Of the manifest of a tree verification reports the order alone.         *)
LEMMA BuiltVerifies ==
    ASSUME NEW x \in Described, x.manifest = Manifest(x.tree), InspectionIssues(x.tree) = {}
    PROVE  Verification(x) = When(Crossed(x.tree), "MANIFEST_PATH_ORDER")
<1>1. x.tree \in Trees
  BY TreeIsRegular DEF Described
<1>2. ManifestIssues(x.manifest) = When(Crossed(x.tree), "MANIFEST_PATH_ORDER")
  BY <1>1, BuiltOrder
<1>3. Differences(ToSet(x.manifest), ToSet(Manifest(x.tree))) = {}
  BY <1>1, TreeEntries, ComparisonIsExact
<1>4. QED BY <1>2, <1>3 DEF Verification, When
-----------------------------------------------------------------------------
(* A verdict needs a manifest, and one that was built is that of the tree  *)
(* as it is.                                                               *)
ManifestInv ==
    kind = "manifest" =>
        /\ subject \in Described
        /\ verdict # Unknown => subject.manifest # Nothing
        /\ subject.built => /\ subject.manifest = Manifest(subject.tree)
                            /\ InspectionIssues(subject.tree) = {}

LEMMA EditedIsNotBuilt ==
    ASSUME NEW x \in Described, NEW y \in ChangedManifest(x)
    PROVE  y.built = FALSE
<1> DEFINE z == [x EXCEPT !.built = FALSE]
           new == [tree |-> ChangedTree(x.tree), manifest |-> ChangedEntries(x.manifest)]
<1>1. z.built = FALSE /\ DOMAIN z = {"tree", "manifest", "built"}
  BY DEF Described
<1>2. PICK f \in {"tree", "manifest"} : \E v \in new[f] : y = [z EXCEPT ![f] = v]
  <2>1. y \in Change(z, new) /\ DOMAIN new = {"tree", "manifest"}
    BY Zenon DEF ChangedManifest
  <2> HIDE DEF z, new
  <2>2. QED BY <2>1 DEF Change
<1> HIDE DEF z, new
<1>3. PICK v \in new[f] : y = [z EXCEPT ![f] = v]
  BY <1>2
<1>4. QED BY <1>1, <1>3

LEMMA BuildingDescribes ==
    ASSUME NEW x \in Described, InspectionIssues(x.tree) = {}
    PROVE  [x EXCEPT !.manifest = Manifest(x.tree), !.built = TRUE] \in Described
<1>1. x.tree \in Trees
  BY TreeIsRegular DEF Described
<1>2. Manifest(x.tree) \in Entries
  BY <1>1, ManifestListsTree
<1>3. QED BY <1>2 DEF Described

(* The invariant holds: every edit leaves a manifest that was not built.   *)
LEMMA ManifestInvHolds == Spec => []ManifestInv
<1>1. Init => ManifestInv
  BY OriginalAssumption DEF Init, ManifestInv, Document
<1>2. ManifestInv /\ [Next]_vars => ManifestInv'
  <2> SUFFICES ASSUME ManifestInv, [Next]_vars, kind' = "manifest"
               PROVE  ManifestInv'
    BY DEF ManifestInv
  <2>1. CASE EditManifest
    <3>1. /\ kind = "manifest" /\ verdict' = Unknown
          /\ subject' \in ChangedManifest(subject) /\ subject' \in Described
      BY <2>1 DEF EditManifest, Edit, Document
    <3>2. subject'.built = FALSE
      BY <3>1, EditedIsNotBuilt DEF ManifestInv
    <3>3. QED BY <3>1, <3>2 DEF ManifestInv
  <2>2. CASE BuildManifest
    <3>1. CASE UNCHANGED vars
      BY <3>1 DEF vars, ManifestInv
    <3>2. CASE ~UNCHANGED vars
      <4> DEFINE built == [subject EXCEPT !.manifest = Manifest(subject.tree), !.built = TRUE]
      <4>1. /\ kind = "manifest" /\ InspectionIssues(subject.tree) = {}
            /\ subject' = built /\ verdict' = Unknown
        BY <2>2, <3>2 DEF BuildManifest
      <4>2. built \in Described
        BY <4>1, BuildingDescribes DEF ManifestInv
      <4>3. built.manifest = Manifest(built.tree) /\ built.tree = subject.tree
        BY <4>1 DEF ManifestInv, Described
      <4> HIDE DEF built
      <4>4. QED BY <4>1, <4>2, <4>3 DEF ManifestInv
    <3>3. QED BY <3>1, <3>2
  <2>3. CASE VerifyManifest
    BY <2>3 DEF VerifyManifest, Judge, ManifestInv
  <2>4. CASE UNCHANGED vars
    BY <2>4 DEF vars, ManifestInv
  <2>5. QED
    BY <2>1, <2>2, <2>3, <2>4 DEF Next, EditContract, EditProject, EditDelivery, EditPackage,
       Edit, ValidateContract, ValidateProject, ValidateDelivery, ValidatePackage, Judge
<1>3. QED
  BY <1>1, <1>2, PTL DEF Spec

(* verify_manifest reports nothing exactly when the manifest lists the     *)
(* files of the tree, each once, as they are, in the order of their paths. *)
THEOREM ManifestRulesHold == Spec => []VerifiesExactly
<1>1. Inv /\ ManifestInv => VerifiesExactly
  BY VerificationIsExact DEF Inv, ManifestInv, VerifiesExactly, Judged, Ruling
<1>2. QED
  BY <1>1, InvHolds, ManifestInvHolds, PTL

(* What build_manifest returns has one entry for each file of the tree,    *)
(* with the size and the hash of what the file holds, and no other entry.  *)
THEOREM BuildingIsComplete == Spec => []BuiltIsComplete
<1>1. ManifestInv => BuiltIsComplete
  <2>1. SUFFICES ASSUME ManifestInv, kind = "manifest", subject.built
                 PROVE  BuiltIsComplete
    BY DEF BuiltIsComplete
  <2>2. /\ subject.tree \in Trees /\ InspectionIssues(subject.tree) = {}
        /\ subject.manifest = Manifest(subject.tree)
    BY <2>1, TreeIsRegular DEF ManifestInv, Described
  <2>3. QED BY <2>2, BuiltListsFiles DEF BuiltIsComplete
<1>2. QED
  BY <1>1, ManifestInvHolds, PTL

(* Of an unchanged tree the manifest built from it is refused exactly when *)
(* the two orders of paths disagree on two of its files, and for nothing   *)
(* but the order.                                                          *)
THEOREM OnlyOrderIsRefused == Spec => []RefusedForOrderAlone
<1>1. Inv /\ ManifestInv => RefusedForOrderAlone
  BY BuiltVerifies
  DEF Inv, ManifestInv, RefusedForOrderAlone, Judged, Ruling, Crossed
<1>2. QED
  BY <1>1, InvHolds, ManifestInvHolds, PTL
=============================================================================
