--------------------------- MODULE ContractRules ---------------------------
(***************************************************************************)
(* validate_contract_objects: the project state, the release lock and the  *)
(* package validation, each by its own rules and then against each other.  *)
(*                                                                         *)
(* A document is its version, whether it fits its JSON schema, and the     *)
(* fields the rules read.  Restricted outputs are a set: the schema asks   *)
(* for unique items and the rules compare them sorted.                     *)
(***************************************************************************)
EXTENDS Naturals, Reports

CONSTANTS
    ProjectId, NextAction,   \* values of project_id and of next
    RestrictedOutput,
    MaxGates                 \* BOUND: open critical gates in a document

ASSUME GatesAssumption == MaxGates \in Nat

(* project_boundaries, hard_controls and non_regression.                   *)
Boundaries == [gates : 0 .. MaxGates, restricted : SUBSET RestrictedOutput,
               ready : BOOLEAN]
Version == {"1.0.0", "missing", "unsupported"}
Status == {"CURRENT", "ARCHIVED", "SUPERSEDED"}
ProductClass == {"PRELIMINARY_RED_FLAG_DD", "FINAL_FULL_DD"}

Controlled == [version : Version, fits : BOOLEAN, project : ProjectId,
               status : Status, class : ProductClass, next : NextAction,
               boundaries : Boundaries]
Validation == [version : Version, fits : BOOLEAN, project : ProjectId,
               status : {"PASS", "FAIL"}, boundaries : Boundaries]
Contract == [state : Controlled, lock : Controlled, validation : Validation]
-----------------------------------------------------------------------------
(* validate_object: an unsupported version ends it; the rules about the    *)
(* boundaries are for documents that fit the schema, where they exist.     *)
Structural == {"SCHEMA_VERSION_MISSING", "SCHEMA_VERSION_UNSUPPORTED",
               "SCHEMA_VIOLATION"}

SchemaIssues(d) ==
    CASE d.version = "unsupported" -> {"SCHEMA_VERSION_UNSUPPORTED"}
      [] d.version = "missing" -> {"SCHEMA_VERSION_MISSING", "SCHEMA_VIOLATION"}
      [] OTHER -> When(~d.fits, "SCHEMA_VIOLATION")

BoundaryIssues_mutant(b) ==      \* mutant: restricted outputs are overlooked
    When(b.ready /\ b.gates # 0, "DECISION_READY_OPEN_GATES")
BoundaryIssues(b) ==
    When(b.ready /\ b.gates # 0, "DECISION_READY_OPEN_GATES")
    \cup When(b.ready /\ b.restricted # {}, "DECISION_READY_RESTRICTED_OUTPUTS")

ObjectIssues(d) ==
    IF SchemaIssues(d) # {} THEN SchemaIssues(d) ELSE BoundaryIssues(d.boundaries)
-----------------------------------------------------------------------------
AllEqual(x, y, z) == x = y /\ y = z

AgreementIssues(s, l, v) ==
    When(s.project # l.project \/ s.project # v.project,
         "CONTRACT_PROJECT_ID_MISMATCH")
    \cup When(s.status # l.status, "CONTRACT_STATUS_MISMATCH")
    \cup When(s.class # l.class, "CONTRACT_PRODUCT_CLASS_MISMATCH")
    \cup When(s.next # l.next, "CONTRACT_NEXT_MISMATCH")
    \cup LET a == s.boundaries
             b == l.boundaries
             c == v.boundaries
         IN When(~AllEqual(a.gates, b.gates, c.gates),
                 "CONTRACT_GATE_COUNT_MISMATCH")
            \cup When(~AllEqual(a.restricted, b.restricted, c.restricted),
                      "CONTRACT_RESTRICTED_OUTPUTS_MISMATCH")
            \cup When(~AllEqual(a.ready, b.ready, c.ready),
                      "CONTRACT_DECISION_READY_MISMATCH")

FinalIssues(s) ==
    LET b == s.boundaries
        final == s.class = "FINAL_FULL_DD"
    IN When(final /\ b.gates # 0, "FINAL_DD_OPEN_GATES")
       \cup When(final /\ b.restricted # {}, "FINAL_DD_RESTRICTED_OUTPUTS")
       \cup When(final /\ ~b.ready, "FINAL_DD_NOT_DECISION_READY")

ContractIssues(c) ==
    LET own == ObjectIssues(c.state) \cup ObjectIssues(c.lock)
               \cup ObjectIssues(c.validation)
    IN IF own \cap Structural # {} THEN own
       ELSE own \cup AgreementIssues(c.state, c.lock, c.validation)
            \cup FinalIssues(c.state)
-----------------------------------------------------------------------------
(* docs/schema-contracts.md: the three "must agree on project identity,    *)
(* critical gates, restricted outputs and decision readiness"; decision    *)
(* readiness "requires zero open critical gates and no restricted outputs" *)
(* and FINAL_FULL_DD "additionally requires decision_ready=true".          *)
Coherent(c) ==
    LET s == c.state
        l == c.lock
        v == c.validation
    IN /\ \A k \in {"state", "lock", "validation"} : c[k].version = "1.0.0" /\ c[k].fits
       /\ s.project = l.project /\ s.project = v.project
       /\ s.boundaries = l.boundaries /\ s.boundaries = v.boundaries
       /\ s.status = l.status /\ s.class = l.class /\ s.next = l.next
       /\ s.boundaries.ready => s.boundaries.gates = 0 /\ s.boundaries.restricted = {}
       /\ s.class = "FINAL_FULL_DD" => s.boundaries.ready
=============================================================================
