-------------------------- MODULE AcceptedReleases -------------------------
(***************************************************************************)
(* What the promotion engine promises, without files, locks or journals:   *)
(* a store of immutable releases, one of which is current, and a record of *)
(* how every transaction ended.  A transaction happens at once or not at   *)
(* all, and its record says which.                                         *)
(***************************************************************************)
CONSTANTS Release, Tx, Content, None

VARIABLES
    store,        \* the content of every accepted release
    current,      \* the pointer to the release in use
    lastSuccess,  \* the pointer to the release last accepted
    superseded,   \* accepted releases that are not in use: the archive
    outcome       \* the record of every ended transaction

acceptedVars == <<store, current, lastSuccess, superseded, outcome>>

Init ==
    /\ store = [r \in Release |-> None]
    /\ current = None /\ lastSuccess = None /\ superseded = {}
    /\ outcome = [t \in Tx |-> None]

InUse == IF current = None THEN {} ELSE {current.release}

Record(t, status) ==
    /\ outcome[t] = None
    /\ outcome' = [outcome EXCEPT ![t] = status]

PointTo(t, r, c) ==
    /\ current' = [release |-> r, digest |-> c, tx |-> t]
    /\ lastSuccess' = current'
    /\ superseded' = (superseded \cup InUse) \ {r}

(* A promotion that succeeds. *)
Promote(t, r, c) ==
    /\ store[r] = None
    /\ store' = [store EXCEPT ![r] = c]
    /\ PointTo(t, r, c)
    /\ Record(t, "COMMITTED")

(* A manual rollback that succeeds: to a superseded release, which stays as *)
(* it was accepted.                                                         *)
Rollback(t, r) ==
    /\ r \in superseded
    /\ PointTo(t, r, store[r])
    /\ Record(t, "COMMITTED")
    /\ UNCHANGED store

(* A transaction that fails leaves a record and nothing else. *)
Abandon(t) ==
    /\ \E status \in {"ROLLED_BACK", "RECOVERED"} : Record(t, status)
    /\ UNCHANGED <<store, current, lastSuccess, superseded>>

Next ==
    \E t \in Tx :
        \/ \E r \in Release, c \in Content : Promote(t, r, c)
        \/ \E r \in Release : Rollback(t, r)
        \/ Abandon(t)

Spec == Init /\ [][Next]_acceptedVars
=============================================================================
