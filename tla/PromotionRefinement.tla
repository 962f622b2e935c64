------------------------ MODULE PromotionRefinement ------------------------
(***************************************************************************)
(* PromotionEngine implements AcceptedReleases.  The commit point is the   *)
(* unlink of active.json: while a transaction is open, what is accepted is *)
(* what its journal would restore, the release it is installing is not yet *)
(* accepted, and its record in the history does not count yet.             *)
(***************************************************************************)
EXTENDS PromotionEngine

OpenPromotion(r) == active # None /\ active.op = "PROMOTE" /\ active.target = r
OpenTx(t) == active # None /\ active.tx = t

AcceptedStore ==
    [r \in Release |-> IF OpenPromotion(r) THEN None ELSE releases[r]]
AcceptedOutcome ==
    [t \in Tx |-> IF OpenTx(t) THEN None ELSE history[t]]

Promised == INSTANCE AcceptedReleases WITH
    store <- AcceptedStore,
    current <- Accepted.current,
    lastSuccess <- Accepted.lastSuccess,
    superseded <- {e.release : e \in Accepted.archive},
    outcome <- AcceptedOutcome

(* Every call, whatever fails in it, in another call or in recovery, takes *)
(* effect as one atomic promotion, rollback or abandoned transaction.      *)
CallsAreAtomic == Promised!Spec
=============================================================================
