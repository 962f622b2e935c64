------------------------------ MODULE Reports ------------------------------
(* Validators return the set of codes they report; here is one report.     *)
When(condition, code) == IF condition THEN {code} ELSE {}
=============================================================================
