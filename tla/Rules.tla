------------------------------- MODULE Rules -------------------------------
(***************************************************************************)
(* The shape every check of the protocol has: an ordered list of rules,    *)
(* each of which reports a reason when it fails, and the first reason is   *)
(* the verdict.  The code writes it as a chain of                          *)
(* "if (bad) return reason" statements.                                    *)
(***************************************************************************)
EXTENDS Naturals, Sequences

(* What one rule reports. *)
Rule(reason, ok) == IF ok THEN "ok" ELSE reason

(* No early return was taken. *)
Passes(rules) == \A k \in DOMAIN rules : rules[k] = "ok"

(* The reason of the first rule that fails; meaningful only if one does. *)
FirstFailure(rules) ==
  LET Failed(k) == rules[k] # "ok"
  IN  rules[CHOOSE k \in DOMAIN rules :
              Failed(k) /\ \A j \in DOMAIN rules : Failed(j) => k <= j]

(* "ok" or the reason, for callers that report a single verdict. *)
Verdict(rules) == IF Passes(rules) THEN "ok" ELSE FirstFailure(rules)
=============================================================================
