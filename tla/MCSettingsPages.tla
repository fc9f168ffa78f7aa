--------------------------- MODULE MCSettingsPages ---------------------------
(***************************************************************************)
(* A small instance of SettingsPages for TLC: two cases, two suites, two   *)
(* rules, two paths, a password.                                           *)
(***************************************************************************)
EXTENDS SettingsPages

CONSTANTS c1, c2, s1, s2, r1, r2, disk, iso, secret, tuned

SmallSuites == {[n \in {s1, s2} |-> IF n = s1 THEN [c \in {c1, c2} |-> "DENY"]
                                    ELSE [c \in {c2} |-> "ALLOW"]]}
SmallRules  == {<<r1, r2>>}
SmallConfig == {[path |-> [f \in Files |-> Unset], password |-> Unset, other |-> tuned]}
==============================================================================
