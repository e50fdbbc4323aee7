---------------------------- MODULE MigrationLog ----------------------------
(***************************************************************************)
(* What numbered migrations promise of a schema: each change is made once, *)
(* and never before the changes with lower numbers.                        *)
(***************************************************************************)
EXTENDS Naturals

CONSTANT Versions
VARIABLE effects  \* how often each migration's change has been made

Init == effects \in [Versions -> {0, 1}]

Apply(v) ==
    /\ effects[v] = 0
    /\ \A w \in Versions : w < v => effects[w] = 1
    /\ effects' = [effects EXCEPT ![v] = 1]

Next == \E v \in Versions : Apply(v)

Spec == Init /\ [][Next]_effects
=============================================================================
