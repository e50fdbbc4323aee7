--------------------------- MODULE SingleUseLinks ---------------------------
(***************************************************************************)
(* What the verification_tokens table promises of the links mailed to      *)
(* people: a link is minted once, and then either one request redeems it   *)
(* or it is retired, once and for all.                                     *)
(***************************************************************************)
CONSTANTS
    Link,     \* link tokens
    Request   \* the requests that may redeem one

VARIABLES
    state,    \* state[l]: how far link l has come
    winners   \* winners[l]: the requests that redeemed it

vars == <<state, winners>>

Init ==
    /\ state \in [Link -> {"unissued", "live"}]
    /\ winners = [l \in Link |-> {}]

Mint(l) ==
    /\ state[l] = "unissued"
    /\ state' = [state EXCEPT ![l] = "live"]
    /\ UNCHANGED winners

Redeem(l, r) ==
    /\ state[l] = "live"
    /\ state' = [state EXCEPT ![l] = "spent"]
    /\ winners' = [winners EXCEPT ![l] = {r}]

\* A link can be retired without anybody having won it.
Retire(S) ==
    /\ state' = [l \in Link |-> IF l \in S THEN "spent" ELSE state[l]]
    /\ UNCHANGED winners

Next ==
    \/ \E l \in Link : Mint(l) \/ \E r \in Request : Redeem(l, r)
    \/ \E S \in SUBSET {l \in Link : state[l] = "live"} : Retire(S)

Spec == Init /\ [][Next]_vars

=============================================================================
