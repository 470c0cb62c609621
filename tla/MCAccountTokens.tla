--------------------------- MODULE MCAccountTokens ---------------------------
(* One instance of the accounts for TLC: tokens or sessions. *)
EXTENDS AccountTokens, TLC

CONSTANT MaxSessions  \* bound on the sessions made when part is "sessions"

VARIABLE part

Init == AInit /\ part \in {"tokens", "sessions"}
Next ==
    /\ \/ part = "tokens" /\ TokenNext
       \/ part = "sessions" /\ SessionNext /\ Cardinality(DOMAIN owner') <= MaxSessions
    /\ UNCHANGED part
Spec == Init /\ [][Next]_<<avars, part>>

AnyUser == Permutations(Users)
=============================================================================
