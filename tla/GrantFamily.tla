---------------------------- MODULE GrantFamily ----------------------------
(***************************************************************************)
(* What the provider promises about refresh tokens.  A grant starts with   *)
(* one refresh token and moves from token to token; it has at most one at  *)
(* a time, a token serves once in its life, and a grant that has ended     *)
(* never starts again.  A grant is named by its first token.               *)
(***************************************************************************)
CONSTANTS Tokens, None, Moving

VARIABLES
    tip,    \* the token a grant stands at, Moving during an exchange, None without a grant
    seen    \* every token handed out so far

gvars == <<tip, seen>>

Init ==
    /\ tip = [g \in Tokens |-> None]
    /\ seen = {}

Open(g) ==
    /\ g \notin seen
    /\ tip' = [tip EXCEPT ![g] = g]
    /\ seen' = seen \cup {g}

Take(g) ==
    /\ tip[g] \in Tokens
    /\ tip' = [tip EXCEPT ![g] = Moving]
    /\ UNCHANGED seen

Pass(g, t) ==
    /\ tip[g] = Moving
    /\ t \notin seen
    /\ tip' = [tip EXCEPT ![g] = t]
    /\ seen' = seen \cup {t}

End(G) ==
    /\ tip' = [g \in Tokens |-> IF g \in G THEN None ELSE tip[g]]
    /\ UNCHANGED seen

Next ==
    \/ \E g \in Tokens : Open(g) \/ Take(g)
    \/ \E g, t \in Tokens : Pass(g, t)
    \/ \E G \in SUBSET Tokens : End(G)

Spec == Init /\ [][Next]_gvars
=============================================================================
