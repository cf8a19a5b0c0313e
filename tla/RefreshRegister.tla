-------------------------- MODULE RefreshRegister --------------------------
(***************************************************************************)
(* What the session store promises, with no requests, tokens or clock in   *)
(* sight.  A slot (one account's session at one client) is held by at most *)
(* one refresh token.  A token a client was given takes a slot it was      *)
(* issued for by being granted it; a token no client has seen takes the    *)
(* slot only in exchange for the one that holds it; nothing else ever      *)
(* fills a slot, and a slot may be emptied at any time.                    *)
(***************************************************************************)
CONSTANTS Slots, Tokens, None

VARIABLES
    issued,   \* issued[t]: the slot the token was minted for, or None
    public,   \* the tokens some client was given
    holder    \* holder[s]: the one token that can renew, or None

rvars == <<issued, public, holder>>

Init ==
    /\ issued = [t \in Tokens |-> None]
    /\ public = {}
    /\ holder = [s \in Slots |-> None]

(* A token is minted, and given away at once or kept for an exchange.      *)
Issue(t, s) ==
    /\ issued[t] = None
    /\ issued' = [issued EXCEPT ![t] = s]
    /\ public' \in {public, public \cup {t}}
    /\ UNCHANGED holder

(* A minted token that was never handed out is forgotten.                  *)
Withdraw(t) ==
    /\ t \notin public
    /\ \A s \in Slots : holder[s] # t
    /\ issued' = [issued EXCEPT ![t] = None]
    /\ UNCHANGED <<public, holder>>

(* The client acknowledges a token of the slot.                            *)
Grant(s, t) ==
    /\ t \in public
    /\ issued[t] = s
    /\ holder' = [holder EXCEPT ![s] = t]
    /\ UNCHANGED <<issued, public>>

(* A renewal trades the token that holds the slot for a new one, which the *)
(* client receives, or never does.                                         *)
Exchange(s, old, new) ==
    /\ old \in public /\ holder[s] = old
    /\ new \notin public /\ issued[new] = s
    /\ holder' = [holder EXCEPT ![s] = new]
    /\ public' \in {public, public \cup {new}}
    /\ UNCHANGED issued

End(S) ==
    /\ holder' = [s \in Slots |-> IF s \in S THEN None ELSE holder[s]]
    /\ UNCHANGED <<issued, public>>

Next ==
    \/ \E t \in Tokens, s \in Slots : Issue(t, s)
    \/ \E t \in Tokens : Withdraw(t)
    \/ \E s \in Slots, t \in Tokens : Grant(s, t)
    \/ \E s \in Slots, old, new \in Tokens : Exchange(s, old, new)
    \/ \E S \in SUBSET Slots : End(S)

Spec == Init /\ [][Next]_rvars
=============================================================================
