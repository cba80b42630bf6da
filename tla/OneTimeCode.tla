----------------------------- MODULE OneTimeCode -----------------------------
(***************************************************************************)
(* What contact verification promises: a code belongs to one account, an   *)
(* account has one open code at a time, an open code is spent once or      *)
(* dies, and a spent code has opened one session, which ends for good.     *)
(* Nothing here says how: no attempts, resends, deliveries or requests.    *)
(***************************************************************************)
CONSTANTS Codes, Accounts, None

VARIABLES
    holder,   \* holder[c]: the account the code was issued to, or None
    phase,    \* phase[c]: "unissued", "open", "spent" or "dead"
    session   \* session[c]: the session the code opened: "none", "open" or "ended"

vars == <<holder, phase, session>>

Init ==
    /\ holder = [c \in Codes |-> None]
    /\ phase = [c \in Codes |-> "unissued"]
    /\ session = [c \in Codes |-> "none"]

(* A new code takes the place of the open one. *)
Issue(c, a) ==
    /\ phase[c] = "unissued"
    /\ holder' = [holder EXCEPT ![c] = a]
    /\ phase' = [d \in Codes |->
                    IF d = c THEN "open"
                    ELSE IF phase[d] = "open" /\ holder[d] = a THEN "dead" ELSE phase[d]]
    /\ UNCHANGED session

Die(c) ==
    /\ phase[c] = "open"
    /\ phase' = [phase EXCEPT ![c] = "dead"]
    /\ UNCHANGED <<holder, session>>

Spend(c) ==
    /\ phase[c] = "open"
    /\ session[c] = "none"
    /\ phase' = [phase EXCEPT ![c] = "spent"]
    /\ session' = [session EXCEPT ![c] = "open"]
    /\ UNCHANGED holder

End(c) ==
    /\ session[c] = "open"
    /\ session' = [session EXCEPT ![c] = "ended"]
    /\ UNCHANGED <<holder, phase>>

Next ==
    \E c \in Codes :
        \/ \E a \in Accounts : Issue(c, a)
        \/ Die(c)
        \/ Spend(c)
        \/ End(c)

Spec == Init /\ [][Next]_vars

==============================================================================
