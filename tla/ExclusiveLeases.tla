--------------------------- MODULE ExclusiveLeases ---------------------------
(***************************************************************************)
(* What an engine pool promises, with no stack, permit or queue: a client  *)
(* that asked may come to own one engine nobody owns, and gives it back.   *)
(***************************************************************************)
CONSTANTS Clients, Engines

VARIABLES
    wants,    \* clients that asked for an engine and have no answer yet
    owns      \* the pairs <<client, engine>> of the leases that exist

Init == wants = {} /\ owns = {}

Ask(c) ==
    /\ c \notin wants
    /\ \A e \in Engines : <<c, e>> \notin owns
    /\ wants' = wants \cup {c}
    /\ UNCHANGED owns

Withdraw(c) ==
    /\ c \in wants
    /\ wants' = wants \ {c}
    /\ UNCHANGED owns

Grant(c, e) ==
    /\ c \in wants
    /\ \A d \in Clients : <<d, e>> \notin owns
    /\ wants' = wants \ {c}
    /\ owns' = owns \cup {<<c, e>>}

GiveBack(c, e) ==
    /\ <<c, e>> \in owns
    /\ owns' = owns \ {<<c, e>>}
    /\ UNCHANGED wants

Next ==
    \E c \in Clients :
        \/ Ask(c)
        \/ Withdraw(c)
        \/ \E e \in Engines : Grant(c, e) \/ GiveBack(c, e)

Spec == Init /\ [][Next]_<<wants, owns>>
=============================================================================
