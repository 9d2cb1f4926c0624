---------------------------- MODULE AuthorizedOnce ----------------------------
(* What the three programs promise together to the holders of cold keys.       *)
(* Messages are offered; each competes for one ticket (its nonce value) and     *)
(* needs the approval of certain keys (the authorities whose programmatic       *)
(* signers it uses).  Messages are performed at most once, at most one per      *)
(* ticket, and only with every approval they need.  Approvals are never used up *)
(* or withdrawn: only performing a message for the same ticket disarms them.    *)
EXTENDS Naturals, Sequences

VARIABLES offered,     \* a sequence of [ticket, needs]: the messages, by number
          approved,    \* pairs of a key and the number of a message it approved
          performed    \* the numbers of the messages performed

vars == <<offered, approved, performed>>

Init == offered = <<>> /\ approved = {} /\ performed = {}

Offer == /\ Len(offered') = Len(offered) + 1
         /\ \A m \in DOMAIN offered : offered'[m] = offered[m]
         /\ UNCHANGED <<approved, performed>>

Approve == /\ approved \subseteq approved'
           /\ UNCHANGED <<offered, performed>>

Consented(m) == \A k \in offered[m].needs : <<k, m>> \in approved

\* A transaction performs a batch of messages, or none.
Perform ==
    LET batch == performed' \ performed
    IN  /\ performed \subseteq performed'
        /\ \A m \in batch : Consented(m)
        /\ \A m \in batch : \A k \in performed' \ {m} : offered[m].ticket # offered[k].ticket
        /\ UNCHANGED <<offered, approved>>

Next == Offer \/ Approve \/ Perform

Spec == Init /\ [][Next]_vars
==============================================================================
