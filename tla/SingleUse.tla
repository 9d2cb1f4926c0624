------------------------------ MODULE SingleUse ------------------------------
(* What the Nonce program promises to whoever signs a message that names a     *)
(* nonce value: an account holds at most one value at a time, a value leaves   *)
(* the account for good, and no value is ever issued twice, on any account.    *)
(* Nonce implements this specification.                                        *)
CONSTANTS Holder,    \* the accounts that can hold a value
          NoValue    \* what an account without a nonce holds

VARIABLES current,   \* the value each holder stores, or NoValue
          spent      \* every value that was current once and no longer is

vars == <<current, spent>>

Init == /\ current = [h \in Holder |-> NoValue]
        /\ spent = {}

Fresh(v) == v \notin spent /\ \A h \in Holder : current[h] # v

\* A holder without a value is given one that nobody has seen.
Issue(h) ==
    /\ current[h] = NoValue
    /\ Fresh(current'[h])
    /\ current' = [current EXCEPT ![h] = current'[h]]
    /\ UNCHANGED spent

\* The value is consumed and an unseen one takes its place.
Replace(h) ==
    /\ current[h] # NoValue
    /\ current'[h] # NoValue
    /\ Fresh(current'[h])
    /\ current' = [current EXCEPT ![h] = current'[h]]
    /\ spent' = spent \cup {current[h]}

\* The holder gives its value up.
Drop(h) ==
    /\ current[h] # NoValue
    /\ current' = [current EXCEPT ![h] = NoValue]
    /\ spent' = spent \cup {current[h]}

Next == \E h \in Holder : Issue(h) \/ Replace(h) \/ Drop(h)

Spec == Init /\ [][Next]_vars
==============================================================================
