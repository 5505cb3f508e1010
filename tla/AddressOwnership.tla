-------------------------- MODULE AddressOwnership --------------------------
(***************************************************************************)
(* What the address book of a network promises, without saying how: every  *)
(* address has at most one owner, and it never passes from one owner       *)
(* straight to another, it is given back first.  One step may give back    *)
(* any number of addresses and claim one free address for one owner.  The  *)
(* promise is for one life of the server process.                          *)
(***************************************************************************)
CONSTANTS Address, Owner, Nobody

VARIABLE owner   \* address -> its owner, or Nobody

Init == owner \in [Address -> Owner \cup {Nobody}]

GiveBack(A) == [a \in Address |-> IF a \in A THEN Nobody ELSE owner[a]]

Release == \E A \in SUBSET Address : owner' = GiveBack(A)

Claim(a, o) ==
    /\ owner[a] = Nobody
    /\ \E A \in SUBSET Address : owner' = [GiveBack(A) EXCEPT ![a] = o]

Next == Release \/ \E a \in Address, o \in Owner : Claim(a, o)

Spec == Init /\ [][Next]_owner

=============================================================================
