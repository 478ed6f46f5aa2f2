----------------------------- MODULE Directory -----------------------------
(***************************************************************************)
(* What registration promises, with no requests, tables or event loop: at  *)
(* any time a username and an address belong to at most one account, and   *)
(* they are free again only when the account that has them is deleted.     *)
(***************************************************************************)
CONSTANTS Names, Addresses

VARIABLE accounts   \* name and address of every account that is not deleted

Free(name, address) ==
    \A a \in accounts : a.name # name /\ a.address # address

Init == accounts = {}

Claim(name, address) ==
    /\ Free(name, address)
    /\ accounts' = accounts \cup {[name |-> name, address |-> address]}

Release(a) == accounts' = accounts \ {a}

Next ==
    \/ \E name \in Names, address \in Addresses : Claim(name, address)
    \/ \E a \in accounts : Release(a)

Spec == Init /\ [][Next]_accounts
=============================================================================
