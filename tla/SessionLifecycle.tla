-------------------------- MODULE SessionLifecycle --------------------------
(***************************************************************************)
(* What the API promises about the sessions of one account, with no event  *)
(* loop, tables or clock: a session is usable from its issue until it      *)
(* ends, and never again; while the account is not open none is usable,    *)
(* and a closed account never opens again.                                 *)
(***************************************************************************)
CONSTANT Sessions

VARIABLES
    phase,   \* of each session: "unissued", "usable" or "over"
    open     \* the account can be used

vars == <<phase, open>>

Usable == {s \in Sessions : phase[s] = "usable"}

Init ==
    /\ phase \in [Sessions -> {"unissued", "usable"}]
    /\ open = TRUE

\* A login issues a session; if the account was closed meanwhile, the session
\* is over before anyone uses it.
Issue(s) ==
    /\ phase[s] = "unissued"
    /\ phase' = [phase EXCEPT ![s] = IF open THEN "usable" ELSE "over"]
    /\ UNCHANGED open

\* Logout, expiry, password reset.
End(ended) ==
    /\ phase' = [s \in Sessions |-> IF s \in ended THEN "over" ELSE phase[s]]
    /\ UNCHANGED open

\* Deletion or suspension: every usable session ends in the same step.
Close ==
    /\ open
    /\ open' = FALSE
    /\ phase' = [s \in Sessions |-> IF s \in Usable THEN "over" ELSE phase[s]]

Next ==
    \/ \E s \in Sessions : Issue(s)
    \/ \E ended \in SUBSET Usable : End(ended)
    \/ Close

Spec == Init /\ [][Next]_vars
=============================================================================
