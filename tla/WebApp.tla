------------------------------- MODULE WebApp -------------------------------
(***************************************************************************)
(* The pages together: any tab at any time, answers in any order.          *)
(***************************************************************************)
EXTENDS SignUpPages, DeletionPage

User(t) ==
    \/ Leave(t)
    \/ FollowLink(t)
    \/ FollowAnchor(t)
    \/ SignIn(t)
    \/ SignUp(t)
    \/ Deletion(t)

Continue(j) == SignIn_Resume(j) \/ SignUp_Resume(j) \/ Deletion_Resume(j)

Next ==
    \/ \E t \in Tabs : User(t) \/ Countdown(t)
    \/ \E j \in Jobs : Serve(j) \/ Lose(j) \/ Forget(j) \/ Continue(j)

Spec == Init /\ [][Next]_vars

-----------------------------------------------------------------------------
\* Pages, their state, pending calls and the server's tables are of their types; a
\* deletion page, and each call that is not a timer, has its account.
TypeOK ==
    /\ standing \in [Accounts -> {"none", "pending", "active", "deleted"}]
    /\ session \in Seq([account : Accounts, live : BOOLEAN])
    /\ Len(session) <= MaxSessions
    /\ requested \subseteq Accounts
    /\ stored \in 0..Len(session)
    /\ page \in [Tabs -> Pages]
    /\ form \in [Tabs -> [step : Steps, busy : BOOLEAN, who : Accounts \cup {"nobody"}]]
    /\ job \in [Jobs -> Job \cup {NoJob}]
    /\ \A t \in Tabs : page[t] = "delete-account" => form[t].who \in Accounts
    /\ \A j \in Jobs :
         Pending(j) => /\ job[j].key <= Len(session)
                       /\ job[j].kind \notin {"resend", "redirect"} => job[j].who \in Accounts
    /\ proven \subseteq Accounts
    /\ faults \in 0..MaxFaults

FormKinds == {"register", "verify", "login", "reverify", "request", "confirm"}

Running(t) ==
    {j \in Jobs : Pending(j) /\ job[j].tab = t /\ job[j].tie = "form"
                             /\ job[j].kind \in FormKinds}

\* A form that is shown has one call under way at most, whatever is pressed, and
\* shows as busy while it has.
OneCallPerForm ==
    \A t \in Tabs : /\ Cardinality(Running(t)) <= 1
                    /\ Running(t) # {} => form[t].busy

\* No form stays disabled: one that is busy awaits a call, whose handler enables it
\* again.  Only the deletion page, which catches no rejection, can stay so, after a
\* call that got no answer.
BusyFormsAwait ==
    \A t \in Tabs :
        form[t].busy => \/ Running(t) # {}
                        \/ faults > 0 /\ form[t].step \in {"modal", "code"}

\* With one tab, a signed-in page is shown without a session only when a deletion
\* was confirmed: nothing else ends the session but a logout, which also leaves the
\* page, whatever was opened before its answer came.  A refusal leaves both.
ProtectedNeedsSession ==
    \A t \in Tabs :
        page[t] \in Protected /\ stored = 0 => \E a \in Accounts : standing[a] = "deleted"

\* With one tab, no account is deleted whose password the deletion page has not
\* verified (IdentityVerificationCard.tsx:38), late answers and repeated visits
\* included.
DeletesOnlyProven ==
    \A a \in Accounts : standing[a] = "deleted" => a \in proven

\* The deletion page acts for the account whose password it has just verified:
\* "Re-verify the current password against the real login endpoint before allowing
\* a destructive action." (IdentityVerificationCard.tsx:38)
DeletionMatchesProof ==
    \A j \in Jobs :
        Pending(j) /\ job[j].kind \in {"request", "confirm"} /\ job[j].tie = "form"
            => job[j].who = form[job[j].tab].who

\* A pending account whose id no page shows and no answer brings: it cannot be
\* verified, and its name and address are taken.
Stranded(a) ==
    /\ standing[a] = "pending"
    /\ \A t \in Tabs : ~(page[t] = "verify-otp" /\ form[t].who = a)
    /\ \A j \in Jobs :
         ~ /\ Pending(j)
           /\ job[j].kind = "register" /\ job[j].state = "ok"
           /\ job[j].who = a /\ job[j].tie # "none"

\* No handler loses a new account: that takes the user leaving the page or following
\* an anchor of it ("Skip to main content", the links of the footer), a lost answer,
\* a request that outlives its document, the late answer to a page that was left, or
\* the redirect of a verification whose page such an answer took over.
StrandedOnlyByLeaving ==
    [][\A a \in Accounts :
         ~Stranded(a) /\ Stranded(a)' =>
            \/ \E t \in Tabs : Leave(t) \/ FollowAnchor(t) \/ Verify_GoBack(t)
            \/ \E j \in Jobs : Lose(j)
            \/ \E j \in Jobs : /\ Pending(j)
                              /\ (job[j].tie # "form" \/ job[j].kind = "redirect")
                              /\ job'[j] # job[j]]_vars
=============================================================================
