---------------------------- MODULE DeletionPage ----------------------------
(***************************************************************************)
(* AccountDeletionTemplate with IdentityVerificationCard and               *)
(* DeleteConfirmationModal: the password is verified by a new login, then  *)
(* the deletion is requested and confirmed with the emailed code.  Request *)
(* and confirmation read the token anew from localStorage.                 *)
(***************************************************************************)
EXTENDS SignInPages

OnStep(t, step) == page[t] = "delete-account" /\ form[t].step = step

SetStep(t, step) ==
    /\ form' = [form EXCEPT ![t].step = step]
    /\ UNCHANGED <<serverVars, stored, page, job, proven, faults>>

\* While there is no profile, because the answer is out or a refusal, each render
\* reads the email of the session that localStorage holds by then.
Renew(t) ==
    /\ OnStep(t, "prove")
    /\ stored # 0
    /\ form' = [form EXCEPT ![t].who = Viewer("delete-account", stored)]
    /\ UNCHANGED <<serverVars, stored, page, job, proven, faults>>

\* IdentityVerificationCard: login with the email of the page.
Prove_Submit(t) ==
    /\ OnStep(t, "prove")
    /\ Ready(t)
    /\ SetBusy(t)
    /\ PostJson(t, "reverify", form[t].who)
    /\ UNCHANGED <<serverVars, stored, page, proven, faults>>

\* setSession replaces the session; onVerified opens the next card.
Prove_Accepted(j) ==
    /\ Resumes(j, "reverify", {"ok"})
    /\ stored' = job[j].key
    /\ proven' = proven \cup {job[j].who}
    /\ Show(j, "card")
    /\ job' = Free(j)
    /\ UNCHANGED <<serverVars, page, faults>>

\* Variant: the result of the login is not looked at.
Prove_Waved(j) ==
    /\ Resumes(j, "reverify", {"refused", "failed"})
    /\ Show(j, "card")
    /\ job' = Free(j)
    /\ UNCHANGED <<serverVars, stored, page, proven, faults>>

Prove_Rejected(j) ==
    /\ Resumes(j, "reverify", {"refused", "failed"})
    /\ Show(j, "prove")
    /\ job' = Free(j)
    /\ UNCHANGED <<serverVars, stored, page, proven, faults>>

\* "Delete", once the box is ticked; the modal closes unless a request is running.
OpenModal(t) == OnStep(t, "card") /\ SetStep(t, "modal")
CloseModal(t) == OnStep(t, "modal") /\ Ready(t) /\ SetStep(t, "card")

\* A call with the token of this moment; without one, the login page.
SendWithSession(t, kind) ==
    /\ IF stored = 0
         THEN Navigate(t, "login", "nobody", 0, job)
         ELSE SetBusy(t) /\ AuthPostJson(t, kind) /\ UNCHANGED page
    /\ UNCHANGED <<serverVars, stored, proven, faults>>

Request_Submit(t) == OnStep(t, "modal") /\ Ready(t) /\ SendWithSession(t, "request")
Confirm_Submit(t) == OnStep(t, "code") /\ Ready(t) /\ SendWithSession(t, "confirm")

Request_Accepted(j) ==
    /\ Resumes(j, "request", {"ok"})
    /\ Show(j, "code")
    /\ job' = Free(j)
    /\ UNCHANGED <<serverVars, stored, page, proven, faults>>

Request_Refused(j) ==
    /\ Resumes(j, "request", {"refused"})
    /\ Show(j, "modal")
    /\ job' = Free(j)
    /\ UNCHANGED <<serverVars, stored, page, proven, faults>>

\* clearSession, then the last screen.
Confirm_Accepted(j) ==
    /\ Resumes(j, "confirm", {"ok"})
    /\ stored' = 0
    /\ Show(j, "deleted")
    /\ job' = Free(j)
    /\ UNCHANGED <<serverVars, page, proven, faults>>

Confirm_Refused(j) ==
    /\ Resumes(j, "confirm", {"refused"})
    /\ Show(j, "code")
    /\ job' = Free(j)
    /\ UNCHANGED <<serverVars, stored, page, proven, faults>>

\* The rejection of request or confirmation is caught nowhere: `requesting` or
\* `confirming` stays true.
Deletion_Unanswered(j) ==
    /\ Resumes(j, "request", {"failed"}) \/ Resumes(j, "confirm", {"failed"})
    /\ job' = Free(j)
    /\ UNCHANGED <<serverVars, stored, page, form, proven, faults>>

\* AccountDeletedScreen leads to the landing page.
Deleted_Home(t) == OnStep(t, "deleted") /\ GoTo(t, "landing")

Deletion(t) ==
    \/ Renew(t)
    \/ Prove_Submit(t)
    \/ OpenModal(t)
    \/ CloseModal(t)
    \/ Request_Submit(t)
    \/ Confirm_Submit(t)
    \/ Deleted_Home(t)

Deletion_Resume(j) ==
    \/ Prove_Accepted(j)
    \/ Prove_Rejected(j)
    \/ Request_Accepted(j)
    \/ Request_Refused(j)
    \/ Confirm_Accepted(j)
    \/ Confirm_Refused(j)
    \/ Deletion_Unanswered(j)
=============================================================================
