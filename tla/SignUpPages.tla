---------------------------- MODULE SignUpPages ----------------------------
(***************************************************************************)
(* RegistrationForm and OtpVerificationForm.  The id of a new account goes *)
(* from one page to the other in the state of the route, nowhere else.     *)
(* After a verification a timer of two seconds moves the user on; it is    *)
(* not cleared when the page is left.                                      *)
(***************************************************************************)
EXTENDS SignInPages

\* "Sign In" of the registration form leads to the landing page.
Register_SignIn(t) == page[t] = "register" /\ GoTo(t, "landing")

\* "Go back", until the banner replaces the form.
Verify_GoBack(t) ==
    page[t] = "verify-otp" /\ form[t].step # "done" /\ GoTo(t, "register")

Register_Submit(t, who) ==
    /\ page[t] = "register"
    /\ Ready(t)
    /\ SetBusy(t)
    /\ PostJson(t, "register", who)
    /\ UNCHANGED <<serverVars, stored, page, proven, faults>>

\* Variant: the id is not handed to the next page.
Register_AcceptedForgetting(j) ==
    /\ Resumes(j, "register", {"ok"})
    /\ Navigate(job[j].tab, "verify-otp", "nobody", stored, Free(j))
    /\ UNCHANGED <<serverVars, stored, proven, faults>>

\* 201: navigate("/verify-otp") with the id, also when the page was left meanwhile.
Register_Accepted(j) ==
    /\ Resumes(j, "register", {"ok"})
    /\ Navigate(job[j].tab, "verify-otp", job[j].who, stored, Free(j))
    /\ UNCHANGED <<serverVars, stored, proven, faults>>

\* Field errors (422, 409) or a message.
Register_Rejected(j) ==
    /\ Resumes(j, "register", {"refused", "failed"})
    /\ Show(j, "enter")
    /\ job' = Free(j)
    /\ UNCHANGED <<serverVars, stored, page, proven, faults>>

-----------------------------------------------------------------------------
\* The field for the digits takes input.
FieldEnabled(t) == form[t].step # "done" /\ Ready(t)

\* Six digits are in, or the button is pressed.  Without an id there is only the
\* message "We couldn't find your registration."
Verify_Submit(t) ==
    /\ page[t] = "verify-otp"
    /\ FieldEnabled(t)
    /\ form[t].who # "nobody"
    /\ SetBusy(t)
    /\ PostJson(t, "verify", form[t].who)
    /\ UNCHANGED <<serverVars, stored, page, proven, faults>>

\* The banner shows, and the timer to the dashboard starts.
Verify_Accepted(j) ==
    /\ Resumes(j, "verify", {"ok"})
    /\ Show(j, "done")
    /\ job' = [job EXCEPT ![j].kind = "redirect", ![j].who = "nobody",
                          ![j].state = "delayed"]
    /\ UNCHANGED <<serverVars, stored, page, proven, faults>>

Verify_Rejected(j) ==
    /\ Resumes(j, "verify", {"refused", "failed"})
    /\ Show(j, form[job[j].tab].step)
    /\ job' = Free(j)
    /\ UNCHANGED <<serverVars, stored, page, proven, faults>>

\* setTimeout(() => navigate("/dashboard"), 2000): with no session stored,
\* RequireAuth shows the login page.
Redirect(j) ==
    /\ Resumes(j, "redirect", {"delayed"})
    /\ Navigate(job[j].tab, "dashboard", "nobody", stored, Free(j))
    /\ UNCHANGED <<serverVars, stored, proven, faults>>

\* The 800 ms of a click on "Resend" are not over.
Resending(t) ==
    \E j \in Jobs : /\ Pending(j) /\ job[j].tab = t
                   /\ job[j].kind = "resend" /\ job[j].tie = "form"

\* The 30 seconds of CountdownResend are over.
Countdown(t) ==
    /\ page[t] = "verify-otp"
    /\ form[t].step = "counting"
    /\ ~Resending(t)
    /\ form' = [form EXCEPT ![t].step = "open"]
    /\ UNCHANGED <<serverVars, stored, page, job, proven, faults>>

\* "Resend": 800 ms later the countdown starts again and onResend is called.
Resend_Click(t) ==
    /\ page[t] = "verify-otp"
    /\ form[t].step = "open"
    /\ Ready(t)
    /\ form' = [form EXCEPT ![t].step = "counting"]
    /\ \E j \in Jobs :
         /\ ~Pending(j)
         /\ job' = [job EXCEPT ![j] = [kind |-> "resend", tab |-> t,
                                       who |-> "nobody", key |-> 0,
                                       tie |-> "form", state |-> "delayed"]]
    /\ UNCHANGED <<serverVars, stored, page, proven, faults>>

\* handleResend, also when the page was left meanwhile: the server sends another
\* passcode; the form is not disabled, and the answer changes only a message.
Resend_Send(j) ==
    /\ Resumes(j, "resend", {"delayed"})
    /\ job' = Free(j)
    /\ UNCHANGED <<serverVars, stored, page, form, proven, faults>>

RegisterPage(t) ==
    \/ Register_SignIn(t)
    \/ \E who \in Accounts : Register_Submit(t, who)

VerifyPage(t) ==
    \/ Verify_GoBack(t)
    \/ Verify_Submit(t)
    \/ Resend_Click(t)

SignUp(t) == RegisterPage(t) \/ VerifyPage(t)

SignUp_Resume(j) ==
    \/ Register_Accepted(j)
    \/ Register_Rejected(j)
    \/ Verify_Accepted(j)
    \/ Verify_Rejected(j)
    \/ Redirect(j)
    \/ Resend_Send(j)
=============================================================================
