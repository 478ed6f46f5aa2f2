---------------------------- MODULE SignInPages ----------------------------
(***************************************************************************)
(* The headers of the pages (Header; AuthHeader with its logout) and the   *)
(* login page (LoginForm).  A field that fails its check in the browser    *)
(* sends nothing and changes only messages.                                *)
(***************************************************************************)
EXTENDS WebClient

(* Buttons that lead to a route *)

HeaderButtons == {"register", "login"}
MenuButtons == {"register", "login"}
HeroButtons == {"register", "login"}
ClosingButtons == {"register", "login"}

LandingButtons == HeaderButtons \cup MenuButtons \cup HeroButtons \cup ClosingButtons

\* On the registration page the button of the header scrolls to the form.
Buttons(p) ==
    CASE p = "landing" -> LandingButtons
      [] p \in Protected -> {}
      [] OTHER -> HeaderButtons \cup MenuButtons

Press(t) == \E p \in Buttons(page[t]) : GoTo(t, p)

-----------------------------------------------------------------------------
\* "Create an Account"
Login_CreateAccount(t) == page[t] = "login" /\ GoTo(t, "register")

\* Variant: nothing disables the form while a call is under way.
IdleOrNot(t) == TRUE

\* The submit button is not disabled, and handleSubmit does not return early.
Ready(t) == ~form[t].busy

SetBusy(t) == form' = [form EXCEPT ![t].busy = TRUE]

Login_Submit(t, who) ==
    /\ page[t] = "login"
    /\ Ready(t)
    /\ SetBusy(t)
    /\ PostJson(t, "login", who)
    /\ UNCHANGED <<serverVars, stored, page, proven, faults>>

\* setSession, then navigate("/dashboard"): also when the page was left meanwhile.
Login_Accepted(j) ==
    /\ Resumes(j, "login", {"ok"})
    /\ stored' = job[j].key
    /\ Navigate(job[j].tab, "dashboard", "nobody", job[j].key, Free(j))
    /\ UNCHANGED <<serverVars, proven, faults>>

\* Variant: a call that was never answered leaves the form disabled.
Login_RefusedOnly(j) ==
    /\ Resumes(j, "login", {"refused", "failed"})
    /\ IF job[j].state = "refused" THEN Show(j, "enter") ELSE UNCHANGED form
    /\ job' = Free(j)
    /\ UNCHANGED <<serverVars, stored, page, proven, faults>>

\* A message; `finally` ends the loading state.
Login_Rejected(j) ==
    /\ Resumes(j, "login", {"refused", "failed"})
    /\ Show(j, "enter")
    /\ job' = Free(j)
    /\ UNCHANGED <<serverVars, stored, page, proven, faults>>

-----------------------------------------------------------------------------
\* handleLogout, first half: with no session it goes to the login page at once.
Logout_Click(t) ==
    /\ page[t] \in Protected
    /\ IF stored = 0
         THEN Navigate(t, "login", "nobody", 0, job)
         ELSE AuthPostJson(t, "logout") /\ UNCHANGED <<page, form>>
    /\ UNCHANGED <<serverVars, stored, proven, faults>>

\* Variant: the page is not left when the server cannot be reached.
Logout_DoneQuietly(j) ==
    /\ Resumes(j, "logout", {"ok", "refused", "failed"})
    /\ stored' = 0
    /\ IF job[j].state = "failed"
         THEN job' = Free(j) /\ UNCHANGED <<page, form>>
         ELSE Navigate(job[j].tab, "login", "nobody", 0, Free(j))
    /\ UNCHANGED <<serverVars, proven, faults>>

\* Whatever came back: clearSession, then navigate("/login").
Logout_Done(j) ==
    /\ Resumes(j, "logout", {"ok", "refused", "failed"})
    /\ stored' = 0
    /\ Navigate(job[j].tab, "login", "nobody", 0, Free(j))
    /\ UNCHANGED <<serverVars, proven, faults>>

LoginPage(t) ==
    \/ Login_CreateAccount(t)
    \/ \E who \in Accounts : Login_Submit(t, who)

SignIn(t) ==
    \/ Press(t)
    \/ LoginPage(t)
    \/ Logout_Click(t)

SignIn_Resume(j) ==
    \/ Login_Accepted(j)
    \/ Login_Rejected(j)
    \/ Logout_Done(j)
=============================================================================
