---------------------------- MODULE WebApp_proofs ----------------------------
(***************************************************************************)
(* What holds of the pages for any number of tabs, accounts and calls in   *)
(* flight: their types, that a form has one call under way and is disabled *)
(* exactly as long as it has, and how an account is stranded; and, of one  *)
(* tab, that what it shows agrees with the session and the deletion with   *)
(* what was proved.                                                        *)
(***************************************************************************)
EXTENDS WebApp, FiniteSetTheorems, TLAPS

-----------------------------------------------------------------------------
(* Types *)

Viewers == Accounts \cup {"nobody"}
FormState == [step : Steps, busy : BOOLEAN, who : Viewers]

ServerOK ==
    /\ standing \in [Accounts -> {"none", "pending", "active", "deleted"}]
    /\ session \in Seq([account : Accounts, live : BOOLEAN])
    /\ Len(session) <= MaxSessions
    /\ requested \subseteq Accounts

PagesOK ==
    /\ page \in [Tabs -> Pages]
    /\ form \in [Tabs -> FormState]

Timers == {"resend", "redirect"}

\* A call about one of the first n sessions, for an account; a timer for nobody.
CallOK(x, n) ==
    /\ x \in Job
    /\ x.key <= n
    /\ x.kind \notin Timers => x.who \in Accounts

CallsOK(jobs, n) ==
    /\ jobs \in [Jobs -> Job \cup {NoJob}]
    /\ \A j \in Jobs : jobs[j] # NoJob => CallOK(jobs[j], n)

\* The deletion page has an account: RequireAuth shows it only with a session.
PageHasAccount ==
    \A t \in Tabs : page[t] = "delete-account" => form[t].who \in Accounts

TypeInv ==
    /\ ServerOK
    /\ PagesOK
    /\ PageHasAccount
    /\ CallsOK(job, Len(session))
    /\ stored \in 0..Len(session)
    /\ proven \subseteq Accounts
    /\ faults \in 0..MaxFaults

LEMMA TypeInvTypes == TypeInv => TypeOK
  BY DEF TypeInv, TypeOK, ServerOK, PagesOK, PageHasAccount, CallsOK, CallOK, Timers,
         Viewers, FormState, Pending

LEMMA NoJobIsNone == NoJob \notin Job
  <1>1. \A x \in Job : x.kind \in Kinds
    BY DEF Job
  <1>2. NoJob.kind \notin Kinds
    BY DEF NoJob, Kinds
  <1> QED
    BY <1>1, <1>2

\* A call is written over a slot, or a slot is freed.
LEMMA PutOK ==
    ASSUME NEW n \in Nat, NEW jobs, CallsOK(jobs, n), NEW j \in Jobs,
           NEW x, CallOK(x, n) \/ x = NoJob
    PROVE  CallsOK([jobs EXCEPT ![j] = x], n)
  <1>1. x \in Job \cup {NoJob}
    BY DEF CallOK
  <1> QED
    BY <1>1 DEF CallsOK

LEMMA MoreSessions ==
    ASSUME NEW n \in Nat, NEW m \in Nat, n <= m, NEW jobs, CallsOK(jobs, n)
    PROVE  CallsOK(jobs, m)
  <1>1. ASSUME NEW j \in Jobs, jobs[j] # NoJob PROVE CallOK(jobs[j], m)
    <2>1. CallOK(jobs[j], n)
      BY <1>1 DEF CallsOK
    <2>2. jobs[j].key \in Nat
      BY <2>1 DEF CallOK, Job
    <2> QED
      BY <2>1, <2>2 DEF CallOK
  <1> QED
    BY <1>1 DEF CallsOK

\* Only the tie of a call changes.
LEMMA RetiedOK ==
    ASSUME NEW n \in Nat, NEW x, CallOK(x, n), NEW tie \in {"form", "tab", "none"}
    PROVE  CallOK([x EXCEPT !.tie = tie], n)
  BY DEF CallOK, Job

\* The router unmounts a component; the document is replaced.
LEMMA UnmountOK ==
    ASSUME NEW n \in Nat, NEW jobs, CallsOK(jobs, n), NEW t
    PROVE  CallsOK(Unmount(t, jobs), n)
  <1> DEFINE new == Unmount(t, jobs)
  <1>1. \A j \in Jobs : \/ new[j] = jobs[j]
                        \/ jobs[j] # NoJob /\ new[j] = [jobs[j] EXCEPT !.tie = "tab"]
    BY DEF Unmount
  <1>2. new = [j \in Jobs |-> new[j]]
    BY DEF Unmount
  <1> HIDE DEF new
  <1>3. ASSUME NEW j \in Jobs PROVE CallOK(new[j], n) \/ new[j] = NoJob
    <2>1. jobs[j] = NoJob \/ CallOK(jobs[j], n)
      BY DEF CallsOK
    <2>2. CallOK(jobs[j], n) => CallOK([jobs[j] EXCEPT !.tie = "tab"], n)
      BY RetiedOK
    <2> QED
      BY <1>1, <2>1, <2>2
  <1>4. CallsOK(new, n)
    BY <1>2, <1>3 DEF CallsOK, CallOK
  <1> QED
    BY <1>4 DEF new

LEMMA CutOK ==
    ASSUME NEW n \in Nat, CallsOK(job, n), NEW t
    PROVE  CallsOK(Cut(t), n)
  <1> DEFINE new == Cut(t)
  <1>1. \A j \in Jobs : \/ new[j] \in {job[j], NoJob}
                        \/ job[j] # NoJob /\ new[j] = [job[j] EXCEPT !.tie = "none"]
    BY DEF Cut, Pending
  <1>2. new = [j \in Jobs |-> new[j]]
    BY DEF Cut
  <1> HIDE DEF new
  <1>3. ASSUME NEW j \in Jobs PROVE CallOK(new[j], n) \/ new[j] = NoJob
    <2>1. job[j] = NoJob \/ CallOK(job[j], n)
      BY DEF CallsOK
    <2>2. CallOK(job[j], n) => CallOK([job[j] EXCEPT !.tie = "none"], n)
      BY RetiedOK
    <2> QED
      BY <1>1, <2>1, <2>2
  <1>4. CallsOK(new, n)
    BY <1>2, <1>3 DEF CallsOK, CallOK
  <1> QED
    BY <1>4 DEF new

-----------------------------------------------------------------------------
(* What a step does to the pages *)

LEMMA SessionOK ==
    ASSUME ServerOK, NEW key \in 1..Len(session)
    PROVE  session[key].account \in Accounts
  <1> DEFINE S == [account : Accounts, live : BOOLEAN]
  <1>1. session \in Seq(S)
    BY DEF ServerOK
  <1> HIDE DEF S
  <1>2. session[key] \in S
    BY <1>1
  <1> QED
    BY <1>2 DEF S

LEMMA ViewerOK ==
    ASSUME ServerOK, NEW p, NEW key \in 0..Len(session)
    PROVE  /\ Viewer(p, key) \in Viewers
           /\ p = "delete-account" /\ key # 0 => Viewer(p, key) \in Accounts
  <1>1. ASSUME key # 0 PROVE session[key].account \in Accounts
    <2>1. key \in 1..Len(session)
      BY <1>1 DEF ServerOK
    <2> QED
      BY <2>1, SessionOK
  <1> QED
    BY <1>1 DEF Viewer, Viewers

LEMMA FreshOK ==
    ASSUME NEW p, NEW who \in Viewers
    PROVE  /\ Fresh(p, who) \in FormState
           /\ Fresh(p, who).busy = FALSE /\ Fresh(p, who).who = who
  BY DEF Fresh, FormState, Steps

LEMMA RequireAuthOK ==
    ASSUME NEW p \in Pages, NEW key
    PROVE  /\ RequireAuth(p, key) \in Pages
           /\ RequireAuth(p, key) = "delete-account" => key # 0
  BY DEF RequireAuth, Pages, Protected

\* The component of tab t is replaced by one that is idle.
Mounts(t) ==
    \E p \in Pages, f \in FormState :
        /\ page' = [page EXCEPT ![t] = p]
        /\ form' = [form EXCEPT ![t] = f]
        /\ f.busy = FALSE
        /\ p = "delete-account" => f.who \in Accounts

\* The component stays as it is, but for the account it is told.
Stays(t, target) ==
    /\ page[t] = target
    /\ page' = page
    /\ \/ form' = form
       \/ /\ target = "verify-otp"
          /\ \E who \in Viewers : form' = [form EXCEPT ![t].who = who]

\* navigate(): the route is left and what awaits an answer outlives its form, or
\* nothing changes.
LEMMA NavigateDoes ==
    ASSUME ServerOK, PagesOK, NEW t \in Tabs, NEW target \in Pages, NEW who \in Viewers,
           NEW key \in 0..Len(session), NEW jobs,
           Navigate(t, target, who, key, jobs)
    PROVE  \/ Mounts(t) /\ job' = Unmount(t, jobs)
           \/ Stays(t, target) /\ job' = jobs
  <1> DEFINE shown == RequireAuth(target, key)
  <1>1. CASE shown = target /\ target = page[t]
    BY <1>1 DEF Navigate, Stays
  <1>2. CASE ~(shown = target /\ target = page[t])
    <2> DEFINE viewer == IF shown = "verify-otp" THEN who ELSE Viewer(shown, key)
    <2>1. viewer \in Viewers
      BY ViewerOK
    <2>2. /\ page' = [page EXCEPT ![t] = shown]
          /\ form' = [form EXCEPT ![t] = Fresh(shown, viewer)]
          /\ job' = Unmount(t, jobs)
      BY <1>2 DEF Navigate
    <2>3. shown \in Pages /\ (shown = "delete-account" => viewer \in Accounts)
      BY RequireAuthOK, ViewerOK
    <2> HIDE DEF viewer, shown
    <2> QED
      BY <2>1, <2>2, <2>3, FreshOK DEF Mounts
  <1> QED
    BY <1>1, <1>2

\* A document is loaded.
LEMMA LoadDoes ==
    ASSUME TypeInv, NEW t \in Tabs, NEW p \in Pages, NEW who \in Viewers,
           Load(t, p, who)
    PROVE  Mounts(t) /\ job' = Cut(t)
  <1> DEFINE shown == RequireAuth(p, stored)
             viewer == IF shown = "verify-otp" THEN who ELSE Viewer(shown, stored)
  <1>1. viewer \in Viewers
    BY ViewerOK DEF TypeInv
  <1>2. /\ page' = [page EXCEPT ![t] = shown]
        /\ form' = [form EXCEPT ![t] = Fresh(shown, viewer)]
        /\ job' = Cut(t)
    BY DEF Load
  <1>3. shown \in Pages /\ (shown = "delete-account" => viewer \in Accounts)
    BY RequireAuthOK, ViewerOK DEF TypeInv
  <1> HIDE DEF viewer, shown
  <1> QED
    BY <1>1, <1>2, <1>3, FreshOK DEF Mounts

LEMMA MountsTyped ==
    ASSUME PagesOK, PageHasAccount, NEW t \in Tabs, Mounts(t)
    PROVE  PagesOK' /\ PageHasAccount'
  BY DEF PagesOK, PageHasAccount, Mounts

LEMMA StaysTyped ==
    ASSUME PagesOK, PageHasAccount, NEW t \in Tabs, NEW target, Stays(t, target)
    PROVE  PagesOK' /\ PageHasAccount'
  <1>1. CASE form' = form
    BY <1>1 DEF PagesOK, PageHasAccount, Stays
  <1>2. ASSUME NEW who \in Viewers, form' = [form EXCEPT ![t].who = who],
               page[t] = "verify-otp"
        PROVE  PagesOK' /\ PageHasAccount'
    <2>1. [form[t] EXCEPT !.who = who] \in FormState
      BY DEF PagesOK, FormState
    <2>2. form' = [form EXCEPT ![t] = [form[t] EXCEPT !.who = who]]
      BY <1>2 DEF PagesOK
    <2> QED
      BY <1>2, <2>1, <2>2 DEF PagesOK, PageHasAccount, Stays
  <1> QED
    BY <1>1, <1>2 DEF Stays

-----------------------------------------------------------------------------
(* Three kinds of steps: of a user, of a continuation, of the server *)

\* The page that makes a call of this kind.
HomeOf(kind) ==
    IF kind \in {"register", "login"} THEN kind
    ELSE IF kind = "verify" THEN "verify-otp" ELSE "delete-account"

\* The steps of the deletion page that await an answer which may not be noticed.
Deaf == {"modal", "code"}

\* A form is submitted.
Submits(t) ==
    \E kind \in FormKinds, who \in Accounts, key \in 0..Len(session) :
        /\ Call(t, kind, who, key)
        /\ ~form[t].busy
        /\ SetBusy(t)
        /\ page[t] = HomeOf(kind)
        /\ kind = "request" => form[t].step = "modal"
        /\ kind = "confirm" => form[t].step = "code"
        /\ kind \in {"request", "confirm"} => stored # 0 /\ who = session[stored].account
        /\ page' = page

\* Logout is sent; no form waits for it.
LogsOut(t) ==
    /\ page[t] \in Protected
    /\ \E who \in Accounts, key \in 0..Len(session) : Call(t, "logout", who, key)
    /\ UNCHANGED <<page, form>>

\* The page goes to another step, which may start the timer of a resend.
Turns(t) ==
    /\ ~form[t].busy \/ form[t].step \notin Deaf
    /\ page[t] = "delete-account" => form[t].step # "prove"
    /\ \E step \in Steps : form' = [form EXCEPT ![t].step = step]
    /\ page' = page
    /\ \/ job' = job
       \/ \E j \in Jobs :
            /\ ~Pending(j)
            /\ job' = [job EXCEPT ![j] = [kind |-> "resend", tab |-> t,
                                          who |-> "nobody", key |-> 0,
                                          tie |-> "form", state |-> "delayed"]]

\* The deletion page is rendered for the account of the session of that moment.
Renews(t) ==
    /\ page[t] = "delete-account"
    /\ \E who \in Accounts : form' = [form EXCEPT ![t].who = who]
    /\ UNCHANGED <<page, job>>

\* The user goes to another page, or nowhere, on the router's way or the document's;
\* from a signed-in page it can be the page that finds no session.
Goes(t) ==
    \/ /\ \E p \in Pages, who \in Viewers : Navigate(t, p, who, stored, job)
       /\ Leave(t) \/ FollowAnchor(t) \/ page[t] \in Protected
    \/ /\ \E p \in Pages, who \in Viewers : Load(t, p, who)
       /\ Leave(t)

UserStep(t) ==
    /\ Goes(t) \/ Submits(t) \/ LogsOut(t) \/ Turns(t) \/ Renews(t)
    /\ UNCHANGED <<serverVars, stored, proven, faults>>

LEMMA GoToIsUserStep ==
    ASSUME TypeInv, NEW t \in Tabs, NEW p \in Pages, GoTo(t, p),
           p # "verify-otp" \/ FollowAnchor(t)
    PROVE  UserStep(t)
  BY DEF GoTo, UserStep, Goes, Viewers, Leave, Back

LEMMA VisitIsUserStep ==
    ASSUME TypeInv, NEW t \in Tabs, NEW p \in Pages, Visit(t, p)
    PROVE  UserStep(t)
  BY DEF Visit, UserStep, Goes, Viewers, Leave

LEMMA LeaveIsUserStep ==
    ASSUME TypeInv, NEW t \in Tabs, Leave(t) \/ FollowLink(t) \/ FollowAnchor(t)
    PROVE  UserStep(t)
  <1>1. page[t] \in Pages /\ form[t].who \in Viewers
    BY DEF TypeInv, PagesOK, FormState
  <1>2. CASE Reload(t)
    BY <1>1, <1>2 DEF Reload, UserStep, Goes, Leave
  <1>3. \A p \in Links(page[t]) \ {"#"} : p \in Pages
    BY DEF Links, FooterLinks, DashboardLinks, AuthHeaderLinks, HeaderLinks, StripLinks,
           FeedLinks, Pages, Protected
  <1> QED
    BY <1>1, <1>2, <1>3, GoToIsUserStep, VisitIsUserStep
       DEF Leave, Back, FollowLink, FollowAnchor

LEMMA SignInIsUserStep ==
    ASSUME TypeInv, NEW t \in Tabs, SignIn(t)
    PROVE  UserStep(t)
  <1>1. CASE Press(t)
    <2>1. Buttons(page[t]) \subseteq Pages \ {"verify-otp"}
      BY DEF Buttons, LandingButtons, HeaderButtons, MenuButtons, HeroButtons,
             ClosingButtons, Pages
    <2> QED
      BY <1>1, <2>1, GoToIsUserStep DEF Press
  <1>2. CASE Login_CreateAccount(t)
    BY <1>2, GoToIsUserStep DEF Login_CreateAccount, Pages
  <1>3. ASSUME NEW who \in Accounts, Login_Submit(t, who) PROVE UserStep(t)
    <2>1. Submits(t)
      BY <1>3 DEF Login_Submit, PostJson, Ready, Submits, FormKinds, HomeOf, TypeInv, ServerOK
    <2> QED
      BY <1>3, <2>1 DEF Login_Submit, UserStep
  <1>4. CASE Logout_Click(t)
    <2>1. CASE stored = 0
      BY <1>4, <2>1 DEF Logout_Click, UserStep, Goes, Viewers, Pages
    <2>2. CASE stored # 0
      <3>1. stored \in 1..Len(session) /\ stored \in 0..Len(session)
        BY <2>2 DEF TypeInv, ServerOK
      <3>2. session[stored].account \in Accounts
        BY <3>1, SessionOK DEF TypeInv
      <3>3. LogsOut(t)
        BY <1>4, <2>2, <3>1, <3>2 DEF Logout_Click, AuthPostJson, LogsOut
      <3> QED
        BY <1>4, <3>3 DEF Logout_Click, UserStep
    <2> QED
      BY <2>1, <2>2
  <1> QED
    BY <1>1, <1>2, <1>3, <1>4 DEF SignIn, LoginPage

LEMMA SignUpIsUserStep ==
    ASSUME TypeInv, NEW t \in Tabs, SignUp(t) \/ Countdown(t)
    PROVE  UserStep(t)
  <1> USE DEF Ready
  <1>0. "register" \in Pages /\ "landing" \in Pages
    BY DEF Pages
  <1>1. CASE Register_SignIn(t) \/ Verify_GoBack(t)
    BY <1>0, <1>1, GoToIsUserStep DEF Register_SignIn, Verify_GoBack
  <1>2. ASSUME NEW who \in Accounts, Register_Submit(t, who) PROVE UserStep(t)
    <2>1. Submits(t)
      BY <1>2 DEF Register_Submit, PostJson, Submits, FormKinds, HomeOf, TypeInv, ServerOK
    <2> QED
      BY <1>2, <2>1 DEF Register_Submit, UserStep
  <1>3. CASE Verify_Submit(t)
    <2>1. form[t].who \in Accounts
      BY <1>3 DEF Verify_Submit, TypeInv, PagesOK, FormState, Viewers
    <2>2. Submits(t)
      BY <1>3, <2>1 DEF Verify_Submit, FieldEnabled, PostJson, Submits, FormKinds, HomeOf,
                        TypeInv, ServerOK
    <2> QED
      BY <1>3, <2>2 DEF Verify_Submit, UserStep
  <1>4. CASE Resend_Click(t)
    BY <1>4 DEF Resend_Click, UserStep, Turns, Steps
  <1>5. CASE Countdown(t)
    BY <1>5 DEF Countdown, UserStep, Turns, Steps, Deaf
  <1> QED
    BY <1>1, <1>2, <1>3, <1>4, <1>5 DEF SignUp, RegisterPage, VerifyPage

LEMMA DeletionIsUserStep ==
    ASSUME TypeInv, NEW t \in Tabs, Deletion(t)
    PROVE  UserStep(t)
  <1> USE DEF Ready, OnStep
  <1>1. CASE Prove_Submit(t)
    <2>1. form[t].who \in Accounts
      BY <1>1 DEF Prove_Submit, TypeInv, PageHasAccount
    <2>2. Submits(t)
      BY <1>1, <2>1 DEF Prove_Submit, PostJson, Submits, FormKinds, HomeOf, TypeInv, ServerOK
    <2> QED
      BY <1>1, <2>2 DEF Prove_Submit, UserStep
  <1>2. CASE OpenModal(t) \/ CloseModal(t)
    BY <1>2 DEF OpenModal, CloseModal, SetStep, UserStep, Turns, Steps, Deaf
  <1>3. ASSUME NEW kind \in {"request", "confirm"}, SendWithSession(t, kind),
               ~form[t].busy, page[t] = "delete-account",
               form[t].step = IF kind = "request" THEN "modal" ELSE "code"
        PROVE  UserStep(t)
    <2>1. CASE stored = 0
      BY <1>3, <2>1 DEF SendWithSession, UserStep, Goes, Viewers, Pages, Protected
    <2>2. CASE stored # 0
      <3>1. stored \in 1..Len(session) /\ stored \in 0..Len(session)
        BY <2>2 DEF TypeInv, ServerOK
      <3>2. session[stored].account \in Accounts
        BY <3>1, SessionOK DEF TypeInv
      <3>3. Submits(t)
        BY <1>3, <2>2, <3>1, <3>2
           DEF SendWithSession, AuthPostJson, Submits, FormKinds, HomeOf
      <3> QED
        BY <1>3, <3>3 DEF SendWithSession, UserStep
    <2> QED
      BY <2>1, <2>2
  <1>4. CASE Request_Submit(t) \/ Confirm_Submit(t)
    BY <1>3, <1>4 DEF Request_Submit, Confirm_Submit
  <1>5. CASE Deleted_Home(t)
    BY <1>5, GoToIsUserStep DEF Deleted_Home, Pages
  <1>6. CASE Renew(t)
    <2>1. Viewer("delete-account", stored) \in Accounts
      BY <1>6, ViewerOK DEF Renew, TypeInv
    <2> QED
      BY <1>6, <2>1 DEF Renew, UserStep, Renews
  <1> QED
    BY <1>1, <1>2, <1>4, <1>5, <1>6 DEF Deletion

LEMMA UserSteps ==
    ASSUME TypeInv, NEW t \in Tabs, User(t) \/ Countdown(t)
    PROVE  UserStep(t)
  BY LeaveIsUserStep, SignInIsUserStep, SignUpIsUserStep, DeletionIsUserStep DEF User

\* The continuation of call j navigates, whatever its tab shows by then, with the
\* session it has just stored.
Routes(j) ==
    /\ job[j].kind \in {"login", "logout", "register", "redirect"}
    /\ \E target \in Pages \ {"delete-account"}, who \in Viewers, key \in 0..Len(session) :
         /\ Navigate(job[j].tab, target, who, key, Free(j))
         /\ key = stored'
         /\ job[j].kind \in FormKinds => target # HomeOf(job[j].kind)
         /\ job[j].kind = "logout" => target = "login"
         /\ job[j].kind = "register" => target = "verify-otp" /\ who = job[j].who

\* It shows its result on the form, if that is still there.
Shows(j) ==
    /\ job[j].kind \in FormKinds
    /\ job[j].kind \in {"login", "register"} => job[j].state # "ok"
    /\ page' = page
    /\ \E step \in Steps :
         /\ Show(j, step)
         /\ job[j].kind = "reverify" /\ step # "prove" => job[j].state = "ok"
    /\ \/ job' = Free(j)
       \/ job' = [job EXCEPT ![j].kind = "redirect", ![j].who = "nobody",
                             ![j].state = "delayed"]

\* It changes no form: the timer of a resend, or a rejection that nobody catches.
Passes(j) ==
    /\ UNCHANGED <<page, form>>
    /\ job' = Free(j)
    /\ \/ job[j].kind = "resend"
       \/ job[j].kind \in {"request", "confirm"} /\ job[j].state = "failed"

\* What an answer does to the session in localStorage, and what it proves.
Stores(j) ==
    /\ stored' = IF job[j].kind \in {"login", "reverify"} /\ job[j].state = "ok"
                   THEN job[j].key
                 ELSE IF \/ job[j].kind = "logout"
                         \/ job[j].kind = "confirm" /\ job[j].state = "ok"
                   THEN 0
                 ELSE stored
    /\ proven' = IF job[j].kind = "reverify" /\ job[j].state = "ok"
                   THEN proven \cup {job[j].who} ELSE proven

ResumeStep(j) ==
    /\ Pending(j)
    /\ job[j].tie # "none"
    /\ Routes(j) \/ Shows(j) \/ Passes(j)
    /\ Stores(j)
    /\ stored' \in 0..Len(session)
    /\ proven' \subseteq Accounts
    /\ UNCHANGED <<serverVars, faults>>

\* What a pending call holds.
LEMMA PendingCall ==
    ASSUME TypeInv, NEW j \in Jobs, Pending(j)
    PROVE  /\ CallOK(job[j], Len(session))
           /\ job[j] \in Job
           /\ job[j].tab \in Tabs /\ job[j].kind \in Kinds /\ job[j].who \in Viewers
           /\ job[j].key \in 0..Len(session)
           /\ job[j].tie \in {"form", "tab", "none"}
           /\ job[j].kind \notin Timers => job[j].who \in Accounts
  <1>1. CallOK(job[j], Len(session))
    BY DEF TypeInv, CallsOK, Pending
  <1>2. job[j] \in Job
    BY <1>1 DEF CallOK
  <1>3. Len(session) \in Nat
    BY DEF TypeInv, ServerOK
  <1> QED
    BY <1>1, <1>2, <1>3 DEF CallOK, Job, Viewers

LEMMA SignInResumes ==
    ASSUME TypeInv, NEW j \in Jobs, SignIn_Resume(j)
    PROVE  ResumeStep(j)
  <1>0. /\ {"dashboard", "login"} \subseteq Pages /\ "nobody" \in Viewers
        /\ stored \in 0..Len(session) /\ 0 \in 0..Len(session) /\ proven \subseteq Accounts
    BY DEF Pages, Protected, Viewers, TypeInv, ServerOK
  <1>1. CASE Login_Accepted(j)
    <2>1. Pending(j) /\ job[j].kind = "login"
      BY <1>1 DEF Login_Accepted, Resumes
    <2>2. job[j].key \in 0..Len(session)
      BY <2>1, PendingCall
    <2>3. Routes(j)
      BY <1>0, <1>1, <2>1, <2>2 DEF Login_Accepted, Resumes, Routes, HomeOf
    <2> QED
      BY <1>0, <1>1, <2>1, <2>2, <2>3 DEF Login_Accepted, Resumes, ResumeStep, Stores
  <1>2. CASE Login_Rejected(j)
    BY <1>0, <1>2 DEF Login_Rejected, Resumes, ResumeStep, Shows,
                      Steps, FormKinds, Stores
  <1>3. CASE Logout_Done(j)
    <2>1. Pending(j) /\ job[j].kind = "logout"
      BY <1>3 DEF Logout_Done, Resumes
    <2>2. Routes(j)
      BY <1>0, <1>3, <2>1 DEF Logout_Done, Resumes, Routes, FormKinds
    <2>3. Stores(j)
      BY <1>3, <2>1 DEF Logout_Done, Stores
    <2> QED
      BY <1>0, <1>3, <2>1, <2>2, <2>3 DEF Logout_Done, Resumes, ResumeStep
  <1> QED
    BY <1>1, <1>2, <1>3 DEF SignIn_Resume

LEMMA SignUpResumes ==
    ASSUME TypeInv, NEW j \in Jobs, SignUp_Resume(j)
    PROVE  ResumeStep(j)
  <1>0. /\ {"dashboard", "verify-otp"} \subseteq Pages /\ "nobody" \in Viewers
        /\ stored \in 0..Len(session) /\ proven \subseteq Accounts
    BY DEF Pages, Protected, Viewers, TypeInv
  <1>1. CASE Register_Accepted(j)
    <2>1. Pending(j) /\ job[j].kind = "register"
      BY <1>1 DEF Register_Accepted, Resumes
    <2>2. job[j].who \in Viewers
      BY <2>1, PendingCall
    <2>3. Routes(j)
      BY <1>0, <1>1, <2>1, <2>2 DEF Register_Accepted, Resumes, Routes, HomeOf
    <2> QED
      BY <1>0, <1>1, <2>1, <2>3 DEF Register_Accepted, Resumes, ResumeStep, Stores
  <1>2. CASE Register_Rejected(j)
    BY <1>0, <1>2 DEF Register_Rejected, Resumes, ResumeStep, Shows,
                      Steps, FormKinds, Stores
  <1>3. CASE Verify_Accepted(j)
    BY <1>0, <1>3 DEF Verify_Accepted, Resumes, ResumeStep, Shows,
                      Steps, FormKinds, Stores
  <1>4. CASE Verify_Rejected(j)
    <2>1. Pending(j) /\ job[j].kind \in FormKinds
      BY <1>4 DEF Verify_Rejected, Resumes, FormKinds
    <2>2. form[job[j].tab].step \in Steps
      BY <2>1, PendingCall DEF TypeInv, PagesOK, FormState
    <2> QED
      BY <1>0, <1>4, <2>1, <2>2 DEF Verify_Rejected, Resumes, ResumeStep, Shows, Stores
  <1>5. CASE Redirect(j)
    <2>1. Pending(j) /\ job[j].kind = "redirect"
      BY <1>5 DEF Redirect, Resumes
    <2>2. Routes(j)
      BY <1>0, <1>5, <2>1 DEF Redirect, Resumes, Routes, FormKinds
    <2> QED
      BY <1>0, <1>5, <2>1, <2>2 DEF Redirect, Resumes, ResumeStep, Stores
  <1>6. CASE Resend_Send(j)
    BY <1>0, <1>6 DEF Resend_Send, Resumes, ResumeStep, Passes, Stores
  <1> QED
    BY <1>1, <1>2, <1>3, <1>4, <1>5, <1>6 DEF SignUp_Resume

LEMMA DeletionResumes ==
    ASSUME TypeInv, NEW j \in Jobs, Deletion_Resume(j)
    PROVE  ResumeStep(j)
  <1>0. stored \in 0..Len(session) /\ 0 \in 0..Len(session) /\ proven \subseteq Accounts
    BY DEF TypeInv, ServerOK
  <1>1. CASE Prove_Accepted(j)
    <2>1. Pending(j) /\ job[j].kind = "reverify"
      BY <1>1 DEF Prove_Accepted, Resumes
    <2>2. job[j].key \in 0..Len(session) /\ job[j].who \in Accounts
      BY <2>1, PendingCall DEF Timers
    <2>3. Shows(j)
      BY <1>1, <2>1 DEF Prove_Accepted, Resumes, Shows, Steps, FormKinds
    <2> QED
      BY <1>0, <1>1, <2>1, <2>2, <2>3 DEF Prove_Accepted, Resumes, ResumeStep, Stores
  <1>2. CASE Prove_Rejected(j)
    BY <1>0, <1>2 DEF Prove_Rejected, Resumes, ResumeStep, Shows,
                      Steps, FormKinds, Stores
  <1>3. CASE Request_Accepted(j) \/ Request_Refused(j)
    BY <1>0, <1>3 DEF Request_Accepted, Request_Refused, Resumes, ResumeStep, Shows,
                      Steps, FormKinds, Stores
  <1>4. CASE Confirm_Accepted(j) \/ Confirm_Refused(j)
    BY <1>0, <1>4 DEF Confirm_Accepted, Confirm_Refused, Resumes, ResumeStep, Shows,
                      Steps, FormKinds, Stores
  <1>5. CASE Deletion_Unanswered(j)
    BY <1>0, <1>5 DEF Deletion_Unanswered, Resumes, ResumeStep, Passes, Stores
  <1> QED
    BY <1>1, <1>2, <1>3, <1>4, <1>5 DEF Deletion_Resume

\* The server answers or not: call j changes but for its state and its session, or is
\* gone with the document that made it.
ServeStep(j) ==
    /\ Pending(j)
    /\ ServerOK'
    /\ Len(session) <= Len(session')
    /\ faults \in Nat /\ faults' \in faults..MaxFaults
    /\ \/ job[j].tie = "none" /\ job' = Free(j)
       \/ \E x \in Job :
            /\ job' = [job EXCEPT ![j] = x]
            /\ CallOK(x, Len(session'))
            /\ x.kind = job[j].kind /\ x.tab = job[j].tab /\ x.tie = job[j].tie
            /\ x.who = job[j].who
            /\ x.state = "failed" => faults' # 0
    /\ UNCHANGED <<stored, page, form, proven>>

\* The answer to a call whose server tables are of their types.
LEMMA AnswerServes ==
    ASSUME TypeInv, NEW j \in Jobs, Pending(j), NEW state \in {"ok", "refused"},
           Answer(j, state), ServerOK', Len(session') = Len(session)
    PROVE  ServeStep(j)
  <1> DEFINE x == [job[j] EXCEPT !.state = state]
  <1>1. CallOK(job[j], Len(session)) /\ job[j] \in Job
    BY PendingCall
  <1>2. /\ x \in Job /\ CallOK(x, Len(session)) /\ x.state = state
        /\ x.who = job[j].who
        /\ x.kind = job[j].kind /\ x.tab = job[j].tab /\ x.tie = job[j].tie
    BY <1>1 DEF CallOK, Job
  <1>3. (job' = Free(j) /\ job[j].tie = "none") \/ job' = [job EXCEPT ![j] = x]
    BY DEF Answer, TypeInv, CallsOK
  <1>4. faults' = faults /\ faults \in 0..MaxFaults /\ Len(session) \in Nat
    BY DEF Answer, TypeInv, ServerOK
  <1>5. MaxFaults \in Nat
    BY WebAssumption
  <1>6. Len(session) <= Len(session') /\ faults \in Nat /\ faults' \in faults..MaxFaults
    BY <1>4, <1>5
  <1>7. CallOK(x, Len(session'))
    BY <1>2
  <1> HIDE DEF x
  <1> QED
    BY <1>2, <1>3, <1>6, <1>7 DEF ServeStep, Answer

LEMMA SessionChanged ==
    ASSUME NEW S, NEW s \in Seq(S), NEW k, NEW x \in S
    PROVE  /\ [s EXCEPT ![k] = x] \in Seq(S)
           /\ Len([s EXCEPT ![k] = x]) = Len(s)
  <1>1. s \in [1..Len(s) -> S] /\ Len(s) \in Nat
    OBVIOUS
  <1>2. [s EXCEPT ![k] = x] \in [1..Len(s) -> S]
    BY <1>1
  <1> QED
    BY <1>1, <1>2

LEMMA ServeIsServeStep ==
    ASSUME TypeInv, NEW j \in Jobs, Serve(j)
    PROVE  ServeStep(j)
  <1> DEFINE S == [account : Accounts, live : BOOLEAN]
  <1>0. Pending(j)
    BY DEF Serve, Serve_Register, Serve_Verify, Serve_Login, Serve_Logout, Serve_Request,
           Serve_Confirm, Serve_Refuse, Awaits
  <1>1. /\ CallOK(job[j], Len(session)) /\ job[j] \in Job
        /\ job[j].key \in Nat
        /\ job[j].kind \notin Timers => job[j].who \in Accounts
    BY <1>0, PendingCall DEF TypeInv, ServerOK
  <1>2. session \in Seq(S) /\ Len(session) \in Nat /\ Len(session) <= MaxSessions
    BY DEF TypeInv, ServerOK
  <1>3. CASE Serve_Register(j) \/ Serve_Verify(j)
    <2>1. ServerOK' /\ session' = session
      BY <1>3 DEF Serve_Register, Serve_Verify, ServerOK, TypeInv
    <2> QED
      BY <1>0, <1>3, <2>1, AnswerServes DEF Serve_Register, Serve_Verify
  <1>4. CASE Serve_Login(j)
    <2>1. job[j].who \in Accounts
      BY <1>1, <1>4 DEF Serve_Login, Awaits, Timers
    <2>2. [account |-> job[j].who, live |-> TRUE] \in S
      BY <2>1
    <2>3. session' = Append(session, [account |-> job[j].who, live |-> TRUE])
      BY <1>4 DEF Serve_Login
    <2> HIDE DEF S
    <2>4. session' \in Seq(S) /\ Len(session') = Len(session) + 1
      BY <1>2, <2>2, <2>3
    <2>5. Len(session') <= MaxSessions
      BY <1>2, <1>4, <2>4, WebAssumption DEF Serve_Login
    <2>6. ServerOK'
      BY <1>4, <2>4, <2>5 DEF Serve_Login, ServerOK, TypeInv, S
    <2> DEFINE n == Len(session')
               x == [job[j] EXCEPT !.state = "ok", !.key = n]
    <2>7. /\ x \in Job /\ x.key = Len(session') /\ x.who = job[j].who
          /\ x.kind = job[j].kind /\ x.tab = job[j].tab /\ x.tie = job[j].tie
          /\ x.state = "ok"
      <3>1. n \in Nat
        BY <1>2, <2>4
      <3> HIDE DEF n
      <3>2. /\ x \in Job /\ x.key = n /\ x.who = job[j].who
            /\ x.kind = job[j].kind /\ x.tab = job[j].tab /\ x.tie = job[j].tie
            /\ x.state = "ok"
        BY <1>1, <3>1 DEF Job
      <3> QED
        BY <3>2 DEF n
    <2>8. CallOK(x, Len(session'))
      BY <1>1, <1>2, <2>4, <2>7 DEF CallOK
    <2>9. (job' = Free(j) /\ job[j].tie = "none") \/ job' = [job EXCEPT ![j] = x]
      BY <1>4 DEF Serve_Login, TypeInv, CallsOK
    <2>10. faults' = faults /\ faults \in 0..MaxFaults /\ MaxFaults \in Nat
      BY <1>4, WebAssumption DEF Serve_Login, TypeInv
    <2>11. Len(session) <= Len(session') /\ faults \in Nat /\ faults' \in faults..MaxFaults
      BY <1>2, <2>4, <2>10
    <2> HIDE DEF x
    <2> QED
      BY <1>0, <1>4, <2>6, <2>7, <2>8, <2>9, <2>11 DEF Serve_Login, ServeStep
  <1>5. CASE Serve_Logout(j)
    <2>1. job[j].key \in DOMAIN session \/ session' = session
      BY <1>2, <1>5 DEF Serve_Logout
    <2>2. CASE job[j].key \in DOMAIN session
      <3> DEFINE k == job[j].key
                 x == [session[k] EXCEPT !.live = FALSE]
      <3>1. x \in S
        <4>1. session[job[j].key] \in S
          <5> HIDE DEF S
          <5> QED
            BY <1>2, <2>2
        <4> QED
          BY <4>1
      <3>2. session' = [session EXCEPT ![k] = x]
        BY <1>5, <2>2 DEF Serve_Logout
      <3>3. session' \in Seq(S) /\ Len(session') = Len(session)
        <4> HIDE DEF S, k, x
        <4>1. /\ [session EXCEPT ![k] = x] \in Seq(S)
              /\ Len([session EXCEPT ![k] = x]) = Len(session)
          BY <1>2, <3>1, SessionChanged
        <4> QED
          BY <3>2, <4>1
      <3>4. ServerOK'
        BY <1>2, <1>5, <3>3 DEF Serve_Logout, ServerOK, TypeInv
      <3> QED
        BY <1>0, <1>5, <3>3, <3>4, AnswerServes DEF Serve_Logout
    <2>3. CASE session' = session
      <3>1. ServerOK'
        BY <1>5, <2>3 DEF Serve_Logout, ServerOK, TypeInv
      <3> QED
        BY <1>0, <1>5, <2>3, <3>1, AnswerServes DEF Serve_Logout
    <2> QED
      BY <2>1, <2>2, <2>3
  <1>6. CASE Serve_Request(j)
    <2>1. job[j].who \in Accounts
      BY <1>1, <1>6 DEF Serve_Request, Awaits, Timers
    <2>2. ServerOK' /\ session' = session
      BY <1>6, <2>1 DEF Serve_Request, ServerOK, TypeInv
    <2> QED
      BY <1>0, <1>6, <2>2, AnswerServes DEF Serve_Request
  <1>7. CASE Serve_Confirm(j)
    <2>1. \A k \in DOMAIN session :
            (IF session[k].account = job[j].who
               THEN [session[k] EXCEPT !.live = FALSE] ELSE session[k]) \in S
      <3>1. \A k \in DOMAIN session : session[k] \in S
        <4> HIDE DEF S
        <4> QED
          BY <1>2
      <3> QED
        BY <3>1
    <2>2. DOMAIN session = 1..Len(session)
      <3> HIDE DEF S
      <3> QED
        BY <1>2
    <2>3. session' \in Seq(S) /\ Len(session') = Len(session)
      <3> DEFINE new == [k \in 1..Len(session) |->
                           IF session[k].account = job[j].who
                             THEN [session[k] EXCEPT !.live = FALSE] ELSE session[k]]
      <3>1. session' = new
        BY <1>7, <2>2 DEF Serve_Confirm
      <3>2. \A k \in 1..Len(session) : new[k] \in S
        BY <2>1, <2>2
      <3>3. new = [k \in 1..Len(session) |-> new[k]]
        OBVIOUS
      <3> HIDE DEF S, new
      <3>4. new \in [1..Len(session) -> S]
        BY <3>2, <3>3
      <3>5. new \in Seq(S) /\ Len(new) = Len(session)
        BY <1>2, <3>4
      <3> QED
        BY <3>1, <3>5
    <2>4. ServerOK'
      BY <1>2, <1>7, <2>3 DEF Serve_Confirm, ServerOK, TypeInv
    <2> QED
      BY <1>0, <1>7, <2>3, <2>4, AnswerServes DEF Serve_Confirm
  <1>8. CASE Serve_Refuse(j)
    <2>1. ServerOK' /\ session' = session
      BY <1>8 DEF Serve_Refuse, serverVars, ServerOK, TypeInv
    <2> QED
      BY <1>0, <1>8, <2>1, AnswerServes DEF Serve_Refuse
  <1> QED
    BY <1>3, <1>4, <1>5, <1>6, <1>7, <1>8 DEF Serve

LEMMA LossIsServeStep ==
    ASSUME TypeInv, NEW j \in Jobs, Lose(j) \/ Forget(j)
    PROVE  ServeStep(j)
  <1>1. Pending(j)
    BY DEF Lose, Forget
  <1>2. CallOK(job[j], Len(session)) /\ job[j] \in Job
    BY <1>1, PendingCall
  <1>3. /\ ServerOK' /\ session' = session /\ Len(session) \in Nat
        /\ faults \in 0..MaxFaults /\ MaxFaults \in Nat
    BY WebAssumption DEF Lose, Forget, serverVars, ServerOK, TypeInv
  <1>4. CASE Lose(j)
    <2> DEFINE x == [job[j] EXCEPT !.state = "failed"]
    <2>1. /\ x \in Job /\ CallOK(x, Len(session)) /\ x.who = job[j].who
          /\ x.kind = job[j].kind /\ x.tab = job[j].tab /\ x.tie = job[j].tie
      BY <1>2 DEF CallOK, Job
    <2>2. job' = [job EXCEPT ![j] = x]
      BY <1>4 DEF Lose, TypeInv, CallsOK
    <2>3. faults \in Nat /\ faults' \in faults..MaxFaults /\ faults' # 0
      BY <1>3, <1>4 DEF Lose
    <2>4. Len(session) <= Len(session') /\ CallOK(x, Len(session'))
      BY <1>3, <2>1
    <2> HIDE DEF x
    <2> QED
      BY <1>1, <1>3, <1>4, <2>1, <2>2, <2>3, <2>4 DEF Lose, ServeStep
  <1>5. CASE Forget(j)
    <2>1. /\ faults \in Nat /\ faults' \in faults..MaxFaults
          /\ Len(session) <= Len(session')
      BY <1>3, <1>5 DEF Forget
    <2> QED
      BY <1>1, <1>3, <1>5, <2>1 DEF Forget, ServeStep
  <1> QED
    BY <1>4, <1>5

\* Every step is one of the three.
LEMMA NextSteps ==
    ASSUME TypeInv, Next
    PROVE  \/ \E t \in Tabs : UserStep(t)
           \/ \E j \in Jobs : ResumeStep(j) \/ ServeStep(j)
  BY UserSteps, SignInResumes, SignUpResumes, DeletionResumes, ServeIsServeStep,
     LossIsServeStep
     DEF Next, Continue

\* Each of the three keeps the types.
LEMMA UserStepTyped ==
    ASSUME TypeInv, NEW t \in Tabs, UserStep(t)
    PROVE  TypeInv'
  <1>0. /\ Len(session) \in Nat /\ CallsOK(job, Len(session)) /\ PagesOK /\ PageHasAccount
        /\ ServerOK /\ stored \in 0..Len(session)
    BY DEF TypeInv, ServerOK
  <1>1. PagesOK' /\ PageHasAccount' /\ CallsOK(job', Len(session))
    <2>1. CASE Goes(t)
      <3>1. \/ Mounts(t) /\ (job' = Unmount(t, job) \/ job' = Cut(t))
            \/ (\E p \in Pages : Stays(t, p)) /\ job' = job
        BY <1>0, <2>1, NavigateDoes, LoadDoes DEF Goes
      <3>2. CallsOK(Unmount(t, job), Len(session)) /\ CallsOK(Cut(t), Len(session))
        BY <1>0, UnmountOK, CutOK
      <3> QED
        BY <1>0, <3>1, <3>2, MountsTyped, StaysTyped
    <2>2. CASE Submits(t) \/ LogsOut(t)
      <3>1. PagesOK' /\ PageHasAccount'
        <4>1. CASE LogsOut(t)
          BY <1>0, <4>1 DEF LogsOut, PagesOK, PageHasAccount
        <4>2. CASE Submits(t)
          <5>1. [form[t] EXCEPT !.busy = TRUE] \in FormState
            BY <1>0 DEF PagesOK, FormState
          <5>2. /\ form' = [form EXCEPT ![t] = [form[t] EXCEPT !.busy = TRUE]]
                /\ page' = page
            BY <1>0, <4>2 DEF Submits, SetBusy, PagesOK
          <5>3. [form[t] EXCEPT !.busy = TRUE].who = form[t].who
            BY <1>0 DEF PagesOK, FormState
          <5> QED
            BY <1>0, <5>1, <5>2, <5>3 DEF PagesOK, PageHasAccount
        <4> QED
          BY <2>2, <4>1, <4>2
      <3>2. PICK kind \in FormKinds \cup {"logout"}, who \in Accounts,
                 key \in 0..Len(session) : Call(t, kind, who, key)
        BY <2>2 DEF Submits, LogsOut
      <3> DEFINE x == [kind |-> kind, tab |-> t, who |-> who,
                       key |-> key, tie |-> "form", state |-> "sent"]
      <3>3. CallOK(x, Len(session))
        BY <1>0 DEF CallOK, Job, FormKinds, Kinds
      <3>4. PICK j \in Jobs : job' = [job EXCEPT ![j] = x]
        BY <3>2 DEF Call
      <3> HIDE DEF x
      <3> QED
        BY <1>0, <3>1, <3>3, <3>4, PutOK
    <2>3. CASE Turns(t)
      <3>1. PICK step \in Steps : form' = [form EXCEPT ![t].step = step]
        BY <2>3 DEF Turns
      <3>2. /\ [form[t] EXCEPT !.step = step] \in FormState
            /\ [form[t] EXCEPT !.step = step].who = form[t].who
        BY <1>0 DEF PagesOK, FormState
      <3>3. /\ form' = [form EXCEPT ![t] = [form[t] EXCEPT !.step = step]]
            /\ page' = page
        BY <1>0, <2>3, <3>1 DEF Turns, PagesOK
      <3>4. PagesOK' /\ PageHasAccount'
        BY <1>0, <3>2, <3>3 DEF PagesOK, PageHasAccount
      <3> DEFINE x == [kind |-> "resend", tab |-> t, who |-> "nobody", key |-> 0,
                       tie |-> "form", state |-> "delayed"]
      <3>5. CallOK(x, Len(session))
        BY <1>0 DEF CallOK, Job, Kinds, Timers
      <3>6. job' = job \/ \E j \in Jobs : job' = [job EXCEPT ![j] = x]
        BY <2>3 DEF Turns
      <3> HIDE DEF x
      <3> QED
        BY <1>0, <3>4, <3>5, <3>6, PutOK
    <2>4. CASE Renews(t)
      <3>1. PICK who \in Accounts : form' = [form EXCEPT ![t].who = who]
        BY <2>4 DEF Renews
      <3>2. /\ [form[t] EXCEPT !.who = who] \in FormState
            /\ [form[t] EXCEPT !.who = who].who = who
        BY <1>0 DEF PagesOK, FormState, Viewers
      <3>3. /\ form' = [form EXCEPT ![t] = [form[t] EXCEPT !.who = who]]
            /\ page' = page /\ job' = job
        BY <1>0, <2>4, <3>1 DEF Renews, PagesOK
      <3> QED
        BY <1>0, <3>2, <3>3 DEF PagesOK, PageHasAccount
    <2> QED
      BY <2>1, <2>2, <2>3, <2>4 DEF UserStep
  <1> QED
    BY <1>1 DEF UserStep, serverVars, TypeInv, ServerOK

LEMMA FreeOK ==
    ASSUME TypeInv, NEW j \in Jobs
    PROVE  CallsOK(Free(j), Len(session))
  BY PutOK DEF Free, TypeInv, ServerOK

LEMMA ResumeStepTyped ==
    ASSUME TypeInv, NEW j \in Jobs, ResumeStep(j)
    PROVE  TypeInv'
  <1> DEFINE t == job[j].tab
  <1>0. /\ Len(session) \in Nat /\ CallsOK(job, Len(session)) /\ PagesOK /\ PageHasAccount
        /\ ServerOK /\ CallsOK(Free(j), Len(session)) /\ Pending(j)
    BY FreeOK DEF TypeInv, ServerOK, ResumeStep
  <1>1. t \in Tabs /\ job[j] \in Job /\ job[j].key <= Len(session)
    BY <1>0, PendingCall DEF CallOK
  <1>2. PagesOK' /\ PageHasAccount' /\ CallsOK(job', Len(session))
    <2>1. CASE Routes(j)
      <3>1. PICK target \in Pages, who \in Viewers, key \in 0..Len(session) :
              Navigate(t, target, who, key, Free(j))
        BY <2>1 DEF Routes
      <3>2. \/ Mounts(t) /\ job' = Unmount(t, Free(j))
            \/ Stays(t, target) /\ job' = Free(j)
        BY <1>0, <1>1, <3>1, NavigateDoes
      <3>3. CallsOK(Unmount(t, Free(j)), Len(session))
        BY <1>0, UnmountOK
      <3>4. ASSUME Mounts(t) PROVE PagesOK' /\ PageHasAccount'
        BY <1>0, <1>1, <3>4, MountsTyped
      <3>5. ASSUME Stays(t, target) PROVE PagesOK' /\ PageHasAccount'
        BY <1>0, <1>1, <3>5, StaysTyped
      <3> QED
        BY <1>0, <3>2, <3>3, <3>4, <3>5
    <2>2. CASE Shows(j)
      <3>1. PICK step \in Steps : Show(j, step)
        BY <2>2 DEF Shows
      <3> DEFINE f == [form[t] EXCEPT !.busy = FALSE, !.step = step]
      <3>2. f \in FormState /\ f.who = form[t].who
        BY <1>0, <1>1 DEF PagesOK, FormState
      <3>3. form' = form \/ form' = [form EXCEPT ![t] = f]
        BY <1>0, <1>1, <3>1 DEF Show, PagesOK
      <3>4. PagesOK' /\ PageHasAccount'
        <4> HIDE DEF f, t
        <4> QED
          BY <1>0, <1>1, <2>2, <3>2, <3>3 DEF Shows, PagesOK, PageHasAccount
      <3> DEFINE x == [job[j] EXCEPT !.kind = "redirect", !.who = "nobody",
                                     !.state = "delayed"]
      <3>5. CallOK(x, Len(session))
        BY <1>0, <1>1 DEF CallOK, Job, Kinds, Timers
      <3>6. job' = Free(j) \/ job' = [job EXCEPT ![j] = x]
        BY <1>0, <2>2 DEF Shows, CallsOK
      <3> HIDE DEF x
      <3> QED
        BY <1>0, <3>4, <3>5, <3>6, PutOK
    <2>3. CASE Passes(j)
      BY <1>0, <2>3 DEF Passes, PagesOK, PageHasAccount
    <2> QED
      BY <2>1, <2>2, <2>3 DEF ResumeStep
  <1> QED
    BY <1>2 DEF ResumeStep, serverVars, TypeInv, ServerOK

LEMMA ServeStepTyped ==
    ASSUME TypeInv, NEW j \in Jobs, ServeStep(j)
    PROVE  TypeInv'
  <1>1. /\ Len(session) \in Nat /\ Len(session') \in Nat /\ Len(session) <= Len(session')
        /\ ServerOK'
    BY DEF ServeStep, TypeInv, ServerOK
  <1>2. CallsOK(job, Len(session')) /\ CallsOK(Free(j), Len(session'))
    BY <1>1, FreeOK, MoreSessions DEF TypeInv
  <1>3. CallsOK(job', Len(session'))
    BY <1>1, <1>2, PutOK DEF ServeStep
  <1>4. /\ stored' \in 0..Len(session') /\ faults' \in 0..MaxFaults
    BY <1>1, WebAssumption DEF ServeStep, TypeInv
  <1> QED
    BY <1>1, <1>3, <1>4 DEF ServeStep, TypeInv, PagesOK, PageHasAccount

LEMMA InitTyped == Init => TypeInv
  <1> SUFFICES ASSUME Init PROVE TypeInv
    OBVIOUS
  <1>1. /\ session = <<>> /\ Len(session) = 0
        /\ session \in Seq([account : Accounts, live : BOOLEAN])
    BY DEF Init
  <1>2. "landing" \in Pages /\ "nobody" \in Viewers
    BY DEF Pages, Viewers
  <1>3. PagesOK /\ PageHasAccount
    BY <1>2, FreshOK DEF Init, PagesOK, PageHasAccount
  <1>4. CallsOK(job, Len(session))
    BY DEF Init, CallsOK
  <1> QED
    BY <1>1, <1>3, <1>4, WebAssumption DEF Init, TypeInv, ServerOK

LEMMA NextTyped == TypeInv /\ [Next]_vars => TypeInv'
  <1> SUFFICES ASSUME TypeInv, [Next]_vars PROVE TypeInv'
    OBVIOUS
  <1>1. CASE Next
    BY <1>1, NextSteps, UserStepTyped, ResumeStepTyped, ServeStepTyped
  <1>2. CASE UNCHANGED vars
    BY <1>2 DEF vars, serverVars, TypeInv, ServerOK, PagesOK, PageHasAccount
  <1> QED
    BY <1>1, <1>2

\* Pages, calls and the server's tables keep their types: in particular no deletion
\* page, and no call but a timer, ever lacks its account, however late answers arrive.
THEOREM TypeCorrect == Spec => []TypeOK
  <1>1. Spec => []TypeInv
    BY InitTyped, NextTyped, PTL DEF Spec
  <1> QED
    BY <1>1, TypeInvTypes, PTL

-----------------------------------------------------------------------------
(* One call for each form, and a form disabled for each call *)

\* Slot j holds a call that a form awaits.
OnForm(jobs, j) ==
    jobs[j] # NoJob /\ jobs[j].tie = "form" /\ jobs[j].kind \in FormKinds

\* The form that awaits call j is the one that sent it, and stands where it did.
AtHome(j) ==
    /\ form[job[j].tab].busy
    /\ page[job[j].tab] = HomeOf(job[j].kind)
    /\ job[j].kind = "request" => form[job[j].tab].step = "modal"
    /\ job[j].kind = "confirm" => form[job[j].tab].step = "code"

\* A busy form awaits a call, or went deaf when one of its calls failed.
Awaited(t) ==
    \/ \E j \in Jobs : OnForm(job, j) /\ job[j].tab = t
    \/ faults # 0 /\ form[t].step \in Deaf

CallInv ==
    /\ \A j, k \in Jobs :
         OnForm(job, j) /\ OnForm(job, k) /\ job[j].tab = job[k].tab => j = k
    /\ \A j \in Jobs : OnForm(job, j) => AtHome(j)
    /\ \A t \in Tabs : form[t].busy => Awaited(t)
    /\ \A j \in Jobs : Pending(j) /\ job[j].state = "failed" => faults # 0

\* Which calls are left to their forms when slots are freed and pages are left.
LEMMA FreeLeaves ==
    ASSUME TypeInv, NEW j \in Jobs, NEW k \in Jobs
    PROVE  /\ OnForm(Free(j), k) <=> OnForm(job, k) /\ k # j
           /\ Free(j)[k] = IF k = j THEN NoJob ELSE job[k]
  BY DEF OnForm, Free, TypeInv, CallsOK

LEMMA UnmountLeaves ==
    ASSUME NEW n, NEW jobs, CallsOK(jobs, n), NEW t, NEW k \in Jobs
    PROVE  /\ OnForm(Unmount(t, jobs), k) <=> OnForm(jobs, k) /\ jobs[k].tab # t
           /\ Unmount(t, jobs)[k] = NoJob <=> jobs[k] = NoJob
           /\ jobs[k] # NoJob => /\ Unmount(t, jobs)[k].tab = jobs[k].tab
                                 /\ Unmount(t, jobs)[k].kind = jobs[k].kind
                                 /\ Unmount(t, jobs)[k].state = jobs[k].state
  <1>1. CASE jobs[k] = NoJob
    BY <1>1 DEF Unmount, OnForm
  <1>2. CASE jobs[k] # NoJob
    <2> DEFINE x == [jobs[k] EXCEPT !.tie = "tab"]
    <2>1. jobs[k] \in Job
      BY <1>2 DEF CallsOK
    <2>2. /\ x \in Job /\ x.tie = "tab" /\ x.tab = jobs[k].tab
          /\ x.kind = jobs[k].kind /\ x.state = jobs[k].state
      BY <2>1 DEF Job
    <2>3. Unmount(t, jobs)[k] = IF jobs[k].tab = t /\ jobs[k].tie = "form" THEN x ELSE jobs[k]
      BY <1>2 DEF Unmount
    <2> HIDE DEF x
    <2> QED
      BY <1>2, <2>1, <2>2, <2>3, NoJobIsNone DEF OnForm
  <1> QED
    BY <1>1, <1>2

LEMMA CutLeaves ==
    ASSUME TypeInv, NEW t, NEW k \in Jobs
    PROVE  /\ OnForm(Cut(t), k) <=> OnForm(job, k) /\ job[k].tab # t
           /\ Cut(t)[k] # NoJob => /\ job[k] # NoJob
                                   /\ Cut(t)[k].tab = job[k].tab
                                   /\ Cut(t)[k].kind = job[k].kind
                                   /\ Cut(t)[k].state = job[k].state
  <1>1. CASE job[k] = NoJob
    BY <1>1 DEF Cut, OnForm, Pending
  <1>2. CASE job[k] # NoJob
    <2> DEFINE x == [job[k] EXCEPT !.tie = "none"]
    <2>1. job[k] \in Job
      BY <1>2 DEF TypeInv, CallsOK
    <2>2. /\ x \in Job /\ x.tie = "none" /\ x.tab = job[k].tab
          /\ x.kind = job[k].kind /\ x.state = job[k].state
      BY <2>1 DEF Job
    <2>3. Cut(t)[k] = IF job[k].tab # t THEN job[k]
                      ELSE IF job[k].state = "sent" THEN x ELSE NoJob
      BY <1>2 DEF Cut, Pending
    <2> HIDE DEF x
    <2> QED
      BY <1>2, <2>1, <2>2, <2>3, NoJobIsNone DEF OnForm
  <1> QED
    BY <1>1, <1>2

\* The page of a tab is replaced: its calls are on no form any more, the others are
\* as they were.
LEMMA MountsKeepsCalls ==
    ASSUME TypeInv, CallInv, NEW t \in Tabs, Mounts(t), faults' = faults,
           \A k \in Jobs :
             /\ OnForm(job', k) <=> OnForm(job, k) /\ job[k].tab # t
             /\ job'[k] # NoJob => /\ job[k] # NoJob
                                   /\ job'[k].tab = job[k].tab
                                   /\ job'[k].kind = job[k].kind
                                   /\ job'[k].state = job[k].state
    PROVE  CallInv'
  <1>1. /\ ~form'[t].busy
        /\ \A u \in Tabs : u # t => form'[u] = form[u] /\ page'[u] = page[u]
    BY DEF Mounts, TypeInv, PagesOK
  <1>2. \A k \in Jobs : OnForm(job', k) =>
          /\ OnForm(job, k) /\ job[k].tab # t /\ job'[k].tab = job[k].tab
          /\ job'[k].kind = job[k].kind /\ job[k].tab \in Tabs
    BY PendingCall DEF OnForm, Pending
  <1>3. \A k \in Jobs : OnForm(job', k) => AtHome(k)'
    BY <1>1, <1>2 DEF CallInv, AtHome
  <1>4. ASSUME NEW u \in Tabs, form'[u].busy PROVE Awaited(u)'
    <2>1. u # t /\ form[u].busy /\ Awaited(u)
      BY <1>1, <1>4 DEF CallInv
    <2>2. \A k \in Jobs : OnForm(job, k) /\ job[k].tab = u =>
                            OnForm(job', k) /\ job'[k].tab = u
      BY <2>1 DEF OnForm
    <2> QED
      BY <1>1, <2>1, <2>2 DEF Awaited
  <1> QED
    BY <1>2, <1>3, <1>4 DEF CallInv, Pending

\* Where the forms that are awaited stay as they are, with their calls, so does the
\* invariant.
LEMMA SameCalls ==
    ASSUME TypeInv, CallInv, faults' \in Nat, faults # 0 => faults' # 0,
           page' = page,
           \A u \in Tabs : form'[u].busy = form[u].busy /\ form'[u].step = form[u].step,
           \A k \in Jobs :
             /\ OnForm(job', k) <=> OnForm(job, k)
             /\ OnForm(job, k) => /\ job'[k].tab = job[k].tab
                                  /\ job'[k].kind = job[k].kind
             /\ job'[k] # NoJob /\ job'[k].state = "failed" => faults' # 0
    PROVE  CallInv'
  <1>1. \A k \in Jobs : OnForm(job, k) => job[k].tab \in Tabs
    BY PendingCall DEF OnForm, Pending
  <1>2. \A k \in Jobs : OnForm(job', k) => AtHome(k)'
    BY <1>1 DEF CallInv, AtHome
  <1>3. ASSUME NEW u \in Tabs, form'[u].busy PROVE Awaited(u)'
    BY <1>3 DEF CallInv, Awaited
  <1> QED
    BY <1>2, <1>3 DEF CallInv, Pending

LEMMA StaysSame ==
    ASSUME PagesOK, NEW t \in Tabs, NEW target, Stays(t, target)
    PROVE  /\ page' = page /\ page[t] = target
           /\ \A u \in Tabs : form'[u].busy = form[u].busy /\ form'[u].step = form[u].step
  BY DEF PagesOK, FormState, Stays

LEMMA GoesKeepsCalls ==
    ASSUME TypeInv, CallInv, NEW t \in Tabs, Goes(t), faults' = faults
    PROVE  CallInv'
  <1>0. PagesOK /\ ServerOK /\ stored \in 0..Len(session) /\ faults \in Nat
    BY WebAssumption DEF TypeInv
  <1>1. ASSUME Mounts(t), job' = Unmount(t, job) PROVE CallInv'
    <2>1. ASSUME NEW k \in Jobs
          PROVE  /\ OnForm(job', k) <=> OnForm(job, k) /\ job[k].tab # t
                 /\ job'[k] # NoJob => /\ job[k] # NoJob
                                       /\ job'[k].tab = job[k].tab
                                       /\ job'[k].kind = job[k].kind
                                       /\ job'[k].state = job[k].state
      BY <1>1, UnmountLeaves DEF TypeInv
    <2> QED
      BY <1>1, <2>1, MountsKeepsCalls
  <1>2. ASSUME Mounts(t), job' = Cut(t) PROVE CallInv'
    <2>1. ASSUME NEW k \in Jobs
          PROVE  /\ OnForm(job', k) <=> OnForm(job, k) /\ job[k].tab # t
                 /\ job'[k] # NoJob => /\ job[k] # NoJob
                                       /\ job'[k].tab = job[k].tab
                                       /\ job'[k].kind = job[k].kind
                                       /\ job'[k].state = job[k].state
      BY <1>2, CutLeaves
    <2> QED
      BY <1>2, <2>1, MountsKeepsCalls
  <1>3. ASSUME NEW p \in Pages, Stays(t, p), job' = job PROVE CallInv'
    <2>1. /\ page' = page
          /\ \A u \in Tabs : form'[u].busy = form[u].busy /\ form'[u].step = form[u].step
      BY <1>0, <1>3, StaysSame
    <2>2. \A k \in Jobs : job'[k] # NoJob /\ job'[k].state = "failed" => faults' # 0
      BY <1>3 DEF CallInv, Pending
    <2> QED
      BY <1>0, <1>3, <2>1, <2>2, SameCalls
  <1>4. ASSUME NEW p \in Pages, NEW who \in Viewers, Navigate(t, p, who, stored, job)
        PROVE  CallInv'
    BY <1>0, <1>1, <1>3, <1>4, NavigateDoes
  <1>5. ASSUME NEW p \in Pages, NEW who \in Viewers, Load(t, p, who)
        PROVE  CallInv'
    BY <1>2, <1>5, LoadDoes
  <1> QED
    BY <1>4, <1>5 DEF Goes

LEMMA SubmitsKeepsCalls ==
    ASSUME TypeInv, CallInv, NEW t \in Tabs, Submits(t), faults' = faults
    PROVE  CallInv'
  <1>1. PICK kind \in FormKinds, who \in Accounts, key \in 0..Len(session) :
          /\ Call(t, kind, who, key)
          /\ ~form[t].busy
          /\ SetBusy(t)
          /\ page[t] = HomeOf(kind)
          /\ kind = "request" => form[t].step = "modal"
          /\ kind = "confirm" => form[t].step = "code"
          /\ page' = page
    BY DEF Submits
  <1> DEFINE x == [kind |-> kind, tab |-> t, who |-> who,
                   key |-> key, tie |-> "form", state |-> "sent"]
  <1>2. PICK i \in Jobs : job[i] = NoJob /\ job' = [job EXCEPT ![i] = x]
    BY <1>1 DEF Call, Pending
  <1>3. /\ x.kind = kind /\ x.tab = t /\ x.tie = "form" /\ x.state = "sent"
        /\ x # NoJob
    BY DEF NoJob
  <1> HIDE DEF x
  <1>4. \A k \in Jobs : job'[k] = IF k = i THEN x ELSE job[k]
    BY <1>2 DEF TypeInv, CallsOK
  <1>5. /\ form'[t].busy /\ form'[t].step = form[t].step
        /\ \A u \in Tabs : u # t => form'[u] = form[u]
    BY <1>1 DEF SetBusy, TypeInv, PagesOK, FormState
  <1>6. \A k \in Jobs : OnForm(job, k) => job[k].tab \in Tabs /\ job[k].tab # t
    BY <1>1, PendingCall DEF OnForm, Pending, CallInv, AtHome
  <1>7. \A k \in Jobs : OnForm(job', k) <=> k = i \/ OnForm(job, k)
    BY <1>2, <1>3, <1>4 DEF OnForm
  <1>8. \A k \in Jobs : OnForm(job, k) => job'[k] = job[k]
    BY <1>2, <1>4 DEF OnForm
  <1>9. \A j, k \in Jobs :
          OnForm(job', j) /\ OnForm(job', k) /\ job'[j].tab = job'[k].tab => j = k
    BY <1>3, <1>4, <1>6, <1>7, <1>8 DEF CallInv
  <1>10. ASSUME NEW k \in Jobs, OnForm(job', k) PROVE AtHome(k)'
    <2>1. CASE k = i
      BY <1>1, <1>3, <1>4, <1>5, <2>1 DEF AtHome
    <2>2. CASE OnForm(job, k)
      BY <1>1, <1>5, <1>6, <1>8, <2>2 DEF AtHome, CallInv
    <2> QED
      BY <1>7, <1>10, <2>1, <2>2
  <1>11. ASSUME NEW u \in Tabs, form'[u].busy PROVE Awaited(u)'
    <2>1. CASE u = t
      BY <1>3, <1>4, <1>7, <2>1 DEF Awaited
    <2>2. CASE u # t
      BY <1>5, <1>7, <1>8, <1>11, <2>2 DEF Awaited, CallInv
    <2> QED
      BY <2>1, <2>2
  <1>12. \A k \in Jobs : job'[k] # NoJob /\ job'[k].state = "failed" => faults' # 0
    BY <1>3, <1>4 DEF CallInv, Pending
  <1> QED
    BY <1>9, <1>10, <1>11, <1>12 DEF CallInv, Pending

LEMMA LogsOutKeepsCalls ==
    ASSUME TypeInv, CallInv, NEW t \in Tabs, LogsOut(t), faults' = faults
    PROVE  CallInv'
  <1>1. PICK who \in Accounts, key \in 0..Len(session) : Call(t, "logout", who, key)
    BY DEF LogsOut
  <1> DEFINE x == [kind |-> "logout", tab |-> t, who |-> who,
                   key |-> key, tie |-> "form", state |-> "sent"]
  <1>2. PICK i \in Jobs : job[i] = NoJob /\ job' = [job EXCEPT ![i] = x]
    BY <1>1 DEF Call, Pending
  <1>3. x.kind \notin FormKinds /\ x.state = "sent"
    BY DEF FormKinds
  <1> HIDE DEF x
  <1>4. \A k \in Jobs : job'[k] = IF k = i THEN x ELSE job[k]
    BY <1>2 DEF TypeInv, CallsOK
  <1>5. ASSUME NEW k \in Jobs
        PROVE  /\ OnForm(job', k) <=> OnForm(job, k)
               /\ OnForm(job, k) => job'[k] = job[k]
               /\ job'[k] # NoJob /\ job'[k].state = "failed" => faults' # 0
    BY <1>2, <1>3, <1>4 DEF OnForm, CallInv, Pending
  <1>6. page' = page /\ form' = form /\ faults' \in Nat
    BY WebAssumption DEF LogsOut, TypeInv
  <1> QED
    BY <1>5, <1>6, SameCalls

LEMMA TurnsKeepsCalls ==
    ASSUME TypeInv, CallInv, NEW t \in Tabs, Turns(t), faults' = faults
    PROVE  CallInv'
  <1>1. PICK step \in Steps : form' = [form EXCEPT ![t].step = step]
    BY DEF Turns
  <1>2. /\ form'[t].busy = form[t].busy
        /\ \A u \in Tabs : u # t => form'[u] = form[u]
        /\ page' = page
    BY <1>1 DEF Turns, TypeInv, PagesOK, FormState
  <1>3. \A k \in Jobs :
          /\ OnForm(job', k) <=> OnForm(job, k)
          /\ OnForm(job, k) => job'[k] = job[k]
          /\ job'[k] # NoJob /\ job'[k].state = "failed" => faults' # 0
    <2>1. CASE job' = job
      BY <2>1 DEF CallInv, Pending
    <2>2. CASE job' # job
      <3> DEFINE x == [kind |-> "resend", tab |-> t, who |-> "nobody", key |-> 0,
                       tie |-> "form", state |-> "delayed"]
      <3>1. PICK i \in Jobs : job[i] = NoJob /\ job' = [job EXCEPT ![i] = x]
        BY <2>2 DEF Turns, Pending
      <3>2. x.kind \notin FormKinds /\ x.state = "delayed"
        BY DEF FormKinds
      <3> HIDE DEF x
      <3>3. \A k \in Jobs : job'[k] = IF k = i THEN x ELSE job[k]
        BY <3>1 DEF TypeInv, CallsOK
      <3> QED
        BY <3>1, <3>2, <3>3 DEF OnForm, CallInv, Pending
    <2> QED
      BY <2>1, <2>2
  <1>4. ASSUME NEW k \in Jobs, OnForm(job, k) PROVE AtHome(k)'
    <2>1. job[k].tab \in Tabs /\ AtHome(k) /\ job'[k] = job[k]
      BY <1>3, <1>4, PendingCall DEF OnForm, Pending, CallInv
    <2>2. CASE job[k].tab = t
      <3>1. form[t].busy /\ form[t].step \notin Deaf
        BY <2>1, <2>2 DEF AtHome, Turns
      <3>2. job[k].kind # "request" /\ job[k].kind # "confirm"
        BY <2>1, <2>2, <3>1 DEF AtHome, Deaf
      <3> QED
        BY <1>2, <2>1, <2>2, <3>1, <3>2 DEF AtHome
    <2>3. CASE job[k].tab # t
      BY <1>2, <2>1, <2>3 DEF AtHome
    <2> QED
      BY <2>2, <2>3
  <1>5. ASSUME NEW u \in Tabs, form'[u].busy PROVE Awaited(u)'
    <2>1. form[u].busy /\ Awaited(u)
      BY <1>2, <1>5 DEF CallInv
    <2>2. CASE u = t
      <3>1. form[t].step \notin Deaf
        BY <2>1, <2>2 DEF Turns
      <3> QED
        BY <1>3, <2>1, <2>2, <3>1 DEF Awaited
    <2>3. CASE u # t
      BY <1>2, <1>3, <2>1, <2>3 DEF Awaited
    <2> QED
      BY <2>2, <2>3
  <1> QED
    BY <1>3, <1>4, <1>5 DEF CallInv, Pending

\* A new account on the deletion page touches no call, and neither step nor busy flag.
LEMMA RenewsStays ==
    ASSUME PagesOK, NEW t \in Tabs, Renews(t)
    PROVE  /\ page' = page /\ job' = job
           /\ \A u \in Tabs : form'[u].busy = form[u].busy /\ form'[u].step = form[u].step
           /\ \A u \in Tabs : page[u] = "verify-otp" => form'[u].who = form[u].who
  BY DEF PagesOK, FormState, Renews

LEMMA RenewsKeepsCalls ==
    ASSUME TypeInv, CallInv, NEW t \in Tabs, Renews(t), faults' = faults
    PROVE  CallInv'
  <1>1. /\ page' = page /\ job' = job
        /\ \A u \in Tabs : form'[u].busy = form[u].busy /\ form'[u].step = form[u].step
    BY RenewsStays DEF TypeInv
  <1>2. \A k \in Jobs : job[k] # NoJob /\ job[k].state = "failed" => faults # 0
    BY DEF CallInv, Pending
  <1>3. faults' \in Nat
    BY DEF TypeInv
  <1> QED
    BY <1>1, <1>2, <1>3, SameCalls

LEMMA UserKeepsCalls ==
    ASSUME TypeInv, CallInv, NEW t \in Tabs, UserStep(t)
    PROVE  CallInv'
  BY GoesKeepsCalls, SubmitsKeepsCalls, LogsOutKeepsCalls, TurnsKeepsCalls,
     RenewsKeepsCalls DEF UserStep

LEMMA ServeKeepsCalls ==
    ASSUME TypeInv, CallInv, NEW j \in Jobs, ServeStep(j)
    PROVE  CallInv'
  <1>1. faults' \in Nat /\ (faults # 0 => faults' # 0) /\ page' = page /\ form' = form
    BY WebAssumption DEF ServeStep
  <1>2. CASE job[j].tie = "none" /\ job' = Free(j)
    <2>1. ASSUME NEW k \in Jobs
          PROVE  /\ OnForm(job', k) <=> OnForm(job, k)
                 /\ OnForm(job, k) => job'[k] = job[k]
                 /\ job'[k] # NoJob /\ job'[k].state = "failed" => faults' # 0
      BY <1>1, <1>2, FreeLeaves DEF OnForm, CallInv, Pending
    <2> QED
      BY <1>1, <2>1, SameCalls
  <1>3. ASSUME NEW x \in Job, job' = [job EXCEPT ![j] = x],
               x.kind = job[j].kind, x.tab = job[j].tab, x.tie = job[j].tie,
               x.state = "failed" => faults' # 0
        PROVE  CallInv'
    <2>1. \A k \in Jobs : job'[k] = IF k = j THEN x ELSE job[k]
      BY <1>3 DEF TypeInv, CallsOK
    <2>2. ASSUME NEW k \in Jobs
          PROVE  /\ OnForm(job', k) <=> OnForm(job, k)
                 /\ OnForm(job, k) => job'[k].tab = job[k].tab /\ job'[k].kind = job[k].kind
                 /\ job'[k] # NoJob /\ job'[k].state = "failed" => faults' # 0
      BY <1>1, <1>3, <2>1, NoJobIsNone DEF OnForm, CallInv, Pending, ServeStep
    <2> QED
      BY <1>1, <2>2, SameCalls
  <1> QED
    BY <1>2, <1>3 DEF ServeStep

\* A form that is told the result of its call is idle and awaits nothing any more; a
\* page that was left meanwhile is told nothing.
LEMMA ShowsKeepsCalls ==
    ASSUME TypeInv, CallInv, NEW j \in Jobs, Pending(j), Shows(j), faults' = faults
    PROVE  CallInv'
  <1> DEFINE t == job[j].tab
  <1>0. t \in Tabs /\ job[j] \in Job /\ faults \in Nat
    BY PendingCall, WebAssumption DEF TypeInv
  <1>1. PICK step \in Steps : Show(j, step)
    BY DEF Shows
  <1>2. \A k \in Jobs : /\ OnForm(job', k) <=> OnForm(job, k) /\ k # j
                        /\ k # j => job'[k] = job[k]
                        /\ job'[k] # NoJob /\ job'[k].state = "failed" => faults' # 0
    <2>1. CASE job' = Free(j)
      BY <2>1, FreeLeaves DEF CallInv, Pending
    <2>2. CASE job' # Free(j)
      <3> DEFINE x == [job[j] EXCEPT !.kind = "redirect", !.who = "nobody",
                                     !.state = "delayed"]
      <3>1. x.kind = "redirect" /\ x.state = "delayed"
        BY <1>0 DEF Job
      <3>2. job' = [job EXCEPT ![j] = x]
        BY <2>2 DEF Shows, TypeInv, CallsOK
      <3> HIDE DEF x
      <3>3. \A k \in Jobs : job'[k] = IF k = j THEN x ELSE job[k]
        BY <3>2 DEF TypeInv, CallsOK
      <3> QED
        BY <3>1, <3>3 DEF OnForm, FormKinds, CallInv, Pending
    <2> QED
      BY <2>1, <2>2
  <1>3. page' = page
    BY DEF Shows
  <1>4. CASE job[j].tie = "form"
    <2>1. OnForm(job, j)
      BY <1>4 DEF OnForm, Shows, Pending
    <2>2. /\ ~form'[t].busy
          /\ \A u \in Tabs : u # t => form'[u] = form[u]
      BY <1>0, <1>1, <1>4 DEF Show, TypeInv, PagesOK, FormState
    <2> HIDE DEF t
    <2>3. \A k \in Jobs : OnForm(job', k) =>
            OnForm(job, k) /\ job'[k] = job[k] /\ job[k].tab # t /\ job[k].tab \in Tabs
      BY <1>2, <2>1, PendingCall DEF CallInv, OnForm, Pending, t
    <2>4. \A k \in Jobs : OnForm(job', k) => AtHome(k)'
      BY <1>3, <2>2, <2>3 DEF CallInv, AtHome
    <2>5. ASSUME NEW u \in Tabs, form'[u].busy PROVE Awaited(u)'
      <3>1. u # t /\ form'[u] = form[u] /\ Awaited(u)
        BY <2>2, <2>5 DEF CallInv
      <3>2. \A k \in Jobs : OnForm(job, k) /\ job[k].tab = u =>
                              OnForm(job', k) /\ job'[k].tab = u
        BY <1>2, <3>1 DEF t
      <3> QED
        BY <3>1, <3>2 DEF Awaited
    <2> QED
      BY <1>2, <2>3, <2>4, <2>5 DEF CallInv, Pending
  <1>5. CASE job[j].tie # "form"
    <2>1. form' = form
      BY <1>1, <1>5 DEF Show
    <2>2. ~OnForm(job, j)
      BY <1>5 DEF OnForm
    <2>3. \A k \in Jobs : /\ OnForm(job', k) <=> OnForm(job, k)
                          /\ OnForm(job, k) => job'[k] = job[k]
                          /\ job'[k] # NoJob /\ job'[k].state = "failed" => faults' # 0
      BY <1>2, <2>2
    <2> HIDE DEF t
    <2> QED
      BY <1>0, <1>3, <2>1, <2>3, SameCalls
  <1> QED
    BY <1>4, <1>5

\* A page that is left by a continuation takes no call with it; one that stays has not
\* been waiting for this one.
LEMMA RoutesKeepsCalls ==
    ASSUME TypeInv, CallInv, NEW j \in Jobs, Pending(j), Routes(j), faults' = faults
    PROVE  CallInv'
  <1>0. /\ job[j].tab \in Tabs /\ faults \in Nat /\ PagesOK /\ ServerOK
        /\ CallsOK(Free(j), Len(session))
    BY PendingCall, FreeOK, WebAssumption DEF TypeInv
  <1>1. PICK t \in Tabs : t = job[j].tab
    BY <1>0
  <1>2. PICK target \in Pages, who \in Viewers, key \in 0..Len(session) :
          /\ Navigate(t, target, who, key, Free(j))
          /\ job[j].kind \in FormKinds => target # HomeOf(job[j].kind)
    BY <1>1 DEF Routes
  <1>3. \/ Mounts(t) /\ job' = Unmount(t, Free(j))
        \/ Stays(t, target) /\ job' = Free(j)
    BY <1>0, <1>2, NavigateDoes
  <1>4. CASE Mounts(t) /\ job' = Unmount(t, Free(j))
    <2>1. ASSUME NEW k \in Jobs
          PROVE  /\ OnForm(job', k) <=> OnForm(job, k) /\ job[k].tab # t
                 /\ job'[k] # NoJob => /\ job[k] # NoJob
                                       /\ job'[k].tab = job[k].tab
                                       /\ job'[k].kind = job[k].kind
                                       /\ job'[k].state = job[k].state
      <3>1. /\ OnForm(Free(j), k) <=> OnForm(job, k) /\ k # j
            /\ Free(j)[k] = IF k = j THEN NoJob ELSE job[k]
        BY FreeLeaves
      <3>2. /\ OnForm(job', k) <=> OnForm(Free(j), k) /\ Free(j)[k].tab # t
            /\ job'[k] = NoJob <=> Free(j)[k] = NoJob
            /\ Free(j)[k] # NoJob => /\ job'[k].tab = Free(j)[k].tab
                                     /\ job'[k].kind = Free(j)[k].kind
                                     /\ job'[k].state = Free(j)[k].state
        BY <1>0, <1>4, UnmountLeaves
      <3> QED
        BY <1>1, <3>1, <3>2
    <2> QED
      BY <1>4, <2>1, MountsKeepsCalls
  <1>5. CASE Stays(t, target) /\ job' = Free(j)
    <2>1. /\ page' = page /\ page[t] = target
          /\ \A u \in Tabs : form'[u].busy = form[u].busy /\ form'[u].step = form[u].step
      BY <1>0, <1>5, StaysSame
    <2>2. ~OnForm(job, j)
      BY <1>1, <1>2, <2>1 DEF OnForm, CallInv, AtHome
    <2>3. \A k \in Jobs : /\ OnForm(job', k) <=> OnForm(job, k)
                          /\ OnForm(job, k) => job'[k] = job[k]
                          /\ job'[k] # NoJob /\ job'[k].state = "failed" => faults' # 0
      BY <1>5, <2>2, FreeLeaves DEF CallInv, Pending
    <2> QED
      BY <1>0, <2>1, <2>3, SameCalls
  <1> QED
    BY <1>3, <1>4, <1>5

\* A rejection that nobody catches leaves its form busy.
LEMMA PassesKeepsCalls ==
    ASSUME TypeInv, CallInv, NEW j \in Jobs, Pending(j), Passes(j), faults' = faults
    PROVE  CallInv'
  <1>1. /\ \A k \in Jobs : /\ OnForm(job', k) <=> OnForm(job, k) /\ k # j
                           /\ k # j => job'[k] = job[k]
                           /\ job'[k] # NoJob => k # j
        /\ page' = page /\ form' = form
    BY FreeLeaves DEF Passes
  <1>2. \A k \in Jobs : OnForm(job', k) => AtHome(k)'
    BY <1>1 DEF CallInv, AtHome
  <1>3. OnForm(job, j) => faults # 0 /\ form[job[j].tab].step \in Deaf
    BY DEF Passes, OnForm, FormKinds, CallInv, AtHome, Deaf
  <1>4. ASSUME NEW u \in Tabs, form'[u].busy PROVE Awaited(u)'
    <2>1. Awaited(u)
      BY <1>1, <1>4 DEF CallInv
    <2>2. CASE OnForm(job, j) /\ job[j].tab = u
      BY <1>1, <1>3, <2>2 DEF Awaited
    <2>3. CASE ~(OnForm(job, j) /\ job[j].tab = u)
      BY <1>1, <2>1, <2>3 DEF Awaited
    <2> QED
      BY <2>2, <2>3
  <1> QED
    BY <1>1, <1>2, <1>4 DEF CallInv, Pending

LEMMA NextKeepsCalls == TypeInv /\ CallInv /\ [Next]_vars => CallInv'
  <1> SUFFICES ASSUME TypeInv, CallInv, [Next]_vars PROVE CallInv'
    OBVIOUS
  <1>1. ASSUME NEW j \in Jobs, ResumeStep(j) PROVE CallInv'
    BY <1>1, RoutesKeepsCalls, ShowsKeepsCalls, PassesKeepsCalls DEF ResumeStep
  <1>2. CASE Next
    BY <1>1, <1>2, NextSteps, UserKeepsCalls, ServeKeepsCalls
  <1>3. CASE UNCHANGED vars
    BY <1>3 DEF vars, CallInv, AtHome, Awaited, OnForm, Pending
  <1> QED
    BY <1>2, <1>3

LEMMA CallsInvariant == Spec => [](TypeInv /\ CallInv)
  <1>1. Init => TypeInv /\ CallInv
    <2> SUFFICES ASSUME Init PROVE CallInv
      BY InitTyped
    <2>1. /\ \A j \in Jobs : job[j] = NoJob
          /\ \A t \in Tabs : ~form[t].busy
      BY FreshOK DEF Init, Viewers
    <2> QED
      BY <2>1 DEF CallInv, OnForm, Pending
  <1> QED
    BY <1>1, NextTyped, NextKeepsCalls, PTL DEF Spec

\* What the properties call the running calls of a tab.
LEMMA RunningCalls ==
    ASSUME TypeInv, NEW t \in Tabs
    PROVE  /\ Running(t) = {j \in Jobs : OnForm(job, j) /\ job[j].tab = t}
           /\ IsFiniteSet(Running(t))
  <1>1. Running(t) = {j \in Jobs : OnForm(job, j) /\ job[j].tab = t}
    BY DEF Running, OnForm, Pending
  <1>2. Running(t) \subseteq Jobs
    BY <1>1
  <1> QED
    BY <1>1, <1>2, WebAssumption, FS_Subset

\* Whatever is pressed, left and answered in whatever order, in any number of tabs, a
\* form has one call under way at most, and is disabled while it has.
THEOREM OneCall == Spec => []OneCallPerForm
  <1>1. TypeInv /\ CallInv => OneCallPerForm
    <2> SUFFICES ASSUME TypeInv, CallInv, NEW t \in Tabs
                 PROVE  /\ Cardinality(Running(t)) <= 1
                        /\ Running(t) # {} => form[t].busy
      BY DEF OneCallPerForm
    <2>1. Running(t) = {j \in Jobs : OnForm(job, j) /\ job[j].tab = t}
      BY RunningCalls
    <2>2. Running(t) # {} => form[t].busy
      BY <2>1 DEF CallInv, AtHome
    <2>3. Cardinality(Running(t)) <= 1
      <3>1. CASE Running(t) = {}
        BY <3>1, FS_EmptySet
      <3>2. CASE Running(t) # {}
        <4>1. PICK j \in Running(t) : TRUE
          BY <3>2
        <4>2. Running(t) = {j}
          BY <2>1, <4>1 DEF CallInv
        <4> QED
          BY <4>2, FS_Singleton
      <3> QED
        BY <3>1, <3>2
    <2> QED
      BY <2>2, <2>3
  <1> QED
    BY <1>1, CallsInvariant, PTL

\* No form stays disabled, but the deletion page after a call that got no answer.
THEOREM BusyAwait == Spec => []BusyFormsAwait
  <1>1. TypeInv /\ CallInv => BusyFormsAwait
    <2> SUFFICES ASSUME TypeInv, CallInv, NEW t \in Tabs, form[t].busy
                 PROVE  \/ Running(t) # {}
                        \/ faults > 0 /\ form[t].step \in {"modal", "code"}
      BY DEF BusyFormsAwait
    <2>1. faults \in Nat
      BY WebAssumption DEF TypeInv
    <2>2. Awaited(t)
      BY DEF CallInv
    <2> QED
      BY <2>1, <2>2, RunningCalls DEF Awaited, Deaf
  <1> QED
    BY <1>1, CallsInvariant, PTL

-----------------------------------------------------------------------------
(* What becomes of each call: it descends from itself, or is new *)

\* Calls x and y differ at most in what is left of their issuer.
SameCall(x, y) ==
    /\ x.kind = y.kind /\ x.tab = y.tab /\ x.who = y.who
    /\ x.key = y.key /\ x.state = y.state

\* The router and the document change the ties of the calls of their tab only.
LEMMA UnmountTies ==
    ASSUME NEW n, NEW jobs, CallsOK(jobs, n), NEW t, NEW k \in Jobs
    PROVE  /\ Unmount(t, jobs)[k] = NoJob <=> jobs[k] = NoJob
           /\ jobs[k] # NoJob =>
                /\ SameCall(Unmount(t, jobs)[k], jobs[k])
                /\ Unmount(t, jobs)[k].tie = "form" =>
                     jobs[k].tie = "form" /\ jobs[k].tab # t
                /\ Unmount(t, jobs)[k].tie = "none" <=> jobs[k].tie = "none"
  <1>1. CASE jobs[k] = NoJob
    BY <1>1 DEF Unmount
  <1>2. CASE jobs[k] # NoJob
    <2> DEFINE x == [jobs[k] EXCEPT !.tie = "tab"]
    <2>1. jobs[k] \in Job
      BY <1>2 DEF CallsOK
    <2>2. x \in Job /\ x.tie = "tab" /\ SameCall(x, jobs[k])
      BY <2>1 DEF Job, SameCall
    <2>3. Unmount(t, jobs)[k] = IF jobs[k].tab = t /\ jobs[k].tie = "form" THEN x ELSE jobs[k]
      BY <1>2 DEF Unmount
    <2>4. SameCall(jobs[k], jobs[k])
      BY DEF SameCall
    <2> HIDE DEF x
    <2> QED
      BY <1>2, <2>1, <2>2, <2>3, <2>4, NoJobIsNone
  <1> QED
    BY <1>1, <1>2

LEMMA CutTies ==
    ASSUME TypeInv, NEW t, NEW k \in Jobs, Cut(t)[k] # NoJob
    PROVE  /\ job[k] # NoJob /\ SameCall(Cut(t)[k], job[k])
           /\ Cut(t)[k].tie = "form" => job[k].tie = "form" /\ job[k].tab # t
  <1> DEFINE x == [job[k] EXCEPT !.tie = "none"]
  <1>1. job[k] # NoJob
    BY DEF Cut, Pending
  <1>2. job[k] \in Job
    BY <1>1 DEF TypeInv, CallsOK
  <1>3. x \in Job /\ x.tie = "none" /\ SameCall(x, job[k])
    BY <1>2 DEF Job, SameCall
  <1>4. Cut(t)[k] = IF job[k].tab # t THEN job[k]
                    ELSE IF job[k].state = "sent" THEN x ELSE NoJob
    BY <1>1 DEF Cut, Pending
  <1>5. SameCall(job[k], job[k])
    BY DEF SameCall
  <1> HIDE DEF x
  <1> QED
    BY <1>1, <1>2, <1>3, <1>4, <1>5

\* Slot k holds the call it held, and a form that still awaits it shows its page.
Descends(k) ==
    /\ job[k] # NoJob
    /\ SameCall(job'[k], job[k])
    /\ job'[k].tie = "form" =>
         job[k].tie = "form" /\ page'[job[k].tab] = page[job[k].tab]

\* The user of tab t has just made call k.
Begins(t, k) ==
    /\ job'[k].state \in {"sent", "delayed"} /\ job'[k].tab = t
    /\ page' = page
    /\ job'[k].kind = "logout" => page[t] \in Protected
    /\ job'[k].kind = "confirm" =>
         /\ page[t] = "delete-account" /\ form[t].step = "code"
         /\ stored # 0 /\ job'[k].who = session[stored].account

LEMMA UserCalls ==
    ASSUME TypeInv, NEW t \in Tabs, UserStep(t), NEW k \in Jobs, job'[k] # NoJob
    PROVE  Descends(k) \/ Begins(t, k)
  <1>0. PagesOK /\ ServerOK /\ stored \in 0..Len(session) /\ CallsOK(job, Len(session))
    BY DEF TypeInv
  <1>1. SameCall(job[k], job[k])
    BY DEF SameCall
  <1>2. job[k] # NoJob => job[k].tab \in Tabs
    BY PendingCall DEF Pending
  <1>3. CASE Goes(t)
    <2>1. \/ Mounts(t) /\ (job' = Unmount(t, job) \/ job' = Cut(t))
          \/ page' = page /\ job' = job
      BY <1>0, <1>3, NavigateDoes, LoadDoes DEF Goes, Stays
    <2>2. CASE page' = page /\ job' = job
      BY <1>1, <2>2 DEF Descends
    <2>3. CASE Mounts(t) /\ (job' = Unmount(t, job) \/ job' = Cut(t))
      <3>1. /\ job[k] # NoJob /\ SameCall(job'[k], job[k])
            /\ job'[k].tie = "form" => job[k].tie = "form" /\ job[k].tab # t
        BY <1>0, <2>3, UnmountTies, CutTies
      <3>2. \A u \in Tabs : u # t => page'[u] = page[u]
        BY <1>0, <2>3 DEF Mounts, PagesOK
      <3> QED
        BY <1>2, <3>1, <3>2 DEF Descends
    <2> QED
      BY <2>1, <2>2, <2>3
  <1>4. ASSUME NEW kind, NEW who, NEW key, Call(t, kind, who, key), page' = page,
               kind = "logout" => page[t] \in Protected,
               kind = "confirm" =>
                 /\ page[t] = "delete-account" /\ form[t].step = "code"
                 /\ stored # 0 /\ who = session[stored].account
        PROVE  Descends(k) \/ Begins(t, k)
    <2> DEFINE x == [kind |-> kind, tab |-> t, who |-> who,
                     key |-> key, tie |-> "form", state |-> "sent"]
    <2>1. PICK i \in Jobs : job' = [job EXCEPT ![i] = x]
      BY <1>4 DEF Call
    <2>2. /\ x.kind = kind /\ x.tab = t /\ x.who = who /\ x.state = "sent"
      OBVIOUS
    <2> HIDE DEF x
    <2>3. job'[k] = x \/ job'[k] = job[k]
      BY <1>0, <2>1 DEF CallsOK
    <2> QED
      BY <1>1, <1>4, <2>2, <2>3 DEF Descends, Begins
  <1>5. CASE Submits(t)
    BY <1>4, <1>5 DEF Submits, FormKinds, HomeOf
  <1>6. CASE LogsOut(t)
    BY <1>4, <1>6 DEF LogsOut
  <1>7. CASE Turns(t)
    <2> DEFINE x == [kind |-> "resend", tab |-> t, who |-> "nobody", key |-> 0,
                     tie |-> "form", state |-> "delayed"]
    <2>1. x.kind = "resend" /\ x.tab = t /\ x.state = "delayed"
      OBVIOUS
    <2>2. job' = job \/ \E i \in Jobs : job' = [job EXCEPT ![i] = x]
      BY <1>7 DEF Turns
    <2> HIDE DEF x
    <2>3. job'[k] = x \/ job'[k] = job[k]
      BY <1>0, <2>2 DEF CallsOK
    <2> QED
      BY <1>1, <1>7, <2>1, <2>3 DEF Turns, Descends, Begins
  <1>8. CASE Renews(t)
    BY <1>1, <1>8 DEF Renews, Descends
  <1> QED
    BY <1>3, <1>5, <1>6, <1>7, <1>8 DEF UserStep

\* A continuation ends its call, or leaves the timer of the redirect.
LEMMA ResumeCalls ==
    ASSUME TypeInv, NEW j \in Jobs, ResumeStep(j), NEW k \in Jobs, job'[k] # NoJob
    PROVE  \/ k # j /\ Descends(k)
           \/ k = j /\ job'[k].kind = "redirect" /\ job'[k].state = "delayed"
  <1>0. /\ PagesOK /\ ServerOK /\ CallsOK(job, Len(session)) /\ CallsOK(Free(j), Len(session))
        /\ Pending(j) /\ job[j].tab \in Tabs /\ job[j] \in Job
    BY FreeOK, PendingCall DEF TypeInv, ResumeStep
  <1>1. SameCall(job[k], job[k])
    BY DEF SameCall
  <1>2. job[k] # NoJob => job[k].tab \in Tabs
    BY PendingCall DEF Pending
  <1>3. Free(j)[k] = IF k = j THEN NoJob ELSE job[k]
    BY FreeLeaves
  <1>4. CASE job' = Free(j) /\ page' = page
    BY <1>1, <1>3, <1>4 DEF Descends
  <1>5. CASE Routes(j)
    <2>1. PICK t \in Tabs : t = job[j].tab
      BY <1>0
    <2>2. \/ Mounts(t) /\ job' = Unmount(t, Free(j))
          \/ page' = page /\ job' = Free(j)
      BY <1>0, <1>5, <2>1, NavigateDoes DEF Routes, Stays
    <2>3. CASE Mounts(t) /\ job' = Unmount(t, Free(j))
      <3>1. /\ Free(j)[k] # NoJob /\ SameCall(job'[k], Free(j)[k])
            /\ job'[k].tie = "form" => Free(j)[k].tie = "form" /\ Free(j)[k].tab # t
        BY <1>0, <2>3, UnmountTies
      <3>2. \A u \in Tabs : u # t => page'[u] = page[u]
        BY <1>0, <2>3 DEF Mounts, PagesOK
      <3> QED
        BY <1>2, <1>3, <3>1, <3>2 DEF Descends
    <2> QED
      BY <1>4, <2>2, <2>3
  <1>6. CASE Shows(j)
    <2> DEFINE x == [job[j] EXCEPT !.kind = "redirect", !.who = "nobody",
                                   !.state = "delayed"]
    <2>1. x.kind = "redirect" /\ x.state = "delayed"
      BY <1>0 DEF Job
    <2>2. job' = Free(j) \/ job' = [job EXCEPT ![j] = x]
      BY <1>0, <1>6 DEF Shows, CallsOK
    <2> HIDE DEF x
    <2>3. CASE job' = [job EXCEPT ![j] = x]
      <3>1. job'[k] = IF k = j THEN x ELSE job[k]
        BY <1>0, <2>3 DEF CallsOK
      <3> QED
        BY <1>1, <1>6, <2>1, <3>1 DEF Shows, Descends
    <2> QED
      BY <1>4, <1>6, <2>2, <2>3 DEF Shows
  <1>7. CASE Passes(j)
    BY <1>4, <1>7 DEF Passes
  <1> QED
    BY <1>5, <1>6, <1>7 DEF ResumeStep

\* What the server does to a call leaves the others, and this one to its issuer.
LEMMA ServeCalls ==
    ASSUME TypeInv, NEW j \in Jobs, ServeStep(j), NEW k \in Jobs, job'[k] # NoJob
    PROVE  /\ job[k] # NoJob
           /\ job'[k].kind = job[k].kind /\ job'[k].tab = job[k].tab
           /\ job'[k].tie = job[k].tie /\ job'[k].who = job[k].who
           /\ k # j => job'[k] = job[k]
  <1>1. CASE job' = Free(j)
    BY <1>1, FreeLeaves
  <1>2. ASSUME NEW x, job' = [job EXCEPT ![j] = x], x.kind = job[j].kind,
               x.tab = job[j].tab, x.tie = job[j].tie, x.who = job[j].who
        PROVE  /\ job[k] # NoJob
               /\ job'[k].kind = job[k].kind /\ job'[k].tab = job[k].tab
               /\ job'[k].tie = job[k].tie /\ job'[k].who = job[k].who
               /\ k # j => job'[k] = job[k]
    <2>1. job'[k] = IF k = j THEN x ELSE job[k]
      BY <1>2 DEF TypeInv, CallsOK
    <2> QED
      BY <1>2, <2>1 DEF ServeStep, Pending
  <1> QED
    BY <1>1, <1>2 DEF ServeStep

-----------------------------------------------------------------------------
(* What an answer says is true *)

\* A session that a login was given is one of its account, and is not the 0 that
\* localStorage holds for none; a deletion that was confirmed has happened.
TrueAnswer(x) ==
    /\ x.kind \in {"login", "reverify"} /\ x.state = "ok" =>
         x.key # 0 /\ session[x.key].account = x.who
    /\ x.kind = "confirm" /\ x.state = "ok" =>
         \E a \in Accounts : standing[a] = "deleted"

AnswerInv == \A j \in Jobs : Pending(j) => TrueAnswer(job[j])

\* A deleted account stays so, and a session stays with its account.
Lasts ==
    /\ \A a \in Accounts : standing[a] = "deleted" => standing'[a] = "deleted"
    /\ \A k \in 1..Len(session) : session'[k].account = session[k].account
    /\ Len(session) <= Len(session')

LEMMA ServerLasts ==
    ASSUME TypeInv, UNCHANGED serverVars
    PROVE  Lasts
  BY DEF serverVars, Lasts, TypeInv, ServerOK

\* What is true stays true.
LEMMA TruthLasts ==
    ASSUME TypeInv, Lasts, NEW j \in Jobs, NEW x, Pending(j), TrueAnswer(job[j]),
           SameCall(x, job[j]), job'[j] = x
    PROVE  TrueAnswer(job[j])'
  <1>1. job[j].key \in 0..Len(session) /\ Len(session) \in Nat
    BY PendingCall DEF TypeInv, ServerOK
  <1>2. job[j].key # 0 => session'[job[j].key].account = session[job[j].key].account
    BY <1>1 DEF Lasts
  <1> QED
    BY <1>2 DEF TrueAnswer, Lasts, SameCall

\* The answer of the server, and what it did for it.
LEMMA ServeIsTrue ==
    ASSUME TypeInv, AnswerInv, NEW j \in Jobs, Serve(j) \/ Lose(j) \/ Forget(j)
    PROVE  /\ Lasts
           /\ Pending(j)' => TrueAnswer(job[j])'
           /\ \A a \in Accounts :
                standing'[a] = "deleted" /\ standing[a] # "deleted" =>
                  job[j].kind = "confirm" /\ job[j].who = a
  <1> DEFINE S == [account : Accounts, live : BOOLEAN]
  <1>0. /\ session \in Seq(S) /\ Len(session) \in Nat
        /\ standing \in [Accounts -> {"none", "pending", "active", "deleted"}]
        /\ job \in [Jobs -> Job \cup {NoJob}]
    BY DEF TypeInv, ServerOK, CallsOK
  <1>1. DOMAIN session = 1..Len(session) /\ \A k \in 1..Len(session) : session[k] \in S
    <2> HIDE DEF S
    <2> QED
      BY <1>0
  <1>2. Pending(j) => job[j] \in Job
    BY PendingCall
  \* An answer whose call is not a login, nor a deletion that was confirmed, says
  \* nothing that could be wrong.
  <1>3. ASSUME NEW state, Pending(j), \/ job' = Free(j)
                                      \/ job' = [job EXCEPT ![j].state = state],
               \/ job[j].kind \notin {"login", "reverify", "confirm"}
               \/ state # "ok"
        PROVE  Pending(j)' => TrueAnswer(job[j])'
    <2>1. CASE job' = Free(j)
      BY <2>1, FreeLeaves DEF Pending
    <2>2. CASE job' = [job EXCEPT ![j].state = state]
      <3>1. job'[j].kind = job[j].kind /\ job'[j].state = state
        BY <1>0, <1>2, <1>3, <2>2 DEF Job
      <3> QED
        BY <1>3, <3>1 DEF TrueAnswer
    <2> QED
      BY <1>3, <2>1, <2>2
  <1>4. CASE Serve_Register(j) \/ Serve_Verify(j)
    <2>1. /\ session' = session /\ Pending(j) /\ job[j].kind \in {"register", "verify"}
          /\ job' = Free(j) \/ job' = [job EXCEPT ![j].state = "ok"]
      BY <1>4 DEF Serve_Register, Serve_Verify, Awaits, Answer
    <2>2. \A a \in Accounts : standing'[a] = "deleted" <=> standing[a] = "deleted"
      BY <1>0, <1>4 DEF Serve_Register, Serve_Verify
    <2>3. Lasts
      BY <1>0, <2>1, <2>2 DEF Lasts
    <2>4. Pending(j)' => TrueAnswer(job[j])'
      BY <1>3, <2>1
    <2> QED
      BY <2>2, <2>3, <2>4
  <1>5. CASE Serve_Login(j)
    <2>1. /\ Pending(j) /\ job[j].kind \in {"login", "reverify"}
          /\ standing' = standing
          /\ session' = Append(session, [account |-> job[j].who, live |-> TRUE])
      BY <1>5 DEF Serve_Login, Awaits
    <2>2. /\ Len(session') = Len(session) + 1
          /\ session'[Len(session')].account = job[j].who
          /\ \A k \in 1..Len(session) : session'[k] = session[k]
      <3> HIDE DEF S
      <3> QED
        BY <1>0, <2>1
    <2>3. Lasts
      BY <1>0, <2>1, <2>2 DEF Lasts
    <2>4. Pending(j)' => TrueAnswer(job[j])'
      <3>1. CASE job' = Free(j)
        BY <3>1, FreeLeaves DEF Pending
      <3>2. CASE job' # Free(j)
        <4>1. job' = [job EXCEPT ![j].state = "ok", ![j].key = Len(session')]
          BY <1>5, <3>2 DEF Serve_Login
        <4>2. /\ job'[j].kind = job[j].kind /\ job'[j].key = Len(session')
              /\ job'[j].who = job[j].who
          BY <1>0, <1>2, <2>1, <4>1 DEF Job
        <4> QED
          BY <1>0, <2>1, <2>2, <4>2 DEF TrueAnswer
      <3> QED
        BY <3>1, <3>2
    <2> QED
      BY <2>1, <2>3, <2>4
  <1>6. CASE Serve_Logout(j)
    <2>1. /\ Pending(j) /\ job[j].kind = "logout" /\ standing' = standing
          /\ session' = [session EXCEPT ![job[j].key].live = FALSE]
          /\ job' = Free(j) \/ job' = [job EXCEPT ![j].state = "ok"]
      BY <1>6 DEF Serve_Logout, Awaits, Answer
    <2>2. Len(session') = Len(session)
      <3>1. DOMAIN session' = DOMAIN session
        BY <2>1
      <3>2. session' \in Seq(S)
        BY <1>6, ServeIsServeStep DEF Serve, ServeStep, ServerOK
      <3> HIDE DEF S
      <3> QED
        BY <1>0, <3>1, <3>2
    <2>3. \A k \in 1..Len(session) : session'[k].account = session[k].account
      BY <1>1, <2>1
    <2>4. Lasts
      BY <1>0, <2>1, <2>2, <2>3 DEF Lasts
    <2> QED
      BY <1>3, <2>1, <2>4
  <1>7. CASE Serve_Request(j)
    <2>1. /\ session' = session /\ Pending(j) /\ job[j].kind = "request"
          /\ standing' = standing
          /\ job' = Free(j) \/ job' = [job EXCEPT ![j].state = "ok"]
      BY <1>7 DEF Serve_Request, Awaits, Answer
    <2>2. Lasts
      BY <1>0, <2>1 DEF Lasts
    <2> QED
      BY <1>3, <2>1, <2>2
  <1>8. CASE Serve_Confirm(j)
    <2>1. /\ Pending(j) /\ job[j].kind = "confirm"
          /\ standing' = [standing EXCEPT ![job[j].who] = "deleted"]
          /\ session' = [k \in DOMAIN session |->
                           IF session[k].account = job[j].who
                             THEN [session[k] EXCEPT !.live = FALSE] ELSE session[k]]
      BY <1>8 DEF Serve_Confirm, Awaits
    <2>2. job[j].who \in Accounts
      BY <2>1, PendingCall DEF Timers
    <2>3. /\ standing'[job[j].who] = "deleted"
          /\ \A a \in Accounts : a # job[j].who => standing'[a] = standing[a]
      BY <1>0, <2>1, <2>2
    <2>4. Len(session') = Len(session)
      <3>1. DOMAIN session' = DOMAIN session
        BY <2>1
      <3>2. session' \in Seq(S)
        BY <1>8, ServeIsServeStep DEF Serve, ServeStep, ServerOK
      <3> HIDE DEF S
      <3> QED
        BY <1>0, <3>1, <3>2
    <2>5. \A k \in 1..Len(session) : session'[k].account = session[k].account
      BY <1>1, <2>1
    <2>6. Lasts
      BY <1>0, <2>3, <2>4, <2>5 DEF Lasts
    <2>7. Pending(j)' => TrueAnswer(job[j])'
      <3>1. Pending(j)' => job'[j].kind = job[j].kind
        BY <1>8, ServeIsServeStep, ServeCalls DEF Serve, Pending
      <3> QED
        BY <2>1, <2>2, <2>3, <3>1 DEF TrueAnswer
    <2> QED
      BY <2>1, <2>3, <2>6, <2>7
  <1>9. CASE Serve_Refuse(j)
    <2>1. /\ Pending(j) /\ UNCHANGED serverVars
          /\ job' = Free(j) \/ job' = [job EXCEPT ![j].state = "refused"]
      BY <1>9 DEF Serve_Refuse, Answer
    <2> QED
      BY <1>3, <2>1, ServerLasts DEF serverVars
  <1>10. CASE Lose(j)
    <2>1. /\ Pending(j) /\ UNCHANGED serverVars
          /\ job' = [job EXCEPT ![j].state = "failed"]
      BY <1>10 DEF Lose
    <2> QED
      BY <1>3, <2>1, ServerLasts DEF serverVars
  <1>11. CASE Forget(j)
    <2>1. /\ Pending(j) /\ UNCHANGED serverVars /\ job' = Free(j)
      BY <1>11 DEF Forget
    <2> QED
      BY <2>1, FreeLeaves, ServerLasts DEF serverVars, Pending
  <1> QED
    BY <1>4, <1>5, <1>6, <1>7, <1>8, <1>9, <1>10, <1>11 DEF Serve

\* The three kinds of steps again, the last with its action.
LEMMA NextParts ==
    ASSUME TypeInv, Next
    PROVE  \/ \E t \in Tabs : UserStep(t)
           \/ \E j \in Jobs : ResumeStep(j)
           \/ \E j \in Jobs : (Serve(j) \/ Lose(j) \/ Forget(j)) /\ ServeStep(j)
  BY UserSteps, SignInResumes, SignUpResumes, DeletionResumes, ServeIsServeStep,
     LossIsServeStep
     DEF Next, Continue

LEMMA NextAnswers == TypeInv /\ AnswerInv /\ [Next]_vars => AnswerInv'
  <1> SUFFICES ASSUME TypeInv, AnswerInv, [Next]_vars, NEW k \in Jobs, Pending(k)'
               PROVE  TrueAnswer(job[k])'
    BY DEF AnswerInv
  <1>1. ASSUME Descends(k), Lasts PROVE TrueAnswer(job[k])'
    BY <1>1, TruthLasts DEF Descends, AnswerInv, Pending
  <1>2. ASSUME job'[k].state \in {"sent", "delayed"} PROVE TrueAnswer(job[k])'
    BY <1>2 DEF TrueAnswer
  <1>3. ASSUME NEW t \in Tabs, UserStep(t) PROVE TrueAnswer(job[k])'
    <2>1. Lasts
      BY <1>3, ServerLasts DEF UserStep
    <2> QED
      BY <1>1, <1>2, <1>3, <2>1, UserCalls DEF Begins, Pending
  <1>4. ASSUME NEW j \in Jobs, ResumeStep(j) PROVE TrueAnswer(job[k])'
    <2>1. Lasts
      BY <1>4, ServerLasts DEF ResumeStep
    <2> QED
      BY <1>1, <1>2, <1>4, <2>1, ResumeCalls DEF Pending
  <1>5. ASSUME NEW j \in Jobs, Serve(j) \/ Lose(j) \/ Forget(j), ServeStep(j)
        PROVE  TrueAnswer(job[k])'
    <2>1. CASE k = j
      BY <1>5, <2>1, ServeIsTrue
    <2>2. CASE k # j
      <3>1. job[k] # NoJob /\ job'[k] = job[k]
        BY <1>5, <2>2, ServeCalls DEF Pending
      <3>2. Lasts /\ SameCall(job[k], job[k])
        BY <1>5, ServeIsTrue DEF SameCall
      <3> QED
        BY <3>1, <3>2, TruthLasts DEF AnswerInv, Pending
    <2> QED
      BY <2>1, <2>2
  <1>6. CASE UNCHANGED vars
    BY <1>6 DEF vars, serverVars, AnswerInv, TrueAnswer, Pending
  <1> QED
    BY <1>3, <1>4, <1>5, <1>6, NextParts

-----------------------------------------------------------------------------
(* Where a logout is awaited *)

\* A logout that its header still awaits was clicked on the page that is shown.
LogoutAtHome ==
    \A j \in Jobs :
        Pending(j) /\ job[j].kind = "logout" /\ job[j].tie = "form" =>
            page[job[j].tab] \in Protected

LEMMA NextLogouts == TypeInv /\ LogoutAtHome /\ [Next]_vars => LogoutAtHome'
  <1> SUFFICES ASSUME TypeInv, LogoutAtHome, [Next]_vars, NEW k \in Jobs, Pending(k)',
                      job'[k].kind = "logout", job'[k].tie = "form"
               PROVE  page'[job'[k].tab] \in Protected
    BY DEF LogoutAtHome
  <1>1. ASSUME Descends(k) PROVE page'[job'[k].tab] \in Protected
    BY <1>1 DEF Descends, SameCall, LogoutAtHome, Pending
  <1>2. ASSUME NEW t \in Tabs, UserStep(t) PROVE page'[job'[k].tab] \in Protected
    BY <1>1, <1>2, UserCalls DEF Begins, Pending
  <1>3. ASSUME NEW j \in Jobs, ResumeStep(j) PROVE page'[job'[k].tab] \in Protected
    BY <1>1, <1>3, ResumeCalls DEF Pending
  <1>4. ASSUME NEW j \in Jobs, ServeStep(j) PROVE page'[job'[k].tab] \in Protected
    <2>1. /\ Pending(k) /\ job'[k].kind = job[k].kind /\ job'[k].tab = job[k].tab
          /\ job'[k].tie = job[k].tie
      BY <1>4, ServeCalls DEF Pending
    <2> QED
      BY <1>4, <2>1 DEF LogoutAtHome, ServeStep
  <1>5. CASE UNCHANGED vars
    BY <1>5 DEF vars, LogoutAtHome, Pending
  <1> QED
    BY <1>2, <1>3, <1>4, <1>5, NextParts

LEMMA PagesInvariant == Spec => [](TypeInv /\ CallInv /\ AnswerInv /\ LogoutAtHome)
  <1>1. Init => AnswerInv /\ LogoutAtHome
    BY DEF Init, AnswerInv, LogoutAtHome, Pending
  <1> QED
    BY <1>1, NextAnswers, NextLogouts, CallsInvariant, PTL DEF Spec

-----------------------------------------------------------------------------
(* One tab: what is shown agrees with what localStorage holds *)

OneTab == \A t, u \in Tabs : t = u

\* Tab t shows a signed-in page with a session only, and a deletion page that is new
\* asks for the password first.
Guarded(t, key) ==
    /\ page'[t] \in Protected => key # 0
    /\ page'[t] = "delete-account" =>
         \/ form'[t].step = "prove"
         \/ page[t] = "delete-account" /\ form'[t].step = form[t].step

LEMMA NavigateGuards ==
    ASSUME PagesOK, NEW t \in Tabs, NEW target \in Pages, NEW who, NEW key, NEW jobs,
           Navigate(t, target, who, key, jobs)
    PROVE  Guarded(t, key) /\ page'[t] \in {target, "login"}
  <1> DEFINE shown == RequireAuth(target, key)
  <1>1. shown \in {target, "login"} /\ (shown \in Protected => key # 0)
    BY DEF RequireAuth, Protected
  <1>2. CASE shown = target /\ target = page[t]
    <2>1. page' = page /\ (target = "delete-account" => form' = form)
      BY <1>2 DEF Navigate
    <2> HIDE DEF shown
    <2> QED
      BY <1>1, <1>2, <2>1 DEF Guarded
  <1>3. CASE ~(shown = target /\ target = page[t])
    <2>1. PICK viewer : /\ page' = [page EXCEPT ![t] = shown]
                        /\ form' = [form EXCEPT ![t] = Fresh(shown, viewer)]
      BY <1>3 DEF Navigate
    <2>2. Fresh("delete-account", viewer).step = "prove"
      BY DEF Fresh
    <2> HIDE DEF shown
    <2> QED
      BY <1>1, <2>1, <2>2 DEF PagesOK, Guarded
  <1> QED
    BY <1>2, <1>3

LEMMA LoadGuards ==
    ASSUME PagesOK, NEW t \in Tabs, NEW p \in Pages, NEW who, Load(t, p, who)
    PROVE  Guarded(t, stored)
  <1> DEFINE shown == RequireAuth(p, stored)
  <1>1. shown \in Protected => stored # 0
    BY DEF RequireAuth, Protected
  <1>2. PICK viewer : /\ page' = [page EXCEPT ![t] = shown]
                      /\ form' = [form EXCEPT ![t] = Fresh(shown, viewer)]
    BY DEF Load
  <1>3. Fresh("delete-account", viewer).step = "prove"
    BY DEF Fresh
  <1> HIDE DEF shown
  <1> QED
    BY <1>1, <1>2, <1>3 DEF PagesOK, Guarded

\* Steps of the user look at the session that is stored.
LEMMA UserGuarded ==
    ASSUME TypeInv, NEW t \in Tabs, UserStep(t)
    PROVE  \/ Guarded(t, stored)
           \/ /\ page' = page
              /\ form'[t].step = form[t].step \/ Turns(t)
  <1>1. PagesOK
    BY DEF TypeInv
  <1>2. CASE Goes(t)
    BY <1>1, <1>2, NavigateGuards, LoadGuards DEF Goes
  <1>3. CASE Submits(t)
    BY <1>1, <1>3 DEF Submits, SetBusy, PagesOK, FormState
  <1>4. CASE LogsOut(t)
    BY <1>4 DEF LogsOut
  <1>5. CASE Turns(t)
    BY <1>5 DEF Turns
  <1>6. CASE Renews(t)
    BY <1>1, <1>6, RenewsStays
  <1> QED
    BY <1>2, <1>3, <1>4, <1>5, <1>6 DEF UserStep

\* A continuation that navigates uses the session it has stored, and goes to no
\* deletion page.
LEMMA RoutesGuarded ==
    ASSUME TypeInv, NEW j \in Jobs, Pending(j), Routes(j)
    PROVE  Guarded(job[j].tab, stored') /\ page'[job[j].tab] # "delete-account"
  <1>1. PICK t \in Tabs : t = job[j].tab
    BY PendingCall
  <1>2. PICK target \in Pages \ {"delete-account"}, who \in Viewers :
          Navigate(t, target, who, stored', Free(j))
    BY <1>1 DEF Routes
  <1>3. Guarded(t, stored') /\ page'[t] \in {target, "login"}
    BY <1>2, NavigateGuards DEF TypeInv
  <1> QED
    BY <1>1, <1>3

LEMMA NextNeedsSession ==
    ASSUME OneTab, TypeInv, AnswerInv, ProtectedNeedsSession, [Next]_vars
    PROVE  ProtectedNeedsSession'
  <1> SUFFICES ASSUME NEW u \in Tabs, page'[u] \in Protected, stored' = 0
               PROVE  \E a \in Accounts : standing'[a] = "deleted"
    BY DEF ProtectedNeedsSession
  <1>1. ASSUME page' = page, stored = 0, Lasts
        PROVE  \E a \in Accounts : standing'[a] = "deleted"
    BY <1>1 DEF ProtectedNeedsSession, Lasts
  <1>2. ASSUME NEW t \in Tabs, UserStep(t)
        PROVE  \E a \in Accounts : standing'[a] = "deleted"
    <2>1. t = u /\ stored' = stored /\ Lasts
      BY <1>2, ServerLasts DEF OneTab, UserStep
    <2> QED
      BY <1>1, <1>2, <2>1, UserGuarded DEF Guarded
  <1>3. ASSUME NEW j \in Jobs, ResumeStep(j)
        PROVE  \E a \in Accounts : standing'[a] = "deleted"
    <2>1. Pending(j) /\ job[j].tab = u /\ Lasts /\ standing' = standing
      BY <1>3, PendingCall, ServerLasts DEF OneTab, ResumeStep, serverVars
    <2>2. ~Routes(j)
      BY <2>1, RoutesGuarded DEF Guarded
    <2>3. /\ page' = page
          /\ job[j].kind # "logout"
          /\ job[j].kind = "login" => job[j].state # "ok"
      BY <1>3, <2>2 DEF ResumeStep, Shows, Passes, FormKinds
    <2>4. TrueAnswer(job[j])
      BY <2>1 DEF AnswerInv
    <2>5. CASE stored = 0
      BY <1>1, <2>1, <2>3, <2>5
    <2>6. CASE stored # 0
      <3>1. job[j].kind = "confirm" /\ job[j].state = "ok"
        BY <1>3, <2>3, <2>4, <2>6 DEF ResumeStep, Stores, TrueAnswer
      <3> QED
        BY <2>1, <2>4, <3>1 DEF TrueAnswer
    <2> QED
      BY <2>5, <2>6
  <1>4. ASSUME NEW j \in Jobs, Serve(j) \/ Lose(j) \/ Forget(j), ServeStep(j)
        PROVE  \E a \in Accounts : standing'[a] = "deleted"
    <2>1. page' = page /\ stored = 0
      BY <1>4 DEF ServeStep
    <2> QED
      BY <1>1, <1>4, <2>1, ServeIsTrue
  <1>5. CASE UNCHANGED vars
    BY <1>1, <1>5, ServerLasts DEF vars
  <1> QED
    BY <1>2, <1>3, <1>4, <1>5, NextParts

\* In the only tab a signed-in page is shown without a session only after a deletion:
\* logout and every refusal move the user on, and a late answer to a page that was
\* left stores a session or leaves the page.
THEOREM SessionNeeded ==
    ASSUME OneTab
    PROVE  Spec => []ProtectedNeedsSession
  <1>1. Init => ProtectedNeedsSession
    BY DEF Init, ProtectedNeedsSession, Protected
  <1>2. /\ TypeInv /\ AnswerInv
        /\ ProtectedNeedsSession /\ [Next]_vars
        => ProtectedNeedsSession'
    BY NextNeedsSession
  <1> QED
    BY <1>1, <1>2, PagesInvariant, PTL DEF Spec

-----------------------------------------------------------------------------
(* One tab: what is deleted was verified *)

\* A deletion page past its first card acts for an account that was verified, for as
\* long as there is a session; so does a confirmation under way.
ProofInv ==
    /\ \A j \in Jobs : Pending(j) /\ job[j].kind = "confirm" => job[j].who \in proven
    /\ \A t \in Tabs :
         page[t] = "delete-account" /\ form[t].step # "prove" /\ stored # 0 =>
             session[stored].account \in proven
    /\ DeletesOnlyProven

\* What a continuation leaves on the deletion page that it finds.
LEMMA ResumeProves ==
    ASSUME OneTab, TypeInv, CallInv, AnswerInv, ProofInv, NEW j \in Jobs, ResumeStep(j),
           NEW u \in Tabs, page'[u] = "delete-account", form'[u].step # "prove", stored' # 0
    PROVE  session'[stored'].account \in proven'
  <1>1. /\ Pending(j) /\ job[j].tab = u /\ session' = session
        /\ job[j] \in Job /\ TrueAnswer(job[j])
    BY PendingCall DEF OneTab, ResumeStep, serverVars, AnswerInv
  <1>2. ~Routes(j)
    BY <1>1, RoutesGuarded
  <1>3. /\ page' = page /\ page[u] = "delete-account"
        /\ job[j].kind = "login" => job[j].state # "ok"
    BY <1>2 DEF ResumeStep, Shows, Passes
  <1>4. CASE job[j].kind = "reverify" /\ job[j].state = "ok"
    BY <1>1, <1>4 DEF ResumeStep, Stores, TrueAnswer
  <1>5. CASE ~(job[j].kind = "reverify" /\ job[j].state = "ok")
    <2>1. stored' = stored /\ proven' = proven
      BY <1>3, <1>5 DEF ResumeStep, Stores
    <2>2. form[u].step # "prove"
      <3>1. CASE form' = form
        BY <3>1
      <3>2. CASE form' # form
        <4>1. Shows(j) /\ job[j].tie = "form"
          BY <1>2, <3>2 DEF ResumeStep, Shows, Passes, Show
        <4>2. OnForm(job, j)
          BY <1>1, <4>1 DEF OnForm, Pending, Shows
        <4>3. AtHome(j)
          BY <4>2 DEF CallInv
        <4>4. PICK step \in Steps :
                /\ Show(j, step)
                /\ job[j].kind = "reverify" /\ step # "prove" => job[j].state = "ok"
          BY <4>1 DEF Shows
        <4>5. form'[u].step = step
          BY <1>1, <4>1, <4>4 DEF Show, TypeInv, PagesOK, FormState
        <4>6. job[j].kind # "reverify"
          BY <1>5, <4>4, <4>5
        <4> QED
          BY <1>1, <1>3, <4>1, <4>3, <4>6 DEF AtHome, HomeOf, Shows, FormKinds
      <3> QED
        BY <3>1, <3>2
    <2> QED
      BY <1>1, <1>3, <2>1, <2>2 DEF ProofInv
  <1> QED
    BY <1>4, <1>5

LEMMA NextProves ==
    ASSUME OneTab, TypeInv, CallInv, AnswerInv, ProofInv, [Next]_vars
    PROVE  ProofInv'
  <1>1. proven \subseteq proven'
    <2>1. ASSUME NEW j \in Jobs, ResumeStep(j) PROVE proven \subseteq proven'
      BY <2>1 DEF ResumeStep, Stores
    <2>2. CASE UNCHANGED vars
      BY <2>2 DEF vars
    <2> QED
      BY <2>1, <2>2, NextParts DEF UserStep, ServeStep
  <1>2. ASSUME NEW k \in Jobs, Pending(k)', job'[k].kind = "confirm"
        PROVE  job'[k].who \in proven'
    <2>1. ASSUME Descends(k) PROVE job'[k].who \in proven'
      BY <1>1, <1>2, <2>1 DEF Descends, SameCall, ProofInv, Pending
    <2>2. ASSUME NEW t \in Tabs, Begins(t, k) PROVE job'[k].who \in proven'
      BY <1>1, <1>2, <2>2 DEF Begins, ProofInv
    <2>3. ASSUME NEW t \in Tabs, UserStep(t) PROVE job'[k].who \in proven'
      BY <1>2, <2>1, <2>2, <2>3, UserCalls DEF Pending
    <2>4. ASSUME NEW j \in Jobs, ResumeStep(j) PROVE job'[k].who \in proven'
      BY <1>2, <2>1, <2>4, ResumeCalls DEF Pending
    <2>5. ASSUME NEW j \in Jobs, ServeStep(j) PROVE job'[k].who \in proven'
      BY <1>1, <1>2, <2>5, ServeCalls DEF ProofInv, Pending
    <2>6. CASE UNCHANGED vars
      BY <1>2, <2>6 DEF vars, ProofInv, Pending
    <2> QED
      BY <2>3, <2>4, <2>5, <2>6, NextParts
  <1>3. ASSUME NEW u \in Tabs, page'[u] = "delete-account", form'[u].step # "prove",
               stored' # 0
        PROVE  session'[stored'].account \in proven'
    <2>1. ASSUME page[u] = "delete-account", form[u].step # "prove",
                 stored' = stored, Lasts
          PROVE  session'[stored'].account \in proven'
      <3>1. stored \in 1..Len(session)
        BY <1>3, <2>1 DEF TypeInv, ServerOK
      <3> QED
        BY <1>1, <1>3, <2>1, <3>1 DEF ProofInv, Lasts
    <2>2. ASSUME NEW t \in Tabs, UserStep(t) PROVE session'[stored'].account \in proven'
      <3>1. t = u /\ stored' = stored /\ Lasts
        BY <2>2, ServerLasts DEF OneTab, UserStep
      <3>2. page[u] = "delete-account" /\ form[u].step # "prove"
        BY <1>3, <2>2, <3>1, UserGuarded DEF Guarded, Turns
      <3> QED
        BY <2>1, <3>1, <3>2
    <2>3. ASSUME NEW j \in Jobs, ResumeStep(j) PROVE session'[stored'].account \in proven'
      BY <1>3, <2>3, ResumeProves
    <2>4. ASSUME NEW j \in Jobs, Serve(j) \/ Lose(j) \/ Forget(j), ServeStep(j)
          PROVE  session'[stored'].account \in proven'
      BY <1>3, <2>1, <2>4, ServeIsTrue DEF ServeStep
    <2>5. CASE UNCHANGED vars
      BY <1>3, <2>1, <2>5, ServerLasts DEF vars
    <2> QED
      BY <2>2, <2>3, <2>4, <2>5, NextParts
  <1>4. ASSUME NEW a \in Accounts, standing'[a] = "deleted" PROVE a \in proven'
    <2>1. CASE standing[a] = "deleted"
      BY <1>1, <2>1 DEF ProofInv, DeletesOnlyProven
    <2>2. CASE standing[a] # "deleted"
      <3>1. PICK j \in Jobs : (Serve(j) \/ Lose(j) \/ Forget(j)) /\ ServeStep(j)
        BY <1>4, <2>2, NextParts DEF UserStep, ResumeStep, serverVars, vars
      <3>2. Pending(j) /\ job[j].kind = "confirm" /\ job[j].who = a
        BY <1>4, <2>2, <3>1, ServeIsTrue DEF ServeStep
      <3> QED
        BY <1>1, <3>2 DEF ProofInv
    <2> QED
      BY <2>1, <2>2
  <1> QED
    BY <1>2, <1>3, <1>4 DEF ProofInv, DeletesOnlyProven

\* In the only tab no account is deleted whose password the deletion page has not
\* verified: no late answer to a login, no reload and no way back to the page lets it
\* act for another account.
THEOREM DeletionsProven ==
    ASSUME OneTab
    PROVE  Spec => []DeletesOnlyProven
  <1>1. Init => ProofInv
    <2> SUFFICES ASSUME Init PROVE ProofInv
      OBVIOUS
    <2>1. \A a \in Accounts : standing[a] # "deleted"
      BY DEF Init
    <2> QED
      BY <2>1 DEF Init, ProofInv, Pending, DeletesOnlyProven
  <1>2. /\ TypeInv /\ CallInv /\ AnswerInv
        /\ ProofInv /\ [Next]_vars
        => ProofInv'
    BY NextProves
  <1>3. ProofInv => DeletesOnlyProven
    BY DEF ProofInv
  <1> QED
    BY <1>1, <1>2, <1>3, PagesInvariant, PTL DEF Spec

-----------------------------------------------------------------------------
(* How an account is stranded: the id of a new account is on a page or in an answer, *)
(* and each step that ends the one begins the other, or is one of those listed.      *)

ShownOn(a, t) == page[t] = "verify-otp" /\ form[t].who = a

Brings(a, x) ==
    x # NoJob /\ x.kind = "register" /\ x.state = "ok" /\ x.who = a /\ x.tie # "none"

\* An account is stranded when it is inserted unheard of, or when the last page or
\* answer that has its id goes.
LEMMA LostTrack ==
    ASSUME NEW a \in Accounts, ~Stranded(a), Stranded(a)'
    PROVE  /\ standing'[a] = "pending"
           /\ \A t \in Tabs : ~ShownOn(a, t)'
           /\ \A k \in Jobs : ~Brings(a, job'[k])
           /\ \/ standing[a] # "pending"
              \/ \E t \in Tabs : ShownOn(a, t)
              \/ \E k \in Jobs : Brings(a, job[k])
  BY DEF Stranded, ShownOn, Brings, Pending

\* navigate() to the passcode page hands over the id.
LEMMA NavigateTells ==
    ASSUME PagesOK, NEW t \in Tabs, NEW who, NEW key, NEW jobs,
           Navigate(t, "verify-otp", who, key, jobs)
    PROVE  page'[t] = "verify-otp" /\ form'[t].who = who
  <1>1. RequireAuth("verify-otp", key) = "verify-otp"
    BY DEF RequireAuth, Protected
  <1>2. CASE page[t] = "verify-otp"
    BY <1>1, <1>2 DEF Navigate, PagesOK, FormState
  <1>3. CASE page[t] # "verify-otp"
    <2>1. /\ page' = [page EXCEPT ![t] = "verify-otp"]
          /\ form' = [form EXCEPT ![t] = Fresh("verify-otp", who)]
      BY <1>1, <1>3 DEF Navigate
    <2>2. Fresh("verify-otp", who).who = who
      BY DEF Fresh
    <2> QED
      BY <2>1, <2>2 DEF PagesOK
  <1> QED
    BY <1>2, <1>3

\* Where the page of a tab is replaced or stays, and is not the passcode page, no id
\* is lost but with the call in hand.
LEMMA OtherPageLeft ==
    ASSUME TypeInv, NEW t \in Tabs, NEW target, NEW jobs, NEW n, CallsOK(jobs, n),
           page[t] # "verify-otp",
           \/ Mounts(t) /\ job' = Unmount(t, jobs)
           \/ Stays(t, target) /\ job' = jobs,
           NEW a \in Accounts
    PROVE  /\ \A u \in Tabs : ShownOn(a, u) => ShownOn(a, u)'
           /\ \A k \in Jobs : Brings(a, jobs[k]) => Brings(a, job'[k])
  <1>1. \A u \in Tabs : u # t => page'[u] = page[u] /\ form'[u] = form[u]
    BY DEF Mounts, Stays, TypeInv, PagesOK
  <1>2. \A k \in Jobs : Brings(a, jobs[k]) => Brings(a, job'[k])
    <2>1. CASE job' = jobs
      BY <2>1
    <2>2. CASE job' = Unmount(t, jobs)
      BY <2>2, UnmountTies DEF Brings, SameCall
    <2> QED
      BY <2>1, <2>2
  <1> QED
    BY <1>1, <1>2 DEF ShownOn

LEMMA UserStrands ==
    ASSUME TypeInv, NEW t \in Tabs, UserStep(t), NEW a \in Accounts,
           ~Stranded(a), Stranded(a)'
    PROVE  Leave(t) \/ FollowAnchor(t)
  <1> SUFFICES ASSUME ~Leave(t), ~FollowAnchor(t) PROVE FALSE
    OBVIOUS
  <1>0. PagesOK /\ ServerOK /\ stored \in 0..Len(session) /\ CallsOK(job, Len(session))
    BY DEF TypeInv
  <1>1. standing' = standing
    BY DEF UserStep, serverVars
  <1>2. CASE Goes(t)
    <2>1. PICK p \in Pages, who \in Viewers : Navigate(t, p, who, stored, job)
      BY <1>2 DEF Goes
    <2>2. \/ Mounts(t) /\ job' = Unmount(t, job)
          \/ Stays(t, p) /\ job' = job
      BY <1>0, <2>1, NavigateDoes
    <2>3. page[t] # "verify-otp"
      BY <1>2 DEF Goes, Protected
    <2>4. /\ \A u \in Tabs : ShownOn(a, u) => ShownOn(a, u)'
          /\ \A k \in Jobs : Brings(a, job[k]) => Brings(a, job'[k])
      BY <1>0, <2>2, <2>3, OtherPageLeft
    <2> QED
      BY <1>1, <2>4, LostTrack
  <1>3. CASE Submits(t) \/ LogsOut(t) \/ Turns(t)
    <2>1. page' = page /\ \A u \in Tabs : form'[u].who = form[u].who
      BY <1>0, <1>3 DEF Submits, LogsOut, Turns, SetBusy, PagesOK, FormState
    <2>2. \A k \in Jobs : job[k] # NoJob => job'[k] = job[k]
      BY <1>0, <1>3 DEF Submits, LogsOut, Turns, Call, Pending, CallsOK
    <2> QED
      BY <1>1, <2>1, <2>2, LostTrack DEF ShownOn, Brings
  <1>4. CASE Renews(t)
    <2>1. /\ page' = page /\ job' = job
          /\ \A u \in Tabs : page[u] = "verify-otp" => form'[u].who = form[u].who
      BY <1>0, <1>4, RenewsStays
    <2> QED
      BY <1>1, <2>1, LostTrack DEF ShownOn, Brings
  <1> QED
    BY <1>2, <1>3, <1>4 DEF UserStep

\* A continuation changes its call.
LEMMA ResumeEnds ==
    ASSUME TypeInv, NEW j \in Jobs, ResumeStep(j)
    PROVE  job'[j] # job[j]
  <1>1. Pending(j)
    BY DEF ResumeStep
  <1>2. CASE job'[j] = NoJob
    BY <1>1, <1>2 DEF Pending
  <1>3. CASE job'[j] # NoJob
    <2>1. job'[j].kind = "redirect"
      BY <1>3, ResumeCalls
    <2>2. ~Routes(j)
      <3>1. Free(j)[j] = NoJob /\ CallsOK(Free(j), Len(session))
        BY FreeLeaves, FreeOK
      <3>2. Unmount(job[j].tab, Free(j))[j] = NoJob
        BY <3>1, UnmountTies
      <3>3. /\ job[j].tab \in Tabs /\ PagesOK /\ ServerOK
        BY <1>1, PendingCall DEF TypeInv
      <3>4. Routes(j) => job' = Unmount(job[j].tab, Free(j)) \/ job' = Free(j)
        BY <3>3, NavigateDoes DEF Routes
      <3> QED
        BY <1>3, <3>1, <3>2, <3>4
    <2>3. job[j].kind # "redirect"
      BY <2>2 DEF ResumeStep, Shows, Passes, FormKinds
    <2> QED
      BY <2>1, <2>3
  <1> QED
    BY <1>2, <1>3

LEMMA ResumeStrands ==
    ASSUME TypeInv, CallInv, LogoutAtHome, NEW j \in Jobs, ResumeStep(j),
           NEW a \in Accounts, ~Stranded(a), Stranded(a)'
    PROVE  Pending(j) /\ (job[j].tie # "form" \/ job[j].kind = "redirect")
  <1>0. /\ Pending(j) /\ job[j].tab \in Tabs /\ PagesOK /\ ServerOK
        /\ CallsOK(job, Len(session)) /\ CallsOK(Free(j), Len(session)) /\ job[j] \in Job
    BY PendingCall, FreeOK DEF TypeInv, ResumeStep
  <1> SUFFICES ASSUME job[j].tie = "form", job[j].kind # "redirect" PROVE FALSE
    BY <1>0
  <1>1. standing' = standing
    BY DEF ResumeStep, serverVars
  <1>2. \A k \in Jobs : k # j => Free(j)[k] = job[k]
    BY FreeLeaves
  <1>3. CASE Routes(j)
    <2>1. PICK t \in Tabs : t = job[j].tab
      BY <1>0
    <2>2. page[t] # "verify-otp"
      <3>1. job[j].kind \in {"login", "register"} => OnForm(job, j)
        BY <1>0 DEF OnForm, Pending, FormKinds
      <3>2. job[j].kind \in {"login", "register"} => page[t] = HomeOf(job[j].kind)
        BY <2>1, <3>1 DEF CallInv, AtHome
      <3>3. job[j].kind = "logout" => page[t] \in Protected
        BY <1>0, <2>1 DEF LogoutAtHome
      <3> QED
        BY <1>3, <3>2, <3>3 DEF Routes, HomeOf, Protected
    <2>3. PICK target \in Pages, who \in Viewers, key \in 0..Len(session) :
            /\ Navigate(t, target, who, key, Free(j))
            /\ job[j].kind = "register" => target = "verify-otp" /\ who = job[j].who
      BY <1>3, <2>1 DEF Routes
    <2>4. \/ Mounts(t) /\ job' = Unmount(t, Free(j))
          \/ Stays(t, target) /\ job' = Free(j)
      BY <1>0, <2>3, NavigateDoes
    <2>5. /\ \A u \in Tabs : ShownOn(a, u) => ShownOn(a, u)'
          /\ \A k \in Jobs : Brings(a, Free(j)[k]) => Brings(a, job'[k])
      BY <1>0, <2>2, <2>4, OtherPageLeft
    <2>6. Brings(a, job[j]) => ShownOn(a, t)'
      BY <1>0, <2>3, NavigateTells DEF Brings, ShownOn
    <2> QED
      BY <1>1, <1>2, <2>5, <2>6, LostTrack
  <1>4. CASE Shows(j)
    <2>1. PICK step : Show(j, step)
      BY <1>4 DEF Shows
    <2>2. page' = page /\ \A u \in Tabs : form'[u].who = form[u].who
      BY <1>0, <1>4, <2>1 DEF Shows, Show, PagesOK, FormState
    <2>3. \A k \in Jobs : k # j => job'[k] = job[k]
      BY <1>0, <1>2, <1>4 DEF Shows, CallsOK
    <2>4. ~Brings(a, job[j])
      BY <1>4 DEF Shows, Brings
    <2> QED
      BY <1>1, <2>2, <2>3, <2>4, LostTrack DEF ShownOn
  <1>5. CASE Passes(j)
    <2>1. page' = page /\ form' = form /\ ~Brings(a, job[j])
      BY <1>5 DEF Passes, Brings
    <2> QED
      BY <1>1, <1>2, <1>5, <2>1, LostTrack DEF Passes, ShownOn
  <1> QED
    BY <1>3, <1>4, <1>5 DEF ResumeStep

LEMMA ServeStrands ==
    ASSUME TypeInv, NEW j \in Jobs, Serve(j) \/ Forget(j), ServeStep(j),
           NEW a \in Accounts, ~Stranded(a), Stranded(a)'
    PROVE  Pending(j) /\ job[j].tie # "form" /\ job'[j] # job[j]
  <1>0. /\ Pending(j) /\ job[j] \in Job /\ CallsOK(job, Len(session))
        /\ page' = page /\ form' = form
    BY PendingCall DEF TypeInv, ServeStep
  <1>1. \A k \in Jobs : k # j /\ job[k] # NoJob => job'[k] = job[k]
    <2>1. CASE job' = Free(j)
      BY <2>1, FreeLeaves
    <2>2. ASSUME NEW x, job' = [job EXCEPT ![j] = x]
          PROVE  \A k \in Jobs : k # j /\ job[k] # NoJob => job'[k] = job[k]
      BY <1>0, <2>2 DEF CallsOK
    <2> QED
      BY <2>1, <2>2 DEF ServeStep
  <1>2. ~Brings(a, job[j])
    BY DEF Serve, Serve_Register, Serve_Verify, Serve_Login, Serve_Logout, Serve_Request,
           Serve_Confirm, Serve_Refuse, Awaits, Forget, Brings
  <1>3. standing[a] # "pending" /\ standing'[a] = "pending"
    BY <1>0, <1>1, <1>2, LostTrack DEF ShownOn, Brings
  <1>4. Serve_Register(j) /\ job[j].who = a
    BY <1>3 DEF Serve, Serve_Register, Serve_Verify, Serve_Login, Serve_Logout,
                Serve_Request, Serve_Confirm, Serve_Refuse, Forget, serverVars,
                TypeInv, ServerOK
  <1>5. job[j].tie = "none"
    <2> SUFFICES ASSUME job[j].tie # "none" PROVE FALSE
      OBVIOUS
    <2> DEFINE x == [job[j] EXCEPT !.state = "ok"]
    <2>1. job'[j] = x
      BY <1>0, <1>4 DEF Serve_Register, Answer, CallsOK
    <2>2. /\ x \in Job /\ x.kind = job[j].kind /\ x.state = "ok"
          /\ x.who = job[j].who /\ x.tie = job[j].tie
      BY <1>0 DEF Job
    <2>3. job[j].kind = "register"
      BY <1>4 DEF Serve_Register, Awaits
    <2> HIDE DEF x
    <2>4. Brings(a, job'[j])
      BY <1>4, <2>1, <2>2, <2>3, NoJobIsNone DEF Brings
    <2> QED
      BY <2>4, LostTrack
  <1>6. job'[j] = NoJob
    BY <1>4, <1>5, FreeLeaves DEF Serve_Register, Answer
  <1> QED
    BY <1>0, <1>5, <1>6 DEF Pending

\* In any number of tabs, a new account that nobody can verify is never the doing of
\* a handler alone: the user left, an answer was lost, or one came to a page that was
\* not its own any more.
THEOREM StrandingIsLeaving == Spec => StrandedOnlyByLeaving
  <1>1. TypeInv /\ CallInv /\ LogoutAtHome /\ [Next]_vars =>
          [\A a \in Accounts :
             ~Stranded(a) /\ Stranded(a)' =>
                \/ \E t \in Tabs : Leave(t) \/ FollowAnchor(t) \/ Verify_GoBack(t)
                \/ \E j \in Jobs : Lose(j)
                \/ \E j \in Jobs : /\ Pending(j)
                                  /\ (job[j].tie # "form" \/ job[j].kind = "redirect")
                                  /\ job'[j] # job[j]]_vars
    <2> SUFFICES ASSUME TypeInv, CallInv, LogoutAtHome, Next,
                        NEW a \in Accounts, ~Stranded(a), Stranded(a)'
                 PROVE  \/ \E t \in Tabs : Leave(t) \/ FollowAnchor(t)
                        \/ \E j \in Jobs : Lose(j)
                        \/ \E j \in Jobs :
                             /\ Pending(j)
                             /\ job[j].tie # "form" \/ job[j].kind = "redirect"
                             /\ job'[j] # job[j]
      OBVIOUS
    <2>1. ASSUME NEW t \in Tabs, UserStep(t) PROVE Leave(t) \/ FollowAnchor(t)
      BY <2>1, UserStrands
    <2>2. ASSUME NEW j \in Jobs, ResumeStep(j)
          PROVE  /\ Pending(j)
                 /\ job[j].tie # "form" \/ job[j].kind = "redirect"
                 /\ job'[j] # job[j]
      BY <2>2, ResumeStrands, ResumeEnds
    <2>3. ASSUME NEW j \in Jobs, Serve(j) \/ Lose(j) \/ Forget(j), ServeStep(j)
          PROVE  \/ Lose(j)
                 \/ Pending(j) /\ job[j].tie # "form" /\ job'[j] # job[j]
      BY <2>3, ServeStrands
    <2> QED
      BY <2>1, <2>2, <2>3, NextParts
  <1> QED
    BY <1>1, PagesInvariant, PTL DEF Spec, StrandedOnlyByLeaving
=============================================================================
