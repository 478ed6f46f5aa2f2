----------------------------- MODULE WebClient -----------------------------
(***************************************************************************)
(* What the pages of the web application share: the tabs of one browser,   *)
(* the session in localStorage that all of them read and write, the routes *)
(* with RequireAuth, and the calls in flight.                              *)
(*                                                                         *)
(* A call is a promise whose continuation belongs to a component.  When    *)
(* the router leaves the page the component is unmounted: its setState     *)
(* calls no longer show, but what else the continuation does (setSession,  *)
(* clearSession, navigate) still happens.  When the document is replaced   *)
(* (an <a href>, a reload, a typed address) the continuation is gone, and  *)
(* the server may have got the request or not.  Timers are like calls.     *)
(*                                                                         *)
(* The server is what the other modules say of it, in one step per request; *)
(* it may always refuse (a wrong password or code, a limit, an expiry).    *)
(***************************************************************************)
EXTENDS Naturals, Sequences, FiniteSets

CONSTANTS
    Tabs,
    Accounts,
    Jobs,          \* calls and timers that can be pending at once
    MaxSessions,   \* bound on sessions the server creates
    MaxFaults      \* bound on calls that get no answer

ASSUME WebAssumption ==
    /\ IsFiniteSet(Tabs) /\ IsFiniteSet(Accounts) /\ IsFiniteSet(Jobs)
    /\ "nobody" \notin Accounts
    /\ {MaxSessions, MaxFaults} \subseteq Nat

VARIABLES
    standing,    \* server: users.status, "none" before registration
    session,     \* server: sessions, in order of creation
    requested,   \* server: accounts with a pending deletion request
    stored,      \* localStorage: the session, 0 for none
    page,        \* of each tab: the route shown
    form,        \* of each tab: the state of the page's component
    job,         \* pending calls and timers
    proven,      \* history: accounts whose password the deletion page verified
    faults

serverVars == <<standing, session, requested>>
vars == <<serverVars, stored, page, form, job, proven, faults>>

Protected == {"dashboard", "account-dashboard", "delete-account"}
Pages == {"landing", "register", "verify-otp", "login"} \cup Protected

Steps == {"enter", "counting", "open", "done",
          "prove", "card", "modal", "code", "deleted"}

Kinds == {"register", "verify", "resend", "redirect", "login", "reverify",
          "logout", "request", "confirm"}

NoJob == [kind |-> "none"]

Job == [kind : Kinds,
        tab : Tabs,
        who : Accounts \cup {"nobody"},
        key : Nat,                               \* the session it is about
        tie : {"form", "tab", "none"},           \* what is left of its issuer
        state : {"delayed", "sent", "ok", "refused", "failed"}]

Pending(j) == job[j] # NoJob

\* The component that shows a route, as it mounts.
Fresh(p, who) ==
    [step |-> CASE p = "verify-otp" -> "counting"
                [] p = "delete-account" -> "prove"
                [] OTHER -> "enter",
     busy |-> FALSE,
     who |-> who]

Init ==
    /\ standing \in [Accounts -> {"none", "active"}]
    /\ session = <<>>
    /\ requested = {}
    /\ stored = 0
    /\ page = [t \in Tabs |-> "landing"]
    /\ form = [t \in Tabs |-> Fresh("landing", "nobody")]
    /\ job = [j \in Jobs |-> NoJob]
    /\ proven = {}
    /\ faults = 0

-----------------------------------------------------------------------------
(* Routes *)

RequireAuth(p, key) == IF p \in Protected /\ key = 0 THEN "login" ELSE p

\* Whom the deletion page takes the user for as it mounts: the email kept with the
\* session, or the profile that the token of the same session gets, which is the same
\* account.
Viewer(p, key) ==
    IF p = "delete-account" /\ key # 0 THEN session[key].account ELSE "nobody"

Unmount(t, jobs) ==
    [j \in Jobs |-> IF jobs[j] # NoJob /\ jobs[j].tab = t /\ jobs[j].tie = "form"
                      THEN [jobs[j] EXCEPT !.tie = "tab"]
                      ELSE jobs[j]]

\* navigate(target, { state: { userId: who } }) when localStorage holds `key` and
\* `jobs` are pending: the same route keeps its component, another one mounts.
Navigate(t, target, who, key, jobs) ==
    LET shown == RequireAuth(target, key)
    IN  IF shown = target /\ target = page[t]
          THEN /\ form' = IF target = "verify-otp" THEN [form EXCEPT ![t].who = who] ELSE form
               /\ job' = jobs
               /\ UNCHANGED page
          ELSE /\ page' = [page EXCEPT ![t] = shown]
               /\ form' = [form EXCEPT ![t] =
                             Fresh(shown, IF shown = "verify-otp" THEN who
                                          ELSE Viewer(shown, key))]
               /\ job' = Unmount(t, jobs)

\* A request whose document is gone can still reach the server.
Cut(t) ==
    [j \in Jobs |->
       IF ~Pending(j) \/ job[j].tab # t THEN job[j]
       ELSE IF job[j].state = "sent" THEN [job[j] EXCEPT !.tie = "none"]
       ELSE NoJob]

\* The document is loaded anew; a reload keeps the state of the history entry.
Load(t, p, who) ==
    LET shown == RequireAuth(p, stored)
    IN  /\ page' = [page EXCEPT ![t] = shown]
        /\ form' = [form EXCEPT ![t] =
                      Fresh(shown, IF shown = "verify-otp" THEN who
                                   ELSE Viewer(shown, stored))]
        /\ job' = Cut(t)

\* A typed address, or a link to it.
Visit(t, p) ==
    /\ Load(t, p, "nobody")
    /\ UNCHANGED <<serverVars, stored, proven, faults>>

Reload(t) ==
    /\ Load(t, page[t], form[t].who)
    /\ UNCHANGED <<serverVars, stored, proven, faults>>

GoTo(t, p) ==
    /\ Navigate(t, p, "nobody", stored, job)
    /\ UNCHANGED <<serverVars, stored, proven, faults>>

\* The browser's back and forward buttons: the history of a tab can hold any route.
\* The passcode page is left out, as if its entry were lost.
Back(t, p) == p # "verify-otp" /\ GoTo(t, p)

Leave(t) == Reload(t) \/ \E p \in Pages : Visit(t, p) \/ Back(t, p)

-----------------------------------------------------------------------------
(* Links: plain <a href>, to a route or to an anchor of the page ("#"). *)

HeaderLinks == {"landing"}
AuthHeaderLinks == {"dashboard", "account-dashboard", "#"}
StripLinks == {"delete-account", "#"}
FeedLinks == {"#"}
FooterLinks == {"landing", "#"}

DashboardLinks == AuthHeaderLinks \cup FeedLinks \cup StripLinks

Links(p) ==
    FooterLinks \cup CASE p \in {"dashboard", "account-dashboard"} -> DashboardLinks
                      [] p = "delete-account" -> AuthHeaderLinks
                      [] OTHER -> HeaderLinks

\* The document and the component stay, but the router sees a history entry with
\* no state: on the passcode page the id of the account is gone.
FollowAnchor(t) == "#" \in Links(page[t]) /\ GoTo(t, page[t])

FollowLink(t) == \E p \in Links(page[t]) \ {"#"} : Visit(t, p)

-----------------------------------------------------------------------------
(* Calls: api-client.ts *)

\* One fetch, issued by the page that tab t shows.
Call(t, kind, who, key) ==
    \E j \in Jobs :
        /\ ~Pending(j)
        /\ job' = [job EXCEPT ![j] = [kind |-> kind, tab |-> t, who |-> who,
                                      key |-> key, tie |-> "form", state |-> "sent"]]

\* registerUser, verifyOtp, loginUser
PostJson(t, kind, who) == Call(t, kind, who, 0)

\* logoutUser, requestAccountDeletion, confirmAccountDeletion: with the token that
\* localStorage holds at this moment.
AuthPostJson(t, kind) == Call(t, kind, session[stored].account, stored)

Free(j) == [job EXCEPT ![j] = NoJob]

Awaits(j, kind) == Pending(j) /\ job[j].kind = kind /\ job[j].state = "sent"

\* Nobody awaits the answer to a document that is gone.
Answer(j, state) ==
    /\ job' = IF job[j].tie = "none" THEN Free(j) ELSE [job EXCEPT ![j].state = state]
    /\ UNCHANGED <<stored, page, form, proven, faults>>

Serve_Register(j) ==
    /\ Awaits(j, "register")
    /\ standing[job[j].who] = "none"
    /\ standing' = [standing EXCEPT ![job[j].who] = "pending"]
    /\ Answer(j, "ok")
    /\ UNCHANGED <<session, requested>>

Serve_Verify(j) ==
    /\ Awaits(j, "verify")
    /\ standing[job[j].who] = "pending"
    /\ standing' = [standing EXCEPT ![job[j].who] = "active"]
    /\ Answer(j, "ok")
    /\ UNCHANGED <<session, requested>>

\* Variant: the token is handed out though its row was not written.
Serve_LoginUnsaved(j) ==
    /\ Awaits(j, "login") \/ Awaits(j, "reverify")
    /\ standing[job[j].who] = "active"
    /\ job' = [job EXCEPT ![j].state = "ok", ![j].key = Len(session) + 1]
    /\ UNCHANGED <<serverVars, stored, page, form, proven, faults>>

Serve_Login(j) ==
    /\ Awaits(j, "login") \/ Awaits(j, "reverify")
    /\ standing[job[j].who] = "active"
    /\ Len(session) < MaxSessions
    /\ session' = Append(session, [account |-> job[j].who, live |-> TRUE])
    /\ job' = IF job[j].tie = "none" THEN Free(j)
              ELSE [job EXCEPT ![j].state = "ok", ![j].key = Len(session')]
    /\ UNCHANGED <<standing, requested, stored, page, form, proven, faults>>

Serve_Logout(j) ==
    /\ Awaits(j, "logout")
    /\ session[job[j].key].live
    /\ session' = [session EXCEPT ![job[j].key].live = FALSE]
    /\ Answer(j, "ok")
    /\ UNCHANGED <<standing, requested>>

Serve_Request(j) ==
    /\ Awaits(j, "request")
    /\ session[job[j].key].live
    /\ job[j].who \notin requested
    /\ requested' = requested \cup {job[j].who}
    /\ Answer(j, "ok")
    /\ UNCHANGED <<standing, session>>

Serve_Confirm(j) ==
    /\ Awaits(j, "confirm")
    /\ session[job[j].key].live
    /\ job[j].who \in requested
    /\ requested' = requested \ {job[j].who}
    /\ standing' = [standing EXCEPT ![job[j].who] = "deleted"]
    /\ session' = [k \in DOMAIN session |->
                     IF session[k].account = job[j].who
                       THEN [session[k] EXCEPT !.live = FALSE] ELSE session[k]]
    /\ Answer(j, "ok")

Serve_Refuse(j) ==
    /\ Pending(j)
    /\ job[j].state = "sent"
    /\ Answer(j, "refused")
    /\ UNCHANGED serverVars

\* fetch rejects: the request or its answer is lost.
Lose(j) ==
    /\ faults < MaxFaults
    /\ Pending(j)
    /\ job[j].state \in {"sent", "ok", "refused"}
    /\ job[j].tie # "none"
    /\ job' = [job EXCEPT ![j].state = "failed"]
    /\ faults' = faults + 1
    /\ UNCHANGED <<serverVars, stored, page, form, proven>>

\* The request of a document that is gone never arrives.
Forget(j) ==
    /\ Pending(j)
    /\ job[j].tie = "none"
    /\ job' = Free(j)
    /\ UNCHANGED <<serverVars, stored, page, form, proven, faults>>

Serve(j) ==
    \/ Serve_Register(j)
    \/ Serve_Verify(j)
    \/ Serve_Login(j)
    \/ Serve_Logout(j)
    \/ Serve_Request(j)
    \/ Serve_Confirm(j)
    \/ Serve_Refuse(j)

-----------------------------------------------------------------------------
\* A continuation runs: the answer to call j of this kind is one of these.
Resumes(j, kind, states) ==
    /\ Pending(j)
    /\ job[j].kind = kind
    /\ job[j].tie # "none"
    /\ job[j].state \in states

\* setState of the component that issued job j, if it is still mounted.
Show(j, step) ==
    form' = IF job[j].tie = "form"
              THEN [form EXCEPT ![job[j].tab].busy = FALSE, ![job[j].tab].step = step]
              ELSE form
=============================================================================
