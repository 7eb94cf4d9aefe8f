----------------------------- MODULE Identity ------------------------------
(***************************************************************************)
(* The SampleAuth session: the adapter that lets one login and one logout  *)
(* command of its CLI run at a time (src/main/identity/                    *)
(* sampleauth-cli-adapter.ts), under the requests of the service that      *)
(* probe, authenticate and disconnect and show the result                  *)
(* (src/main/core/service.ts).  The adapter is modelled as it works with   *)
(* an executable; with its default name it answers without one.            *)
(*                                                                         *)
(* A command is one step that succeeds or fails; how its output tells is   *)
(* left out.  The service treats the other connectors in the same way.     *)
(***************************************************************************)
EXTENDS Naturals, FiniteSets

CONSTANTS
  Req,      \* requests of the service that may be under way together
  NoReq

ASSUME IdentityAssumption == NoReq \notin Req

VARIABLES
  session,    \* what the CLI keeps
  login,      \* the login in flight: its next command, and whether it was aborted
  logout,     \* the logout in flight
  asked,      \* each request of the service
  newest,     \* the request that began last (connectionGenerations)
  shown,      \* the state of the connection
  \* remembered for the properties only
  revoked,    \* a logout succeeded and no login was begun since
  told        \* the answer of the newest request

identityVars == <<session, login, logout, asked, newest, shown, revoked, told>>

States == {"disconnected", "connected", "unavailable"}

IdentityTypeOK ==
  /\ session \in {"out", "in", "expired"}
  /\ login \in [step : {"none", "status", "refresh", "restatus", "login", "confirm"},
                aborted : BOOLEAN]
  /\ logout \in {"none", "settle", "command"}
  /\ asked \in [Req -> [kind : {"probe", "authenticate", "disconnect"},
                        stage : {"idle", "begun", "status", "login", "logout", "behind", "probed"},
                        found : States]]
  /\ newest \in Req \cup {NoReq}
  /\ shown \in States \cup {"checking"}
  /\ revoked \in BOOLEAN /\ told \in States \cup {"none"}

NotLoggingIn == [step |-> "none", aborted |-> FALSE]
IdleRequest == [kind |-> "probe", stage |-> "idle", found |-> "disconnected"]

IdentityInit ==
  /\ session \in {"out", "in", "expired"}
  /\ login = NotLoggingIn /\ logout = "none"
  /\ asked = [r \in Req |-> IdleRequest]
  /\ newest = NoReq /\ shown = "disconnected"
  /\ revoked = FALSE /\ told = "none"

\* The session of the CLI runs out.
SessionExpires ==
  /\ session = "in" /\ session' = "expired"
  /\ UNCHANGED <<login, logout, asked, newest, shown, revoked, told>>

-----------------------------------------------------------------------------
(* Requests of the service.                                                *)

\* beginConnectionOperation, and the state shown until the answer is there.
RequestBegins(r, kind) ==
  /\ asked[r].stage = "idle"
  /\ asked' = [asked EXCEPT ![r] = [IdleRequest EXCEPT !.kind = kind, !.stage = "begun"]]
  /\ newest' = r /\ shown' = "checking" /\ told' = "none"
  /\ UNCHANGED <<session, login, logout, revoked>>

\* Every answer is shown.
ShownInAnyCase(r) == TRUE

\* replaceConnectionIfCurrent
IsCurrent(r) == newest = r

\* The requests in R end, each with its answer.
Answer(R, answer) ==
  /\ asked' = [r \in Req |-> IF r \in R THEN IdleRequest ELSE asked[r]]
  /\ shown' = IF \E r \in R : IsCurrent(r) THEN answer[CHOOSE r \in R : IsCurrent(r)] ELSE shown
  /\ told' = IF newest \in R THEN answer[newest] ELSE told
  /\ UNCHANGED newest

Waiting(for) == {r \in Req : asked[r].stage = for}

\* What the status command finds, whatever it prints.
StatusShown == {"unavailable", IF session = "in" THEN "connected" ELSE "disconnected"}

\* probe reads the status of the session past both slots.
ProbeCalls(r) ==
  /\ asked[r].kind = "probe" /\ asked[r].stage = "begun"
  /\ \E found \in StatusShown :
       asked' = [asked EXCEPT ![r].stage = "probed", ![r].found = found]
  /\ UNCHANGED <<session, login, logout, newest, shown, revoked, told>>

\* The probes of the other connectors are through as well.
ProbeEnds(r) ==
  /\ asked[r].stage = "probed"
  /\ Answer({r}, [q \in Req |-> asked[q].found])
  /\ UNCHANGED <<session, login, logout, revoked>>

-----------------------------------------------------------------------------
(* authenticate of the adapter.                                            *)

LoginBegins ==
  /\ login' = [step |-> "status", aborted |-> FALSE]
  /\ revoked' = FALSE

MayStartLogin == logout = "none"

AuthenticateCalls(r) ==
  /\ asked[r].kind = "authenticate" /\ asked[r].stage = "begun"
  /\ CASE login.step # "none" ->
            /\ asked' = [asked EXCEPT ![r].stage = "login"]
            /\ UNCHANGED <<login, revoked>>
       [] login.step = "none" /\ MayStartLogin ->
            /\ asked' = [asked EXCEPT ![r].stage = "login"]
            /\ LoginBegins
       [] OTHER ->
            /\ asked' = [asked EXCEPT ![r].stage = "behind"]
            /\ UNCHANGED <<login, revoked>>
  /\ UNCHANGED <<session, logout, newest, shown, told>>

\* The login settles; a logout that waited for it starts its command.
LoginSettles(answer) ==
  /\ login' = NotLoggingIn
  /\ Answer(Waiting("login"), [r \in Req |-> answer])
  /\ logout' = IF logout = "settle" THEN "command" ELSE logout
  /\ UNCHANGED revoked

\* How a command that failed, or answered nothing that can be verified, shows.
FailureShown == {"disconnected", "unavailable"}

LoginContinues(step) ==
  /\ login' = [login EXCEPT !.step = step]
  /\ UNCHANGED <<logout, asked, newest, shown, revoked, told>>

\* readStatus of authenticateOnce
LoginReadsStatus ==
  /\ login.step = "status" /\ ~login.aborted
  /\ CASE session = "in" -> LoginSettles("connected")
       [] session = "expired" -> LoginContinues("refresh")
       [] OTHER -> LoginContinues("login")
  /\ UNCHANGED session

\* refresh; when it fails the login goes on interactively.
LoginRefreshes ==
  /\ login.step = "refresh" /\ ~login.aborted
  /\ \/ session' = "in" /\ LoginContinues("restatus")
     \/ session' \in {session, "in"} /\ LoginContinues("login")

LoginReadsAgain ==
  /\ login.step = "restatus" /\ ~login.aborted
  /\ \/ session = "in" /\ LoginSettles("connected")
     \/ LoginContinues("login")
  /\ UNCHANGED session

\* The browser login of loginOnce.
LoginRuns ==
  /\ login.step = "login" /\ ~login.aborted
  /\ session' = "in" /\ LoginContinues("confirm")

LoginConfirms ==
  /\ login.step = "confirm" /\ ~login.aborted
  /\ LoginSettles(IF session = "in" THEN "connected" ELSE "unavailable")
  /\ UNCHANGED session

\* A command fails, runs into its time limit or is aborted, after it may have
\* stored a session; a failed refresh alone does not end the login.
LoginFails ==
  /\ login.step # "none"
  /\ login.step \in {"refresh", "restatus"} => login.aborted
  /\ session' \in {session} \cup (IF login.step \in {"refresh", "login"} THEN {"in"} ELSE {})
  /\ \E answer \in FailureShown : LoginSettles(answer)

-----------------------------------------------------------------------------
(* logout of the adapter.                                                  *)

\* The logout command starts while the login may still run.
LogoutAtOnce == "command"

\* logoutOnce waits until the login in flight has settled.
AfterLogin == IF login.step # "none" THEN "settle" ELSE "command"

DisconnectCalls(r) ==
  /\ asked[r].kind = "disconnect" /\ asked[r].stage = "begun"
  /\ asked' = [asked EXCEPT ![r].stage = "logout"]
  /\ IF logout # "none" THEN UNCHANGED <<login, logout>>
     ELSE /\ login' = [login EXCEPT !.aborted = login.step # "none"]
          /\ logout' = AfterLogin
  /\ UNCHANGED <<session, newest, shown, revoked, told>>

\* The requests that wait behind the logout fail with it, or log in now.
LogoutSucceeds ==
  LET behind == Waiting("behind")
      done == Waiting("logout")
  IN /\ logout = "command"
     /\ session' = "out" /\ logout' = "none"
     /\ asked' = [r \in Req |-> CASE r \in done -> IdleRequest
                                  [] r \in behind -> [asked[r] EXCEPT !.stage = "login"]
                                  [] OTHER -> asked[r]]
     /\ IF behind = {} THEN revoked' = TRUE /\ UNCHANGED login ELSE LoginBegins
     /\ shown' = IF \E r \in done : IsCurrent(r) THEN "disconnected" ELSE shown
     /\ told' = IF newest \in done THEN "disconnected" ELSE told
     /\ UNCHANGED newest

LogoutFails ==
  /\ logout = "command"
  /\ session' \in {session, "out"} /\ logout' = "none"
  /\ \E answer \in FailureShown :
       Answer(Waiting("logout") \cup Waiting("behind"), [r \in Req |-> answer])
  /\ UNCHANGED <<login, revoked>>

-----------------------------------------------------------------------------
IdentityNext ==
  \/ SessionExpires
  \/ \E r \in Req :
       \/ \E kind \in {"probe", "authenticate", "disconnect"} : RequestBegins(r, kind)
       \/ ProbeCalls(r) \/ ProbeEnds(r) \/ AuthenticateCalls(r) \/ DisconnectCalls(r)
  \/ LoginReadsStatus \/ LoginRefreshes \/ LoginReadsAgain \/ LoginRuns \/ LoginConfirms
  \/ LoginFails \/ LogoutSucceeds \/ LogoutFails

IdentitySpec == IdentityInit /\ [][IdentityNext]_identityVars

-----------------------------------------------------------------------------
(* Properties.                                                             *)

\* Once a logout has succeeded there is no session, and none appears until a
\* login is begun after it: a login that was in flight cannot leave one behind.
LogoutWins == revoked => session = "out" /\ login.step = "none"

\* When the newest request has been answered the connection shows its answer
\* and no older request, however late, replaces it; while it is under way the
\* connection is being checked.
NewestAnswerShown ==
  newest # NoReq => shown = IF told = "none" THEN "checking" ELSE told
=============================================================================
