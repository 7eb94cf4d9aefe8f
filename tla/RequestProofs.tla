--------------------------- MODULE RequestProofs ---------------------------
(***************************************************************************)
(* Requests that overlap, or are cut short: a logout lasts until the next  *)
(* login (LogoutWins), the newest answer is the one shown                  *)
(* (NewestAnswerShown), everybody who confirms a draft is told of one      *)
(* record (OneRequirement), and a save that was answered stands, with its  *)
(* key (AnsweredSavesStand, StaleKeyNeverUsed).                            *)
(*                                                                         *)
(* The three modules share no state; each has its own inductive invariant. *)
(* Run side by side with those of ProcessProofs (MCServices), they remain  *)
(* what they are alone (PartsAsSpecified), and every part keeps the types  *)
(* of its variables (ServicesTypeOK).                                      *)
(***************************************************************************)
EXTENDS MCServices, ProcessProofs

Asked ==
  [Req -> [kind : {"probe", "authenticate", "disconnect"},
           stage : {"idle", "begun", "status", "login", "logout", "behind", "probed"},
           found : States]]

-----------------------------------------------------------------------------
(* The session.                                                            *)

(* How the end of the requests in R, whether or not the newest is among    *)
(* them, shows.                                                            *)
LEMMA AnswerShown ==
  ASSUME IdentityTypeOK, NewestAnswerShown, NEW R \in SUBSET Req, NEW answer,
         \A r \in R : answer[r] \in States, Answer(R, answer)
  PROVE  /\ NewestAnswerShown' /\ newest' = newest /\ asked' \in Asked
         /\ shown' \in States \cup {"checking"} /\ told' \in States \cup {"none"}
<1> USE DEF Answer, IdentityTypeOK, Asked, IdleRequest, States
<1>1. CASE newest \in R
  <2>1. (CHOOSE r \in R : IsCurrent(r)) = newest
    BY <1>1 DEF IsCurrent
  <2>2. shown' = answer[newest] /\ told' = answer[newest]
    BY <1>1, <2>1 DEF IsCurrent
  <2> QED
    BY <1>1, <2>2 DEF NewestAnswerShown
<1>2. CASE newest \notin R
  <2>1. shown' = shown /\ told' = told
    BY <1>2 DEF IsCurrent
  <2> QED
    BY <2>1 DEF NewestAnswerShown
<1> QED
  BY <1>1, <1>2

(* A logout command and a login are never under way together.              *)
LogoutInv ==
  /\ LogoutWins
  /\ logout = "command" => login.step = "none"

SessionInv == IdentityTypeOK /\ LogoutInv /\ NewestAnswerShown

LEMMA SessionInit == IdentityInit => SessionInv
<1> SUFFICES ASSUME IdentityInit PROVE SessionInv
  OBVIOUS
<1>1. IdentityTypeOK
  BY DEF IdentityInit, IdentityTypeOK, NotLoggingIn, IdleRequest, States
<1>2. LogoutInv /\ NewestAnswerShown
  BY DEF IdentityInit, LogoutInv, LogoutWins, NewestAnswerShown, NotLoggingIn
<1> QED
  BY <1>1, <1>2 DEF SessionInv

(* The login settles, and leaves the session as it has made it.            *)
LEMMA LoginOver ==
  ASSUME SessionInv, NEW answer \in States, login.step # "none",
         session' \in {"out", "in", "expired"}, LoginSettles(answer)
  PROVE  SessionInv'
<1>1. ~revoked /\ revoked' = revoked
  BY DEF SessionInv, LogoutInv, LogoutWins, LoginSettles
<1>2. Answer(Waiting("login"), [r \in Req |-> answer])
  BY DEF LoginSettles
<1>3. /\ NewestAnswerShown' /\ newest' = newest /\ asked' \in Asked
      /\ shown' \in States \cup {"checking"} /\ told' \in States \cup {"none"}
  <2>1. \A r \in Waiting("login") : [q \in Req |-> answer][r] \in States
    BY DEF Waiting
  <2> QED
    BY <1>2, <2>1, AnswerShown DEF SessionInv, Waiting
<1>4. login' = NotLoggingIn /\ logout' \in {"none", "settle", "command"}
  BY DEF LoginSettles, SessionInv, IdentityTypeOK
<1>5. IdentityTypeOK'
  BY <1>1, <1>3, <1>4 DEF SessionInv, IdentityTypeOK, Asked, NotLoggingIn
<1> QED
  BY <1>1, <1>3, <1>4, <1>5 DEF SessionInv, LogoutInv, LogoutWins, NotLoggingIn

(* A login in flight goes on with its next command.                        *)
LEMMA LoginOn ==
  ASSUME SessionInv, login.step # "none", logout = "command" => login.step = "none",
         session' \in {"out", "in", "expired"},
         NEW step \in {"refresh", "restatus", "login", "confirm"}, LoginContinues(step)
  PROVE  SessionInv'
BY DEF SessionInv, LogoutInv, LogoutWins, IdentityTypeOK, LoginContinues, NewestAnswerShown

LEMMA SessionStep == SessionInv /\ [IdentityNext]_identityVars => SessionInv'
<1> SUFFICES ASSUME SessionInv, [IdentityNext]_identityVars PROVE SessionInv'
  OBVIOUS
<1> USE DEF SessionInv
<1>t. IdentityTypeOK /\ LogoutInv /\ NewestAnswerShown
  OBVIOUS
<1>1. CASE UNCHANGED identityVars
  BY <1>1 DEF identityVars, IdentityTypeOK, LogoutInv, LogoutWins, NewestAnswerShown
<1>2. CASE SessionExpires
  BY <1>2 DEF SessionExpires, IdentityTypeOK, LogoutInv, LogoutWins, NewestAnswerShown
<1>3. ASSUME NEW r \in Req, NEW kind \in {"probe", "authenticate", "disconnect"},
             RequestBegins(r, kind)
      PROVE  SessionInv'
  BY <1>3 DEF RequestBegins, IdleRequest, IdentityTypeOK, LogoutInv, LogoutWins,
              NewestAnswerShown, States
<1>4. ASSUME NEW r \in Req, ProbeCalls(r)
      PROVE  SessionInv'
  <2>1. PICK found \in States :
          asked' = [asked EXCEPT ![r].stage = "probed", ![r].found = found]
    BY <1>4 DEF ProbeCalls, StatusShown, States
  <2>2. asked' \in Asked
    BY <2>1 DEF Asked, IdentityTypeOK
  <2>3. UNCHANGED <<session, login, logout, newest, shown, revoked, told>>
    BY <1>4 DEF ProbeCalls
  <2> QED
    BY <2>2, <2>3 DEF Asked, IdentityTypeOK, LogoutInv, LogoutWins, NewestAnswerShown
<1>5. ASSUME NEW r \in Req, ProbeEnds(r)
      PROVE  SessionInv'
  <2>1. Answer({r}, [q \in Req |-> asked[q].found]) /\ asked[r].found \in States
    BY <1>5 DEF ProbeEnds, IdentityTypeOK
  <2>2. /\ NewestAnswerShown' /\ newest' = newest /\ asked' \in Asked
        /\ shown' \in States \cup {"checking"} /\ told' \in States \cup {"none"}
    <3>1. \A p \in {r} : [q \in Req |-> asked[q].found][p] \in States
      BY <2>1
    <3> QED
      BY <2>1, <3>1, AnswerShown
  <2> QED
    BY <1>5, <2>2 DEF ProbeEnds, IdentityTypeOK, Asked, LogoutInv, LogoutWins
<1>6. ASSUME NEW r \in Req, AuthenticateCalls(r)
      PROVE  SessionInv'
  <2>1. UNCHANGED <<session, logout, newest, shown, told>>
    BY <1>6 DEF AuthenticateCalls
  <2>2. asked' \in Asked
    <3>1. \E stage \in {"login", "behind"} : asked' = [asked EXCEPT ![r].stage = stage]
      BY <1>6 DEF AuthenticateCalls
    <3> QED
      BY <3>1 DEF Asked, IdentityTypeOK
  <2>3. \/ UNCHANGED <<login, revoked>>
        \/ logout = "none" /\ LoginBegins
    BY <1>6 DEF AuthenticateCalls, MayStartLogin
  <2>4. CASE UNCHANGED <<login, revoked>>
    BY <2>1, <2>2, <2>4 DEF Asked, IdentityTypeOK, LogoutInv, LogoutWins, NewestAnswerShown
  <2>5. CASE logout = "none" /\ LoginBegins
    <3>1. login' \in [step : {"status"}, aborted : BOOLEAN] /\ revoked' = FALSE
      BY <2>5 DEF LoginBegins
    <3>2. IdentityTypeOK'
      BY <2>1, <2>2, <3>1 DEF Asked, IdentityTypeOK
    <3>3. LogoutInv' /\ NewestAnswerShown'
      BY <2>1, <2>5, <3>1 DEF LogoutInv, LogoutWins, NewestAnswerShown
    <3> QED
      BY <3>2, <3>3
  <2> QED
    BY <2>3, <2>4, <2>5
<1>7. ASSUME NEW r \in Req, DisconnectCalls(r)
      PROVE  SessionInv'
  BY <1>7 DEF DisconnectCalls, AfterLogin, IdentityTypeOK, LogoutInv, LogoutWins,
              NewestAnswerShown
<1>8. CASE LoginReadsStatus
  <2>1. login.step # "none" /\ session' \in {"out", "in", "expired"}
    BY <1>8 DEF LoginReadsStatus, IdentityTypeOK
  <2>2. \/ LoginSettles("connected")
        \/ \E step \in {"refresh", "login"} : LoginContinues(step)
    <3>1. CASE session = "in"
      BY <1>8, <3>1, Zenon DEF LoginReadsStatus
    <3>2. CASE session = "expired"
      <4>1. LoginContinues("refresh")
        BY <1>8, <3>2 DEF LoginReadsStatus
      <4> QED
        BY <4>1
    <3>3. CASE session = "out"
      <4>1. LoginContinues("login")
        BY <1>8, <3>3 DEF LoginReadsStatus
      <4> QED
        BY <4>1
    <3> QED
      BY <3>1, <3>2, <3>3 DEF IdentityTypeOK
  <2> QED
    BY <2>1, <2>2, LoginOver, LoginOn DEF LogoutInv, States
<1>9. CASE LoginRefreshes
  <2>1. login.step # "none" /\ session' \in {"out", "in", "expired"}
    BY <1>9 DEF LoginRefreshes, IdentityTypeOK
  <2>2. \E step \in {"restatus", "login"} : LoginContinues(step)
    BY <1>9 DEF LoginRefreshes
  <2> QED
    BY <2>1, <2>2, LoginOn DEF LogoutInv
<1>10. CASE LoginReadsAgain
  <2>1. login.step # "none" /\ session' \in {"out", "in", "expired"}
    BY <1>10 DEF LoginReadsAgain, IdentityTypeOK
  <2>2. LoginSettles("connected") \/ LoginContinues("login")
    BY <1>10 DEF LoginReadsAgain
  <2> QED
    BY <2>1, <2>2, LoginOver, LoginOn DEF LogoutInv, States
<1>11. CASE LoginRuns
  <2>1. login.step # "none" /\ session' = "in" /\ LoginContinues("confirm")
    BY <1>11 DEF LoginRuns
  <2> QED
    BY <2>1, LoginOn DEF LogoutInv
<1>12. CASE LoginConfirms
  <2>1. login.step # "none" /\ session' \in {"out", "in", "expired"}
    BY <1>12 DEF LoginConfirms, IdentityTypeOK
  <2>2. PICK answer \in States : LoginSettles(answer)
    BY <1>12 DEF LoginConfirms, States
  <2> QED
    BY <2>1, <2>2, LoginOver
<1>13. CASE LoginFails
  <2>1. login.step # "none" /\ session' \in {"out", "in", "expired"}
    BY <1>13 DEF LoginFails, IdentityTypeOK
  <2>2. PICK answer \in States : LoginSettles(answer)
    BY <1>13 DEF LoginFails, FailureShown, States
  <2> QED
    BY <2>1, <2>2, LoginOver
<1>14. CASE LogoutSucceeds
  <2>1. login.step = "none" /\ session' = "out" /\ logout' = "none" /\ newest' = newest
    BY <1>14 DEF LogoutSucceeds, LogoutInv
  <2>2. /\ login' \in [step : {"none", "status"}, aborted : BOOLEAN] /\ revoked' \in BOOLEAN
        /\ revoked' => login'.step = "none"
    <3>1. CASE Waiting("behind") = {}
      BY <1>14, <2>1, <3>1 DEF LogoutSucceeds, IdentityTypeOK
    <3>2. CASE Waiting("behind") # {}
      <4>1. LoginBegins
        BY <1>14, <3>2, Zenon DEF LogoutSucceeds
      <4> QED
        BY <4>1 DEF LoginBegins
    <3> QED
      BY <3>1, <3>2
  <2>3. asked' \in Asked
    BY <1>14 DEF LogoutSucceeds, IdentityTypeOK, Asked, IdleRequest, States
  <2>4. /\ NewestAnswerShown'
        /\ shown' \in States \cup {"checking"} /\ told' \in States \cup {"none"}
    BY <1>14, <2>1 DEF LogoutSucceeds, IdentityTypeOK, NewestAnswerShown, IsCurrent, Waiting, States
  <2> QED
    BY <2>1, <2>2, <2>3, <2>4 DEF IdentityTypeOK, Asked, LogoutInv, LogoutWins
<1>15. CASE LogoutFails
  <2>1. /\ login.step = "none" /\ login' = login /\ revoked' = revoked /\ logout' = "none"
        /\ session' \in {session, "out"}
    BY <1>15 DEF LogoutFails, LogoutInv
  <2>2. PICK answer \in States :
          Answer(Waiting("logout") \cup Waiting("behind"), [r \in Req |-> answer])
    BY <1>15 DEF LogoutFails, FailureShown, States
  <2>3. \A r \in Waiting("logout") \cup Waiting("behind") : [q \in Req |-> answer][r] \in States
    BY DEF Waiting
  <2>4. /\ NewestAnswerShown' /\ newest' = newest /\ asked' \in Asked
        /\ shown' \in States \cup {"checking"} /\ told' \in States \cup {"none"}
    BY <2>2, <2>3, AnswerShown DEF Waiting
  <2> QED
    BY <2>1, <2>4 DEF IdentityTypeOK, Asked, LogoutInv, LogoutWins
<1> QED
  BY <1>1, <1>2, <1>3, <1>4, <1>5, <1>6, <1>7, <1>8, <1>9, <1>10, <1>11, <1>12, <1>13, <1>14,
     <1>15 DEF IdentityNext

(***************************************************************************)
(* When a logout has succeeded the session is gone and stays gone until    *)
(* somebody logs in again, for any number of overlapping requests.         *)
(***************************************************************************)
THEOREM LogoutLasts == IdentitySpec => []LogoutWins
<1>1. SessionInv => LogoutWins
  BY DEF SessionInv, LogoutInv
<1> QED
  BY <1>1, SessionInit, SessionStep, PTL DEF IdentitySpec

(***************************************************************************)
(* The connection shows the answer of the newest request, for any number   *)
(* of requests and any order of their answers.                             *)
(***************************************************************************)
THEOREM NewestAnswerStays == IdentitySpec => []NewestAnswerShown
<1>1. SessionInv => NewestAnswerShown
  BY DEF SessionInv
<1> QED
  BY <1>1, SessionInit, SessionStep, PTL DEF IdentitySpec
-----------------------------------------------------------------------------
(* Drafts.                                                                 *)

NoneCreated(d) == \A n \in Creations : <<d, n>> \notin creating

(* A draft whose record is being created is kept and has no result; one    *)
(* whose record is known is not created again, nor previewed again under   *)
(* its ID when it is forgotten.                                            *)
CreatedOnce(d) ==
  /\ \A n \in Creations : <<d, n>> \in creating =>
       drafts[d].kept = "yes" /\ drafts[d].inFlight = n /\ drafts[d].result = NoCreation
  /\ answers[d] # {} => NoneCreated(d)
  /\ \A a \in answers[d] : drafts[d].kept = "yes" => drafts[d].result = a
  /\ \A a, b \in answers[d] : a = b
  /\ drafts[d].result # NoCreation => drafts[d].result \in answers[d]
  /\ tried[d] = 0 => NoneCreated(d) /\ answers[d] = {}
  /\ drafts[d].kept \in {"looking", "reading"} => tried[d] = 0

DraftsInv == DraftsTypeOK /\ \A d \in Draft : CreatedOnce(d)

LEMMA DraftsInitial == DraftsInit => DraftsInv
<1> SUFFICES ASSUME DraftsInit PROVE DraftsInv
  OBVIOUS
<1>1. DraftsTypeOK
  BY DraftsAssumption DEF DraftsInit, DraftsTypeOK, NoDraft, NoCreation, Creations
<1>2. \A d \in Draft : CreatedOnce(d)
  BY DEF DraftsInit, CreatedOnce, NoneCreated, NoDraft, NoCreation
<1> QED
  BY <1>1, <1>2 DEF DraftsInv

(* A draft that a step leaves alone, forgets or takes a step further in    *)
(* its preview.                                                            *)
LEMMA Untouched ==
  ASSUME NEW d \in Draft, CreatedOnce(d),
         \/ drafts'[d] = drafts[d]
         \/ drafts'[d] = NoDraft /\ NoneCreated(d)'
         \/ tried[d] = 0 /\ drafts'[d].result = NoCreation,
         \A n \in Creations : <<d, n>> \in creating' => <<d, n>> \in creating,
         tried'[d] = tried[d], answers'[d] = answers[d]
  PROVE  CreatedOnce(d)'
BY DEF CreatedOnce, NoneCreated, NoDraft, NoCreation

(* Which drafts removeExpiredDrafts leaves.                                *)
LEMMA Remain ==
  ASSUME DraftsInv
  PROVE  /\ Remaining \in [Draft -> [kept : {"no", "looking", "reading", "yes"},
                                     inFlight : Creations \cup {NoCreation},
                                     result : Creations \cup {NoCreation}]]
         /\ \A d \in Draft : \/ Remaining[d] = drafts[d]
                             \/ Remaining[d] = NoDraft /\ NoneCreated(d)
<1>1. \A d \in Draft : Remaining[d] = IF Removed(d) THEN NoDraft ELSE drafts[d]
  BY DEF Remaining
<1>2. \A d \in Draft : Removed(d) => NoneCreated(d)
  BY DraftsAssumption DEF DraftsInv, CreatedOnce, NoneCreated, Removed, Creations, NoCreation
<1>3. NoDraft \in [kept : {"no", "looking", "reading", "yes"},
                   inFlight : Creations \cup {NoCreation}, result : Creations \cup {NoCreation}]
  BY DEF NoDraft
<1> QED
  BY <1>1, <1>2, <1>3 DEF DraftsInv, DraftsTypeOK, Remaining

LEMMA DraftsStep == DraftsInv /\ [DraftsNext]_draftVars => DraftsInv'
<1> SUFFICES ASSUME DraftsInv, [DraftsNext]_draftVars PROVE DraftsInv'
  OBVIOUS
<1>t. DraftsTypeOK /\ (\A d \in Draft : CreatedOnce(d)) /\ 0 \notin Creations
  BY DraftsAssumption DEF DraftsInv, Creations
<1>1. CASE UNCHANGED draftVars
  <2>1. DraftsTypeOK'
    BY <1>1, <1>t DEF draftVars, DraftsTypeOK
  <2> QED
    BY <1>1, <1>t, <2>1 DEF draftVars, DraftsInv, CreatedOnce, NoneCreated
<1>2. CASE DraftsLost
  <2>1. DraftsTypeOK'
    BY <1>2, <1>t DEF DraftsLost, DraftsTypeOK, NoDraft
  <2>2. \A d \in Draft : drafts'[d] = NoDraft /\ NoneCreated(d)'
    BY <1>2 DEF DraftsLost, NoneCreated
  <2> QED
    BY <1>2, <1>t, <2>1, <2>2, Untouched DEF DraftsLost, DraftsInv
<1>3. ASSUME NEW d \in Draft, DraftExpires(d)
      PROVE  DraftsInv'
  <2>1. DraftsTypeOK'
    BY <1>3, <1>t DEF DraftExpires, DraftsTypeOK
  <2> QED
    BY <1>3, <1>t, <2>1, Untouched DEF DraftExpires, DraftsInv
<1>4. ASSUME NEW d \in Draft, PreviewBegins(d)
      PROVE  DraftsInv'
  <2>1. drafts' = [Remaining EXCEPT ![d].kept = "looking"] /\ drafts[d] = NoDraft
    BY <1>4 DEF PreviewBegins
  <2>2. Remaining[d] = NoDraft
    BY <2>1, Remain
  <2>3. /\ drafts'[d].result = NoCreation /\ tried[d] = 0
        /\ \A q \in Draft \ {d} : drafts'[q] = Remaining[q]
    BY <1>4, <2>1, <2>2, Remain DEF PreviewBegins, NoDraft
  <2>4. DraftsTypeOK'
    <3> DEFINE D == [kept : {"no", "looking", "reading", "yes"},
                     inFlight : Creations \cup {NoCreation},
                     result : Creations \cup {NoCreation}]
    <3>1. Remaining \in [Draft -> D]
      BY <1>t, Remain DEF DraftsTypeOK
    <3>2. [Remaining[d] EXCEPT !.kept = "looking"] \in D
      BY <3>1
    <3>3. drafts' = [Remaining EXCEPT ![d] = [Remaining[d] EXCEPT !.kept = "looking"]]
      BY <2>1
    <3> HIDE DEF D
    <3>4. drafts' \in [Draft -> D]
      BY <3>1, <3>2, <3>3
    <3>5. UNCHANGED <<old, confirms, creating, tried, answers>>
      BY <1>4 DEF PreviewBegins
    <3> QED
      BY <1>t, <3>4, <3>5 DEF DraftsTypeOK, D
  <2>5. UNCHANGED <<creating, tried, answers>>
    BY <1>4 DEF PreviewBegins
  <2>6. ASSUME NEW q \in Draft
        PROVE  CreatedOnce(q)'
    BY <1>t, <2>3, <2>5, Remain, Untouched DEF NoneCreated
  <2> QED
    BY <2>4, <2>6 DEF DraftsInv
<1>5. ASSUME NEW d \in Draft, NEW from \in {"looking", "reading"}, NEW to \in {"reading", "yes", "no"},
             PreviewGoes(d, from, to)
      PROVE  DraftsInv'
  <2>1. tried[d] = 0 /\ drafts[d].result = NoCreation
    BY <1>5, <1>t DEF PreviewGoes, CreatedOnce
  <2>2. DraftsTypeOK' /\ UNCHANGED <<creating, tried, answers>>
    BY <1>5, <1>t DEF PreviewGoes, DraftsTypeOK
  <2>3. /\ drafts'[d].result = NoCreation
        /\ \A q \in Draft \ {d} : drafts'[q] = drafts[q]
    BY <1>5, <1>t, <2>1 DEF PreviewGoes, DraftsTypeOK
  <2>5. CreatedOnce(d)'
    <3>1. tried[d] = 0 /\ drafts'[d].result = NoCreation
      BY <2>1, <2>3
    <3> QED
      BY <1>t, <2>2, <3>1, Untouched
  <2>6. ASSUME NEW q \in Draft \ {d}
        PROVE  CreatedOnce(q)'
    BY <1>t, <2>2, <2>3, Untouched
  <2> QED
    BY <2>2, <2>5, <2>6 DEF DraftsInv
<1>6. ASSUME NEW d \in Draft, NEW n \in Creations, CreationSucceeds(d, n)
      PROVE  DraftsInv'
  <2>1. /\ drafts[d].kept = "yes" /\ answers[d] = {} /\ tried[d] # 0
        /\ \A m \in Creations : <<d, m>> \in creating => m = n
    BY <1>6, <1>t DEF CreationSucceeds, CreationEnds, CreatedOnce, NoneCreated
  <2>2. /\ drafts' = [drafts EXCEPT ![d].inFlight = NoCreation, ![d].result = n]
        /\ answers' = [answers EXCEPT ![d] = @ \cup {n}]
        /\ creating' = creating \ {<<d, n>>} /\ UNCHANGED <<old, tried>>
    BY <1>6, <2>1 DEF CreationSucceeds, CreationEnds
  <2>3. DraftsTypeOK'
    <3>1. confirms' \in [Confirm -> (Draft \X Creations) \cup {NoWait}]
      BY <1>6, <1>t DEF CreationSucceeds, CreationEnds, DraftsTypeOK
    <3>2. drafts' \in [Draft -> [kept : {"no", "looking", "reading", "yes"},
                                inFlight : Creations \cup {NoCreation},
                                result : Creations \cup {NoCreation}]]
      BY <1>t, <2>2 DEF DraftsTypeOK
    <3>3. answers' \in [Draft -> SUBSET Creations]
      BY <1>t, <2>2 DEF DraftsTypeOK
    <3> QED
      BY <1>t, <2>2, <3>1, <3>2, <3>3 DEF DraftsTypeOK
  <2>4. CreatedOnce(d)'
    <3>1. /\ drafts'[d].kept = "yes" /\ drafts'[d].result = n /\ answers'[d] = {n}
          /\ \A m \in Creations : <<d, m>> \notin creating'
      BY <1>t, <2>1, <2>2 DEF DraftsTypeOK
    <3> QED
      BY <1>t, <2>1, <2>2, <3>1 DEF CreatedOnce, NoneCreated, NoCreation
  <2>5. ASSUME NEW q \in Draft \ {d}
        PROVE  CreatedOnce(q)'
    <3>1. drafts'[q] = drafts[q] /\ answers'[q] = answers[q]
      BY <1>t, <2>2 DEF DraftsTypeOK
    <3> QED
      BY <1>t, <2>2, <3>1, Untouched
  <2> QED
    BY <2>3, <2>4, <2>5 DEF DraftsInv
<1>7. ASSUME NEW d \in Draft, NEW n \in Creations, CreationFails(d, n)
      PROVE  DraftsInv'
  <2>1. /\ drafts[d].kept = "yes" /\ drafts[d].result = NoCreation
        /\ answers[d] = {} /\ tried[d] # 0
        /\ \A m \in Creations : <<d, m>> \in creating => m = n
    BY <1>7, <1>t DEF CreationFails, CreationEnds, CreatedOnce, NoneCreated
  <2>2. /\ drafts' = [drafts EXCEPT ![d].inFlight = NoCreation]
        /\ creating' = creating \ {<<d, n>>} /\ UNCHANGED <<old, tried, answers>>
    BY <1>7, <2>1 DEF CreationFails, CreationEnds
  <2>3. DraftsTypeOK'
    <3>1. confirms' \in [Confirm -> (Draft \X Creations) \cup {NoWait}]
      BY <1>7, <1>t DEF CreationFails, CreationEnds, DraftsTypeOK
    <3> QED
      BY <1>t, <2>2, <3>1 DEF DraftsTypeOK
  <2>4. CreatedOnce(d)'
    <3>1. /\ drafts'[d].kept = "yes" /\ drafts'[d].result = NoCreation
          /\ \A m \in Creations : <<d, m>> \notin creating'
      BY <1>t, <2>1, <2>2 DEF DraftsTypeOK
    <3> QED
      BY <1>t, <2>1, <2>2, <3>1 DEF CreatedOnce, NoneCreated
  <2>5. ASSUME NEW q \in Draft \ {d}
        PROVE  CreatedOnce(q)'
    <3>1. drafts'[q] = drafts[q]
      BY <1>t, <2>2 DEF DraftsTypeOK
    <3> QED
      BY <1>t, <2>2, <3>1, Untouched
  <2> QED
    BY <2>3, <2>4, <2>5 DEF DraftsInv
<1>8. ASSUME NEW d \in Draft, NEW c \in Confirm, CreationStarts(c, d)
      PROVE  DraftsInv'
  <2> DEFINE n == tried[d] + 1
  <2>1. /\ Remaining[d].kept = "yes" /\ Remaining[d].result = NoCreation
        /\ Remaining[d].inFlight = NoCreation /\ n \in Creations /\ n # 0
    BY <1>8, <1>t DEF CreationStarts, StartsCreation
  <2>2. /\ drafts' = [Remaining EXCEPT ![d].inFlight = n]
        /\ confirms' = [confirms EXCEPT ![c] = <<d, n>>]
        /\ creating' = creating \cup {<<d, n>>} /\ tried' = [tried EXCEPT ![d] = n]
        /\ UNCHANGED <<old, answers>>
    BY <1>8 DEF CreationStarts
  <2> HIDE DEF n
  <2>3. DraftsTypeOK'
    <3>1. n \in 0..MaxCreates
      BY <2>1, DraftsAssumption DEF Creations
    <3> QED
      BY <1>t, <2>1, <2>2, <3>1, Remain DEF DraftsTypeOK
  <2>4. Remaining[d] = drafts[d]
    BY <2>1, Remain DEF NoDraft
  <2>5. NoneCreated(d) /\ answers[d] = {}
    BY <1>t, <2>1, <2>4 DEF CreatedOnce, NoneCreated, NoCreation, DraftsTypeOK
  <2>6. CreatedOnce(d)'
    <3>1. /\ drafts'[d].kept = "yes" /\ drafts'[d].inFlight = n
          /\ drafts'[d].result = NoCreation /\ tried'[d] = n /\ answers'[d] = {}
      BY <1>t, <2>1, <2>2, <2>5, Remain DEF DraftsTypeOK
    <3>2. \A m \in Creations : <<d, m>> \in creating' => m = n
      BY <2>2, <2>5 DEF NoneCreated
    <3> QED
      BY <2>1, <3>1, <3>2 DEF CreatedOnce, NoneCreated
  <2>7. ASSUME NEW q \in Draft \ {d}
        PROVE  CreatedOnce(q)'
    <3>1. /\ drafts'[q] = Remaining[q] /\ tried'[q] = tried[q]
          /\ \A m \in Creations : <<q, m>> \in creating' <=> <<q, m>> \in creating
      BY <1>t, <2>2, Remain DEF DraftsTypeOK
    <3> QED
      BY <1>t, <2>2, <3>1, Remain, Untouched DEF NoneCreated
  <2> QED
    BY <2>3, <2>6, <2>7 DEF DraftsInv
<1>9. ASSUME NEW d \in Draft, NEW c \in Confirm, CreationJoined(c, d)
      PROVE  DraftsInv'
  <2>1. /\ drafts' = Remaining /\ UNCHANGED <<old, creating, tried, answers>>
        /\ confirms' = [confirms EXCEPT ![c] = <<d, drafts[d].inFlight>>]
        /\ Remaining[d].kept = "yes" /\ Remaining[d].inFlight # NoCreation
    BY <1>9 DEF CreationJoined, StartsCreation
  <2>2. drafts[d].inFlight \in Creations
    BY <1>t, <2>1, Remain DEF DraftsTypeOK, NoDraft
  <2>3. DraftsTypeOK'
    BY <1>t, <2>1, <2>2, Remain DEF DraftsTypeOK
  <2> QED
    BY <1>t, <2>1, <2>3, Remain, Untouched DEF DraftsInv, NoneCreated
<1>10. ASSUME NEW d \in Draft, NEW c \in Confirm, AnsweredAtOnce(c, d)
       PROVE  DraftsInv'
  <2>1. /\ drafts' = Remaining /\ UNCHANGED <<old, confirms, creating, tried>>
        /\ answers' = [answers EXCEPT ![d] = @ \cup ({Remaining[d].result} \ {NoCreation})]
    BY <1>10 DEF AnsweredAtOnce
  <2>2. {Remaining[d].result} \ {NoCreation} \subseteq answers[d]
    BY <1>t, Remain DEF CreatedOnce, NoDraft
  <2>3. answers' = answers
    BY <1>t, <2>1, <2>2 DEF DraftsTypeOK
  <2>4. DraftsTypeOK'
    BY <1>t, <2>1, <2>3, Remain DEF DraftsTypeOK
  <2> QED
    BY <1>t, <2>1, <2>3, <2>4, Remain, Untouched DEF DraftsInv, NoneCreated
<1> QED
  BY <1>1, <1>2, <1>3, <1>4, <1>5, <1>6, <1>7, <1>8, <1>9, <1>10
     DEF DraftsNext, SourcesFound, LookupFails, ReadFails, PreviewEnds

LEMMA AtMostOne == ASSUME NEW S, \A a, b \in S : a = b PROVE Cardinality(S) <= 1
<1>1. CASE S = {}
  BY <1>1, FS_EmptySet
<1>2. CASE S # {}
  <2>1. PICK a \in S : S = {a}
    BY <1>2
  <2> QED
    BY <2>1, FS_Singleton
<1> QED
  BY <1>1, <1>2

(***************************************************************************)
(* Everybody who confirms a draft is told of the same record, and at most  *)
(* one create command is under way for it, for any number of drafts and    *)
(* confirmations, whichever creations fail.  It counts the records that    *)
(* were answered, not those on the platform: a creation that failed may    *)
(* have made one, and confirming again then makes another.                 *)
(***************************************************************************)
THEOREM OneRecord == DraftsSpec => []OneRequirement
<1>1. DraftsInv => OneRequirement
  <2> SUFFICES ASSUME DraftsInv, NEW d \in Draft
               PROVE  /\ Cardinality({n \in Creations : <<d, n>> \in creating}) <= 1
                      /\ Cardinality(answers[d]) <= 1
                      /\ answers[d] # {} => \A n \in Creations : <<d, n>> \notin creating
    BY DEF OneRequirement
  <2>1. CreatedOnce(d)
    BY DEF DraftsInv
  <2>2. Cardinality({n \in Creations : <<d, n>> \in creating}) <= 1
    <3>1. \A m, n \in {k \in Creations : <<d, k>> \in creating} : m = n
      BY <2>1 DEF CreatedOnce
    <3> QED
      BY <3>1, AtMostOne
  <2>3. Cardinality(answers[d]) <= 1
    BY <2>1, AtMostOne DEF CreatedOnce
  <2> QED
    BY <2>1, <2>2, <2>3 DEF CreatedOnce, NoneCreated
<1> QED
  BY <1>1, DraftsInitial, DraftsStep, PTL DEF DraftsSpec
-----------------------------------------------------------------------------
(* Saves.                                                                  *)

Saving(m) == saves[m] # NotSaving

OneSave == \A m, q \in Mutation : Saving(m) /\ Saving(q) => m = q

(* What the stage of a save says about it and the settings.                *)
Shape(v) ==
  /\ v.key = "app" => /\ v.stage = "store" /\ ~v.changed
                      /\ v.after = [v.before EXCEPT !.live = v.after.live]
  /\ v.key # "app" => /\ v.after = WithAgent(v.before, v.after.on, v.after.by, v.after.scope)
                      /\ v.after.by # "key" => v.key = NoKey
  /\ v.stage = "change" /\ v.after.by # "default" => v.previous = keychain[v.after.scope]
  /\ v.stage \in {"change", "restore", "store"} => settings = v.before
  /\ v.stage = "decorate" => settings = v.after
  /\ settings \in {v.before, v.after}

ShapeInv ==
  AgentTypeOK /\ OneSave /\ \A m \in Mutation : Saving(m) => Shape(saves[m])

(* A key in the keychain for a configuration was entered for it: before a  *)
(* save, and with what the save sets and may put back.                     *)
Entered(s) == s.by = "key" /\ keychain[s.scope] # NoKey => s.scope \in entered

SaveEntered(v) ==
  /\ Entered(v.before)
  /\ v.before.by = "key" /\ v.before.scope = v.after.scope /\ v.previous # NoKey
     => v.before.scope \in entered
  /\ v.stage \in {"store", "decorate", "undo key"} => Entered(v.after)

EnteredInv ==
  ~stuck => /\ MayServe => Entered(settings)
            /\ \A m \in Mutation : Saving(m) => SaveEntered(saves[m])

(* How far a save has taken the settings and the keychain from what was    *)
(* answered, and that it knows the way back.                               *)
SavePromised(v) ==
  /\ AsAnswered(v.before)
  /\ \A s \in Scope : s # v.after.scope => keychain[s] = promised.keys[s]
  /\ v.stage \in {"change", "undo settings"} \/ (v.stage # "restore" /\ ~v.changed)
     => keychain[v.after.scope] = promised.keys[v.after.scope]
  /\ v.stage = "restore" \/ v.changed => v.previous = promised.keys[v.after.scope]

PromiseInv ==
  promised # NoPromise =>
    /\ MayServe => AsAnswered(settings) /\ keychain = promised.keys
    /\ \A m \in Mutation : Saving(m) => SavePromised(saves[m])

SavesInv == ShapeInv /\ EnteredInv /\ PromiseInv

LEMMA SavesInitial == AgentInit => SavesInv
<1> SUFFICES ASSUME AgentInit PROVE SavesInv
  OBVIOUS
<1>1. \A m \in Mutation : ~Saving(m)
  BY DEF AgentInit, Saving
<1>2. AgentTypeOK
  BY DEF AgentInit, AgentTypeOK, AgentPart, Promise, Promises, Settings, Keys
<1>3. Entered(settings) /\ AsAnswered(settings) /\ keychain = promised.keys
  BY DEF AgentInit, Entered, AsAnswered, AgentPart, Promise, Settings
<1> QED
  BY <1>1, <1>2, <1>3 DEF SavesInv, ShapeInv, EnteredInv, PromiseInv, OneSave

(* While a save is served, the others wait.                                *)
LEMMA Alone ==
  ASSUME ShapeInv, NEW m \in Mutation, Saving(m) \/ MayServe, NEW w,
         saves' = [saves EXCEPT ![m] = w]
  PROVE  saves'[m] = w /\ OneSave' /\ \A q \in Mutation : q # m => saves'[q] = NotSaving
<1>1. \A q \in Mutation : q # m => saves[q] = NotSaving
  BY DEF ShapeInv, OneSave, Saving, MayServe
<1>2. saves'[m] = w /\ \A q \in Mutation : q # m => saves'[q] = NotSaving
  BY <1>1 DEF ShapeInv, AgentTypeOK
<1> QED
  BY <1>2 DEF OneSave, Saving

(* A save that goes on is the only one, and it keeps what it knows.        *)
LEMMA GoesOn ==
  ASSUME SavesInv, NEW m \in Mutation, Saving(m) \/ MayServe, NEW w \in Saves,
         saves' = [saves EXCEPT ![m] = w],
         settings' \in Settings, keychain' \in Keys, promised' \in {promised, NoPromise},
         stuck' \in BOOLEAN, stuck => stuck', entered' \subseteq Scope,
         Shape(w)',
         ~stuck => SaveEntered(w)',
         promised # NoPromise /\ promised' = promised => SavePromised(w)'
  PROVE  SavesInv'
<1>1. saves'[m] = w /\ OneSave' /\ \A q \in Mutation : q # m => saves'[q] = NotSaving
  BY Alone DEF SavesInv
<1>2. saves'[m] # NotSaving
  <2>1. w.stage # "none"
    BY DEF Saves
  <2> QED
    BY <1>1, <2>1 DEF NotSaving
<1>3. AgentTypeOK'
  <2>1. saves' \in [Mutation -> Saves \cup {NotSaving}]
    BY DEF SavesInv, ShapeInv, AgentTypeOK
  <2>2. promised' \in Promises \cup {NoPromise}
    BY DEF SavesInv, ShapeInv, AgentTypeOK
  <2> QED
    BY <2>1, <2>2 DEF AgentTypeOK
<1>4. ShapeInv'
  BY <1>1, <1>3 DEF ShapeInv, Saving
<1>5. ~MayServe'
  BY <1>2 DEF MayServe
<1>6. EnteredInv'
  BY <1>1, <1>5 DEF EnteredInv, Saving
<1>7. PromiseInv'
  BY <1>1, <1>5 DEF PromiseInv, Saving
<1> QED
  BY <1>4, <1>6, <1>7 DEF SavesInv

(* A save that is over leaves none.                                        *)
LEMMA IsOver ==
  ASSUME SavesInv, saves' = [q \in Mutation |-> NotSaving],
         settings' \in Settings, keychain' \in Keys,
         promised' \in Promises \cup {NoPromise},
         stuck' \in BOOLEAN, entered' \subseteq Scope,
         ~stuck' => Entered(settings)',
         promised' # NoPromise => AsAnswered(settings)' /\ keychain' = promised'.keys
  PROVE  SavesInv'
<1>1. \A q \in Mutation : saves'[q] = NotSaving
  OBVIOUS
<1>2. AgentTypeOK' /\ OneSave'
  BY <1>1 DEF AgentTypeOK, OneSave, Saving
<1>3. ShapeInv'
  BY <1>1, <1>2 DEF ShapeInv, Saving
<1>4. EnteredInv' /\ PromiseInv'
  BY <1>1 DEF EnteredInv, PromiseInv, Saving
<1> QED
  BY <1>3, <1>4 DEF SavesInv

LEMMA NoneSaves ==
  ASSUME ShapeInv, NEW m \in Mutation, Saving(m), SaveOver(m)
  PROVE  saves' = [q \in Mutation |-> NotSaving]
<1>1. saves' = [saves EXCEPT ![m] = NotSaving]
  BY DEF SaveOver
<1>2. \A q \in Mutation : saves'[q] = NotSaving
  BY <1>1, Alone
<1>3. saves' \in [Mutation -> Saves \cup {NotSaving}]
  BY <1>1 DEF ShapeInv, AgentTypeOK
<1> QED
  BY <1>2, <1>3

(* What the configuration there is needs is still known as entered.        *)
LEMMA StillThere ==
  ASSUME settings' \in Settings, entered' = StillEntered(entered),
         settings'.by = "key" /\ keychain'[settings'.scope] # NoKey => settings'.scope \in entered
  PROVE  entered' \subseteq Scope /\ Entered(settings)'
BY DEF StillEntered, Entered, Settings

(* The steps of a save.                                                    *)

LEMMA BeginsKeepsInv ==
  ASSUME SavesInv, NEW m \in Mutation, NEW w \in Saves, MayServe,
         saves' = [saves EXCEPT ![m] = w],
         UNCHANGED <<settings, keychain, promised, stuck, entered>>,
         w.before = settings, ~w.changed, w.stage \in {"change", "store"},
         w.stage = "change" => w.previous = NoKey \/ w.previous = keychain[w.after.scope],
         w.stage = "store" => w.previous = NoKey /\ w.after = [settings EXCEPT !.live = w.after.live],
         Shape(w)
  PROVE  SavesInv'
<1> USE DEF SavesInv, ShapeInv, AgentTypeOK
<1>1. Shape(w)'
  BY DEF Shape
<1>2. ~stuck => SaveEntered(w)'
  <2>1. ~stuck => Entered(settings)
    BY DEF EnteredInv
  <2>2. w.stage = "store" => w.after.by = settings.by /\ w.after.scope = settings.scope
    BY DEF Settings
  <2>3. ~stuck => Entered(settings)' /\ (w.stage = "store" => Entered(w.after)')
    BY <2>1, <2>2 DEF Entered
  <2>4. ~stuck /\ settings.by = "key" /\ settings.scope = w.after.scope /\ w.previous # NoKey
        => settings.scope \in entered
    BY <2>1 DEF Entered
  <2> QED
    BY <2>3, <2>4 DEF SaveEntered
<1>3. promised # NoPromise => SavePromised(w)'
  <2>1. promised # NoPromise => AsAnswered(settings) /\ keychain = promised.keys
    BY DEF PromiseInv
  <2> QED
    BY <2>1 DEF SavePromised, AsAnswered
<1> QED
  BY <1>1, <1>2, <1>3, GoesOn

LEMMA AgentSaveBeginsKeeps ==
  ASSUME SavesInv, NEW m \in Mutation, NEW i \in AgentInput, AgentSaveBegins(m, i)
  PROVE  SavesInv'
<1> DEFINE after == WithAgent(settings, i.on, i.by, i.scope)
           previous == IF i.by = "default" THEN NoKey ELSE keychain[i.scope]
<1>1. PICK w : w = [stage |-> "change", before |-> settings, after |-> after, key |-> i.key,
                    previous |-> previous, changed |-> FALSE]
  OBVIOUS
<1>2. settings \in Settings /\ keychain \in Keys
  BY DEF SavesInv, ShapeInv, AgentTypeOK
<1>3. /\ i.on \in BOOLEAN /\ i.by \in {"default", "open", "key"} /\ i.scope \in Scope
      /\ i.key \in Key \cup {NoKey, "clear"} /\ (i.by # "key" => i.key = NoKey)
  BY DEF AgentInput
<1>4. after \in Settings /\ after.on = i.on /\ after.by = i.by /\ after.scope = i.scope
  BY <1>2, <1>3 DEF Settings, WithAgent
<1>5. w \in Saves
  BY <1>1, <1>2, <1>3, <1>4 DEF Saves, Keys
<1>6. Shape(w)
  BY <1>1, <1>3, <1>4, AgentConfigurationAssumption DEF Shape
<1>7. saves' = [saves EXCEPT ![m] = w] /\ MayServe
      /\ UNCHANGED <<settings, keychain, promised, stuck, entered>>
  BY <1>1 DEF AgentSaveBegins
<1> QED
  BY <1>1, <1>4, <1>5, <1>6, <1>7, BeginsKeepsInv

LEMMA ApplicationSaveBeginsKeeps ==
  ASSUME SavesInv, NEW m \in Mutation, NEW live \in BOOLEAN, NEW approved \in BOOLEAN,
         ApplicationSaveBegins(m, live, approved)
  PROVE  SavesInv'
<1> DEFINE after == [settings EXCEPT !.live = live]
<1>1. PICK w : w = [stage |-> "store", before |-> settings, after |-> after, key |-> "app",
                    previous |-> NoKey, changed |-> FALSE]
  OBVIOUS
<1>2. settings \in Settings
  BY DEF SavesInv, ShapeInv, AgentTypeOK
<1>3. after \in Settings /\ after = [settings EXCEPT !.live = after.live]
  BY <1>2 DEF Settings
<1>4. w \in Saves
  BY <1>1, <1>2, <1>3 DEF Saves
<1>5. Shape(w)
  BY <1>1, <1>3 DEF Shape
<1>6. saves' = [saves EXCEPT ![m] = w] /\ MayServe
      /\ UNCHANGED <<settings, keychain, promised, stuck, entered>>
  BY <1>1 DEF ApplicationSaveBegins
<1> QED
  BY <1>1, <1>3, <1>4, <1>5, <1>6, BeginsKeepsInv

(* What holds of the save m while it is served.                            *)
LEMMA Served ==
  ASSUME SavesInv, NEW m \in Mutation, saves[m].stage # "none"
  PROVE  /\ Saving(m) /\ ~MayServe /\ saves[m] \in Saves /\ Shape(saves[m])
         /\ ~stuck => SaveEntered(saves[m])
         /\ promised # NoPromise => SavePromised(saves[m])
<1>1. Saving(m)
  BY DEF Saving, NotSaving
<1>2. saves[m] \in Saves
  BY <1>1 DEF SavesInv, ShapeInv, AgentTypeOK, Saving
<1> QED
  BY <1>1, <1>2 DEF SavesInv, ShapeInv, EnteredInv, PromiseInv, Saving, MayServe

LEMMA KeyStored ==
  ASSUME SavesInv, NEW scope \in Scope, NEW key \in Key \cup {NoKey}, Stored(scope, key)
  PROVE  /\ keychain' \in Keys /\ keychain'[scope] = key
         /\ \A s \in Scope : s # scope => keychain'[s] = keychain[s]
BY DEF Stored, Keys, SavesInv, ShapeInv, AgentTypeOK

Same(w, v) ==
  w.before = v.before /\ w.after = v.after /\ w.key = v.key /\ w.previous = v.previous

Stages == {"change", "restore", "store", "decorate", "undo key", "undo settings"}

LEMMA Continued ==
  ASSUME SavesInv, NEW m \in Mutation, saves[m] \in Saves, NEW stage \in Stages,
         Continue(m, stage)
  PROVE  \E w \in Saves : /\ saves' = [saves EXCEPT ![m] = w] /\ w.stage = stage
                          /\ Same(w, saves[m]) /\ w.changed = saves[m].changed
<1> DEFINE w == [saves[m] EXCEPT !.stage = stage]
<1>1. saves' = [saves EXCEPT ![m] = w]
  BY DEF Continue
<1>2. /\ w \in Saves /\ w.stage = stage
      /\ Same(w, saves[m]) /\ w.changed = saves[m].changed
  BY DEF Saves, Same, Stages
<1> HIDE DEF w
<1> QED
  BY <1>1, <1>2

LEMMA KeyChangesKeeps ==
  ASSUME SavesInv, NEW m \in Mutation, KeyChanges(m)
  PROVE  SavesInv'
<1>0. PICK v : v = saves[m]
  OBVIOUS
<1>1. v.stage = "change"
  BY <1>0 DEF KeyChanges
<1>2. /\ Saving(m) /\ ~MayServe /\ v \in Saves /\ Shape(v)
      /\ ~stuck => SaveEntered(v)
      /\ promised # NoPromise => SavePromised(v)
  BY <1>0, <1>1, Served
<1>3. /\ v.after \in Settings /\ v.after.scope \in Scope /\ v.before \in Settings
      /\ v.before.scope \in Scope /\ keychain \in Keys /\ settings \in Settings
      /\ entered \subseteq Scope /\ v.previous \in Key \cup {NoKey}
  BY <1>2 DEF Saves, Settings, SavesInv, ShapeInv, AgentTypeOK
<1>4. PICK w \in Saves : /\ saves' = [saves EXCEPT ![m] = w] /\ w.stage = "store" /\ Same(w, v)
                         /\ w.changed = (DeletesKey(v) \/ v.key \in Key)
  <2> DEFINE w == [v EXCEPT !.stage = "store", !.changed = DeletesKey(v) \/ v.key \in Key]
  <2>1. saves' = [saves EXCEPT ![m] = w]
    BY <1>0 DEF KeyChanges
  <2>2. (DeletesKey(v) \/ v.key \in Key) \in BOOLEAN
    OBVIOUS
  <2> QED
    <3>1. w \in Saves /\ w.stage = "store" /\ Same(w, v)
      BY <1>2, <2>2 DEF Saves, Same
    <3>2. w.changed = (DeletesKey(v) \/ v.key \in Key)
      BY <1>2 DEF Saves
    <3> HIDE DEF w
    <3> QED
      BY <2>1, <3>1, <3>2
<1>5. NewKey(v) \in Key \cup {NoKey}
  BY <1>3 DEF NewKey, Keys
<1>6. /\ keychain' \in Keys /\ keychain'[v.after.scope] = NewKey(v)
      /\ \A s \in Scope : s # v.after.scope => keychain'[s] = keychain[s]
  BY <1>0, <1>3, <1>5, KeyStored DEF KeyChanges
<1>7. /\ UNCHANGED <<settings, promised, stuck>> /\ entered' \subseteq Scope
      /\ entered \subseteq entered' /\ (v.key \in Key => v.after.scope \in entered')
  BY <1>0, <1>3 DEF KeyChanges, KeyEntered
<1>8. Shape(w)'
  BY <1>1, <1>2, <1>4, <1>7 DEF Shape, Same
<1>9. v.key # "app" /\ settings = v.before
  BY <1>1, <1>2 DEF Shape
<1>10. \/ NewKey(v) = NoKey
       \/ v.key \in Key
       \/ NewKey(v) = keychain[v.after.scope] /\ ~DeletesKey(v)
  BY DEF NewKey
<1>11. ASSUME ~stuck
       PROVE  SaveEntered(w)'
  <2>1. SaveEntered(v)
    BY <1>2, <1>11
  <2>2. Entered(v.before)'
    BY <1>3, <1>6, <1>7, <1>10, <2>1 DEF SaveEntered, Entered
  <2>3. Entered(v.after)'
    <3>1. SUFFICES ASSUME v.after.by = "key", NewKey(v) # NoKey, v.key \notin Key
                   PROVE  v.after.scope \in entered'
      BY <1>6, <1>7 DEF Entered
    <3>2. NewKey(v) = keychain[v.after.scope] /\ ~DeletesKey(v)
      BY <1>10, <3>1
    <3>3. v.key = NoKey
      BY <1>2, <1>9, <3>1, <3>2 DEF DeletesKey, Saves
    <3>4. v.previous = keychain[v.after.scope]
      BY <1>1, <1>2, <3>1 DEF Shape
    <3>5. SameCredentialScope(v.before, v.after)
      BY <3>1, <3>2, <3>3, <3>4 DEF DeletesKey
    <3> QED
      BY <1>7, <2>1, <3>1, <3>2, <3>5 DEF SaveEntered, Entered, SameCredentialScope
  <2> QED
    BY <1>4, <1>7, <2>1, <2>2, <2>3 DEF SaveEntered, Same, Entered
<1>12. ASSUME promised # NoPromise
       PROVE  SavePromised(w)'
  <2>1. SavePromised(v)
    BY <1>2, <1>12
  <2>2. keychain[v.after.scope] = promised.keys[v.after.scope]
    BY <1>1, <2>1 DEF SavePromised
  <2>3. ~w.changed => keychain'[v.after.scope] = keychain[v.after.scope]
    BY <1>4, <1>6 DEF NewKey
  <2>4. w.changed => v.previous = keychain[v.after.scope]
    <3>1. w.changed => v.after.by # "default"
      BY <1>2, <1>4, <1>9, AgentConfigurationAssumption DEF Shape, DeletesKey
    <3> QED
      BY <1>1, <1>2, <3>1 DEF Shape
  <2> QED
    BY <1>3, <1>4, <1>6, <1>7, <2>1, <2>2, <2>3, <2>4 DEF SavePromised, AsAnswered, Same
<1> QED
  BY <1>2, <1>3, <1>4, <1>6, <1>7, <1>8, <1>11, <1>12, GoesOn
     DEF SavesInv, ShapeInv, AgentTypeOK

LEMMA KeyChangeFailsKeeps ==
  ASSUME SavesInv, NEW m \in Mutation, KeyChangeFails(m)
  PROVE  SavesInv'
<1>0. PICK v : v = saves[m]
  OBVIOUS
<1>1. v.stage = "change" /\ (DeletesKey(v) \/ v.key \in Key)
  BY <1>0 DEF KeyChangeFails
<1>2. /\ Saving(m) /\ ~MayServe /\ v \in Saves /\ Shape(v)
      /\ ~stuck => SaveEntered(v)
      /\ promised # NoPromise => SavePromised(v)
  BY <1>0, <1>1, Served
<1>3. /\ v.after \in Settings /\ v.after.scope \in Scope /\ v.before \in Settings
      /\ v.before.scope \in Scope /\ keychain \in Keys /\ settings \in Settings
      /\ entered \subseteq Scope /\ v.previous \in Key \cup {NoKey}
  BY <1>2 DEF Saves, Settings, SavesInv, ShapeInv, AgentTypeOK
<1>4. PICK w \in Saves : /\ saves' = [saves EXCEPT ![m] = w] /\ w.stage = "restore"
                         /\ Same(w, v) /\ w.changed = v.changed
  BY <1>0, <1>2, Continued DEF KeyChangeFails, Stages
<1>5. PICK key \in {keychain[v.after.scope], NewKey(v)} : Stored(v.after.scope, key)
  BY <1>0 DEF KeyChangeFails
<1>6. /\ keychain' \in Keys /\ keychain'[v.after.scope] = key
      /\ \A s \in Scope : s # v.after.scope => keychain'[s] = keychain[s]
  <2>1. key \in Key \cup {NoKey}
    BY <1>3, <1>5 DEF NewKey, Keys
  <2> QED
    BY <1>3, <1>5, <2>1, KeyStored
<1>7. /\ UNCHANGED <<settings, promised, stuck>> /\ entered' \subseteq Scope
      /\ entered \subseteq entered' /\ (v.key \in Key => v.after.scope \in entered')
  BY <1>0, <1>3 DEF KeyChangeFails, KeyEntered
<1>8. Shape(w)'
  BY <1>1, <1>2, <1>4, <1>7 DEF Shape, Same
<1>9. v.previous = keychain[v.after.scope]
  <2>1. v.after.by # "default"
    BY <1>1, <1>2, AgentConfigurationAssumption DEF Shape, DeletesKey
  <2> QED
    BY <1>1, <1>2, <2>1 DEF Shape
<1>10. key = NoKey \/ v.key \in Key \/ key = keychain[v.after.scope]
  BY <1>5 DEF NewKey
<1>11. ASSUME ~stuck
       PROVE  SaveEntered(w)'
  <2>1. SaveEntered(v)
    BY <1>2, <1>11
  <2>2. Entered(v.before)'
    BY <1>3, <1>6, <1>7, <1>10, <2>1 DEF SaveEntered, Entered
  <2> QED
    BY <1>4, <1>7, <2>1, <2>2 DEF SaveEntered, Same, Entered
<1>12. ASSUME promised # NoPromise
       PROVE  SavePromised(w)'
  <2>1. SavePromised(v)
    BY <1>2, <1>12
  <2>2. keychain[v.after.scope] = promised.keys[v.after.scope]
    BY <1>1, <2>1 DEF SavePromised
  <2> QED
    BY <1>3, <1>4, <1>6, <1>7, <1>9, <2>1, <2>2 DEF SavePromised, AsAnswered, Same
<1> QED
  BY <1>2, <1>3, <1>4, <1>6, <1>7, <1>8, <1>11, <1>12, GoesOn
     DEF SavesInv, ShapeInv, AgentTypeOK

(* The keychain as promised.                                               *)
LEMMA AsPromised ==
  ASSUME SavesInv, promised # NoPromise, NEW keys \in Keys, NEW scope \in Scope,
         \A s \in Scope : s # scope => keys[s] = promised.keys[s],
         keys[scope] = promised.keys[scope]
  PROVE  keys = promised.keys
BY DEF SavesInv, ShapeInv, AgentTypeOK, Promises, Keys

LEMMA KeyRestoredAfterFailureKeeps ==
  ASSUME SavesInv, NEW m \in Mutation, KeyRestoredAfterFailure(m)
  PROVE  SavesInv'
<1>0. PICK v : v = saves[m]
  OBVIOUS
<1>1. v.stage = "restore"
  BY <1>0 DEF KeyRestoredAfterFailure
<1>2. /\ Saving(m) /\ v \in Saves /\ Shape(v)
      /\ ~stuck => SaveEntered(v)
      /\ promised # NoPromise => SavePromised(v)
  BY <1>0, <1>1, Served
<1>3. /\ v.after.scope \in Scope /\ keychain \in Keys /\ settings \in Settings
      /\ v.previous \in Key \cup {NoKey} /\ stuck \in BOOLEAN
      /\ promised \in Promises \cup {NoPromise}
  BY <1>2 DEF Saves, Settings, SavesInv, ShapeInv, AgentTypeOK
<1>4. /\ UNCHANGED <<settings, stuck>> /\ entered' = StillEntered(entered)
      /\ settings = v.before /\ saves' = [q \in Mutation |-> NotSaving]
  BY <1>1, <1>2, NoneSaves DEF KeyRestoredAfterFailure, Shape, SavesInv
<1>5. /\ keychain' \in Keys
      /\ \A s \in Scope : s # v.after.scope => keychain'[s] = keychain[s]
      /\ \/ keychain'[v.after.scope] = v.previous /\ promised' = promised
         \/ keychain'[v.after.scope] = keychain[v.after.scope] /\ promised' = NoPromise
  <2>1. \/ Stored(v.after.scope, v.previous) /\ promised' = promised
        \/ keychain' = keychain /\ promised' = NoPromise
    BY <1>0 DEF KeyRestoredAfterFailure, KeyRestored
  <2> QED
    BY <1>3, <2>1, KeyStored
<1>6. ~stuck => (settings.by = "key" /\ keychain'[settings.scope] # NoKey
                 => settings.scope \in entered)
  BY <1>2, <1>3, <1>4, <1>5 DEF SaveEntered, Entered, Settings
<1>7. entered' \subseteq Scope
  BY <1>4 DEF StillEntered
<1>8. promised' # NoPromise => AsAnswered(settings)' /\ keychain' = promised'.keys
  <2>1. SUFFICES ASSUME promised # NoPromise, promised' = promised,
                        keychain'[v.after.scope] = v.previous
                 PROVE  AsAnswered(settings)' /\ keychain' = promised.keys
    BY <1>4, <1>5
  <2>2. SavePromised(v)
    BY <1>2, <2>1
  <2>3. PICK keys \in Keys : keys = keychain'
    BY <1>5
  <2>4. keys = promised.keys
    BY <1>1, <1>3, <1>5, <2>1, <2>2, <2>3, AsPromised DEF SavePromised
  <2> QED
    BY <1>4, <2>1, <2>2, <2>3, <2>4 DEF SavePromised, AsAnswered
<1>9. promised' \in Promises \cup {NoPromise}
  BY <1>3, <1>5
<1>10. ~stuck' => Entered(settings)'
  BY <1>3, <1>4, <1>6, StillThere
<1> QED
  BY <1>3, <1>4, <1>5, <1>7, <1>8, <1>9, <1>10, IsOver

(* A save that takes the settings a step further, or turns back.           *)
LEMMA SettingsGoOn ==
  ASSUME SavesInv, NEW m \in Mutation, saves[m].stage \in {"store", "decorate"},
         saves[m].key # "app", NEW stage \in {"decorate", "undo key"}, Continue(m, stage),
         settings' \in {settings, saves[m].after},
         stage = "decorate" => settings' = saves[m].after,
         UNCHANGED <<keychain, promised, stuck, entered>>
  PROVE  SavesInv'
<1>0. PICK v : v = saves[m]
  OBVIOUS
<1>2. /\ Saving(m) /\ v \in Saves /\ Shape(v)
      /\ ~stuck => SaveEntered(v)
      /\ promised # NoPromise => SavePromised(v)
  BY <1>0, Served
<1>3. PICK w \in Saves : /\ saves' = [saves EXCEPT ![m] = w] /\ w.stage = stage
                         /\ Same(w, v) /\ w.changed = v.changed
  <2>1. stage \in Stages /\ saves[m] \in Saves
    BY <1>0, <1>2 DEF Stages
  <2> QED
    BY <1>0, <2>1, Continued
<1>4. Shape(w)'
  BY <1>0, <1>2, <1>3 DEF Shape, Same
<1>5. ~stuck => SaveEntered(w)'
  BY <1>0, <1>2, <1>3 DEF SaveEntered, Entered, Same
<1>6. promised # NoPromise => SavePromised(w)'
  BY <1>0, <1>2, <1>3 DEF SavePromised, AsAnswered, Same
<1>7. settings' \in Settings /\ keychain' \in Keys /\ stuck' \in BOOLEAN /\ entered' \subseteq Scope
  BY <1>0, <1>2 DEF Saves, SavesInv, ShapeInv, AgentTypeOK
<1> QED
  BY <1>2, <1>3, <1>4, <1>5, <1>6, <1>7, GoesOn

LEMMA SettingsStepsKeep ==
  ASSUME SavesInv, NEW m \in Mutation,
         SettingsStored(m) \/ SettingsNotStored(m) \/ DecorateFails(m)
  PROVE  SavesInv'
<1>1. saves[m].stage \in {"store", "decorate"} /\ saves[m].key # "app"
  <2>1. saves[m].stage = "decorate" => Shape(saves[m])
    BY Served
  <2> QED
    BY <2>1 DEF SettingsStored, SettingsNotStored, DecorateFails, Shape
<1>2. UNCHANGED <<keychain, promised, stuck, entered>>
  BY DEF SettingsStored, SettingsNotStored, DecorateFails
<1>3. CASE SettingsStored(m)
  BY <1>1, <1>2, <1>3, SettingsGoOn DEF SettingsStored
<1>4. CASE SettingsNotStored(m) \/ DecorateFails(m)
  <2>1. Continue(m, "undo key") /\ settings' \in {settings, saves[m].after}
    BY <1>4 DEF SettingsNotStored, DecorateFails
  <2> QED
    BY <1>1, <1>2, <2>1, SettingsGoOn
<1> QED
  BY <1>3, <1>4

LEMMA AgentSaveAnsweredKeeps ==
  ASSUME SavesInv, NEW m \in Mutation, AgentSaveAnswered(m)
  PROVE  SavesInv'
<1>0. PICK v : v = saves[m]
  OBVIOUS
<1>1. v.stage = "decorate"
  BY <1>0 DEF AgentSaveAnswered
<1>2. /\ Saving(m) /\ v \in Saves /\ Shape(v)
      /\ ~stuck => SaveEntered(v)
      /\ promised # NoPromise => SavePromised(v)
  BY <1>0, <1>1, Served
<1>3. /\ v.after \in Settings /\ v.after.scope \in Scope /\ keychain \in Keys
      /\ settings \in Settings /\ stuck \in BOOLEAN
      /\ promised \in Promises \cup {NoPromise}
  BY <1>2 DEF Saves, Settings, SavesInv, ShapeInv, AgentTypeOK
<1>4. /\ UNCHANGED <<settings, keychain, stuck>> /\ entered' = StillEntered(entered)
      /\ settings = v.after /\ v.after = WithAgent(v.before, v.after.on, v.after.by, v.after.scope)
      /\ saves' = [q \in Mutation |-> NotSaving]
  BY <1>1, <1>2, NoneSaves DEF AgentSaveAnswered, Shape, SavesInv
<1>5. promised' \in Promises /\ AsAnswered(settings)' /\ keychain' = promised'.keys
  <2>1. CASE promised = NoPromise
    <3>1. promised' = Promise
      BY <1>0, <2>1 DEF AgentSaveAnswered
    <3> QED
      BY <1>3, <1>4, <3>1 DEF AsAnswered, AgentPart, Promise, Promises, Settings
  <2>2. CASE promised # NoPromise
    <3>1. promised' = [promised EXCEPT
                         !.agent = AgentPart(v.after),
                         !.keys = [@ EXCEPT ![v.after.scope] = keychain[v.after.scope]]]
      BY <1>0, <2>2 DEF AgentSaveAnswered
    <3>2. SavePromised(v) /\ promised \in Promises
      BY <1>2, <1>3, <2>2
    <3>3. /\ promised'.agent = AgentPart(v.after) /\ promised'.live = promised.live
          /\ promised'.keys = [promised.keys EXCEPT ![v.after.scope] = keychain[v.after.scope]]
          /\ promised' \in Promises
      BY <1>3, <3>1, <3>2 DEF Promises, AgentPart, Settings, Keys
    <3>4. AsAnswered(settings)'
      <4>1. v.before.live \in promised.live /\ settings.live = v.before.live
        BY <1>2, <1>4, <3>2 DEF SavePromised, AsAnswered, WithAgent, Saves, Settings
      <4> QED
        BY <1>4, <3>3, <4>1 DEF AsAnswered, AgentPart
    <3>5. promised'.keys = keychain
      <4>1. promised.keys \in Keys
        BY <3>2 DEF Promises
      <4>2. \A s \in Scope : s # v.after.scope => keychain[s] = promised.keys[s]
        BY <3>2 DEF SavePromised
      <4> QED
        BY <1>3, <3>3, <4>1, <4>2 DEF Keys
    <3> QED
      BY <1>4, <3>3, <3>4, <3>5
  <2> QED
    BY <2>1, <2>2
<1>6. ~stuck => Entered(settings)
  BY <1>1, <1>2, <1>4 DEF SaveEntered
<1>7. entered' \subseteq Scope /\ (~stuck' => Entered(settings)')
  <2>1. entered' \subseteq Scope
    BY <1>4 DEF StillEntered
  <2> QED
    BY <1>3, <1>4, <1>6, <2>1, StillThere DEF Entered
<1> QED
  BY <1>3, <1>4, <1>5, <1>7, IsOver

LEMMA UndoKeyKeeps ==
  ASSUME SavesInv, NEW m \in Mutation, UndoKey(m)
  PROVE  SavesInv'
<1>0. PICK v : v = saves[m]
  OBVIOUS
<1>1. v.stage = "undo key"
  BY <1>0 DEF UndoKey
<1>2. /\ Saving(m) /\ v \in Saves /\ Shape(v)
      /\ ~stuck => SaveEntered(v)
      /\ promised # NoPromise => SavePromised(v)
  BY <1>0, <1>1, Served
<1>3. /\ v.after.scope \in Scope /\ v.before \in Settings /\ v.before.scope \in Scope
      /\ keychain \in Keys /\ v.previous \in Key \cup {NoKey}
      /\ settings \in Settings /\ stuck \in BOOLEAN /\ entered \subseteq Scope
  BY <1>2 DEF Saves, Settings, SavesInv, ShapeInv, AgentTypeOK
<1>4. PICK w \in Saves : /\ saves' = [saves EXCEPT ![m] = w] /\ w.stage = "undo settings"
                         /\ Same(w, v) /\ w.changed = v.changed
  BY <1>0, <1>2, Continued DEF UndoKey, Stages
<1>5. UNCHANGED <<settings, stuck, entered>>
  BY DEF UndoKey
<1>6. /\ keychain' \in Keys /\ promised' \in {promised, NoPromise}
      /\ \A s \in Scope : s # v.after.scope => keychain'[s] = keychain[s]
      /\ keychain'[v.after.scope] \in {v.previous, keychain[v.after.scope]}
      /\ promised' = promised =>
           \/ v.changed /\ keychain'[v.after.scope] = v.previous
           \/ ~v.changed /\ keychain'[v.after.scope] = keychain[v.after.scope]
           \/ promised = NoPromise
  <2>1. \/ v.changed /\ Stored(v.after.scope, v.previous) /\ promised' = promised
        \/ keychain' = keychain /\ promised' = NoPromise
        \/ ~v.changed /\ keychain' = keychain /\ promised' = promised
    BY <1>0 DEF UndoKey, KeyUndone, KeyRestored
  <2> QED
    BY <1>3, <2>1, KeyStored
<1>7. Shape(w)'
  BY <1>1, <1>2, <1>4, <1>5 DEF Shape, Same
<1>8. ~stuck => SaveEntered(w)'
  BY <1>2, <1>3, <1>4, <1>5, <1>6 DEF SaveEntered, Entered, Same
<1>9. promised # NoPromise /\ promised' = promised => SavePromised(w)'
  BY <1>1, <1>2, <1>3, <1>4, <1>6 DEF SavePromised, AsAnswered, Same
<1> QED
  BY <1>2, <1>3, <1>4, <1>5, <1>6, <1>7, <1>8, <1>9, GoesOn

LEMMA UndoSettingsKeeps ==
  ASSUME SavesInv, NEW m \in Mutation, UndoSettings(m)
  PROVE  SavesInv'
<1>0. PICK v : v = saves[m]
  OBVIOUS
<1>1. v.stage = "undo settings"
  BY <1>0 DEF UndoSettings
<1>2. /\ Saving(m) /\ v \in Saves /\ Shape(v)
      /\ ~stuck => SaveEntered(v)
      /\ promised # NoPromise => SavePromised(v)
  BY <1>0, <1>1, Served
<1>3. /\ v.before \in Settings /\ v.after.scope \in Scope /\ keychain \in Keys
      /\ settings \in Settings /\ stuck \in BOOLEAN
      /\ promised \in Promises \cup {NoPromise}
  BY <1>2 DEF Saves, Settings, SavesInv, ShapeInv, AgentTypeOK
<1>4. /\ keychain' = keychain /\ entered' = StillEntered(entered)
      /\ saves' = [q \in Mutation |-> NotSaving]
  BY <1>2, NoneSaves DEF UndoSettings, SavesInv
<1>5. \/ settings' = v.before /\ promised' = promised /\ stuck' = stuck
      \/ settings' = settings /\ promised' = NoPromise /\ stuck' = TRUE
  BY <1>0, <1>3 DEF UndoSettings
<1>6. settings' \in Settings /\ stuck' \in BOOLEAN
      /\ promised' \in Promises \cup {NoPromise}
  BY <1>3, <1>5
<1>7. entered' \subseteq Scope /\ (~stuck' => Entered(settings)')
  <2>1. entered' \subseteq Scope
    BY <1>4 DEF StillEntered
  <2>2. ~stuck' => settings' = v.before /\ Entered(v.before)
    BY <1>2, <1>5 DEF SaveEntered
  <2> QED
    BY <1>4, <1>6, <2>1, <2>2, StillThere DEF Entered
<1>8. promised' # NoPromise => AsAnswered(settings)' /\ keychain' = promised'.keys
  <2>1. SUFFICES ASSUME promised # NoPromise, promised' = promised, settings' = v.before
                 PROVE  AsAnswered(settings)' /\ keychain = promised.keys
    BY <1>4, <1>5
  <2>2. SavePromised(v)
    BY <1>2, <2>1
  <2> QED
    BY <1>1, <1>3, <2>1, <2>2, AsPromised DEF SavePromised, AsAnswered
<1> QED
  BY <1>3, <1>4, <1>6, <1>7, <1>8, IsOver

LEMMA ApplicationSavedKeeps ==
  ASSUME SavesInv, NEW m \in Mutation, ApplicationSaveAnswered(m) \/ ApplicationSaveFails(m)
  PROVE  SavesInv'
<1>0. PICK v : v = saves[m]
  OBVIOUS
<1>1. v.stage = "store" /\ v.key = "app"
  BY <1>0 DEF ApplicationSaveAnswered, ApplicationSaveFails
<1>2. /\ Saving(m) /\ v \in Saves /\ Shape(v)
      /\ ~stuck => SaveEntered(v)
      /\ promised # NoPromise => SavePromised(v)
  BY <1>0, <1>1, Served
<1>3. /\ v.after \in Settings /\ v.after.scope \in Scope /\ v.after.live \in BOOLEAN
      /\ keychain \in Keys /\ settings \in Settings /\ stuck \in BOOLEAN
      /\ promised \in Promises \cup {NoPromise}
  BY <1>2 DEF Saves, Settings, SavesInv, ShapeInv, AgentTypeOK
<1>4. /\ UNCHANGED <<keychain, stuck>> /\ entered' = StillEntered(entered)
      /\ settings = v.before /\ ~v.changed /\ v.after = [v.before EXCEPT !.live = v.after.live]
      /\ saves' = [q \in Mutation |-> NotSaving] /\ settings' \in {settings, v.after}
  BY <1>0, <1>1, <1>2, NoneSaves
     DEF ApplicationSaveAnswered, ApplicationSaveFails, Shape, SavesInv
<1>5. promised = NoPromise => promised' = NoPromise
  BY DEF ApplicationSaveAnswered, ApplicationSaveFails
<1>6. ASSUME promised # NoPromise
      PROVE  promised' \in Promises /\ AsAnswered(settings)' /\ keychain' = promised'.keys
  <2>1. SavePromised(v) /\ promised \in Promises
    BY <1>2, <1>3, <1>6
  <2>2. AsAnswered(settings) /\ keychain = promised.keys
    BY <1>1, <1>3, <1>4, <1>6, <2>1, AsPromised DEF SavePromised
  <2>5. AgentPart(v.after) = promised.agent
    BY <1>2, <1>4, <2>2 DEF AsAnswered, AgentPart, Saves, Settings
  <2>3. CASE ApplicationSaveAnswered(m)
    <3>1. /\ settings' = v.after
          /\ promised' = [promised EXCEPT !.live = {v.after.live}]
      BY <1>0, <1>6, <2>3 DEF ApplicationSaveAnswered
    <3>2. /\ promised' \in Promises /\ promised'.keys = promised.keys
          /\ promised'.agent = promised.agent /\ promised'.live = {v.after.live}
      BY <1>3, <2>1, <3>1 DEF Promises
    <3> QED
      BY <1>4, <2>2, <2>5, <3>1, <3>2 DEF AsAnswered
  <2>4. CASE ApplicationSaveFails(m)
    <3>1. promised' = [promised EXCEPT !.live = @ \cup {v.after.live}]
      BY <1>0, <1>6, <2>4 DEF ApplicationSaveFails
    <3>2. /\ promised' \in Promises /\ promised'.keys = promised.keys
          /\ promised'.agent = promised.agent
          /\ promised'.live = promised.live \cup {v.after.live}
      BY <1>3, <2>1, <3>1 DEF Promises
    <3> QED
      BY <1>4, <2>2, <2>5, <3>2 DEF AsAnswered
  <2> QED
    BY <2>3, <2>4
<1>8. /\ settings' \in Settings
      /\ promised' \in Promises \cup {NoPromise}
      /\ promised' # NoPromise => AsAnswered(settings)' /\ keychain' = promised'.keys
  BY <1>3, <1>4, <1>5, <1>6
<1>9. entered' \subseteq Scope /\ (~stuck' => Entered(settings)')
  <2>1. entered' \subseteq Scope
    BY <1>4 DEF StillEntered
  <2>2. ~stuck => Entered(v.before) /\ Entered(v.after)
    BY <1>1, <1>2 DEF SaveEntered
  <2>3. settings' \in {v.before, v.after}
    BY <1>4
  <2> QED
    BY <1>4, <1>8, <2>1, <2>2, <2>3, StillThere DEF Entered
<1> QED
  BY <1>3, <1>4, <1>8, <1>9, IsOver

LEMMA SavesLostKeeps == ASSUME SavesInv, SavesLost PROVE SavesInv'
<1>1. PICK m \in Mutation : saves[m] # NotSaving
  BY DEF SavesLost, MayServe
<1>0. PICK v : v = saves[m]
  OBVIOUS
<1>2. v \in Saves /\ v.stage # "none"
  BY <1>0, <1>1 DEF SavesInv, ShapeInv, AgentTypeOK, Saves
<1>3. Shape(v) /\ (~stuck => SaveEntered(v))
  BY <1>0, <1>2, Served
<1>4. /\ UNCHANGED <<settings, keychain>> /\ promised' = NoPromise
      /\ entered' = StillEntered(entered) /\ saves' = [q \in Mutation |-> NotSaving]
  BY DEF SavesLost
<1>5. /\ stuck' \in BOOLEAN /\ (~stuck' => ~stuck)
      /\ ~stuck' => (v.stage = "undo settings" => v.before = settings)
  BY <1>0 DEF SavesLost
<1>6. settings \in Settings /\ keychain \in Keys /\ entered' \subseteq Scope
  BY <1>4 DEF SavesInv, ShapeInv, AgentTypeOK, StillEntered
<1>7. ~stuck' => Entered(settings)
  BY <1>2, <1>3, <1>5 DEF Shape, SaveEntered, Saves
<1>8. ~stuck' => Entered(settings)'
  BY <1>4, <1>6, <1>7, StillThere DEF Entered
<1> QED
  BY <1>4, <1>5, <1>6, <1>8, IsOver

LEMMA SavesStep == SavesInv /\ [AgentNext]_agentVars => SavesInv'
<1> SUFFICES ASSUME SavesInv, [AgentNext]_agentVars PROVE SavesInv'
  OBVIOUS
<1>1. CASE UNCHANGED agentVars
  <2>1. UNCHANGED <<settings, keychain, saves, promised, stuck, entered>>
    BY <1>1 DEF agentVars
  <2>2. ShapeInv'
    BY <2>1 DEF SavesInv, ShapeInv, AgentTypeOK, OneSave, Saving, Shape
  <2>3. EnteredInv'
    BY <2>1 DEF SavesInv, EnteredInv, Saving, SaveEntered, Entered, MayServe
  <2>4. PromiseInv'
    BY <2>1 DEF SavesInv, PromiseInv, Saving, SavePromised, AsAnswered, MayServe
  <2> QED
    BY <2>2, <2>3, <2>4 DEF SavesInv
<1> QED
  BY <1>1, AgentSaveBeginsKeeps, KeyChangesKeeps, KeyChangeFailsKeeps,
     KeyRestoredAfterFailureKeeps, SettingsStepsKeep, AgentSaveAnsweredKeeps, UndoKeyKeeps,
     UndoSettingsKeeps, ApplicationSaveBeginsKeeps, ApplicationSavedKeeps, SavesLostKeeps
     DEF AgentNext

(***************************************************************************)
(* Between saves the agent's configuration and the keys are as the saves   *)
(* answered as done left them, and the permission to send is as it was     *)
(* last answered or as a save of the application's settings that failed    *)
(* since wanted it; for any number of saves, scopes and keys.  A save that *)
(* is cut short, or whose key or settings cannot be put back, ends this    *)
(* until the next agent save is answered as done (promised = NoPromise).   *)
(***************************************************************************)
THEOREM AnswersStand == AgentSpec => []AnsweredSavesStand
<1>1. SavesInv => AnsweredSavesStand
  BY DEF SavesInv, PromiseInv, AnsweredSavesStand, MayServe
<1> QED
  BY <1>1, SavesInitial, SavesStep, PTL DEF AgentSpec

(***************************************************************************)
(* A key in use was entered since the configuration with its scope was     *)
(* chosen, unless the daemon stopped between undoing the key of a save and *)
(* undoing its settings, or the latter failed.                             *)
(***************************************************************************)
THEOREM NoStaleKey == AgentSpec => []StaleKeyNeverUsed
<1>1. SavesInv => StaleKeyNeverUsed
  BY DEF SavesInv, EnteredInv, Entered, StaleKeyNeverUsed
<1> QED
  BY <1>1, SavesInitial, SavesStep, PTL DEF AgentSpec
-----------------------------------------------------------------------------
(* The parts together.                                                     *)

(***************************************************************************)
(* The specification that runs the parts side by side is one of every part:*)
(* what is proved of a part holds there too.                               *)
(***************************************************************************)
THEOREM PartsAsSpecified ==
  ServicesSpec => /\ FairSpec /\ DeskSpec /\ StreamSpec /\ AgentSpec
                  /\ RunnerSpec /\ IdentitySpec /\ DraftsSpec
<1>1. ServicesInit => /\ Init /\ DeskInit /\ StreamInit /\ AgentInit
                      /\ RunnerInit /\ IdentityInit /\ DraftsInit
  BY DEF ServicesInit
<1>2. [ServicesNext]_allVars =>
        /\ [Next]_vars /\ [DeskNext]_deskVars /\ [StreamNext]_streamVars
        /\ [AgentNext]_agentVars /\ [RunnerNext]_runnerVars
        /\ [IdentityNext]_identityVars /\ [DraftsNext]_draftVars
  BY DEF ServicesNext, allVars
<1> QED
  BY <1>1, <1>2, PTL DEF ServicesSpec, FairSpec, Spec, DeskSpec, StreamSpec, AgentSpec,
     RunnerSpec, IdentitySpec, DraftsSpec

(***************************************************************************)
(* Every part keeps the types of its variables, whatever the others do.    *)
(***************************************************************************)
THEOREM TypesAreKept == ServicesSpec => []ServicesTypeOK
<1>1. FairSpec => []TypeOK
  BY TypeInit, TypeStep, PTL DEF FairSpec, Spec
<1>2. DeskSpec => []DeskTypeOK
  BY DeskTypesInitial, DeskTypesStep, PTL DEF DeskSpec
<1>3. StreamSpec => []ViewInv
  BY StreamInitial, StreamStep, ViewInitial, ViewStep, PTL DEF StreamSpec
<1>4. AgentSpec => []SavesInv
  BY SavesInitial, SavesStep, PTL DEF AgentSpec
<1>5. RunnerSpec => []RunnerInv
  BY RunnerInitial, RunnerStep, PTL DEF RunnerSpec
<1>6. IdentitySpec => []SessionInv
  BY SessionInit, SessionStep, PTL DEF IdentitySpec
<1>7. DraftsSpec => []DraftsInv
  BY DraftsInitial, DraftsStep, PTL DEF DraftsSpec
<1>8. /\ TypeOK /\ DeskTypeOK /\ ViewInv /\ SavesInv /\ RunnerInv /\ SessionInv /\ DraftsInv
      => ServicesTypeOK
  BY DEF ViewInv, SavesInv, ShapeInv, RunnerInv, SessionInv, DraftsInv, ServicesTypeOK
<1> QED
  BY <1>1, <1>2, <1>3, <1>4, <1>5, <1>6, <1>7, <1>8, PartsAsSpecified, PTL
=============================================================================
