---------------------------- MODULE SignInProofs ----------------------------
(***************************************************************************)
(* Proofs about sign-in, for any number of requests at a time, passwords,  *)
(* recovery codes and thresholds.                                          *)
(***************************************************************************)
EXTENDS SignIn, FiniteSetTheorems, TLAPS

ThrottleRow == [count : Nat, old : BOOLEAN, lock : {"none", "on", "over"}]

Account == [exists : BOOLEAN, active : BOOLEAN, password : Password, weak : BOOLEAN,
            temporary : BOOLEAN, mfa : BOOLEAN, pending : BOOLEAN, last : Nat]

Handled == [at : Step, password : Password, code : Code, mfa : BOOLEAN, weak : BOOLEAN,
            token : Nat, last : Nat, crossed : SUBSET Subject]

\* Types, without the bounds on how much happens.
Shape ==
    /\ throttle \in [Subject -> ThrottleRow]
    /\ user \in Account
    /\ codes \subseteq issued /\ issued \subseteq Recovery
    /\ challenge \in [id : Nat, attempts : Nat]
    /\ invite \in {"none", "open", "used"}
    /\ request \in [Request -> Handled]
    /\ challenges \in Nat
    /\ failed \in [Subject -> Nat] /\ owed \in [Subject -> Int]
    /\ tried \in Nat
    /\ uses \in [Recovery \cup {"invite"} -> Nat]
    /\ \A r \in Request : request[r].at \in {"activate", "enable"} => request[r].code \in Counter

-----------------------------------------------------------------------------
(***************************************************************************)
(* Types.                                                                  *)
(***************************************************************************)

\* A time step is a number.
LEMMA CounterType == Counter \subseteq Nat
BY SignInAssumption DEF Counter

\* A request that has read nothing yet.
LEMMA IdleType == Idle \in Handled /\ Idle.at = "idle" /\ Idle.token = 0 /\ Idle.crossed = {}
<1>1. (CHOOSE p \in Password : TRUE) \in Password
  BY SignInAssumption
<1> QED
  BY <1>1 DEF Idle, Handled, Step, Code, NoCounter

\* An account that does not exist yet.
LEMMA NoUserType == NoUser \in Account /\ NoUser.exists = FALSE
<1>1. (CHOOSE p \in Password : TRUE) \in Password
  BY SignInAssumption
<1> QED
  BY <1>1 DEF NoUser, Account, NoCounter

\* register_failure and clear_attempts leave well-typed rows.
LEMMA ThrottleType ==
    ASSUME Shape, NEW s \in Subject, RegisterFailure(s) \/ ClearAttempts(s)
    PROVE  /\ throttle' \in [Subject -> ThrottleRow]
           /\ failed' \in [Subject -> Nat] /\ owed' \in [Subject -> Int]
<1>1. Clean \in ThrottleRow
  BY DEF Clean, ThrottleRow
<1>2. throttle[s] \in ThrottleRow /\ failed[s] \in Nat /\ owed[s] \in Int
  BY DEF Shape
<1>3. WindowReset(throttle[s]) \in ThrottleRow
  BY <1>1, <1>2 DEF WindowReset
<1>4. ASSUME NEW row \in ThrottleRow
      PROVE  Counted(row, s) \in ThrottleRow
  <2>1. row.count + 1 \in Nat
    BY DEF ThrottleRow
  <2>2. (IF row.count + 1 >= Threshold[s] THEN "on" ELSE row.lock) \in {"none", "on", "over"}
    BY DEF ThrottleRow
  <2> QED
    BY <2>1, <2>2 DEF Counted, ThrottleRow
<1>5. CASE ClearAttempts(s)
  BY <1>1, <1>5 DEF ClearAttempts, Shape
<1>6. CASE RegisterFailure(s)
  BY <1>2, <1>3, <1>4, <1>6 DEF RegisterFailure, Shape
<1> QED
  BY <1>5, <1>6

\* A step of one request leaves the others alone.
LEMMA RequestType ==
    ASSUME Shape, NEW r \in Request, NEW q \in Handled,
           q.at \in {"activate", "enable"} => q.code \in Counter,
           request' = [request EXCEPT ![r] = q]
    PROVE  /\ request' \in [Request -> Handled]
           /\ \A v \in Request : request'[v].at \in {"activate", "enable"} => request'[v].code \in Counter
BY DEF Shape

(***************************************************************************)
(* What a request does next, and what its step does to the throttle and to *)
(* the challenge.                                                          *)
(***************************************************************************)
Kept == UNCHANGED <<throttle, failed, owed>>

Held == UNCHANGED <<challenge, challenges, tried>>

Dropped == challenge' = NoChallenge /\ UNCHANGED <<challenges, tried>>

Reports(r) ==
    /\ owed' = [s \in Subject |-> IF s \in request[r].crossed THEN owed[s] - 1 ELSE owed[s]]
    /\ UNCHANGED <<throttle, failed>>

Handles(r, q) ==
    LET from == request[r].at
        to == q.at
    IN  /\ request' = [request EXCEPT ![r] = q]
        /\ q.crossed \in {{}, request[r].crossed} \/ from \in {"fail", "failSource"}
        /\ \/ from = "idle" /\ to = "load" /\ Kept /\ Held
                /\ ~IsLocked("account") /\ ~IsLocked("source")
           \/ from = "idle" /\ to = "verify" /\ Kept /\ Held
                /\ q.token = challenge.id /\ challenge.id # 0
           \/ from = "idle" /\ to = "activate" /\ q.code \in Counter /\ Kept /\ Held
           \/ from = "activate" /\ to = "enable" /\ q.code \in Counter /\ Kept /\ Held
           \/ from = "idle" /\ to = "proving" /\ ~IsLocked("mfa-disable") /\ Kept /\ Held
           \/ from = "proving" /\ to \in {"prove", "refused"} /\ Kept /\ Held
           \/ from = "prove" /\ to \in {"disable", "refused"} /\ Kept /\ Held
           \/ from = "idle" /\ to \in {"invite", "setPassword"} /\ Kept /\ Held
           \/ from = "load" /\ to \in {"clear", "fail"} /\ Kept /\ Held
           \/ from = "fail" /\ to = "failSource" /\ RegisterFailure("account") /\ Held
                /\ q.crossed = NewlyLocked("account")
           \/ from = "failSource" /\ to \in {"idle", "report"} /\ RegisterFailure("source") /\ Held
                /\ q.crossed = request[r].crossed \cup NewlyLocked("source")
                /\ (to = "idle" => q.crossed = {})
           \/ from = "report" /\ to = "idle" /\ Reports(r) /\ Held /\ q.crossed = {}
           \/ from = "refused" /\ to = "idle" /\ RegisterFailure("mfa-disable") /\ Held
           \/ from = "clear" /\ to \in {"rehash", "finish"} /\ ClearAttempts("account") /\ Held
           \/ from = "disable" /\ to = "mfaCleared" /\ ClearAttempts("mfa-disable") /\ Held
           \/ from = "rehash" /\ to = "finish" /\ Kept /\ Held
           \/ from = "finish" /\ to = "idle" /\ Kept /\ (Held \/ CreateChallenge)
           \/ from = "verify" /\ to = "code" /\ q.token = request[r].token /\ Kept /\ Held
           \/ from = "code" /\ to \in {"burn", "redeemed"} /\ q.token = request[r].token
                /\ Kept /\ Held
           \/ from \in {"verify", "redeemed"} /\ to = "idle" /\ ConsumeChallenge(request[r].token)
                /\ Kept /\ UNCHANGED <<challenges, tried>>
           \/ from = "burn" /\ to = "idle" /\ RegisterChallengeAttempt(request[r].token)
                /\ tried' = (IF request[r].token = challenges THEN tried + 1 ELSE tried)
                /\ Kept /\ UNCHANGED challenges
           \/ from = "mfaCleared" /\ to = "idle" /\ Kept /\ Dropped
           \/ from \in {"enable", "counted", "invite", "setPassword", "endSessions"}
                /\ to \in {"counted", "idle", "setPassword", "endSessions"} /\ Kept /\ Held

\* The steps no request makes: time passes, an administrator acts, a stale challenge goes.
Aside ==
    /\ UNCHANGED request
    /\ \/ Kept /\ (Held \/ Dropped)
       \/ Held /\ \E s \in Subject : WindowPasses(s) \/ LockPasses(s)

\* Every step is one of a request or an aside.
LEMMA StepIsHandled ==
    ASSUME Shape, [Next]_vars
    PROVE  Aside \/ \E r \in Request, q \in Handled : Handles(r, q)
<1> USE DEF Kept, Held, Dropped
<1> DEFINE P == \E r \in Request, q \in Handled : Handles(r, q)
<1>0. /\ request \in [Request -> Handled] /\ user \in Account /\ Idle \in Handled
      /\ Idle.at = "idle" /\ Idle.token = 0 /\ Idle.crossed = {} /\ challenge \in [id : Nat, attempts : Nat]
      /\ challenge.id \in Nat /\ Counter \subseteq Code
  BY IdleType DEF Shape, Code
<1>1. ASSUME NEW r \in Request, NEW p \in Password, Login(r, p)
      PROVE  P
  <2> DEFINE q == [Idle EXCEPT !.at = "load", !.password = p]
  <2>1. q \in Handled /\ q.at = "load" /\ q.crossed = {}
    BY <1>0 DEF Handled, Step
  <2>2. Handles(r, q)
    BY <1>1, <2>1 DEF Login, Starts, At, Handles
  <2> QED
    BY <2>1, <2>2
<1>2. ASSUME NEW r \in Request, LoginLoad(r)
      PROVE  P
  <2>1. CASE request' = [request EXCEPT ![r].at = "clear", ![r].mfa = user.mfa,
                                        ![r].weak = NeedsRehash]
    <3> DEFINE q == [request[r] EXCEPT !.at = "clear", !.mfa = user.mfa, !.weak = user.weak]
    <3>1. q \in Handled /\ q.at = "clear" /\ q.crossed = request[r].crossed
      BY <1>0 DEF Handled, Account, Step
    <3>2. request' = [request EXCEPT ![r] = q]
      BY <1>0, <2>1 DEF NeedsRehash, Handled
    <3>3. Handles(r, q)
      BY <1>2, <3>1, <3>2 DEF LoginLoad, At, Handles
    <3> QED
      BY <3>1, <3>3
  <2>2. CASE Only(r, "fail")
    <3> DEFINE q == [Idle EXCEPT !.at = "fail"]
    <3>1. q \in Handled /\ q.at = "fail" /\ q.crossed = {}
      BY <1>0 DEF Handled, Step
    <3>2. Handles(r, q)
      BY <1>2, <2>2, <3>1 DEF LoginLoad, Only, At, Handles
    <3> QED
      BY <3>1, <3>2
  <2> QED
    BY <1>2, <2>1, <2>2 DEF LoginLoad
<1>3. ASSUME NEW r \in Request, LoginFails(r)
      PROVE  P
  <2>0. NewlyLocked("account") \in SUBSET Subject /\ NewlyLocked("source") \in SUBSET Subject
    BY DEF NewlyLocked, Subject
  <2>1. CASE /\ At(r, "fail") /\ RegisterFailure("account")
             /\ request' = [request EXCEPT ![r].at = "failSource",
                                           ![r].crossed = NewlyLocked("account")]
    <3> DEFINE q == [request[r] EXCEPT !.at = "failSource", !.crossed = NewlyLocked("account")]
    <3>1. q \in Handled /\ q.at = "failSource" /\ q.crossed = NewlyLocked("account")
      BY <1>0, <2>0 DEF Handled, Step
    <3>2. request' = [request EXCEPT ![r] = q]
      BY <1>0, <2>1 DEF Handled
    <3>3. Handles(r, q)
      BY <1>3, <2>1, <3>1, <3>2 DEF LoginFails, At, Handles
    <3> QED
      BY <3>1, <3>3
  <2>2. CASE At(r, "failSource") /\ RegisterFailure("source")
    <3> DEFINE locked == request[r].crossed \cup NewlyLocked("source")
    <3>1. locked \in SUBSET Subject
      BY <1>0, <2>0 DEF Handled
    <3>2. CASE locked = {} /\ request' = [request EXCEPT ![r] = Idle]
      BY <1>0, <1>3, <2>2, <3>2 DEF LoginFails, At, Handles
    <3>3. CASE request' = [request EXCEPT ![r] = [Idle EXCEPT !.at = "report", !.crossed = locked]]
      <4> DEFINE q == [Idle EXCEPT !.at = "report", !.crossed = locked]
      <4>1. q \in Handled /\ q.at = "report" /\ q.crossed = locked
        BY <1>0, <3>1 DEF Handled, Step
      <4>2. Handles(r, q)
        BY <1>3, <2>2, <3>3, <4>1 DEF LoginFails, At, Handles
      <4> QED
        BY <4>1, <4>2
    <3> QED
      BY <1>3, <2>2, <3>2, <3>3 DEF LoginFails, At
  <2> QED
    BY <1>3, <2>1, <2>2 DEF LoginFails
<1>22. ASSUME NEW r \in Request, LoginReports(r)
       PROVE  P
  BY <1>0, <1>22 DEF LoginReports, Ends, At, Handles, Reports
<1>4. ASSUME NEW r \in Request, LoginClears(r)
      PROVE  P
  <2> DEFINE q == IF request[r].weak THEN [request[r] EXCEPT !.at = "rehash"]
                  ELSE [Idle EXCEPT !.at = "finish", !.mfa = request[r].mfa]
  <2>1. q \in Handled /\ q.at \in {"rehash", "finish"} /\ q.crossed \in {{}, request[r].crossed}
    BY <1>0 DEF Handled, Step
  <2>2. Handles(r, q)
    BY <1>4, <2>1 DEF LoginClears, At, Handles
  <2> QED
    BY <2>1, <2>2
<1>5. ASSUME NEW r \in Request, LoginRehashes(r)
      PROVE  P
  <2> DEFINE q == [Idle EXCEPT !.at = "finish", !.mfa = request[r].mfa]
  <2>1. q \in Handled /\ q.at = "finish" /\ q.crossed = {}
    BY <1>0 DEF Handled, Step
  <2>2. Handles(r, q)
    BY <1>5, <2>1 DEF LoginRehashes, At, Handles
  <2> QED
    BY <2>1, <2>2
<1>6. ASSUME NEW r \in Request, LoginFinishes(r)
      PROVE  P
  BY <1>0, <1>6 DEF LoginFinishes, Ends, At, Handles
<1>7. ASSUME NEW r \in Request, NEW c \in Code, VerifyLoad(r, c)
      PROVE  P
  <2> DEFINE q == [Idle EXCEPT !.at = "verify", !.code = c, !.token = challenge.id]
  <2>1. q \in Handled /\ q.at = "verify" /\ q.token = challenge.id /\ q.crossed = {}
    BY <1>0 DEF Handled, Step
  <2>2. Handles(r, q)
    BY <1>7, <2>1 DEF VerifyLoad, Starts, At, Handles
  <2> QED
    BY <2>1, <2>2
<1>23. ASSUME NEW r \in Request, VerifyUser(r)
       PROVE  P
  <2>1. CASE ConsumeChallenge(request[r].token) /\ Ends(r)
    BY <1>0, <1>23, <2>1 DEF VerifyUser, Ends, At, Handles
  <2>2. CASE /\ request' = [request EXCEPT ![r].at = "code", ![r].mfa = user.mfa, ![r].last = user.last]
             /\ UNCHANGED challenge
    <3> DEFINE q == [request[r] EXCEPT !.at = "code", !.mfa = user.mfa, !.last = user.last]
    <3>1. q \in Handled /\ q.at = "code" /\ q.token = request[r].token
          /\ q.crossed = request[r].crossed
      BY <1>0 DEF Handled, Account, Step
    <3>2. request' = [request EXCEPT ![r] = q]
      BY <1>0, <2>2 DEF Handled
    <3>3. Handles(r, q)
      BY <1>23, <2>2, <3>1, <3>2 DEF VerifyUser, At, Handles
    <3> QED
      BY <3>1, <3>3
  <2> QED
    BY <1>23, <2>1, <2>2 DEF VerifyUser
<1>8. ASSUME NEW r \in Request, VerifyAccepts(r)
      PROVE  P
  <2> DEFINE q == [Idle EXCEPT !.at = "redeemed", !.token = request[r].token]
  <2>1. q \in Handled /\ q.at = "redeemed" /\ q.token = request[r].token /\ q.crossed = {}
    BY <1>0 DEF Handled, Step
  <2>2. Handles(r, q)
    BY <1>8, <2>1 DEF VerifyAccepts, At, Handles
  <2> QED
    BY <2>1, <2>2
<1>9. ASSUME NEW r \in Request, VerifyFinishes(r)
      PROVE  P
  BY <1>0, <1>9 DEF VerifyFinishes, Ends, At, Handles
<1>10. ASSUME NEW r \in Request, VerifyRefuses(r)
       PROVE  P
  <2> DEFINE q == [Idle EXCEPT !.at = "burn", !.token = request[r].token]
  <2>1. q \in Handled /\ q.at = "burn" /\ q.token = request[r].token /\ q.crossed = {}
    BY <1>0 DEF Handled, Step
  <2>2. Handles(r, q)
    BY <1>10, <2>1 DEF VerifyRefuses, At, Handles
  <2> QED
    BY <2>1, <2>2
<1>11. ASSUME NEW r \in Request, VerifyBurns(r)
       PROVE  P
  BY <1>0, <1>11 DEF VerifyBurns, Ends, At, Handles
<1>12. ASSUME NEW r \in Request, NEW c \in Counter, MfaEnable(r, c)
       PROVE  P
  <2> DEFINE q == [Idle EXCEPT !.at = "activate", !.code = c]
  <2>1. q \in Handled /\ q.at = "activate" /\ q.code = c /\ q.crossed = {}
    BY <1>0 DEF Handled, Step
  <2>2. Handles(r, q)
    BY <1>12, <2>1 DEF MfaEnable, Starts, At, Handles
  <2> QED
    BY <2>1, <2>2
<1>13. ASSUME NEW r \in Request, MfaEnabled(r)
       PROVE  P
  <2>1. CASE At(r, "activate")
    <3> DEFINE q == [request[r] EXCEPT !.at = "enable"]
    <3>1. q \in Handled /\ q.at = "enable" /\ q.code \in Counter /\ q.crossed = request[r].crossed
      BY <1>0, <2>1 DEF Handled, Step, Shape, At
    <3>2. Handles(r, q)
      BY <1>13, <2>1, <3>1 DEF MfaEnabled, Goes, At, Handles
    <3> QED
      BY <3>1, <3>2
  <2>2. CASE At(r, "enable")
    <3> DEFINE q == [Idle EXCEPT !.at = "counted"]
    <3>1. q \in Handled /\ q.at = "counted" /\ q.crossed = {}
      BY <1>0 DEF Handled, Step
    <3>2. Handles(r, q)
      BY <1>13, <2>2, <3>1 DEF MfaEnabled, Only, At, Handles
    <3> QED
      BY <3>1, <3>2
  <2>3. CASE At(r, "counted")
    BY <1>0, <1>13, <2>3 DEF MfaEnabled, Ends, At, Handles
  <2> QED
    BY <1>13, <2>1, <2>2, <2>3 DEF MfaEnabled
<1>14. ASSUME NEW r \in Request, NEW p \in Password, NEW c \in Code, MfaDisable(r, p, c)
       PROVE  P
  <2> DEFINE q == [Idle EXCEPT !.at = "proving", !.password = p, !.code = c]
  <2>1. q \in Handled /\ q.at = "proving" /\ q.crossed = {}
    BY <1>0 DEF Handled, Step
  <2>2. Handles(r, q)
    BY <1>14, <2>1 DEF MfaDisable, Starts, At, Handles
  <2> QED
    BY <2>1, <2>2
<1>24. ASSUME NEW r \in Request, MfaDisableLoad(r)
       PROVE  P
  <2>1. CASE Only(r, "refused")
    <3> DEFINE q == [Idle EXCEPT !.at = "refused"]
    <3>1. q \in Handled /\ q.at = "refused" /\ q.crossed = {}
      BY <1>0 DEF Handled, Step
    <3>2. Handles(r, q)
      BY <1>24, <2>1, <3>1 DEF MfaDisableLoad, Only, At, Handles
    <3> QED
      BY <3>1, <3>2
  <2>2. CASE request' = [request EXCEPT ![r] = [Idle EXCEPT !.at = "prove", !.code = request[r].code,
                                                   !.mfa = user.mfa, !.last = user.last]]
    <3> DEFINE q == [Idle EXCEPT !.at = "prove", !.code = request[r].code, !.mfa = user.mfa,
                                 !.last = user.last]
    <3>1. q \in Handled /\ q.at = "prove" /\ q.crossed = {}
      BY <1>0 DEF Handled, Account, Step
    <3>2. Handles(r, q)
      BY <1>24, <2>2, <3>1 DEF MfaDisableLoad, At, Handles
    <3> QED
      BY <3>1, <3>2
  <2> QED
    BY <1>24, <2>1, <2>2 DEF MfaDisableLoad
<1>25. ASSUME NEW r \in Request, MfaProves(r)
       PROVE  P
  <2>1. PICK to \in {"disable", "refused"} : request' = [request EXCEPT ![r] = [Idle EXCEPT !.at = to]]
    BY <1>25 DEF MfaProves, Only
  <2> DEFINE q == [Idle EXCEPT !.at = to]
  <2>2. q \in Handled /\ q.at = to /\ q.crossed = {}
    BY <1>0 DEF Handled, Step
  <2>3. Handles(r, q)
    BY <1>25, <2>1, <2>2 DEF MfaProves, At, Handles
  <2> QED
    BY <2>2, <2>3
<1>15. ASSUME NEW r \in Request, MfaDisableEnds(r)
       PROVE  P
  <2>1. CASE At(r, "refused")
    BY <1>0, <1>15, <2>1 DEF MfaDisableEnds, Ends, At, Handles
  <2>2. CASE At(r, "mfaCleared")
    BY <1>0, <1>15, <2>2 DEF MfaDisableEnds, Ends, At, Handles, ClearMfa
  <2>3. CASE At(r, "disable")
    <3> DEFINE q == [request[r] EXCEPT !.at = "mfaCleared"]
    <3>1. q \in Handled /\ q.at = "mfaCleared" /\ q.crossed = request[r].crossed
      BY <1>0 DEF Handled, Step
    <3>2. Handles(r, q)
      BY <1>15, <2>3, <3>1 DEF MfaDisableEnds, Goes, At, Handles
    <3> QED
      BY <3>1, <3>2
  <2> QED
    BY <1>15, <2>1, <2>2, <2>3 DEF MfaDisableEnds
<1>16. ASSUME NEW r \in Request, AcceptInvite(r)
       PROVE  P
  <2>1. CASE Starts(r)
    <3>1. PICK p \in Password :
             request' = [request EXCEPT ![r] = [Idle EXCEPT !.at = "invite", !.password = p]]
      BY <1>16, <2>1 DEF AcceptInvite, Starts, At
    <3> DEFINE q == [Idle EXCEPT !.at = "invite", !.password = p]
    <3>2. q \in Handled /\ q.at = "invite" /\ q.crossed = {}
      BY <1>0 DEF Handled, Step
    <3>3. Handles(r, q)
      BY <1>16, <2>1, <3>1, <3>2 DEF AcceptInvite, Starts, At, Handles
    <3> QED
      BY <3>2, <3>3
  <2>2. CASE At(r, "invite") /\ Ends(r)
    BY <1>0, <1>16, <2>2 DEF AcceptInvite, Starts, Ends, At, Handles
  <2>3. CASE At(r, "invite") /\ Goes(r, "setPassword")
    <3> DEFINE q == [request[r] EXCEPT !.at = "setPassword"]
    <3>1. q \in Handled /\ q.at = "setPassword" /\ q.crossed = request[r].crossed
      BY <1>0 DEF Handled, Step
    <3>2. Handles(r, q)
      BY <1>16, <2>3, <3>1 DEF AcceptInvite, Starts, Goes, At, Handles
    <3> QED
      BY <3>1, <3>2
  <2> QED
    BY <1>16, <2>1, <2>2, <2>3 DEF AcceptInvite
<1>17. ASSUME NEW r \in Request, NEW old \in Password, NEW new \in Password,
              ChangePassword(r, old, new)
       PROVE  P
  <2> DEFINE q == [Idle EXCEPT !.at = "setPassword", !.password = new]
  <2>1. q \in Handled /\ q.at = "setPassword" /\ q.crossed = {}
    BY <1>0 DEF Handled, Step
  <2>2. Handles(r, q)
    BY <1>17, <2>1 DEF ChangePassword, Starts, At, Handles
  <2> QED
    BY <2>1, <2>2
<1>18. ASSUME NEW r \in Request, PasswordChosen(r)
       PROVE  P
  <2> DEFINE q == [Idle EXCEPT !.at = "endSessions"]
  <2>1. q \in Handled /\ q.at = "endSessions" /\ q.crossed = {}
    BY <1>0 DEF Handled, Step
  <2>2. CASE At(r, "setPassword")
    BY <1>18, <2>1, <2>2 DEF PasswordChosen, Only, At, Handles
  <2>3. CASE At(r, "endSessions")
    BY <1>0, <1>18, <2>3 DEF PasswordChosen, Ends, At, Handles
  <2> QED
    BY <1>18, <2>2, <2>3 DEF PasswordChosen
<1>19. ASSUME NEW s \in Subject, WindowPasses(s) \/ LockPasses(s)
       PROVE  Aside
  BY <1>19 DEF WindowPasses, LockPasses, Aside
<1>20. ASSUME MfaSetup \/ SessionEnds \/ UpdateAccountStatus \/ Expires \/ ResetOrgUserMfa
              \/ UNCHANGED vars
       PROVE  Aside
  BY <1>20 DEF MfaSetup, SessionEnds, UpdateAccountStatus, Expires, ResetOrgUserMfa, ClearMfa,
     Aside, vars
<1>21. ASSUME NEW p \in Password,
              ResetOrgUserPassword(p) \/ \E b \in BOOLEAN : CreateOrgUser(b, p)
       PROVE  Aside
  BY <1>21 DEF ResetOrgUserPassword, CreateOrgUser, Aside
<1> QED
  BY <1>1, <1>2, <1>3, <1>4, <1>5, <1>6, <1>7, <1>8, <1>9, <1>10, <1>11, <1>12, <1>13, <1>14,
     <1>15, <1>16, <1>17, <1>18, <1>19, <1>20, <1>21, <1>22, <1>23, <1>24, <1>25 DEF Next

\* record_used_counter: a time step, when that is what was presented.
LEMMA CounterRecorded ==
    ASSUME user \in Account, NEW c \in Counter, RecordUsedCounter(c)
    PROVE  user' \in Account /\ user'.exists = user.exists
BY CounterType DEF RecordUsedCounter, Account

\* An account stays one, and one that exists stays in the table.
LEMMA UserStep ==
    ASSUME Shape, [Next]_vars
    PROVE  /\ user' \in Account
           /\ user'.exists = user.exists \/ (~user.exists /\ \E b \in BOOLEAN, p \in Password : CreateOrgUser(b, p))
<1> USE DEF NoCounter
<1>0. user \in Account /\ NoUser \in Account /\ NoUser.exists = FALSE
  BY NoUserType DEF Shape
<1> DEFINE P == user' \in Account /\ user'.exists = user.exists
<1>1. CASE UNCHANGED user
  BY <1>0, <1>1
<1>2. ASSUME NEW r \in Request, LoginRehashes(r)
      PROVE  P
  <2>1. request[r].password \in Password
    BY DEF Shape, Handled
  <2> QED
    BY <1>0, <1>2, <2>1 DEF LoginRehashes, UpgradePasswordHash, Account
<1>3. ASSUME NEW r \in Request, VerifyAccepts(r)
      PROVE  P
  <2>1. CASE UNCHANGED user
    BY <1>0, <2>1
  <2>2. CASE request[r].code \in Counter /\ RecordUsedCounter(request[r].code)
    BY <1>0, <2>2, CounterRecorded
  <2> QED
    BY <1>3, <2>1, <2>2 DEF VerifyAccepts, VerifyCode
<1>4. CASE MfaSetup
  BY <1>0, <1>4 DEF MfaSetup, SetPendingSecret, Account
<1>5. ASSUME ActivateMfa
      PROVE  P
  BY <1>0, <1>5 DEF ActivateMfa, Account
<1>6. ASSUME NEW r \in Request, MfaEnabled(r)
      PROVE  P
  <2>1. request[r].at \in {"activate", "enable"} => request[r].code \in Counter
    BY DEF Shape
  <2> QED
    BY <1>0, <1>5, <1>6, <2>1, CounterRecorded DEF MfaEnabled, At
<1>7. ASSUME ClearMfa
      PROVE  P
  BY <1>0, <1>7 DEF ClearMfa, Account
<1>8. ASSUME NEW r \in Request, MfaDisableEnds(r)
      PROVE  P
  BY <1>0, <1>7, <1>8 DEF MfaDisableEnds
<1>9. ASSUME NEW r \in Request, PasswordChosen(r)
      PROVE  P
  <2>1. request[r].password \in Password
    BY DEF Shape, Handled
  <2> QED
    BY <1>0, <1>9, <2>1 DEF PasswordChosen, SetUserPassword, Account
<1>10. ASSUME NEW p \in Password, ResetOrgUserPassword(p)
       PROVE  P
  BY <1>0, <1>10 DEF ResetOrgUserPassword, ResetUserPassword, Account
<1>11. ASSUME NEW p \in Password, NEW b \in BOOLEAN, CreateOrgUser(b, p)
       PROVE  user' \in Account /\ ~user.exists
  BY <1>0, <1>11 DEF CreateOrgUser, UserCreated, Account
<1>12. CASE UpdateAccountStatus
  BY <1>0, <1>12 DEF UpdateAccountStatus, Account
<1>13. CASE ResetOrgUserMfa
  BY <1>7, <1>13 DEF ResetOrgUserMfa
<1> QED
  BY <1>1, <1>2, <1>3, <1>4, <1>6, <1>8, <1>9, <1>10, <1>11, <1>12, <1>13
     DEF Next, WindowPasses, LockPasses, Login, LoginLoad, LoginFails, LoginReports, LoginClears,
         LoginFinishes, VerifyLoad, VerifyUser, VerifyFinishes, VerifyRefuses, VerifyBurns,
         MfaEnable, MfaDisable, MfaDisableLoad, MfaProves,
         AcceptInvite, ChangePassword, SessionEnds, Expires, vars

(***************************************************************************)
(* What a step does to the single-use secrets: recovery codes and the      *)
(* invite.                                                                 *)
(***************************************************************************)
Secrets ==
    \/ UNCHANGED <<codes, issued, uses, invite>>
    \/ /\ \E c \in codes : codes' = codes \ {c} /\ uses' = [uses EXCEPT ![c] = @ + 1]
       /\ UNCHANGED <<issued, invite>>
    \/ /\ \E c \in Recovery \ issued : issued' = issued \cup {c} /\ codes' = {c}
       /\ UNCHANGED <<uses, invite>>
    \/ codes' = {} /\ UNCHANGED <<issued, uses, invite>>
    \/ /\ invite = "open" /\ invite' = "used"
       /\ uses' = [uses EXCEPT !["invite"] = @ + 1] /\ UNCHANGED <<codes, issued>>
    \/ invite = "open" /\ invite' = "none" /\ UNCHANGED <<codes, issued, uses>>
    \/ /\ ~user.exists /\ user'.exists /\ invite' = "open"
       /\ UNCHANGED <<codes, issued, uses>>

\* consume_recovery_code, replace_recovery_codes, consume_invite and their callers.
LEMMA SecretsStep ==
    ASSUME Shape, [Next]_vars
    PROVE  Secrets
<1>1. ASSUME NEW r \in Request, VerifyAccepts(r)
      PROVE  Secrets
  BY <1>1 DEF VerifyAccepts, ConsumeRecoveryCode, Secrets
<1>2. ASSUME NEW r \in Request, MfaEnabled(r)
      PROVE  Secrets
  BY <1>2 DEF MfaEnabled, ReplaceRecoveryCodes, Secrets
<1>3. ASSUME NEW r \in Request, MfaProves(r)
      PROVE  Secrets
  BY <1>3 DEF MfaProves, ConsumeRecoveryCode, Secrets
<1>4. ASSUME NEW r \in Request, MfaDisableEnds(r)
      PROVE  Secrets
  BY <1>4 DEF MfaDisableEnds, ClearMfa, Secrets
<1>5. CASE ResetOrgUserMfa
  BY <1>5 DEF ResetOrgUserMfa, ClearMfa, Secrets
<1>6. ASSUME NEW r \in Request, AcceptInvite(r)
      PROVE  Secrets
  BY <1>6 DEF AcceptInvite, ConsumeInvite, Secrets
<1>7. ASSUME NEW p \in Password, NEW b \in BOOLEAN, CreateOrgUser(b, p)
      PROVE  Secrets
  <2>1. user'.exists
    BY <1>7, NoUserType DEF CreateOrgUser, UserCreated, Account
  <2> QED
    BY <1>7, <2>1 DEF CreateOrgUser, InviteCreated, Secrets
<1>8. CASE Expires
  BY <1>8 DEF Expires, Secrets
<1>9. CASE UNCHANGED <<codes, issued, uses, invite>>
  BY <1>9 DEF Secrets
<1> QED
  BY <1>1, <1>2, <1>3, <1>4, <1>5, <1>6, <1>7, <1>8, <1>9
     DEF Next, WindowPasses, LockPasses, Login, LoginLoad, LoginFails, LoginReports, LoginClears,
         LoginRehashes, LoginFinishes, VerifyLoad, VerifyUser, VerifyFinishes, VerifyRefuses,
         VerifyBurns, MfaSetup, MfaEnable, MfaDisable, MfaDisableLoad, ChangePassword, PasswordChosen, ResetOrgUserPassword, SessionEnds,
         UpdateAccountStatus, vars

\* Every step keeps the types.
LEMMA ShapeStep ==
    ASSUME Shape, [Next]_vars
    PROVE  Shape'
<1>1. user' \in Account
  BY UserStep
<1>2. /\ codes' \subseteq issued' /\ issued' \subseteq Recovery
      /\ invite' \in {"none", "open", "used"}
      /\ uses' \in [Recovery \cup {"invite"} -> Nat]
  BY SecretsStep DEF Secrets, Shape
<1>3. NoChallenge \in [id : Nat, attempts : Nat] /\ challenge \in [id : Nat, attempts : Nat]
      /\ challenges \in Nat /\ tried \in Nat
  BY DEF NoChallenge, Shape
<1>4. CASE Aside
  <2>1. challenge' \in [id : Nat, attempts : Nat] /\ challenges' \in Nat /\ tried' \in Nat
    BY <1>3, <1>4 DEF Aside, Held, Dropped, WindowPasses, LockPasses
  <2>2. /\ throttle' \in [Subject -> ThrottleRow]
        /\ failed' \in [Subject -> Nat] /\ owed' \in [Subject -> Int]
    <3>1. CASE Kept
      BY <3>1 DEF Kept, Shape
    <3>2. ASSUME NEW s \in Subject, WindowPasses(s)
          PROVE  throttle' \in [Subject -> ThrottleRow] /\ UNCHANGED <<failed, owed>>
      BY <3>2 DEF WindowPasses, Shape, ThrottleRow
    <3>3. ASSUME NEW s \in Subject, LockPasses(s)
          PROVE  throttle' \in [Subject -> ThrottleRow] /\ UNCHANGED <<failed, owed>>
      <4>1. LockNoShorter \in BOOLEAN /\ throttle[s].old \in BOOLEAN
        BY SignInAssumption DEF Shape, ThrottleRow
      <4>2. (LockNoShorter \/ throttle[s].old) \in BOOLEAN
        BY <4>1
      <4> QED
        BY <3>3, <4>2 DEF LockPasses, Shape, ThrottleRow
    <3> QED
      BY <1>4, <3>1, <3>2, <3>3 DEF Aside, Shape
  <2> QED
    BY <1>1, <1>2, <1>4, <2>1, <2>2 DEF Aside, Shape
<1>5. ASSUME NEW r \in Request, NEW q \in Handled, Handles(r, q)
      PROVE  Shape'
  <2>1. request' = [request EXCEPT ![r] = q] /\ (q.at \in {"activate", "enable"} => q.code \in Counter)
    BY <1>5 DEF Handles
  <2>2. /\ request' \in [Request -> Handled]
        /\ \A v \in Request : request'[v].at \in {"activate", "enable"} => request'[v].code \in Counter
    BY <2>1, RequestType
  <2>3. /\ throttle' \in [Subject -> ThrottleRow]
        /\ failed' \in [Subject -> Nat] /\ owed' \in [Subject -> Int]
    <3>1. CASE Kept
      BY <3>1 DEF Kept, Shape
    <3>2. CASE \E s \in Subject : RegisterFailure(s) \/ ClearAttempts(s)
      BY <3>2, ThrottleType
    <3>3. CASE Reports(r)
      BY <3>3 DEF Reports, Shape
    <3> QED
      BY <1>5, <3>1, <3>2, <3>3 DEF Handles, Subject
  <2>4. challenge' \in [id : Nat, attempts : Nat] /\ challenges' \in Nat /\ tried' \in Nat
    <3>1. CASE Held \/ Dropped \/ CreateChallenge
      BY <1>3, <3>1 DEF Held, Dropped, CreateChallenge
    <3>2. CASE ConsumeChallenge(request[r].token) /\ UNCHANGED <<challenges, tried>>
      BY <1>3, <3>2 DEF ConsumeChallenge
    <3>3. CASE /\ RegisterChallengeAttempt(request[r].token) /\ UNCHANGED challenges
               /\ tried' = (IF request[r].token = challenges THEN tried + 1 ELSE tried)
      BY <1>3, <3>3 DEF RegisterChallengeAttempt
    <3> QED
      BY <1>5, <3>1, <3>2, <3>3 DEF Handles
  <2> QED
    BY <1>1, <1>2, <2>2, <2>3, <2>4 DEF Shape
<1> QED
  BY <1>4, <1>5, StepIsHandled

-----------------------------------------------------------------------------
(***************************************************************************)
(* The invariants.                                                         *)
(***************************************************************************)

\* A secret that can still be used has not been, and no secret was used twice.
Spent ==
    /\ \A c \in Recovery :
         uses[c] <= 1 /\ (c \in codes \/ c \notin issued => uses[c] = 0)
    /\ uses["invite"] = IF invite = "used" THEN 1 ELSE 0
    /\ ~user.exists => invite = "none"

\* The requests that passed the throttle of a subject and may yet fail against it.
Doing(s) ==
    IF s = "account" THEN {"load", "fail"}
    ELSE IF s = "source" THEN {"load", "fail", "failSource"}
    ELSE {"proving", "prove", "refused"}

In(s) == {r \in Request : request[r].at \in Doing(s)}

\* Once a subject is locked nobody joins, and every failure takes one request away.
ThrottleAt(s) ==
    LET row == throttle[s]
    IN  /\ failed[s] = row.count
        /\ row.lock = "none" => row.count < Threshold[s]
        /\ row.lock = "on" =>
             /\ row.count >= Threshold[s]
             /\ row.count + Cardinality(In(s)) < Bound(s)
        /\ row.lock = "over" => row.old /\ row.count >= Threshold[s] /\ row.count < Bound(s)

\* What a request carries to its audit row: the lockouts its own failures began.
Owing(s) == {r \in Request : s \in request[r].crossed}

Carried ==
    /\ \A r \in Request :
         /\ request[r].crossed # {} => request[r].at \in {"failSource", "report"}
         /\ request[r].at = "failSource" => request[r].crossed \subseteq {"account"}
    /\ \A s \in {"account", "source"} : owed[s] = Cardinality(Owing(s))

\* The requests that hold the challenge in force and may yet try a wrong code on it.
Guessing == {r \in Request : request[r].at \in {"verify", "code", "burn"} /\ request[r].token = challenges}

Challenged ==
    /\ \A r \in Request :
         request[r].at \in {"verify", "code", "burn"} => request[r].token \in 1..challenges
    /\ challenge.id \in {0, challenges}
    /\ challenge.id # 0 => tried = challenge.attempts /\ tried < MaxCodeTries
    /\ challenge.id = 0 => tried + Cardinality(Guessing) < MaxCodeTries + Cardinality(Request)

SignInInv == Shape /\ Spent /\ Challenged /\ Carried /\ \A s \in Subject : ThrottleAt(s)

-----------------------------------------------------------------------------
(***************************************************************************)
(* Single use.                                                             *)
(***************************************************************************)

\* The guarded updates of consume_recovery_code and consume_invite: no order of requests
\* makes a used secret usable again.
LEMMA SpentStep ==
    ASSUME Shape, Spent, [Next]_vars
    PROVE  Spent'
<1>1. Secrets
  BY SecretsStep
<1>2. "invite" \notin Recovery
  BY SignInAssumption
<1>3. /\ uses \in [Recovery \cup {"invite"} -> Nat] /\ codes \subseteq issued
      /\ issued \subseteq Recovery /\ user \in Account
  BY DEF Shape
<1>4. user' \in Account /\ (user.exists => user'.exists)
  BY <1>3, UserStep DEF Account
<1>5. CASE UNCHANGED <<codes, issued, uses, invite>>
  BY <1>4, <1>5 DEF Spent
<1>6. ASSUME NEW c \in codes, codes' = codes \ {c}, uses' = [uses EXCEPT ![c] = @ + 1],
             UNCHANGED <<issued, invite>>
      PROVE  Spent'
  <2>1. c \in Recovery /\ c # "invite" /\ uses[c] = 0
    BY <1>2, <1>3 DEF Spent
  <2>2. uses'[c] = 1 /\ uses'["invite"] = uses["invite"]
        /\ \A d \in Recovery \ {c} : uses'[d] = uses[d]
    BY <1>3, <1>6, <2>1
  <2> QED
    BY <1>3, <1>4, <1>6, <2>1, <2>2 DEF Spent
<1>7. ASSUME NEW c \in Recovery \ issued, issued' = issued \cup {c}, codes' = {c},
             UNCHANGED <<uses, invite>>
      PROVE  Spent'
  BY <1>4, <1>7 DEF Spent
<1>8. CASE codes' = {} /\ UNCHANGED <<issued, uses, invite>>
  BY <1>4, <1>8 DEF Spent
<1>9. CASE /\ invite = "open" /\ invite' = "used"
           /\ uses' = [uses EXCEPT !["invite"] = @ + 1] /\ UNCHANGED <<codes, issued>>
  <2>1. uses["invite"] = 0 /\ user.exists
    BY <1>9 DEF Spent
  <2>2. uses'["invite"] = 1 /\ \A d \in Recovery : uses'[d] = uses[d]
    BY <1>2, <1>3, <1>9, <2>1
  <2> QED
    BY <1>4, <1>9, <2>1, <2>2 DEF Spent
<1>10. CASE invite = "open" /\ invite' = "none" /\ UNCHANGED <<codes, issued, uses>>
  BY <1>4, <1>10 DEF Spent
<1>11. CASE /\ ~user.exists /\ user'.exists /\ invite' = "open"
            /\ UNCHANGED <<codes, issued, uses>>
  BY <1>11 DEF Spent
<1> QED
  BY <1>1, <1>5, <1>6, <1>7, <1>8, <1>9, <1>10, <1>11 DEF Secrets

-----------------------------------------------------------------------------
(***************************************************************************)
(* Counting requests.                                                      *)
(***************************************************************************)

\* Fewer requests, counted.
LEMMA Fewer ==
    ASSUME NEW F \in SUBSET Request, NEW G \in SUBSET F
    PROVE  /\ Cardinality(F) \in Nat /\ Cardinality(G) \in Nat
           /\ Cardinality(G) <= Cardinality(F)
<1>1. IsFiniteSet(F) /\ IsFiniteSet(G)
  BY SignInAssumption, FS_Subset
<1> QED
  BY <1>1, FS_Subset, FS_CardinalityType

\* One request less, counted.
LEMMA OneLess ==
    ASSUME NEW F \in SUBSET Request, NEW r \in F, NEW G \in SUBSET (F \ {r})
    PROVE  /\ Cardinality(F) \in Nat /\ Cardinality(G) \in Nat
           /\ Cardinality(G) + 1 <= Cardinality(F)
<1>1. IsFiniteSet(F)
  BY SignInAssumption, FS_Subset
<1>2. Cardinality(F \ {r}) = Cardinality(F) - 1 /\ IsFiniteSet(F \ {r})
  BY <1>1, FS_RemoveElement
<1>3. Cardinality(G) <= Cardinality(F \ {r}) /\ IsFiniteSet(G)
  BY <1>2, FS_Subset
<1> QED
  BY <1>1, <1>2, <1>3, FS_CardinalityType

-----------------------------------------------------------------------------
(***************************************************************************)
(* Throttling.                                                             *)
(***************************************************************************)

\* Moving one request moves it into a set of requests or out of it.
LEMMA InMoves ==
    ASSUME Shape, NEW r \in Request, NEW q \in Handled, request' = [request EXCEPT ![r] = q],
           NEW s \in Subject
    PROVE  In(s)' = IF q.at \in Doing(s) THEN In(s) \cup {r} ELSE In(s) \ {r}
<1>1. request'[r] = q /\ \A v \in Request \ {r} : request'[v] = request[v]
  BY DEF Shape
<1> QED
  BY <1>1 DEF In

\* What a step does to one subject: nothing while no request joins a locked one, a failure
\* that takes its request away, a success, or time.
ThrottleKind(s) ==
    \/ /\ UNCHANGED <<throttle[s], failed[s]>>
       /\ In(s)' \subseteq In(s) \/ ~IsLocked(s)
    \/ RegisterFailure(s) /\ \E r \in In(s) : In(s)' \subseteq In(s) \ {r}
    \/ ClearAttempts(s)
    \/ (WindowPasses(s) \/ LockPasses(s)) /\ In(s)' = In(s)

\* A failure or a success of one subject says nothing about another.
LEMMA OtherSubjects ==
    ASSUME Shape, NEW t \in Subject, NEW s \in Subject \ {t},
           RegisterFailure(t) \/ ClearAttempts(t) \/ WindowPasses(t) \/ LockPasses(t)
    PROVE  UNCHANGED <<throttle[s], failed[s]>>
BY DEF Shape, RegisterFailure, ClearAttempts, WindowPasses, LockPasses

\* The whole program: every step does one of these to every subject.
LEMMA ThrottleKinds ==
    ASSUME Shape, [Next]_vars, NEW s \in Subject
    PROVE  ThrottleKind(s)
<1>1. CASE Aside
  <2>1. In(s)' = In(s)
    BY <1>1 DEF Aside, In
  <2>2. CASE Kept
    BY <2>1, <2>2 DEF Kept, ThrottleKind
  <2>3. ASSUME NEW t \in Subject, WindowPasses(t) \/ LockPasses(t)
        PROVE  ThrottleKind(s)
    BY <2>1, <2>3, OtherSubjects DEF ThrottleKind
  <2> QED
    BY <1>1, <2>2, <2>3 DEF Aside
<1>2. ASSUME NEW r \in Request, NEW q \in Handled, Handles(r, q)
      PROVE  ThrottleKind(s)
  <2>1. In(s)' = IF q.at \in Doing(s) THEN In(s) \cup {r} ELSE In(s) \ {r}
    BY <1>2, InMoves DEF Handles
  <2>2. r \in In(s) <=> request[r].at \in Doing(s)
    BY DEF In
  <2>3. s \in {"account", "source", "mfa-disable"}
    BY DEF Subject
  <2>4. CASE Kept \/ (Reports(r) /\ q.at = "idle")
    <3>1. q.at \in Doing(s) => request[r].at \in Doing(s) \/ ~IsLocked(s)
      <4>1. CASE q.at = "idle"
        BY <2>3, <4>1 DEF Doing
      <4>2. CASE Kept
        BY <1>2, <2>3, <4>2 DEF Handles, Doing
      <4> QED
        BY <2>4, <4>1, <4>2
    <3>2. UNCHANGED <<throttle, failed>>
      BY <2>4 DEF Kept, Reports
    <3> QED
      BY <2>1, <2>2, <3>1, <3>2 DEF ThrottleKind
  <2>5. CASE request[r].at = "fail" /\ q.at = "failSource" /\ RegisterFailure("account")
    <3>1. CASE s = "account"
      BY <2>1, <2>2, <2>5, <3>1 DEF Doing, ThrottleKind
    <3>2. CASE s # "account"
      <4>1. UNCHANGED <<throttle[s], failed[s]>>
        BY <2>5, <3>2, OtherSubjects DEF Subject
      <4>2. In(s)' \subseteq In(s)
        BY <2>1, <2>2, <2>3, <2>5, <3>2 DEF Doing
      <4> QED
        BY <4>1, <4>2 DEF ThrottleKind
    <3> QED
      BY <3>1, <3>2
  <2>6. ASSUME NEW t \in {"source", "mfa-disable"}, RegisterFailure(t), q.at \in {"idle", "report"},
               request[r].at = IF t = "source" THEN "failSource" ELSE "refused"
        PROVE  ThrottleKind(s)
    <3>1. In(s)' = In(s) \ {r}
      BY <2>1, <2>6 DEF Doing
    <3>2. CASE s = t
      BY <2>2, <2>6, <3>1, <3>2 DEF Doing, ThrottleKind
    <3>3. CASE s # t
      <4>1. UNCHANGED <<throttle[s], failed[s]>>
        BY <2>6, <3>3, OtherSubjects DEF Subject
      <4> QED
        BY <3>1, <4>1 DEF ThrottleKind
    <3> QED
      BY <3>2, <3>3
  <2>7. ASSUME NEW t \in {"account", "mfa-disable"}, ClearAttempts(t),
               q.at \in {"rehash", "finish", "mfaCleared"}
        PROVE  ThrottleKind(s)
    <3>1. In(s)' = In(s) \ {r}
      BY <2>1, <2>7 DEF Doing
    <3>2. CASE s = t
      BY <2>7, <3>2 DEF ThrottleKind
    <3>3. CASE s # t
      <4>1. UNCHANGED <<throttle[s], failed[s]>>
        BY <2>7, <3>3, OtherSubjects DEF Subject
      <4> QED
        BY <3>1, <4>1 DEF ThrottleKind
    <3> QED
      BY <3>2, <3>3
  <2>8. \/ Kept
        \/ Reports(r) /\ q.at = "idle"
        \/ request[r].at = "fail" /\ q.at = "failSource" /\ RegisterFailure("account")
        \/ request[r].at = "failSource" /\ q.at \in {"idle", "report"} /\ RegisterFailure("source")
        \/ request[r].at = "refused" /\ q.at = "idle" /\ RegisterFailure("mfa-disable")
        \/ q.at \in {"rehash", "finish"} /\ ClearAttempts("account")
        \/ q.at = "mfaCleared" /\ ClearAttempts("mfa-disable")
    BY <1>2 DEF Handles
  <2> QED
    BY <2>4, <2>5, <2>6, <2>7, <2>8
<1> QED
  BY <1>1, <1>2, StepIsHandled

\* register_failure's answer: the failure that begins a lockout is the one that crosses the
\* threshold.
LEMMA CrossingBegins ==
    ASSUME Shape, NEW s \in Subject, ThrottleAt(s), RegisterFailure(s)
    PROVE  /\ NewlyLocked(s) = IF throttle'[s].lock = "on" /\ ~IsLocked(s) THEN {s} ELSE {}
           /\ owed' = [owed EXCEPT ![s] = IF NewlyLocked(s) = {} THEN @ ELSE @ + 1]
<1> DEFINE row == throttle[s]
           T == Threshold[s]
           base == WindowReset(row)
           next == throttle'[s]
<1>1. /\ row \in ThrottleRow /\ row.count \in Nat /\ row.old \in BOOLEAN
      /\ row.lock \in {"none", "on", "over"} /\ T \in Nat /\ T # 0
  BY SignInAssumption DEF Shape, ThrottleRow
<1>2. next = Counted(base, s)
  BY DEF RegisterFailure, Shape
<1>3. base \in ThrottleRow /\ base.count \in Nat /\ base.lock \in {"none", "on", "over"}
  BY <1>1 DEF WindowReset, Clean, ThrottleRow
<1>4. /\ next.count = base.count + 1
      /\ next.lock = IF base.count + 1 >= T THEN "on" ELSE base.lock
  BY <1>2, <1>3 DEF Counted, ThrottleRow
<1>5. \/ base = row /\ row.lock # "over"
      \/ base = Clean /\ row.lock # "on"
  BY <1>1 DEF WindowReset, ThrottleAt
<1>6. Clean.count = 0 /\ Clean.lock = "none"
  BY DEF Clean
<1>7. /\ row.lock = "none" => row.count < T
      /\ row.lock = "on" => row.count >= T
  BY DEF ThrottleAt
<1>8. Crossed(next, s) <=> next.lock # "none" /\ next.count = T
  BY DEF Crossed
<1>9. /\ NewlyLocked(s) = IF Crossed(next, s) THEN {s} ELSE {}
      /\ IsLocked(s) <=> row.lock = "on"
      /\ owed' = IF next.lock = "on" /\ ~IsLocked(s) THEN [owed EXCEPT ![s] = @ + 1] ELSE owed
  BY <1>2 DEF NewlyLocked, IsLocked, RegisterFailure
<1>10. owed = [owed EXCEPT ![s] = owed[s]]
  BY DEF Shape
<1> HIDE DEF row, T, base, next
<1>11. Crossed(next, s) <=> next.lock = "on" /\ row.lock # "on"
  BY <1>1, <1>3, <1>4, <1>5, <1>6, <1>7, <1>8
<1> QED
  BY <1>9, <1>10, <1>11 DEF next

\* Every failure counts, a lock stays until time or a success ends it, and the requests
\* still under way are all that can raise the count of a locked subject further.
LEMMA ThrottleStep ==
    ASSUME LockNoShorter, Shape, [Next]_vars, NEW s \in Subject, ThrottleAt(s)
    PROVE  ThrottleAt(s)'
<1> DEFINE row == throttle[s]
           T == Threshold[s]
           n == Cardinality(Request)
<1>1. /\ row \in ThrottleRow /\ row.count \in Nat /\ row.old \in BOOLEAN
      /\ row.lock \in {"none", "on", "over"} /\ failed[s] \in Nat /\ owed[s] \in Int
  BY DEF Shape, ThrottleRow
<1>2. T \in Nat /\ T # 0 /\ n \in Nat /\ Bound(s) = T + n
  BY SignInAssumption, FS_CardinalityType DEF Bound
<1>3. In(s) \in SUBSET Request /\ In(s)' \in SUBSET Request
  BY DEF In
<1>4. /\ Cardinality(In(s)) \in Nat /\ Cardinality(In(s)') \in Nat
      /\ Cardinality(In(s)) <= n /\ Cardinality(In(s)') <= n
  BY <1>3, Fewer
<1>5. CASE UNCHANGED <<throttle[s], failed[s]>> /\ (In(s)' \subseteq In(s) \/ ~IsLocked(s))
  <2>1. In(s)' \subseteq In(s) => Cardinality(In(s)') <= Cardinality(In(s))
    BY <1>3, Fewer
  <2> QED
    BY <1>1, <1>2, <1>4, <1>5, <2>1 DEF ThrottleAt, IsLocked
<1>6. CASE ClearAttempts(s)
  <2>1. throttle'[s] = Clean /\ failed'[s] = 0
    BY <1>6 DEF ClearAttempts, Shape
  <2> QED
    BY <1>2, <2>1 DEF ThrottleAt, Clean
<1>7. CASE WindowPasses(s) /\ In(s)' = In(s)
  <2>1. /\ throttle'[s].count = row.count /\ throttle'[s].lock = row.lock /\ throttle'[s].old = TRUE
        /\ UNCHANGED <<failed, owed>>
    BY <1>1, <1>7 DEF WindowPasses, Shape, ThrottleRow
  <2> QED
    BY <1>7, <2>1 DEF ThrottleAt
<1>8. CASE LockPasses(s) /\ In(s)' = In(s)
  <2>1. /\ throttle'[s].count = row.count /\ throttle'[s].lock = "over" /\ throttle'[s].old = TRUE
        /\ UNCHANGED <<failed, owed>> /\ row.lock = "on"
    BY <1>1, <1>8 DEF LockPasses, IsLocked, Shape, ThrottleRow
  <2>2. row.count >= T /\ row.count + Cardinality(In(s)) < T + n /\ failed[s] = row.count
    BY <1>2, <2>1 DEF ThrottleAt
  <2> QED
    BY <1>1, <1>2, <1>4, <2>1, <2>2 DEF ThrottleAt
<1>9. ASSUME RegisterFailure(s), NEW r \in In(s), In(s)' \subseteq In(s) \ {r}
      PROVE  ThrottleAt(s)'
  <2> DEFINE base == WindowReset(row)
             next == throttle'[s]
  <2>1. /\ next = Counted(base, s)
        /\ failed'[s] = (IF base = row THEN failed[s] ELSE 0) + 1
    BY <1>9 DEF RegisterFailure, Shape
  <2>2. base \in ThrottleRow /\ base.count \in Nat /\ base.lock \in {"none", "on", "over"}
    BY <1>1 DEF WindowReset, Clean, ThrottleRow
  <2>3. /\ next.count = base.count + 1
        /\ next.lock = IF base.count + 1 >= T THEN "on" ELSE base.lock
        /\ next.old = base.old
    BY <2>1, <2>2 DEF Counted, ThrottleRow
  <2>4. Cardinality(In(s)') + 1 <= Cardinality(In(s))
    BY <1>3, <1>9, OneLess
  <2>5. \/ base = row /\ row.lock # "over"
        \/ base = Clean /\ row.lock # "on" /\ row.count > 0
    BY <1>1, <1>2 DEF WindowReset, ThrottleAt
  <2>6. Clean.count = 0 /\ Clean.lock = "none" /\ (base = Clean /\ row.count > 0 => base # row)
    BY DEF Clean
  <2> HIDE DEF base, next, row, T, n
  <2>8. failed'[s] = next.count
    <3>1. failed[s] = row.count
      BY DEF ThrottleAt, row
    <3> QED
      BY <1>1, <2>1, <2>3, <2>5, <2>6, <3>1
  <2>9. next.lock # "over"
    BY <2>3, <2>5, <2>6
  <2>10. next.lock = "none" => next.count < T
    BY <1>2, <2>2, <2>3
  <2>11. CASE row.lock = "on"
    <3>1. row.count >= T /\ row.count + Cardinality(In(s)) < T + n
      BY <1>2, <2>11 DEF ThrottleAt, row, T, n
    <3>2. base = row /\ next.count = row.count + 1 /\ next.count # T
      BY <1>1, <1>2, <2>3, <2>5, <2>11, <3>1
    <3>4. next.count + Cardinality(In(s)') < T + n
      BY <1>1, <1>2, <1>4, <2>4, <3>1, <3>2
    <3>5. next.count >= T
      BY <1>1, <1>2, <3>1, <3>2
    <3> QED
      BY <1>2, <2>8, <2>9, <2>10, <3>4, <3>5 DEF ThrottleAt, next, T, n, Bound
  <2>12. CASE row.lock # "on"
    <3>1. base.count < T
      <4>1. row.lock = "none" => row.count < T
        BY DEF ThrottleAt, row, T
      <4> QED
        BY <1>1, <1>2, <2>5, <2>6, <2>12, <4>1
    <3>2. next.lock = "on" => next.count = T
      BY <1>2, <2>2, <2>3, <2>5, <2>6, <2>12, <3>1
    <3>4. next.lock = "on" => next.count + Cardinality(In(s)') < T + n
      BY <1>2, <1>4, <2>4, <3>2
    <3>5. next.lock = "on" => next.count >= T
      BY <1>2, <3>2
    <3> QED
      BY <1>2, <2>8, <2>9, <2>10, <3>4, <3>5 DEF ThrottleAt, next, T, n, Bound
  <2> QED
    BY <2>11, <2>12
<1> QED
  BY <1>5, <1>6, <1>7, <1>8, <1>9, ThrottleKinds DEF ThrottleKind

-----------------------------------------------------------------------------
(***************************************************************************)
(* The audit rows of lockouts.                                             *)
(***************************************************************************)

\* Moving one request moves it among those that owe a row, or not.
LEMMA OwingMoves ==
    ASSUME Shape, NEW r \in Request, NEW q \in Handled, request' = [request EXCEPT ![r] = q],
           NEW s \in Subject
    PROVE  Owing(s)' = IF s \in q.crossed THEN Owing(s) \cup {r} ELSE Owing(s) \ {r}
<1>1. request'[r] = q /\ \A v \in Request \ {r} : request'[v] = request[v]
  BY DEF Shape
<1> QED
  BY <1>1 DEF Owing

\* login: the failure that begins a lockout of the account or of the source owes it to the
\* audit log, nobody else does, and the row settles what its request owes.
LEMMA CarriedStep ==
    ASSUME Shape, Carried, \A s \in Subject : ThrottleAt(s), [Next]_vars
    PROVE  Carried'
<1>1. request \in [Request -> Handled] /\ owed \in [Subject -> Int]
  BY DEF Shape
<1>2. {"account", "source"} \subseteq Subject
  BY DEF Subject
<1>3. CASE Aside
  <2>1. UNCHANGED <<request, owed>>
    BY <1>3 DEF Aside, Kept, WindowPasses, LockPasses
  <2> QED
    BY <2>1 DEF Carried, Owing
<1>4. ASSUME NEW r \in Request, NEW q \in Handled, Handles(r, q)
      PROVE  Carried'
  <2>1. request' = [request EXCEPT ![r] = q]
    BY <1>4 DEF Handles
  <2>2. request'[r] = q /\ \A v \in Request \ {r} : request'[v] = request[v]
    BY <1>1, <2>1
  <2>3. ASSUME NEW s \in Subject
        PROVE  /\ Owing(s)' = IF s \in q.crossed THEN Owing(s) \cup {r} ELSE Owing(s) \ {r}
               /\ r \in Owing(s) <=> s \in request[r].crossed
    <3>1. Owing(s)' = IF s \in q.crossed THEN Owing(s) \cup {r} ELSE Owing(s) \ {r}
      BY <2>1, OwingMoves
    <3> QED
      BY <3>1 DEF Owing
  <2>4. /\ request[r].crossed # {} => request[r].at \in {"failSource", "report"}
        /\ request[r].at = "failSource" => request[r].crossed \subseteq {"account"}
        /\ \A s \in {"account", "source"} : owed[s] = Cardinality(Owing(s))
    BY DEF Carried
  <2>5. ASSUME NEW s \in Subject
        PROVE  /\ IsFiniteSet(Owing(s))
               /\ r \notin Owing(s) => Cardinality(Owing(s) \cup {r}) = Cardinality(Owing(s)) + 1
               /\ r \in Owing(s) => Cardinality(Owing(s) \ {r}) = Cardinality(Owing(s)) - 1
    <3>1. IsFiniteSet(Owing(s))
      BY SignInAssumption, FS_Subset DEF Owing
    <3> QED
      BY <3>1, FS_AddElement, FS_RemoveElement
  <2>6. ASSUME \A s \in {"account", "source"} : owed'[s] = Cardinality(Owing(s)'),
               q.crossed # {} => q.at \in {"failSource", "report"},
               q.at = "failSource" => q.crossed \subseteq {"account"}
        PROVE  Carried'
    BY <2>2, <2>6 DEF Carried
  \* a step that owes nothing new and settles nothing
  <2>7. CASE /\ request[r].at \notin {"fail", "failSource", "report"}
             /\ q.at \notin {"failSource", "report"}
             /\ \A s \in {"account", "source"} : owed'[s] = owed[s]
    <3>1. request[r].crossed = {} /\ q.crossed = {}
      BY <1>4, <2>4, <2>7 DEF Handles
    <3>2. \A s \in Subject : Owing(s)' = Owing(s)
      BY <2>3, <3>1
    <3> QED
      BY <1>2, <2>4, <2>6, <2>7, <3>1, <3>2
  <2>8. CASE /\ request[r].at = "fail" /\ q.at = "failSource" /\ RegisterFailure("account")
             /\ q.crossed = NewlyLocked("account")
    <3>1. q.crossed \in {{}, {"account"}} /\ request[r].crossed = {}
      BY <2>4, <2>8 DEF NewlyLocked
    <3>2. owed' = [owed EXCEPT !["account"] = IF q.crossed = {} THEN @ ELSE @ + 1]
      BY <1>2, <2>8, CrossingBegins
    <3>3. owed'["account"] = Cardinality(Owing("account")')
      <4>1. CASE q.crossed = {}
        <5>1. Owing("account")' = Owing("account") /\ owed'["account"] = owed["account"]
          BY <1>1, <1>2, <2>3, <3>1, <3>2, <4>1
        <5> QED
          BY <2>4, <5>1
      <4>2. CASE q.crossed = {"account"}
        <5>1. /\ Owing("account")' = Owing("account") \cup {r} /\ r \notin Owing("account")
              /\ owed'["account"] = owed["account"] + 1
          BY <1>1, <1>2, <2>3, <3>1, <3>2, <4>2
        <5> QED
          BY <1>2, <2>4, <2>5, <5>1
      <4> QED
        BY <3>1, <4>1, <4>2
    <3>4. owed'["source"] = Cardinality(Owing("source")')
      <4>1. "source" \notin q.crossed /\ "source" \notin request[r].crossed
        BY <3>1
      <4>2. owed'["source"] = owed["source"]
        BY <1>1, <1>2, <3>2
      <4>3. Owing("source")' = Owing("source")
        BY <1>2, <2>3, <4>1
      <4> QED
        BY <2>4, <4>2, <4>3
    <3> QED
      BY <2>6, <2>8, <3>1, <3>3, <3>4
  <2>9. CASE /\ request[r].at = "failSource" /\ q.at \in {"idle", "report"}
             /\ RegisterFailure("source")
             /\ q.crossed = request[r].crossed \cup NewlyLocked("source")
             /\ q.at = "idle" => q.crossed = {}
    <3>1. NewlyLocked("source") \in {{}, {"source"}} /\ request[r].crossed \subseteq {"account"}
      BY <2>4, <2>9 DEF NewlyLocked
    <3>2. owed' = [owed EXCEPT !["source"] = IF NewlyLocked("source") = {} THEN @ ELSE @ + 1]
      BY <1>2, <2>9, CrossingBegins
    <3>3. owed'["account"] = Cardinality(Owing("account")')
      <4>1. "account" \in q.crossed <=> "account" \in request[r].crossed
        BY <2>9, <3>1
      <4>2. Owing("account")' = Owing("account") /\ owed'["account"] = owed["account"]
        BY <1>1, <1>2, <2>3, <3>2, <4>1
      <4> QED
        BY <2>4, <4>2
    <3>4. owed'["source"] = Cardinality(Owing("source")')
      <4>1. r \notin Owing("source") /\ ("source" \in q.crossed <=> NewlyLocked("source") # {})
        BY <1>2, <2>3, <2>9, <3>1
      <4>2. CASE NewlyLocked("source") = {}
        <5>1. Owing("source")' = Owing("source") /\ owed'["source"] = owed["source"]
          BY <1>1, <1>2, <2>3, <3>2, <4>1, <4>2
        <5> QED
          BY <2>4, <5>1
      <4>3. CASE NewlyLocked("source") # {}
        <5>1. Owing("source")' = Owing("source") \cup {r} /\ owed'["source"] = owed["source"] + 1
          BY <1>1, <1>2, <2>3, <3>2, <4>1, <4>3
        <5> QED
          BY <1>2, <2>4, <2>5, <4>1, <5>1
      <4> QED
        BY <4>2, <4>3
    <3> QED
      BY <2>6, <2>9, <3>3, <3>4
  <2>10. CASE request[r].at = "report" /\ q.at = "idle" /\ Reports(r) /\ q.crossed = {}
    <3>1. ASSUME NEW s \in {"account", "source"}
          PROVE  owed'[s] = Cardinality(Owing(s)')
      <4>1. /\ Owing(s)' = Owing(s) \ {r}
            /\ owed'[s] = IF r \in Owing(s) THEN owed[s] - 1 ELSE owed[s]
        BY <1>2, <2>3, <2>10 DEF Reports
      <4>2. r \notin Owing(s) => Owing(s) \ {r} = Owing(s)
        OBVIOUS
      <4> QED
        BY <1>2, <2>4, <2>5, <4>1, <4>2
    <3> QED
      BY <2>6, <2>10, <3>1
  <2>11. CASE request[r].at = "refused" /\ q.at = "idle" /\ RegisterFailure("mfa-disable")
    <3>1. \A s \in {"account", "source"} : owed'[s] = owed[s]
      BY <1>1, <1>2, <2>11 DEF RegisterFailure
    <3> QED
      BY <2>7, <2>11, <3>1
  <2>12. CASE /\ request[r].at \notin {"fail", "failSource", "report"}
              /\ q.at \notin {"failSource", "report"}
              /\ Kept \/ ClearAttempts("account") \/ ClearAttempts("mfa-disable")
    BY <2>7, <2>12 DEF Kept, ClearAttempts
  <2> QED
    BY <1>4, <2>8, <2>9, <2>10, <2>11, <2>12 DEF Handles
<1> QED
  BY <1>3, <1>4, StepIsHandled

-----------------------------------------------------------------------------
(***************************************************************************)
(* The challenge.                                                          *)
(***************************************************************************)

\* register_challenge_attempt: a challenge admits its cap of wrong codes, and after it is
\* gone only those of the requests that had loaded it.
LEMMA ChallengedStep ==
    ASSUME Shape, Challenged, [Next]_vars
    PROVE  Challenged'
<1> DEFINE n == Cardinality(Request)
           M == MaxCodeTries
<1>1. /\ challenge \in [id : Nat, attempts : Nat] /\ challenge.id \in Nat
      /\ challenge.attempts \in Nat /\ challenges \in Nat /\ tried \in Nat
      /\ request \in [Request -> Handled]
      /\ \A r \in Request : request[r].token \in Nat
  BY DEF Shape, Handled
<1>2. M \in Nat /\ M # 0 /\ n \in Nat
  BY SignInAssumption, FS_CardinalityType
<1>3. Guessing \in SUBSET Request /\ Guessing' \in SUBSET Request
  BY DEF Guessing
<1>4. /\ Cardinality(Guessing) \in Nat /\ Cardinality(Guessing') \in Nat
      /\ Cardinality(Guessing) <= n /\ Cardinality(Guessing') <= n
  BY <1>3, Fewer
<1>5. NoChallenge.id = 0
  BY DEF NoChallenge
<1>6. ASSUME Held \/ Dropped,
             \A v \in Request : request'[v].at \in {"verify", "code", "burn"} => request'[v].token \in 1..challenges,
             Guessing' \subseteq Guessing \/ challenge.id # 0
      PROVE  Challenged'
  <2>1. Guessing' \subseteq Guessing => Cardinality(Guessing') <= Cardinality(Guessing)
    BY <1>3, Fewer
  <2> QED
    BY <1>1, <1>2, <1>4, <1>5, <1>6, <2>1 DEF Challenged, Held, Dropped
<1>7. CASE Aside
  <2>1. Held \/ Dropped
    BY <1>7 DEF Aside
  <2>2. UNCHANGED request /\ UNCHANGED challenges
    BY <1>7, <2>1 DEF Aside, Held, Dropped
  <2>3. Guessing' = Guessing
    BY <2>2 DEF Guessing
  <2> QED
    BY <1>6, <2>1, <2>2, <2>3 DEF Challenged
<1>8. ASSUME NEW r \in Request, NEW q \in Handled, Handles(r, q)
      PROVE  Challenged'
  <2>1. /\ request'[r] = q /\ \A v \in Request \ {r} : request'[v] = request[v]
        /\ request' = [request EXCEPT ![r] = q] /\ q.token \in Nat
    BY <1>1, <1>8 DEF Handles, Handled
  <2>2. CASE q.at = "verify"
    <3>1. q.token = challenge.id /\ challenge.id # 0 /\ Held
      BY <1>8, <2>2 DEF Handles
    <3>2. q.token \in 1..challenges
      BY <1>1, <3>1 DEF Challenged
    <3> QED
      BY <1>6, <2>1, <2>2, <3>1, <3>2 DEF Challenged
  <2>3. CASE q.at \in {"code", "burn"}
    <3>1. request[r].at \in {"verify", "code"} /\ q.token = request[r].token /\ Held
      BY <1>8, <2>3 DEF Handles
    <3>2. Guessing' \subseteq Guessing
      BY <2>1, <2>3, <3>1 DEF Guessing, Held
    <3> QED
      BY <1>6, <2>1, <2>3, <3>1, <3>2 DEF Challenged
  <2>4. CASE q.at \notin {"verify", "code", "burn"}
    <3>1. \A v \in Request : request'[v].at \in {"verify", "code", "burn"} =>
             v # r /\ request[v].at \in {"verify", "code", "burn"} /\ request'[v].token = request[v].token
      BY <2>1, <2>4
    <3>2. \A v \in Request : request'[v].at \in {"verify", "code", "burn"} => request'[v].token \in 1..challenges
      BY <3>1 DEF Challenged
    <3>3. UNCHANGED challenges => Guessing' \subseteq Guessing \ {r}
      BY <3>1 DEF Guessing
    <3>4. CASE Held \/ Dropped
      BY <1>6, <3>2, <3>3, <3>4 DEF Held, Dropped
    <3>5. CASE CreateChallenge
      <4>1. /\ challenges' = challenges + 1 /\ tried' = 0
            /\ challenge'.id = challenges + 1 /\ challenge'.attempts = 0
        BY <3>5 DEF CreateChallenge
      <4>2. \A v \in Request : request'[v].at \in {"verify", "code", "burn"} => request'[v].token \in 1..challenges'
        BY <1>1, <3>2, <4>1
      <4> QED
        BY <1>1, <1>2, <4>1, <4>2 DEF Challenged
    <3>6. CASE ConsumeChallenge(request[r].token) /\ UNCHANGED <<challenges, tried>>
      BY <1>6, <3>2, <3>3, <3>6 DEF ConsumeChallenge, Held, Dropped
    <3>7. CASE /\ request[r].at = "burn"
               /\ RegisterChallengeAttempt(request[r].token) /\ UNCHANGED challenges
               /\ tried' = (IF request[r].token = challenges THEN tried + 1 ELSE tried)
      <4> DEFINE t == request[r].token
      <4>1. t \in 1..challenges
        BY <3>7 DEF Challenged
      <4>2. CASE t # challenges
        <5>1. t # challenge.id
          BY <1>1, <4>1, <4>2 DEF Challenged
        <5>2. Held
          BY <3>7, <4>2, <5>1 DEF RegisterChallengeAttempt, Held
        <5> QED
          BY <3>4, <5>2
      <4>3. CASE t = challenges
        <5>1. r \in Guessing /\ Guessing' \subseteq Guessing \ {r} /\ tried' = tried + 1
          BY <3>3, <3>7, <4>3 DEF Guessing
        <5>2. Cardinality(Guessing') + 1 <= Cardinality(Guessing)
          BY <1>3, <5>1, OneLess
        <5>3. CASE challenge.id = 0
          <6>1. challenge' = challenge
            BY <1>1, <3>7, <4>1, <5>3 DEF RegisterChallengeAttempt
          <6>2. tried + Cardinality(Guessing) < M + n
            BY <5>3 DEF Challenged
          <6>3. tried' + Cardinality(Guessing') < M + n
            BY <1>1, <1>2, <1>4, <5>1, <5>2, <6>2
          <6> QED
            BY <3>2, <3>7, <5>3, <6>1, <6>3 DEF Challenged
        <5>4. CASE challenge.id # 0
          <6>1. challenge.id = challenges /\ tried = challenge.attempts /\ tried < M
            BY <5>4 DEF Challenged
          <6>2. CASE challenge.attempts + 1 >= M
            <7>1. challenge'.id = 0
              BY <1>5, <3>7, <4>3, <6>1, <6>2 DEF RegisterChallengeAttempt
            <7>2. tried' + Cardinality(Guessing') < M + n
              BY <1>1, <1>2, <1>4, <5>1, <5>2, <6>1
            <7> QED
              BY <3>2, <3>7, <7>1, <7>2 DEF Challenged
          <6>3. CASE ~(challenge.attempts + 1 >= M)
            <7>1. challenge'.id = challenges /\ challenge'.attempts = challenge.attempts + 1
              BY <1>1, <3>7, <4>3, <6>1, <6>3 DEF RegisterChallengeAttempt
            <7>2. tried' = challenge'.attempts /\ tried' < M
              BY <1>1, <1>2, <5>1, <6>1, <6>3, <7>1
            <7> QED
              BY <3>2, <3>7, <5>4, <6>1, <7>1, <7>2 DEF Challenged
          <6> QED
            BY <6>2, <6>3
        <5> QED
          BY <5>3, <5>4
      <4> QED
        BY <4>2, <4>3
    <3> QED
      BY <1>8, <2>4, <3>4, <3>5, <3>6, <3>7 DEF Handles
  <2> QED
    BY <2>2, <2>3, <2>4
<1> QED
  BY <1>7, <1>8, StepIsHandled

-----------------------------------------------------------------------------
(***************************************************************************)
(*                              THEOREMS                                   *)
(***************************************************************************)

\* Nobody has tried anything yet.
LEMMA InitInv == Init => SignInInv
<1> SUFFICES ASSUME Init
             PROVE  SignInInv
  OBVIOUS
<1> USE DEF Init
<1>1. Shape
  <2>1. Clean \in ThrottleRow /\ NoChallenge \in [id : Nat, attempts : Nat]
    BY DEF Clean, ThrottleRow, NoChallenge
  <2>2. user \in Account
    <3>1. CASE user = [NoUser EXCEPT !.exists = TRUE, !.active = TRUE, !.mfa = TRUE, !.last = 1]
      BY <3>1, NoUserType DEF Account
    <3>2. CASE user \in {NoUser, [NoUser EXCEPT !.exists = TRUE, !.active = TRUE, !.weak = TRUE]}
      BY <3>2, NoUserType DEF Account
    <3> QED
      BY <3>1, <3>2
  <2>3. request \in [Request -> Handled] /\ \A r \in Request : request[r].at = "idle"
    BY IdleType
  <2> QED
    BY <2>1, <2>2, <2>3 DEF Shape
<1>2. Spent
  BY DEF Spent
<1>3. Challenged
  <2>1. \A r \in Request : request[r].at = "idle"
    BY IdleType
  <2>2. Guessing = {}
    BY <2>1 DEF Guessing
  <2>3. Cardinality(Guessing) = 0 /\ Cardinality(Request) \in Nat /\ MaxCodeTries \in Nat \ {0}
    BY <2>2, FS_EmptySet, FS_CardinalityType, SignInAssumption
  <2> QED
    BY <2>1, <2>3 DEF Challenged, NoChallenge
<1>4. \A s \in Subject : ThrottleAt(s)
  BY SignInAssumption DEF ThrottleAt, Clean
<1>5. Carried
  <2>1. \A r \in Request : request[r].at = "idle" /\ request[r].crossed = {}
    BY IdleType
  <2>2. \A s \in Subject : Owing(s) = {}
    BY <2>1 DEF Owing
  <2>3. Cardinality({}) = 0
    BY FS_EmptySet
  <2> QED
    BY <2>1, <2>2, <2>3 DEF Carried, Subject
<1> QED
  BY <1>1, <1>2, <1>3, <1>4, <1>5 DEF SignInInv

\* consume_recovery_code, consume_invite: no recovery code and no invite signs in twice,
\* whatever requests race for it.
THEOREM SecretsUsedOnce == Spec => []UsedOnce
<1>1. Shape /\ Spent /\ [Next]_vars => (Shape /\ Spent)'
  BY ShapeStep, SpentStep
<1>2. Init => Shape /\ Spent
  BY InitInv DEF SignInInv
<1>3. Shape /\ Spent => UsedOnce
  BY DEF Shape, Spent, UsedOnce
<1> QED
  BY <1>1, <1>2, <1>3, PTL DEF Spec

\* The invariant behind throttling: with a lockout no shorter than the window, a locked
\* subject is failed against only by the requests that were under way.
THEOREM SignInInvariant ==
    ASSUME LockNoShorter
    PROVE  Spec => []SignInInv
<1>1. SignInInv /\ [Next]_vars => SignInInv'
  BY ShapeStep, SpentStep, ChallengedStep, CarriedStep, ThrottleStep DEF SignInInv
<1> QED
  BY <1>1, InitInv, PTL DEF Spec

\* register_failure and login: every lockout of an account or of a source is named by exactly
\* one audit row auth.lockout or is about to be, also when several requests fail at the same
\* moment, and however often a subject is locked, cleared and locked again.
THEOREM LockoutsReportedOnce ==
    ASSUME LockNoShorter
    PROVE  Spec => []LockoutReportedOnce
<1>1. SignInInv => LockoutReportedOnce
  BY DEF SignInInv, Carried, Owing, LockoutReportedOnce, Reported
<1> QED
  BY <1>1, SignInInvariant, PTL

\* A subject admits fewer wrong guesses than its threshold plus the requests in flight, and
\* a challenge fewer wrong codes than its cap plus them.
THEOREM GuessesAreBounded ==
    ASSUME LockNoShorter
    PROVE  Spec => []GuessesBounded
<1>1. ASSUME SignInInv
      PROVE  GuessesBounded
  <2>1. Shape /\ Challenged /\ \A s \in Subject : ThrottleAt(s)
    BY <1>1 DEF SignInInv
  <2>2. Cardinality(Request) \in Nat /\ MaxCodeTries \in Nat /\ tried \in Nat
    BY <2>1, SignInAssumption, FS_CardinalityType DEF Shape
  <2>3. ASSUME NEW s \in Subject
        PROVE  failed[s] < Bound(s)
    <3>1. /\ throttle[s].count \in Nat /\ throttle[s].lock \in {"none", "on", "over"}
          /\ Threshold[s] \in Nat
      BY <2>1, SignInAssumption DEF Shape, ThrottleRow
    <3>2. Cardinality(In(s)) \in Nat
      BY Fewer DEF In
    <3> QED
      BY <2>1, <2>2, <3>1, <3>2 DEF ThrottleAt, Bound
  <2>4. tried < MaxCodeTries + Cardinality(Request)
    <3>1. Cardinality(Guessing) \in Nat
      BY Fewer DEF Guessing
    <3> QED
      BY <2>1, <2>2, <3>1 DEF Challenged
  <2> QED
    BY <2>3, <2>4 DEF GuessesBounded
<1> QED
  BY <1>1, SignInInvariant, PTL

=============================================================================
