------------------------------- MODULE SignIn -------------------------------
(***************************************************************************)
(* Sign-in of one local-password account: throttling of failed attempts,   *)
(* the password step, the second factor and its recovery codes, invites,   *)
(* password changes and resets (api/auth.py, services/auth.py, totp.py,    *)
(* storage/login_attempts.py, storage/mfa.py, storage/notifications.py).   *)
(*                                                                         *)
(* These handlers are not @atomic: each storage call is a transaction of   *)
(* its own, and requests of the same account interleave between them.  One *)
(* step may join a call with the next when nothing of the model can tell:  *)
(* resolving the session and the handler's first call, peek_invite and the *)
(* user's row, the reads of mfa_setup and change_password and what they    *)
(* decide, the challenge or the old sessions going and the new session.    *)
(* Time is abstract: a throttling window or a lockout ends by an action.   *)
(***************************************************************************)
EXTENDS Integers, FiniteSets

CONSTANTS
    Request,         \* requests in flight at a time
    Password,        \* passwords somebody may present
    Recovery,        \* recovery codes that can be generated, each once
    Wrong,           \* a code that is neither
    Threshold,       \* Threshold[s]: failures of a subject before it is locked
    MaxCodeTries,    \* MFA_CHALLENGE_MAX_ATTEMPTS
    LockNoShorter,   \* the lockout lasts at least as long as the window (default)
    MaxClock,        \* bound: time steps of the authenticator
    MaxChallenges,   \* bound: challenges issued
    MaxRequests,       \* bound: requests made
    MaxTicks         \* bound: ends of windows, locks, sessions, changes of status

Subject == {"account", "source", "mfa-disable"}
Bound(s) == Threshold[s] + Cardinality(Request)

ASSUME SignInAssumption ==
    /\ IsFiniteSet(Request) /\ Password # {} /\ "invite" \notin Recovery
    \* at 1 the first failure would insert a row that is not locked
    /\ \A s \in Subject : Threshold[s] \in Nat \ {0, 1}
    /\ Threshold["mfa-disable"] = Threshold["account"]
    /\ MaxCodeTries \in Nat \ {0} /\ LockNoShorter \in BOOLEAN
    /\ {MaxClock, MaxChallenges, MaxRequests, MaxTicks} \subseteq Nat

VARIABLES
    throttle,    \* login_throttle, one row per subject
    user,        \* the account's row in platform_users
    codes,       \* its recovery codes not used yet
    challenge,   \* its row in mfa_challenges: a number, 0 if none, and its attempts
    invite,      \* its invite: none, open or used
    live,        \* it has a session
    request,     \* request[r]: the handler a request runs, what it has read so far
    clock,       \* the authenticator's current time step
    issued,      \* recovery codes generated so far
    challenges, started, ticks,
    failed,      \* failed[s]: wrong guesses since the subject's count last started
    owed,        \* owed[s]: lockouts of the subject begun, less those in an audit row auth.lockout
    tried,       \* wrong codes tried on the challenge in force
    uses         \* uses[c]: sign-ins by a recovery code or by the invite

vars == <<throttle, user, codes, challenge, invite, live, request, clock, issued,
          challenges, started, ticks, failed, owed, tried, uses>>

NoCounter == 0
Counter == 1..MaxClock + 1
Code == Recovery \cup Counter \cup {Wrong}
Step == {"idle", "load", "fail", "failSource", "report", "clear", "rehash", "finish", "verify",
         "code", "burn", "redeemed", "invite", "setPassword", "endSessions", "proving", "prove",
         "disable", "refused", "activate", "enable", "counted", "mfaCleared"}

TypeOK ==
    /\ throttle \in [Subject -> [count : Nat, old : BOOLEAN, lock : {"none", "on", "over"}]]
    /\ user \in [exists : BOOLEAN, active : BOOLEAN, password : Password, weak : BOOLEAN, temporary : BOOLEAN,
                 mfa : BOOLEAN, pending : BOOLEAN, last : {NoCounter} \cup Counter]
    /\ user.active => user.exists
    /\ codes \subseteq issued /\ issued \subseteq Recovery
    /\ challenge \in [id : 0..MaxChallenges, attempts : 0..MaxCodeTries]
    /\ invite \in {"none", "open", "used"}
    /\ live \in BOOLEAN
    /\ request \in [Request -> [at : Step, password : Password, code : Code,
                                mfa : BOOLEAN, weak : BOOLEAN, token : 0..MaxChallenges,
                                last : {NoCounter} \cup Counter, crossed : SUBSET Subject]]
    /\ owed \in [Subject -> Int]
    /\ clock \in 0..MaxClock
    \* a lock in force was earned, and a second factor in force was proved
    /\ \A s \in Subject : throttle[s].lock = "on" => throttle[s].count >= Threshold[s]
    /\ user.mfa => user.last # NoCounter \/ \E r \in Request : request[r].at = "enable"

Clean == [count |-> 0, old |-> FALSE, lock |-> "none"]
Idle == [at |-> "idle", password |-> CHOOSE p \in Password : TRUE, code |-> Wrong,
         mfa |-> FALSE, weak |-> FALSE, token |-> 0, last |-> NoCounter, crossed |-> {}]

NoChallenge == [id |-> 0, attempts |-> 0]

NoUser == [exists |-> FALSE, active |-> FALSE, password |-> CHOOSE p \in Password : TRUE,
           weak |-> FALSE, temporary |-> FALSE, mfa |-> FALSE, pending |-> FALSE,
           last |-> NoCounter]

\* The account is still to be created, or it is an old one hashed with the parameters of
\* its time, or one that enrolled a second factor and has no recovery code left.
Init ==
    /\ throttle = [s \in Subject |-> Clean]
    /\ user \in {NoUser, [NoUser EXCEPT !.exists = TRUE, !.active = TRUE, !.weak = TRUE],
                 [NoUser EXCEPT !.exists = TRUE, !.active = TRUE, !.mfa = TRUE, !.last = 1]}
    /\ codes = {} /\ issued = {} /\ challenge = NoChallenge
    /\ invite = "none" /\ live = FALSE
    /\ request = [r \in Request |-> Idle]
    /\ clock = 0 /\ challenges = 0 /\ started = 0 /\ ticks = 0
    /\ failed = [s \in Subject |-> 0] /\ owed = [s \in Subject |-> 0]
    /\ tried = 0 /\ uses = [c \in Recovery \cup {"invite"} |-> 0]

-----------------------------------------------------------------------------
(* storage/login_attempts.py *)

IsLocked(s) == throttle[s].lock = "on"

\* register_failure, one transaction: an expired, unlocked window starts over, then
\* the count goes up; at the threshold and beyond the lock is set.
WindowReset(row) ==
    IF row.count > 0 /\ row.old /\ row.lock # "on" THEN Clean ELSE row

Counted(row, s) ==
    [row EXCEPT !.count = @ + 1, !.lock = IF row.count + 1 >= Threshold[s] THEN "on" ELSE @]

\* A mutation: the crossing test of register_failure off by one
CrossedEarly(row, s) == row.lock # "none" /\ row.count = Threshold[s] + 1

\* register_failure's answer: this failure crossed the threshold
Crossed(row, s) == row.lock # "none" /\ row.count = Threshold[s]

\* Did the failure that left this row cross the threshold?  In the primed state.
NewlyLocked(s) == IF Crossed(throttle'[s], s) THEN {s} ELSE {}

RegisterFailure(s) ==
    LET row == WindowReset(throttle[s])
        next == Counted(row, s)
    IN  /\ throttle' = [throttle EXCEPT ![s] = next]
        /\ failed' = [failed EXCEPT ![s] = (IF row = throttle[s] THEN @ ELSE 0) + 1]
        /\ owed' = IF next.lock = "on" /\ ~ IsLocked(s)
                    THEN [owed EXCEPT ![s] = @ + 1] ELSE owed

\* clear_attempts
ClearAttempts(s) ==
    /\ throttle' = [throttle EXCEPT ![s] = Clean]
    /\ failed' = [failed EXCEPT ![s] = 0]
    /\ UNCHANGED owed

\* Time passes: the first failure leaves the window; the lockout ends.
WindowPasses(s) ==
    /\ ticks < MaxTicks /\ ticks' = ticks + 1
    /\ throttle[s].count > 0 /\ ~ throttle[s].old
    /\ throttle' = [throttle EXCEPT ![s].old = TRUE]
    /\ UNCHANGED <<user, codes, challenge, invite, live, request, clock, issued, challenges,
                   started, failed, owed, tried, uses>>

LockPasses(s) ==
    /\ ticks < MaxTicks /\ ticks' = ticks + 1
    /\ IsLocked(s)
    /\ throttle' = [throttle EXCEPT ![s].lock = "over", ![s].old = LockNoShorter \/ @]
    /\ UNCHANGED <<user, codes, challenge, invite, live, request, clock, issued, challenges,
                   started, failed, owed, tried, uses>>

-----------------------------------------------------------------------------
(* POST /api/auth/login *)

At(r, step) == request[r].at = step
Starts(r) == At(r, "idle") /\ started < MaxRequests /\ started' = started + 1
Goes(r, step) == request' = [request EXCEPT ![r].at = step]
Ends(r) == request' = [request EXCEPT ![r] = Idle]
\* what the request read so far is not looked at again
Only(r, step) == request' = [request EXCEPT ![r] = [Idle EXCEPT !.at = step]]

\* A mutation: the throttle looks at the account only
LoginUnthrottled(r, p) ==
    /\ Starts(r) /\ ~ IsLocked("source")
    /\ request' = [request EXCEPT ![r] = [Idle EXCEPT !.at = "load", !.password = p]]
    /\ UNCHANGED <<throttle, user, codes, challenge, invite, live, clock, issued, challenges,
                   ticks, failed, owed, tried, uses>>

Login(r, p) ==
    /\ Starts(r) /\ ~ IsLocked("account") /\ ~ IsLocked("source")
    /\ request' = [request EXCEPT ![r] = [Idle EXCEPT !.at = "load", !.password = p]]
    /\ UNCHANGED <<throttle, user, codes, challenge, invite, live, clock, issued, challenges,
                   ticks, failed, owed, tried, uses>>

VerifyPassword(p) == user.exists /\ p = user.password

\* The stored hash was made with weaker parameters than today's.
NeedsRehash == user.weak

\* The account as get_user_by_email finds it; an unknown or inactive one fails like a
\* wrong password.
LoginLoad(r) ==
    /\ At(r, "load")
    /\ \/ /\ user.active /\ VerifyPassword(request[r].password)
          /\ request' = [request EXCEPT ![r].at = "clear", ![r].mfa = user.mfa,
                                        ![r].weak = NeedsRehash]
       \/ /\ ~ (user.active /\ VerifyPassword(request[r].password))
          /\ Only(r, "fail")
    /\ UNCHANGED <<throttle, user, codes, challenge, invite, live, clock, issued, challenges,
                   started, ticks, failed, owed, tried, uses>>

LoginFails(r) ==
    /\ \/ /\ At(r, "fail") /\ RegisterFailure("account")
          /\ request' = [request EXCEPT ![r].at = "failSource", ![r].crossed = NewlyLocked("account")]
       \/ /\ At(r, "failSource") /\ RegisterFailure("source")
          /\ LET newlyLocked == request[r].crossed \cup NewlyLocked("source")
             IN  request' = [request EXCEPT ![r] =
                    IF newlyLocked = {} THEN Idle
                    ELSE [Idle EXCEPT !.at = "report", !.crossed = newlyLocked]]
    /\ UNCHANGED <<user, codes, challenge, invite, live, clock, issued, challenges, started, ticks,
                   tried, uses>>

\* The audit row auth.lockout, after auth.login_failed: one for all the subjects this
\* request locked.
LoginReports(r) ==
    /\ At(r, "report") /\ Ends(r)
    /\ owed' = [s \in Subject |-> IF s \in request[r].crossed THEN owed[s] - 1 ELSE owed[s]]
    /\ UNCHANGED <<throttle, user, codes, challenge, invite, live, clock, issued, challenges,
                   started, ticks, failed, tried, uses>>

LoginClears(r) ==
    /\ At(r, "clear") /\ ClearAttempts("account")
    /\ request' = [request EXCEPT ![r] = IF @.weak THEN [@ EXCEPT !.at = "rehash"]
                       ELSE [Idle EXCEPT !.at = "finish", !.mfa = request[r].mfa]]
    /\ UNCHANGED <<user, codes, challenge, invite, live, clock, issued, challenges, started, ticks,
                   tried, uses>>

\* The password this request verified is stored, whatever is there by now.
UpgradePasswordHash(p) == user' = [user EXCEPT !.password = p, !.weak = FALSE]

LoginRehashes(r) ==
    /\ At(r, "rehash") /\ UpgradePasswordHash(request[r].password)
    /\ request' = [request EXCEPT ![r] = [Idle EXCEPT !.at = "finish", !.mfa = request[r].mfa]]
    /\ UNCHANGED <<throttle, codes, challenge, invite, live, clock, issued, challenges, started, ticks,
                   failed, owed, tried, uses>>

\* A new challenge supersedes one that was never redeemed.
CreateChallenge ==
    /\ challenges < MaxChallenges /\ challenges' = challenges + 1
    /\ challenge' = [id |-> challenges + 1, attempts |-> 0]
    /\ tried' = 0

CreateSession == live' = TRUE

\* A challenge on an enrolled account, a session on any other.
LoginFinishes(r) ==
    /\ At(r, "finish") /\ Ends(r)
    /\ \/ request[r].mfa /\ CreateChallenge /\ UNCHANGED live
       \/ /\ ~ request[r].mfa /\ CreateSession /\ UNCHANGED <<challenges, challenge, tried>>
    /\ UNCHANGED <<throttle, user, codes, invite, clock, issued, started, ticks, failed, owed, uses>>

-----------------------------------------------------------------------------
(* POST /api/auth/mfa/verify *)

\* load_challenge
VerifyLoad(r, c) ==
    /\ Starts(r) /\ challenge.id # 0
    /\ request' = [request EXCEPT ![r] = [Idle EXCEPT !.at = "verify", !.code = c,
                                                      !.token = challenge.id]]
    /\ UNCHANGED <<throttle, user, codes, challenge, invite, live, clock, issued, challenges, ticks,
                   failed, owed, tried, uses>>

\* verify_code: a step of the drift window newer than the last one used, as read
VerifyCode(c, last) == c \in Counter /\ c \in {clock, clock + 1, clock + 2} /\ c > last

\* consume_recovery_code, one guarded update
ConsumeRecoveryCode(c) == c \in codes /\ codes' = codes \ {c}

\* A time step only ever moves forward.
RecordUsedCounter(c) == user' = [user EXCEPT !.last = IF c > @ THEN c ELSE @]

\* The code is accepted: it is burnt, or its time step recorded.
VerifyAccepts(r) ==
    /\ At(r, "code")
    /\ request' = [request EXCEPT ![r] = [Idle EXCEPT !.at = "redeemed", !.token = request[r].token]]
    /\ LET c == request[r].code IN
        \/ /\ ConsumeRecoveryCode(c)
           /\ uses' = [uses EXCEPT ![c] = @ + 1] /\ UNCHANGED user
        \/ /\ request[r].mfa /\ VerifyCode(c, request[r].last)
           /\ RecordUsedCounter(c) /\ UNCHANGED <<codes, uses>>
    /\ UNCHANGED <<throttle, challenge, invite, live, clock, issued, challenges, started, ticks, failed,
                   owed, tried>>

ConsumeChallenge(token) ==
    challenge' = IF challenge.id = token THEN NoChallenge ELSE challenge

\* load_platform_user; the challenge of an inactive account is consumed
VerifyUser(r) ==
    /\ At(r, "verify")
    /\ \/ /\ user.active
          /\ request' = [request EXCEPT ![r].at = "code", ![r].mfa = user.mfa, ![r].last = user.last]
          /\ UNCHANGED challenge
       \/ /\ ~ user.active /\ ConsumeChallenge(request[r].token) /\ Ends(r)
    /\ UNCHANGED <<throttle, user, codes, invite, live, clock, issued, challenges, started, ticks,
                   failed, owed, tried, uses>>

VerifyFinishes(r) ==
    /\ At(r, "redeemed") /\ Ends(r)
    /\ ConsumeChallenge(request[r].token)
    /\ CreateSession
    /\ UNCHANGED <<throttle, user, codes, invite, clock, issued, challenges, started, ticks, failed,
                   owed, tried, uses>>

VerifyRefuses(r) ==
    /\ At(r, "code")
    /\ request' = [request EXCEPT ![r] = [Idle EXCEPT !.at = "burn", !.token = request[r].token]]
    /\ request[r].code \notin codes
    /\ ~ (request[r].mfa /\ VerifyCode(request[r].code, request[r].last))
    /\ UNCHANGED <<throttle, user, codes, challenge, invite, live, clock, issued, challenges,
                   started, ticks, failed, owed, tried, uses>>

\* The challenge is deleted at the cap.
RegisterChallengeAttempt(token) ==
    LET attempts == challenge.attempts + 1
    IN  challenge' = IF challenge.id # token THEN challenge
                     ELSE IF attempts >= MaxCodeTries THEN NoChallenge
                     ELSE [challenge EXCEPT !.attempts = attempts]

VerifyBurns(r) ==
    /\ At(r, "burn") /\ Ends(r)
    /\ RegisterChallengeAttempt(request[r].token)
    /\ tried' = IF request[r].token = challenges THEN tried + 1 ELSE tried
    /\ UNCHANGED <<throttle, user, codes, invite, live, clock, issued, challenges, started, ticks,
                   failed, owed, uses>>

-----------------------------------------------------------------------------
(* Enrolment, by a request with a session *)

\* current_actor: a live session of an active account.  No route of this module is
\* behind the enrolment wall; a suspended organization is left out.
CurrentActor == live /\ user.active

SetPendingSecret == user' = [user EXCEPT !.pending = TRUE]

MfaSetup ==
    /\ CurrentActor /\ ~ user.mfa
    /\ SetPendingSecret
    /\ UNCHANGED <<throttle, codes, challenge, invite, live, request, clock, issued, challenges,
                   started, ticks, failed, owed, tried, uses>>

\* Only where a secret is still staged; which one is not told apart.
ActivateMfa ==
    user' = IF user.pending THEN [user EXCEPT !.mfa = TRUE, !.pending = FALSE, !.last = NoCounter]
            ELSE user

\* All earlier codes go, used or not.
ReplaceRecoveryCodes ==
    \E c \in Recovery \ issued : issued' = issued \cup {c} /\ codes' = {c}

\* The staged secret as loaded, and a code of it
MfaEnable(r, c) ==
    /\ Starts(r) /\ CurrentActor /\ user.pending /\ VerifyCode(c, NoCounter)
    /\ issued # Recovery
    /\ request' = [request EXCEPT ![r] = [Idle EXCEPT !.at = "activate", !.code = c]]
    /\ UNCHANGED <<throttle, user, codes, challenge, invite, live, clock, issued, challenges, ticks,
                   failed, owed, tried, uses>>

MfaEnabled(r) ==
    \/ /\ \/ At(r, "activate") /\ Goes(r, "enable") /\ ActivateMfa
          \/ At(r, "enable") /\ Only(r, "counted") /\ RecordUsedCounter(request[r].code)
       /\ UNCHANGED <<throttle, codes, challenge, invite, live, clock, issued, challenges,
                      started, ticks, failed, owed, tried, uses>>
    \/ /\ At(r, "counted") /\ Ends(r)
       /\ ReplaceRecoveryCodes
       /\ UNCHANGED <<throttle, user, challenge, invite, live, clock, challenges, started, ticks, failed,
                      owed, tried, uses>>

\* mfa_disable: throttled like login, both factors
MfaDisable(r, p, c) ==
    /\ Starts(r) /\ CurrentActor /\ ~ IsLocked("mfa-disable")
    /\ request' = [request EXCEPT ![r] = [Idle EXCEPT !.at = "proving", !.password = p, !.code = c]]
    /\ UNCHANGED <<throttle, user, codes, challenge, invite, live, clock, issued, challenges, ticks,
                   failed, owed, tried, uses>>

\* load_platform_user and the password
MfaDisableLoad(r) ==
    /\ At(r, "proving")
    /\ \/ /\ VerifyPassword(request[r].password)
          /\ request' = [request EXCEPT ![r] = [Idle EXCEPT !.at = "prove", !.code = request[r].code,
                                                   !.mfa = user.mfa, !.last = user.last]]
       \/ ~ VerifyPassword(request[r].password) /\ Only(r, "refused")
    /\ UNCHANGED <<throttle, user, codes, challenge, invite, live, clock, issued, challenges,
                   started, ticks, failed, owed, tried, uses>>

\* The second factor; a time step is not recorded as used here.
MfaProves(r) ==
    /\ At(r, "prove")
    /\ LET c == request[r].code
           timed == request[r].mfa /\ VerifyCode(c, request[r].last)
       IN  \/ ConsumeRecoveryCode(c) /\ uses' = [uses EXCEPT ![c] = @ + 1] /\ Only(r, "disable")
           \/ timed /\ Only(r, "disable") /\ UNCHANGED <<codes, uses>>
           \/ c \notin codes /\ ~ timed /\ Only(r, "refused") /\ UNCHANGED <<codes, uses>>
    /\ UNCHANGED <<throttle, user, challenge, invite, live, clock, issued, challenges, started,
                   ticks, failed, owed, tried>>

ClearMfa ==
    /\ user' = [user EXCEPT !.mfa = FALSE, !.pending = FALSE, !.last = NoCounter]
    /\ codes' = {} /\ challenge' = NoChallenge

\* register_failure's answer is thrown away here.
MfaDisableEnds(r) ==
    \/ /\ At(r, "refused") /\ RegisterFailure("mfa-disable") /\ Ends(r)
       /\ UNCHANGED <<user, codes, challenge, invite, live, clock, issued, challenges, started, ticks,
                      tried, uses>>
    \/ /\ At(r, "disable") /\ ClearAttempts("mfa-disable") /\ Goes(r, "mfaCleared")
       /\ UNCHANGED <<user, codes, challenge, invite, live, clock, issued, challenges, started, ticks,
                      tried, uses>>
    \/ /\ At(r, "mfaCleared") /\ Ends(r)
       /\ ClearMfa
       /\ UNCHANGED <<throttle, invite, live, clock, issued, challenges, started, ticks, failed,
                      owed, tried, uses>>

-----------------------------------------------------------------------------
(* Accounts, passwords and invites *)

\* create_invite withdraws an invite nobody has used.
InviteCreated == invite' = "open"

UserCreated(active, p) ==
    user' = [NoUser EXCEPT !.exists = TRUE, !.active = active, !.password = p,
                           !.temporary = TRUE]

\* create_org_user, @atomic: an address that is not taken, a temporary password and an
\* invite by which the user chooses another.
CreateOrgUser(active, p) ==
    /\ started < MaxRequests /\ started' = started + 1
    /\ ~ user.exists
    /\ UserCreated(active, p)
    /\ InviteCreated
    /\ UNCHANGED <<throttle, codes, challenge, live, request, clock, issued, challenges,
                   ticks, failed, owed, tried, uses>>

\* A mutation: the invite is marked used whether it is open or not
ConsumeInviteAnyway(i) == i \in {"open", "used"}

\* consume_invite: UPDATE ... WHERE used_at IS NULL
ConsumeInvite(i) == i = "open"

\* accept_invite: peek_invite and load_platform_user, then consume_invite
AcceptInvite(r) ==
    \/ /\ Starts(r) /\ invite = "open" /\ user.active
       /\ \E p \in Password :
            request' = [request EXCEPT ![r] = [Idle EXCEPT !.at = "invite", !.password = p]]
       /\ UNCHANGED <<throttle, user, codes, challenge, invite, live, clock, issued, challenges,
                      ticks, failed, owed, tried, uses>>
    \/ /\ At(r, "invite")
       /\ IF ConsumeInvite(invite)
          THEN /\ invite' = "used" /\ Goes(r, "setPassword")
               /\ uses' = [uses EXCEPT !["invite"] = @ + 1]
          ELSE Ends(r) /\ UNCHANGED <<invite, uses>>
       /\ UNCHANGED <<throttle, user, codes, challenge, live, clock, issued, challenges, started, ticks,
                      failed, owed, tried>>

\* change_password, up to set_user_password
ChangePassword(r, old, new) ==
    /\ Starts(r) /\ CurrentActor
    /\ VerifyPassword(old) /\ new # old
    /\ request' = [request EXCEPT ![r] = [Idle EXCEPT !.at = "setPassword", !.password = new]]
    /\ UNCHANGED <<throttle, user, codes, challenge, invite, live, clock, issued, challenges,
                   ticks, failed, owed, tried, uses>>

SetUserPassword(p) ==
    user' = [user EXCEPT !.password = p, !.temporary = FALSE, !.weak = FALSE]

\* set_user_password, then end_all_sessions and create_session
PasswordChosen(r) ==
    \/ /\ At(r, "setPassword") /\ SetUserPassword(request[r].password)
       /\ Only(r, "endSessions")
       /\ UNCHANGED <<throttle, codes, challenge, invite, live, clock, issued, challenges,
                      started, ticks, failed, owed, tried, uses>>
    \/ /\ At(r, "endSessions") /\ CreateSession /\ Ends(r)
       /\ UNCHANGED <<throttle, user, codes, challenge, invite, clock, issued, challenges,
                      started, ticks, failed, owed, tried, uses>>

EndAllSessions == live' = FALSE

ResetUserPassword(p) ==
    user' = [user EXCEPT !.password = p, !.temporary = TRUE, !.weak = FALSE]

\* An administrator's reset, @atomic, of a user of the organization.  The platform
\* operator's, reset_account_password, differs in whom it notifies.
ResetOrgUserPassword(p) ==
    /\ started < MaxRequests /\ started' = started + 1
    /\ user.exists
    /\ ResetUserPassword(p)
    /\ EndAllSessions
    /\ UNCHANGED <<throttle, codes, challenge, invite, request, clock, issued, challenges, ticks,
                   failed, owed, tried, uses>>

\* @atomic: the second factor of a user who has lost it.
ResetOrgUserMfa ==
    /\ started < MaxRequests /\ started' = started + 1
    /\ user.exists
    /\ ClearMfa
    /\ EndAllSessions
    /\ UNCHANGED <<throttle, invite, request, clock, issued, challenges, ticks, failed,
                   owed, tried, uses>>

\* logout ends this session and resolve_session one that was idle too long; the
\* account's other sessions may remain.
SessionEnds ==
    /\ ticks < MaxTicks /\ ticks' = ticks + 1
    /\ live /\ live' = FALSE
    /\ UNCHANGED <<throttle, user, codes, challenge, invite, request, clock, issued, challenges,
                   started, failed, owed, tried, uses>>

\* Sessions stay: they resolve to an inactive user.
UpdateAccountStatus ==
    /\ ticks < MaxTicks /\ ticks' = ticks + 1
    /\ user.exists /\ user' = [user EXCEPT !.active = ~ @]
    /\ UNCHANGED <<throttle, codes, challenge, invite, live, request, clock, issued, challenges,
                   started, failed, owed, tried, uses>>

\* A challenge or an invite expires; the authenticator moves on.
Expires ==
    /\ ticks < MaxTicks /\ ticks' = ticks + 1
    /\ \/ /\ challenge.id # 0 /\ challenge' = NoChallenge /\ UNCHANGED <<invite, clock>>
       \/ /\ invite = "open" /\ invite' = "none" /\ UNCHANGED <<challenge, clock>>
       \/ /\ clock < MaxClock /\ clock' = clock + 1 /\ UNCHANGED <<challenge, invite>>
    /\ UNCHANGED <<throttle, user, codes, live, request, issued, challenges, started, failed,
                   owed, tried, uses>>

Next ==
    \/ \E s \in Subject : WindowPasses(s) \/ LockPasses(s)
    \/ \E r \in Request, p \in Password : Login(r, p)
    \/ \E r \in Request : LoginLoad(r) \/ LoginFails(r) \/ LoginReports(r) \/ LoginClears(r)
                          \/ LoginRehashes(r) \/ LoginFinishes(r)
    \/ \E r \in Request, c \in Code : VerifyLoad(r, c)
    \/ \E r \in Request : VerifyUser(r) \/ VerifyAccepts(r) \/ VerifyFinishes(r) \/ VerifyRefuses(r)
                          \/ VerifyBurns(r)
    \/ MfaSetup
    \/ \E r \in Request, c \in Counter : MfaEnable(r, c)
    \/ \E r \in Request : MfaEnabled(r) \/ MfaDisableLoad(r) \/ MfaProves(r) \/ MfaDisableEnds(r)
    \/ \E r \in Request, p \in Password, c \in Code : MfaDisable(r, p, c)
    \/ \E r \in Request : AcceptInvite(r) \/ PasswordChosen(r)
    \/ \E r \in Request, old, new \in Password : ChangePassword(r, old, new)
    \/ \E p \in Password : ResetOrgUserPassword(p) \/ \E b \in BOOLEAN : CreateOrgUser(b, p)
    \/ ResetOrgUserMfa \/ SessionEnds \/ UpdateAccountStatus \/ Expires

Spec == Init /\ [][Next]_vars

-----------------------------------------------------------------------------
\* The lock is looked at before a guess and set after it, with other requests in
\* between: a subject still admits fewer than its threshold of wrong guesses plus the
\* requests in flight, and a challenge fewer than its cap of wrong codes plus them.
GuessesBounded ==
    /\ \A s \in Subject : failed[s] < Bound(s)
    /\ tried < MaxCodeTries + Cardinality(Request)

\* The lockouts of a subject that no audit row names yet are those of the requests about to
\* write one: none goes unreported and none is reported twice.
Reported(s) == owed[s] = Cardinality({r \in Request : s \in request[r].crossed})

\* register_failure: "so the caller can record the lockout as a security event exactly
\* once", also when several requests fail at the same moment.  For what login throttles.
LockoutReportedOnce == Reported("account") /\ Reported("source")

\* The same for every subject.  Not so for mfa_disable, which throws register_failure's
\* answer away: its lockouts leave no row auth.lockout.
EveryLockoutReported == \A s \in Subject : Reported(s)

\* A recovery code and an invite are single-use, whatever requests race for them
\* (consume_recovery_code: "the guarded update makes reuse racing-safe"; consume_invite).
UsedOnce == \A c \in DOMAIN uses : uses[c] <= 1
=============================================================================
