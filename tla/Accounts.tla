------------------------------ MODULE Accounts ------------------------------
(***************************************************************************)
(* One user's account: signup, login with its lockout, refresh tokens,     *)
(* logout, OTP challenges, and the suspension by an admin.  No route runs  *)
(* in a transaction: each reads a row, decides on what it read, and writes *)
(* by id later, so requests on one account interleave between the two.     *)
(*                                                                         *)
(* A password or a code is right or wrong.  A refresh token is a number,   *)
(* fresh each time.  Time is an action that ends what it limits: a lock,   *)
(* a challenge, a session.                                                 *)
(***************************************************************************)
EXTENDS Integers, FiniteSets

CONSTANTS
    Handlers,    \* concurrent requests on the account
    Sessions,    \* logins
    Challenges,  \* the OTP challenges
    Purpose,     \* of a challenge, "LOGIN" for one that names no user
    LockAt,      \* wrong passwords in a row that lock: 5 in the code
    OtpMax,      \* OTP_MAX_ATTEMPTS
    MaxTokens    \* bound on the refresh tokens made

ASSUME ConstantsAssumption ==
    /\ IsFiniteSet(Handlers)
    /\ Purpose \in [Challenges -> {"EMAIL_VERIFY", "PHONE_VERIFY", "LOGIN"}]
    /\ \A c, d \in Challenges :
          Purpose[c] = "EMAIL_VERIFY" /\ Purpose[d] = "EMAIL_VERIFY" => c = d
    /\ LockAt \in Nat \ {0, 1}
    /\ OtpMax \in Nat \ {0}
    /\ MaxTokens \in Nat

VARIABLES
    status,     \* User.status
    failed,     \* User.failedLoginCount; LockAt stands for LockAt or more
    locked,     \* User.lockedUntil is in the future
    session,    \* Session rows: refresh token and state; token 0: no row
    minted,     \* the number of refresh tokens made
    challenge,  \* OtpChallenge rows
    handler,
    tries,      \* wrong passwords answered on an open account since the last
                \* successful login or end of a lock
    late,       \* per session: rotations after its logout
    uses,       \* per refresh token: rotations it was good for
    guesses,    \* per challenge: wrong codes answered
    sealed      \* a user who was ACTIVE was suspended, with no e-mail code
                \* in flight

userVars    == <<status, failed, locked>>
sessionVars == <<session, minted>>
vars == <<status, failed, locked, session, minted, challenge, handler,
          tries, late, uses, guesses, sealed>>

Tokens == 1..MaxTokens

\* What a request holds between its read and its write.
Idle == [pc |-> "idle"]
LoggingIn ==
    [pc |-> "login", failed |-> failed, locked |-> locked,
     suspended |-> status = "SUSPENDED"]
InSession      == [pc |-> "session"]
Refreshing(s)  == [pc |-> "refresh", session |-> s, token |-> session[s].token]
Guessing(c)    == [pc |-> "guess", challenge |-> c]
Verified(c)    == [pc |-> "verified", challenge |-> c]

HandlerType ==
    {Idle, InSession} \cup
    [pc : {"login"}, failed : 0..LockAt, locked : BOOLEAN, suspended : BOOLEAN] \cup
    [pc : {"refresh"}, session : Sessions, token : Tokens] \cup
    [pc : {"guess", "verified"}, challenge : Challenges]

TypeOK ==
    /\ status \in {"NONE", "PENDING", "ACTIVE", "SUSPENDED"}
    /\ failed \in 0..LockAt
    /\ locked \in BOOLEAN
    /\ session \in [Sessions -> [token : 0..MaxTokens,
                                 state : {"NONE", "LIVE", "EXPIRED", "REVOKED"}]]
    /\ \A s, t \in Sessions :
          s # t /\ session[s].token = session[t].token => session[s].token = 0
    /\ minted \in 0..MaxTokens
    /\ challenge \in [Challenges -> [attempts : Nat,
                                     state : {"NONE", "OPEN", "CONSUMED", "EXPIRED"}]]
    /\ handler \in [Handlers -> HandlerType]
    /\ tries \in Nat
    /\ late \in [Sessions -> Nat]
    /\ uses \in [Tokens -> Nat]
    /\ guesses \in [Challenges -> Nat]
    /\ sealed \in BOOLEAN

Init ==
    /\ status = "NONE"
    /\ failed = 0
    /\ locked = FALSE
    /\ session = [s \in Sessions |-> [token |-> 0, state |-> "NONE"]]
    /\ minted = 0
    /\ challenge = [c \in Challenges |-> [attempts |-> 0, state |-> "NONE"]]
    /\ handler = [h \in Handlers |-> Idle]
    /\ tries = 0
    /\ late = [s \in Sessions |-> 0]
    /\ uses = [t \in Tokens |-> 0]
    /\ guesses = [c \in Challenges |-> 0]
    /\ sealed = FALSE

Becomes(h, state) == handler' = [handler EXCEPT ![h] = state]

-----------------------------------------------------------------------------
\* The user row and its challenges in one transaction.
SignUp ==
    /\ status = "NONE"
    /\ status' = "PENDING"
    /\ challenge' = [c \in Challenges |-> [challenge[c] EXCEPT !.state = "OPEN"]]
    /\ UNCHANGED <<failed, locked, sessionVars, handler, tries, late, uses,
                   guesses, sealed>>

(***************************************************************************)
(* Login: the row is read, the password verified (slowly), and the outcome *)
(* written.                                                                *)
(***************************************************************************)
Login(h) ==
    /\ handler[h] = Idle
    /\ status # "NONE"
    /\ Becomes(h, LoggingIn)
    /\ UNCHANGED <<userVars, sessionVars, challenge, tries, late, uses, guesses, sealed>>

\* The count is incremented in the database, the lock decided on the count
\* that was read.
LocksWhenEqual(count) == count = LockAt - 1
Locks(count) == count >= LockAt - 1

WrongPassword(h) ==
    /\ handler[h].pc = "login"
    /\ failed' = IF failed = LockAt THEN failed ELSE failed + 1
    /\ locked' = (locked \/ Locks(handler[h].failed))
    /\ tries' = IF handler[h].locked THEN tries ELSE tries + 1
    /\ Becomes(h, Idle)
    /\ UNCHANGED <<status, sessionVars, challenge, late, uses, guesses, sealed>>

LoginRefused(h) ==
    /\ handler[h].pc = "login"
    /\ handler[h].locked \/ handler[h].suspended
    /\ Becomes(h, Idle)
    /\ UNCHANGED <<userVars, sessionVars, challenge, tries, late, uses, guesses, sealed>>

\* session.create
OpenSession(h) ==
    /\ handler[h].pc = "login"
    /\ ~handler[h].locked /\ ~handler[h].suspended
    /\ minted < MaxTokens
    /\ \E s \in Sessions :
          /\ session[s].state = "NONE"
          /\ session' = [session EXCEPT ![s] = [token |-> minted + 1, state |-> "LIVE"]]
    /\ minted' = minted + 1
    /\ Becomes(h, InSession)
    /\ UNCHANGED <<userVars, challenge, tries, late, uses, guesses, sealed>>

\* user.update: the count and the lock are cleared, whoever set them since.
ClearFailures(h) ==
    /\ handler[h].pc = "session"
    /\ failed' = 0
    /\ locked' = FALSE
    /\ tries' = 0
    /\ Becomes(h, Idle)
    /\ UNCHANGED <<status, sessionVars, challenge, late, uses, guesses, sealed>>

LockEnds ==
    /\ locked
    /\ locked' = FALSE
    /\ tries' = 0
    /\ UNCHANGED <<status, failed, sessionVars, challenge, handler, late, uses,
                   guesses, sealed>>

(***************************************************************************)
(* Sessions.  The status of the user plays no part.                        *)
(***************************************************************************)
FoundIgnoringRevocation(s, token) ==
    session[s].token = token /\ session[s].state \in {"LIVE", "REVOKED"}
Found(s, token) == session[s].token = token /\ session[s].state = "LIVE"

Refresh(h, token) ==
    /\ handler[h] = Idle
    /\ \E s \in Sessions :
          /\ Found(s, token)
          /\ Becomes(h, Refreshing(s))
    /\ UNCHANGED <<userVars, sessionVars, challenge, tries, late, uses, guesses, sealed>>

TokenKept(s) == session[s].token
NewToken(s) == minted + 1

RotatedForUser(s) ==
    [t \in Sessions |-> [session[t] EXCEPT !.token = NewToken(s)]]

\* The row is updated by its id: the token, and the expiry moved on.
Rotated(s) ==
    [session EXCEPT ![s].token = NewToken(s),
                    ![s].state = IF @ = "EXPIRED" THEN "LIVE" ELSE @]

Rotate(h) ==
    LET s == handler[h].session
    IN  /\ handler[h].pc = "refresh"
        /\ minted < MaxTokens
        /\ minted' = minted + 1
        /\ session' = Rotated(s)
        /\ late' = [late EXCEPT ![s] = IF session[s].state = "REVOKED" THEN @ + 1 ELSE @]
        /\ uses' = [uses EXCEPT ![handler[h].token] = @ + 1]
        /\ Becomes(h, Idle)
        /\ UNCHANGED <<userVars, challenge, tries, guesses, sealed>>

\* An access token names the session, and nothing else is looked at.
Logout(s) ==
    /\ session[s].state \in {"LIVE", "EXPIRED"}
    /\ session' = [session EXCEPT ![s].state = "REVOKED"]
    /\ UNCHANGED <<userVars, minted, challenge, handler, tries, late, uses, guesses,
                   sealed>>

SessionExpires(s) ==
    /\ session[s].state = "LIVE"
    /\ session' = [session EXCEPT ![s].state = "EXPIRED"]
    /\ UNCHANGED <<userVars, minted, challenge, handler, tries, late, uses, guesses,
                   sealed>>

(***************************************************************************)
(* OTP challenges.                                                         *)
(***************************************************************************)
OneMoreAttempt(c) == challenge[c].attempts <= OtpMax
AttemptsLeft(c) == challenge[c].attempts < OtpMax

Guess(h, c) ==
    /\ handler[h] = Idle
    /\ challenge[c].state = "OPEN"
    /\ AttemptsLeft(c)
    /\ Becomes(h, Guessing(c))
    /\ UNCHANGED <<userVars, sessionVars, challenge, tries, late, uses, guesses, sealed>>

WrongCode(h) ==
    LET c == handler[h].challenge
    IN  /\ handler[h].pc = "guess"
        /\ challenge' = [challenge EXCEPT ![c].attempts = @ + 1]
        /\ guesses' = [guesses EXCEPT ![c] = @ + 1]
        /\ Becomes(h, Idle)
        /\ UNCHANGED <<userVars, sessionVars, tries, late, uses, sealed>>

ConsumedNot(state) == state
Consumed(state) == IF state = "EXPIRED" THEN state ELSE "CONSUMED"

\* First the challenge, then the user, in two updates.
RightCode(h) ==
    LET c == handler[h].challenge
    IN  /\ handler[h].pc = "guess"
        /\ challenge' = [challenge EXCEPT ![c].state = Consumed(@)]
        /\ Becomes(h, Verified(c))
        /\ UNCHANGED <<userVars, sessionVars, tries, late, uses, guesses, sealed>>

\* The user row is updated by its id alone.
Confirm(h) ==
    /\ handler[h].pc = "verified"
    /\ status' = IF Purpose[handler[h].challenge] = "EMAIL_VERIFY" THEN "ACTIVE" ELSE status
    /\ Becomes(h, Idle)
    /\ UNCHANGED <<failed, locked, sessionVars, challenge, tries, late, uses, guesses,
                   sealed>>

ChallengeExpires(c) ==
    /\ challenge[c].state = "OPEN"
    /\ challenge' = [challenge EXCEPT ![c].state = "EXPIRED"]
    /\ UNCHANGED <<userVars, sessionVars, handler, tries, late, uses, guesses, sealed>>

\* The process dies, or a query fails: what was written stays.
Drop(h) ==
    /\ handler[h] # Idle
    /\ Becomes(h, Idle)
    /\ UNCHANGED <<userVars, sessionVars, challenge, tries, late, uses, guesses, sealed>>

(***************************************************************************)
(* POST /admin/users/suspend.  Sessions and challenges stay as they are.   *)
(***************************************************************************)
ByEmail == {c \in Challenges : Purpose[c] = "EMAIL_VERIFY"}

CodeInFlight ==
    \E h \in Handlers :
        handler[h].pc \in {"guess", "verified"} /\ handler[h].challenge \in ByEmail

Suspend ==
    /\ status # "NONE"
    /\ status' = "SUSPENDED"
    /\ sealed' = (sealed \/ (status = "ACTIVE" /\ ~CodeInFlight))
    /\ UNCHANGED <<failed, locked, sessionVars, challenge, handler, tries, late, uses,
                   guesses>>

HandlerStep(h) ==
    \/ Login(h)
    \/ WrongPassword(h)
    \/ LoginRefused(h)
    \/ OpenSession(h)
    \/ ClearFailures(h)
    \/ \E token \in Tokens : Refresh(h, token)
    \/ Rotate(h)
    \/ \E c \in Challenges : Guess(h, c)
    \/ WrongCode(h)
    \/ RightCode(h)
    \/ Confirm(h)
    \/ Drop(h)

Next ==
    \/ SignUp
    \/ \E h \in Handlers : HandlerStep(h)
    \/ LockEnds
    \/ \E s \in Sessions : Logout(s) \/ SessionExpires(s)
    \/ \E c \in Challenges : ChallengeExpires(c)
    \/ Suspend

Spec == Init /\ [][Next]_vars

-----------------------------------------------------------------------------
(***************************************************************************)
(* Properties.                                                             *)
(***************************************************************************)
\* Between two successful logins or locks, the passwords tested stay
\* bounded although the lock is decided on an old count: the requests in
\* flight may each test one more on the count below the last, and one more
\* before the first lock is written.
PasswordTriesAreBounded == tries <= LockAt - 2 + 2 * Cardinality(Handlers)

\* After a logout a session is refreshed only by requests that were in
\* flight, so at most once by each.
LogoutIsFinal == \A s \in Sessions : late[s] <= Cardinality(Handlers)

\* A refresh token is good for one rotation, or one for each of the
\* requests that read it before the first rotated it.
TokenIsSingleUse == \A t \in Tokens : uses[t] <= Cardinality(Handlers)

\* The codes tested on one challenge exceed OTP_MAX_ATTEMPTS by the other
\* requests in flight at most.
GuessesAreBounded ==
    \A c \in Challenges : guesses[c] <= OtpMax - 1 + Cardinality(Handlers)

\* Nothing but the e-mail code of the signup makes a user ACTIVE, and it
\* passes once: a user who was ACTIVE and is suspended stays so, unless a
\* request with the code is in flight.
SealedStaysSuspended == sealed => status = "SUSPENDED"
=============================================================================
