--------------------------- MODULE AccountsProofs ---------------------------
(***************************************************************************)
(* Theorems about Accounts, for every value of its constants that meets    *)
(* ConstantsAssumption: any number of concurrent requests, of sessions and *)
(* of challenges, any lockout and attempt limit.                           *)
(***************************************************************************)
EXTENDS Accounts, FiniteSetTheorems, TLAPS

-----------------------------------------------------------------------------
(***************************************************************************)
(* The inductive invariant.  The bounds of the model are bounds on what    *)
(* has happened; they are inductive together with what may still happen:   *)
(* the requests in flight that will add one each.                          *)
(***************************************************************************)
Guessers(c)   == {h \in Handlers : handler[h].pc = "guess" /\ handler[h].challenge = c}
Refreshers(s) == {h \in Handlers : handler[h].pc = "refresh" /\ handler[h].session = s}
Holders(t)    == {h \in Handlers : handler[h].pc = "refresh" /\ handler[h].token = t}

\* The requests that read an open account, and those of them that read a
\* count too low to lock it.
Admitted  == {h \in Handlers : handler[h].pc = "login" /\ ~handler[h].locked}
Unwarned  == {h \in Admitted : ~Locks(handler[h].failed)}

GuessBound ==
    \A c \in Challenges :
        /\ guesses[c] = challenge[c].attempts
        /\ guesses[c] + Cardinality(Guessers(c)) <= OtpMax - 1 + Cardinality(Handlers)

LogoutBound ==
    \A s \in Sessions :
        IF session[s].state = "REVOKED"
        THEN late[s] + Cardinality(Refreshers(s)) <= Cardinality(Handlers)
        ELSE late[s] = 0

\* A token in a row is fresh, and in no other row; a token that was used is
\* in none.
TokenBound ==
    /\ \A s \in Sessions : session[s].token <= minted
    /\ \A h \in Handlers :
          handler[h].pc = "refresh" =>
              /\ handler[h].token <= minted
              /\ \A s \in Sessions :
                    session[s].token = handler[h].token => s = handler[h].session
    /\ \A t \in Tokens :
          /\ (t > minted \/ \E s \in Sessions : session[s].token = t) => uses[t] = 0
          /\ uses[t] + Cardinality(Holders(t)) <= Cardinality(Handlers)

\* While the account is open, every test counted so far was made on a count
\* below the last; once it is locked, no request is admitted.
TriesBound ==
    /\ failed < LockAt => tries <= failed
    /\ ~locked => tries + Cardinality(Unwarned) <= LockAt - 2 + Cardinality(Handlers)
    /\ tries + Cardinality(Admitted) <= LockAt - 2 + 2 * Cardinality(Handlers)

\* The e-mail code is spent before it makes the user ACTIVE.
CodeSpent ==
    /\ status = "NONE" =>
          \A h \in Handlers : handler[h].pc \notin {"guess", "verified"}
    /\ status = "NONE" => \A c \in Challenges : challenge[c].state = "NONE"
    /\ \A h \in Handlers :
          handler[h].pc = "verified" => challenge[handler[h].challenge].state # "OPEN"
    /\ status = "ACTIVE" => \A c \in ByEmail : challenge[c].state # "OPEN"
    /\ sealed => /\ status = "SUSPENDED" /\ ~CodeInFlight
                 /\ \A c \in ByEmail : challenge[c].state # "OPEN"

IInv ==
    /\ TypeOK /\ GuessBound /\ LogoutBound /\ TokenBound /\ TriesBound /\ CodeSpent

-----------------------------------------------------------------------------
(***************************************************************************)
(* Lemmas on the constants, on the records, and on counting.               *)
(***************************************************************************)
LEMMA CountType ==
    ASSUME NEW S \in SUBSET Handlers
    PROVE  /\ IsFiniteSet(S)
           /\ Cardinality(S) \in Nat /\ Cardinality(Handlers) \in Nat
           /\ Cardinality(S) <= Cardinality(Handlers)
BY ConstantsAssumption, FS_Subset, FS_CardinalityType

\* Two sets of requests that agree but for one.
LEMMA CountStep ==
    ASSUME NEW S \in SUBSET Handlers, NEW T \in SUBSET Handlers, NEW h \in Handlers,
           T \ {h} = S \ {h}
    PROVE  /\ h \in S => Cardinality(S) = Cardinality(S \ {h}) + 1
           /\ h \notin S => Cardinality(S) = Cardinality(S \ {h})
           /\ h \in T => Cardinality(T) = Cardinality(S \ {h}) + 1
           /\ h \notin T => Cardinality(T) = Cardinality(S \ {h})
           /\ Cardinality(S \ {h}) \in Nat
<1>1. IsFiniteSet(S) /\ IsFiniteSet(T) /\ IsFiniteSet(S \ {h}) /\ S \ {h} \in SUBSET Handlers
  BY CountType
<1>2. /\ Cardinality(S \ {h}) = IF h \in S THEN Cardinality(S) - 1 ELSE Cardinality(S)
      /\ Cardinality(T \ {h}) = IF h \in T THEN Cardinality(T) - 1 ELSE Cardinality(T)
  BY <1>1, FS_RemoveElement
<1>3. Cardinality(S) \in Nat /\ Cardinality(T) \in Nat /\ Cardinality(S \ {h}) \in Nat
  BY <1>1, CountType
<1>4. QED
  BY <1>2, <1>3

LEMMA HandlerFacts ==
    ASSUME TypeOK, NEW h \in Handlers
    PROVE  /\ handler[h].pc \in {"idle", "login", "session", "refresh", "guess", "verified"}
           /\ handler[h].pc = "login" =>
                 /\ handler[h].failed \in 0..LockAt
                 /\ handler[h].locked \in BOOLEAN /\ handler[h].suspended \in BOOLEAN
           /\ handler[h].pc = "refresh" =>
                 handler[h].session \in Sessions /\ handler[h].token \in Tokens
           /\ handler[h].pc \in {"guess", "verified"} => handler[h].challenge \in Challenges
BY DEF TypeOK, HandlerType, Idle, InSession

\* Only the handlers in flight count.
LEMMA CountedAreHandlers ==
    /\ \A c \in Challenges : Guessers(c) \in SUBSET Handlers
    /\ \A s \in Sessions : Refreshers(s) \in SUBSET Handlers
    /\ \A t \in Tokens : Holders(t) \in SUBSET Handlers
    /\ Admitted \in SUBSET Handlers /\ Unwarned \in SUBSET Handlers
    /\ Unwarned \in SUBSET Admitted
BY DEF Guessers, Refreshers, Holders, Admitted, Unwarned

LEMMA InitIInv == Init => IInv
<1> SUFFICES ASSUME Init PROVE IInv
  OBVIOUS
<1> USE DEF Init
<1>1. TypeOK
  <2>1. Idle \in HandlerType
    BY DEF HandlerType
  <2>2. failed \in 0..LockAt /\ minted \in 0..MaxTokens /\ 0 \in 0..MaxTokens
    BY ConstantsAssumption
  <2>3. /\ session \in [Sessions -> [token : 0..MaxTokens,
                                     state : {"NONE", "LIVE", "EXPIRED", "REVOKED"}]]
        /\ \A s \in Sessions : session[s].token = 0
    BY <2>2
  <2>4. QED
    BY <2>1, <2>2, <2>3 DEF TypeOK
<1>2. /\ \A c \in Challenges : Guessers(c) = {}
      /\ \A t \in Tokens : Holders(t) = {}
      /\ Unwarned = {} /\ Admitted = {}
  BY DEF Guessers, Holders, Admitted, Unwarned, Idle
<1>3. /\ Cardinality(Handlers) \in Nat
      /\ \A c \in Challenges : Cardinality(Guessers(c)) = 0
      /\ \A t \in Tokens : Cardinality(Holders(t)) = 0
      /\ Cardinality(Unwarned) = 0 /\ Cardinality(Admitted) = 0
  <2>1. Cardinality({}) = 0
    BY FS_EmptySet
  <2>2. Cardinality(Handlers) \in Nat
    BY CountType
  <2>3. QED
    BY <1>2, <2>1, <2>2, Zenon
<1>4. GuessBound
  BY <1>2, <1>3, ConstantsAssumption DEF GuessBound
<1>5. LogoutBound
  BY DEF LogoutBound
<1>6. TokenBound
  <2>1. \A s \in Sessions : session[s].token <= minted
    OBVIOUS
  <2>2. \A h \in Handlers : handler[h].pc # "refresh"
    BY DEF Idle
  <2>3. \A t \in Tokens : uses[t] + Cardinality(Holders(t)) <= Cardinality(Handlers)
    BY <1>2, <1>3
  <2>4. QED
    BY <2>1, <2>2, <2>3 DEF TokenBound
<1>7. TriesBound
  BY <1>2, <1>3, ConstantsAssumption DEF TriesBound
<1>8. CodeSpent
  BY DEF CodeSpent, Idle
<1>9. QED
  BY <1>1, <1>4, <1>5, <1>6, <1>7, <1>8 DEF IInv

-----------------------------------------------------------------------------
(***************************************************************************)
(* Types.                                                                  *)
(***************************************************************************)
LEMMA TypeStep ==
    ASSUME TypeOK, TokenBound, [Next]_vars
    PROVE  TypeOK'
<1>1. CASE UNCHANGED vars
  BY <1>1 DEF vars, userVars, sessionVars, TypeOK
<1>2. CASE SignUp
  BY <1>2 DEF SignUp, TypeOK, sessionVars
<1>3. ASSUME NEW h \in Handlers, Login(h)
      PROVE  TypeOK'
  <2>1. LoggingIn \in HandlerType
    BY DEF LoggingIn, HandlerType, TypeOK
  <2>2. QED
    BY <1>3, <2>1 DEF Login, Becomes, TypeOK, userVars, sessionVars
<1>4. ASSUME NEW h \in Handlers, WrongPassword(h)
      PROVE  TypeOK'
  <2>1. handler[h].failed \in 0..LockAt /\ Locks(handler[h].failed) \in BOOLEAN
    BY <1>4, HandlerFacts DEF WrongPassword, Locks
  <2>2. /\ failed' \in 0..LockAt /\ locked' \in BOOLEAN /\ tries' \in Nat
    BY <1>4, <2>1, ConstantsAssumption DEF WrongPassword, TypeOK
  <2>3. Idle \in HandlerType
    BY DEF HandlerType
  <2>4. QED
    BY <1>4, <2>2, <2>3 DEF WrongPassword, Becomes, TypeOK, sessionVars
<1>5. ASSUME NEW h \in Handlers, LoginRefused(h) \/ Drop(h)
      PROVE  TypeOK'
  <2>1. Idle \in HandlerType
    BY DEF HandlerType
  <2>2. QED
    BY <1>5, <2>1 DEF LoginRefused, Drop, Becomes, TypeOK, userVars, sessionVars
<1>6. ASSUME NEW h \in Handlers, OpenSession(h)
      PROVE  TypeOK'
  <2>1. PICK s \in Sessions :
           session' = [session EXCEPT ![s] = [token |-> minted + 1, state |-> "LIVE"]]
    BY <1>6 DEF OpenSession
  <2>2. minted' \in 0..MaxTokens /\ minted' = minted + 1 /\ minted \in Nat
    BY <1>6, ConstantsAssumption DEF OpenSession, TypeOK
  <2>3. \A t \in Sessions : session[t].token # minted + 1
    BY <2>2 DEF TokenBound, TypeOK
  <2>4. /\ session' \in [Sessions -> [token : 0..MaxTokens,
                                      state : {"NONE", "LIVE", "EXPIRED", "REVOKED"}]]
        /\ \A t, u \in Sessions :
              t # u /\ session'[t].token = session'[u].token => session'[t].token = 0
    BY <2>1, <2>2, <2>3 DEF TypeOK
  <2>5. InSession \in HandlerType
    BY DEF HandlerType
  <2>6. QED
    BY <1>6, <2>2, <2>4, <2>5 DEF OpenSession, Becomes, TypeOK, userVars
<1>7. ASSUME NEW h \in Handlers, ClearFailures(h)
      PROVE  TypeOK'
  <2>1. Idle \in HandlerType /\ 0 \in 0..LockAt
    BY ConstantsAssumption DEF HandlerType
  <2>2. QED
    BY <1>7, <2>1 DEF ClearFailures, Becomes, TypeOK, sessionVars
<1>8. ASSUME NEW h \in Handlers, NEW token \in Tokens, Refresh(h, token)
      PROVE  TypeOK'
  <2>1. PICK s \in Sessions : Found(s, token) /\ Becomes(h, Refreshing(s))
    BY <1>8 DEF Refresh
  <2>2. Refreshing(s) \in HandlerType
    BY <2>1 DEF Found, Refreshing, HandlerType
  <2>3. QED
    BY <1>8, <2>1, <2>2 DEF Refresh, Becomes, TypeOK, userVars, sessionVars
<1>9. ASSUME NEW h \in Handlers, Rotate(h)
      PROVE  TypeOK'
  <2> DEFINE s == handler[h].session
  <2>1. s \in Sessions /\ handler[h].token \in Tokens
    BY <1>9, HandlerFacts DEF Rotate
  <2>2. minted' \in 0..MaxTokens /\ minted' = minted + 1 /\ minted \in Nat
    BY <1>9, ConstantsAssumption DEF Rotate, TypeOK
  <2>3. \A t \in Sessions : session[t].token # minted + 1
    BY <2>2 DEF TokenBound, TypeOK
  <2>4. /\ session' \in [Sessions -> [token : 0..MaxTokens,
                                      state : {"NONE", "LIVE", "EXPIRED", "REVOKED"}]]
        /\ session'[s].token = minted + 1
        /\ \A t \in Sessions \ {s} : session'[t] = session[t]
    BY <1>9, <2>1, <2>2 DEF Rotate, Rotated, NewToken, TypeOK
  <2>5. \A t, u \in Sessions :
              t # u /\ session'[t].token = session'[u].token => session'[t].token = 0
    BY <2>3, <2>4 DEF TypeOK
  <2>6. late' \in [Sessions -> Nat] /\ uses' \in [Tokens -> Nat]
    BY <1>9, <2>1 DEF Rotate, TypeOK
  <2>7. Idle \in HandlerType
    BY DEF HandlerType
  <2>8. QED
    BY <1>9, <2>2, <2>4, <2>5, <2>6, <2>7 DEF Rotate, Becomes, TypeOK, userVars
<1>10. ASSUME NEW h \in Handlers, NEW c \in Challenges, Guess(h, c)
       PROVE  TypeOK'
  <2>1. Guessing(c) \in HandlerType
    BY DEF Guessing, HandlerType
  <2>2. QED
    BY <1>10, <2>1 DEF Guess, Becomes, TypeOK, userVars, sessionVars
<1>11. ASSUME NEW h \in Handlers, WrongCode(h) \/ RightCode(h)
       PROVE  TypeOK'
  <2> DEFINE c == handler[h].challenge
  <2>1. c \in Challenges
    BY <1>11, HandlerFacts DEF WrongCode, RightCode
  <2>2. Idle \in HandlerType /\ Verified(c) \in HandlerType
    BY <2>1 DEF HandlerType, Verified
  <2>3. guesses' \in [Challenges -> Nat]
    BY <1>11, <2>1 DEF WrongCode, RightCode, TypeOK
  <2>4. challenge' \in [Challenges -> [attempts : Nat,
                                     state : {"NONE", "OPEN", "CONSUMED", "EXPIRED"}]]
    BY <1>11, <2>1 DEF WrongCode, RightCode, Consumed, TypeOK
  <2>5. handler' \in [Handlers -> HandlerType]
    BY <1>11, <2>2 DEF WrongCode, RightCode, Becomes, TypeOK
  <2>6. QED
    BY <1>11, <2>3, <2>4, <2>5 DEF WrongCode, RightCode, TypeOK, userVars, sessionVars
<1>12. ASSUME NEW h \in Handlers, Confirm(h)
       PROVE  TypeOK'
  <2>1. Idle \in HandlerType
    BY DEF HandlerType
  <2>2. QED
    BY <1>12, <2>1 DEF Confirm, Becomes, TypeOK, sessionVars
<1>13. CASE LockEnds
  BY <1>13 DEF LockEnds, TypeOK, sessionVars
<1>14. ASSUME NEW s \in Sessions, Logout(s) \/ SessionExpires(s)
       PROVE  TypeOK'
  <2>1. PICK state \in {"REVOKED", "EXPIRED"} : session' = [session EXCEPT ![s].state = state]
    BY <1>14 DEF Logout, SessionExpires
  <2>2. /\ session' \in [Sessions -> [token : 0..MaxTokens,
                                      state : {"NONE", "LIVE", "EXPIRED", "REVOKED"}]]
        /\ \A t \in Sessions : session'[t].token = session[t].token
    BY <2>1 DEF TypeOK
  <2>3. QED
    BY <1>14, <2>2 DEF Logout, SessionExpires, TypeOK, userVars
<1>15. ASSUME NEW c \in Challenges, ChallengeExpires(c)
       PROVE  TypeOK'
  BY <1>15 DEF ChallengeExpires, TypeOK, userVars, sessionVars
<1>16. CASE Suspend
  BY <1>16 DEF Suspend, CodeInFlight, TypeOK, sessionVars
<1>17. QED
  BY <1>1, <1>2, <1>3, <1>4, <1>5, <1>6, <1>7, <1>8, <1>9, <1>10, <1>11, <1>12, <1>13,
     <1>14, <1>15, <1>16 DEF Next, HandlerStep

-----------------------------------------------------------------------------
(***************************************************************************)
(* What a step does to the counted sets.  A request that goes from one     *)
(* record to another leaves the sets of the first and joins those of the   *)
(* second.                                                                 *)
(***************************************************************************)
LEMMA GuessersStep ==
    ASSUME NEW h \in Handlers, TypeOK, NEW x, Becomes(h, x), NEW c \in Challenges
    PROVE  /\ x.pc # "guess" \/ x.challenge # c =>
                 /\ Cardinality(Guessers(c)') <= Cardinality(Guessers(c))
                 /\ h \in Guessers(c) =>
                       Cardinality(Guessers(c)') + 1 = Cardinality(Guessers(c))
           /\ Cardinality(Guessers(c)') \in Nat /\ Cardinality(Guessers(c)) \in Nat
           /\ Cardinality(Guessers(c)') <= Cardinality(Handlers)
<1>1. handler' = [handler EXCEPT ![h] = x] /\ handler'[h] = x
  BY DEF Becomes, TypeOK
<1>2. Guessers(c) \in SUBSET Handlers /\ Guessers(c)' \in SUBSET Handlers
  BY DEF Guessers
<1>3. Guessers(c)' \ {h} = Guessers(c) \ {h}
  BY <1>1 DEF Guessers, TypeOK
<1>4. x.pc # "guess" \/ x.challenge # c => h \notin Guessers(c)'
  BY <1>1 DEF Guessers
<1>5. QED
  BY <1>2, <1>3, <1>4, CountStep, CountType

LEMMA RefreshersStep ==
    ASSUME NEW h \in Handlers, TypeOK, NEW x, Becomes(h, x), NEW s \in Sessions
    PROVE  /\ x.pc # "refresh" \/ x.session # s =>
                 /\ Cardinality(Refreshers(s)') <= Cardinality(Refreshers(s))
                 /\ h \in Refreshers(s) =>
                       Cardinality(Refreshers(s)') + 1 = Cardinality(Refreshers(s))
           /\ Cardinality(Refreshers(s)') \in Nat /\ Cardinality(Refreshers(s)) \in Nat
           /\ Cardinality(Refreshers(s)') <= Cardinality(Handlers)
<1>1. handler' = [handler EXCEPT ![h] = x] /\ handler'[h] = x
  BY DEF Becomes, TypeOK
<1>2. Refreshers(s) \in SUBSET Handlers /\ Refreshers(s)' \in SUBSET Handlers
  BY DEF Refreshers
<1>3. Refreshers(s)' \ {h} = Refreshers(s) \ {h}
  BY <1>1 DEF Refreshers, TypeOK
<1>4. x.pc # "refresh" \/ x.session # s => h \notin Refreshers(s)'
  BY <1>1 DEF Refreshers
<1>5. QED
  BY <1>2, <1>3, <1>4, CountStep, CountType

LEMMA HoldersStep ==
    ASSUME NEW h \in Handlers, TypeOK, NEW x, Becomes(h, x), NEW t \in Tokens
    PROVE  /\ x.pc # "refresh" \/ x.token # t =>
                 /\ Cardinality(Holders(t)') <= Cardinality(Holders(t))
                 /\ h \in Holders(t) => Cardinality(Holders(t)') + 1 = Cardinality(Holders(t))
           /\ Cardinality(Holders(t)') \in Nat /\ Cardinality(Holders(t)) \in Nat
           /\ Cardinality(Holders(t)') <= Cardinality(Handlers)
<1>1. handler' = [handler EXCEPT ![h] = x] /\ handler'[h] = x
  BY DEF Becomes, TypeOK
<1>2. Holders(t) \in SUBSET Handlers /\ Holders(t)' \in SUBSET Handlers
  BY DEF Holders
<1>3. Holders(t)' \ {h} = Holders(t) \ {h}
  BY <1>1 DEF Holders, TypeOK
<1>4. x.pc # "refresh" \/ x.token # t => h \notin Holders(t)'
  BY <1>1 DEF Holders
<1>5. QED
  BY <1>2, <1>3, <1>4, CountStep, CountType

-----------------------------------------------------------------------------
(***************************************************************************)
(* Guesses of a code.                                                      *)
(***************************************************************************)
LEMMA GuessStep ==
    ASSUME TypeOK, GuessBound, [Next]_vars
    PROVE  GuessBound'
<1> USE DEF GuessBound
<1>1. CASE UNCHANGED <<guesses, challenge, handler>>
  BY <1>1 DEF Guessers
<1>2. ASSUME \A c \in Challenges :
                challenge'[c].attempts = challenge[c].attempts,
             UNCHANGED <<guesses, handler>>
      PROVE  GuessBound'
  BY <1>2 DEF Guessers
<1>3. ASSUME NEW h \in Handlers, NEW x, x.pc # "guess", Becomes(h, x),
             UNCHANGED guesses,
             \A c \in Challenges : challenge'[c].attempts = challenge[c].attempts
      PROVE  GuessBound'
  <2> SUFFICES ASSUME NEW c \in Challenges
               PROVE  /\ guesses'[c] = challenge'[c].attempts
                      /\ guesses'[c] + Cardinality(Guessers(c)')
                            <= OtpMax - 1 + Cardinality(Handlers)
    OBVIOUS
  <2>1. guesses[c] \in Nat /\ Cardinality(Handlers) \in Nat
    BY CountType DEF TypeOK
  <2>2. /\ Cardinality(Guessers(c)') <= Cardinality(Guessers(c))
        /\ Cardinality(Guessers(c)') \in Nat /\ Cardinality(Guessers(c)) \in Nat
    BY <1>3, GuessersStep
  <2>3. QED
    BY <1>3, <2>1, <2>2, ConstantsAssumption
<1>4. ASSUME NEW h \in Handlers, NEW d \in Challenges, Guess(h, d)
      PROVE  GuessBound'
  <2> SUFFICES ASSUME NEW c \in Challenges
               PROVE  guesses[c] + Cardinality(Guessers(c)')
                            <= OtpMax - 1 + Cardinality(Handlers)
    BY <1>4 DEF Guess
  <2>1. Becomes(h, Guessing(d)) /\ challenge[d].attempts < OtpMax
    BY <1>4 DEF Guess, AttemptsLeft
  <2>2. guesses[c] \in Nat /\ Cardinality(Handlers) \in Nat
    BY CountType DEF TypeOK
  <2>3. CASE c = d
    BY <2>1, <2>2, <2>3, GuessersStep, ConstantsAssumption
  <2>4. CASE c # d
    <3>1. Guessing(d).challenge # c
      BY <2>4 DEF Guessing
    <3>2. QED
      BY <2>1, <2>2, <3>1, GuessersStep, ConstantsAssumption
  <2>5. QED
    BY <2>3, <2>4
<1>5. ASSUME NEW h \in Handlers, WrongCode(h)
      PROVE  GuessBound'
  <2> DEFINE d == handler[h].challenge
  <2>1. handler[h].pc = "guess" /\ d \in Challenges /\ Becomes(h, Idle)
    BY <1>5, HandlerFacts DEF WrongCode
  <2>2. /\ guesses' = [guesses EXCEPT ![d] = guesses[d] + 1]
        /\ challenge' = [challenge EXCEPT ![d].attempts = challenge[d].attempts + 1]
    BY <1>5, <2>1 DEF WrongCode, TypeOK
  <2>3. h \in Guessers(d)
    BY <2>1 DEF Guessers
  <2> HIDE DEF d
  <2> SUFFICES ASSUME NEW c \in Challenges
               PROVE  /\ guesses'[c] = challenge'[c].attempts
                      /\ guesses'[c] + Cardinality(Guessers(c)')
                            <= OtpMax - 1 + Cardinality(Handlers)
    OBVIOUS
  <2>4. guesses[c] \in Nat /\ Cardinality(Handlers) \in Nat
    BY CountType DEF TypeOK
  <2>5. Idle.pc # "guess"
    BY DEF Idle
  <2>6. CASE c = d
    <3>1. Cardinality(Guessers(c)') + 1 = Cardinality(Guessers(c))
      BY <2>1, <2>3, <2>5, <2>6, GuessersStep
    <3>2. Cardinality(Guessers(c)') \in Nat
      BY <2>1, GuessersStep
    <3>3. guesses'[c] = guesses[c] + 1 /\ challenge'[c].attempts = challenge[c].attempts + 1
      BY <2>1, <2>2, <2>6 DEF TypeOK
    <3>4. QED
      BY <2>4, <3>1, <3>2, <3>3, ConstantsAssumption
  <2>7. CASE c # d
    <3>1. /\ Cardinality(Guessers(c)') <= Cardinality(Guessers(c))
          /\ Cardinality(Guessers(c)') \in Nat /\ Cardinality(Guessers(c)) \in Nat
      BY <2>1, <2>5, GuessersStep
    <3>2. guesses'[c] = guesses[c] /\ challenge'[c].attempts = challenge[c].attempts
      BY <2>1, <2>2, <2>7 DEF TypeOK
    <3>3. QED
      BY <2>4, <3>1, <3>2, ConstantsAssumption
  <2>8. QED
    BY <2>6, <2>7
<1>6. ASSUME NEW h \in Handlers, RightCode(h)
      PROVE  GuessBound'
  <2>1. handler[h].challenge \in Challenges
    BY <1>6, HandlerFacts DEF RightCode
  <2>2. \A c \in Challenges : challenge'[c].attempts = challenge[c].attempts
    BY <1>6, <2>1 DEF RightCode, TypeOK
  <2>3. Verified(handler[h].challenge).pc # "guess"
    BY DEF Verified
  <2>4. QED
    BY <1>3, <1>6, <2>2, <2>3 DEF RightCode
<1>7. ASSUME NEW h \in Handlers, HandlerStep(h)
      PROVE  GuessBound'
  <2>1. CASE Login(h)
    BY <1>3, <2>1 DEF Login, LoggingIn
  <2>2. CASE WrongPassword(h) \/ LoginRefused(h) \/ ClearFailures(h) \/ Rotate(h)
             \/ Confirm(h) \/ Drop(h)
    BY <1>3, <2>2 DEF WrongPassword, LoginRefused, ClearFailures, Rotate, Confirm, Drop, Idle
  <2>3. CASE OpenSession(h)
    BY <1>3, <2>3 DEF OpenSession, InSession
  <2>4. CASE \E token \in Tokens : Refresh(h, token)
    BY <1>3, <2>4 DEF Refresh, Refreshing
  <2>5. QED
    BY <1>4, <1>5, <1>6, <1>7, <2>1, <2>2, <2>3, <2>4 DEF HandlerStep
<1>8. CASE SignUp \/ \E c \in Challenges : ChallengeExpires(c)
  BY <1>2, <1>8 DEF SignUp, ChallengeExpires, TypeOK
<1>9. CASE LockEnds \/ Suspend \/ \E s \in Sessions : Logout(s) \/ SessionExpires(s)
  BY <1>1, <1>9 DEF LockEnds, Suspend, Logout, SessionExpires
<1>10. CASE UNCHANGED vars
  BY <1>1, <1>10 DEF vars
<1>11. QED
  BY <1>7, <1>8, <1>9, <1>10 DEF Next

-----------------------------------------------------------------------------
(***************************************************************************)
(* Rotations after a logout.                                               *)
(***************************************************************************)
LEMMA LogoutStep ==
    ASSUME TypeOK, LogoutBound, [Next]_vars
    PROVE  LogoutBound'
<1> USE DEF LogoutBound
<1>1. CASE UNCHANGED <<session, late, handler>>
  BY <1>1 DEF Refreshers
<1>2. ASSUME NEW h \in Handlers, NEW x, x.pc # "refresh", Becomes(h, x),
             UNCHANGED <<session, late>>
      PROVE  LogoutBound'
  <2> SUFFICES ASSUME NEW s \in Sessions, session[s].state = "REVOKED"
               PROVE  late[s] + Cardinality(Refreshers(s)') <= Cardinality(Handlers)
    BY <1>2
  <2>1. late[s] \in Nat /\ Cardinality(Handlers) \in Nat
    BY CountType DEF TypeOK
  <2>2. /\ Cardinality(Refreshers(s)') <= Cardinality(Refreshers(s))
        /\ Cardinality(Refreshers(s)') \in Nat /\ Cardinality(Refreshers(s)) \in Nat
    BY <1>2, RefreshersStep
  <2>3. QED
    BY <2>1, <2>2
<1>3. ASSUME NEW h \in Handlers, OpenSession(h)
      PROVE  LogoutBound'
  <2>1. PICK r \in Sessions :
           /\ session[r].state = "NONE"
           /\ session' = [session EXCEPT ![r] = [token |-> minted + 1, state |-> "LIVE"]]
    BY <1>3 DEF OpenSession
  <2>2. Becomes(h, InSession) /\ InSession.pc # "refresh" /\ late' = late
    BY <1>3 DEF OpenSession, InSession
  <2> SUFFICES ASSUME NEW s \in Sessions
               PROVE  IF session'[s].state = "REVOKED"
                      THEN late[s] + Cardinality(Refreshers(s)') <= Cardinality(Handlers)
                      ELSE late[s] = 0
    BY <2>2
  <2>3. late[s] \in Nat /\ Cardinality(Handlers) \in Nat
    BY CountType DEF TypeOK
  <2>4. /\ Cardinality(Refreshers(s)') <= Cardinality(Refreshers(s))
        /\ Cardinality(Refreshers(s)') \in Nat /\ Cardinality(Refreshers(s)) \in Nat
    BY <2>2, RefreshersStep
  <2>5. IF s = r THEN session'[s].state = "LIVE" ELSE session'[s] = session[s]
    BY <2>1 DEF TypeOK
  <2>6. QED
    BY <2>1, <2>3, <2>4, <2>5
<1>4. ASSUME NEW h \in Handlers, NEW token \in Tokens, Refresh(h, token)
      PROVE  LogoutBound'
  <2>1. PICK r \in Sessions : session[r].state = "LIVE" /\ Becomes(h, Refreshing(r))
    BY <1>4 DEF Refresh, Found
  <2>2. UNCHANGED <<session, late>>
    BY <1>4 DEF Refresh, sessionVars
  <2> SUFFICES ASSUME NEW s \in Sessions, session[s].state = "REVOKED"
               PROVE  late[s] + Cardinality(Refreshers(s)') <= Cardinality(Handlers)
    BY <2>2
  <2>3. late[s] \in Nat /\ Cardinality(Handlers) \in Nat
    BY CountType DEF TypeOK
  <2>4. Refreshing(r).session # s
    BY <2>1 DEF Refreshing
  <2>5. /\ Cardinality(Refreshers(s)') <= Cardinality(Refreshers(s))
        /\ Cardinality(Refreshers(s)') \in Nat /\ Cardinality(Refreshers(s)) \in Nat
    BY <2>1, <2>4, RefreshersStep
  <2>6. QED
    BY <2>3, <2>5
<1>5. ASSUME NEW h \in Handlers, Rotate(h)
      PROVE  LogoutBound'
  <2> DEFINE r == handler[h].session
  <2>1. /\ handler[h].pc = "refresh" /\ r \in Sessions
        /\ Becomes(h, Idle) /\ Idle.pc # "refresh"
    BY <1>5, HandlerFacts DEF Rotate, Idle
  <2>2. h \in Refreshers(r)
    BY <2>1 DEF Refreshers
  <2>3. late' = [late EXCEPT ![r] = IF session[r].state = "REVOKED" THEN late[r] + 1 ELSE late[r]]
    BY <1>5, <2>1 DEF Rotate, TypeOK
  <2>4. /\ session'[r].state = "REVOKED" <=> session[r].state = "REVOKED"
        /\ \A s \in Sessions \ {r} : session'[s] = session[s]
    BY <1>5, <2>1 DEF Rotate, Rotated, TypeOK
  <2> HIDE DEF r
  <2> SUFFICES ASSUME NEW s \in Sessions
               PROVE  IF session'[s].state = "REVOKED"
                      THEN late'[s] + Cardinality(Refreshers(s)') <= Cardinality(Handlers)
                      ELSE late'[s] = 0
    OBVIOUS
  <2>5. late[s] \in Nat /\ Cardinality(Handlers) \in Nat
    BY CountType DEF TypeOK
  <2>6. /\ Cardinality(Refreshers(s)') <= Cardinality(Refreshers(s))
        /\ h \in Refreshers(s) =>
              Cardinality(Refreshers(s)') + 1 = Cardinality(Refreshers(s))
        /\ Cardinality(Refreshers(s)') \in Nat /\ Cardinality(Refreshers(s)) \in Nat
    BY <2>1, RefreshersStep
  <2>7. CASE s = r
    <3>1. late'[s] = IF session[s].state = "REVOKED" THEN late[s] + 1 ELSE late[s]
      BY <2>1, <2>3, <2>7 DEF TypeOK
    <3>2. h \in Refreshers(s)
      BY <2>2, <2>7
    <3>3. session'[s].state = "REVOKED" <=> session[s].state = "REVOKED"
      BY <2>4, <2>7
    <3>4. QED
      BY <2>5, <2>6, <3>1, <3>2, <3>3
  <2>8. CASE s # r
    <3>1. late'[s] = late[s] /\ session'[s] = session[s]
      BY <2>1, <2>3, <2>4, <2>8 DEF TypeOK
    <3>2. QED
      BY <2>5, <2>6, <3>1
  <2>9. QED
    BY <2>7, <2>8
<1>6. ASSUME NEW r \in Sessions, Logout(r) \/ SessionExpires(r)
      PROVE  LogoutBound'
  <2>1. /\ session[r].state \in {"LIVE", "EXPIRED"}
        /\ \A s \in Sessions \ {r} : session'[s] = session[s]
        /\ UNCHANGED <<late, handler>>
    BY <1>6 DEF Logout, SessionExpires, TypeOK
  <2> SUFFICES ASSUME NEW s \in Sessions
               PROVE  IF session'[s].state = "REVOKED"
                      THEN late[s] + Cardinality(Refreshers(s)) <= Cardinality(Handlers)
                      ELSE late[s] = 0
    BY <2>1 DEF Refreshers
  <2>2. /\ Cardinality(Handlers) \in Nat
        /\ Cardinality(Refreshers(s)) \in Nat
        /\ Cardinality(Refreshers(s)) <= Cardinality(Handlers)
    BY CountType, CountedAreHandlers
  <2>3. s = r => late[s] = 0
    BY <2>1
  <2>4. QED
    BY <2>1, <2>2, <2>3
<1>7. ASSUME NEW h \in Handlers, HandlerStep(h)
      PROVE  LogoutBound'
  <2>1. CASE Login(h)
    BY <1>2, <2>1 DEF Login, LoggingIn, sessionVars
  <2>2. CASE WrongPassword(h) \/ LoginRefused(h) \/ ClearFailures(h)
             \/ WrongCode(h) \/ Confirm(h) \/ Drop(h)
    BY <1>2, <2>2
    DEF WrongPassword, LoginRefused, ClearFailures, WrongCode, Confirm, Drop, Idle, sessionVars
  <2>3. CASE RightCode(h) \/ \E c \in Challenges : Guess(h, c)
    BY <1>2, <2>3 DEF RightCode, Guess, Verified, Guessing, sessionVars
  <2>4. QED
    BY <1>3, <1>4, <1>5, <1>7, <2>1, <2>2, <2>3 DEF HandlerStep
<1>8. CASE SignUp \/ LockEnds \/ Suspend \/ \E c \in Challenges : ChallengeExpires(c)
  BY <1>1, <1>8 DEF SignUp, LockEnds, Suspend, ChallengeExpires, sessionVars
<1>9. CASE UNCHANGED vars
  BY <1>1, <1>9 DEF vars, sessionVars
<1>10. QED
  BY <1>6, <1>7, <1>8, <1>9 DEF Next

-----------------------------------------------------------------------------
(***************************************************************************)
(* Rotations for one token.                                                *)
(***************************************************************************)
LEMMA TokenStep ==
    ASSUME TypeOK, TokenBound, [Next]_vars
    PROVE  TokenBound'
<1>1. CASE UNCHANGED <<session, minted, uses, handler>>
  BY <1>1 DEF TokenBound, Holders
<1>2. ASSUME NEW h \in Handlers, NEW x, x.pc # "refresh", Becomes(h, x),
             UNCHANGED <<session, minted, uses>>
      PROVE  TokenBound'
  <2>1. ASSUME NEW t \in Tokens
        PROVE  uses[t] + Cardinality(Holders(t)') <= Cardinality(Handlers)
    <3>1. uses[t] \in Nat /\ Cardinality(Handlers) \in Nat
      BY CountType DEF TypeOK
    <3>2. /\ Cardinality(Holders(t)') <= Cardinality(Holders(t))
          /\ Cardinality(Holders(t)') \in Nat /\ Cardinality(Holders(t)) \in Nat
      BY <1>2, HoldersStep
    <3>3. QED
      BY <3>1, <3>2 DEF TokenBound
  <2>2. ASSUME NEW g \in Handlers, handler'[g].pc = "refresh"
        PROVE  handler'[g] = handler[g]
    BY <1>2, <2>2 DEF Becomes, TypeOK
  <2>3. QED
    BY <1>2, <2>1, <2>2 DEF TokenBound
<1>3. ASSUME NEW h \in Handlers, OpenSession(h)
      PROVE  TokenBound'
  <2>1. PICK r \in Sessions :
           session' = [session EXCEPT ![r] = [token |-> minted + 1, state |-> "LIVE"]]
    BY <1>3 DEF OpenSession
  <2>2. /\ Becomes(h, InSession) /\ InSession.pc # "refresh"
        /\ minted' = minted + 1 /\ minted \in Nat /\ uses' = uses
    BY <1>3, ConstantsAssumption DEF OpenSession, InSession, TypeOK
  <2>3. /\ session'[r].token = minted + 1
        /\ \A s \in Sessions \ {r} : session'[s] = session[s]
    BY <2>1 DEF TypeOK
  <2>4. \A s \in Sessions : session[s].token \in Nat /\ session[s].token <= minted
    BY ConstantsAssumption DEF TokenBound, TypeOK
  <2>5. \A s \in Sessions : session'[s].token <= minted'
    BY <2>2, <2>3, <2>4
  <2>6. ASSUME NEW g \in Handlers, handler'[g].pc = "refresh"
        PROVE  /\ handler'[g].token <= minted'
               /\ \A s \in Sessions :
                     session'[s].token = handler'[g].token => s = handler'[g].session
    <3>1. handler'[g] = handler[g]
      BY <2>2, <2>6 DEF Becomes, TypeOK
    <3>2. handler[g].token \in Nat /\ handler[g].token <= minted
      BY <2>6, <3>1, HandlerFacts, ConstantsAssumption DEF TokenBound, Tokens
    <3>3. QED
      BY <2>2, <2>3, <2>6, <3>1, <3>2 DEF TokenBound
  <2>7. ASSUME NEW t \in Tokens
        PROVE  /\ (t > minted' \/ \E s \in Sessions : session'[s].token = t) => uses[t] = 0
               /\ uses[t] + Cardinality(Holders(t)') <= Cardinality(Handlers)
    <3>1. uses[t] \in Nat /\ Cardinality(Handlers) \in Nat /\ t \in Nat
      BY CountType, ConstantsAssumption DEF TypeOK, Tokens
    <3>2. /\ Cardinality(Holders(t)') <= Cardinality(Holders(t))
          /\ Cardinality(Holders(t)') \in Nat /\ Cardinality(Holders(t)) \in Nat
      BY <2>2, HoldersStep
    <3>3. (t > minted' \/ \E s \in Sessions : session'[s].token = t) => uses[t] = 0
      BY <2>2, <2>3, <3>1 DEF TokenBound
    <3>4. QED
      BY <3>1, <3>2, <3>3 DEF TokenBound
  <2>8. QED
    BY <2>2, <2>5, <2>6, <2>7 DEF TokenBound
<1>4. ASSUME NEW h \in Handlers, NEW token \in Tokens, Refresh(h, token)
      PROVE  TokenBound'
  <2>1. PICK r \in Sessions : session[r].token = token /\ Becomes(h, Refreshing(r))
    BY <1>4 DEF Refresh, Found
  <2>2. /\ UNCHANGED <<session, minted, uses>>
        /\ Refreshing(r).session = r /\ Refreshing(r).token = token
    BY <1>4, <2>1 DEF Refresh, Refreshing, sessionVars
  <2>3. handler'[h] = Refreshing(r) /\ \A g \in Handlers \ {h} : handler'[g] = handler[g]
    BY <2>1 DEF Becomes, TypeOK
  <2>4. token # 0
    BY ConstantsAssumption DEF Tokens
  <2>5. ASSUME NEW g \in Handlers, handler'[g].pc = "refresh"
        PROVE  /\ handler'[g].token <= minted
               /\ \A s \in Sessions :
                     session[s].token = handler'[g].token => s = handler'[g].session
    <3>1. CASE g = h
      BY <2>1, <2>2, <2>3, <2>4, <3>1 DEF TokenBound, TypeOK
    <3>2. CASE g # h
      BY <2>3, <2>5, <3>2 DEF TokenBound
    <3>3. QED
      BY <3>1, <3>2
  <2>6. ASSUME NEW t \in Tokens
        PROVE  uses[t] + Cardinality(Holders(t)') <= Cardinality(Handlers)
    <3>1. uses[t] \in Nat /\ Cardinality(Handlers) \in Nat
      BY CountType DEF TypeOK
    <3>2. CASE t = token
      <4>1. uses[t] = 0
        BY <2>1, <3>2 DEF TokenBound
      <4>2. QED
        BY <2>1, <3>1, <4>1, HoldersStep
    <3>3. CASE t # token
      <4>1. /\ Cardinality(Holders(t)') <= Cardinality(Holders(t))
            /\ Cardinality(Holders(t)') \in Nat /\ Cardinality(Holders(t)) \in Nat
        BY <2>1, <2>2, <3>3, HoldersStep
      <4>2. QED
        BY <3>1, <4>1 DEF TokenBound
    <3>4. QED
      BY <3>2, <3>3
  <2>7. QED
    BY <2>2, <2>5, <2>6 DEF TokenBound
<1>5. ASSUME NEW h \in Handlers, Rotate(h)
      PROVE  TokenBound'
  <2> DEFINE r == handler[h].session
             token == handler[h].token
  <2>1. /\ handler[h].pc = "refresh" /\ r \in Sessions /\ token \in Tokens
        /\ Becomes(h, Idle) /\ Idle.pc # "refresh"
        /\ minted' = minted + 1 /\ minted \in Nat
    BY <1>5, HandlerFacts, ConstantsAssumption DEF Rotate, Idle, TypeOK
  <2>2. /\ session'[r].token = minted + 1
        /\ \A s \in Sessions \ {r} : session'[s] = session[s]
    BY <1>5, <2>1 DEF Rotate, Rotated, NewToken, TypeOK
  <2>3. uses' = [uses EXCEPT ![token] = uses[token] + 1]
    BY <1>5 DEF Rotate
  <2>4. /\ token \in Nat /\ token <= minted
        /\ \A s \in Sessions : session[s].token = token => s = r
    BY <2>1, ConstantsAssumption DEF TokenBound, Tokens
  <2>5. h \in Holders(token)
    BY <2>1 DEF Holders
  <2> HIDE DEF r, token
  <2>6. \A s \in Sessions : session[s].token \in Nat /\ session[s].token <= minted
    BY ConstantsAssumption DEF TokenBound, TypeOK
  <2>7. \A s \in Sessions : session'[s].token <= minted'
    BY <2>1, <2>2, <2>6
  <2>8. ASSUME NEW g \in Handlers, handler'[g].pc = "refresh"
        PROVE  /\ handler'[g].token <= minted'
               /\ \A s \in Sessions :
                     session'[s].token = handler'[g].token => s = handler'[g].session
    <3>1. handler'[g] = handler[g]
      BY <2>1, <2>8 DEF Becomes, TypeOK
    <3>2. handler[g].token \in Nat /\ handler[g].token <= minted
      BY <2>8, <3>1, HandlerFacts, ConstantsAssumption DEF TokenBound, Tokens
    <3>3. QED
      BY <2>1, <2>2, <2>8, <3>1, <3>2 DEF TokenBound
  <2>9. ASSUME NEW t \in Tokens
        PROVE  /\ (t > minted' \/ \E s \in Sessions : session'[s].token = t) => uses'[t] = 0
               /\ uses'[t] + Cardinality(Holders(t)') <= Cardinality(Handlers)
    <3>1. uses[t] \in Nat /\ Cardinality(Handlers) \in Nat /\ t \in Nat
      BY CountType, ConstantsAssumption DEF TypeOK, Tokens
    <3>2. /\ Cardinality(Holders(t)') <= Cardinality(Holders(t))
          /\ h \in Holders(t) => Cardinality(Holders(t)') + 1 = Cardinality(Holders(t))
          /\ Cardinality(Holders(t)') \in Nat /\ Cardinality(Holders(t)) \in Nat
      BY <2>1, HoldersStep
    <3>3. uses[t] + Cardinality(Holders(t)) <= Cardinality(Handlers)
      BY DEF TokenBound
    <3>4. CASE t = token
      <4>1. uses'[t] = uses[t] + 1
        BY <2>3, <3>4 DEF TypeOK
      <4>2. \A s \in Sessions : session'[s].token # t
        BY <2>1, <2>2, <2>4, <3>4
      <4>3. ~(t > minted')
        BY <2>1, <2>4, <3>4
      <4>4. h \in Holders(t)
        BY <2>5, <3>4
      <4>5. QED
        BY <3>1, <3>2, <3>3, <4>1, <4>2, <4>3, <4>4
    <3>5. CASE t # token
      <4>1. uses'[t] = uses[t]
        BY <2>3, <3>5 DEF TypeOK
      <4>2. (t > minted' \/ \E s \in Sessions : session'[s].token = t) => uses[t] = 0
        BY <2>1, <2>2, <3>1 DEF TokenBound
      <4>3. QED
        BY <3>1, <3>2, <3>3, <4>1, <4>2
    <3>6. QED
      BY <3>4, <3>5
  <2>10. QED
    BY <2>7, <2>8, <2>9 DEF TokenBound
<1>6. ASSUME NEW r \in Sessions, Logout(r) \/ SessionExpires(r)
      PROVE  TokenBound'
  <2>1. /\ \A s \in Sessions : session'[s].token = session[s].token
        /\ UNCHANGED <<minted, uses, handler>>
    BY <1>6 DEF Logout, SessionExpires, TypeOK
  <2>2. QED
    BY <2>1 DEF TokenBound, Holders
<1>7. ASSUME NEW h \in Handlers, HandlerStep(h)
      PROVE  TokenBound'
  <2>1. CASE Login(h)
    BY <1>2, <2>1 DEF Login, LoggingIn, sessionVars
  <2>2. CASE WrongPassword(h) \/ LoginRefused(h) \/ ClearFailures(h)
             \/ WrongCode(h) \/ Confirm(h) \/ Drop(h)
    BY <1>2, <2>2
    DEF WrongPassword, LoginRefused, ClearFailures, WrongCode, Confirm, Drop, Idle, sessionVars
  <2>3. CASE RightCode(h) \/ \E c \in Challenges : Guess(h, c)
    BY <1>2, <2>3 DEF RightCode, Guess, Verified, Guessing, sessionVars
  <2>4. QED
    BY <1>3, <1>4, <1>5, <1>7, <2>1, <2>2, <2>3 DEF HandlerStep
<1>8. CASE SignUp \/ LockEnds \/ Suspend \/ \E c \in Challenges : ChallengeExpires(c)
  BY <1>1, <1>8 DEF SignUp, LockEnds, Suspend, ChallengeExpires, sessionVars
<1>9. CASE UNCHANGED vars
  BY <1>1, <1>9 DEF vars, sessionVars
<1>10. QED
  BY <1>6, <1>7, <1>8, <1>9 DEF Next

-----------------------------------------------------------------------------
(***************************************************************************)
(* Passwords tested between two locks.                                     *)
(***************************************************************************)
LEMMA TestersStep ==
    ASSUME NEW h \in Handlers, TypeOK, NEW x, Becomes(h, x)
    PROVE  /\ x.pc # "login" \/ x.locked =>
                 /\ Cardinality(Admitted') <= Cardinality(Admitted)
                 /\ h \in Admitted => Cardinality(Admitted') + 1 = Cardinality(Admitted)
           /\ x.pc # "login" \/ x.locked \/ Locks(x.failed) =>
                 /\ Cardinality(Unwarned') <= Cardinality(Unwarned)
                 /\ h \in Unwarned => Cardinality(Unwarned') + 1 = Cardinality(Unwarned)
           /\ Cardinality(Admitted') \in Nat /\ Cardinality(Admitted) \in Nat
           /\ Cardinality(Unwarned') \in Nat /\ Cardinality(Unwarned) \in Nat
           /\ Cardinality(Admitted') <= Cardinality(Handlers)
           /\ Cardinality(Unwarned') <= Cardinality(Handlers)
           /\ Cardinality(Handlers) \in Nat
<1>1. handler' = [handler EXCEPT ![h] = x] /\ handler'[h] = x
  BY DEF Becomes, TypeOK
<1>2. /\ Admitted \in SUBSET Handlers /\ Admitted' \in SUBSET Handlers
      /\ Unwarned \in SUBSET Handlers /\ Unwarned' \in SUBSET Handlers
  BY DEF Admitted, Unwarned
<1>3. Admitted' \ {h} = Admitted \ {h} /\ Unwarned' \ {h} = Unwarned \ {h}
  BY <1>1 DEF Admitted, Unwarned, Locks, TypeOK
<1>4. /\ x.pc # "login" \/ x.locked => h \notin Admitted'
      /\ x.pc # "login" \/ x.locked \/ Locks(x.failed) => h \notin Unwarned'
  BY <1>1 DEF Admitted, Unwarned, Locks
<1>5. /\ Cardinality(Admitted') \in Nat /\ Cardinality(Admitted) \in Nat
      /\ Cardinality(Admitted') <= Cardinality(Handlers)
      /\ Cardinality(Handlers) \in Nat
  BY <1>2, CountType
<1>6. /\ Cardinality(Unwarned') \in Nat /\ Cardinality(Unwarned) \in Nat
      /\ Cardinality(Unwarned') <= Cardinality(Handlers)
  BY <1>2, CountType
<1>7. x.pc # "login" \/ x.locked =>
         /\ Cardinality(Admitted') <= Cardinality(Admitted)
         /\ h \in Admitted => Cardinality(Admitted') + 1 = Cardinality(Admitted)
  BY <1>2, <1>3, <1>4, CountStep
<1>8. x.pc # "login" \/ x.locked \/ Locks(x.failed) =>
         /\ Cardinality(Unwarned') <= Cardinality(Unwarned)
         /\ h \in Unwarned => Cardinality(Unwarned') + 1 = Cardinality(Unwarned)
  BY <1>2, <1>3, <1>4, CountStep
<1>9. QED
  BY <1>5, <1>6, <1>7, <1>8

LEMMA TriesStep ==
    ASSUME TypeOK, TriesBound, [Next]_vars
    PROVE  TriesBound'
<1>0. tries \in Nat /\ failed \in 0..LockAt /\ LockAt \in Nat /\ LockAt >= 2
  BY ConstantsAssumption DEF TypeOK
<1>1. CASE UNCHANGED <<failed, locked, tries, handler>>
  BY <1>1 DEF TriesBound, Unwarned, Admitted, Locks
<1>2. ASSUME NEW h \in Handlers, NEW x, x.pc # "login", Becomes(h, x),
             UNCHANGED <<failed, locked, tries>>
      PROVE  TriesBound'
  BY <1>0, <1>2, TestersStep DEF TriesBound
<1>3. ASSUME NEW h \in Handlers, Login(h)
      PROVE  TriesBound'
  <2>1. /\ Becomes(h, LoggingIn) /\ UNCHANGED <<failed, locked, tries>>
        /\ LoggingIn.failed = failed /\ LoggingIn.locked = locked
    BY <1>3 DEF Login, LoggingIn, userVars
  <2>2. CASE locked
    <3>1. LoggingIn.locked
      BY <2>1, <2>2
    <3>2. /\ Cardinality(Admitted') <= Cardinality(Admitted)
          /\ Cardinality(Admitted') \in Nat /\ Cardinality(Admitted) \in Nat
          /\ Cardinality(Handlers) \in Nat
      BY <2>1, <3>1, TestersStep
    <3>3. failed' = failed /\ tries' = tries /\ locked'
      BY <2>1, <2>2
    <3>4. QED
      BY <1>0, <3>2, <3>3 DEF TriesBound
  <2>3. CASE ~locked /\ Locks(failed)
    BY <1>0, <2>1, <2>3, TestersStep DEF TriesBound
  <2>4. CASE ~locked /\ ~Locks(failed)
    <3>1. failed <= LockAt - 2 /\ tries <= LockAt - 2
      BY <1>0, <2>4 DEF Locks, TriesBound
    <3>2. QED
      BY <1>0, <2>1, <2>4, <3>1, TestersStep DEF TriesBound
  <2>5. QED
    BY <2>2, <2>3, <2>4
<1>4. ASSUME NEW h \in Handlers, WrongPassword(h)
      PROVE  TriesBound'
  <2>1. /\ handler[h].pc = "login" /\ Becomes(h, Idle) /\ Idle.pc # "login"
        /\ failed' = IF failed = LockAt THEN failed ELSE failed + 1
        /\ locked' = (locked \/ Locks(handler[h].failed))
        /\ handler[h].locked \in BOOLEAN
    BY <1>4, HandlerFacts DEF WrongPassword, Idle
  <2>2. CASE handler[h].locked
    <3>1. tries' = tries
      BY <1>4, <2>2 DEF WrongPassword
    <3>2. /\ Cardinality(Admitted') <= Cardinality(Admitted)
          /\ Cardinality(Unwarned') <= Cardinality(Unwarned)
          /\ Cardinality(Admitted') \in Nat /\ Cardinality(Admitted) \in Nat
          /\ Cardinality(Unwarned') \in Nat /\ Cardinality(Unwarned) \in Nat
          /\ Cardinality(Handlers) \in Nat
      BY <2>1, TestersStep
    <3>3. ~locked' => ~locked
      BY <2>1, Zenon
    <3>4. failed' < LockAt => failed < LockAt /\ failed' = failed + 1
      BY <1>0, <2>1
    <3>5. QED
      BY <1>0, <3>1, <3>2, <3>3, <3>4 DEF TriesBound
  <2>3. CASE ~handler[h].locked
    <3>1. tries' = tries + 1 /\ h \in Admitted
      BY <1>4, <2>1, <2>3 DEF WrongPassword, Admitted
    <3>2. ~locked' => ~locked /\ h \in Unwarned
      BY <2>1, <3>1 DEF Unwarned
    <3>3. /\ Cardinality(Admitted') + 1 = Cardinality(Admitted)
          /\ h \in Unwarned => Cardinality(Unwarned') + 1 = Cardinality(Unwarned)
          /\ Cardinality(Admitted') \in Nat /\ Cardinality(Unwarned') \in Nat
          /\ Cardinality(Handlers) \in Nat
      BY <2>1, <3>1, TestersStep
    <3>4. QED
      BY <1>0, <2>1, <3>1, <3>2, <3>3 DEF TriesBound
  <2>4. QED
    BY <2>2, <2>3
<1>5. ASSUME NEW h \in Handlers, ClearFailures(h)
      PROVE  TriesBound'
  <2>1. /\ Becomes(h, Idle) /\ Idle.pc # "login"
        /\ failed' = 0 /\ tries' = 0
    BY <1>5 DEF ClearFailures, Idle
  <2>2. QED
    BY <1>0, <2>1, TestersStep DEF TriesBound
<1>6. CASE LockEnds
  <2>1. tries' = 0 /\ failed' = failed /\ Admitted' = Admitted /\ Unwarned' = Unwarned
    BY <1>6 DEF LockEnds, Admitted, Unwarned, Locks
  <2>2. /\ Cardinality(Admitted) <= Cardinality(Handlers)
        /\ Cardinality(Unwarned) <= Cardinality(Handlers)
        /\ Cardinality(Admitted) \in Nat /\ Cardinality(Unwarned) \in Nat
        /\ Cardinality(Handlers) \in Nat
    BY CountType, CountedAreHandlers
  <2>3. /\ Cardinality(Admitted') = Cardinality(Admitted)
        /\ Cardinality(Unwarned') = Cardinality(Unwarned)
    BY <2>1, Zenon
  <2>4. QED
    BY <1>0, <2>1, <2>2, <2>3 DEF TriesBound
<1>7. ASSUME NEW h \in Handlers, HandlerStep(h)
      PROVE  TriesBound'
  <2>1. CASE LoginRefused(h) \/ WrongCode(h) \/ Confirm(h) \/ Drop(h) \/ Rotate(h)
    BY <1>2, <2>1 DEF LoginRefused, WrongCode, Confirm, Drop, Rotate, Idle, userVars
  <2>2. CASE RightCode(h) \/ \E c \in Challenges : Guess(h, c)
    BY <1>2, <2>2 DEF RightCode, Guess, Verified, Guessing, userVars
  <2>3. CASE OpenSession(h) \/ \E token \in Tokens : Refresh(h, token)
    BY <1>2, <2>3 DEF OpenSession, Refresh, InSession, Refreshing, userVars
  <2>4. QED
    BY <1>3, <1>4, <1>5, <1>7, <2>1, <2>2, <2>3 DEF HandlerStep
<1>8. CASE SignUp \/ Suspend \/ \E c \in Challenges : ChallengeExpires(c)
  BY <1>1, <1>8 DEF SignUp, Suspend, ChallengeExpires, userVars
<1>9. CASE \E s \in Sessions : Logout(s) \/ SessionExpires(s)
  BY <1>1, <1>9 DEF Logout, SessionExpires, userVars
<1>10. CASE UNCHANGED vars
  BY <1>1, <1>10 DEF vars, userVars
<1>11. QED
  BY <1>6, <1>7, <1>8, <1>9, <1>10 DEF Next

-----------------------------------------------------------------------------
(***************************************************************************)
(* The e-mail code and the suspension.                                     *)
(***************************************************************************)
LEMMA CodeStep ==
    ASSUME TypeOK, CodeSpent, [Next]_vars
    PROVE  CodeSpent'
<1> USE DEF CodeSpent
<1>1. CASE UNCHANGED <<status, challenge, handler, sealed>>
  BY <1>1 DEF CodeInFlight, ByEmail
<1>2. ASSUME NEW h \in Handlers, NEW x, x.pc \notin {"guess", "verified"}, Becomes(h, x),
             UNCHANGED <<status, challenge, sealed>>
      PROVE  CodeSpent'
  <2>1. \A g \in Handlers : handler'[g].pc \in {"guess", "verified"} => handler'[g] = handler[g]
    BY <1>2 DEF Becomes, TypeOK
  <2>2. CodeInFlight' => CodeInFlight
    BY <2>1 DEF CodeInFlight, ByEmail
  <2>3. QED
    BY <1>2, <2>1, <2>2 DEF ByEmail
<1>3. CASE SignUp
  <2>1. \A h \in Handlers : handler'[h].pc \notin {"guess", "verified"}
    BY <1>3 DEF SignUp
  <2>2. QED
    BY <1>3, <2>1 DEF SignUp
<1>4. ASSUME NEW h \in Handlers, NEW c \in Challenges, Guess(h, c)
      PROVE  CodeSpent'
  <2>1. /\ challenge[c].state = "OPEN" /\ status # "NONE"
        /\ UNCHANGED <<status, challenge, sealed>>
    BY <1>4 DEF Guess, userVars
  <2>2. /\ handler'[h].pc = "guess" /\ handler'[h].challenge = c
        /\ \A g \in Handlers \ {h} : handler'[g] = handler[g]
    BY <1>4 DEF Guess, Becomes, Guessing, TypeOK
  <2>3. sealed => ~CodeInFlight'
    BY <2>1, <2>2 DEF CodeInFlight, ByEmail
  <2>4. QED
    BY <2>1, <2>2, <2>3 DEF ByEmail
<1>5. ASSUME NEW h \in Handlers, WrongCode(h)
      PROVE  CodeSpent'
  <2>1. handler[h].pc = "guess" /\ handler[h].challenge \in Challenges /\ status # "NONE"
    BY <1>5, HandlerFacts DEF WrongCode
  <2>2. \A c \in Challenges : challenge'[c].state = challenge[c].state
    BY <1>5 DEF WrongCode, TypeOK
  <2>3. \A g \in Handlers : handler'[g].pc \in {"guess", "verified"} => handler'[g] = handler[g]
    BY <1>5 DEF WrongCode, Becomes, Idle, TypeOK
  <2>4. CodeInFlight' => CodeInFlight
    BY <2>3 DEF CodeInFlight, ByEmail
  <2>5. UNCHANGED <<status, sealed>>
    BY <1>5 DEF WrongCode, userVars
  <2>6. QED
    BY <2>1, <2>2, <2>3, <2>4, <2>5, HandlerFacts DEF ByEmail
<1>6. ASSUME NEW h \in Handlers, RightCode(h)
      PROVE  CodeSpent'
  <2> DEFINE d == handler[h].challenge
  <2>1. handler[h].pc = "guess" /\ d \in Challenges /\ status # "NONE"
    BY <1>6, HandlerFacts DEF RightCode
  <2>2. /\ challenge'[d].state # "OPEN"
        /\ \A c \in Challenges \ {d} : challenge'[c] = challenge[c]
    BY <1>6, <2>1 DEF RightCode, Consumed, TypeOK
  <2>3. /\ handler'[h].pc = "verified" /\ handler'[h].challenge = d
        /\ \A g \in Handlers \ {h} : handler'[g] = handler[g]
    BY <1>6 DEF RightCode, Becomes, Verified, TypeOK
  <2>4. UNCHANGED <<status, sealed>>
    BY <1>6 DEF RightCode, userVars
  <2> HIDE DEF d
  <2>5. \A g \in Handlers : handler'[g].pc = "verified" =>
           challenge'[handler'[g].challenge].state # "OPEN"
    BY <2>1, <2>2, <2>3, HandlerFacts
  <2>6. CodeInFlight' => CodeInFlight
    BY <2>1, <2>3 DEF CodeInFlight, ByEmail, d
  <2>7. \A c \in Challenges : challenge[c].state # "OPEN" => challenge'[c].state # "OPEN"
    BY <2>1, <2>2
  <2>8. QED
    BY <2>1, <2>4, <2>5, <2>6, <2>7 DEF ByEmail
<1>7. ASSUME NEW h \in Handlers, Confirm(h)
      PROVE  CodeSpent'
  <2> DEFINE d == handler[h].challenge
  <2>1. /\ handler[h].pc = "verified" /\ d \in Challenges /\ status # "NONE"
        /\ challenge[d].state # "OPEN" /\ UNCHANGED <<challenge, sealed>>
    BY <1>7, HandlerFacts DEF Confirm
  <2>2. \A g \in Handlers : handler'[g].pc \in {"guess", "verified"} => handler'[g] = handler[g]
    BY <1>7 DEF Confirm, Becomes, Idle, TypeOK
  <2>3. CodeInFlight' => CodeInFlight
    BY <2>2 DEF CodeInFlight, ByEmail
  <2>4. CASE d \in ByEmail
    <3>1. status' = "ACTIVE" /\ ~sealed
      BY <1>7, <2>1, <2>4 DEF Confirm, ByEmail, CodeInFlight
    <3>2. \A c \in ByEmail : c = d
      BY <2>4, ConstantsAssumption DEF ByEmail
    <3>3. QED
      BY <2>1, <2>2, <3>1, <3>2 DEF ByEmail
  <2>5. CASE d \notin ByEmail
    <3>1. status' = status
      BY <1>7, <2>1, <2>5 DEF Confirm, ByEmail
    <3>2. QED
      BY <2>1, <2>2, <2>3, <3>1 DEF ByEmail
  <2>6. QED
    BY <2>4, <2>5
<1>8. ASSUME NEW d \in Challenges, ChallengeExpires(d)
      PROVE  CodeSpent'
  <2>1. /\ challenge[d].state = "OPEN" /\ challenge'[d].state # "OPEN"
        /\ \A c \in Challenges \ {d} : challenge'[c] = challenge[c]
    BY <1>8 DEF ChallengeExpires, TypeOK
  <2>2. UNCHANGED <<status, handler, sealed>>
    BY <1>8 DEF ChallengeExpires, userVars
  <2>3. \A c \in Challenges : challenge[c].state # "OPEN" => challenge'[c].state # "OPEN"
    BY <2>1
  <2>4. QED
    BY <2>1, <2>2, <2>3, HandlerFacts DEF CodeInFlight, ByEmail
<1>9. CASE Suspend
  <2>1. /\ status # "NONE" /\ status' = "SUSPENDED" /\ UNCHANGED <<challenge, handler>>
        /\ sealed' = (sealed \/ (status = "ACTIVE" /\ ~CodeInFlight))
    BY <1>9 DEF Suspend
  <2>2. QED
    BY <2>1 DEF CodeInFlight, ByEmail
<1>10. ASSUME NEW h \in Handlers, HandlerStep(h)
       PROVE  CodeSpent'
  <2>1. CASE Login(h)
    BY <1>2, <2>1 DEF Login, LoggingIn, userVars
  <2>2. CASE WrongPassword(h) \/ LoginRefused(h) \/ ClearFailures(h) \/ Rotate(h) \/ Drop(h)
    BY <1>2, <2>2
    DEF WrongPassword, LoginRefused, ClearFailures, Rotate, Drop, Idle, userVars
  <2>3. CASE OpenSession(h) \/ \E token \in Tokens : Refresh(h, token)
    BY <1>2, <2>3 DEF OpenSession, Refresh, InSession, Refreshing, userVars
  <2>4. QED
    BY <1>4, <1>5, <1>6, <1>7, <1>10, <2>1, <2>2, <2>3 DEF HandlerStep
<1>11. CASE LockEnds \/ \E s \in Sessions : Logout(s) \/ SessionExpires(s)
  BY <1>1, <1>11 DEF LockEnds, Logout, SessionExpires, userVars
<1>12. CASE UNCHANGED vars
  BY <1>1, <1>12 DEF vars, userVars
<1>13. QED
  BY <1>3, <1>8, <1>9, <1>10, <1>11, <1>12 DEF Next

-----------------------------------------------------------------------------
(***************************************************************************)
(* Theorems.                                                               *)
(***************************************************************************)
THEOREM Invariance == Spec => []IInv
<1>1. Init => IInv
  BY InitIInv
<1>2. IInv /\ [Next]_vars => IInv'
  BY TypeStep, GuessStep, LogoutStep, TokenStep, TriesStep, CodeStep DEF IInv
<1>3. QED
  BY <1>1, <1>2, PTL DEF Spec

\* Users, sessions, challenges and requests keep their types, and no two
\* sessions share a token.
THEOREM TypeCorrect == Spec => []TypeOK
<1>1. IInv => TypeOK
  BY DEF IInv
<1>2. QED
  BY <1>1, Invariance, PTL

\* However many logins run at once, the passwords they test between two
\* locks are bounded.
THEOREM TriesBounded == Spec => []PasswordTriesAreBounded
<1>1. IInv => PasswordTriesAreBounded
  <2> SUFFICES ASSUME IInv PROVE PasswordTriesAreBounded
    OBVIOUS
  <2>1. tries \in Nat /\ LockAt \in Nat
    BY ConstantsAssumption DEF IInv, TypeOK
  <2>2. Cardinality(Admitted) \in Nat /\ Cardinality(Handlers) \in Nat
    BY CountType, CountedAreHandlers
  <2>3. QED
    BY <2>1, <2>2 DEF IInv, TriesBound, PasswordTriesAreBounded
<1>2. QED
  BY <1>1, Invariance, PTL

\* After a logout no request but those in flight refreshes the session.
THEOREM LogoutsAreFinal == Spec => []LogoutIsFinal
<1>1. IInv => LogoutIsFinal
  <2> SUFFICES ASSUME IInv, NEW s \in Sessions
               PROVE  late[s] <= Cardinality(Handlers)
    BY DEF LogoutIsFinal
  <2>1. /\ late[s] \in Nat
        /\ Cardinality(Refreshers(s)) \in Nat /\ Cardinality(Handlers) \in Nat
    BY CountType, CountedAreHandlers DEF IInv, TypeOK
  <2>2. QED
    BY <2>1 DEF IInv, LogoutBound
<1>2. QED
  BY <1>1, Invariance, PTL

\* A token rotates once, or once for each request that held it already.
THEOREM TokensAreSingleUse == Spec => []TokenIsSingleUse
<1>1. IInv => TokenIsSingleUse
  <2> SUFFICES ASSUME IInv, NEW t \in Tokens
               PROVE  uses[t] <= Cardinality(Handlers)
    BY DEF TokenIsSingleUse
  <2>1. /\ uses[t] \in Nat
        /\ Cardinality(Holders(t)) \in Nat /\ Cardinality(Handlers) \in Nat
    BY CountType, CountedAreHandlers DEF IInv, TypeOK
  <2>2. QED
    BY <2>1 DEF IInv, TokenBound
<1>2. QED
  BY <1>1, Invariance, PTL

\* The codes tested on a challenge exceed its limit by the other requests
\* in flight at most.
THEOREM GuessesBounded == Spec => []GuessesAreBounded
<1>1. IInv => GuessesAreBounded
  <2> SUFFICES ASSUME IInv, NEW c \in Challenges
               PROVE  guesses[c] <= OtpMax - 1 + Cardinality(Handlers)
    BY DEF GuessesAreBounded
  <2>1. /\ guesses[c] \in Nat /\ OtpMax \in Nat
        /\ Cardinality(Guessers(c)) \in Nat /\ Cardinality(Handlers) \in Nat
    BY CountType, CountedAreHandlers, ConstantsAssumption DEF IInv, TypeOK
  <2>2. QED
    BY <2>1 DEF IInv, GuessBound
<1>2. QED
  BY <1>1, Invariance, PTL

\* A suspension of an active user lasts.
THEOREM SuspensionLasts == Spec => []SealedStaysSuspended
<1>1. IInv => SealedStaysSuspended
  BY DEF IInv, CodeSpent, SealedStaysSuspended
<1>2. QED
  BY <1>1, Invariance, PTL
=============================================================================
