------------------------------- MODULE Fraud -------------------------------
(***************************************************************************)
(* The fraud engine as a function: an event, the context it came in, and   *)
(* what the rules find in the database give a set of reasons, and the      *)
(* reasons give a verdict.  No rule writes, so nothing here has a state;   *)
(* the risk events and alerts the engine files are read by no code of the  *)
(* repository that decides anything.                                       *)
(***************************************************************************)
EXTENDS Integers, FiniteSets, Functions

ReviewAt == 40
BlockAt  == 80

\* [kind, usd, success, blacklisted]: blacklisted is an on-chain withdrawal
\* to a known bad address, success is whether a login or a code was right.
EventType ==
    [kind : {"auth.login", "auth.otp_attempt", "transfer.initiate",
             "withdrawal.initiate", "wallet.address_added"},
     usd : Nat, success : BOOLEAN, blacklisted : BOOLEAN]

\* What the context says (fingerprint: one was sent, abroad: a country was
\* told and is not the user's) and what the database counts.
FactsType ==
    [fingerprint : BOOLEAN, abroad : BOOLEAN, trusted : BOOLEAN,
     failedOtp : Nat,   \* challenges with wrong codes, last 15 minutes
     withdrawals : Nat, \* last hour
     transfers : Nat,   \* last 10 minutes
     completed : Nat,   \* COMPLETED transactions, ever
     sharers : Nat]     \* users who have a device with this fingerprint

MovesMoney(e) == e.kind \in {"transfer.initiate", "withdrawal.initiate"}

\* A rule gives one reason or none.
Reason(cond, rule, severity, score) ==
    {r \in {[rule |-> rule, severity |-> severity, score |-> score]} : cond}

ExactlyAt(count, bound) == count = bound
AtLeast(count, bound) == count >= bound

TooManyFailedOtp(e, f) ==
    Reason(e.kind = "auth.otp_attempt" /\ ~e.success /\ AtLeast(f.failedOtp, 5),
           "too_many_failed_otp", "HIGH", 40)

UnusualCountryLogin(e, f) ==
    Reason(e.kind = "auth.login" /\ e.success /\ f.abroad,
           "unusual_country_login", "MEDIUM", 20)

\* A device that was seen but never marked as trusted counts as new.
NewDeviceHighValue(e, f) ==
    LET high == MovesMoney(e) /\ AtLeast(e.usd, 500)
    IN  Reason(high /\ ~f.fingerprint,
               "new_device_high_value_transfer", "MEDIUM", 15)
        \cup Reason(high /\ f.fingerprint /\ ~f.trusted,
                    "new_device_high_value_transfer", "HIGH", 35)

HighVelocityWithdrawals(e, f) ==
    Reason(e.kind = "withdrawal.initiate" /\ AtLeast(f.withdrawals, 5),
           "high_velocity_withdrawals", "HIGH", 30)

TooManyTransfers(e, f) ==
    Reason(e.kind = "transfer.initiate" /\ AtLeast(f.transfers, 10),
           "too_many_transfers", "MEDIUM", 20)

LargeFirstIgnored(e, f) == {}
LargeFirstTransaction(e, f) ==
    Reason(MovesMoney(e) /\ AtLeast(e.usd, 1000) /\ f.completed = 0,
           "large_first_transaction", "HIGH", 35)

SharedDevice(e, f) ==
    Reason(/\ f.fingerprint
           /\ MovesMoney(e) \/ e.kind = "auth.login"
           /\ AtLeast(f.sharers, 3),
           "many_accounts_same_device", "HIGH", 30)

BlacklistedAddress(e, f) ==
    Reason(e.kind = "withdrawal.initiate" /\ e.blacklisted,
           "blacklisted_wallet_address", "CRITICAL", 100)

Matched(e, f) ==
    UNION {TooManyFailedOtp(e, f), UnusualCountryLogin(e, f),
           NewDeviceHighValue(e, f), HighVelocityWithdrawals(e, f),
           TooManyTransfers(e, f), LargeFirstTransaction(e, f),
           SharedDevice(e, f), BlacklistedAddress(e, f)}

Score(reasons) == SumFunctionOnSet([r \in reasons |-> r.score], reasons)

Decision(reasons) ==
    IF (\E r \in reasons : r.severity = "CRITICAL") \/ Score(reasons) >= BlockAt
    THEN "BLOCK"
    ELSE IF Score(reasons) >= ReviewAt THEN "REVIEW" ELSE "ALLOW"

\* FraudEngine.evaluate.
Verdict(e, f) == Decision(Matched(e, f))

-----------------------------------------------------------------------------
(***************************************************************************)
(* The rules add up: more money, more recent traffic, more users on the    *)
(* device or less history never make a verdict milder.  A count that has   *)
(* passed its threshold must go on counting, and rules for neighbouring    *)
(* amounts must not replace one another.  The fingerprint is left as it    *)
(* is, because a request without one skips two rules and scores less.      *)
(***************************************************************************)
Rank(v) == CASE v = "ALLOW" -> 0 [] v = "REVIEW" -> 1 [] v = "BLOCK" -> 2

NearThresholds ==
    [fingerprint : BOOLEAN, abroad : {FALSE}, trusted : BOOLEAN,
     failedOtp : {0}, withdrawals : {4, 5}, transfers : {9, 10},
     completed : {0, 1}, sharers : {2, 3}]

Raised(f) ==
    {[f EXCEPT !.withdrawals = @ + 1], [f EXCEPT !.transfers = @ + 1],
     [f EXCEPT !.sharers = @ + 1], [f EXCEPT !.completed = 0],
     [f EXCEPT !.trusted = FALSE]}

IsMonotoneAt(e, f) ==
    LET rank(u, g) == Rank(Verdict([e EXCEPT !.usd = u], g))
    IN  /\ \A u \in {499, 500, 999, 1000}, g \in Raised(f) : rank(u, f) <= rank(u, g)
        /\ \A u, v \in {499, 500, 999, 1000, e.usd} :
              u <= v => rank(u, f) <= rank(v, f)
        /\ e.blacklisted /\ e.kind = "withdrawal.initiate" => rank(e.usd, f) = 2
=============================================================================
