------------------------------- MODULE Pricing -------------------------------
(***************************************************************************)
(* The price of a quote: the rate of the feed, the fee and the spread of   *)
(* the rail, and what is received.  The Decimals of the code, of 50        *)
(* digits, are exact fractions here; that the fee is rounded to 8 decimals *)
(* and the rows to 18 is left out.  The step that can fail gives a set:    *)
(* of one rate or one quote, or empty where the code throws.               *)
(***************************************************************************)
EXTENDS Integers

CONSTANT Rate \* the latest ExchangeRate row of each pair that has one

ASSUME RateAssumption ==
    \A p \in DOMAIN Rate : Rate[p] \in [n : Nat \ {0}, d : Nat \ {0}]

(***************************************************************************)
(* Fractions, in lowest terms.                                             *)
(***************************************************************************)
Gcd[p \in Nat \X Nat] == IF p[2] = 0 THEN p[1] ELSE Gcd[<<p[2], p[1] % p[2]>>]

Frac(n, d) == LET g == Gcd[<<n, d>>] IN [n |-> n \div g, d |-> d \div g]
Whole(n) == Frac(n, 1)

\* Cancelled crosswise first, so that no product is larger than it must be.
Times(x, y) ==
    LET u == Frac(x.n, y.d)
        v == Frac(y.n, x.d)
    IN  [n |-> u.n * v.n, d |-> u.d * v.d]
Plus(x, y)  == Frac(x.n * y.d + y.n * x.d, x.d * y.d)
Minus(x, y) == Frac(x.n * y.d - y.n * x.d, x.d * y.d)
AtMost(x, y) == x.n * y.d <= y.n * x.d

Over(x, y) == Times(x, [n |-> y.d, d |-> y.n])

NotInverted(x) == x
Inverted(x) == Over(Whole(1), x)

(***************************************************************************)
(* DatabasePriceFeed.getRate: 1 base is so much of quote.                  *)
(***************************************************************************)
DirectOrInverse(base, quote) ==
    IF <<base, quote>> \in DOMAIN Rate THEN {Rate[<<base, quote>>]}
    ELSE {Inverted(Rate[p]) : p \in {<<quote, base>>} \cap DOMAIN Rate}

GetRate(base, quote) ==
    IF base = quote THEN {Whole(1)}
    ELSE IF DirectOrInverse(base, quote) # {} THEN DirectOrInverse(base, quote)
    ELSE {Times(r, s) : r \in DirectOrInverse(base, "USD"),
                        s \in DirectOrInverse("USD", quote)}

(***************************************************************************)
(* computePricing, by rail and country.                                    *)
(***************************************************************************)
RailBps ==
    [internal |-> 0, ethereum |-> 25, polygon |-> 15, base |-> 15, solana |-> 15,
     stellar |-> 10, mpesa |-> 60, mtn |-> 60, orange |-> 70, airtel |-> 70,
     flutterwave |-> 50, paystack |-> 50, generic |-> 80, card |-> 190]

RailFixedFeeUsd ==
    [internal |-> Whole(0), ethereum |-> Frac(3, 2), polygon |-> Frac(1, 10),
     base |-> Frac(3, 20), solana |-> Frac(1, 20), stellar |-> Frac(1, 100),
     mpesa |-> Frac(3, 10), mtn |-> Frac(3, 10), orange |-> Frac(3, 10),
     airtel |-> Frac(3, 10), flutterwave |-> Frac(1, 2), paystack |-> Frac(1, 2),
     generic |-> Whole(1), card |-> Frac(3, 10)]

RegionBps == [NG |-> 10, KE |-> 5, GH |-> 10, ZA |-> 5]

SpreadBps(rail, country) ==
    RailBps[rail] + (IF country \in DOMAIN RegionBps THEN RegionBps[country] ELSE 0)

\* usdRate: 1 USD is so much of the source currency.  The fee in USD is
\* divided by it, as the code does, although that gives dollars per unit.
FeeAmount(rail, amount, usdRate) ==
    Plus(Over(RailFixedFeeUsd[rail], usdRate), Times(amount, Frac(10, 10000)))

(***************************************************************************)
(* QuoteService.create.  An ask gives the amount on one side: what is sent *)
(* or what should be received at the spot rate, before spread and fee.     *)
(***************************************************************************)
QuotesOf(ask) ==
    UNION {
        LET amount == IF ask.side = "from" THEN Whole(ask.amount)
                      ELSE Over(Whole(ask.amount), spot)
            fee == FeeAmount(ask.rail, amount, usdRate)
            kept == Frac(10000 - SpreadBps(ask.rail, ask.country), 10000)
        IN  {[from |-> ask.from, to |-> ask.to, amount |-> amount, fee |-> x,
              receive |-> Times(Minus(amount, x), Times(spot, kept))] :
                x \in {y \in {fee} : AtMost(y, amount)}} :
        spot \in GetRate(ask.from, ask.to), usdRate \in GetRate("USD", ask.from)}
=============================================================================
