------------------------ MODULE PaymentsEscrowProofs ------------------------
(***************************************************************************)
(* Payments implements Escrow, for every value of the constants: any       *)
(* number of users, wallets, quotes, keys, API processes and admins, with  *)
(* any spread, and whatever is in SUSPENSE at the start.                   *)
(***************************************************************************)
EXTENDS PaymentsEscrow, PaymentsProofs

-----------------------------------------------------------------------------
(***************************************************************************)
(* An item of a withdrawal comes with its reservation.  And the decisions  *)
(* made, with those that are under way, are no more than the admins: while *)
(* the item is PENDING none was made, and from the first one on nobody     *)
(* finds it PENDING any more.                                              *)
(***************************************************************************)
ItemsReserved ==
    \A k \in WithdrawalKeys : item[k] # "NONE" => postings[k]["reserve"] > 0

Reading(k) == {d \in Deciders : decider[d].pc = "read" /\ decider[d].key = k}

AdminsSuffice ==
    \A k \in WithdrawalKeys :
        Decisions(k) + Cardinality(Reading(k)) <= Cardinality(Deciders)

EInv == IInv /\ ItemsReserved /\ AdminsSuffice

DecisionsMade == [k \in WithdrawalKeys |-> Decisions(k)]
Pots          == [c \in Currencies |-> SuspenseIn(balance, c)]

-----------------------------------------------------------------------------
(***************************************************************************)
(* Lemmas on the mapping.                                                  *)
(***************************************************************************)
LEMMA WithdrawalFacts ==
    ASSUME NEW k \in WithdrawalKeys
    PROVE  /\ k \in Keys /\ ~IsTransfer(k)
           /\ Currency(k) \in Currencies
           /\ Debit(k) \in Nat /\ Release(k) \in Nat
<1>1. k \in Keys /\ ~IsTransfer(k)
  BY DEF WithdrawalKeys
<1>2. Source(k) \in Wallets /\ Debit(k) \in Nat /\ Release(k) \in Nat
  BY <1>1, RequestFacts
<1>3. QED
  BY <1>1, <1>2 DEF Source, Wallets

LEMMA DecisionFacts ==
    ASSUME TypeOK, NEW k \in WithdrawalKeys
    PROVE  /\ postings[k]["reserve"] \in Nat /\ postings[k]["approve"] \in Nat
           /\ postings[k]["reject"] \in Nat /\ Decisions(k) \in Nat
BY WithdrawalFacts DEF TypeOK, Memos, Decisions

\* How many admins there are, and how many have an item open.
LEMMA ReadingFacts ==
    ASSUME NEW k
    PROVE  /\ IsFiniteSet(Reading(k)) /\ IsFiniteSet(Deciders)
           /\ Cardinality(Deciders) \in Nat /\ Cardinality(Reading(k)) \in Nat
           /\ Cardinality(Reading(k)) <= Cardinality(Deciders)
<1>1. Reading(k) \subseteq Deciders
  BY DEF Reading
<1>2. QED
  BY <1>1, FinitelyManyRows, FS_Subset, FS_CardinalityType

\* Where a SUSPENSE account is, and where it is not.
LEMMA SuspenseAccounts ==
    ASSUME NEW c \in Currencies
    PROVE  /\ <<"SUSPENSE", c>> \notin Wallets
           /\ \A k \in Keys :
                 /\ SystemAccount("SYSTEM_FEE", k) # <<"SUSPENSE", c>>
                 /\ SystemAccount("EXTERNAL_RAIL", k) # <<"SUSPENSE", c>>
                 /\ SystemAccount("SUSPENSE", k) = <<"SUSPENSE", c>> <=> c = Currency(k)
BY ConstantsAssumption DEF Wallets, SystemKinds, SystemAccount

\* What each posting does to SUSPENSE.
LEMMA SuspenseLegs ==
    ASSUME TypeOK, NEW k \in Keys, NEW c \in Currencies, NEW s, s = <<"SUSPENSE", c>>,
           s \in System
    PROVE  /\ TransferLegs(k)[s] = balance[s] /\ SendLegs(k)[s] = balance[s]
           /\ ReserveLegs(k)[s] = IF c = Currency(k) THEN balance[s] + Debit(k) ELSE balance[s]
           /\ RejectLegs(k)[s] = IF c = Currency(k) THEN balance[s] - Release(k) ELSE balance[s]
           /\ ApproveLegs(k)[s] = IF c = Currency(k) THEN balance[s] - Release(k)
                                  ELSE balance[s]
<1> DEFINE fee == SystemAccount("SYSTEM_FEE", k)
           rail == SystemAccount("EXTERNAL_RAIL", k)
           suspense == SystemAccount("SUSPENSE", k)
<1>1. /\ fee # s /\ rail # s /\ fee # suspense /\ rail # suspense
      /\ suspense = s <=> c = Currency(k)
      /\ Source(k) # s /\ Target(k) # s
  <2>1. Source(k) \in Wallets /\ Target(k) \in Wallets
    BY RequestFacts
  <2>2. fee # suspense /\ rail # suspense
    BY DEF SystemAccount
  <2>3. QED
    BY <2>1, <2>2, SuspenseAccounts
<1>2. balance \in [Accounts -> Int] /\ s \in Accounts
  BY DEF TypeOK, Accounts
<1>3. Source(k) # suspense
  BY RequestFacts, SystemIsNotWallet DEF SystemKinds
<1> HIDE DEF fee, rail, suspense
<1>4. TransferLegs(k)[s] = balance[s] /\ SendLegs(k)[s] = balance[s]
  BY <1>1, <1>2 DEF TransferLegs, SendLegs, fee, rail
<1>5. ReserveLegs(k)[s] = IF c = Currency(k) THEN balance[s] + Debit(k) ELSE balance[s]
  BY <1>1, <1>2, <1>3 DEF ReserveLegs, suspense
<1>6. RejectLegs(k)[s] = IF c = Currency(k) THEN balance[s] - Release(k) ELSE balance[s]
  BY <1>1, <1>2, <1>3 DEF RejectLegs, suspense
<1>7. ApproveLegs(k)[s] = IF c = Currency(k) THEN balance[s] - Release(k) ELSE balance[s]
  BY <1>1, <1>2 DEF ApproveLegs, suspense, rail, fee
<1>8. QED
  BY <1>4, <1>5, <1>6, <1>7

\* A step that makes no posting on a held withdrawal, and moves nothing in
\* SUSPENSE, is no step of Escrow.
LEMMA Stutter ==
    ASSUME \A k \in WithdrawalKeys :
              /\ postings'[k]["reserve"] = postings[k]["reserve"]
              /\ postings'[k]["approve"] = postings[k]["approve"]
              /\ postings'[k]["reject"] = postings[k]["reject"],
           \A c \in Currencies :
              <<"SUSPENSE", c>> \in System =>
                 balance'[<<"SUSPENSE", c>>] = balance[<<"SUSPENSE", c>>]
    PROVE  UNCHANGED <<HeldKeys, DecisionsMade, Pots>>
<1>1. HeldKeys' = HeldKeys
  BY DEF HeldKeys, WithdrawalKeys, IsTransfer
<1>2. \A k \in WithdrawalKeys : Decisions(k)' = Decisions(k)
  BY DEF Decisions
<1>3. \A c \in Currencies : SuspenseIn(balance, c)' = SuspenseIn(balance, c)
  BY DEF SuspenseIn
<1>4. QED
  BY <1>1, <1>2, <1>3 DEF DecisionsMade, Pots, WithdrawalKeys, IsTransfer

\* A step that takes delta into the SUSPENSE account of one withdrawal.
LEMMA PotMoves ==
    ASSUME NEW k \in WithdrawalKeys, NEW delta \in Int,
           <<"SUSPENSE", Currency(k)>> \in System,
           \A c \in Currencies :
              <<"SUSPENSE", c>> \in System =>
                 balance'[<<"SUSPENSE", c>>] =
                    IF c = Currency(k) THEN balance[<<"SUSPENSE", c>>] + delta
                    ELSE balance[<<"SUSPENSE", c>>]
    PROVE  Pots' = [Pots EXCEPT ![Currency(k)] = Pots[Currency(k)] + delta]
<1>1. Currency(k) \in Currencies
  BY WithdrawalFacts
<1>2. \A c \in Currencies :
         SuspenseIn(balance, c)' = IF c = Currency(k) THEN SuspenseIn(balance, c) + delta
                                   ELSE SuspenseIn(balance, c)
  BY DEF SuspenseIn
<1>3. QED
  BY <1>1, <1>2 DEF Pots

-----------------------------------------------------------------------------
(***************************************************************************)
(* The steps of Escrow.                                                    *)
(***************************************************************************)
LEMMA ReserveHolds ==
    ASSUME EInv, NEW h \in Handlers, ReserveWithdrawal(h)
    PROVE  E!Next /\ ItemsReserved' /\ AdminsSuffice'
<1> USE DEF EInv, IInv
<1>1. PICK k \in WithdrawalKeys : k = handler[h].key
  BY HandlerFacts DEF ReserveWithdrawal, Reserve, MayCommit, WithdrawalKeys
<1>2. /\ k \in Keys /\ Currency(k) \in Currencies /\ Debit(k) \in Nat
      /\ status[k] = "NONE" /\ Post(k, "reserve", ReserveLegs(k))
      /\ <<"SUSPENSE", Currency(k)>> \in System
  BY <1>1, WithdrawalFacts
     DEF ReserveWithdrawal, Reserve, MayCommit, SystemAccounts, SystemAccount
<1>3. \A m \in Memos : postings[k][m] = 0
  BY <1>2 DEF Bookkeeping, Untouched
<1>4. /\ balance' = ReserveLegs(k) /\ postings'[k]["reserve"] = 1
      /\ postings'[k]["approve"] = 0 /\ postings'[k]["reject"] = 0
      /\ \A j \in Keys \ {k} : postings'[j] = postings[j]
  BY <1>2, <1>3, PostFacts DEF Memos
<1>5. k \notin HeldKeys /\ HeldKeys' = HeldKeys \cup {k}
  <2>1. ASSUME NEW j \in WithdrawalKeys
        PROVE  (postings'[j]["reserve"] > 0) <=> (postings[j]["reserve"] > 0 \/ j = k)
    BY <1>4, WithdrawalFacts
  <2>2. postings[k]["reserve"] = 0
    BY <1>3 DEF Memos
  <2>3. QED
    BY <2>1, <2>2 DEF HeldKeys, WithdrawalKeys, IsTransfer
<1>6. \A j \in WithdrawalKeys : Decisions(j)' = Decisions(j)
  <2>1. postings[k]["approve"] = 0 /\ postings[k]["reject"] = 0
    BY <1>3 DEF Memos
  <2>2. QED
    BY <1>4, <2>1, WithdrawalFacts DEF Decisions
<1>7. Pots' = [Pots EXCEPT ![Currency(k)] = Pots[Currency(k)] + Debit(k)]
  <2>1. \A c \in Currencies :
           <<"SUSPENSE", c>> \in System =>
              balance'[<<"SUSPENSE", c>>] =
                 IF c = Currency(k) THEN balance[<<"SUSPENSE", c>>] + Debit(k)
                 ELSE balance[<<"SUSPENSE", c>>]
    BY <1>2, <1>4, SuspenseLegs
  <2>2. QED
    BY <1>2, <2>1, PotMoves
<1>8. DecisionsMade' = DecisionsMade
  BY <1>6 DEF DecisionsMade, WithdrawalKeys, IsTransfer
<1>9. E!Hold(k)
  BY <1>5, <1>7, <1>8 DEF E!Hold, Pots, DecisionsMade
<1>10. ItemsReserved'
  <2>1. item' = [item EXCEPT ![k] = "PENDING"]
    BY <1>1 DEF ReserveWithdrawal, Reserve
  <2>2. \A j \in Keys \ {k} : item'[j] = item[j]
    BY <2>1 DEF TypeOK
  <2>3. QED
    BY <1>4, <2>2, WithdrawalFacts DEF ItemsReserved, WithdrawalKeys, IsTransfer
<1>11. AdminsSuffice'
  <2>1. decider' = decider
    BY DEF ReserveWithdrawal, Reserve, Commit
  <2>2. QED
    BY <1>6, <2>1 DEF AdminsSuffice, Reading, WithdrawalKeys, IsTransfer
<1>12. QED
  BY <1>9, <1>10, <1>11 DEF E!Next

\* The item that was read has a reservation, and the admin that decides is
\* one of those whose decision was still to come.
LEMMA DecisionReleases ==
    ASSUME EInv, NEW d \in Deciders, ApproveWithdrawal(d) \/ RejectWithdrawal(d)
    PROVE  E!Next /\ ItemsReserved' /\ AdminsSuffice'
<1> USE DEF EInv, IInv
<1>1. PICK k \in WithdrawalKeys : k = decider[d].key
  BY DeciderFacts DEF ApproveWithdrawal, RejectWithdrawal, WithdrawalKeys
<1>2. /\ k \in Keys /\ Currency(k) \in Currencies /\ Release(k) \in Nat
      /\ decider[d].pc = "read"
  BY WithdrawalFacts DEF ApproveWithdrawal, RejectWithdrawal
<1>3. <<"SUSPENSE", Currency(k)>> \in System
  BY <1>1 DEF ApproveWithdrawal, RejectWithdrawal, SystemAccounts, SystemAccount, SystemKinds
<1>4. k \in HeldKeys
  BY <1>1, <1>2 DEF Bookkeeping, Held, ItemsReserved, HeldKeys
<1>5. PICK memo \in {"approve", "reject"} :
         \/ memo = "approve" /\ Post(k, memo, ApproveLegs(k))
         \/ memo = "reject" /\ Post(k, memo, RejectLegs(k))
  <2>1. CASE ApproveWithdrawal(d)
    <3>1. Post(k, "approve", ApproveLegs(k))
      BY <1>1, <2>1, Zenon DEF ApproveWithdrawal
    <3>2. QED
      BY <3>1, Zenon
  <2>2. CASE RejectWithdrawal(d)
    <3>1. Post(k, "reject", RejectLegs(k))
      BY <1>1, <2>2, Zenon DEF RejectWithdrawal
    <3>2. QED
      BY <3>1, Zenon
  <2>3. QED
    BY <2>1, <2>2
<1>6. /\ balance' = ApproveLegs(k) \/ balance' = RejectLegs(k)
      /\ postings'[k][memo] = postings[k][memo] + 1
      /\ \A n \in Memos \ {memo} : postings'[k][n] = postings[k][n]
      /\ \A j \in Keys \ {k} : postings'[j] = postings[j]
  BY <1>2, <1>5, PostFacts DEF Memos
<1>7. HeldKeys' = HeldKeys
  <2>1. "reserve" \in Memos \ {memo}
    BY DEF Memos
  <2>2. postings'[k]["reserve"] = postings[k]["reserve"]
    BY <1>6, <2>1
  <2>3. \A j \in WithdrawalKeys : postings'[j]["reserve"] = postings[j]["reserve"]
    BY <1>6, <2>2, WithdrawalFacts
  <2>4. QED
    BY <2>3 DEF HeldKeys, WithdrawalKeys, IsTransfer
<1>8. /\ Decisions(k)' = Decisions(k) + 1
      /\ \A j \in WithdrawalKeys \ {k} : Decisions(j)' = Decisions(j)
  <2>1. \A j \in WithdrawalKeys \ {k} : Decisions(j)' = Decisions(j)
    BY <1>6, WithdrawalFacts DEF Decisions
  <2>2. CASE memo = "approve"
    <3>1. "reject" \in Memos \ {memo}
      BY <2>2 DEF Memos
    <3>2. QED
      BY <1>6, <2>1, <2>2, <3>1, DecisionFacts DEF Decisions
  <2>3. CASE memo = "reject"
    <3>1. "approve" \in Memos \ {memo}
      BY <2>3 DEF Memos
    <3>2. QED
      BY <1>6, <2>1, <2>3, <3>1, DecisionFacts DEF Decisions
  <2>4. QED
    BY <2>2, <2>3
<1>9. /\ Cardinality(Reading(k)') = Cardinality(Reading(k)) - 1
      /\ \A j : j # k => Reading(j)' = Reading(j)
  <2>1. decider' = [decider EXCEPT ![d] = Idle]
    BY DEF ApproveWithdrawal, RejectWithdrawal, Decide
  <2>2. \A e \in Deciders : decider'[e] = IF e = d THEN Idle ELSE decider[e]
    BY <2>1 DEF TypeOK
  <2>3. Reading(k)' = Reading(k) \ {d} /\ d \in Reading(k)
    BY <1>1, <1>2, <2>2 DEF Reading, Idle
  <2>4. \A j : j # k => Reading(j)' = Reading(j)
    BY <1>1, <2>2 DEF Reading, Idle
  <2>5. Cardinality(Reading(k) \ {d}) = Cardinality(Reading(k)) - 1
    BY <2>3, ReadingFacts, FS_RemoveElement
  <2>6. QED
    BY <2>3, <2>4, <2>5
<1>10. Decisions(k) < Cardinality(Deciders)
  <2>1. Cardinality(Reading(k)) # 0
    <3>1. d \in Reading(k)
      BY <1>1, <1>2 DEF Reading
    <3>2. QED
      BY <3>1, ReadingFacts, FS_EmptySet
  <2>2. Decisions(k) + Cardinality(Reading(k)) <= Cardinality(Deciders)
    BY DEF AdminsSuffice
  <2>3. QED
    BY <2>1, <2>2, ReadingFacts, DecisionFacts
<1>11. Pots' = [Pots EXCEPT ![Currency(k)] = Pots[Currency(k)] - Release(k)]
  <2>1. ASSUME NEW c \in Currencies, <<"SUSPENSE", c>> \in System
        PROVE  balance'[<<"SUSPENSE", c>>] =
                  IF c = Currency(k) THEN balance[<<"SUSPENSE", c>>] + (-Release(k))
                  ELSE balance[<<"SUSPENSE", c>>]
    <3>1. balance'[<<"SUSPENSE", c>>] =
             IF c = Currency(k) THEN balance[<<"SUSPENSE", c>>] - Release(k)
             ELSE balance[<<"SUSPENSE", c>>]
      BY <1>2, <1>6, <2>1, SuspenseLegs
    <3>2. balance[<<"SUSPENSE", c>>] \in Int
      BY <2>1 DEF TypeOK, Accounts
    <3>3. QED
      BY <1>2, <3>1, <3>2
  <2>2. -Release(k) \in Int
    BY <1>2
  <2>3. Pots' = [Pots EXCEPT ![Currency(k)] = Pots[Currency(k)] + (-Release(k))]
    BY <1>3, <2>1, <2>2, PotMoves
  <2>4. Pots[Currency(k)] \in Int
    BY <1>2, <1>3 DEF Pots, SuspenseIn, TypeOK, Accounts
  <2>5. QED
    BY <1>2, <2>3, <2>4
<1>12. DecisionsMade' = [DecisionsMade EXCEPT ![k] = DecisionsMade[k] + 1]
  BY <1>8 DEF DecisionsMade, WithdrawalKeys, IsTransfer
<1>13. E!Decide(k)
  BY <1>4, <1>7, <1>10, <1>11, <1>12 DEF E!Decide, Pots, DecisionsMade
<1>14. ItemsReserved'
  <2>1. item' = [item EXCEPT ![k] = decider[d].decision]
    BY <1>1 DEF ApproveWithdrawal, RejectWithdrawal, Decide, Decision
  <2>2. \A j \in Keys \ {k} : item'[j] = item[j]
    BY <2>1 DEF TypeOK
  <2>3. ASSUME NEW j \in WithdrawalKeys, item'[j] # "NONE"
        PROVE  j \in HeldKeys
    <3>1. CASE j = k
      BY <1>4, <3>1
    <3>2. CASE j # k
      BY <2>2, <2>3, <3>2, WithdrawalFacts DEF ItemsReserved, HeldKeys
    <3>3. QED
      BY <3>1, <3>2
  <2>4. \A j \in WithdrawalKeys : j \in HeldKeys' => postings'[j]["reserve"] > 0
    BY DEF HeldKeys
  <2>5. QED
    BY <1>7, <2>3, <2>4 DEF ItemsReserved, WithdrawalKeys, IsTransfer
<1>15. AdminsSuffice'
  <2>1. ASSUME NEW j \in WithdrawalKeys
        PROVE  Decisions(j)' + Cardinality(Reading(j)') <= Cardinality(Deciders)
    <3>1. Decisions(j) + Cardinality(Reading(j)) <= Cardinality(Deciders)
      BY DEF AdminsSuffice
    <3>2. CASE j = k
      BY <1>8, <1>9, <3>1, <3>2, ReadingFacts, DecisionFacts
    <3>3. CASE j # k
      BY <1>8, <1>9, <3>1, <3>3
    <3>4. QED
      BY <3>2, <3>3
  <2>2. QED
    BY <2>1 DEF AdminsSuffice, WithdrawalKeys, IsTransfer
<1>16. QED
  BY <1>13, <1>14, <1>15 DEF E!Next

\* Transfers and withdrawals sent at once leave SUSPENSE alone.
LEMMA PostingStutters ==
    ASSUME IInv, NEW h \in Handlers, SettleTransfer(h) \/ SendWithdrawal(h)
    PROVE  UNCHANGED <<HeldKeys, DecisionsMade, Pots>>
<1> USE DEF IInv
<1>1. PICK k \in Keys : k = handler[h].key
  BY HandlerFacts DEF SettleTransfer, SendWithdrawal, MayCommit
<1>2. PICK memo \in {"p2p", "send"} :
         \/ Post(k, memo, TransferLegs(k))
         \/ Post(k, memo, SendLegs(k))
  BY <1>1 DEF SettleTransfer, SendWithdrawal
<1>3. /\ balance' = TransferLegs(k) \/ balance' = SendLegs(k)
      /\ \A n \in Memos \ {memo} : postings'[k][n] = postings[k][n]
      /\ \A j \in Keys \ {k} : postings'[j] = postings[j]
  BY <1>2, PostFacts DEF Memos
<1>4. \A c \in Currencies :
         <<"SUSPENSE", c>> \in System =>
            balance'[<<"SUSPENSE", c>>] = balance[<<"SUSPENSE", c>>]
  BY <1>3, SuspenseLegs
<1>5. ASSUME NEW j \in WithdrawalKeys, NEW m \in {"reserve", "approve", "reject"}
      PROVE  postings'[j][m] = postings[j][m]
  <2>1. j \in Keys /\ m \in Memos \ {memo}
    BY DEF WithdrawalKeys, Memos
  <2>2. QED
    BY <1>3, <2>1
<1>6. QED
  BY <1>4, <1>5, Stutter

\* The rest of EInv, over the steps that are no steps of Escrow: those that
\* open no item, decide none, and give nobody an item that was decided.
LEMMA StaysSufficient ==
    ASSUME EInv, UNCHANGED <<HeldKeys, DecisionsMade>>,
           \A k \in WithdrawalKeys : item[k] = "NONE" => item'[k] = "NONE",
           \A k \in WithdrawalKeys :
              \/ Reading(k)' \subseteq Reading(k)
              \/ Decisions(k) = 0
    PROVE  ItemsReserved' /\ AdminsSuffice'
<1> USE DEF EInv, IInv
<1>1. \A k \in WithdrawalKeys : Decisions(k)' = Decisions(k)
  BY DEF DecisionsMade, WithdrawalKeys, IsTransfer
<1>2. ItemsReserved'
  <2>1. \A k \in WithdrawalKeys : k \in HeldKeys <=> postings[k]["reserve"] > 0
    BY DEF HeldKeys
  <2>2. \A k \in WithdrawalKeys : k \in HeldKeys' <=> postings'[k]["reserve"] > 0
    BY DEF HeldKeys, WithdrawalKeys, IsTransfer
  <2>3. QED
    BY <2>1, <2>2 DEF ItemsReserved, WithdrawalKeys, IsTransfer
<1>3. ASSUME NEW k \in WithdrawalKeys
      PROVE  Decisions(k)' + Cardinality(Reading(k)') <= Cardinality(Deciders)
  <2>1. Decisions(k) + Cardinality(Reading(k)) <= Cardinality(Deciders)
    BY DEF AdminsSuffice
  <2>2. Reading(k)' \subseteq Deciders /\ IsFiniteSet(Deciders)
    BY FinitelyManyRows DEF Reading
  <2>3. /\ Cardinality(Reading(k)') <= Cardinality(Deciders)
        /\ Cardinality(Reading(k)') \in Nat
    BY <2>2, FS_Subset, FS_CardinalityType
  <2>4. CASE Reading(k)' \subseteq Reading(k)
    <3>1. Cardinality(Reading(k)') <= Cardinality(Reading(k))
      BY <2>4, ReadingFacts, FS_Subset
    <3>2. QED
      BY <1>1, <2>1, <2>3, <3>1, ReadingFacts, DecisionFacts
  <2>5. CASE Decisions(k) = 0
    BY <1>1, <2>3, <2>5, ReadingFacts
  <2>6. QED
    BY <2>4, <2>5
<1>4. AdminsSuffice'
  BY <1>3 DEF AdminsSuffice, WithdrawalKeys, IsTransfer
<1>5. QED
  BY <1>2, <1>4

LEMMA OtherSteps ==
    ASSUME EInv, [Next]_vars,
           ~ \E h \in Handlers : ReserveWithdrawal(h),
           ~ \E d \in Deciders : ApproveWithdrawal(d) \/ RejectWithdrawal(d)
    PROVE  /\ UNCHANGED <<HeldKeys, DecisionsMade, Pots>>
           /\ ItemsReserved' /\ AdminsSuffice'
<1> USE DEF EInv, IInv
<1>1. UNCHANGED <<HeldKeys, DecisionsMade, Pots>>
  <2>1. CASE UNCHANGED ledgerVars
    BY <2>1, Stutter DEF ledgerVars
  <2>2. CASE \E h \in Handlers : SettleTransfer(h) \/ SendWithdrawal(h)
    BY <2>2, PostingStutters
  <2>3. QED
    BY <2>1, <2>2 DEF Next, HandlerStep, DeciderStep, vars, ledgerVars, CreateQuote, Lapse,
       Replay, Check, Enter, QueueTransfer, Abort, ReadItem, DecideTransfer, DecideAborts,
       Suspend, OpenWallet
<1>2. CASE UNCHANGED <<item, decider>>
  BY <1>1, <1>2, StaysSufficient DEF Reading
<1>3. ASSUME NEW h \in Handlers, QueueTransfer(h)
      PROVE  ItemsReserved' /\ AdminsSuffice'
  <2>1. /\ item' = [item EXCEPT ![handler[h].key] = "PENDING"] /\ decider' = decider
        /\ handler[h].key \notin WithdrawalKeys
    BY <1>3 DEF QueueTransfer, Commit, WithdrawalKeys
  <2>2. \A k \in WithdrawalKeys : item'[k] = item[k]
    BY <2>1 DEF TypeOK, WithdrawalKeys
  <2>3. QED
    BY <1>1, <2>1, <2>2, StaysSufficient DEF Reading
<1>4. ASSUME NEW d \in Deciders, NEW k \in Keys, NEW decision \in {"APPROVED", "REJECTED"},
             ReadItem(d, k, decision)
      PROVE  ItemsReserved' /\ AdminsSuffice'
  <2>1. /\ item' = item /\ item[k] = "PENDING"
        /\ decider' = [decider EXCEPT ![d] = Holding(k, decision)]
    BY <1>4 DEF ReadItem
  <2>2. ASSUME NEW j \in WithdrawalKeys, j # k
        PROVE  Reading(j)' \subseteq Reading(j)
    BY <2>1, <2>2 DEF Reading, Holding, TypeOK
  <2>3. k \in WithdrawalKeys => Decisions(k) = 0
    BY <2>1 DEF Decisions, Bookkeeping, PendingIsReserved, WithdrawalKeys
  <2>4. QED
    BY <1>1, <2>1, <2>2, <2>3, StaysSufficient
<1>5. ASSUME NEW d \in Deciders, DecideTransfer(d) \/ DecideAborts(d)
      PROVE  ItemsReserved' /\ AdminsSuffice'
  <2>1. decider' = [decider EXCEPT ![d] = Idle]
    BY <1>5 DEF DecideTransfer, DecideAborts, Decide
  <2>2. \A j \in WithdrawalKeys : item'[j] = item[j]
    <3>1. DecideTransfer(d) => /\ item' = [item EXCEPT ![decider[d].key] = decider[d].decision]
                               /\ decider[d].key \notin WithdrawalKeys
      BY DEF DecideTransfer, Decide, Decision, WithdrawalKeys
    <3>2. DecideAborts(d) => item' = item
      BY DEF DecideAborts
    <3>3. QED
      BY <1>5, <3>1, <3>2 DEF TypeOK, WithdrawalKeys
  <2>3. \A j \in WithdrawalKeys : Reading(j)' \subseteq Reading(j)
    BY <2>1 DEF Reading, Idle, TypeOK
  <2>4. QED
    BY <1>1, <2>2, <2>3, StaysSufficient
<1>6. QED
  BY <1>1, <1>2, <1>3, <1>4, <1>5 DEF Next, HandlerStep, DeciderStep, vars, CreateQuote,
     Lapse, Replay, Check, Enter, SettleTransfer, SendWithdrawal, Abort, Commit, Suspend,
     OpenWallet

LEMMA EscrowInit ==
    ASSUME Init
    PROVE  E!Init /\ ItemsReserved /\ AdminsSuffice
<1>1. \A k \in WithdrawalKeys : /\ postings[k]["reserve"] = 0 /\ Decisions(k) = 0
                                /\ item[k] = "NONE" /\ Reading(k) = {}
  BY DEF Init, Decisions, Memos, WithdrawalKeys, Reading, Idle
<1>2. \A c \in Currencies : SuspenseIn(balance, c) = SuspenseIn(Opening, c)
  BY DEF Init, SuspenseIn
<1>3. HeldKeys = {}
  BY <1>1 DEF HeldKeys
<1>4. E!Init
  BY <1>1, <1>2, <1>3 DEF E!Init
<1>5. Cardinality({}) = 0 /\ Cardinality(Deciders) \in Nat
  BY ReadingFacts, FS_EmptySet
<1>6. QED
  BY <1>1, <1>4, <1>5 DEF ItemsReserved, AdminsSuffice

LEMMA EscrowStep ==
    ASSUME EInv, [Next]_vars
    PROVE  EInv' /\ [E!Next]_(E!vars)
<1>1. IInv'
  BY StepIInv DEF EInv
<1>2. CASE \E h \in Handlers : ReserveWithdrawal(h)
  BY <1>1, <1>2, ReserveHolds DEF EInv
<1>3. CASE \E d \in Deciders : ApproveWithdrawal(d) \/ RejectWithdrawal(d)
  BY <1>1, <1>3, DecisionReleases DEF EInv
<1>4. CASE UNCHANGED <<HeldKeys, DecisionsMade, Pots>> /\ ItemsReserved' /\ AdminsSuffice'
  BY <1>1, <1>4 DEF EInv, E!vars, DecisionsMade, Pots
<1>5. QED
  BY <1>2, <1>3, <1>4, OtherSteps

-----------------------------------------------------------------------------
(***************************************************************************)
(* What Escrow itself keeps: SUSPENSE adds up.                             *)
(***************************************************************************)
Begun     == [c \in Currencies |-> SuspenseIn(Opening, c)]
Leaves(k) == (IF k \in HeldKeys THEN Debit(k) ELSE 0) - DecisionsMade[k] * Release(k)
Remains   == [k \in WithdrawalKeys |-> Leaves(k)]
KeysOf(c) == {k \in WithdrawalKeys : Currency(k) = c}

\* A sum in Escrow is a sum here.
LEMMA EscrowSum ==
    ASSUME NEW f, NEW S
    PROVE  E!SumFunctionOnSet(f, S) = SumFunctionOnSet(f, S)
BY Zenon DEF SumFunctionOnSet, FoldFunctionOnSet, MapThenFoldSet,
   E!SumFunctionOnSet, E!FoldFunctionOnSet, E!MapThenFoldSet

\* The invariant of Escrow in these terms.
LEMMA SuspenseInTerms ==
    /\ E!SuspenseAddsUp <=>
          \A c \in Currencies : Pots[c] = Begun[c] + SumFunctionOnSet(Remains, KeysOf(c))
    /\ E!SuspenseAddsUp' <=>
          \A c \in Currencies : Pots'[c] = Begun[c] + SumFunctionOnSet(Remains', KeysOf(c))
<1>1. \A c \in Currencies : E!HeldIn(c) = KeysOf(c)
  BY DEF E!HeldIn, KeysOf
<1>2. \A c \in Currencies : E!HeldIn(c)' = KeysOf(c)
  BY DEF E!HeldIn, KeysOf, WithdrawalKeys, IsTransfer, Currency, TermsOf
<1>3. E!Left = Remains /\ E!Left' = Remains'
  BY DEF E!Left, Remains, Leaves, DecisionsMade, WithdrawalKeys, IsTransfer, Debit, Release,
     TermsOf
<1>4. E!SuspenseAddsUp <=>
         \A c \in Currencies : Pots[c] = Begun[c] + SumFunctionOnSet(Remains, KeysOf(c))
  BY <1>1, <1>3, EscrowSum, Zenon DEF E!SuspenseAddsUp, Pots, Begun
<1>5. E!SuspenseAddsUp' <=>
         \A c \in Currencies : Pots'[c] = Begun[c] + SumFunctionOnSet(Remains', KeysOf(c))
  BY <1>2, <1>3, EscrowSum, Zenon DEF E!SuspenseAddsUp, Pots, Begun
<1>6. QED
  BY <1>4, <1>5

LEMMA SumFacts ==
    ASSUME TypeOK, NEW c \in Currencies
    PROVE  /\ IsFiniteSet(KeysOf(c)) /\ KeysOf(c) \subseteq WithdrawalKeys
           /\ \A k \in KeysOf(c) : Remains[k] \in Int
           /\ SumFunctionOnSet(Remains, KeysOf(c)) \in Int
           /\ Begun[c] \in Int
<1>1. KeysOf(c) \subseteq WithdrawalKeys /\ KeysOf(c) \subseteq Keys
  BY DEF KeysOf, WithdrawalKeys
<1>2. IsFiniteSet(KeysOf(c))
  BY <1>1, FinitelyManyRows, FS_Subset
<1>3. ASSUME NEW k \in KeysOf(c) PROVE Remains[k] \in Int
  <2>1. k \in WithdrawalKeys /\ Debit(k) \in Nat /\ Release(k) \in Nat
    BY <1>1, WithdrawalFacts
  <2>2. DecisionsMade[k] \in Nat
    BY <2>1, DecisionFacts DEF DecisionsMade
  <2>3. DecisionsMade[k] * Release(k) \in Nat
    BY <2>1, <2>2
  <2>4. Remains[k] = Leaves(k)
    BY <2>1 DEF Remains
  <2>5. QED
    BY <2>1, <2>3, <2>4 DEF Leaves
<1>4. SumFunctionOnSet(Remains, KeysOf(c)) \in Int
  BY <1>2, <1>3, SumType
<1>5. Begun[c] \in Int
  BY ConstantsAssumption DEF Begun, SuspenseIn, Accounts
<1>6. QED
  BY <1>1, <1>2, <1>3, <1>4, <1>5

\* One withdrawal leaves delta more behind, and its SUSPENSE account has it.
LEMMA PotAndRemainsMove ==
    ASSUME TypeOK, TypeOK', E!SuspenseAddsUp, NEW k \in WithdrawalKeys, NEW delta \in Int,
           Pots' = [Pots EXCEPT ![Currency(k)] = Pots[Currency(k)] + delta],
           Remains'[k] = Remains[k] + delta,
           \A j \in WithdrawalKeys \ {k} : Remains'[j] = Remains[j]
    PROVE  E!SuspenseAddsUp'
<1>1. SUFFICES ASSUME NEW c \in Currencies
               PROVE  Pots'[c] = Begun[c] + SumFunctionOnSet(Remains', KeysOf(c))
  BY SuspenseInTerms
<1>2. Pots[c] = Begun[c] + SumFunctionOnSet(Remains, KeysOf(c))
  BY SuspenseInTerms
<1>3. Pots'[c] = IF c = Currency(k) THEN Pots[c] + delta ELSE Pots[c]
  BY DEF Pots
<1>4. CASE c = Currency(k)
  <2>1. k \in KeysOf(c) /\ Remains[k] \in Int /\ Remains'[k] \in Int
    <3>1. k \in KeysOf(c)
      BY <1>4 DEF KeysOf
    <3>2. Remains[k] \in Int
      BY <3>1, SumFacts
    <3>3. QED
      BY <3>1, <3>2
  <2>2. \A j \in KeysOf(c) \ {k} : Remains'[j] = Remains[j]
    BY SumFacts
  <2>3. SumFunctionOnSet(Remains', KeysOf(c)) =
           SumFunctionOnSet(Remains, KeysOf(c)) + Remains'[k] - Remains[k]
    BY <2>1, <2>2, SumFacts, SumExcept
  <2>4. QED
    BY <1>2, <1>3, <1>4, <2>1, <2>3, SumFacts
<1>5. CASE c # Currency(k)
  <2>1. k \notin KeysOf(c)
    BY <1>5 DEF KeysOf
  <2>2. \A j \in KeysOf(c) : Remains[j] \in Int /\ Remains[j] = Remains'[j]
    BY <2>1, SumFacts
  <2>3. SumFunctionOnSet(Remains, KeysOf(c)) = SumFunctionOnSet(Remains', KeysOf(c))
    BY <2>2, SumFacts, SumSame
  <2>4. QED
    BY <1>2, <1>3, <1>5, <2>3
<1>6. QED
  BY <1>4, <1>5

LEMMA HoldAddsUp ==
    ASSUME TypeOK, TypeOK', E!SuspenseAddsUp, NEW k \in WithdrawalKeys, E!Hold(k)
    PROVE  E!SuspenseAddsUp'
<1>1. /\ k \notin HeldKeys /\ HeldKeys' = HeldKeys \cup {k}
      /\ DecisionsMade' = DecisionsMade
      /\ Pots' = [Pots EXCEPT ![Currency(k)] = Pots[Currency(k)] + Debit(k)]
  BY DEF E!Hold, Pots, DecisionsMade
<1>2. \A j \in WithdrawalKeys :
         /\ Remains[j] = (IF j \in HeldKeys THEN Debit(j) ELSE 0)
                            - DecisionsMade[j] * Release(j)
         /\ Remains'[j] = (IF j \in HeldKeys' THEN Debit(j) ELSE 0)
                            - DecisionsMade[j] * Release(j)
  BY <1>1 DEF Remains, Leaves, WithdrawalKeys, IsTransfer, Debit, Release, TermsOf
<1>3. \A j \in WithdrawalKeys \ {k} : Remains'[j] = Remains[j]
  BY <1>1, <1>2
<1>4. Debit(k) \in Nat /\ DecisionsMade[k] * Release(k) \in Nat
  BY WithdrawalFacts, DecisionFacts DEF DecisionsMade
<1>5. Remains'[k] = Remains[k] + Debit(k)
  BY <1>1, <1>2, <1>4
<1>6. Debit(k) \in Int
  BY <1>4
<1>7. Pots' = [Pots EXCEPT ![Currency(k)] = Pots[Currency(k)] + Debit(k)]
  BY <1>1
<1>8. QED
  BY <1>3, <1>5, <1>6, <1>7, PotAndRemainsMove

LEMMA DecideAddsUp ==
    ASSUME TypeOK, TypeOK', E!SuspenseAddsUp, NEW k \in WithdrawalKeys, E!Decide(k)
    PROVE  E!SuspenseAddsUp'
<1>1. /\ HeldKeys' = HeldKeys
      /\ DecisionsMade' = [DecisionsMade EXCEPT ![k] = DecisionsMade[k] + 1]
      /\ Pots' = [Pots EXCEPT ![Currency(k)] = Pots[Currency(k)] - Release(k)]
  BY DEF E!Decide, Pots, DecisionsMade
<1>2. /\ Debit(k) \in Nat /\ Release(k) \in Nat /\ DecisionsMade[k] \in Nat
      /\ Currency(k) \in Currencies
  BY WithdrawalFacts, DecisionFacts DEF DecisionsMade
<1>3. \A j \in WithdrawalKeys :
         /\ Remains[j] = (IF j \in HeldKeys THEN Debit(j) ELSE 0)
                            - DecisionsMade[j] * Release(j)
         /\ Remains'[j] = (IF j \in HeldKeys THEN Debit(j) ELSE 0)
                            - DecisionsMade'[j] * Release(j)
  BY <1>1 DEF Remains, Leaves, WithdrawalKeys, IsTransfer, Debit, Release, TermsOf
<1>4. /\ DecisionsMade'[k] = DecisionsMade[k] + 1
      /\ \A j \in WithdrawalKeys \ {k} : DecisionsMade'[j] = DecisionsMade[j]
  BY <1>1 DEF DecisionsMade
<1>5. \A j \in WithdrawalKeys \ {k} : Remains'[j] = Remains[j]
  BY <1>3, <1>4
<1>6. Remains'[k] = Remains[k] + (-Release(k))
  <2>1. ASSUME NEW n \in Nat, NEW r \in Nat, NEW a \in Nat
        PROVE  a - (n + 1) * r = (a - n * r) + (-r)
    <3>1. (n + 1) * r = n * r + r /\ n * r \in Nat
      OBVIOUS
    <3>2. QED
      BY <3>1
  <2>2. (IF k \in HeldKeys THEN Debit(k) ELSE 0) \in Nat
    BY <1>2
  <2>3. QED
    BY <1>2, <1>3, <1>4, <2>1, <2>2
<1>7. Pots[Currency(k)] - Release(k) = Pots[Currency(k)] + (-Release(k))
  <2>1. Pots[Currency(k)] \in Int
    BY <1>2 DEF Pots, SuspenseIn, TypeOK, Accounts
  <2>2. QED
    BY <1>2, <2>1
<1>8. Pots' = [Pots EXCEPT ![Currency(k)] = Pots[Currency(k)] + (-Release(k))]
  BY <1>1, <1>7
<1>9. -Release(k) \in Int
  BY <1>2
<1>10. QED
  BY <1>5, <1>6, <1>8, <1>9, PotAndRemainsMove

LEMMA SuspenseStep ==
    ASSUME TypeOK, TypeOK', E!SuspenseAddsUp, [E!Next]_(E!vars)
    PROVE  E!SuspenseAddsUp'
<1>1. CASE E!Next
  BY <1>1, HoldAddsUp, DecideAddsUp DEF E!Next
<1>2. CASE UNCHANGED E!vars
  <2>1. HeldKeys' = HeldKeys /\ DecisionsMade' = DecisionsMade /\ Pots' = Pots
    BY <1>2 DEF E!vars, Pots, DecisionsMade
  <2>2. Remains' = Remains
    BY <2>1 DEF Remains, Leaves, WithdrawalKeys, IsTransfer, Debit, Release, TermsOf
  <2>3. QED
    BY <2>1, <2>2, SuspenseInTerms
<1>3. QED
  BY <1>1, <1>2

\* Nothing is held and nothing was decided, so nothing is left behind.
LEMMA SuspenseInit ==
    ASSUME TypeOK, E!Init
    PROVE  E!SuspenseAddsUp
<1>1. HeldKeys = {} /\ Pots = Begun
  BY DEF E!Init, Pots, Begun
<1>2. \A k \in WithdrawalKeys : DecisionsMade[k] = 0
  BY DEF E!Init, DecisionsMade
<1>3. ASSUME NEW k \in WithdrawalKeys PROVE Remains[k] = 0
  <2>1. Remains[k] = 0 - 0 * Release(k)
    BY <1>1, <1>2 DEF Remains, Leaves
  <2>2. QED
    BY <2>1, WithdrawalFacts
<1>4. ASSUME NEW c \in Currencies
      PROVE  SumFunctionOnSet(Remains, KeysOf(c)) = 0
  <2> DEFINE Good == {T \in SUBSET KeysOf(c) : SumFunctionOnSet(Remains, T) = 0}
  <2>1. {} \in Good
    BY SumEmpty
  <2>2. ASSUME NEW T \in SUBSET KeysOf(c), NEW k \in KeysOf(c), T \in Good, k \notin T
        PROVE  T \cup {k} \in Good
    <3>1. IsFiniteSet(T) /\ \A j \in T \cup {k} : Remains[j] = 0
      BY <1>3, SumFacts, FS_Subset
    <3>2. SumFunctionOnSet(Remains, T \cup {k}) = Remains[k] + SumFunctionOnSet(Remains, T)
      BY <2>2, <3>1, SumAdd
    <3>3. QED
      BY <2>2, <3>1, <3>2
  <2>3. KeysOf(c) \in Good
    <3> HIDE DEF Good
    <3>1. IsFiniteSet(KeysOf(c))
      BY SumFacts
    <3>2. QED
      BY <2>1, <2>2, <3>1, GrowSet
  <2>4. QED
    BY <2>3
<1>5. QED
  BY <1>1, <1>4, SumFacts, SuspenseInTerms

-----------------------------------------------------------------------------
(***************************************************************************)
(* The theorems.                                                           *)
(***************************************************************************)
\* The handlers of withdrawal-service.ts and the decide route of admin.ts,
\* however many of them overlap, do to SUSPENSE what Escrow allows: a
\* withdrawal is held once, decided only after that, and not once more than
\* there are admins.
THEOREM Refinement == Spec => ImplementsEscrow
<1>1. Init => EInv /\ E!Init
  BY EscrowInit, InitIInv DEF EInv
<1>2. EInv /\ [Next]_vars => EInv' /\ [E!Next]_(E!vars)
  BY EscrowStep
<1>3. QED
  BY <1>1, <1>2, PTL DEF Spec, ImplementsEscrow, E!Spec

\* Whatever is approved, rejected and decided twice, SUSPENSE differs from
\* where it began by what the withdrawals left there: all that was reserved
\* for one that waits, the spread of one that was decided, less the amount
\* of each further decision.
THEOREM SuspenseAccounted == Spec => []SuspenseAddsUp
<1>1. Init => EInv /\ E!SuspenseAddsUp
  BY EscrowInit, InitIInv, SuspenseInit DEF EInv, IInv
<1>2. EInv /\ E!SuspenseAddsUp /\ [Next]_vars => EInv' /\ E!SuspenseAddsUp'
  <2>1. EInv => TypeOK
    BY DEF EInv, IInv
  <2>2. EInv' => TypeOK'
    BY DEF EInv, IInv
  <2>3. QED
    BY <2>1, <2>2, EscrowStep, SuspenseStep
<1>3. SuspenseAddsUp <=> E!SuspenseAddsUp
  BY DEF SuspenseAddsUp
<1>4. QED
  BY <1>1, <1>2, <1>3, PTL DEF Spec
=============================================================================
