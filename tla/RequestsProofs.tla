--------------------------- MODULE RequestsProofs ---------------------------
(***************************************************************************)
(* Theorems about Requests and the KYC workflow it is composed with, for   *)
(* every value of the constants: any number of users, records, keys,       *)
(* bodies and concurrent requests, and any rate table by which every       *)
(* currency has one value.                                                 *)
(***************************************************************************)
EXTENDS Requests, PricingProofs

-----------------------------------------------------------------------------
(***************************************************************************)
(* The inductive invariant.  A tier is what the user started with or what  *)
(* an officer decided, and so is the tier a request has read, whatever was *)
(* decided since.                                                          *)
(***************************************************************************)
Granted(u, t) ==
    \/ t = StartTier[u]
    \/ \E r \in Records : Applicant[r] = u /\ Target[r] = t /\ record[r].approved

TiersAreGranted == \A u \in Users : Granted(u, tier[u])

HasTier(h) == handler[h].pc \in {"checked", "open", "limited", "vetted"}

ChecksStand ==
    \A h \in Handlers :
        HasTier(h) =>
            /\ handler[h].tier >= MinTier(handler[h].body)
            /\ Granted(Body[handler[h].body].user, handler[h].tier)

IInv ==
    /\ TypeOK /\ HitsAreQueued /\ KeyBindsBody
    /\ TiersAreGranted /\ ChecksStand /\ MovesFollowReview

-----------------------------------------------------------------------------
(***************************************************************************)
(* Lemmas on the constants and on the records.                             *)
(***************************************************************************)
LEMMA BodyFacts ==
    ASSUME NEW b \in Bodies
    PROVE  /\ b # "none" /\ Body[b].json # "none"
           /\ Body[b].user \in Users
           /\ MinTier(b) \in {1, 2}
BY BodiesAssumption DEF MinTier

LEMMA HandlerFacts ==
    ASSUME TypeOK, NEW h \in Handlers
    PROVE  /\ handler[h] \in HandlerType
           /\ handler[h].pc = "idle" => handler[h] = Idle
           /\ handler[h].pc # "idle" => handler[h].key \in Keys /\ handler[h].body \in Bodies
           /\ HasTier(h) => handler[h].tier \in 0..3
           /\ Open(handler[h]) => /\ handler[h].stale \subseteq {"quote", "wallet"}
                                  /\ HasTier(h)
           /\ handler[h].pc = "vetted" => handler[h].held \in BOOLEAN
BY DEF TypeOK, HandlerType, Idle, HasTier, Open

RowType ==
    [status : {"REQUIRES_APPROVAL", "PROCESSING", "COMPLETED", "FAILED", "CANCELLED"},
     body : Bodies, tier : 0..3, window : {"day", "month", "old"},
     direct : BOOLEAN, completed : BOOLEAN, enqueued : BOOLEAN, readers : 0..Admins]

LEMMA MadeFacts ==
    ASSUME TypeOK, NEW k \in Made
    PROVE  /\ k \in Keys
           /\ txn[k].body \in Bodies
           /\ txn[k] \in RowType
BY DEF TypeOK, Made, TxnType, NoTxn, RowType

\* A step of the request goes on with the same key, body and tier.
LEMMA PcFacts ==
    ASSUME TypeOK, NEW h \in Handlers
    PROVE  /\ handler[h].pc = "new" => [handler[h] EXCEPT !.pc = "accepted"] \in HandlerType
           /\ handler[h].pc = "accepted" =>
                 [handler[h] EXCEPT !.pc = "answering"] \in HandlerType
           /\ handler[h].pc = "open" =>
                 [handler[h] EXCEPT !.pc = "limited"] \in HandlerType
<1>1. CASE handler[h].pc \in {"new", "accepted"}
  <2>1. handler[h] \in [pc : {"new", "accepted", "answering"}, key : Keys, body : Bodies]
    BY <1>1 DEF TypeOK, HandlerType, Idle
  <2>2. QED
    BY <1>1, <2>1 DEF HandlerType
<1>2. CASE handler[h].pc = "open"
  <2>1. handler[h] \in [pc : {"open", "limited"}, key : Keys, body : Bodies, tier : 0..3,
                        stale : SUBSET {"quote", "wallet"}]
    BY <1>2 DEF TypeOK, HandlerType, Idle
  <2>2. QED
    BY <1>2, <2>1 DEF HandlerType
<1>3. QED
  BY <1>1, <1>2

\* Another transaction's commit only adds to what is stale.
LEMMA StaleFacts ==
    ASSUME TypeOK, NEW g \in Handlers, Open(handler[g]), NEW S \in SUBSET {"quote", "wallet"},
           NEW y, y = [handler[g] EXCEPT !.stale = handler[g].stale \cup S]
    PROVE  /\ y \in HandlerType
           /\ y.pc = handler[g].pc /\ y.key = handler[g].key
           /\ y.body = handler[g].body /\ y.tier = handler[g].tier
<1>1. CASE handler[g].pc \in {"open", "limited"}
  <2>1. handler[g] \in [pc : {"open", "limited"}, key : Keys, body : Bodies, tier : 0..3,
                        stale : SUBSET {"quote", "wallet"}]
    BY <1>1 DEF TypeOK, HandlerType, Idle
  <2>2. y \in [pc : {"open", "limited"}, key : Keys, body : Bodies, tier : 0..3,
               stale : SUBSET {"quote", "wallet"}]
    BY <2>1
  <2>3. QED
    BY <2>1, <2>2 DEF HandlerType
<1>2. CASE handler[g].pc = "vetted"
  <2>1. handler[g] \in [pc : {"vetted"}, key : Keys, body : Bodies, tier : 0..3,
                        stale : SUBSET {"quote", "wallet"}, held : BOOLEAN]
    BY <1>2 DEF TypeOK, HandlerType, Idle
  <2>2. y \in [pc : {"vetted"}, key : Keys, body : Bodies, tier : 0..3,
               stale : SUBSET {"quote", "wallet"}, held : BOOLEAN]
    BY <2>1
  <2>3. QED
    BY <2>1, <2>2 DEF HandlerType
<1>3. QED
  BY <1>1, <1>2 DEF Open

LEMMA InitIInv == Init => IInv
<1> SUFFICES ASSUME Init PROVE IInv
  OBVIOUS
<1> USE DEF Init
<1>1. KycTypeOK /\ HitsAreQueued
  BY KycAssumption DEF KycInit, KycTypeOK, RecordType, Absent, HitsAreQueued
<1>2. TypeOK
  BY <1>1, AdminsAssumption DEF TypeOK, NoRow, TxnType, HandlerType
<1>3. Made = {}
  BY DEF Made, NoTxn
<1>4. KeyBindsBody /\ MovesFollowReview
  BY <1>3 DEF KeyBindsBody, MovesFollowReview, Idle
<1>5. TiersAreGranted /\ ChecksStand
  BY DEF KycInit, TiersAreGranted, Granted, ChecksStand, HasTier, Idle
<1>6. QED
  BY <1>1, <1>2, <1>4, <1>5 DEF IInv

-----------------------------------------------------------------------------
(***************************************************************************)
(* The KYC workflow.                                                       *)
(***************************************************************************)
LEMMA KycStep ==
    ASSUME IInv, KycNext, UNCHANGED requestVars
    PROVE  IInv'
<1> USE DEF IInv
<1>1. PICK r \in Records : \/ Submit(r)
                           \/ \E hits \in BOOLEAN : Screen(r, hits)
                           \/ \E decision \in {"APPROVED", "REJECTED"} : Review(r, decision)
  BY DEF KycNext
<1>2. KycTypeOK
  BY DEF TypeOK
<1>3. \A q \in Records : record[q].approved => record'[q].approved
  BY <1>1, <1>2 DEF Submit, Screen, Review, KycTypeOK, RecordType
<1>4. KycTypeOK' /\ HitsAreQueued'
  <2>1. CASE Submit(r)
    BY <1>2, <2>1 DEF Submit, KycTypeOK, RecordType, HitsAreQueued
  <2>2. ASSUME NEW hits \in BOOLEAN, Screen(r, hits)
        PROVE  KycTypeOK' /\ HitsAreQueued'
    BY <1>2, <2>2 DEF Screen, ScreenedStatus, KycTypeOK, RecordType, HitsAreQueued
  <2>3. ASSUME NEW decision \in {"APPROVED", "REJECTED"}, Review(r, decision)
        PROVE  KycTypeOK' /\ HitsAreQueued'
    <3>1. Applicant[r] \in Users /\ Target[r] \in 0..3
      BY KycAssumption
    <3>2. tier' \in [Users -> 0..3]
      BY <1>2, <2>3, <3>1 DEF Review, KycTypeOK
    <3>3. record' \in [Records -> RecordType] /\ HitsAreQueued'
      <4> DEFINE new == [record[r] EXCEPT !.status = decision, !.hits = FALSE,
                            !.approved = record[r].approved \/ decision = "APPROVED"]
      <4>1. record' = [record EXCEPT ![r] = new]
        BY <1>2, <2>3 DEF Review, KycTypeOK
      <4>2. record[r] \in RecordType
        BY <1>2 DEF KycTypeOK
      <4>3. new \in RecordType /\ new.hits = FALSE
        BY <4>2 DEF RecordType
      <4> HIDE DEF new
      <4>4. record' \in [Records -> RecordType]
        BY <1>2, <4>1, <4>3 DEF KycTypeOK
      <4>5. \A q \in Records : record'[q] = IF q = r THEN new ELSE record[q]
        BY <1>2, <4>1 DEF KycTypeOK
      <4>6. QED
        BY <4>3, <4>4, <4>5 DEF HitsAreQueued
    <3>4. QED
      BY <1>2, <2>3, <3>2, <3>3 DEF Review, KycTypeOK
  <2>4. QED
    BY <1>1, <2>1, <2>2, <2>3
<1>5. TypeOK'
  BY <1>4 DEF TypeOK, requestVars
<1>6. \A u, t : Granted(u, t) => Granted(u, t)'
  BY <1>3 DEF Granted
<1>7. TiersAreGranted'
  <2>1. CASE tier' = tier
    BY <1>6, <2>1 DEF TiersAreGranted
  <2>2. CASE Review(r, "APPROVED")
    <3>1. record'[r].approved /\ Applicant[r] \in Users
      BY <1>2, <2>2, KycAssumption DEF Review, KycTypeOK, RecordType
    <3>2. \A u \in Users : tier'[u] = IF u = Applicant[r] THEN Target[r] ELSE tier[u]
      BY <1>2, <2>2, <3>1 DEF Review, KycTypeOK
    <3>3. Granted(Applicant[r], Target[r])'
      BY <3>1 DEF Granted
    <3>4. QED
      BY <1>6, <3>2, <3>3 DEF TiersAreGranted
  <2>3. QED
    BY <1>1, <2>1, <2>2 DEF Submit, Screen, Review
<1>8. ChecksStand'
  BY <1>6 DEF ChecksStand, HasTier, requestVars
<1>9. KeyBindsBody'
  BY DEF KeyBindsBody, Made, requestVars
<1>10. MovesFollowReview'
  BY <1>3 DEF MovesFollowReview, Made, UserOf, requestVars
<1>11. QED
  BY <1>4, <1>5, <1>7, <1>8, <1>9, <1>10

-----------------------------------------------------------------------------
(***************************************************************************)
(* Requests.                                                               *)
(***************************************************************************)
\* A step of one request that makes no transaction and no row keeps the
\* invariant if what the request holds next was checked.
LEMMA RequestKeeps ==
    ASSUME IInv, UNCHANGED <<kycVars, idem, txn>>, NEW h \in Handlers, NEW x \in HandlerType,
           handler' = [handler EXCEPT ![h] = x],
           x.pc \notin {"idle", "new"} => Body[x.body].json = idem[x.key].json,
           x.pc \in {"checked", "open", "limited", "vetted"} =>
               x.tier >= MinTier(x.body) /\ Granted(Body[x.body].user, x.tier)
    PROVE  IInv'
<1> USE DEF IInv
<1>1. TypeOK' /\ HitsAreQueued' /\ TiersAreGranted' /\ MovesFollowReview'
  BY DEF TypeOK, kycVars, KycTypeOK, HitsAreQueued, TiersAreGranted, Granted,
     MovesFollowReview, Made, UserOf
<1>2. handler'[h] = x /\ \A g \in Handlers \ {h} : handler'[g] = handler[g]
  BY DEF TypeOK
<1>3. KeyBindsBody'
  BY <1>2 DEF KeyBindsBody, Made
<1>4. ASSUME NEW g \in Handlers, HasTier(g)'
      PROVE  /\ handler'[g].tier >= MinTier(handler'[g].body)
             /\ Granted(Body[handler'[g].body].user, handler'[g].tier)
  BY <1>2, <1>4 DEF ChecksStand, HasTier
<1>5. ChecksStand'
  BY <1>4 DEF ChecksStand, Granted, kycVars
<1>6. QED
  BY <1>1, <1>3, <1>5

\* The steps of a request before its transaction is made.
LEMMA CheckStep ==
    ASSUME IInv, NEW h \in Handlers,
           \/ \E k \in Keys, b \in Bodies : Receive(h, k, b)
           \/ FindReplay(h) \/ ReadTier(h) \/ Begin(h) \/ CheckLimits(h) \/ Judge(h)
           \/ Drop(h)
    PROVE  IInv'
<1> USE DEF IInv
<1>1. ASSUME NEW k \in Keys, NEW b \in Bodies, Receive(h, k, b)
      PROVE  IInv'
  <2>1. CASE idem[k] = NoRow /\
             handler' = [handler EXCEPT ![h] = [pc |-> "new", key |-> k, body |-> b]]
    <3>1. [pc |-> "new", key |-> k, body |-> b] \in HandlerType
      BY DEF HandlerType
    <3>2. QED
      BY <1>1, <2>1, <3>1, RequestKeeps DEF Receive
  <2>2. CASE idem[k] = Row(b) /\
             handler' = [handler EXCEPT ![h] = [pc |-> "accepted", key |-> k, body |-> b]]
    <3>1. [pc |-> "accepted", key |-> k, body |-> b] \in HandlerType /\ idem[k].json = Body[b].json
      BY <2>2 DEF HandlerType, Row
    <3>2. QED
      BY <1>1, <2>2, <3>1, RequestKeeps DEF Receive
  <2>3. QED
    BY <1>1, <2>1, <2>2 DEF Receive
<1>2. CASE FindReplay(h)
  <2> DEFINE x == [handler[h] EXCEPT !.pc = "answering"]
  <2>1. /\ handler[h].pc = "accepted" /\ handler' = [handler EXCEPT ![h] = x]
        /\ x \in HandlerType
    BY <1>2, PcFacts DEF FindReplay, TypeOK
  <2>2. handler[h] \in [pc : {"new", "accepted", "answering"}, key : Keys, body : Bodies]
    BY <2>1 DEF TypeOK, HandlerType, Idle
  <2>3. x.pc = "answering" /\ x.key = handler[h].key /\ x.body = handler[h].body
    BY <2>2
  <2>4. Body[x.body].json = idem[x.key].json
    BY <2>1, <2>3 DEF KeyBindsBody
  <2> HIDE DEF x
  <2>5. QED
    BY <1>2, <2>1, <2>3, <2>4, RequestKeeps DEF FindReplay
<1>3. CASE ReadTier(h)
  <2> DEFINE k == handler[h].key
             b == handler[h].body
             t == tier[Body[b].user]
             x == [pc |-> "checked", key |-> k, body |-> b, tier |-> t]
  <2>1. /\ handler[h].pc = "accepted" /\ TierSuffices(t, b)
        /\ handler' = [handler EXCEPT ![h] = x]
    BY <1>3 DEF ReadTier
  <2>2. k \in Keys /\ b \in Bodies
    BY <2>1, HandlerFacts
  <2>3. Body[b].user \in Users /\ t \in 0..3 /\ Granted(Body[b].user, t)
    BY <2>2, BodyFacts DEF TypeOK, KycTypeOK, TiersAreGranted
  <2>4. x \in HandlerType
    BY <2>2, <2>3 DEF HandlerType
  <2>5. Body[b].json = idem[k].json /\ t >= MinTier(b)
    BY <2>1 DEF KeyBindsBody, TierSuffices
  <2>6. x.key = k /\ x.body = b /\ x.tier = t
    OBVIOUS
  <2> HIDE DEF k, b, t, x
  <2>7. QED
    BY <1>3, <2>1, <2>3, <2>4, <2>5, <2>6, RequestKeeps DEF ReadTier
<1>4. CASE Begin(h)
  <2> DEFINE x == [pc |-> "open", key |-> handler[h].key, body |-> handler[h].body,
                   tier |-> handler[h].tier, stale |-> {}]
  <2>1. handler[h].pc = "checked" /\ handler' = [handler EXCEPT ![h] = x] /\ HasTier(h)
    BY <1>4 DEF Begin, HasTier
  <2>2. x \in HandlerType
    BY <2>1, HandlerFacts DEF HandlerType
  <2>3. /\ Body[x.body].json = idem[x.key].json
        /\ x.tier >= MinTier(x.body) /\ Granted(Body[x.body].user, x.tier)
    BY <2>1 DEF KeyBindsBody, ChecksStand
  <2> HIDE DEF x
  <2>4. QED
    BY <1>4, <2>1, <2>2, <2>3, RequestKeeps DEF Begin
<1>5. CASE CheckLimits(h)
  <2> DEFINE x == [handler[h] EXCEPT !.pc = "limited"]
  <2>1. /\ handler[h].pc = "open" /\ handler' = [handler EXCEPT ![h] = x]
        /\ x \in HandlerType /\ HasTier(h)
    BY <1>5, PcFacts DEF CheckLimits, HasTier, TypeOK
  <2>2. handler[h] \in [pc : {"open", "limited"}, key : Keys, body : Bodies, tier : 0..3,
                        stale : SUBSET {"quote", "wallet"}]
    BY <2>1 DEF TypeOK, HandlerType, Idle
  <2>3. x.key = handler[h].key /\ x.body = handler[h].body /\ x.tier = handler[h].tier
    BY <2>2
  <2>4. /\ Body[x.body].json = idem[x.key].json
        /\ x.tier >= MinTier(x.body) /\ Granted(Body[x.body].user, x.tier)
    BY <2>1, <2>3 DEF KeyBindsBody, ChecksStand
  <2> HIDE DEF x
  <2>5. QED
    BY <1>5, <2>1, <2>4, RequestKeeps DEF CheckLimits
<1>6. CASE Judge(h)
  <2>1. PICK held \in BOOLEAN :
           handler' = [handler EXCEPT ![h] =
              [pc |-> "vetted", key |-> handler[h].key, body |-> handler[h].body,
               tier |-> handler[h].tier, stale |-> handler[h].stale, held |-> held]]
    BY <1>6 DEF Judge
  <2> DEFINE x == [pc |-> "vetted", key |-> handler[h].key, body |-> handler[h].body,
                   tier |-> handler[h].tier, stale |-> handler[h].stale, held |-> held]
  <2>2. handler[h].pc = "limited" /\ HasTier(h) /\ Open(handler[h])
    BY <1>6 DEF Judge, HasTier, Open
  <2>3. x \in HandlerType
    BY <2>2, HandlerFacts DEF HandlerType
  <2>4. /\ Body[x.body].json = idem[x.key].json
        /\ x.tier >= MinTier(x.body) /\ Granted(Body[x.body].user, x.tier)
    BY <2>2 DEF KeyBindsBody, ChecksStand
  <2>5. handler' = [handler EXCEPT ![h] = x]
    BY <2>1
  <2> HIDE DEF x
  <2>6. QED
    BY <1>6, <2>3, <2>4, <2>5, RequestKeeps DEF Judge
<1>7. CASE Drop(h)
  <2>1. Idle \in HandlerType /\ Idle.pc = "idle"
    BY DEF HandlerType, Idle
  <2>2. QED
    BY <1>7, <2>1, RequestKeeps DEF Drop
<1>8. QED
  BY <1>1, <1>2, <1>3, <1>4, <1>5, <1>6, <1>7

\* A row is created only where there is none, so no transaction and no
\* request past the middleware has its key.
LEMMA ClaimStep ==
    ASSUME IInv, NEW h \in Handlers, Claim(h)
    PROVE  IInv'
<1> USE DEF IInv
<1> DEFINE k == handler[h].key
           b == handler[h].body
           x == [handler[h] EXCEPT !.pc = "accepted"]
<1>1. handler[h].pc = "new" /\ k \in Keys /\ b \in Bodies
  BY HandlerFacts DEF Claim
<1>2. /\ idem[k] = NoRow
      /\ idem' = [idem EXCEPT ![k] = [json |-> Body[b].json, answered |-> FALSE]]
      /\ handler' = [handler EXCEPT ![h] = x]
      /\ UNCHANGED <<kycVars, txn>>
  BY DEF Claim, RowIsFree, Row, TypeOK
<1>3. handler[h] \in [pc : {"new", "accepted", "answering"}, key : Keys, body : Bodies]
  BY <1>1 DEF TypeOK, HandlerType, Idle
<1>4. x.pc = "accepted" /\ x.key = k /\ x.body = b
  BY <1>3
<1>5. x \in HandlerType
  BY <1>1, PcFacts
<1> HIDE DEF k, b, x
<1>6. TypeOK'
  <2>1. idem' \in [Keys -> [json : {Body[c].json : c \in Bodies} \cup {"none"},
                          answered : BOOLEAN]]
    BY <1>1, <1>2 DEF TypeOK
  <2>2. QED
    BY <1>2, <1>5, <2>1 DEF TypeOK, kycVars, KycTypeOK
<1>7. HitsAreQueued' /\ TiersAreGranted' /\ MovesFollowReview'
  BY <1>2 DEF kycVars, HitsAreQueued, TiersAreGranted, Granted, MovesFollowReview, Made, UserOf
<1>8. handler'[h] = x /\ \A g \in Handlers \ {h} : handler'[g] = handler[g]
  BY <1>2 DEF TypeOK
<1>9. /\ idem'[k].json = Body[b].json
      /\ \A j \in Keys \ {k} : idem'[j] = idem[j]
  BY <1>1, <1>2 DEF TypeOK
<1>10. \A j \in Made : j # k
  <2>1. idem[k].json = "none"
    BY <1>2 DEF NoRow
  <2>2. QED
    BY <2>1, MadeFacts, BodyFacts DEF KeyBindsBody
<1>11. \A g \in Handlers : handler[g].pc \notin {"idle", "new"} => handler[g].key # k
  <2>1. idem[k].json = "none"
    BY <1>2 DEF NoRow
  <2>2. QED
    BY <2>1, HandlerFacts, BodyFacts DEF KeyBindsBody
<1>12. KeyBindsBody'
  <2>1. \A j \in Made' : Body[txn'[j].body].json = idem'[j].json
    BY <1>2, <1>9, <1>10, MadeFacts DEF KeyBindsBody, Made
  <2>2. ASSUME NEW g \in Handlers, handler'[g].pc \notin {"idle", "new"}
        PROVE  Body[handler'[g].body].json = idem'[handler'[g].key].json
    <3>1. CASE g = h
      BY <1>4, <1>8, <1>9, <3>1
    <3>2. CASE g # h
      <4>1. handler'[g] = handler[g] /\ handler[g].pc \notin {"idle", "new"}
        BY <1>8, <2>2, <3>2
      <4>2. handler[g].key \in Keys \ {k}
        BY <1>11, <4>1, HandlerFacts
      <4>3. QED
        BY <1>9, <4>1, <4>2 DEF KeyBindsBody
    <3>3. QED
      BY <3>1, <3>2
  <2>3. QED
    BY <2>1, <2>2 DEF KeyBindsBody
<1>13. ChecksStand'
  <2>1. \A g \in Handlers : HasTier(g)' => handler'[g] = handler[g] /\ HasTier(g)
    BY <1>4, <1>8 DEF HasTier
  <2>2. QED
    BY <1>2, <2>1 DEF ChecksStand, Granted, kycVars
<1>14. QED
  BY <1>6, <1>7, <1>12, <1>13

\* The transaction is the one of the body that was checked.
LEMMA CommitStep ==
    ASSUME IInv, NEW h \in Handlers, Commit(h)
    PROVE  IInv'
<1> USE DEF IInv
<1> DEFINE k == handler[h].key
           b == handler[h].body
           new == [status |-> CommittedStatus(handler[h]), body |-> b,
                   tier |-> handler[h].tier, window |-> "day", direct |-> ~handler[h].held,
                   completed |-> CommittedStatus(handler[h]) = "COMPLETED",
                   enqueued |-> CommittedStatus(handler[h]) = "PROCESSING", readers |-> 0]
<1>1. /\ handler[h].pc = "vetted" /\ HasTier(h) /\ k \in Keys /\ b \in Bodies
      /\ handler[h].held \in BOOLEAN /\ handler[h].tier \in 0..3
  BY HandlerFacts DEF Commit, MayCommit, HasTier
<1>2. txn' = [txn EXCEPT ![k] = new] /\ UNCHANGED <<kycVars, idem>>
  BY DEF Commit
<1>3. CommittedStatus(handler[h]) \in {"REQUIRES_APPROVAL", "COMPLETED", "PROCESSING"}
  BY DEF CommittedStatus
<1>4. new \in TxnType /\ new.body = b /\ new.status # "NONE"
  BY <1>1, <1>3, AdminsAssumption DEF TxnType
<1>5. handler'[h] = [pc |-> "answering", key |-> k, body |-> b]
  BY DEF Commit
<1>6. ASSUME NEW g \in Handlers \ {h}
      PROVE  /\ handler'[g] \in HandlerType
             /\ handler'[g].pc = handler[g].pc
             /\ handler[g].pc # "idle" =>
                   handler'[g].key = handler[g].key /\ handler'[g].body = handler[g].body
             /\ HasTier(g) => handler'[g].tier = handler[g].tier
  <2>1. CASE Open(handler[g])
    <3>1. handler'[g] = [handler[g] EXCEPT !.stale =
                            handler[g].stale \cup Shares(handler[g], handler[h])]
      BY <1>6, <2>1 DEF Commit
    <3>2. Shares(handler[g], handler[h]) \in SUBSET {"quote", "wallet"}
      BY DEF Shares
    <3>3. QED
      BY <2>1, <3>1, <3>2, StaleFacts
  <2>2. CASE ~Open(handler[g])
    BY <1>6, <2>2 DEF Commit, TypeOK
  <2>3. QED
    BY <2>1, <2>2
<1> HIDE DEF new
<1>7. TypeOK'
  <2>1. handler'[h] \in HandlerType
    BY <1>1, <1>5 DEF HandlerType
  <2>2. handler' \in [Handlers -> HandlerType]
    BY <1>6, <2>1 DEF Commit
  <2>3. txn' \in [Keys -> TxnType]
    BY <1>1, <1>2, <1>4 DEF TypeOK
  <2>4. QED
    BY <1>2, <2>2, <2>3 DEF TypeOK, kycVars, KycTypeOK
<1>8. HitsAreQueued' /\ TiersAreGranted'
  BY <1>2 DEF kycVars, HitsAreQueued, TiersAreGranted, Granted
<1>9. /\ txn'[k] = new
      /\ \A j \in Keys \ {k} : txn'[j] = txn[j]
  BY <1>1, <1>2 DEF TypeOK
<1>10. KeyBindsBody'
  <2>1. Body[b].json = idem[k].json
    BY <1>1 DEF KeyBindsBody
  <2>2. ASSUME NEW j \in Made'
        PROVE  Body[txn'[j].body].json = idem'[j].json
    BY <1>2, <1>4, <1>9, <2>1, <2>2 DEF Made, KeyBindsBody
  <2>3. ASSUME NEW g \in Handlers, handler'[g].pc \notin {"idle", "new"}
        PROVE  Body[handler'[g].body].json = idem'[handler'[g].key].json
    <3>1. CASE g = h
      BY <1>2, <1>5, <2>1, <3>1
    <3>2. CASE g # h
      BY <1>2, <1>6, <2>3, <3>2 DEF KeyBindsBody
    <3>3. QED
      BY <3>1, <3>2
  <2>4. QED
    BY <2>2, <2>3 DEF KeyBindsBody
<1>11. ChecksStand'
  <2>1. ASSUME NEW g \in Handlers, HasTier(g)'
        PROVE  /\ handler'[g].tier >= MinTier(handler'[g].body)
               /\ Granted(Body[handler'[g].body].user, handler'[g].tier)
    <3>1. g # h
      BY <1>5, <2>1 DEF HasTier
    <3>2. handler'[g].pc = handler[g].pc /\ HasTier(g) /\ handler[g].pc # "idle"
      BY <1>6, <2>1, <3>1 DEF HasTier
    <3>3. QED
      BY <1>6, <3>1, <3>2 DEF ChecksStand
  <2>2. QED
    BY <1>2, <2>1 DEF ChecksStand, Granted, kycVars
<1>12. MovesFollowReview'
  <2>1. ASSUME NEW j \in Made'
        PROVE  \/ StartTier[UserOf(j)'] >= MinTier(txn'[j].body)
               \/ \E r \in Records :
                     /\ Applicant[r] = UserOf(j)'
                     /\ Target[r] >= MinTier(txn'[j].body)
                     /\ record[r].approved
    <3>1. CASE j = k
      <4>1. txn'[j].body = b /\ UserOf(j)' = Body[b].user
        BY <1>4, <1>9, <3>1 DEF UserOf
      <4>2. handler[h].tier >= MinTier(b) /\ Granted(Body[b].user, handler[h].tier)
        BY <1>1 DEF ChecksStand
      <4>3. QED
        BY <4>1, <4>2 DEF Granted
    <3>2. CASE j # k
      <4>1. j \in Made /\ txn'[j] = txn[j]
        BY <1>9, <2>1, <3>2 DEF Made
      <4>2. QED
        BY <4>1 DEF MovesFollowReview, UserOf
    <3>3. QED
      BY <3>1, <3>2
  <2>2. QED
    BY <1>2, <2>1 DEF MovesFollowReview, kycVars
<1>13. QED
  BY <1>7, <1>8, <1>10, <1>11, <1>12

\* The answer is stored, and the request ends.
LEMMA StoreStep ==
    ASSUME IInv, NEW h \in Handlers, Store(h)
    PROVE  IInv'
<1> USE DEF IInv
<1>1. /\ handler[h].pc = "answering" /\ handler[h].key \in Keys
      /\ handler' = [handler EXCEPT ![h] = Idle]
      /\ idem' = [idem EXCEPT ![handler[h].key].answered = TRUE]
      /\ UNCHANGED <<kycVars, txn>>
  BY HandlerFacts DEF Store
<1>2. /\ idem' \in [Keys -> [json : {Body[c].json : c \in Bodies} \cup {"none"},
                          answered : BOOLEAN]]
      /\ \A j \in Keys : idem'[j].json = idem[j].json
  BY <1>1 DEF TypeOK
<1>3. Idle \in HandlerType
  BY DEF HandlerType
<1>4. TypeOK'
  BY <1>1, <1>2, <1>3 DEF TypeOK, kycVars, KycTypeOK
<1>5. HitsAreQueued' /\ TiersAreGranted' /\ MovesFollowReview'
  BY <1>1 DEF kycVars, HitsAreQueued, TiersAreGranted, Granted, MovesFollowReview, Made, UserOf
<1>6. \A g \in Handlers : handler'[g].pc # "idle" => handler'[g] = handler[g]
  BY <1>1 DEF TypeOK, Idle
<1>7. KeyBindsBody'
  BY <1>1, <1>2, <1>6, HandlerFacts DEF KeyBindsBody, Made
<1>8. ChecksStand'
  BY <1>1, <1>6 DEF ChecksStand, HasTier, Granted, kycVars
<1>9. QED
  BY <1>4, <1>5, <1>7, <1>8

\* What happens to a transaction later: nobody reads, decides, dispatches or
\* reports one that was not made, and whoever does writes its row alone.
LaterAction(k) ==
    \/ ReadItem(k) \/ GiveUp(k) \/ Dispatch(k)
    \/ \E status \in {"PROCESSING", "CANCELLED"} : Decide(k, status)
    \/ \E status \in {"COMPLETED", "FAILED"} : Report(k, status)
    \/ Age(k)

Follows(old, new) ==
    /\ new \in RowType
    /\ new.body = old.body /\ new.tier = old.tier
    /\ old.completed => new.completed
    /\ new.status = "COMPLETED" => new.completed \/ old.status = "COMPLETED"
    /\ new.direct =>
          /\ old.direct
          /\ \/ /\ new.readers = old.readers
                /\ new.status \in {old.status, "PROCESSING", "COMPLETED"}
             \/ old.readers > 0 \/ old.status = "REQUIRES_APPROVAL"
    /\ new.window = "day" => old.window = "day"
    /\ new.window = "month" => old.window \in {"day", "month"}

LEMMA LaterRow ==
    ASSUME TypeOK, NEW key \in Keys, LaterAction(key)
    PROVE  /\ key \in Made /\ UNCHANGED <<kycVars, idem, handler>>
           /\ Follows(txn[key], txn'[key])
           /\ txn' = [txn EXCEPT ![key] = txn'[key]]
<1> DEFINE old == txn[key]
<1>1. key \in Made
  <2>1. txn[key] = NoTxn => txn[key].readers = 0 /\ txn[key].enqueued = FALSE
    BY DEF NoTxn
  <2>2. txn[key].status = "NONE" => txn[key] = NoTxn
    BY DEF TypeOK, TxnType
  <2>3. QED
    BY <2>1, <2>2 DEF LaterAction, ReadItem, GiveUp, Dispatch, Decide, Report, Age, Made
<1>2. old \in RowType /\ Admins \in Nat
  BY <1>1, MadeFacts, AdminsAssumption
<1> SUFFICES ASSUME TRUE
             PROVE  \E new : Follows(old, new) /\ txn' = [txn EXCEPT ![key] = new]
  <2>1. UNCHANGED <<kycVars, idem, handler>>
    BY DEF LaterAction, ReadItem, GiveUp, Dispatch, Decide, Report, Age
  <2>2. \A new : txn' = [txn EXCEPT ![key] = new] => txn'[key] = new
    BY DEF TypeOK
  <2> HIDE DEF old
  <2>3. QED
    BY <1>1, <2>1, <2>2 DEF old
<1>3. CASE ReadItem(key)
  <2> DEFINE new == [old EXCEPT !.readers = old.readers + 1]
  <2>1. txn' = [txn EXCEPT ![key] = new] /\ old.status = "REQUIRES_APPROVAL"
        /\ old.readers < Admins
    BY <1>3 DEF ReadItem, TypeOK
  <2>2. old.readers + 1 \in 0..Admins
    BY <1>2, <2>1 DEF RowType
  <2> HIDE DEF old
  <2>3. Follows(old, new)
    BY <1>2, <2>1, <2>2 DEF Follows, RowType
  <2>4. QED
    BY <2>1, <2>3
<1>4. CASE GiveUp(key)
  <2> DEFINE new == [old EXCEPT !.readers = old.readers - 1]
  <2>1. txn' = [txn EXCEPT ![key] = new] /\ old.readers > 0
    BY <1>4 DEF GiveUp, TypeOK
  <2>2. old.readers - 1 \in 0..Admins
    BY <1>2, <2>1 DEF RowType
  <2> HIDE DEF old
  <2>3. Follows(old, new)
    BY <1>2, <2>1, <2>2 DEF Follows, RowType
  <2>4. QED
    BY <2>1, <2>3
<1>5. CASE Dispatch(key)
  <2> DEFINE new == [old EXCEPT !.status = "PROCESSING"]
  <2>1. txn' = [txn EXCEPT ![key] = new]
    BY <1>5 DEF Dispatch, TypeOK
  <2> HIDE DEF old
  <2>2. Follows(old, new)
    BY <1>2 DEF Follows, RowType
  <2>3. QED
    BY <2>1, <2>2
<1>6. ASSUME NEW status \in {"PROCESSING", "CANCELLED"}, Decide(key, status)
      PROVE  \E new : Follows(old, new) /\ txn' = [txn EXCEPT ![key] = new]
  <2> DEFINE enqueued == old.enqueued \/ status = "PROCESSING"
             new == [old EXCEPT !.status = status, !.enqueued = enqueued,
                                !.readers = old.readers - 1]
  <2>1. txn' = [txn EXCEPT ![key] = new] /\ old.readers > 0
    BY <1>6 DEF Decide, TypeOK
  <2>2. old.readers - 1 \in 0..Admins
    BY <1>2, <2>1 DEF RowType
  <2>3. enqueued \in BOOLEAN
    OBVIOUS
  <2> HIDE DEF old, enqueued
  <2>4. new \in RowType
    BY <1>2, <2>2, <2>3 DEF RowType
  <2>5. /\ new.body = old.body /\ new.tier = old.tier /\ new.window = old.window
        /\ new.completed = old.completed /\ new.direct = old.direct
        /\ new.status \in {"PROCESSING", "CANCELLED"}
    BY <1>2 DEF RowType
  <2> HIDE DEF new
  <2>6. Follows(old, new)
    BY <2>1, <2>4, <2>5 DEF Follows
  <2>7. QED
    BY <2>1, <2>6
<1>7. ASSUME NEW status \in {"COMPLETED", "FAILED"}, Report(key, status)
      PROVE  \E new : Follows(old, new) /\ txn' = [txn EXCEPT ![key] = new]
  <2> DEFINE new == [old EXCEPT !.status = status,
                                !.direct = old.direct /\ status # "FAILED",
                                !.completed = old.completed \/ status = "COMPLETED"]
  <2>1. txn' = [txn EXCEPT ![key] = new]
    BY <1>7 DEF Report, TypeOK
  <2> HIDE DEF old
  <2>2. Follows(old, new)
    BY <1>2 DEF Follows, RowType
  <2>3. QED
    BY <2>1, <2>2
<1>8. CASE Age(key)
  <2> DEFINE new == [old EXCEPT !.window = IF old.window = "day" THEN "month" ELSE "old"]
  <2>1. txn' = [txn EXCEPT ![key] = new]
    BY <1>8 DEF Age, TypeOK
  <2> HIDE DEF old
  <2>2. Follows(old, new)
    BY <1>2 DEF Follows, RowType
  <2>3. QED
    BY <2>1, <2>2
<1>9. QED
  BY <1>3, <1>4, <1>5, <1>6, <1>7, <1>8 DEF LaterAction

\* So it leaves the body of every transaction alone.
LEMMA LaterStep ==
    ASSUME IInv, NEW key \in Keys, LaterAction(key)
    PROVE  IInv'
<1> USE DEF IInv
<1>1. key \in Made /\ UNCHANGED <<kycVars, idem, handler>>
  BY LaterRow
<1>2. /\ txn' \in [Keys -> TxnType]
      /\ \A j \in Keys : /\ txn'[j].body = txn[j].body
                         /\ txn'[j].status # "NONE" <=> txn[j].status # "NONE"
  <2> DEFINE new == txn'[key]
  <2>1. Follows(txn[key], new) /\ txn' = [txn EXCEPT ![key] = new]
    BY LaterRow
  <2> HIDE DEF new
  <2>2. new \in TxnType /\ new.status # "NONE" /\ new.body = txn[key].body
    BY <2>1 DEF Follows, RowType, TxnType
  <2>3. txn'[key] = new /\ \A j \in Keys \ {key} : txn'[j] = txn[j]
    BY <2>1 DEF TypeOK
  <2>4. txn' \in [Keys -> TxnType]
    BY <2>1, <2>2 DEF TypeOK
  <2>5. QED
    BY <1>1, <2>2, <2>3, <2>4 DEF Made
<1>3. /\ Made' = Made
      /\ \A j \in Keys : UserOf(j)' = UserOf(j)
  <2>1. ASSUME NEW j \in Keys
        PROVE  (j \in Made' <=> j \in Made) /\ UserOf(j)' = UserOf(j)
    <3>1. txn'[j].body = txn[j].body
      BY <1>2
    <3>2. (txn'[j].status # "NONE") <=> (txn[j].status # "NONE")
      BY <1>2
    <3>3. j \in Made' <=> j \in Made
      BY <3>2, Zenon DEF Made
    <3>4. UserOf(j)' = UserOf(j)
      BY <3>1, Zenon DEF UserOf
    <3>5. QED
      BY <3>3, <3>4
  <2>2. Made' \subseteq Keys /\ Made \subseteq Keys
    BY DEF Made
  <2>3. QED
    BY <2>1, <2>2
<1>4. TypeOK'
  BY <1>1, <1>2 DEF TypeOK, kycVars, KycTypeOK
<1>5. HitsAreQueued' /\ TiersAreGranted' /\ ChecksStand'
  BY <1>1 DEF kycVars, HitsAreQueued, TiersAreGranted, Granted, ChecksStand, HasTier
<1>6. KeyBindsBody' /\ MovesFollowReview'
  BY <1>1, <1>2, <1>3, MadeFacts DEF KeyBindsBody, MovesFollowReview, kycVars
<1>7. QED
  BY <1>4, <1>5, <1>6

-----------------------------------------------------------------------------
(***************************************************************************)
(* Theorems.                                                               *)
(***************************************************************************)
LEMMA StepIInv ==
    ASSUME IInv, [Next]_vars
    PROVE  IInv'
<1>1. CASE UNCHANGED vars
  BY <1>1 DEF vars, IInv, TypeOK, KycTypeOK, HitsAreQueued, KeyBindsBody, Made, UserOf,
     TiersAreGranted, Granted, ChecksStand, HasTier, MovesFollowReview
<1>2. ASSUME NEW h \in Handlers, NEW k \in Keys, NEW b \in Bodies, Refuse(h, k, b)
      PROVE  IInv'
  BY <1>1, <1>2 DEF Refuse
<1>3. QED
  BY <1>1, <1>2, KycStep, CheckStep, ClaimStep, CommitStep, StoreStep, LaterStep DEF Next, LaterAction

THEOREM Invariance == Spec => []IInv
<1>1. QED
  BY InitIInv, StepIInv, PTL DEF Spec

\* Rows and requests keep their types.
THEOREM TypeCorrect == Spec => []TypeOK
<1>1. IInv => TypeOK
  BY DEF IInv
<1>2. QED
  BY <1>1, Invariance, PTL

\* Under one key nothing but the JSON on record is carried out.
THEOREM KeysBindBodies == Spec => []KeyBindsBody
<1>1. IInv => KeyBindsBody
  BY DEF IInv
<1>2. QED
  BY <1>1, Invariance, PTL

\* Whoever moves money has a record for a tier that allows it which an officer
\* approved, or had such a tier from the start.
THEOREM MoneyFollowsReview == Spec => []MovesFollowReview
<1>1. IInv => MovesFollowReview
  BY DEF IInv
<1>2. QED
  BY <1>1, Invariance, PTL

\* Hits no decision has followed are in the officers' queue.
THEOREM HitsStayQueued == Spec => []HitsAreQueued
<1>1. IInv => HitsAreQueued
  BY DEF IInv
<1>2. QED
  BY <1>1, Invariance, PTL

-----------------------------------------------------------------------------
(***************************************************************************)
(* What a request counts for.                                              *)
(***************************************************************************)
LEMMA TermsFacts ==
    ASSUME NEW b \in Bodies
    PROVE  Terms[b] \in QuotesOf(Body[b].ask)
BY BodiesAssumption DEF Terms

UsdRate(b) == CHOOSE r \in GetRate(Terms[b].from, "USD") : TRUE

LEMMA UsdRateFacts ==
    ASSUME NEW b \in Bodies
    PROVE  UsdRate(b) \in GetRate(Terms[b].from, "USD")
<1>1. Terms[b].from = Body[b].ask.from
  BY TermsFacts, QuoteFacts, BodiesAssumption
<1>2. GetRate(Body[b].ask.from, "USD") # {}
  BY BodiesAssumption
<1>3. QED
  BY <1>1, <1>2 DEF UsdRate

Sent(b) == IF Body[b].kind = "transfer.initiate" THEN Terms[b].receive ELSE Terms[b].amount

LEMMA UsdFacts ==
    ASSUME NEW b \in Bodies
    PROVE  /\ UsdAmount[b] = Times(Sent(b), UsdRate(b))
           /\ IsFraction(Sent(b)) /\ IsFraction(UsdAmount[b])
           /\ UsdOf[b] \in Nat
<1>1. UsdAmount[b] = Times(Sent(b), UsdRate(b))
  BY DEF UsdAmount, Sent, UsdRate
<1>2. IsFraction(Sent(b))
  BY TermsFacts, QuoteFacts, BodiesAssumption DEF Sent
<1>3. IsFraction(UsdAmount[b])
  BY <1>1, <1>2, UsdRateFacts, GetRateFacts, TimesFacts
<1>4. UsdOf[b] \in Nat
  <2> DEFINE n == UsdAmount[b].n
             d == UsdAmount[b].d
  <2>1. n \in Nat /\ d \in Nat /\ d # 0
    BY <1>3, Parts
  <2>2. UsdOf[b] = n \div d
    BY DEF UsdOf
  <2> HIDE DEF n, d
  <2>3. n \div d \in Nat
    BY <2>1, Remainder
  <2>4. QED
    BY <2>2, <2>3
<1>5. QED
  BY <1>1, <1>2, <1>3, <1>4

\* What arrives is worth at most what is taken.
LEMMA ReceivesAtMost ==
    ASSUME NEW b \in Bodies
    PROVE  /\ IsFraction(Value[Terms[b].from]) /\ IsFraction(Value[Terms[b].to])
           /\ Same(UsdRate(b), Value[Terms[b].from])
           /\ AtMost(Times(Terms[b].receive, Value[Terms[b].to]),
                     Times(Terms[b].amount, Value[Terms[b].from]))
<1> DEFINE ask == Body[b].ask
           q == Terms[b]
           from == Value[q.from]
           to == Value[q.to]
           r == UsdRate(b)
           one == Whole(1)
           kept == Spread(ask)
<1>1. Agree(Value) /\ Value["USD"] = one
  BY ValueAssumption DEF Agree, IsPositive
<1>2. /\ ask.rail \in DOMAIN RailBps /\ ask.amount \in Nat
      /\ q \in QuotesOf(ask)
  BY BodiesAssumption, TermsFacts
<1>3. PICK spot, x :
          /\ spot \in GetRate(ask.from, ask.to)
          /\ IsFraction(x) /\ AtMost(x, q.amount)
          /\ q.receive = Times(x, Times(spot, kept))
  BY <1>2, QuoteFacts
<1>4. /\ q.from = ask.from /\ q.to = ask.to
      /\ IsFraction(q.amount) /\ IsFraction(q.receive)
  BY <1>2, QuoteFacts
<1>5. IsFraction(one) /\ IsPositive(one) /\ IsFraction(spot) /\ IsFraction(r)
  BY <1>3, WholeFacts, GetRateFacts, UsdRateFacts
<1>6. IsPositive(from) /\ IsFraction(from) /\ Same(r, from)
  <2>1. CASE q.from = "USD"
    <3>1. r = one /\ from = one
      BY <1>1, <2>1, UsdRateFacts, GetRateIsWorth
    <3>2. QED
      BY <1>5, <3>1 DEF Same
  <2>2. CASE q.from # "USD"
    <3>1. IsWorth(r, Value, q.from, "USD")
      BY <1>1, <2>2, UsdRateFacts, GetRateIsWorth
    <3>2. IsPositive(from) /\ Same(Times(r, one), from)
      BY <1>1, <3>1 DEF IsWorth
    <3>3. IsFraction(from) /\ IsFraction(Times(r, one)) /\ Same(r, Times(r, one))
      BY <1>5, <3>2, PositiveIsFraction, TimesFacts, TimesOne, SameSymmetric
    <3>4. QED
      BY <1>5, <3>2, <3>3, SameTransitive
  <2>3. QED
    BY <2>1, <2>2
<1>7. IsFraction(to) /\ Same(Times(spot, to), from)
  <2>1. CASE q.from = q.to
    <3>1. spot = one /\ to = from
      BY <1>1, <1>3, <1>4, <2>1, GetRateIsWorth
    <3>2. QED
      BY <1>6, <3>1, TimesOne
  <2>2. CASE q.from # q.to
    <3>1. IsWorth(spot, Value, q.from, q.to)
      BY <1>1, <1>3, <1>4, <2>2, GetRateIsWorth
    <3>2. QED
      BY <3>1, PositiveIsFraction DEF IsWorth
  <2>3. QED
    BY <2>1, <2>2
<1>8. IsFraction(kept) /\ AtMost(kept, one)
  BY <1>2, SpreadIsAtMostOne
<1> HIDE DEF ask, q, from, to, r, one, kept
<1> USE <1>3, <1>4, <1>5, <1>6, <1>7, <1>8
<1>9. AtMost(Times(spot, kept), spot)
  <2>1. AtMost(Times(spot, kept), Times(spot, one))
    BY TimesIsMonotone, AtMostReflexive
  <2>2. AtMost(Times(spot, one), spot)
    BY TimesOne, TimesFacts, SameIsAtMost DEF one
  <2>3. QED
    BY <2>1, <2>2, TimesFacts, AtMostTransitive
<1>10. AtMost(q.receive, Times(q.amount, spot))
  BY <1>9, TimesFacts, TimesIsMonotone
<1>11. AtMost(Times(q.receive, to), Times(Times(q.amount, spot), to))
  BY <1>10, TimesFacts, TimesIsMonotone, AtMostReflexive
<1>12. Same(Times(Times(q.amount, spot), to), Times(q.amount, from))
  <2>1. Same(Times(Times(q.amount, spot), to), Times(q.amount, Times(spot, to)))
    BY TimesAssociates
  <2>2. Same(Times(q.amount, Times(spot, to)), Times(q.amount, from))
    BY TimesFacts, TimesOfSame DEF Same
  <2>3. /\ IsFraction(Times(Times(q.amount, spot), to))
        /\ IsFraction(Times(q.amount, Times(spot, to))) /\ IsFraction(Times(q.amount, from))
    BY TimesFacts
  <2>4. QED
    BY <2>1, <2>2, <2>3, SameTransitive
<1>13. /\ IsFraction(Times(q.receive, to)) /\ IsFraction(Times(Times(q.amount, spot), to))
       /\ IsFraction(Times(q.amount, from))
  BY TimesFacts
<1>14. AtMost(Times(q.receive, to), Times(q.amount, from))
  BY <1>11, <1>12, <1>13, SameIsAtMost, AtMostTransitive
<1>15. QED
  BY <1>14 DEF q, from, to, r

\* So what counts is between the two: it is the one, for a transfer within
\* one currency, or the other.
LEMMA SameCurrencyIsFair ==
    ASSUME NEW b \in Bodies,
           Body[b].kind = "transfer.initiate" => Terms[b].from = Terms[b].to
    PROVE  b \notin MisCounted
<1> DEFINE q == Terms[b]
           from == Value[q.from]
           to == Value[q.to]
           r == UsdRate(b)
           sent == Sent(b)
<1>1. /\ IsFraction(from) /\ IsFraction(to) /\ Same(r, from)
      /\ AtMost(Times(q.receive, to), Times(q.amount, from))
  BY ReceivesAtMost
<1>2. IsFraction(q.amount) /\ IsFraction(q.receive) /\ IsFraction(r)
  BY TermsFacts, QuoteFacts, BodiesAssumption, UsdRateFacts, GetRateFacts
<1>3. UsdAmount[b] = Times(sent, r) /\ IsFraction(UsdAmount[b])
  BY UsdFacts
<1>4. \/ sent = q.receive /\ to = from
      \/ sent = q.amount
  BY DEF Sent
<1>5. b \in MisCounted => ~ /\ AtMost(Times(q.receive, to), UsdAmount[b])
                            /\ AtMost(UsdAmount[b], Times(q.amount, from))
  BY DEF MisCounted
<1> HIDE DEF q, from, to, r, sent
<1>6. /\ IsFraction(Times(q.receive, to)) /\ IsFraction(Times(q.amount, from))
  BY <1>1, <1>2, TimesFacts
<1>7. CASE sent = q.receive /\ to = from
  <2>1. Same(UsdAmount[b], Times(q.receive, to))
    BY <1>1, <1>2, <1>3, <1>7, TimesOfSame DEF Same
  <2>2. QED
    BY <1>1, <1>3, <1>5, <1>6, <2>1, SameIsAtMost, AtMostTransitive
<1>8. CASE sent = q.amount
  <2>1. Same(UsdAmount[b], Times(q.amount, from))
    BY <1>1, <1>2, <1>3, <1>8, TimesOfSame DEF Same
  <2>2. QED
    BY <1>1, <1>3, <1>5, <1>6, <2>1, SameIsAtMost, AtMostTransitive
<1>9. QED
  BY <1>4, <1>7, <1>8

-----------------------------------------------------------------------------
(***************************************************************************)
(* How a request inside its transaction moves, whichever step is taken.    *)
(***************************************************************************)
\* A change of what another request holds is its own.
LEMMA OthersStay ==
    ASSUME TypeOK, NEW h \in Handlers, NEW x, handler' = [handler EXCEPT ![h] = x],
           NEW g \in Handlers
    PROVE  handler'[g] = IF g = h THEN x ELSE handler[g]
BY DEF TypeOK

Outdated(g, h) ==
    [handler[g] EXCEPT !.stale = handler[g].stale \cup Shares(handler[g], handler[h])]

LEMMA Moves ==
    ASSUME TypeOK, [Next]_vars, NEW g \in Handlers
    PROVE  \/ handler'[g] = handler[g]
           \/ ~Open(handler'[g])
           \/ Begin(g) \/ CheckLimits(g) \/ Judge(g)
           \/ \E h \in Handlers \ {g} :
                 Commit(h) /\ Open(handler[g]) /\ handler'[g] = Outdated(g, h)
<1>1. CASE UNCHANGED handler
  BY <1>1
<1>2. ASSUME NEW h \in Handlers, NEW k \in Keys, NEW b \in Bodies, Receive(h, k, b)
      PROVE  handler'[g] = handler[g] \/ ~Open(handler'[g])
  <2>1. PICK x : handler' = [handler EXCEPT ![h] = x] /\ ~Open(x)
    <3> DEFINE new == [pc |-> "new", key |-> k, body |-> b]
               accepted == [pc |-> "accepted", key |-> k, body |-> b]
    <3>1. ~Open(new) /\ ~Open(accepted)
      BY DEF Open
    <3>2. handler' = [handler EXCEPT ![h] = new] \/ handler' = [handler EXCEPT ![h] = accepted]
      BY <1>2 DEF Receive
    <3> HIDE DEF new, accepted
    <3>3. QED
      BY <3>1, <3>2
  <2>2. QED
    BY <2>1, OthersStay
<1>3. ASSUME NEW h \in Handlers, Claim(h) \/ FindReplay(h) \/ Store(h) \/ Drop(h)
      PROVE  handler'[g] = handler[g] \/ ~Open(handler'[g])
  <2>1. handler[h].pc \in {"new", "accepted"} =>
            \A pc \in {"accepted", "answering"} : ~Open([handler[h] EXCEPT !.pc = pc])
    <3>1. ASSUME handler[h].pc \in {"new", "accepted"}
          PROVE  handler[h] \in [pc : {"new", "accepted", "answering"}, key : Keys, body : Bodies]
      BY <3>1 DEF TypeOK, HandlerType, Idle
    <3>2. QED
      BY <3>1 DEF Open
  <2>2. ~Open(Idle)
    BY DEF Open, Idle
  <2>3. PICK x : handler' = [handler EXCEPT ![h] = x] /\ ~Open(x)
    <3>1. CASE Claim(h)
      <4>1. /\ handler[h].pc = "new"
            /\ handler' = [handler EXCEPT ![h] = [handler[h] EXCEPT !.pc = "accepted"]]
        BY <3>1 DEF Claim, TypeOK
      <4>2. QED
        BY <2>1, <4>1
    <3>2. CASE FindReplay(h)
      <4>1. /\ handler[h].pc = "accepted"
            /\ handler' = [handler EXCEPT ![h] = [handler[h] EXCEPT !.pc = "answering"]]
        BY <3>2 DEF FindReplay, TypeOK
      <4>2. QED
        BY <2>1, <4>1
    <3>3. CASE Store(h) \/ Drop(h)
      BY <2>2, <3>3 DEF Store, Drop
    <3>4. QED
      BY <1>3, <3>1, <3>2, <3>3
  <2>4. QED
    BY <2>3, OthersStay
<1>4. ASSUME NEW h \in Handlers, ReadTier(h)
      PROVE  handler'[g] = handler[g] \/ ~Open(handler'[g])
  <2> DEFINE x == [pc |-> "checked", key |-> handler[h].key, body |-> handler[h].body,
                   tier |-> tier[Body[handler[h].body].user]]
  <2>1. handler' = [handler EXCEPT ![h] = x] /\ ~Open(x)
    BY <1>4 DEF ReadTier, Open
  <2> HIDE DEF x
  <2>2. QED
    BY <2>1, OthersStay
<1>5. ASSUME NEW h \in Handlers, h # g, Begin(h) \/ CheckLimits(h) \/ Judge(h)
      PROVE  handler'[g] = handler[g]
  <2>1. PICK x : handler' = [handler EXCEPT ![h] = x]
    <3>1. CASE Begin(h)
      BY <3>1 DEF Begin
    <3>2. CASE CheckLimits(h)
      BY <3>2 DEF CheckLimits, TypeOK
    <3>3. CASE Judge(h)
      BY <3>3 DEF Judge
    <3>4. QED
      BY <1>5, <3>1, <3>2, <3>3
  <2>2. QED
    BY <1>5, <2>1, OthersStay
<1>6. ASSUME NEW h \in Handlers, Commit(h)
      PROVE  \/ handler'[g] = handler[g]
             \/ ~Open(handler'[g])
             \/ h # g /\ Open(handler[g]) /\ handler'[g] = Outdated(g, h)
  <2>1. CASE g = h
    <3>1. handler'[g] = [pc |-> "answering", key |-> handler[h].key, body |-> handler[h].body]
      BY <1>6, <2>1 DEF Commit
    <3>2. QED
      BY <3>1 DEF Open
  <2>2. CASE g # h /\ Open(handler[g])
    BY <1>6, <2>2 DEF Commit, Outdated
  <2>3. CASE g # h /\ ~Open(handler[g])
    BY <1>6, <2>3 DEF Commit
  <2>4. QED
    BY <2>1, <2>2, <2>3
<1>7. UNCHANGED vars => UNCHANGED handler
  BY DEF vars
<1>8. ASSUME NEW h \in Handlers, NEW k \in Keys, NEW b \in Bodies, Refuse(h, k, b)
      PROVE  UNCHANGED handler
  BY <1>8 DEF Refuse, vars
<1>9. ASSUME NEW k \in Keys, LaterAction(k)
      PROVE  UNCHANGED handler
  BY <1>9, LaterRow
<1>10. KycNext /\ UNCHANGED requestVars => UNCHANGED handler
  BY DEF requestVars
<1>11. QED
  BY <1>1, <1>2, <1>3, <1>4, <1>5, <1>6, <1>7, <1>8, <1>9, <1>10 DEF Next, LaterAction

\* So what it carries stays what it was.
LEMMA OutdatedFacts ==
    ASSUME TypeOK, NEW g \in Handlers, Open(handler[g]), NEW h
    PROVE  /\ Outdated(g, h).pc = handler[g].pc /\ Outdated(g, h).key = handler[g].key
           /\ Outdated(g, h).body = handler[g].body /\ Outdated(g, h).tier = handler[g].tier
           /\ Outdated(g, h).stale = handler[g].stale \cup Shares(handler[g], handler[h])
           /\ handler[g].pc = "vetted" => Outdated(g, h).held = handler[g].held
<1>1. CASE handler[g].pc \in {"open", "limited"}
  <2>1. handler[g] \in [pc : {"open", "limited"}, key : Keys, body : Bodies, tier : 0..3,
                        stale : SUBSET {"quote", "wallet"}]
    BY <1>1 DEF TypeOK, HandlerType, Idle
  <2>2. QED
    BY <1>1, <2>1 DEF Outdated
<1>2. CASE handler[g].pc = "vetted"
  <2>1. handler[g] \in [pc : {"vetted"}, key : Keys, body : Bodies, tier : 0..3,
                        stale : SUBSET {"quote", "wallet"}, held : BOOLEAN]
    BY <1>2 DEF TypeOK, HandlerType, Idle
  <2>2. QED
    BY <2>1 DEF Outdated
<1>3. QED
  BY <1>1, <1>2 DEF Open

LEMMA BeginFacts ==
    ASSUME TypeOK, NEW g \in Handlers, Begin(g)
    PROVE  /\ handler'[g].pc = "open" /\ handler'[g].body = handler[g].body
           /\ handler[g].body \in Bodies
           /\ LET b == handler[g].body
              IN  Body[b].kind = "transfer.initiate" => Terms[b].from = Terms[b].to
<1> DEFINE x == [pc |-> "open", key |-> handler[g].key, body |-> handler[g].body,
                 tier |-> handler[g].tier, stale |-> {}]
<1>1. handler' = [handler EXCEPT ![g] = x]
  BY DEF Begin
<1>2. x.pc = "open" /\ x.body = handler[g].body
  OBVIOUS
<1> HIDE DEF x
<1>3. handler'[g] = x
  BY <1>1, Zenon DEF TypeOK
<1>4. handler[g].body \in Bodies
  BY HandlerFacts DEF Begin
<1>5. LET b == handler[g].body
      IN  Body[b].kind = "transfer.initiate" => Terms[b].from = Terms[b].to
  BY DEF Begin
<1>6. QED
  BY <1>2, <1>3, <1>4, <1>5

LEMMA CheckLimitsFacts ==
    ASSUME TypeOK, NEW g \in Handlers, CheckLimits(g)
    PROVE  /\ handler[g].pc = "open" /\ handler'[g].pc = "limited"
           /\ handler'[g].body = handler[g].body /\ handler'[g].tier = handler[g].tier
           /\ handler'[g].stale = handler[g].stale
           /\ WithinLimits(handler[g].body, handler[g].tier)
           /\ UNCHANGED txn
<1> DEFINE x == [handler[g] EXCEPT !.pc = "limited"]
<1>1. handler[g].pc = "open" /\ handler' = [handler EXCEPT ![g] = x]
  BY DEF CheckLimits, TypeOK
<1>2. handler[g] \in [pc : {"open", "limited"}, key : Keys, body : Bodies, tier : 0..3,
                      stale : SUBSET {"quote", "wallet"}]
  BY <1>1 DEF TypeOK, HandlerType, Idle
<1>3. /\ x.pc = "limited" /\ x.body = handler[g].body /\ x.tier = handler[g].tier
      /\ x.stale = handler[g].stale
  BY <1>2
<1> HIDE DEF x
<1>4. handler'[g] = x
  BY <1>1, Zenon DEF TypeOK
<1>5. QED
  BY <1>1, <1>3, <1>4 DEF CheckLimits

LEMMA JudgeFacts ==
    ASSUME TypeOK, NEW g \in Handlers, Judge(g)
    PROVE  /\ handler[g].pc = "limited" /\ handler'[g].pc = "vetted"
           /\ handler'[g].key = handler[g].key
           /\ handler'[g].body = handler[g].body /\ handler'[g].tier = handler[g].tier
           /\ handler'[g].stale = handler[g].stale
           /\ ~handler'[g].held =>
                 "ALLOW" \in Verdicts[handler[g].body]
                                 [Cardinality(Completed(Body[handler[g].body].user))]
           /\ UNCHANGED txn
<1>1. PICK verdict \in Verdicts[handler[g].body]
                           [Cardinality(Completed(Body[handler[g].body].user))] :
          handler' = [handler EXCEPT ![g] =
              [pc |-> "vetted", key |-> handler[g].key, body |-> handler[g].body,
               tier |-> handler[g].tier, stale |-> handler[g].stale,
               held |-> ~ /\ verdict = "ALLOW"
                          /\ Body[handler[g].body].kind = "withdrawal.initiate" =>
                                UsdOf[handler[g].body] < AutoApprove]]
  BY DEF Judge
<1> DEFINE held == ~ /\ verdict = "ALLOW"
                     /\ Body[handler[g].body].kind = "withdrawal.initiate" =>
                           UsdOf[handler[g].body] < AutoApprove
           x == [pc |-> "vetted", key |-> handler[g].key, body |-> handler[g].body,
                 tier |-> handler[g].tier, stale |-> handler[g].stale, held |-> held]
<1>2. handler' = [handler EXCEPT ![g] = x]
  BY <1>1
<1>3. ~held => verdict = "ALLOW"
  OBVIOUS
<1> HIDE DEF held
<1>4. /\ x.pc = "vetted" /\ x.key = handler[g].key /\ x.body = handler[g].body
      /\ x.tier = handler[g].tier /\ x.stale = handler[g].stale /\ x.held = held
  OBVIOUS
<1> HIDE DEF x
<1>5. handler'[g] = x
  BY <1>2, Zenon DEF TypeOK
<1>6. QED
  BY <1>1, <1>3, <1>4, <1>5 DEF Judge

\* An open request asks for one currency, if it is for a transfer: its body
\* was seen to do so when the quote was consumed.
LEMMA CountedStep ==
    ASSUME TypeOK, CountedIsFair, [Next]_vars
    PROVE  CountedIsFair'
<1>1. ASSUME NEW g \in Handlers, handler'[g].pc = "open"
      PROVE  handler'[g].body \notin MisCounted
  <2>1. CASE handler'[g] = handler[g]
    BY <1>1, <2>1 DEF CountedIsFair
  <2>2. CASE Begin(g)
    BY <1>1, <2>2, BeginFacts, SameCurrencyIsFair
  <2>3. ASSUME NEW h \in Handlers, Open(handler[g]), handler'[g] = Outdated(g, h)
        PROVE  handler'[g].body \notin MisCounted
    BY <1>1, <2>3, OutdatedFacts DEF CountedIsFair
  <2>4. Open(handler'[g]) /\ ~CheckLimits(g) /\ ~Judge(g)
    BY <1>1, CheckLimitsFacts, JudgeFacts DEF Open
  <2>5. QED
    BY <2>1, <2>2, <2>3, <2>4, Moves
<1>2. MisCounted' = MisCounted
  BY DEF MisCounted, UsdAmount, Terms
<1>3. QED
  BY <1>1, <1>2 DEF CountedIsFair

\* What a request counts for against the limits is at least what arrives and
\* at most what is taken, for every rate table that agrees with a value of
\* each currency, in whichever direction its rows are.
THEOREM CountedFairly == Spec => []CountedIsFair
<1>1. Init => CountedIsFair
  BY DEF Init, CountedIsFair, Idle
<1>2. IInv /\ CountedIsFair /\ [Next]_vars => CountedIsFair'
  BY CountedStep DEF IInv
<1>3. QED
  BY <1>1, <1>2, Invariance, PTL DEF Spec

-----------------------------------------------------------------------------
(***************************************************************************)
(* The fraud engine: the score is the sum of what each rule gives.         *)
(***************************************************************************)
\* Finitely many reasons, each of one of these rules.
Named(R, names) ==
    IsFiniteSet(R) /\ \A r \in R : r.rule \in names /\ r.score \in Nat

LEMMA ScoreJoin ==
    ASSUME NEW R, NEW S, NEW M, NEW N, Named(R, M), Named(S, N), M \cap N = {}
    PROVE  Named(R \cup S, M \cup N) /\ Score(R \cup S) = Score(R) + Score(S)
<1> DEFINE f == [r \in R \cup S |-> r.score]
           g == [r \in R |-> r.score]
           h == [r \in S |-> r.score]
<1>1. /\ IsFiniteSet(R) /\ IsFiniteSet(S) /\ IsFiniteSet(R \cup S) /\ R \cap S = {}
      /\ \A r \in R \cup S : f[r] \in Int
      /\ \A r \in R : g[r] \in Int /\ g[r] = f[r]
      /\ \A r \in S : h[r] \in Int /\ h[r] = f[r]
  <2>1. IsFiniteSet(R) /\ IsFiniteSet(S)
    BY DEF Named
  <2>2. IsFiniteSet(R \cup S)
    BY <2>1, FS_Union
  <2>3. \A r \in R \cup S : f[r] = r.score /\ r.score \in Int
    BY DEF Named
  <2>4. /\ \A r \in R : g[r] = r.score
        /\ \A r \in S : h[r] = r.score
    OBVIOUS
  <2>5. R \cap S = {}
    BY DEF Named
  <2> HIDE DEF f, g, h
  <2>6. QED
    BY <2>1, <2>2, <2>3, <2>4, <2>5
<1>2. /\ Score(R \cup S) = SumFunctionOnSet(f, R \cup S)
      /\ Score(R) = SumFunctionOnSet(g, R) /\ Score(S) = SumFunctionOnSet(h, S)
  BY DEF Score
<1>3. Named(R \cup S, M \cup N)
  BY <1>1 DEF Named
<1> HIDE DEF f, g, h
<1>4. SumFunctionOnSet(g, R) = SumFunctionOnSet(f, R)
  BY <1>1, SumSame
<1>5. SumFunctionOnSet(h, S) = SumFunctionOnSet(f, S)
  BY <1>1, SumSame
<1>6. SumFunctionOnSet(f, R \cup S) = SumFunctionOnSet(f, R) + SumFunctionOnSet(f, S)
  BY <1>1, SumDisjoint
<1>7. QED
  BY <1>2, <1>3, <1>4, <1>5, <1>6

LEMMA ScoreReason ==
    ASSUME NEW cond, NEW rule, NEW severity, NEW n \in Nat
    PROVE  /\ Named(Reason(cond, rule, severity, n), {rule})
           /\ Score(Reason(cond, rule, severity, n)) = IF cond THEN n ELSE 0
<1> DEFINE r == [rule |-> rule, severity |-> severity, score |-> n]
           f == [x \in {r} |-> x.score]
<1>1. Score({}) = 0
  BY SumEmpty DEF Score
<1>2. Score({r}) = n
  <2>1. f[r] = n /\ r \in {r}
    OBVIOUS
  <2>2. Score({r}) = SumFunctionOnSet(f, {r})
    BY DEF Score
  <2> HIDE DEF f, r
  <2>3. IsFiniteSet({}) /\ r \notin {} /\ {} \cup {r} = {r} /\ \A y \in {} \cup {r} : f[y] \in Int
    BY <2>1, FS_EmptySet
  <2>4. SumFunctionOnSet(f, {} \cup {r}) = f[r] + SumFunctionOnSet(f, {})
    BY <2>3, SumAdd
  <2>5. SumFunctionOnSet(f, {r}) = n + 0
    BY <2>1, <2>3, <2>4, SumEmpty
  <2>6. QED
    BY <2>2, <2>5
<1>3. Reason(cond, rule, severity, n) = IF cond THEN {r} ELSE {}
  BY DEF Reason
<1>4. Named({}, {rule}) /\ Named({r}, {rule})
  <2>1. r.rule = rule /\ r.score \in Nat
    OBVIOUS
  <2> HIDE DEF r
  <2>2. IsFiniteSet({r}) /\ IsFiniteSet({})
    BY FS_EmptySet, FS_Singleton
  <2>3. QED
    BY <2>1, <2>2 DEF Named
<1>5. QED
  BY <1>1, <1>2, <1>3, <1>4

(***************************************************************************)
(* What each rule adds.                                                    *)
(***************************************************************************)
If(cond, n) == IF cond THEN n ELSE 0

Points(e, f) ==
    [otp        |-> If(e.kind = "auth.otp_attempt" /\ ~e.success /\ f.failedOtp >= 5, 40),
     login      |-> If(e.kind = "auth.login" /\ e.success /\ f.abroad, 20),
     noDevice   |-> If(MovesMoney(e) /\ e.usd >= 500 /\ ~f.fingerprint, 15),
     newDevice  |-> If(MovesMoney(e) /\ e.usd >= 500 /\ f.fingerprint /\ ~f.trusted, 35),
     withdrawals |-> If(e.kind = "withdrawal.initiate" /\ f.withdrawals >= 5, 30),
     transfers  |-> If(e.kind = "transfer.initiate" /\ f.transfers >= 10, 20),
     first      |-> If(MovesMoney(e) /\ e.usd >= 1000 /\ f.completed = 0, 35),
     shared     |-> If(/\ f.fingerprint
                       /\ MovesMoney(e) \/ e.kind = "auth.login"
                       /\ f.sharers >= 3, 30),
     blacklisted |-> If(e.kind = "withdrawal.initiate" /\ e.blacklisted, 100)]

Total(p) ==
    ((((((p.otp + p.login) + (p.noDevice + p.newDevice)) + p.withdrawals) + p.transfers)
        + p.first) + p.shared) + p.blacklisted

LEMMA PointsFacts ==
    ASSUME NEW e, NEW f
    PROVE  /\ \A i \in DOMAIN Points(e, f) : Points(e, f)[i] \in Nat
           /\ Total(Points(e, f)) \in Nat
<1>1. Points(e, f) \in [otp : Nat, login : Nat, noDevice : Nat, newDevice : Nat,
                        withdrawals : Nat, transfers : Nat, first : Nat, shared : Nat,
                        blacklisted : Nat]
  BY DEF Points, If
<1> DEFINE p == Points(e, f)
<1> HIDE DEF p
<1>2. p \in [otp : Nat, login : Nat, noDevice : Nat, newDevice : Nat,
             withdrawals : Nat, transfers : Nat, first : Nat, shared : Nat,
             blacklisted : Nat]
  BY <1>1 DEF p
<1>3. (\A i \in DOMAIN p : p[i] \in Nat) /\ Total(p) \in Nat
  BY <1>2 DEF Total
<1>4. QED
  BY <1>3 DEF p

LEMMA RulePoints ==
    ASSUME NEW e, NEW f, NEW p, p = Points(e, f)
    PROVE  /\ /\ Named(TooManyFailedOtp(e, f), {"too_many_failed_otp"})
              /\ Score(TooManyFailedOtp(e, f)) = p.otp
           /\ /\ Named(UnusualCountryLogin(e, f), {"unusual_country_login"})
              /\ Score(UnusualCountryLogin(e, f)) = p.login
           /\ /\ Named(HighVelocityWithdrawals(e, f), {"high_velocity_withdrawals"})
              /\ Score(HighVelocityWithdrawals(e, f)) = p.withdrawals
           /\ /\ Named(TooManyTransfers(e, f), {"too_many_transfers"})
              /\ Score(TooManyTransfers(e, f)) = p.transfers
           /\ /\ Named(LargeFirstTransaction(e, f), {"large_first_transaction"})
              /\ Score(LargeFirstTransaction(e, f)) = p.first
           /\ /\ Named(SharedDevice(e, f), {"many_accounts_same_device"})
              /\ Score(SharedDevice(e, f)) = p.shared
           /\ /\ Named(BlacklistedAddress(e, f), {"blacklisted_wallet_address"})
              /\ Score(BlacklistedAddress(e, f)) = p.blacklisted
<1>1. /\ Named(TooManyFailedOtp(e, f), {"too_many_failed_otp"})
      /\ Score(TooManyFailedOtp(e, f)) = p.otp
  <2> DEFINE cond == e.kind = "auth.otp_attempt" /\ ~e.success /\ f.failedOtp >= 5
  <2>1. TooManyFailedOtp(e, f) = Reason(cond, "too_many_failed_otp", "HIGH", 40)
    BY DEF TooManyFailedOtp, AtLeast
  <2>2. p.otp = IF cond THEN 40 ELSE 0
    BY DEF Points, If
  <2> HIDE DEF cond
  <2>3. QED
    BY <2>1, <2>2, ScoreReason
<1>2. /\ Named(UnusualCountryLogin(e, f), {"unusual_country_login"})
      /\ Score(UnusualCountryLogin(e, f)) = p.login
  <2> DEFINE cond == e.kind = "auth.login" /\ e.success /\ f.abroad
  <2>1. UnusualCountryLogin(e, f) = Reason(cond, "unusual_country_login", "MEDIUM", 20)
    BY DEF UnusualCountryLogin, AtLeast
  <2>2. p.login = IF cond THEN 20 ELSE 0
    BY DEF Points, If
  <2> HIDE DEF cond
  <2>3. QED
    BY <2>1, <2>2, ScoreReason
<1>3. /\ Named(HighVelocityWithdrawals(e, f), {"high_velocity_withdrawals"})
      /\ Score(HighVelocityWithdrawals(e, f)) = p.withdrawals
  <2> DEFINE cond == e.kind = "withdrawal.initiate" /\ f.withdrawals >= 5
  <2>1. HighVelocityWithdrawals(e, f) = Reason(cond, "high_velocity_withdrawals", "HIGH", 30)
    BY DEF HighVelocityWithdrawals, AtLeast
  <2>2. p.withdrawals = IF cond THEN 30 ELSE 0
    BY DEF Points, If
  <2> HIDE DEF cond
  <2>3. QED
    BY <2>1, <2>2, ScoreReason
<1>4. /\ Named(TooManyTransfers(e, f), {"too_many_transfers"})
      /\ Score(TooManyTransfers(e, f)) = p.transfers
  <2> DEFINE cond == e.kind = "transfer.initiate" /\ f.transfers >= 10
  <2>1. TooManyTransfers(e, f) = Reason(cond, "too_many_transfers", "MEDIUM", 20)
    BY DEF TooManyTransfers, AtLeast
  <2>2. p.transfers = IF cond THEN 20 ELSE 0
    BY DEF Points, If
  <2> HIDE DEF cond
  <2>3. QED
    BY <2>1, <2>2, ScoreReason
<1>5. /\ Named(LargeFirstTransaction(e, f), {"large_first_transaction"})
      /\ Score(LargeFirstTransaction(e, f)) = p.first
  <2> DEFINE cond == MovesMoney(e) /\ e.usd >= 1000 /\ f.completed = 0
  <2>1. LargeFirstTransaction(e, f) = Reason(cond, "large_first_transaction", "HIGH", 35)
    BY DEF LargeFirstTransaction, AtLeast
  <2>2. p.first = IF cond THEN 35 ELSE 0
    BY DEF Points, If
  <2> HIDE DEF cond
  <2>3. QED
    BY <2>1, <2>2, ScoreReason
<1>6. /\ Named(SharedDevice(e, f), {"many_accounts_same_device"})
      /\ Score(SharedDevice(e, f)) = p.shared
  <2> DEFINE cond == /\ f.fingerprint
                     /\ MovesMoney(e) \/ e.kind = "auth.login"
                     /\ f.sharers >= 3
  <2>1. SharedDevice(e, f) = Reason(cond, "many_accounts_same_device", "HIGH", 30)
    BY DEF SharedDevice, AtLeast
  <2>2. p.shared = IF cond THEN 30 ELSE 0
    BY DEF Points, If
  <2> HIDE DEF cond
  <2>3. QED
    BY <2>1, <2>2, ScoreReason
<1>7. /\ Named(BlacklistedAddress(e, f), {"blacklisted_wallet_address"})
      /\ Score(BlacklistedAddress(e, f)) = p.blacklisted
  <2> DEFINE cond == e.kind = "withdrawal.initiate" /\ e.blacklisted
  <2>1. BlacklistedAddress(e, f) = Reason(cond, "blacklisted_wallet_address", "CRITICAL", 100)
    BY DEF BlacklistedAddress, AtLeast
  <2>2. p.blacklisted = IF cond THEN 100 ELSE 0
    BY DEF Points, If
  <2> HIDE DEF cond
  <2>3. QED
    BY <2>1, <2>2, ScoreReason
<1>8. QED
  BY <1>1, <1>2, <1>3, <1>4, <1>5, <1>6, <1>7

\* Without a fingerprint the one score, with one the other, never both.
LEMMA DevicePoints ==
    ASSUME NEW e, NEW f, NEW p, p = Points(e, f)
    PROVE  /\ Named(NewDeviceHighValue(e, f), {"new_device_high_value_transfer"})
           /\ Score(NewDeviceHighValue(e, f)) = p.noDevice + p.newDevice
<1> DEFINE rule == "new_device_high_value_transfer"
           high == MovesMoney(e) /\ e.usd >= 500
           without == high /\ ~f.fingerprint
           with == high /\ f.fingerprint /\ ~f.trusted
           R == Reason(without, rule, "MEDIUM", 15)
           S == Reason(with, rule, "HIGH", 35)
<1>1. NewDeviceHighValue(e, f) = R \cup S
  BY DEF NewDeviceHighValue, AtLeast
<1>2. /\ Named(R, {rule}) /\ Score(R) = p.noDevice /\ p.noDevice \in Nat
      /\ Named(S, {rule}) /\ Score(S) = p.newDevice /\ p.newDevice \in Nat
  <2>1. /\ p.noDevice = IF without THEN 15 ELSE 0
        /\ p.newDevice = IF with THEN 35 ELSE 0
    BY DEF Points, If
  <2> HIDE DEF without, with
  <2>2. QED
    BY <2>1, ScoreReason
<1>3. \/ R = {} /\ p.noDevice = 0
      \/ S = {} /\ p.newDevice = 0
  BY DEF Reason, Points, If
<1> HIDE DEF rule, R, S
<1>4. CASE R = {} /\ p.noDevice = 0
  <2>1. R \cup S = S
    BY <1>4
  <2>2. QED
    BY <1>1, <1>2, <1>4, <2>1 DEF rule
<1>5. CASE S = {} /\ p.newDevice = 0
  <2>1. R \cup S = R
    BY <1>5
  <2>2. QED
    BY <1>1, <1>2, <1>5, <2>1 DEF rule
<1>6. QED
  BY <1>3, <1>4, <1>5

LEMMA MatchedScore ==
    ASSUME NEW e, NEW f
    PROVE  /\ Score(Matched(e, f)) = Total(Points(e, f))
           /\ \E names : Named(Matched(e, f), names)
<1> DEFINE p == Points(e, f)
           A == TooManyFailedOtp(e, f)
           B == UnusualCountryLogin(e, f)
           C == NewDeviceHighValue(e, f)
           D == HighVelocityWithdrawals(e, f)
           E == TooManyTransfers(e, f)
           F == LargeFirstTransaction(e, f)
           G == SharedDevice(e, f)
           H == BlacklistedAddress(e, f)
           na == {"too_many_failed_otp"}
           nb == {"unusual_country_login"}
           nc == {"new_device_high_value_transfer"}
           nd == {"high_velocity_withdrawals"}
           ne == {"too_many_transfers"}
           nf == {"large_first_transaction"}
           ng == {"many_accounts_same_device"}
           nh == {"blacklisted_wallet_address"}
           R1 == A
           R2 == R1 \cup B
           R3 == R2 \cup C
           R4 == R3 \cup D
           R5 == R4 \cup E
           R6 == R5 \cup F
           R7 == R6 \cup G
           R8 == R7 \cup H
           N1 == na
           N2 == N1 \cup nb
           N3 == N2 \cup nc
           N4 == N3 \cup nd
           N5 == N4 \cup ne
           N6 == N5 \cup nf
           N7 == N6 \cup ng
           N8 == N7 \cup nh
           s1 == p.otp
           s2 == s1 + p.login
           s3 == s2 + (p.noDevice + p.newDevice)
           s4 == s3 + p.withdrawals
           s5 == s4 + p.transfers
           s6 == s5 + p.first
           s7 == s6 + p.shared
           s8 == s7 + p.blacklisted
<1>1. Matched(e, f) = R8
  BY DEF Matched
<1>2. /\ Named(A, na) /\ Score(A) = p.otp
      /\ Named(B, nb) /\ Score(B) = p.login
      /\ Named(C, nc) /\ Score(C) = p.noDevice + p.newDevice
      /\ Named(D, nd) /\ Score(D) = p.withdrawals
      /\ Named(E, ne) /\ Score(E) = p.transfers
      /\ Named(F, nf) /\ Score(F) = p.first
      /\ Named(G, ng) /\ Score(G) = p.shared
      /\ Named(H, nh) /\ Score(H) = p.blacklisted
  BY RulePoints, DevicePoints
<1>3. /\ N1 \cap nb = {}
      /\ N2 \cap nc = {}
      /\ N3 \cap nd = {}
      /\ N4 \cap ne = {}
      /\ N5 \cap nf = {}
      /\ N6 \cap ng = {}
      /\ N7 \cap nh = {}
  OBVIOUS
<1>4. s8 = Total(p)
  BY DEF Total
<1> HIDE DEF p, A, B, C, D, E, F, G, H, na, nb, nc, nd, ne, nf, ng, nh
<1>5. Named(R1, N1) /\ Score(R1) = s1
  BY <1>2
<1> HIDE DEF R1, N1, s1, R2, N2, s2, R3, N3, s3, R4, N4, s4, R5, N5, s5, R6, N6, s6, R7, N7, s7, R8, N8, s8
<1>6. Named(R2, N2) /\ Score(R2) = s2
  <2>1. Named(R1, N1) /\ Named(B, nb) /\ N1 \cap nb = {}
    BY <1>2, <1>3, <1>5
  <2>2. Named(R2, N2) /\ Score(R2) = Score(R1) + Score(B)
    BY <2>1, ScoreJoin DEF R2, N2
  <2>3. QED
    BY <1>2, <1>5, <2>2 DEF s2
<1>7. Named(R3, N3) /\ Score(R3) = s3
  <2>1. Named(R2, N2) /\ Named(C, nc) /\ N2 \cap nc = {}
    BY <1>2, <1>3, <1>6
  <2>2. Named(R3, N3) /\ Score(R3) = Score(R2) + Score(C)
    BY <2>1, ScoreJoin DEF R3, N3
  <2>3. QED
    BY <1>2, <1>6, <2>2 DEF s3
<1>8. Named(R4, N4) /\ Score(R4) = s4
  <2>1. Named(R3, N3) /\ Named(D, nd) /\ N3 \cap nd = {}
    BY <1>2, <1>3, <1>7
  <2>2. Named(R4, N4) /\ Score(R4) = Score(R3) + Score(D)
    BY <2>1, ScoreJoin DEF R4, N4
  <2>3. QED
    BY <1>2, <1>7, <2>2 DEF s4
<1>9. Named(R5, N5) /\ Score(R5) = s5
  <2>1. Named(R4, N4) /\ Named(E, ne) /\ N4 \cap ne = {}
    BY <1>2, <1>3, <1>8
  <2>2. Named(R5, N5) /\ Score(R5) = Score(R4) + Score(E)
    BY <2>1, ScoreJoin DEF R5, N5
  <2>3. QED
    BY <1>2, <1>8, <2>2 DEF s5
<1>10. Named(R6, N6) /\ Score(R6) = s6
  <2>1. Named(R5, N5) /\ Named(F, nf) /\ N5 \cap nf = {}
    BY <1>2, <1>3, <1>9
  <2>2. Named(R6, N6) /\ Score(R6) = Score(R5) + Score(F)
    BY <2>1, ScoreJoin DEF R6, N6
  <2>3. QED
    BY <1>2, <1>9, <2>2 DEF s6
<1>11. Named(R7, N7) /\ Score(R7) = s7
  <2>1. Named(R6, N6) /\ Named(G, ng) /\ N6 \cap ng = {}
    BY <1>2, <1>3, <1>10
  <2>2. Named(R7, N7) /\ Score(R7) = Score(R6) + Score(G)
    BY <2>1, ScoreJoin DEF R7, N7
  <2>3. QED
    BY <1>2, <1>10, <2>2 DEF s7
<1>12. Named(R8, N8) /\ Score(R8) = s8
  <2>1. Named(R7, N7) /\ Named(H, nh) /\ N7 \cap nh = {}
    BY <1>2, <1>3, <1>11
  <2>2. Named(R8, N8) /\ Score(R8) = Score(R7) + Score(H)
    BY <2>1, ScoreJoin DEF R8, N8
  <2>3. QED
    BY <1>2, <1>11, <2>2 DEF s8
<1>13. QED
  BY <1>1, <1>4, <1>12 DEF p

\* One critical reason scores enough by itself, so the score decides.
LEMMA VerdictInTerms ==
    ASSUME NEW e, NEW f, NEW t, t = Total(Points(e, f))
    PROVE  Verdict(e, f) = IF t >= 80 THEN "BLOCK" ELSE IF t >= 40 THEN "REVIEW" ELSE "ALLOW"
<1>1. ASSUME NEW r \in Matched(e, f), r.severity = "CRITICAL"
      PROVE  t >= 80
  <2>1. r \in BlacklistedAddress(e, f)
    <3>1. \A cond, rule, severity, n :
             severity # "CRITICAL" => r \notin Reason(cond, rule, severity, n)
      BY <1>1 DEF Reason
    <3>2. /\ r \notin TooManyFailedOtp(e, f) /\ r \notin UnusualCountryLogin(e, f)
          /\ r \notin NewDeviceHighValue(e, f) /\ r \notin HighVelocityWithdrawals(e, f)
          /\ r \notin TooManyTransfers(e, f) /\ r \notin LargeFirstTransaction(e, f)
          /\ r \notin SharedDevice(e, f)
      BY <1>1 DEF TooManyFailedOtp, UnusualCountryLogin, NewDeviceHighValue, Reason,
         HighVelocityWithdrawals, TooManyTransfers, LargeFirstTransaction, SharedDevice
    <3>3. QED
      BY <1>1, <3>2 DEF Matched
  <2>2. e.kind = "withdrawal.initiate" /\ e.blacklisted
    BY <2>1 DEF BlacklistedAddress, Reason
  <2> DEFINE p == Points(e, f)
  <2>3. p.blacklisted = 100
    BY <2>2 DEF Points, If
  <2>4. \A i \in DOMAIN p : p[i] \in Nat
    BY PointsFacts
  <2>5. /\ p.otp \in Nat /\ p.login \in Nat /\ p.noDevice \in Nat /\ p.newDevice \in Nat
        /\ p.withdrawals \in Nat /\ p.transfers \in Nat /\ p.first \in Nat /\ p.shared \in Nat
    BY <2>4 DEF Points
  <2>6. t = Total(p)
    OBVIOUS
  <2> HIDE DEF p
  <2>7. QED
    BY <2>3, <2>5, <2>6 DEF Total
<1>2. Score(Matched(e, f)) = t
  BY MatchedScore
<1>3. (\E r \in Matched(e, f) : r.severity = "CRITICAL") \/ t >= 80 <=> t >= 80
  BY <1>1
<1>4. QED
  BY <1>2, <1>3 DEF Verdict, Decision, BlockAt, ReviewAt

LEMMA PointsAre ==
    ASSUME NEW e, NEW f, NEW p, p = Points(e, f)
    PROVE  /\ p.otp \in Nat /\ p.login \in Nat /\ p.noDevice \in Nat /\ p.newDevice \in Nat
           /\ p.withdrawals \in Nat /\ p.transfers \in Nat /\ p.first \in Nat
           /\ p.shared \in Nat /\ p.blacklisted \in Nat
<1>1. \A i \in DOMAIN p : p[i] \in Nat
  BY PointsFacts
<1>2. QED
  BY <1>1 DEF Points

LEMMA TotalKeepsOrder ==
    ASSUME NEW e, NEW f, NEW d, NEW g, NEW p, NEW q, p = Points(e, f), q = Points(d, g),
           /\ p.otp <= q.otp /\ p.login <= q.login
           /\ p.noDevice <= q.noDevice /\ p.newDevice <= q.newDevice
           /\ p.withdrawals <= q.withdrawals /\ p.transfers <= q.transfers
           /\ p.first <= q.first /\ p.shared <= q.shared /\ p.blacklisted <= q.blacklisted
    PROVE  Total(p) <= Total(q) /\ Total(p) \in Nat /\ Total(q) \in Nat
<1>1. /\ p.otp \in Nat /\ p.login \in Nat /\ p.noDevice \in Nat /\ p.newDevice \in Nat
      /\ p.withdrawals \in Nat /\ p.transfers \in Nat /\ p.first \in Nat
      /\ p.shared \in Nat /\ p.blacklisted \in Nat
  BY PointsAre
<1>2. /\ q.otp \in Nat /\ q.login \in Nat /\ q.noDevice \in Nat /\ q.newDevice \in Nat
      /\ q.withdrawals \in Nat /\ q.transfers \in Nat /\ q.first \in Nat
      /\ q.shared \in Nat /\ q.blacklisted \in Nat
  BY PointsAre
<1>3. QED
  BY <1>1, <1>2 DEF Total

\* Event d, with facts g, is no better than event e with facts f: the same
\* request, or one for more, and no less of anything against it.
NoBetter(e, f, d, g) ==
    /\ d.kind = e.kind /\ d.success = e.success /\ g.fingerprint = f.fingerprint
    /\ e.usd <= d.usd
    /\ e.blacklisted => d.blacklisted
    /\ f.abroad => g.abroad
    /\ g.trusted => f.trusted
    /\ f.failedOtp <= g.failedOtp /\ f.withdrawals <= g.withdrawals
    /\ f.transfers <= g.transfers /\ f.sharers <= g.sharers
    /\ g.completed <= f.completed

\* The rules add up, for every event and whatever the rules find: what is
\* worse in some respect and better in none never gets a milder verdict.
THEOREM RulesAddUp ==
    ASSUME NEW e \in EventType, NEW d \in EventType,
           NEW f \in FactsType, NEW g \in FactsType, NoBetter(e, f, d, g)
    PROVE  Rank(Verdict(e, f)) <= Rank(Verdict(d, g))
<1> DEFINE p == Points(e, f)
           q == Points(d, g)
<1>1. /\ e.usd \in Nat /\ d.usd \in Nat
      /\ f.failedOtp \in Nat /\ g.failedOtp \in Nat
      /\ f.withdrawals \in Nat /\ g.withdrawals \in Nat
      /\ f.transfers \in Nat /\ g.transfers \in Nat
      /\ f.sharers \in Nat /\ g.sharers \in Nat
      /\ f.completed \in Nat /\ g.completed \in Nat
  BY DEF EventType, FactsType
<1> USE <1>1 DEF NoBetter, Points, If, MovesMoney
<1>2. p.otp <= q.otp
  OBVIOUS
<1>3. p.login <= q.login
  OBVIOUS
<1>4. p.noDevice <= q.noDevice
  OBVIOUS
<1>5. p.newDevice <= q.newDevice
  OBVIOUS
<1>6. p.withdrawals <= q.withdrawals
  OBVIOUS
<1>7. p.transfers <= q.transfers
  OBVIOUS
<1>8. p.first <= q.first
  OBVIOUS
<1>9. p.shared <= q.shared
  OBVIOUS
<1>10. p.blacklisted <= q.blacklisted
  OBVIOUS
<1> HIDE DEF p, q, NoBetter, Points, If, MovesMoney
<1>11. Total(p) <= Total(q) /\ Total(p) \in Nat /\ Total(q) \in Nat
  BY <1>2, <1>3, <1>4, <1>5, <1>6, <1>7, <1>8, <1>9, <1>10, TotalKeepsOrder DEF p, q
<1> DEFINE s == Total(p)
           t == Total(q)
<1>12. /\ Verdict(e, f) = IF s >= 80 THEN "BLOCK" ELSE IF s >= 40 THEN "REVIEW" ELSE "ALLOW"
       /\ Verdict(d, g) = IF t >= 80 THEN "BLOCK" ELSE IF t >= 40 THEN "REVIEW" ELSE "ALLOW"
  BY VerdictInTerms DEF p, q
<1> HIDE DEF s, t
<1>13. s <= t /\ s \in Nat /\ t \in Nat
  BY <1>11 DEF s, t
<1>14. Rank("ALLOW") = 0 /\ Rank("REVIEW") = 1 /\ Rank("BLOCK") = 2
  BY DEF Rank
<1>15. QED
  BY <1>12, <1>13, <1>14

LEMMA EventFacts ==
    ASSUME NEW b \in Bodies, NEW blacklisted \in BOOLEAN, NEW u \in Nat
    PROVE  /\ Event(b, blacklisted) \in EventType
           /\ [Event(b, blacklisted) EXCEPT !.usd = u] \in EventType
           /\ [Event(b, blacklisted) EXCEPT !.usd = u].usd = u
           /\ MovesMoney(Event(b, blacklisted))
<1>1. UsdOf[b] \in Nat /\ Body[b].kind \in {"transfer.initiate", "withdrawal.initiate"}
  BY UsdFacts, BodiesAssumption
<1>2. QED
  BY <1>1 DEF Event, EventType, MovesMoney

LEMMA NearIsFacts ==
    ASSUME NEW f \in NearThresholds
    PROVE  f \in FactsType
<1>1. NearThresholds \subseteq
          [fingerprint : BOOLEAN, abroad : BOOLEAN, trusted : BOOLEAN, failedOtp : 0..10,
           withdrawals : 0..10, transfers : 0..10, completed : 0..10, sharers : 0..10]
  <2>1. /\ {FALSE} \subseteq BOOLEAN /\ {0} \subseteq 0..10 /\ {4, 5} \subseteq 0..10
        /\ {9, 10} \subseteq 0..10 /\ {0, 1} \subseteq 0..10 /\ {2, 3} \subseteq 0..10
    OBVIOUS
  <2>2. QED
    BY <2>1, Zenon DEF NearThresholds
<1>2. 0..10 \subseteq Nat
  OBVIOUS
<1>3. f \in [fingerprint : BOOLEAN, abroad : BOOLEAN, trusted : BOOLEAN, failedOtp : 0..10,
             withdrawals : 0..10, transfers : 0..10, completed : 0..10, sharers : 0..10]
  BY <1>1
<1>4. QED
  BY <1>2, <1>3 DEF FactsType

LEMMA NearFacts ==
    ASSUME NEW f \in NearThresholds, NEW g \in Raised(f), NEW e \in EventType
    PROVE  f \in FactsType /\ g \in FactsType /\ NoBetter(e, f, e, g)
<1>1. /\ f \in FactsType
      /\ f.withdrawals \in Nat /\ f.transfers \in Nat /\ f.sharers \in Nat
      /\ f.completed \in Nat /\ f.failedOtp \in Nat /\ e.usd \in Nat
  <2>1. f \in FactsType
    BY NearIsFacts
  <2>2. QED
    BY <2>1 DEF FactsType, EventType
<1>2. CASE g = [f EXCEPT !.withdrawals = f.withdrawals + 1]
  BY <1>1, <1>2 DEF FactsType, NoBetter
<1>3. CASE g = [f EXCEPT !.transfers = f.transfers + 1]
  BY <1>1, <1>3 DEF FactsType, NoBetter
<1>4. CASE g = [f EXCEPT !.sharers = f.sharers + 1]
  BY <1>1, <1>4 DEF FactsType, NoBetter
<1>5. CASE g = [f EXCEPT !.completed = 0]
  BY <1>1, <1>5 DEF FactsType, NoBetter
<1>6. CASE g = [f EXCEPT !.trusted = FALSE]
  <2>1. g \in FactsType
    BY <1>1, <1>6 DEF FactsType
  <2>2. /\ g.trusted = FALSE /\ g.fingerprint = f.fingerprint /\ g.abroad = f.abroad
        /\ g.failedOtp = f.failedOtp /\ g.withdrawals = f.withdrawals
        /\ g.transfers = f.transfers /\ g.sharers = f.sharers /\ g.completed = f.completed
    BY <1>1, <1>6 DEF FactsType
  <2>3. QED
    BY <1>1, <2>1, <2>2 DEF NoBetter
<1>7. QED
  BY <1>1, <1>2, <1>3, <1>4, <1>5, <1>6 DEF Raised

LEMMA NoneErratic == Erratic = {}
<1> SUFFICES ASSUME NEW b \in Bodies, NEW blacklisted \in BOOLEAN, NEW f \in NearThresholds
             PROVE  IsMonotoneAt(Event(b, blacklisted), f)
  BY DEF Erratic
<1> DEFINE e == Event(b, blacklisted)
           at(u) == [e EXCEPT !.usd = u]
<1>1. e \in EventType /\ e.usd \in Nat
  BY EventFacts, 0 \in Nat DEF EventType
<1>2. \A u \in Nat : at(u) \in EventType /\ at(u).usd = u
  BY EventFacts
<1>3. \A u : at(u).kind = e.kind /\ at(u).success = e.success
             /\ at(u).blacklisted = e.blacklisted
  BY DEF Event
<1>4. ASSUME NEW u \in Nat, NEW g \in Raised(f)
      PROVE  Rank(Verdict(at(u), f)) <= Rank(Verdict(at(u), g))
  <2> HIDE DEF at
  <2>1. at(u) \in EventType
    BY <1>2
  <2>2. f \in FactsType /\ g \in FactsType /\ NoBetter(at(u), f, at(u), g)
    BY <2>1, NearFacts
  <2>3. QED
    BY <2>1, <2>2, RulesAddUp
<1>5. ASSUME NEW u \in Nat, NEW v \in Nat, u <= v
      PROVE  Rank(Verdict(at(u), f)) <= Rank(Verdict(at(v), f))
  <2> HIDE DEF e, at
  <2>1. at(u) \in EventType /\ at(v) \in EventType
    BY <1>2
  <2>2. f \in FactsType
    BY NearIsFacts
  <2>3. NoBetter(at(u), f, at(v), f)
    BY <1>2, <1>3, <1>5, <2>2 DEF NoBetter, FactsType
  <2>4. QED
    BY <2>1, <2>2, <2>3, RulesAddUp
<1>6. ASSUME e.blacklisted, e.kind = "withdrawal.initiate"
      PROVE  Rank(Verdict(at(e.usd), f)) = 2
  <2> DEFINE d == at(e.usd)
             p == Points(d, f)
  <2>1. p.blacklisted = 100
    <3>1. d.kind = "withdrawal.initiate" /\ d.blacklisted
      BY <1>3, <1>6
    <3> HIDE DEF d
    <3>2. QED
      BY <3>1 DEF Points, If
  <2> HIDE DEF d
  <2>2. /\ p.otp \in Nat /\ p.login \in Nat /\ p.noDevice \in Nat /\ p.newDevice \in Nat
        /\ p.withdrawals \in Nat /\ p.transfers \in Nat /\ p.first \in Nat
        /\ p.shared \in Nat
    BY PointsAre
  <2> HIDE DEF p
  <2>3. Total(p) >= 80
    BY <2>1, <2>2 DEF Total
  <2>4. Verdict(d, f) = "BLOCK"
    BY <2>3, VerdictInTerms DEF p
  <2>5. QED
    BY <2>4 DEF Rank, d
<1> HIDE DEF at, e
<1>7. {499, 500, 999, 1000} \subseteq Nat /\ {499, 500, 999, 1000, e.usd} \subseteq Nat
  BY <1>1
<1>8. IsMonotoneAt(e, f)
  BY <1>4, <1>5, <1>6, <1>7 DEF IsMonotoneAt, at
<1>9. QED
  BY <1>8 DEF e

\* Nothing more of what a rule looks for makes the verdict on a request that
\* is about to be judged milder, and a blacklisted address blocks it.
THEOREM VerdictsAreMonotone == Spec => []VerdictIsMonotone
<1>1. ASSUME IInv
      PROVE  VerdictIsMonotone
  BY NoneErratic DEF VerdictIsMonotone
<1>2. QED
  BY <1>1, Invariance, PTL

-----------------------------------------------------------------------------
(***************************************************************************)
(* How a transaction moves, whichever step is taken.  What the history of  *)
(* a row says of its status: one that has counted all along has never      *)
(* failed, nor waited for an officer, so no admin has its item open, and   *)
(* one that is COMPLETED is known to have been.                            *)
(***************************************************************************)
HistoryHolds ==
    \A k \in Made :
        /\ txn[k].direct => /\ txn[k].status \in {"PROCESSING", "COMPLETED"}
                           /\ txn[k].readers = 0
        /\ txn[k].status = "COMPLETED" => txn[k].completed

NewTxn(x) == [status |-> CommittedStatus(x), body |-> x.body, tier |-> x.tier,
              window |-> "day", direct |-> ~x.held,
              completed |-> CommittedStatus(x) = "COMPLETED",
              enqueued |-> CommittedStatus(x) = "PROCESSING", readers |-> 0]

Later(k) ==
    /\ k \in Made /\ txn'[k].status # "NONE"
    /\ txn'[k].body = txn[k].body /\ txn'[k].tier = txn[k].tier
    /\ txn[k].completed => txn'[k].completed
    /\ txn'[k].status = "COMPLETED" => txn'[k].completed
    /\ txn'[k].direct => /\ txn[k].direct /\ txn'[k].readers = 0
                        /\ txn'[k].status \in {"PROCESSING", "COMPLETED"}
    /\ txn'[k].window = "day" => txn[k].window = "day"
    /\ txn'[k].window = "month" => txn[k].window \in {"day", "month"}

LEMMA LaterMoves ==
    ASSUME TypeOK, HistoryHolds, NEW k \in Keys, LaterAction(k)
    PROVE  Later(k) /\ \A j \in Keys \ {k} : txn'[j] = txn[j]
<1> DEFINE old == txn[k]
           new == txn'[k]
<1>1. k \in Made /\ Follows(old, new) /\ txn' = [txn EXCEPT ![k] = new]
  BY LaterRow
<1>2. /\ old.direct => /\ old.status \in {"PROCESSING", "COMPLETED"}
                       /\ old.readers = 0
      /\ old.status = "COMPLETED" => old.completed
  BY <1>1 DEF HistoryHolds
<1>3. \A j \in Keys \ {k} : txn'[j] = txn[j]
  BY <1>1 DEF TypeOK
<1>4. Later(k)
  <2>1. Later(k) <=> /\ k \in Made /\ new.status # "NONE"
                     /\ new.body = old.body /\ new.tier = old.tier
                     /\ old.completed => new.completed
                     /\ new.status = "COMPLETED" => new.completed
                     /\ new.direct => /\ old.direct /\ new.readers = 0
                                      /\ new.status \in {"PROCESSING", "COMPLETED"}
                     /\ new.window = "day" => old.window = "day"
                     /\ new.window = "month" => old.window \in {"day", "month"}
    BY DEF Later
  <2> HIDE DEF old, new
  <2>2. QED
    BY <1>1, <1>2, <2>1 DEF Follows, RowType
<1>5. QED
  BY <1>3, <1>4

LEMMA CommitMoves ==
    ASSUME TypeOK, NEW h \in Handlers, Commit(h)
    PROVE  /\ handler[h].pc = "vetted" /\ handler[h].key \in Keys
           /\ txn[handler[h].key].status = "NONE"
           /\ txn'[handler[h].key] = NewTxn(handler[h])
           /\ \A j \in Keys \ {handler[h].key} : txn'[j] = txn[j]
<1> DEFINE x == handler[h]
           new == NewTxn(x)
<1>1. /\ x.pc = "vetted" /\ x.key \in Keys /\ txn[x.key].status = "NONE"
      /\ txn' = [txn EXCEPT ![x.key] = new]
  BY HandlerFacts DEF Commit, MayCommit, NewTxn
<1> HIDE DEF x, new
<1>2. txn'[x.key] = new /\ \A j \in Keys \ {x.key} : txn'[j] = txn[j]
  BY <1>1 DEF TypeOK
<1>3. QED
  BY <1>1, <1>2 DEF x, new

Committed(h, k) ==
    /\ handler[h].pc = "vetted" /\ handler[h].key = k
    /\ txn[k].status = "NONE" /\ txn'[k] = NewTxn(handler[h])

LEMMA TxnMoves ==
    ASSUME TypeOK, HistoryHolds, [Next]_vars, NEW k \in Keys
    PROVE  \/ txn'[k] = txn[k]
           \/ Later(k)
           \/ \E h \in Handlers : Commit(h) /\ Committed(h, k)
<1>1. ASSUME NEW h \in Handlers, Commit(h)
      PROVE  txn'[k] = txn[k] \/ Committed(h, k)
  BY <1>1, CommitMoves DEF Committed
<1>2. ASSUME NEW j \in Keys, LaterAction(j)
      PROVE  txn'[k] = txn[k] \/ Later(k)
  BY <1>2, LaterMoves
<1>3. ASSUME NEW h \in Handlers,
             \/ \E j \in Keys, b \in Bodies : Receive(h, j, b) \/ Refuse(h, j, b)
             \/ Claim(h) \/ FindReplay(h) \/ ReadTier(h) \/ Begin(h)
             \/ CheckLimits(h) \/ Judge(h) \/ Store(h) \/ Drop(h)
      PROVE  txn' = txn
  BY <1>3 DEF Receive, Refuse, Claim, FindReplay, ReadTier, Begin, CheckLimits, Judge,
     Store, Drop, vars
<1>4. UNCHANGED vars \/ (KycNext /\ UNCHANGED requestVars) => txn' = txn
  BY DEF vars, requestVars
<1>5. QED
  <2>1. txn' = txn => txn'[k] = txn[k]
    OBVIOUS
  <2>2. QED
    BY <1>1, <1>2, <1>3, <1>4, <2>1, Zenon DEF Next, LaterAction

LEMMA HistoryStep ==
    ASSUME TypeOK, HistoryHolds, [Next]_vars
    PROVE  HistoryHolds'
<1>1. ASSUME NEW k \in Made'
      PROVE  /\ txn'[k].direct => /\ txn'[k].status \in {"PROCESSING", "COMPLETED"}
                                 /\ txn'[k].readers = 0
             /\ txn'[k].status = "COMPLETED" => txn'[k].completed
  <2>1. k \in Keys /\ txn'[k].status # "NONE"
    BY DEF Made
  <2>2. CASE txn'[k] = txn[k]
    BY <2>1, <2>2 DEF HistoryHolds, Made
  <2>3. CASE Later(k)
    BY <2>3 DEF Later
  <2>4. ASSUME NEW h \in Handlers, Committed(h, k)
        PROVE  /\ txn'[k].direct => /\ txn'[k].status \in {"PROCESSING", "COMPLETED"}
                                   /\ txn'[k].readers = 0
               /\ txn'[k].status = "COMPLETED" => txn'[k].completed
    <3> DEFINE x == handler[h]
               new == NewTxn(x)
    <3>1. txn'[k] = new /\ x.held \in BOOLEAN
      BY <2>4, HandlerFacts DEF Committed
    <3>2. /\ new.status = CommittedStatus(x) /\ new.direct = ~x.held
          /\ new.completed = (CommittedStatus(x) = "COMPLETED") /\ new.readers = 0
      BY DEF NewTxn
    <3>3. ~x.held => CommittedStatus(x) \in {"PROCESSING", "COMPLETED"}
      BY DEF CommittedStatus
    <3> HIDE DEF x, new
    <3>4. QED
      BY <3>1, <3>2, <3>3
  <2>5. QED
    BY <2>1, <2>2, <2>3, <2>4, TxnMoves
<1>2. QED
  BY <1>1 DEF HistoryHolds

\* Later facts about a transaction that was made.
LEMMA MadeStays ==
    ASSUME TypeOK, HistoryHolds, [Next]_vars, NEW j \in Made
    PROVE  /\ j \in Made' /\ txn'[j].body = txn[j].body /\ txn'[j].tier = txn[j].tier
           /\ UserOf(j)' = UserOf(j)
           /\ txn[j].completed => txn'[j].completed
<1>1. j \in Keys /\ txn[j].status # "NONE"
  BY DEF Made
<1>2. txn'[j] = txn[j] \/ Later(j)
  BY <1>1, TxnMoves DEF Committed
<1>3. /\ txn'[j].status # "NONE" /\ txn'[j].body = txn[j].body /\ txn'[j].tier = txn[j].tier
      /\ txn[j].completed => txn'[j].completed
  BY <1>1, <1>2 DEF Later
<1>4. QED
  BY <1>1, <1>3 DEF Made, UserOf

-----------------------------------------------------------------------------
(***************************************************************************)
(* A large first transaction.  Two rules hold it, whichever way the device *)
(* counts; so a large request that was let through has seen a completed    *)
(* transaction, and that one was COMPLETED, whatever its status becomes.    *)
(***************************************************************************)
HasCompleted(u) == \E j \in Made : UserOf(j) = u /\ txn[j].completed

LargeHaveSeenOne ==
    \A h \in Handlers :
        handler[h].pc = "vetted" /\ ~handler[h].held /\ UsdOf[handler[h].body] >= 1000 =>
            HasCompleted(Body[handler[h].body].user)

LEMMA LargeFirstScores ==
    ASSUME NEW b \in Bodies, UsdOf[b] >= 1000, NEW blacklisted \in BOOLEAN, NEW f \in Facts(0)
    PROVE  Verdict(Event(b, blacklisted), f) # "ALLOW"
<1> DEFINE e == Event(b, blacklisted)
           p == Points(e, f)
<1>1. f.completed = 0 /\ f.trusted = FALSE /\ f.fingerprint \in BOOLEAN
  BY DEF Facts
<1>2. MovesMoney(e) /\ e.usd = UsdOf[b]
  BY EventFacts, UsdFacts DEF Event
<1>3. UsdOf[b] \in Nat
  BY UsdFacts
<1> HIDE DEF e
<1>4. p.first = 35 /\ (p.noDevice = 15 \/ p.newDevice = 35)
  BY <1>1, <1>2, <1>3 DEF Points, If
<1>5. /\ p.otp \in Nat /\ p.login \in Nat /\ p.noDevice \in Nat /\ p.newDevice \in Nat
      /\ p.withdrawals \in Nat /\ p.transfers \in Nat /\ p.shared \in Nat
      /\ p.blacklisted \in Nat
  BY PointsAre
<1> HIDE DEF p
<1>6. Total(p) >= 40
  BY <1>4, <1>5 DEF Total
<1>7. Verdict(e, f) \in {"BLOCK", "REVIEW"}
  BY <1>6, VerdictInTerms DEF p
<1>8. QED
  BY <1>7 DEF e

LEMMA CompletedFacts ==
    ASSUME TypeOK, NEW u
    PROVE  /\ Cardinality(Completed(u)) \in 0..Cardinality(Keys)
           /\ Cardinality(Completed(u)) = 0 <=> Completed(u) = {}
<1>1. Completed(u) \subseteq Keys
  BY DEF Completed, Made
<1>2. IsFiniteSet(Completed(u)) /\ Cardinality(Completed(u)) <= Cardinality(Keys)
  BY <1>1, FinitelyManyKeys, FS_Subset
<1>3. Cardinality(Completed(u)) \in Nat /\ Cardinality(Keys) \in Nat
  BY <1>2, FinitelyManyKeys, FS_CardinalityType
<1>4. QED
  BY <1>2, <1>3, FS_EmptySet

LEMMA LargeSeesOne ==
    ASSUME TypeOK, HistoryHolds, NEW b \in Bodies, UsdOf[b] >= 1000,
           "ALLOW" \in Verdicts[b][Cardinality(Completed(Body[b].user))]
    PROVE  HasCompleted(Body[b].user)
<1> DEFINE n == Cardinality(Completed(Body[b].user))
<1>1. n \in 0..Cardinality(Keys) /\ (n = 0 <=> Completed(Body[b].user) = {})
  BY CompletedFacts
<1> HIDE DEF n
<1>2. \E blacklisted \in BOOLEAN, f \in Facts(n) :
         Verdict(Event(b, blacklisted), f) = "ALLOW"
  <2>1. "ALLOW" \in Verdicts[b][n]
    BY DEF n
  <2>2. Verdicts[b][n] = {Verdict(Event(b, blacklisted), f) :
                              blacklisted \in BOOLEAN, f \in Facts(n)}
    BY <1>1 DEF Verdicts
  <2>3. QED
    BY <2>1, <2>2
<1>3. n # 0
  BY <1>2, LargeFirstScores
<1>4. QED
  BY <1>1, <1>3 DEF HasCompleted, Completed, HistoryHolds

LEMMA HasCompletedStays ==
    ASSUME TypeOK, HistoryHolds, [Next]_vars, NEW u, HasCompleted(u)
    PROVE  HasCompleted(u)'
BY MadeStays DEF HasCompleted

LEMMA LargeHaveSeenOneStep ==
    ASSUME TypeOK, HistoryHolds, LargeHaveSeenOne, [Next]_vars
    PROVE  LargeHaveSeenOne'
<1>1. ASSUME NEW g \in Handlers, handler'[g].pc = "vetted", ~handler'[g].held,
             UsdOf[handler'[g].body] >= 1000, NEW u, u = Body[handler'[g].body].user
      PROVE  HasCompleted(u)'
  <2>1. CASE handler'[g] = handler[g]
    <3>1. HasCompleted(u)
      BY <1>1, <2>1 DEF LargeHaveSeenOne
    <3>2. QED
      BY <3>1, HasCompletedStays
  <2>2. CASE Judge(g)
    <3>1. /\ handler'[g].body = handler[g].body /\ handler[g].body \in Bodies
          /\ "ALLOW" \in Verdicts[handler[g].body]
                                   [Cardinality(Completed(Body[handler[g].body].user))]
      BY <1>1, <2>2, JudgeFacts, HandlerFacts
    <3>2. HasCompleted(Body[handler[g].body].user)
      BY <1>1, <3>1, LargeSeesOne
    <3>3. HasCompleted(u)
      BY <1>1, <3>1, <3>2
    <3>4. QED
      BY <3>3, HasCompletedStays
  <2>3. ASSUME NEW h \in Handlers, Open(handler[g]), handler'[g] = Outdated(g, h)
        PROVE  HasCompleted(u)'
    <3>1. /\ handler[g].pc = "vetted" /\ ~handler[g].held
          /\ handler'[g].body = handler[g].body
      BY <1>1, <2>3, OutdatedFacts
    <3>2. HasCompleted(u)
      BY <1>1, <3>1 DEF LargeHaveSeenOne
    <3>3. QED
      BY <3>2, HasCompletedStays
  <2>4. Open(handler'[g]) /\ ~Begin(g) /\ ~CheckLimits(g)
    BY <1>1, CheckLimitsFacts, BeginFacts DEF Open
  <2>5. QED
    BY <2>1, <2>2, <2>3, <2>4, Moves
<1>2. UsdOf' = UsdOf
  BY DEF UsdOf, UsdAmount, Terms
<1>3. QED
  BY <1>1, <1>2 DEF LargeHaveSeenOne, HasCompleted

LEMMA LargeFirstStep ==
    ASSUME TypeOK, HistoryHolds, LargeHaveSeenOne, LargeFirstIsHeld, [Next]_vars
    PROVE  LargeFirstIsHeld'
<1>1. ASSUME NEW k \in Made', txn'[k].direct, UsdOf[txn'[k].body] >= 1000
      PROVE  \E j \in Made' \ {k} : /\ UserOf(j)' = UserOf(k)'
                                    /\ txn'[j].completed
  <2>1. k \in Keys /\ txn'[k].status # "NONE"
    BY DEF Made
  <2>2. CASE txn'[k] = txn[k] \/ Later(k)
    <3>1. k \in Made /\ txn[k].direct /\ txn'[k].body = txn[k].body
      BY <1>1, <2>1, <2>2 DEF Later, Made
    <3>2. PICK j \in Made \ {k} : UserOf(j) = UserOf(k) /\ txn[j].completed
      BY <1>1, <3>1 DEF LargeFirstIsHeld
    <3>3. QED
      BY <3>1, <3>2, MadeStays
  <2>3. ASSUME NEW h \in Handlers, Committed(h, k)
        PROVE  \E j \in Made' \ {k} : /\ UserOf(j)' = UserOf(k)'
                                      /\ txn'[j].completed
    <3>1. /\ handler[h].pc = "vetted" /\ txn[k].status = "NONE"
          /\ handler[h].held \in BOOLEAN /\ txn'[k] = NewTxn(handler[h])
      BY <2>3, HandlerFacts DEF Committed
    <3>2. txn'[k].body = handler[h].body /\ txn'[k].direct = ~handler[h].held
      BY <3>1 DEF NewTxn
    <3>3. HasCompleted(Body[handler[h].body].user)
      BY <1>1, <3>1, <3>2 DEF LargeHaveSeenOne
    <3>4. PICK j \in Made : UserOf(j) = Body[handler[h].body].user /\ txn[j].completed
      BY <3>3 DEF HasCompleted
    <3>5. j # k
      BY <3>1 DEF Made
    <3>6. UserOf(k)' = Body[handler[h].body].user
      BY <3>2 DEF UserOf
    <3>7. QED
      BY <3>4, <3>5, <3>6, MadeStays
  <2>4. QED
    BY <2>1, <2>2, <2>3, TxnMoves
<1>2. UsdOf' = UsdOf
  BY DEF UsdOf, UsdAmount, Terms
<1>3. QED
  BY <1>1, <1>2 DEF LargeFirstIsHeld

\* A transaction of 1000 USD or more that was not held for an officer is not
\* the first of its user to be completed, though the earlier ones are counted
\* outside of the database transaction, by requests that overlap, and dispatch
\* or a second decision may take a COMPLETED status back.
THEOREM LargeFirstHeld == Spec => []LargeFirstIsHeld
<1> DEFINE Inv == TypeOK /\ HistoryHolds /\ LargeHaveSeenOne /\ LargeFirstIsHeld
<1>1. ASSUME Init
      PROVE  HistoryHolds /\ LargeHaveSeenOne /\ LargeFirstIsHeld
  <2>1. Made = {}
    BY <1>1 DEF Init, Made, NoTxn
  <2>2. LargeHaveSeenOne
    BY <1>1 DEF Init, LargeHaveSeenOne, Idle
  <2>3. QED
    BY <2>1, <2>2 DEF HistoryHolds, LargeFirstIsHeld
<1>2. Init => Inv
  BY <1>1, InitIInv DEF IInv
<1>3. Inv /\ TypeOK' /\ [Next]_vars => Inv'
  BY HistoryStep, LargeHaveSeenOneStep, LargeFirstStep
<1>4. QED
  BY <1>2, <1>3, TypeCorrect, PTL DEF Spec

-----------------------------------------------------------------------------
(***************************************************************************)
(* The limits.  That the whole of what a wallet has spent fits a tier is   *)
(* not inductive: what made it fit, the last one of the highest tier, may  *)
(* age out of the window or fail before the others do.  What is inductive  *)
(* is that every part of it fits the tier of one of its members, namely of *)
(* the last to be committed: it was checked against all the others.  The   *)
(* check still stands at the commit, because whatever the wallet has spent *)
(* since then has made the wallet row stale.                               *)
(***************************************************************************)
Windows == {{"day"}, {"day", "month"}}
LimitOf(W) == IF W = {"day"} THEN DailyUsd ELSE MonthlyUsd

SameWallet(b, c) == Body[b].user = Body[c].user /\ Terms[b].from = Terms[c].from

Spent(b, W) == {k \in Counted(W) : txn[k].direct /\ SameWallet(txn[k].body, b)}

EveryPartFits ==
    \A b \in Bodies, W \in Windows : \A S \in SUBSET Spent(b, W) :
        S # {} => \E k \in S : Usd(S) <= LimitOf(W)[txn[k].tier + 1]

HasRoom(b, t, W) == Usd(Spent(b, W)) + UsdOf[b] <= LimitOf(W)[t + 1]

RoomLeft ==
    \A h \in Handlers :
        handler[h].pc \in {"limited", "vetted"} /\ "wallet" \notin handler[h].stale =>
            \A W \in Windows : HasRoom(handler[h].body, handler[h].tier, W)

LEMMA LimitFacts ==
    ASSUME NEW W \in Windows, NEW t \in 0..3
    PROVE  LimitOf(W)[t + 1] \in Nat
<1>1. t + 1 \in 1..4
  OBVIOUS
<1>2. \A i \in 1..4 : DailyUsd[i] \in Nat /\ MonthlyUsd[i] \in Nat
  BY DEF DailyUsd, MonthlyUsd
<1>3. QED
  BY <1>1, <1>2 DEF LimitOf

LEMMA SpentFacts ==
    ASSUME TypeOK, NEW b, NEW W
    PROVE  Spent(b, W) \subseteq Made /\ Spent(b, W) \subseteq Counted(W)
BY DEF Spent, Counted

LEMMA SumFacts ==
    ASSUME TypeOK, NEW S \in SUBSET Made
    PROVE  /\ IsFiniteSet(S) /\ Usd(S) \in Nat
           /\ \A R \in SUBSET S : Usd(R) <= Usd(S)
           /\ \A k \in S : /\ UsdOf[txn[k].body] \in Nat
                           /\ Usd(S) = UsdOf[txn[k].body] + Usd(S \ {k})
<1> DEFINE f == [k \in Keys |-> UsdOf[txn[k].body]]
<1>1. S \subseteq Keys /\ IsFiniteSet(S)
  BY FinitelyManyKeys, FS_Subset DEF Made
<1>2. \A k \in S : f[k] = UsdOf[txn[k].body] /\ f[k] \in Nat
  BY <1>1, MadeFacts, UsdFacts
<1>3. \A R : Usd(R) = SumFunctionOnSet(f, R)
  BY DEF Usd
<1> HIDE DEF f
<1>4. SumFunctionOnSet(f, S) \in Nat
  BY <1>1, <1>2, SumNat
<1>5. \A R \in SUBSET S : SumFunctionOnSet(f, R) <= SumFunctionOnSet(f, S)
  BY <1>1, <1>2, SumMonotone
<1>6. \A k \in S : SumFunctionOnSet(f, S) = f[k] + SumFunctionOnSet(f, S \ {k})
  <2>1. \A k \in S : f[k] \in Int
    BY <1>2
  <2>2. QED
    BY <1>1, <2>1, SumRemove
<1>7. QED
  BY <1>1, <1>2, <1>3, <1>4, <1>5, <1>6

\* What was made counts for the same afterwards.
LEMMA SumStays ==
    ASSUME TypeOK, HistoryHolds, [Next]_vars, NEW S \in SUBSET Made
    PROVE  Usd(S)' = Usd(S)
<1> DEFINE f == [k \in Keys |-> UsdOf[txn[k].body]]
           g == [k \in Keys |-> UsdOf[txn'[k].body]]
<1>1. S \subseteq Keys /\ IsFiniteSet(S)
  BY SumFacts DEF Made
<1>2. \A k \in S : f[k] = UsdOf[txn[k].body] /\ g[k] = UsdOf[txn'[k].body]
  BY <1>1
<1>3. \A k \in S : f[k] \in Int /\ f[k] = g[k]
  <2>1. \A k \in S : txn'[k].body = txn[k].body
    BY MadeStays
  <2>2. \A k \in S : UsdOf[txn[k].body] \in Nat
    BY SumFacts
  <2> HIDE DEF f, g
  <2>3. QED
    BY <1>2, <2>1, <2>2
<1>4. UsdOf' = UsdOf
  BY DEF UsdOf, UsdAmount, Terms
<1>5. Usd(S) = SumFunctionOnSet(f, S) /\ Usd(S)' = SumFunctionOnSet(g, S)
  BY <1>4 DEF Usd
<1> HIDE DEF f, g
<1>6. SumFunctionOnSet(f, S) = SumFunctionOnSet(g, S)
  BY <1>1, <1>3, SumSame
<1>7. QED
  BY <1>5, <1>6

\* A wallet has spent more only by a commit that was not held.
LEMMA SpentMoves ==
    ASSUME TypeOK, HistoryHolds, [Next]_vars, NEW b \in Bodies, NEW W \in Windows,
           NEW k \in Spent(b, W)'
    PROVE  \/ k \in Spent(b, W)
           \/ \E h \in Handlers :
                 /\ Commit(h) /\ Committed(h, k)
                 /\ handler[h].held = FALSE /\ SameWallet(handler[h].body, b)
<1>1. /\ k \in Keys /\ txn'[k].status # "NONE" /\ txn'[k].window \in W
      /\ txn'[k].status \in {"COMPLETED", "PROCESSING", "PENDING"}
      /\ txn'[k].direct /\ SameWallet(txn'[k].body, b)
  BY DEF Spent, Counted, Made, SameWallet, Terms
<1>2. CASE txn'[k] = txn[k]
  BY <1>1, <1>2 DEF Spent, Counted, Made
<1>3. CASE Later(k)
  <2>1. /\ k \in Made /\ txn[k].direct /\ txn[k].status \in {"PROCESSING", "COMPLETED"}
        /\ txn[k].body = txn'[k].body
    BY <1>1, <1>3 DEF Later, HistoryHolds
  <2>2. txn[k].window \in W
    BY <1>1, <1>3 DEF Later, Windows
  <2>3. QED
    BY <1>1, <2>1, <2>2 DEF Spent, Counted
<1>4. ASSUME NEW h \in Handlers, Committed(h, k)
      PROVE  handler[h].held = FALSE /\ SameWallet(handler[h].body, b)
  <2> DEFINE x == handler[h]
  <2>1. x.pc = "vetted" /\ txn'[k] = NewTxn(x) /\ x.held \in BOOLEAN
    BY <1>4, HandlerFacts DEF Committed
  <2> HIDE DEF x
  <2>2. txn'[k].body = x.body /\ txn'[k].direct = ~x.held
    BY <2>1 DEF NewTxn
  <2>3. x.held = FALSE /\ SameWallet(x.body, b)
    BY <1>1, <2>1, <2>2
  <2>4. QED
    BY <2>3 DEF x
<1>5. QED
  BY <1>1, <1>2, <1>3, <1>4, TxnMoves

\* The limits leave room for what they have let pass.
LEMMA LimitsLeaveRoom ==
    ASSUME TypeOK, NEW b \in Bodies, NEW t \in 0..3, WithinLimits(b, t), NEW W \in Windows
    PROVE  HasRoom(b, t, W)
<1> DEFINE all == {k \in Counted(W) : UserOf(k) = Body[b].user}
<1>1. Usd(all) + UsdOf[b] <= LimitOf(W)[t + 1]
  <2>1. CASE W = {"day"}
    BY <2>1 DEF WithinLimits, LimitOf
  <2>2. CASE W = {"day", "month"}
    <3>1. LimitOf(W) = MonthlyUsd
      BY <2>2 DEF LimitOf
    <3>2. QED
      BY <2>2, <3>1 DEF WithinLimits
  <2>3. QED
    BY <2>1, <2>2 DEF Windows
<1>2. all \in SUBSET Made /\ Spent(b, W) \in SUBSET all /\ Spent(b, W) \in SUBSET Made
  BY DEF Spent, Counted, UserOf, SameWallet
<1> HIDE DEF all
<1>3. Usd(Spent(b, W)) <= Usd(all) /\ Usd(all) \in Nat /\ Usd(Spent(b, W)) \in Nat
  BY <1>2, SumFacts
<1>4. UsdOf[b] \in Nat /\ LimitOf(W)[t + 1] \in Nat
  BY UsdFacts, LimitFacts
<1>5. QED
  BY <1>1, <1>3, <1>4 DEF HasRoom

LEMMA SameWalletFacts ==
    ASSUME NEW b, NEW c, SameWallet(c, b), NEW W
    PROVE  Spent(c, W) = Spent(b, W)
BY DEF SameWallet, Spent

LEMMA EveryPartFitsStep ==
    ASSUME TypeOK, TypeOK', HistoryHolds, EveryPartFits, RoomLeft, [Next]_vars
    PROVE  EveryPartFits'
<1>1. ASSUME NEW b \in Bodies, NEW W \in Windows, NEW S \in SUBSET (Spent(b, W)'), S # {}
      PROVE  \E k \in S : Usd(S)' <= LimitOf(W)[txn'[k].tier + 1]
  <2>1. CASE S \subseteq Spent(b, W)
    <3>1. PICK k \in S : Usd(S) <= LimitOf(W)[txn[k].tier + 1]
      BY <1>1, <2>1 DEF EveryPartFits
    <3>2. S \in SUBSET Made
      BY <2>1, SpentFacts
    <3>3. Usd(S)' = Usd(S) /\ txn'[k].tier = txn[k].tier
      BY <3>2, SumStays, MadeStays
    <3>4. QED
      BY <3>1, <3>3
  <2>2. CASE ~(S \subseteq Spent(b, W))
    <3>1. PICK k \in S : k \notin Spent(b, W)
      BY <2>2
    <3>2. PICK h \in Handlers :
              /\ Commit(h) /\ Committed(h, k)
              /\ handler[h].held = FALSE /\ SameWallet(handler[h].body, b)
      BY <3>1, SpentMoves
    <3> DEFINE c == handler[h].body
               t == handler[h].tier
               R == S \ {k}
    <3>3. /\ handler[h].pc = "vetted" /\ c \in Bodies /\ t \in 0..3
          /\ "wallet" \notin handler[h].stale
          /\ txn'[k].body = c /\ txn'[k].tier = t
      BY <3>2, HandlerFacts DEF Commit, MayCommit, WritesWallet, Committed, NewTxn, HasTier
    <3>4. Usd(Spent(c, W)) + UsdOf[c] <= LimitOf(W)[t + 1]
      BY <3>3 DEF RoomLeft, HasRoom
    <3>5. Spent(c, W) = Spent(b, W)
      BY <3>2, SameWalletFacts
    <3>6. R \subseteq Spent(b, W)
      <4>1. ASSUME NEW j \in R
            PROVE  j \in Spent(b, W)
        <5>1. j \in Keys /\ j # k
          BY DEF Spent, Counted, Made
        <5>2. txn'[j] = txn[j]
          BY <3>2, <5>1, CommitMoves DEF Committed
        <5>3. ~ \E g \in Handlers : Committed(g, j)
          <6>1. j \in Made'
            BY DEF Spent, Counted
          <6>2. txn[j].status # "NONE"
            BY <5>2, <6>1 DEF Made
          <6>3. QED
            BY <6>2 DEF Committed
        <5>4. QED
          BY <5>3, SpentMoves
      <4>2. QED
        BY <4>1
    <3> HIDE DEF c, t, R
    <3>7. Usd(S)' = UsdOf[c] + Usd(R)'
      <4>1. S \in SUBSET Made'
        BY DEF Spent, Counted
      <4> DEFINE g == [j \in Keys |-> UsdOf[txn'[j].body]]
      <4>2. S \subseteq Keys /\ IsFiniteSet(S)
        BY <4>1, FinitelyManyKeys, FS_Subset DEF Made
      <4>3. \A j \in S : g[j] = UsdOf[txn'[j].body] /\ g[j] \in Int
        <5>1. \A j \in S : txn'[j].body \in Bodies
          BY <4>1, <4>2 DEF Made, TypeOK, TxnType, NoTxn
        <5>2. QED
          BY <4>2, <5>1, UsdFacts
      <4>4. UsdOf' = UsdOf
        BY DEF UsdOf, UsdAmount, Terms
      <4>5. Usd(S)' = SumFunctionOnSet(g, S) /\ Usd(R)' = SumFunctionOnSet(g, R)
        BY <4>4 DEF Usd
      <4> HIDE DEF g
      <4>6. SumFunctionOnSet(g, S) = g[k] + SumFunctionOnSet(g, S \ {k})
        BY <4>2, <4>3, SumRemove
      <4>7. g[k] = UsdOf[c]
        BY <3>3, <4>3
      <4>8. QED
        BY <4>5, <4>6, <4>7 DEF R
    <3>8. Usd(R)' = Usd(R) /\ Usd(R) <= Usd(Spent(b, W)) /\ Usd(R) \in Nat
          /\ Usd(Spent(b, W)) \in Nat
      <4>1. Spent(b, W) \in SUBSET Made /\ R \in SUBSET Made
        BY <3>6, SpentFacts
      <4>2. QED
        BY <3>6, <4>1, SumStays, SumFacts
    <3>9. UsdOf[c] \in Nat /\ LimitOf(W)[t + 1] \in Nat
      BY <3>3, UsdFacts, LimitFacts
    <3>10. Usd(S)' <= LimitOf(W)[txn'[k].tier + 1]
      BY <3>3, <3>4, <3>5, <3>7, <3>8, <3>9
    <3>11. QED
      BY <3>10
  <2>3. QED
    BY <2>1, <2>2
<1>2. QED
  BY <1>1 DEF EveryPartFits

\* Whatever is let through in the meantime makes the wallet row stale.
LEMMA CommitStales ==
    ASSUME TypeOK, NEW h \in Handlers, NEW g \in Handlers, Commit(h),
           handler[h].held = FALSE, SameWallet(handler[h].body, handler'[g].body),
           handler'[g].pc \in {"limited", "vetted"}
    PROVE  "wallet" \in handler'[g].stale
<1>1. g # h
  <2>1. handler'[h] = [pc |-> "answering", key |-> handler[h].key, body |-> handler[h].body]
    BY DEF Commit
  <2>2. handler'[h].pc = "answering"
    BY <2>1
  <2>3. QED
    BY <2>2
<1>2. handler'[g] = IF Open(handler[g]) THEN Outdated(g, h) ELSE handler[g]
  BY <1>1 DEF Commit, Outdated
<1>3. Open(handler[g])
  BY <1>2 DEF Open
<1>4. /\ handler'[g].body = handler[g].body
      /\ handler'[g].stale = handler[g].stale \cup Shares(handler[g], handler[h])
  BY <1>2, <1>3, OutdatedFacts
<1>5. "wallet" \in Shares(handler[g], handler[h])
  BY <1>4 DEF Shares, WritesWallet, SameWallet
<1>6. QED
  BY <1>4, <1>5

LEMMA RoomStays ==
    ASSUME TypeOK, HistoryHolds, [Next]_vars, NEW b \in Bodies, NEW t \in 0..3,
           NEW W \in Windows, HasRoom(b, t, W), Spent(b, W)' \subseteq Spent(b, W)
    PROVE  HasRoom(b, t, W)'
<1> DEFINE S == Spent(b, W)
           T == Spent(b, W)'
<1>1. S \in SUBSET Made /\ T \in SUBSET S /\ T \in SUBSET Made
  BY SpentFacts
<1>2. UsdOf' = UsdOf
  BY DEF UsdOf, UsdAmount, Terms
<1>3. ASSUME NEW R \in SUBSET Made, R = T
      PROVE  Usd(Spent(b, W))' = Usd(R)
  <2>1. Usd(R)' = Usd(R)
    BY SumStays
  <2>2. Usd(Spent(b, W))' = Usd(R)'
    BY <1>3 DEF Usd
  <2>3. QED
    BY <2>1, <2>2
<1>4. Usd(Spent(b, W))' = Usd(T)
  BY <1>1, <1>3
<1> HIDE DEF T
<1>5. Usd(T) <= Usd(S) /\ Usd(T) \in Nat /\ Usd(S) \in Nat
  BY <1>1, SumFacts
<1>6. UsdOf[b] \in Nat /\ LimitOf(W)[t + 1] \in Nat
  BY UsdFacts, LimitFacts
<1>7. Usd(T) + UsdOf[b] <= LimitOf(W)[t + 1]
  BY <1>5, <1>6 DEF HasRoom
<1>8. QED
  BY <1>2, <1>4, <1>7 DEF HasRoom

LEMMA RoomLeftStep ==
    ASSUME TypeOK, TypeOK', HistoryHolds, RoomLeft, [Next]_vars
    PROVE  RoomLeft'
<1>1. ASSUME NEW g \in Handlers, handler'[g].pc \in {"limited", "vetted"},
             "wallet" \notin handler'[g].stale, NEW W \in Windows,
             NEW b, b = handler'[g].body, NEW t, t = handler'[g].tier
      PROVE  HasRoom(b, t, W)'
  <2>1. b \in Bodies /\ t \in 0..3
    <3>1. handler'[g] \in HandlerType
      BY DEF TypeOK
    <3>2. QED
      BY <1>1, <3>1 DEF HandlerType, Idle
  <2>2. Spent(b, W)' \subseteq Spent(b, W)
    <3>1. ASSUME NEW k \in Spent(b, W)'
          PROVE  k \in Spent(b, W)
      <4>1. ASSUME NEW h \in Handlers, Commit(h), handler[h].held = FALSE,
                   SameWallet(handler[h].body, b)
            PROVE  FALSE
        BY <1>1, <4>1, CommitStales
      <4>2. QED
        BY <2>1, <4>1, SpentMoves
    <3>2. QED
      BY <3>1
  <2>3. HasRoom(b, t, W)
    <3>1. CASE handler'[g] = handler[g]
      BY <1>1, <3>1 DEF RoomLeft
    <3>2. CASE CheckLimits(g)
      <4>1. WithinLimits(b, t)
        BY <1>1, <3>2, CheckLimitsFacts
      <4>2. QED
        BY <2>1, <4>1, LimitsLeaveRoom
    <3>3. CASE Judge(g)
      BY <1>1, <3>3, JudgeFacts DEF RoomLeft
    <3>4. ASSUME NEW h \in Handlers, Open(handler[g]), handler'[g] = Outdated(g, h)
          PROVE  HasRoom(b, t, W)
      BY <1>1, <3>4, OutdatedFacts DEF RoomLeft
    <3>5. Open(handler'[g]) /\ ~Begin(g)
      BY <1>1, BeginFacts DEF Open
    <3>6. QED
      BY <3>1, <3>2, <3>3, <3>4, <3>5, Moves
  <2>4. QED
    BY <2>1, <2>2, <2>3, RoomStays
<1>2. QED
  BY <1>1 DEF RoomLeft, HasRoom

LEMMA PartsFitWhole ==
    ASSUME EveryPartFits
    PROVE  WalletStaysWithinLimit
<1>1. ASSUME NEW b \in Bodies, NEW W \in Windows, Spent(b, W) # {}
      PROVE  \E k \in Spent(b, W) : Usd(Spent(b, W)) <= LimitOf(W)[txn[k].tier + 1]
  BY <1>1 DEF EveryPartFits
<1>2. \A b, W : Spent(b, W) = {k \in Counted(W) : /\ txn[k].direct
                                                 /\ UserOf(k) = Body[b].user
                                                 /\ Terms[txn[k].body].from = Terms[b].from}
  BY DEF Spent, SameWallet, UserOf
<1>3. LimitOf({"day"}) = DailyUsd
  BY DEF LimitOf
<1>4. LimitOf({"day", "month"}) = MonthlyUsd
  <2>1. {"day", "month"} # {"day"}
    OBVIOUS
  <2>2. QED
    BY <2>1 DEF LimitOf
<1>5. {"day"} \in Windows /\ {"day", "month"} \in Windows
  BY DEF Windows
<1> DEFINE whole(b, W) == {k \in Counted(W) : /\ txn[k].direct
                                              /\ UserOf(k) = Body[b].user
                                              /\ Terms[txn[k].body].from = Terms[b].from}
           fits(S, limit) == S # {} => \E k \in S : Usd(S) <= limit[txn[k].tier + 1]
<1>6. \A b \in Bodies : fits(whole(b, {"day"}), DailyUsd)
                        /\ fits(whole(b, {"day", "month"}), MonthlyUsd)
  <2>1. \A b \in Bodies, W \in Windows : fits(Spent(b, W), LimitOf(W))
    BY <1>1
  <2>2. \A b, W : whole(b, W) = Spent(b, W)
    BY <1>2
  <2> HIDE DEF whole, fits
  <2>3. QED
    BY <1>3, <1>4, <1>5, <2>1, <2>2
<1>7. QED
  BY <1>6, Zenon DEF WalletStaysWithinLimit

\* What a wallet has spent in a day, or in 30 days, and was not held for an
\* officer, is within the limit of a tier one of its requests was checked
\* with, for any number of requests that overlap.
THEOREM WalletWithinLimit == Spec => []WalletStaysWithinLimit
<1> DEFINE Inv == TypeOK /\ HistoryHolds /\ EveryPartFits /\ RoomLeft
<1>1. ASSUME Init
      PROVE  HistoryHolds /\ EveryPartFits /\ RoomLeft
  <2>1. Made = {}
    BY <1>1 DEF Init, Made, NoTxn
  <2>2. RoomLeft
    BY <1>1 DEF Init, RoomLeft, Idle
  <2>3. EveryPartFits
    BY <2>1 DEF EveryPartFits, Spent, Counted
  <2>4. QED
    BY <2>1, <2>2, <2>3 DEF HistoryHolds
<1>2. Init => Inv
  BY <1>1, InitIInv DEF IInv
<1>3. Inv /\ TypeOK' /\ [Next]_vars => Inv'
  BY HistoryStep, EveryPartFitsStep, RoomLeftStep
<1>4. Inv => WalletStaysWithinLimit
  BY PartsFitWhole
<1>5. QED
  BY <1>2, <1>3, <1>4, TypeCorrect, PTL DEF Spec
=============================================================================
