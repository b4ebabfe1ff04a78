-------------------------------- MODULE Kyc --------------------------------
(***************************************************************************)
(* KycService: a user submits a record for a tier, a screening that nobody *)
(* waits for adds the hits it finds, and an officer decides.  Approval     *)
(* sets the user's tier to the record's target.                            *)
(*                                                                         *)
(* The screening is a promise nobody awaits: it may end before or after    *)
(* any decision.  An error of the provider is swallowed and a stop of the  *)
(* process loses the call: that is a screening which never ends, and the   *)
(* specification has no fairness that would make it.                       *)
(***************************************************************************)
EXTENDS Integers

CONSTANTS
    Users,
    Records,   \* KYC records that may be submitted
    Applicant, \* the user who submits a record
    Target,    \* the tier it asks for
    StartTier  \* of a user, from records decided before the model begins

ASSUME KycAssumption ==
    /\ Applicant \in [Records -> Users]
    /\ Target \in [Records -> 1..3]
    /\ StartTier \in [Users -> 0..3]

VARIABLES
    tier,      \* User.kycTier
    record,    \* KycRecord rows
    screening  \* the pending call of the sanctions provider

kycVars == <<tier, record, screening>>

Absent == [status |-> "NONE", approved |-> FALSE, hits |-> FALSE]

\* approved: an officer approved it at some time (history).  hits: rows of
\* SanctionsHit or PepHit refer to the record, and no decision was made since
\* they were stored.
RecordType ==
    [status : {"NONE", "SUBMITTED", "IN_REVIEW", "APPROVED", "REJECTED"},
     approved : BOOLEAN, hits : BOOLEAN]

KycTypeOK ==
    /\ tier \in [Users -> 0..3]
    /\ record \in [Records -> RecordType]
    /\ screening \in [Records -> {"none", "asked"}]

KycInit ==
    /\ tier = StartTier
    /\ record = [r \in Records |-> Absent]
    /\ screening = [r \in Records |-> "none"]

\* The record, then the screening that is not awaited.
Submit(r) ==
    /\ record[r].status = "NONE"
    /\ record' = [record EXCEPT ![r].status = "SUBMITTED"]
    /\ screening' = [screening EXCEPT ![r] = "asked"]
    /\ UNCHANGED tier

\* The provider answered: hits are stored, and the status is IN_REVIEW
\* whatever it was, with hits or without.
ScreenedStatusOnce(old) == IF old = "SUBMITTED" THEN "IN_REVIEW" ELSE old
ScreenedStatus(old) == "IN_REVIEW"

Screen(r, hits) ==
    /\ screening[r] = "asked"
    /\ record' = [record EXCEPT ![r].status = ScreenedStatus(@),
                                ![r].hits = hits]
    /\ screening' = [screening EXCEPT ![r] = "none"]
    /\ UNCHANGED tier

\* POST /admin/kyc/review.  Any record that exists, in any status, any
\* number of times; the tier becomes the target, be it higher or lower.
Review(r, decision) ==
    /\ record[r].status # "NONE"
    /\ record' = [record EXCEPT ![r].status = decision, ![r].hits = FALSE,
                                ![r].approved = @ \/ decision = "APPROVED"]
    /\ tier' = IF decision = "APPROVED"
               THEN [tier EXCEPT ![Applicant[r]] = Target[r]] ELSE tier
    /\ UNCHANGED screening

KycNext ==
    \E r \in Records :
        \/ Submit(r)
        \/ \E hits \in BOOLEAN : Screen(r, hits)
        \/ \E decision \in {"APPROVED", "REJECTED"} : Review(r, decision)

-----------------------------------------------------------------------------
(***************************************************************************)
(* Hits that arrive late are not lost: the queue the officers work through *)
(* lists records IN_REVIEW, so a record with hits no decision has followed *)
(* is in it, even when it was approved before the screening ended.  This   *)
(* is what writing the status unconditionally is good for.                 *)
(***************************************************************************)
HitsAreQueued ==
    \A r \in Records :
        record[r].hits => record[r].status = "IN_REVIEW"
=============================================================================
