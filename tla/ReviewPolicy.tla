---------------------------- MODULE ReviewPolicy ----------------------------
(***************************************************************************)
(* The deterministic aggregation of several reviewers' verdicts            *)
(* (evaluate_review_outcome in loops/hlp/operations/review.py).            *)
(* A review is a record with at least the fields reviewer and verdict; the *)
(* reviews that count are a function of their positions in the store,      *)
(* which are in submission order.                                          *)
(***************************************************************************)
EXTENDS Naturals, Sequences, FiniteSets

\* loops/hlp/types.py, ReviewVerdict; the fourth value is the Python None of
\* ReviewOutcome: no decision yet.
ReviewVerdict == {"approved", "changes_requested", "rejected"}
Quorums == {"all", "majority", "any"}
Pending == "pending"

\* The seats of the policy whose occupant's latest review says verdict.
\* required is the tuple required_reviewers: a reviewer listed twice has two
\* seats.
SeatsSaying(verdict, reviews, required) ==
  {seat \in DOMAIN required :
     \E i \in DOMAIN reviews :
       /\ reviews[i].reviewer = required[seat]
       /\ reviews[i].verdict = verdict
       /\ \A j \in DOMAIN reviews :
            j > i => reviews[j].reviewer # required[seat]}

QuorumReached(approvals, total, quorum) ==
  \/ quorum = "all" /\ approvals = total
  \/ quorum = "majority" /\ approvals * 2 > total
  \/ quorum = "any" /\ approvals >= 1

\* A faulty variant, for the properties to notice: no veto.
EvaluateReviewOutcome_NoVeto(reviews, required, quorum) ==
  LET Seats(verdict) == SeatsSaying(verdict, reviews, required)
  IN IF QuorumReached(Cardinality(Seats("approved")), Len(required), quorum)
       THEN "approved"
     ELSE IF Seats("changes_requested") # {} THEN "changes_requested"
     ELSE Pending

\* Latest verdict per required reviewer, then
\* veto > quorum-approve > changes_requested > pending.
EvaluateReviewOutcome(reviews, required, quorum) ==
  LET Seats(verdict) == SeatsSaying(verdict, reviews, required)
  IN IF Seats("rejected") # {} THEN "rejected"
     ELSE IF QuorumReached(Cardinality(Seats("approved")), Len(required), quorum)
       THEN "approved"
     ELSE IF Seats("changes_requested") # {} THEN "changes_requested"
     ELSE Pending
=============================================================================
