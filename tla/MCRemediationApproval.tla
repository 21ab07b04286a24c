------------------------- MODULE MCRemediationApproval -------------------------
(***************************************************************************)
(* Three people: a developer who proposes, a reviewer, and an              *)
(* administrator who may do everything (propose as well, as an admin may). *)
(***************************************************************************)
EXTENDS RemediationApproval, TLC

CONSTANTS Dev, Reviewer, Admin

MCUsers == {Dev, Reviewer, Admin}

MCMayDo ==
  [op \in Operations |->
     CASE op = "propose"     -> {Dev, Admin}
       [] op = "review"      -> {Reviewer, Admin}
       [] op = "apply_patch" -> {Dev, Admin}
       [] OTHER              -> {Admin}]

\* Requests are interchangeable.
Symmetry == Permutations(Workers)

=============================================================================
