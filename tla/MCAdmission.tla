---------------------------- MODULE MCAdmission ----------------------------
(***************************************************************************)
(* The admission of a market data provider and the sign-in sessions run in  *)
(* processes of their own and share no state: each is checked on its own,   *)
(* side by side in one run, with the other at rest.  So are the two things  *)
(* done about a provider, which share what the feed writes and neither      *)
(* writes to it: the days are judged, and its connectivity is checked.      *)
(***************************************************************************)
EXTENDS MCShadowAdmission, AuthSession

CONSTANT browser

VARIABLE part       \* what runs

all == <<part, admissionVars, authVars>>

OneBrowser == [c \in Tabs |-> browser]

Init == AdmissionInit /\ AuthInit /\ part \in {"judging", "checking", "auth"}

Next ==
    /\ UNCHANGED part
    /\ \/ /\ part = "judging" /\ AdmissionNext
          /\ UNCHANGED <<check, checks, authVars>>
       \/ /\ part = "checking" /\ AdmissionNext
          /\ UNCHANGED <<reports, admissions, degraded, authVars>>
       \/ /\ part = "checking" /\ Resting
          /\ UNCHANGED <<admVars, authVars>>
       \/ part = "auth" /\ AuthNext /\ UNCHANGED admissionVars

Spec == Init /\ [][Next]_all
=============================================================================
