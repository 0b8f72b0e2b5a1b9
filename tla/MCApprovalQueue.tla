-------------------------- MODULE MCApprovalQueue --------------------------
(***************************************************************************)
(* Instances of ApprovalQueue for TLC.                                     *)
(***************************************************************************)
EXTENDS ApprovalQueue

CONSTANTS r1, r2

\* One reviewer does everything and another one only looks, through three escalations
OneReviewer ==
    [askers |-> {r1}, deciders |-> {r1}, escalations |-> 3, messages |-> 4]

\* Two reviewers decide the only escalation, possibly at once
TwoDeciders ==
    [askers |-> {}, deciders |-> {r1, r2}, escalations |-> 1, messages |-> 0]

QueueSetups == {OneReviewer, TwoDeciders}

\* One asks what the other decides
AskingSetups == {[askers |-> {r1}, deciders |-> {r2}, escalations |-> 1, messages |-> 2]}

\* A single reviewer decides twice
DecidingSetups == {[askers |-> {}, deciders |-> {r1}, escalations |-> 2, messages |-> 0]}
=============================================================================
