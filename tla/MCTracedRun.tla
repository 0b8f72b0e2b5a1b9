------------------------------ MODULE MCTracedRun ------------------------------
(***************************************************************************)
(* One run, one or two replay requests.                                    *)
(***************************************************************************)
EXTENDS TracedRun

CONSTANTS run, first, second
=============================================================================
