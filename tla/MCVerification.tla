---------------------------- MODULE MCVerification ----------------------------
(***************************************************************************)
(* Small instances of VerificationJobs: constants of its runs.              *)
(***************************************************************************)
EXTENDS VerificationJobs

CONSTANTS s1, s2, t, p, none, j1, c1

===============================================================================
