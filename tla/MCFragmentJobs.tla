---------------------------- MODULE MCFragmentJobs ----------------------------
(***************************************************************************)
(* FragmentJobs for two runners and two accounts.                          *)
(***************************************************************************)
EXTENDS FragmentJobs

MCMaxAttempts == <<2, 1>>
=============================================================================
