----------------------------- MODULE MCPageJob -----------------------------
(* The TLC instance of PageJob: page_job.cfg. *)
EXTENDS PageJob
=============================================================================
