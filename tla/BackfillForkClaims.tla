------------------------- MODULE BackfillForkClaims -------------------------
(* What a comment of the backfill processors promises and the code breaks. *)
EXTENDS BackfillFork

(* "fall back to in-process so the Job completes": without a crash, a       *)
(* failing command, or a restart, a run that has fallen back to its own     *)
(* process still has the job's lock when it answers.  The relay has cut the *)
(* lock from ten minutes to one, and stops before the fallback begins.      *)
FallbackCompletes ==
    [][\A w \in Workers :
        pc[w] = "fallback" /\ pc'[w] = "answered" => owner = w]_vars
=============================================================================
