------------------------ MODULE CollisionGuardClaims ------------------------
(* What comments and tests say of enqueueWithCollisionGuard and the code *)
(* does not do.                                                          *)
EXTENDS CollisionGuard

(* "`re_enqueued` - CAS won; retryCount incremented; job re-added": a job  *)
(* that asks for its own repetition gets one.  Its id is still in the      *)
(* queue, active, so the add does nothing and the answer is enqueued_new.  *)
ReEnqueuedIsAdded ==
    \A c \in Calls : pc[c] = "answered" /\ maker[c] # Nobody => added[c] > 0

(* "post-add timestamp delta check (Layer 2) routes stale retention hits    *)
(* through handleProbeTerminal": a winner whose add met a retained finished *)
(* job does not answer enqueued_new, which leaves the request without any   *)
(* job; it enqueues a retry.                                                *)
RetentionHitRetried ==
    \A c \in Calls :
        pc[c] = "answered" /\ outcome[c] = "enqueued_new" => backed[c]
=============================================================================
