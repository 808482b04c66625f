-------------------------- MODULE SupervisedWorker --------------------------
(***************************************************************************)
(* What WorkerSupervisor promises of the processes of each worker type,    *)
(* without the machinery that brings it about (children map, binding table,*)
(* state machine, respawn chains, locks): a type has at most one process;  *)
(* a process is replaced only after it has ended; after MaxRestarts        *)
(* unplanned replacements in a row the type is given up until someone asks *)
(* for it again; and once shutdown has begun no process is started, except *)
(* by a call for a type given up since.                                    *)
(*                                                                         *)
(* All this ends for a type with the first call that comes while an        *)
(* unplanned replacement pauses: the promise does not cover that type      *)
(* again before the next server.                                           *)
(***************************************************************************)
EXTENDS Naturals

CONSTANTS Types, MaxRestarts

VARIABLES
    serving, \* the server is up and not shutting down
    phase,   \* "none", "up", "ended" (its exit not yet seen), "pausing" (before
             \* an unplanned replacement), "replacing", "givenup", "twinned"
    spent    \* unplanned replacements in a row

serviceVars == <<serving, phase, spent>>

Init ==
    /\ serving = TRUE
    /\ phase = [t \in Types |-> "none"]
    /\ spent = [t \in Types |-> 0]

Becomes(t, from, to) ==
    /\ phase[t] = from
    /\ phase' = [phase EXCEPT ![t] = to]
    /\ UNCHANGED serving

(* The first process, or a fresh start of a type that was given up. *)
Start(t) ==
    /\ \/ serving /\ Becomes(t, "none", "up")
       \/ Becomes(t, "givenup", "up")
    /\ spent' = [spent EXCEPT ![t] = 0]

End(t) ==
    /\ Becomes(t, "up", "ended")
    /\ UNCHANGED spent

ReplacePlanned(t) ==
    /\ serving
    /\ Becomes(t, "ended", "replacing")
    /\ spent' = [spent EXCEPT ![t] = 0]

ReplaceUnplanned(t) ==
    /\ serving
    /\ spent[t] < MaxRestarts
    /\ Becomes(t, "ended", "pausing")
    /\ spent' = [spent EXCEPT ![t] = @ + 1]

PauseOver(t) ==
    /\ Becomes(t, "pausing", IF serving THEN "replacing" ELSE "none")
    /\ UNCHANGED spent

Replaced(t) ==
    /\ serving
    /\ Becomes(t, "replacing", "up")
    /\ UNCHANGED spent

(* Someone else holds the lock, or the server is shutting down. *)
CalledOff(t) ==
    /\ \/ Becomes(t, "replacing", "givenup")
       \/ ~serving /\ Becomes(t, "replacing", "none")
    /\ UNCHANGED spent

(* An exit goes unanswered only with the budget spent or at shutdown. *)
LeftEnded(t) ==
    /\ \/ serving /\ spent[t] = MaxRestarts /\ Becomes(t, "ended", "givenup")
       \/ ~serving /\ Becomes(t, "ended", "none")
    /\ UNCHANGED spent

(* A call does not see that a replacement is on its way. *)
Intrude(t) ==
    /\ serving
    /\ Becomes(t, "pausing", "twinned")
    /\ UNCHANGED spent

(* Nothing is promised of a type with twins. *)
Unruly(t) ==
    /\ Becomes(t, "twinned", "twinned")
    /\ \E n \in 0..MaxRestarts : spent' = [spent EXCEPT ![t] = n]

Close ==
    /\ serving' = FALSE
    /\ phase' = [t \in Types |-> IF phase[t] = "givenup" THEN "none" ELSE phase[t]]
    /\ UNCHANGED spent

(* The server's process is gone, and its memory with it. *)
Gone ==
    /\ serving' = FALSE
    /\ phase' = [t \in Types |-> "none"]
    /\ spent' = [t \in Types |-> 0]

(* A new server process starts with a clean slate. *)
Boot ==
    /\ ~serving
    /\ \A t \in Types : phase[t] = "none"
    /\ serving' = TRUE
    /\ UNCHANGED <<phase, spent>>

Serve(t) ==
    \/ Start(t) \/ End(t)
    \/ ReplacePlanned(t) \/ ReplaceUnplanned(t) \/ PauseOver(t) \/ Replaced(t)
    \/ CalledOff(t) \/ LeftEnded(t) \/ Intrude(t) \/ Unruly(t)

Next == (\E t \in Types : Serve(t)) \/ Close \/ Gone \/ Boot

Spec == Init /\ [][Next]_serviceVars
=============================================================================
