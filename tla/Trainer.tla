------------------------------ MODULE Trainer ------------------------------
(***************************************************************************)
(* What the self-evolution of Noah_ASI promises, whatever the steps it is  *)
(* made of: main.cpp is one value, an accepted evolution is pending until  *)
(* it is judged, and the judgement either installs a source that compiles  *)
(* or leaves the source as it was.  Evolution.tla is shown to implement it.*)
(***************************************************************************)
CONSTANTS Compiling,   \* the sources the build accepts
          Original     \* the source the program was installed with

VARIABLES source, status

Init == source = Original /\ status = "ready"

\* POST /api/evolve is accepted
Request == status' = "pending" /\ UNCHANGED source

\* the trainer's build succeeds: the new source is the program's
Commit == /\ status = "pending"
          /\ status' = "committed"
          /\ source' \in Compiling

\* the cloud failed, the build failed or the thread threw: nothing changes
Keep == /\ status = "pending"
        /\ status' = "kept"
        /\ UNCHANGED source

\* the program is started again
Reboot == status' = "ready" /\ UNCHANGED source

Next == Request \/ Commit \/ Keep \/ Reboot

Spec == Init /\ [][Next]_<<source, status>>
=============================================================================
