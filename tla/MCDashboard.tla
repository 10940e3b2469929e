---------------------------- MODULE MCDashboard ----------------------------
(* Instances of Dashboard for TLC. *)
EXTENDS Dashboard

CONSTANTS r1, r2, p1, p2, c0, bad

MCPolls == {p1, p2}   \* two, so that a body can overtake an older one

\* The page never sees what an earlier evolution left in the backup: one case will do.
FirstInit      == DashboardInit /\ disk["backup"] = Original
FirstEvolution == FirstInit /\ [][DashboardNext]_allVars /\ DashboardFairness
=============================================================================
