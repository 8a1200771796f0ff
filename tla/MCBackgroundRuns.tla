--------------------------- MODULE MCBackgroundRuns ---------------------------
(***************************************************************************)
(* Two tasks of different tenants, two workers.                            *)
(***************************************************************************)
EXTENDS BackgroundRuns, TLC

CONSTANTS t1, t2, acme, globex

MCOwner == (t1 :> acme) @@ (t2 :> globex)

\* Workers are interchangeable; sound here because no liveness is checked.
WorkerSymmetry == Permutations(Workers)
=============================================================================
