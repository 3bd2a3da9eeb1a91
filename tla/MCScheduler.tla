---------------------------- MODULE MCScheduler ----------------------------
(* A small instance of Scheduler.tla.                                      *)
EXTENDS Scheduler

CONSTANTS a1, MaxDeps

MCAccount == {a1}
MCJobSpec == {[account |-> a1, class |-> 1, cpu |-> 1, wall |-> 1]}
\* Lists of up to MaxDeps handles, a repeated one included.  The handles are in
\* index order: only classify's choice of the first bad entry depends on it.
MCDepLists ==
  {d \in UNION {[1..n -> JobId] : n \in 0..MaxDeps} :
     \A j, k \in DOMAIN d : j < k => d[j][1] <= d[k][1]}
=============================================================================
