------------------------------ MODULE MCEngine ------------------------------
(* Small instances of Engine.tla.                                          *)
EXTENDS Engine

CONSTANTS
  a1,
  MCSpecs,   \* <<class, cpu>> of the jobs clients submit
  MaxDeps    \* bound: dependencies of a job

MCAccount  == {a1}
MCJobSpec  == {[account |-> a1, class |-> p[1], cpu |-> p[2], wall |-> 1] : p \in MCSpecs}
MCDepLists == UNION {[1..n -> JobId] : n \in 0..MaxDeps}
MCSmallOrUrgent == {<<0, 1>>, <<3, 2>>}
MCEmptyRequest  == {<<1, 0>>, <<1, 1>>}
=============================================================================
