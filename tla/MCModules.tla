----------------------------- MODULE MCModules -----------------------------
(* HostModules for TLC: three modules, one that depends on another that depends on the third. *)
EXTENDS HostModules, TLC

CONSTANTS first, second, third

MCModule == {first, second, third}
MCDependancies == {first :> <<>> @@ second :> <<first>> @@ third :> <<second>>}
=============================================================================
