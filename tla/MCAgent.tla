------------------------------- MODULE MCAgent -------------------------------
(***************************************************************************)
(* Instance of Agent: two good configurations with and without a target,   *)
(* one that does not load, a quit and a reload request.                    *)
(***************************************************************************)
EXTENDS Agent, TLC

CONSTANTS good, better, broken, quit, reload, target

MCTargetsOf == good :> {} @@ better :> {target} @@ broken :> {}
=============================================================================
