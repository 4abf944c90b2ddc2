----------------------------- MODULE MCLifecycle -----------------------------
(***************************************************************************)
(* Instances of Lifecycle: two good configurations, one that does not load *)
(* and, in one run, one that loads although its password file is missing.  *)
(***************************************************************************)
EXTENDS Lifecycle

CONSTANTS good, better, broken, passwordless, quit, reload, again
=============================================================================
