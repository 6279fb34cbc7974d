-------------------------- MODULE MCEngineLifecycle --------------------------
(***************************************************************************)
(* The two engines of the driver.  The model is finite as it stands.       *)
(***************************************************************************)
EXTENDS EngineLifecycle
=============================================================================
