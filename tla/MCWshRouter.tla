---------------------------- MODULE MCWshRouter ----------------------------
(***************************************************************************)
(* A remote host's router: the link of a job manager, which authenticates  *)
(* for the job's route, and the router of the main server upstream, whose  *)
(* command goes down to the job while one of the job's goes up.            *)
(***************************************************************************)
EXTENDS WshRouter

CONSTANTS job, login, down, on, jobRoute, farRoute

MCFrom == login :> job @@ down :> Upstream @@ on :> job
MCTo == login :> ControlRoute @@ down :> jobRoute @@ on :> farRoute
MCBinds == login :> jobRoute
=============================================================================
