----------------------------- MODULE MCStartup -----------------------------
(* The constants of the instance of Startup.                               *)
EXTENDS Startup

\* Two changes each, so that what went down can come back.
StartupEventsOnce ==
  [e \in StartupEvents |-> CASE e \in {"remote", "database"} -> 2 [] OTHER -> 1]
=============================================================================
