------------------------------- MODULE MCCli -------------------------------
(***************************************************************************)
(* Cli for TLC: every combination of flags, every point of failure.        *)
(***************************************************************************)
EXTENDS Cli

MCCommands == {"root", "stats", "versions", "scaffold"}
=============================================================================
