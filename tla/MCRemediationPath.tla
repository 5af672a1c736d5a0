-------------------------- MODULE MCRemediationPath --------------------------
(***************************************************************************)
(* A small instance of RemediationPath for TLC: two runs, each of a fix    *)
(* that may be merged automatically or of one in a trading namespace.      *)
(***************************************************************************)
EXTENDS RemediationPath, TLC

CONSTANTS web, bot

MCFixes == {web, bot}
MCBot == {bot}
=============================================================================
