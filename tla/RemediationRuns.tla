--------------------------- MODULE RemediationRuns ---------------------------
(***************************************************************************)
(* The remediation runs that VclusterSandbox and PrGenerator serve.        *)
(***************************************************************************)
EXTENDS FiniteSets

CONSTANT Runs \* run_sandbox() calls, each reported by one create_remediation_pr()

ASSUME RunsAssumption == IsFiniteSet(Runs)
=============================================================================
