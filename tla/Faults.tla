------------------------------- MODULE Faults -------------------------------
(***************************************************************************)
(* A budget of faults and of changes to source files.                      *)
(*                                                                         *)
(* A fault is anything the code tolerates but does not cause: an operation *)
(* that returns an error, a crash, a lost message.  A step that is a fault *)
(* says which kind it is.  A behaviour allows the kinds of one scenario,   *)
(* so that a property can say which kinds it does not tolerate, and        *)
(* MaxFaults bounds how many faults happen.                                *)
(***************************************************************************)
EXTENDS Integers

CONSTANTS
  FaultScenarios,   \* sets of kinds of fault; a behaviour allows one of them
  MaxFaults,        \* how many faults may occur in a behaviour
  MaxRenewals       \* how many times a source file may be replaced

ASSUME FaultsAssumption ==
  /\ MaxFaults \in Nat
  /\ MaxRenewals \in Nat

VARIABLES
  allowed,    \* the kinds of fault this behaviour allows
  faults,     \* faults so far
  renewals    \* replacements of a source file so far

budgetVars == <<allowed, faults, renewals>>

\* Faults of these kinds do not happen.
NoFaultsOf(kinds) == allowed \cap kinds = {}

Fault(kind) ==
  /\ kind \in allowed
  /\ faults < MaxFaults
  /\ faults' = faults + 1
  /\ UNCHANGED <<allowed, renewals>>

NoFault == UNCHANGED budgetVars

Renewal ==
  /\ renewals < MaxRenewals
  /\ renewals' = renewals + 1
  /\ UNCHANGED <<allowed, faults>>

BudgetTypeOK ==
  /\ allowed \in FaultScenarios
  /\ faults \in 0 .. MaxFaults
  /\ renewals \in 0 .. MaxRenewals

BudgetInit ==
  /\ allowed \in FaultScenarios
  /\ faults = 0
  /\ renewals = 0
=============================================================================
