SPECIFICATION Spec
CONSTANT Setups <- ProbingSetups
INVARIANTS TimeoutFaultsSession
