SPECIFICATION FairSpec
CONSTANT Setups <- OtherSetups
INVARIANTS ReadyMeansQuiet ConfirmedWasAccepted
PROPERTIES FaultIsSticky SilentUnlessReady PairedAnswersStay OperationEnds
