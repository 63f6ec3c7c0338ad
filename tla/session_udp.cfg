SPECIFICATION Spec
CONSTANT Setups <- UdpSetups
INVARIANTS TypeOK CompletedWasAccepted AcceptedOnceInOrder RejectionLeavesNothing ReplyBelongsToRequest ReceiptMatchesWire
PROPERTIES ImplementsContract
