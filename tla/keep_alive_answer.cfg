SPECIFICATION Spec
CONSTANT Setups <- KeepAliveSetups
PROPERTIES AnswersStayWithTheirPacket
