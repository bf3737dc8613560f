CONSTANTS
  MaxChunks = 2
  MaxInputs = 3
  RingCap = 1
  SockCap = 1
  QueueCap = 1
  FrameCap = 1
SPECIFICATION Spec
INVARIANTS
  TypeOK
  InputsInOrder
PROPERTIES
  ExitEndsAttachment
  ReturnsUnlessStuck
  AttachmentSpec
CHECK_DEADLOCK FALSE
