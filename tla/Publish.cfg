\* The object is connected twice and publishes two messages.  The program may be
\* through with the object, and then the model stops.
SPECIFICATION PublishSpec
CONSTANTS
  ClientLimits <- LoginAsUser
  ServerLimits <- Brokers
  InitialFrameMax = 16
  MethodSize = 12
  MayFail = {"memory", "write"}
  MaxConnects = 2
  MaxPushes = 1
  MaxCloses = 1
  Messages <- Bodies
  MaxPublishes = 2
INVARIANTS
  PublishTypeOK
  LoginAgrees
  AbortsForCause
  ForeignOnlyOnceClosed
  FramesFitBothSides
  MessagesArriveWhole
PROPERTY
  QueueSpec
CHECK_DEADLOCK FALSE
