SPECIFICATION Spec
CONSTANTS
  EditedKeys = {"ref", "method", "window", "port", "host", "url", "disablePerMessageDeflate", "perMessageDeflate", "clientMaxWindowBits"}
  MaxEdits = 3
CHECK_DEADLOCK FALSE
INVARIANTS
  TypeOK
  RoundTrip
PROPERTY
  NothingUndone
