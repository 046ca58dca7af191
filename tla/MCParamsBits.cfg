SPECIFICATION Spec
CONSTANTS
  EditedKeys = {"perMessageDeflate", "clientMaxWindowBits", "serverMaxWindowBits"}
  MaxEdits = 3
CHECK_DEADLOCK FALSE
INVARIANT
  BitsAsGiven
