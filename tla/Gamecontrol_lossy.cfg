SPECIFICATION FairSpec
CONSTANTS
  Wrap = 4
  Always = 1
  MaxAge = 1
  MaxGap = 1
  Contents <- GameOrPenalty
  Roles = {role}
  Writable <- DebuggerWrites
INVARIANTS TypeOK NewsIsAccepted
PROPERTY ComesToAgree
