CONSTANT
  Setups <- MCSetups
SPECIFICATION Spec
INVARIANTS OncePerPoint ScratchReady StorageSound
CHECK_DEADLOCK FALSE
