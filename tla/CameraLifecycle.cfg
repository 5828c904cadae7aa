\* Three initialisations with every step failing at will.
SPECIFICATION Spec
CONSTANTS
  Faults = {"newCamera", "controlPort", "format", "cameraPool", "newEncoder",
            "setUpEncoder", "encoderPool", "connect", "enableConnection"}
  MaxInits = 3
INVARIANTS
  TypeOK
  InitializedComplete
  DestroyedOnce
  CleanFailure
  SettingsApplied
  OpensAreSafe
CHECK_DEADLOCK FALSE
