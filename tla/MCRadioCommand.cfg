SPECIFICATION Spec
CONSTANTS
  Commands = {"idle", "both", "wifi", "ble_off"}
  Delays = {2}
  SelfStop = 1
  MaxTime = 4
  MaxCommands = 3
INVARIANTS
  RadiosAsAsked
  BleAnswersFirst
  LonePromiseKept
CHECK_DEADLOCK FALSE
