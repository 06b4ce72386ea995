SPECIFICATION Spec
CONSTANTS
  Items <- MCItems
  Threads = {shell, udp}
  Default = default
  Custom = custom
  Invalid = invalid
  Touched = {"boot_mode", "wifi_cmd_port"}
  MaxCalls = 3
  MaxFaults = 2
SYMMETRY Symmetry
INVARIANTS
  TypeOK
  ConfigKept
  CutShortIsPrefix
  TargetWhole
CHECK_DEADLOCK FALSE
