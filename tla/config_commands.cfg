SPECIFICATION Spec
CONSTANTS
  Unset = Unset
  Refused = Refused
  DefaultRegistry = "default"
  Images = {"main", "collector"}
  PrinterColumns = 2
  Lines <- MCLines
  Hosts <- MCHosts
  Sources <- MCSources
  Legacy <- MCLegacy
  Namespaces = {"acs-central", "acs-sensor", "stackrox"}
  MaxCommands = 3
  MaxFaults = 1
INVARIANTS
  LineTakesEffect
  RedeployKeepsConfig
  OperandImagesAreCurrent
  SensorWiredAnew
  PodsCanPull
  CredentialsDecidedOnce
  PreloadCoversPlan
CHECK_DEADLOCK FALSE
