SPECIFICATION Spec
CONSTANTS
  Devices <- MCDevices
  Keys <- MCKeys
  Files <- MCFiles
  Names <- MCNames
  DeviceOf <- MCDeviceOf
  Specs <- MCSpecs
  Netconf <- MCNetconf
  Creds <- MCCreds
  NoCred = none
  Window = 2
  Layouts <- MCLayouts
  EditLines <- MCEditLines
  Bounds <- MCBounds
INVARIANTS
  SessionsAreTrusted
PROPERTIES
  ReuseIsTimely
  MismatchSparesCredentials
  RefreshKeepsOthers
  ClosedTerminalEnds
