SPECIFICATION FairSpec
CONSTANTS
  Files <- MCFiles
  Usize = 65536
  SafeRows = 10
  Int32 = 21000
  Int64 = 250000
  SecsPerDay = 10
  MinNow = 178115
  Clocks <- MCClocks
  Randoms = {0, 10, 57870}
  Half = 512
  EpochDiff = 1000
  TicksPerSec = 10
  TimeC1 = 7
  TimeC2 = 3
  TimeC3 = 11
  LastTick = 262143
  CommandLines <- MCCommandLines
  Number <- MCNumber
  Chars <- MCChars
  NoOption <- MCNoOption
  Byte = 8
  U16 = 2
  U32 = 3
  GuidSize = 2
  NameLength = 3
  PidLength = 4
  MachineIds = {41, 63}
  ClientClocks = {0, 51, 26000}
  LicenseStatus = 2
  BindingExpiration = 432
  ActivationInterval = 120
  RenewalInterval = 500
  DefaultPolicy = 25
  MacSize = 2
  Mac <- MCMac
INVARIANTS TypeOK CutFileRefused DateIsCalendar EpidPlausible
INVARIANTS RequestArrives CommandLineRead ShownIsProduct TimeArrives
PROPERTY StartEnds
