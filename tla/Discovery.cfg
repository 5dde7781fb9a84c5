SPECIFICATION FairSpec
CONSTANTS
  NoKey = NoKey
  Keys <- HomeKeys
  Optional <- HomeOptional
  Directories <- HomeDirectories
  Refs <- HomeRefs
  Info <- HomeInfo
  UuidKey = "uuid"
  BusKey = "bus"
  IdKey = "id"
  FirmwareKey = "firmware"
  OnCan = FALSE
  Gateways <- AllGateways
  Types <- HomeTypes
  TypesOf <- HomeTypesOf
  DirectoryOf <- HomeDirectoryOf
  StyleOf <- HomeStyleOf
  StatusOf <- HomeStatusOf
  NameOf <- HomeNameOf
  SwitchesOf <- HomeSwitchesOf
  Inactive <- HomeInactive
  CrawlRoots <- HomeRoots
  SensorName <- HomeSensorName
  Entries <- HomeEntries
  Numbers <- HomeNumbers
  Selects <- HomeSelects
INVARIANTS
  IdentityNotMissing
  CircuitsNotMissing
  CleanDiscovery
PROPERTIES
  DiscoveryReturns
