SPECIFICATION ColdSpec
CONSTANTS
  a = a
  b = b
  NoKey = NoKey
  NoProgram = NoProgram
  NoTime = NoTime
  NoTemp = NoTemp
  SwitchPoints <- WeekPoints
  MinuteOf <- WeekDates
  Dates = {"friday"}
  Degrees = {"20", "22"}
  Settable = {"22"}
  Keys <- ScheduleKeys
  Domain <- ScheduleDomain
  ActiveKey = "active"
  ModeKey = "mode"
  ClockKey = "clock"
  Programs <- TwoPrograms
  Levels <- ScheduleLevels
  OffLevel = "off"
  OnLevel = "on"
  HighLevel = "high"
  Week = 6
  DefaultMode = "levels"
  Tasks <- TwoTasks
  OwnerKeys <- Nothing
  MaxChanges = 0
  MaxRetries = 0
VIEW WithoutStale
INVARIANTS
  LevelsKnown
  ActiveIsLatest
PROPERTIES
  ScheduleReturns
