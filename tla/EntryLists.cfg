SPECIFICATION SearchSpec
CONSTANTS
  A = A
  B = B
  Types = {A, B}
  AllTypes = AllTypes
  TypeOf <- MCTypeOf
  Entries = {1, 2, 3}
  PerPage = 1
  HitLists <- MCHitLists
  Starts <- MCStarts
  MaxTime = 3
  MaxInFlight = 2
  FieldsOf <- MCFieldsOf
  Options <- MCOptions
  Typed = {"x", "7"}
  NumberOf <- MCNumberOf
  Days <- MCDays
  DayMs <- MCDayMs
  Iso <- MCIso
  EpochOf <- MCEpochOf
  MonthOf <- MCMonthOf
  Within <- MCWithin
  Leads <- MCLeads
  TitleOf <- MCTitleOf
  PickedDays = {30}
  Today <- MCToday
  Samples <- MCSamples
CHECK_DEADLOCK FALSE
INVARIANTS
  WalkSeesEveryStillRow
  SettledPageIsCurrent
  TickedRowsAreOnScreen
  ChipsMeanWhatTheySay
