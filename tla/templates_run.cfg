SPECIFICATION TemplatesSpec
CONSTANTS
  Candles <- ShapeCandles
  Layers <- RunLayers
  Capital = 1000
  LastBar = 3
INVARIANTS
  ProtectionHolds
  ExitsArePaidAsNamed
  RunsAddUp
  GroupsStayWhole
  PositionsFollowTheirLevel
  PatternsAreSound
  EventsAreTold
PROPERTY SignalsAreEarned
CHECK_DEADLOCK FALSE
