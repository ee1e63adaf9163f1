SPECIFICATION EventsSpec
CONSTANTS
  Candles <- ShapeCandles
  Layers <- RunLayers
  Capital = 1000
  LastBar = 3
INVARIANT MacroReasonsAreTheExits
CHECK_DEADLOCK FALSE
