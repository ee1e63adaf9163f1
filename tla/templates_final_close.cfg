SPECIFICATION OverlaySpec
CONSTANTS
  Candles <- ShapeCandles
  Layers <- StoppedLayers
  Capital = 1000
  LastBar = 5
INVARIANT EndsAtTheLastClose
CHECK_DEADLOCK FALSE
