SPECIFICATION MaskSpec
CONSTANTS
  GridWidths <- MCWidths
  GridHeights <- MCHeights
INVARIANT InBounds IsComb SourcesOnPlate
CHECK_DEADLOCK FALSE
