SPECIFICATION Spec
CONSTANTS
  kStream <- MCStream
  Calls <- MCCalls
  MaxEpoch = 3
  TextWidth <- MCTextWidth
  LineHeight = 3
  kBlockPaddingX = 1
  kBlockPaddingY = 1
  kHorizontalSpacing = 2
  kVerticalSpacing = 3
  cellW_ = 2
  cellH_ = 2
  gutterW_ = 3
  kMargin = 1
  cols_ = 2
  Sessions <- MCSessions
  kRows = 2
  MaxBreakpoints = 2
  HiddenSize <- MCHiddenSize
INVARIANTS
  MarksExact ListedStops RedIsReal LayoutSound NavigationVisible ClickedIsPainted 
CHECK_DEADLOCK FALSE
