SPECIFICATION ScreenSpec
CONSTANTS
  Segs = 2
  f1 = f1
  p1 = p1
  w1 = w1
  Images <- MCImages
  Pages <- MCPages
  Welcome = w1
  Blank = Blank
  Local = Local
  None = None
  DispLen = 4
  Retries = 1
  Pending = 2
  Load = 2
INVARIANTS ScreenTypeOK MenuHoldsScreen LocalShowsText
PROPERTY MenuLeavesScreen
