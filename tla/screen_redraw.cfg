SPECIFICATION ScreenSpec
CONSTANTS
  Segs = 3
  f1 = f1
  p1 = p1
  w1 = w1
  Images <- MCImages
  Pages <- MCPages
  Welcome = w1
  Blank = Blank
  Local = Local
  None = None
  DispLen = 4
  Retries = 1
  Pending = 3
  Load = 2
PROPERTY RedrawShowsWholeImage
