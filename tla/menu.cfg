SPECIFICATION Spec
CONSTANTS
  Debounce = 1
  LongPress = 2
  Repeat = 1
  Late = 1
  MaxDown = 1
  Items <- MCItems
  Root = "root"
  Kind <- MCKind
  Submenu <- MCSubmenu
  Rows <- MCRows
  Checked <- MCChecked
  Shows <- MCShows
  Visible = 2
  ValueMax = 1
  Step = 1
INVARIANTS
  TypeOK
  MenuWellFormed
  DialogIsTheItems
  OneStepPerPress
PROPERTIES
  CancelRestores
  ChangesAreMarked
