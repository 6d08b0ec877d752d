SPECIFICATION KeySpec
CONSTANTS
  Debounce = 2
  LongPress = 3
  Repeat = 2
  Late = 2
  MaxDown = 2
PROPERTIES
  NoEventOverwritten
  EventsArePaired
  HeldKeyRepeats
