SPECIFICATION Spec
CONSTANTS
  Keys = {"lshift", "rctrl", "capslock", "up", "left", "x", "enter", "keypad4"}
  WireLen = 3
  Garbage = {0}
INVARIANTS
  NoStuckModifier
  SpecialCodesAsDocumented
