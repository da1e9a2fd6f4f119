SPECIFICATION Spec
CONSTANTS
  Displays <- MCDisplays
  Dim <- MCDim
  NameLen <- MCNameLen
INVARIANT StaysOnScreen NoResidue CursorShown
