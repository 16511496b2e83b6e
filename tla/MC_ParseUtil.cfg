CONSTANTS
  NULL = NULL
  NumberTexts <- MCNumberTexts
  WordTexts <- MCWordTexts
SPECIFICATION Spec
INVARIANT ParseBooleanMatchesSpec ParseUint16AgreesWithSpecOutsideBase0
