SPECIFICATION Spec
CONSTANTS
  MaxFades = 2
  Env = {"between"}
INVARIANTS RestsAsAsked OpensAtHome
PROPERTIES ClickCloses GraceIsGiven LostFocusCloses
