\* Texts of up to six characters; the note costs more than one character.
SPECIFICATION FairSpec
CONSTANTS
  Texts <- MCTexts
  Frame = 2
  Note = 4
  Limit = 14
PROPERTY ReportIsBuilt
CHECK_DEADLOCK FALSE
