\* Two calls of translate(), two clipboard writes at a time.
SPECIFICATION FairSpec
CONSTANTS
  Calls = {1, 2}
  Inputs = {"", "hola", "saqarik"}
  Empty = ""
  Submittable = {"hola", "saqarik"}
  TranslationOf <- MCTranslationOf
  HttpCodes = {422, 504}
  MaxCopies = 2
  None = None
INVARIANTS TypeOK OneInFlight PageMatchesRequest ShownTranslationIsGenuine CopyFeedbackReverts
PROPERTY SpinnerStops
CHECK_DEADLOCK FALSE
