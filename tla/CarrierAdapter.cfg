CONSTANTS ConfiguredRetries = 2
  MaxValidity = 6
  MaxDuration = 7
  Second = 3
  DefaultValidFor = 5
SPECIFICATION AdapterSpec
INVARIANTS AdapterTypeOK FinalAnswerIsLast GivesUpForCause CancelHonoured QuoteSound
PROPERTIES AdapterReturns
