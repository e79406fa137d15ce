SPECIFICATION Spec
CONSTANTS
  MaxInputs = 2
  Notes = {n1}
INVARIANTS TypeOK NoRedelivery NothingLost OneHolder
PROPERTIES DrainNeedsConsent OrderKept StopEndsWork UrgentHandled
