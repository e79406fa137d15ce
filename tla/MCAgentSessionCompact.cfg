SPECIFICATION Spec
CONSTANTS
  MaxInputs = 2
  Notes = {n1}
INVARIANT QueuedIsPending
