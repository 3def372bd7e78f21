SPECIFICATION Spec
CONSTANTS
  j = j
  k = k
  Calls <- MCCalls
  MaxClients = 2
  MaxFaults = 2
SYMMETRY MCSymmetry
INVARIANTS
  TypeOK
  NoWaiterLeft
  Truthful
PROPERTIES
  AnswerIsFinal
