\* Three processes, four frames, one retry per request.
SPECIFICATION Spec
CONSTANTS
  Nonce = {n1, n2, n3, n4}
  Retries = 1
  MaxFrames = 4
  MaxProcesses = 3
  None = None
SYMMETRY NonceSymmetry
INVARIANTS
  TypeOK
  OnlyCurrentAnswers
  RetrySupersedes
