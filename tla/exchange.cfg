\* Every backend and every fault; two retries, three replicas.
SPECIFICATION Spec
CONSTANTS
  Declined = Declined
  MaxNonce = 5
  Requests <- ManyRequests
  Answer <- ManyAnswers
  Prompts <- PromptsWithMarkers
  Devices = {0}
  BackendNames = {"callback", "mux", "noisy", "manual", "claude", "independent"}
  MaxHttpRetries = 1
CONSTRAINT FewCalls
INVARIANTS
  FaultsAreNamed
  AcceptedIsElected
  MinorityIsRepaired
  CallsAreBounded
  RequestIsNoReply
