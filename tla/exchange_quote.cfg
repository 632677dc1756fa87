\* A prompt whose REPLY marker stands behind a separator that is no newline.
SPECIFICATION Spec
CONSTANTS
  Declined = Declined
  MaxNonce = 5
  Requests <- ManyRequests
  Answer <- ManyAnswers
  Prompts <- PromptsWithMarkers
  Devices = {0}
  BackendNames = {"callback"}
  MaxHttpRetries = 1
CONSTRAINT FewCalls
INVARIANT PromptIsNoReply
