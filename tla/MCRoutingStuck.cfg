SPECIFICATION Spec
CONSTANTS
  Callers = {c1}
  OpenAI = {openai}
  Anthropic = {anthropic}
  Threshold = 1
  None = None
PROPERTY
  EveryProviderTriedAgain
