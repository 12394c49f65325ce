SPECIFICATION Spec
CONSTANTS
  Callers = {c1, c2}
  OpenAI = {openai}
  Anthropic = {anthropic}
  Threshold = 2
  None = None
INVARIANTS
PROPERTIES
  OpenUntilCool
  NoRequestWhileCooling
  AnthropicTriedAgain
