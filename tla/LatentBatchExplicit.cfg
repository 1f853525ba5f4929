SPECIFICATION Spec
CONSTANTS
  word = word
  think = think
  eos = eos
  Token <- MCToken
  Prompt <- GroupPrompt
  LatentEnd = think
  Eos = eos
  MaxNew <- GroupMaxNew
  Pool = 10
  Ratios = {0, 100}
  RetractSteps = 8
  ReturnLogprob = TRUE
INVARIANTS
  ExplicitIsSampledExplicit
