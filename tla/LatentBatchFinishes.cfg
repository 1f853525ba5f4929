SPECIFICATION Spec
CONSTANTS
  word = word
  think = think
  eos = eos
  Token <- MCToken
  Prompt <- CallPrompt
  LatentEnd = think
  Eos = eos
  MaxNew <- CallMaxNew
  Pool = 10
  Ratios = {0, 100}
  RetractSteps = 8
  ReturnLogprob = FALSE
PROPERTIES
  EveryRequestFinishes
