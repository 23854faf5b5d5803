SPECIFICATION Spec
CONSTANTS
  Positions = {281, 292, 303, 314}
  MaxStep = 22
  Centered = TRUE
  RnboValues = {475, 541}
  MaxLag = 1
INVARIANTS TypeOK HintLeadsThere
PROPERTIES NoJump SweepPicksUp OwnValueHoldsNot StartupCompletes SigintIsObeyed
