CONSTANTS
  Commands = {c1, c2}
  Agents = {}
  Preset = Preset
  None = None
  MaxAtWork = 2
SPECIFICATION Spec
PROPERTY OnlyForceReplaces
CHECK_DEADLOCK FALSE
