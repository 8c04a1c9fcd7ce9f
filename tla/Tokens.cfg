\* Two commands and two boots of the agent; up to three processes overlap.
CONSTANTS
  Commands = {c1, c2}
  Agents = {a1, a2}
  Preset = Preset
  None = None
  MaxAtWork = 3
SPECIFICATION Spec
INVARIANTS
  TypeOK
  OneAgentId
  HashAndDateAgree
  LabelAgrees
PROPERTIES
  CommandsTakeEffect
  IdentitySpec
  AloneOnlyForceReplaces
  BootsWithItsToken
SYMMETRY Symmetry
\* Every process has ended.
CHECK_DEADLOCK FALSE
