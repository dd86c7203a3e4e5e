SPECIFICATION MCSpec
CONSTANTS

  wound = wound
  secret = secret
  hurt = hurt
  tell = tell
  act = act
  flat = flat
  vague = vague
  heal = heal
  unsay = unsay
  Sessions = {s1,s2}
  Facts = {wound, secret}
  Baseline = {wound, secret}
  Texts = {hurt, tell, act, flat, vague, heal, unsay}
  Effect <- Scenarios
  Healing <- Healings
  Written = {act, flat}
  MaxOrdinal = 2
  MaxRevision = 2
  Forcing = {FALSE, TRUE}
INVARIANTS
  ReplayIsLastWord
PROPERTIES
  SupportLost

SYMMETRY SessionSymmetry
