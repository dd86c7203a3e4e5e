SPECIFICATION AnySpec
CONSTANTS
  wound = wound
  secret = secret
  hurt = hurt
  tell = tell
  act = act
  flat = flat
  vague = vague
  heal = heal
  unsay = unsay
  Sessions = {s1, s2}
  Facts = {wound, secret}
  Baseline = {wound}
  Texts = {hurt, tell, act, flat, vague, heal, unsay}
  Effect <- Scenarios
  Healing <- Healings
  Written = {hurt, flat}
  MaxOrdinal = 1
  MaxRevision = 3
  Forcing = {FALSE}
INVARIANTS
  RevisionsContiguous
PROPERTIES
  AcceptedSound
  RevisionTakesEffect
SYMMETRY SessionSymmetry
