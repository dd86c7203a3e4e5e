SPECIFICATION AnySpec
CONSTANTS
  wound = wound
  secret = secret
  hurt = hurt
  tell = tell
  act = act
  flat = flat
  vague = vague
  heal = heal
  unsay = unsay
  Sessions = {s1}
  Facts = {wound, secret}
  Baseline = {wound}
  Texts = {hurt, tell, act, flat, vague, heal, unsay}
  Effect <- Scenarios
  Healing <- Healings
  Written = {hurt}
  MaxOrdinal = 1
  MaxRevision = 1
  Forcing = {FALSE}
PROPERTIES
  RejectedStaysOut
