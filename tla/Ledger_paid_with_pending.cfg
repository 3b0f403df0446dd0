CONSTANTS
  e1 = e1
  s1 = s1
  s2 = s2
  s3 = s3
  a1 = a1
  a2 = a2
  a2b = a2b
  a3 = a3
  a4 = a4
  a5 = a5
  c1 = c1
  c2 = c2
  c3 = c3
  c4 = c4
  c5 = c5
  c6 = c6
  p1 = p1
  p2 = p2
  NoEvent = NoEvent
  NoCharacter = NoCharacter
  NoClaim = NoClaim
  Event = {e1}
  Settlement = {s1}
  Allocation = {a1}
  Claim = {c1, c2}
  Character = {p1}
  EventOf <- MCEventOf
  SettlementOf <- MCSettlementOf
  CharacterOf <- MCCharacterOf
  AllocationOf <- MCAllocationOf
SPECIFICATION Spec
INVARIANTS
  PaidHasNoPendingShare
CHECK_DEADLOCK FALSE
