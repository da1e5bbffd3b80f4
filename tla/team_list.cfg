SPECIFICATION Spec
CONSTANTS
  ana = ana
  bob = bob
  Users = {ana,bob}
  Codes = {k1,k2}
  Names <- SomeNames
  NameOf <- FirstName
  Head <- BeforeComma
  Behind <- AfterComma
  MaxUses = 1
  MaxFails = 2
  Window = 1
  Validity = 1
  MaxClock = 2
  MaxFaults = 1
  MaxCrashes = 2
INVARIANTS
  TypeOK
  NewsIsDurable
  OnlyInvited
  InviteBound
  GuessRate
PROPERTIES
  OnlyLeaversDropped
