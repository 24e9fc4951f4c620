\* One client, two PWM values, a BMC reset and a dropped session.
CONSTANTS
  None = None
  Host = {"east"}
  Fan = {0}
  Speeds = {50}
  FaultKinds = {"unsent", "unanswered"}
  MaxFaults = 1
  MaxRestarts = 1
  Me <- EastClient
  Raws = {28, 178}
SPECIFICATION FairSpec
INVARIANTS
  SessionTypeOK
  AnswersBelongToTheirCommand
  NoConnectionLeaks
PROPERTIES
  ClientCallsAreAtomic
  CommandsReturn
