SPECIFICATION Spec
CONSTANTS
  Cidrs <- MCCidrs
  MaxHosts = 4
INVARIANTS AutosCountDown AutosUsable HackMatchesSecondHost
CHECK_DEADLOCK FALSE
