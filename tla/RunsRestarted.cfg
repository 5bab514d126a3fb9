\* One service, clocks that do not jump, saves that succeed: is a service that ended started again?
SPECIFICATION FairSpec
CONSTANTS
  Services = {"worker"}
  Pids = {1, 2}
  GiveUp = 2
  MaxDeaths = 1
  SavesFail = FALSE
  Jumps = FALSE
  Strangers = FALSE
PROPERTIES Restarted
CHECK_DEADLOCK FALSE
