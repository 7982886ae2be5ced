SPECIFICATION FairSpec
CONSTANTS
  l1 = l1 l2 = l2 d3 = d3 d4 = d4 None = None
  Command = {1, 2}
  Loco = {l1}
  Number = {1}
  Address = {d3, d4}
  MaxOutstanding = 1
  FirstAddress = d3
  MaxMail = 1
  Scenarios <- ConsoleScenarios
INVARIANT PendingHeld
INVARIANT ButtonsLocked
INVARIANT SlotsExact
 
PROPERTY PromiseKept
PROPERTY ClicksEnd
CHECK_DEADLOCK FALSE
