CONSTANTS
  absent = absent  x = x  y = y
  N = 3
  Images <- ThreeImages
  Platforms = {"unix", "windows"}
  Sources = {"terminal", "console", "pipe"}
  Processes = {p1, p2}
  Temporaries = {t1, t2}
  MaxChanges = 2
  MaxFaults = 1
SPECIFICATION LoginSpec
INVARIANTS Progress BrokerInv PromptInv StoreInv
PROPERTIES PlanIsTransaction ClearsAll EveryPartEnds
\* A plan, an acquisition and a prompt end.
CHECK_DEADLOCK FALSE
