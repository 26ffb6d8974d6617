CONSTANTS
  Endpoint = {"unset", "configured"}
  Env = {"unset", "environment"}
  Scraper = {c1}
  Parts = 2
  MaxCycles = 1
SPECIFICATION Spec
INVARIANT PushesToEndpoint
CHECK_DEADLOCK FALSE
