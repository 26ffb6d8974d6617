\* Up to two swaps fall before or inside a scrape; two samples tell a scrape
\* of one snapshot from a mixed one.  A process without an OTLP endpoint runs
\* like one whose exporter cannot be made, which this one may be.
CONSTANTS
  Endpoint = {"configured"}
  Env = {"unset", "environment"}
  Scraper = {c1}
  Parts = 2
  MaxCycles = 2
SPECIFICATION FairSpec
INVARIANTS TypeOK OneFreshSnapshot HealthNeverAhead FlushedLast
PROPERTIES EndsWhenCancelled ScrapesNeverWait HangupAnswered OutageOverDelivered
\* The process ends.
CHECK_DEADLOCK FALSE
