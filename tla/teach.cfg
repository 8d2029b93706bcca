\* A question at two levels with crashes, then with lost publishes; then odd requests.
SPECIFICATION FairSpec
CONSTANTS
  s1 = s1
  s2 = s2
  q1 = q1
  q2 = q2
  Sid = {s1, s2, none}
  NoSid = none
  Text <- MCText
  Empty = empty
  Blanks = blank
  Raw = raw
  Revised = revised
  Canned = canned
  MaxMessages = 3
  TTL = 0
  Ask <- MCAsk
  Worlds <- MCWorlds
  MaxTokens = 1
  MaxTime = 1
  MaxCrashes = 1
  NoTask = NoTask
CHECK_DEADLOCK FALSE
INVARIANTS StreamEndsFirst CallBudget RememberedIsDelivered
PROPERTY Completed
