\* One browser with two sessions and two requests in flight, and one that guesses.
SPECIFICATION Spec
CONSTANTS
  b1 = b1 c1 = c1 i1 = i1 i2 = i2 h1 = h1 g1 = g1 None = None
  Browsers = {b1}
  Ids = {i1, i2}
  Clients = {c1}
  Keys = {h1}
  Values = {g1}
  Guessers = {c1}
  Expiry = 1
  MaxFailures = 1
  Lockout = 1
  MaxRequests = 2
  MaxRestarts = 1
INVARIANTS TypeOK GuessesAreSlow SessionsHoldUntilLogout
PROPERTIES LockoutsEnd NoEditAfterLogout
