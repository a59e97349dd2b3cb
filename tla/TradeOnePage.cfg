\* One request of the upgrades or the price page.
SPECIFICATION Spec
CONSTANTS
  h1 = h1
  Handlers = {h1}
  Slots = 3
  MaxFetch = 2
  MaxListings = 3
  Matches = {0, 1, 2, 3, 4}
INVARIANTS RequestBound WholeAnswers ExpiryIsTold
