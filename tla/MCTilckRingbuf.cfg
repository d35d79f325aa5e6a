SPECIFICATION FairSpec
CONSTANTS
  max_elems = 2
  Parts = 2
  Val = {v1, v2}
  Depth = 3
INVARIANTS TypeOK PlacesApart
PROPERTIES ImplementsRingQueue CallsReturn
