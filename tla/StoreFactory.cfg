\* Three requests for three stores, of which two may be open: a cache that is full
\* of stores in use, evictions, and a request that waits for another one's open.
CONSTANTS
  Requests = {p1, p2, p3}
  StoreKeys = {k1, k2, k3}
  MaxOpen = 2
SPECIFICATION FairSpec
INVARIANTS InUseOpen HandlesBounded CreateNeverNotFound
PROPERTIES LendsStores WaitersWoken ClosesDown
