\* Four tabs against three connections and three threads: both limits are reached, and
\* the tabs can wait for each other in a ring.
CONSTANTS
    p1 = p1
    p2 = p2
    f1 = f1
    r1 = r1
    Pages <- MCPages
    Posts <- MCPosts
    Panels <- MCPanels
    PoolSize = 3
    Threads = 3
SPECIFICATION Spec
INVARIANTS
    NothingLeaks
    GridlockTakesThePool
PROPERTIES
    EveryRequestAnswered
