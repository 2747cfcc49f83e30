CONSTANTS
    Hosts = {h1, h2}
    Listeners = {l1, l2, l3}
    Nothing = Nothing
SPECIFICATION PoolFairSpec
INVARIANT EntriesLive
PROPERTY ListensAgain
