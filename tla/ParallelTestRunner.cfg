SPECIFICATION Spec
CONSTANTS
    Workers = {w1, w2}
    RootTests = {r1, r2}
    SuiteTests = {t1, t2, t3}
    MaxFailures = 1
INVARIANTS
    TypeOK
    EachTestOnce
    DistributionNeverBlocks
    NoTestAbandoned
PROPERTIES
    CampaignEnds
    ImplementsCampaign
