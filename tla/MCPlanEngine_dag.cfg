CONSTANT
    Plans <- GraphPlans
SPECIFICATION FairSpec
PROPERTIES
    AcyclicPlansTerminate
CHECK_DEADLOCK FALSE
