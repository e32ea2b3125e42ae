SPECIFICATION CallsSpec
CONSTANTS
    t1 = t1
    Traces = {t1}
    NoTrace = NoTrace
    HistoryLimit = 2
    Conditions <- MCConditions
    TargetSetting = 0
    PatternSetting = 100
    Calls = {1, 2, 3}
    MaxThreads = 2
    MaxFaults = 1
    Requests <- MCRequests
    Registrable = {"file_write"}
    Setups <- MCSetups
    Questions <- MCQuestions
    Answers <- MCAnswers
INVARIANTS
    
    
    RepeatedRiskEscalates
    LoadedPolicyDecides
CHECK_DEADLOCK FALSE
