SPECIFICATION LookupSpec
CONSTANTS
    t1 = t1  t2 = t2
    Answers <- MCAnswers
    Classes <- MCClasses
    Student = "pupil"
    GridLimit = 1
    ToiletIds = {t1, t2}
    Mappings <- MCMappings
    None = None
INVARIANTS
    AsDescribed
    ComputersCovered
CHECK_DEADLOCK FALSE
