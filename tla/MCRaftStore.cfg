\* Compaction above two lines; every death, at every write.
SPECIFICATION Spec
CONSTANTS
    Candidate = {n1}
    None = None
    Event <- TwoEvents
    MaxLogEntries = 2
    MaxTerm = 1
    MaxIndex = 5
INVARIANTS AnswersAreDurable
 
