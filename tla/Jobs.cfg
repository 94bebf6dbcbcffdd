CONSTANTS
    a = a
    b = b
    long = long
    Texts <- SmallTexts
    Hash <- SmallHash
    Modes = {"word_count", "inverted_index", "other"}
    MaxReducers = 2
    MaxJobs = 2
    MaxFailures = 2

SPECIFICATION Spec

\* The last job ends.
CHECK_DEADLOCK FALSE


    
    

PROPERTIES
    JobEnds
