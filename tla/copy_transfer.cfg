SPECIFICATION FairSpec
CONSTANTS
    HeadLen = 2
    Size = 3
    FileLen = 3
    Chunk = 2
    MaxTyped = 2
    MaxOut = 2
CHECK_DEADLOCK FALSE
INVARIANT ParentSeesNoFile
INVARIANT GoIsLast
 
 
 
PROPERTY DoneArrives
