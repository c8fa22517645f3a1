SPECIFICATION FairSpec
CONSTANTS
    Conn = {i1, i2}
    Smus = {i2}
    Call = {c1, c2}
    Patient = TRUE
    None = None
INVARIANTS TypeOK OneLogin OnePrompt PromptIsNeeded  
PROPERTY NoResurrection CallsEnd
