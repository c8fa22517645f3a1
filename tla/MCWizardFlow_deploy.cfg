SPECIFICATION FairSpec
CONSTANTS
    type = type
    deploy = deploy
    sync = sync
    paramsA = paramsA
    paramsB = paramsB
    choice = choice
    deployParam = deployParam
    syncParam = syncParam
    template = template
    parameters = parameters
    source = source
    region = region
    stack = stack
    bucket = bucket
    code = code
    flags = flags
    x = x
    y = y
    deployIt = deployIt
    syncIt = syncIt
    A = A
    B = B
    Wizard <- Wizards
    Root = type
    Prop <- Props
    Answer = {deployIt, syncIt, A, B, Filled}
    None = None
    Filled = Filled
    Exit = Exit
    Form <- Forms
    Given <- NoneGiven
    InOrder <- OrderOf
    Shows <- ShowWhen
    Deferred = {parameters}
    Offers <- Options
    Silent = {stack}
    Nests = {deployParam, syncParam, parameters}
    Child <- ChildOf
    Confirms = {type, paramsA}
INVARIANTS TypeOK StepsFit
PROPERTIES BackRestores ForwardEnds
CHECK_DEADLOCK FALSE
