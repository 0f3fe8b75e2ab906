SPECIFICATION FairSpec
CONSTANTS
    p1 = p1
    p2 = p2
    web = web
    db = db
    gone = gone
    amd64 = amd64
    arm64 = arm64
    Nil = Nil
    Pods <- TwoPods
    Images <- AllImages
    Archs <- AllArchs
    DefaultArch = amd64
    PodImages <- SharedImage
    NodeArchs <- AllArchs
    Registry <- MCRegistry
    Keyword <- MCKeyword
    InitialKeys <- FreshOnly
    ImportList <- MCImport
    MaxImports = 0
    MaxFaults = 0
    MaxEntries = 8
PROPERTIES
    EventuallyPlaced
