\* Tokens reported, told and expired over two connections and a close.
SPECIFICATION FairSpec
CONSTANTS
    ReportMax = 2
    NotifyMax = 3
    IdMod = 4
    Wraps = "no"
    MaxConnects = 2
    MaxAnswers = 2
    MaxCloses = 1
INVARIANT NoMulticastIsLeft
PROPERTIES NotifiedTokenWasReported RequestIsAnswered
CHECK_DEADLOCK FALSE
