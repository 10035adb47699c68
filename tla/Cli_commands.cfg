SPECIFICATION Spec
CONSTANTS
    CommandLine <- Lines
    SizeText <- Sizes
    PortText <- Ports
    Kilo = 4
    SizeMod = 1024
    PortMod = 65536
INVARIANTS
    TypeOK
    SeparatedFormWorks
    ExitSound
