\* What enginecontrol.hpp says of waitReady.
CONSTANTS
    hash = hash
    threads = threads
    Options = {hash}
    MaxSets = 2
    MaxGos = 2
SPECIFICATION Spec
PROPERTY
    ReadyMeansOptionsSet
