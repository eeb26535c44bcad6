CONSTANTS
    realm = realm
    vm = vm
    hostA = hostA
    hostB = hostB
    Resource = {realm, vm}
    Target = {hostA, hostB}
    Configs <- MCConfigs
SPECIFICATION Spec
INVARIANTS
    IInv
    ReportIsWhole
PROPERTIES
    KeepsSchedule
    RunEnds
