CONSTANTS
    download = download
    installKey = installKey
    writeRepoConfig = writeRepoConfig
    ensurePkg = ensurePkg
    Op = {download, installKey, writeRepoConfig, ensurePkg}
    Graphs <- PkgGraphs
SPECIFICATION Spec
INVARIANT KeyBeforePackages
