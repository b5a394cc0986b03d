CONSTANTS
    Dirs <- MCDirs
    Paths <- MCPaths
    Devs <- MCDevs
    RootDev = 1
    FsIds <- MCFsIds
    MaxMtabOps = 4
    HostOf <- MCHostOf
    Resolve <- MCResolve
    HostIds <- MCHostIds
    Null = Null
    ImplIds = {i1, i2}
    SuperUserId = su
    UntrustedId = ut
    Untrusted <- MCUntrusted
    ClientsOf <- MCClientsOf
    MaxRequest = 3
SYMMETRY MCImplSymmetry
SPECIFICATION Spec
INVARIANTS TypeOK TablesSound InterestsAttached TableMirrorsMounts HostRefsSound CredsInterned EffectiveIdentity RequestsRouted
