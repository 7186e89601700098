SPECIFICATION SysSpec
CONSTANTS
    Good <- MCGood
    Bad = {9}
    HostFs = 1
    HostGs = 2
    RegFiles <- MCRegFiles
INVARIANTS TypeOK HostTls GuestTls KernelSeesGuest SameCall
