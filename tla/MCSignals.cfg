SPECIFICATION SigSpec
CONSTANTS
    Lo <- MCLo
    Hi <- MCHi
    Cell <- MCCell
    Kind <- MCKind
    Arg <- MCArg
    Word <- MCWord
    SysRet <- MCSysRet
    KData <- MCKData
    ExitNr <- MCExitNr
    D = 2
    R = 2
    DumpCode <- MCDumpCode
    RestoreCode <- MCRestoreCode
    Handled <- MCHandled
    PageSz = 2
    Errnos <- MCErrnos
    MinusOne <- MCMinusOne
    Junk <- MCJunk
    Images <- MCImages
    Boot <- MCBoot
    SigactionNr <- MCSigactionNr
    SigreturnNr <- MCSigreturnNr
    HandlerRegs <- MCHandlerRegs
INVARIANTS SigHooksComplete SigConfined
PROPERTY SigTransparent
