CONSTANTS
    Slots = {t1,t2,gdb}
    Root = {gdb}
    init = init
    NULL = NULL
    WaitOptions = {{"WUNTRACED"},{"__WCLONE"}}
    Signals = {"SIGSTOP","SIGCONT"}
    ContSignals = {"0"}
    ExitSignals={"SIGCHLD","none"}
SPECIFICATION Spec
INVARIANT ReleaseFinds
SYMMETRY Symmetry
CHECK_DEADLOCK FALSE
