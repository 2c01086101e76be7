SPECIFICATION MCSpec
CONSTANTS
    Threads = {"main", "web", "ihm"}
    Texts <- MCTexts
    RestLevel = 2
    Files = {"node0.5.so", "dht11.so", "serial-rf.so", "rf.so", "lua-scripts.so"}
    Registers <- MCRegisters
    Keys <- MCKeys
    Absent <- MCAbsent
    NodeIds = {1, 2, 3}
    Entries <- MCEntries
    NoPlugin = NoPlugin
    Conns = {1, 2}
    Requests <- MCRequests
INVARIANTS TypeOK LinesInOrder OneCommandPerAnswer ServedWhenSetUp FirstPluginWins
PROPERTIES Answered UnknownReported
CHECK_DEADLOCK FALSE
