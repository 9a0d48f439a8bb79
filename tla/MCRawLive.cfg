\* Images of any length; windows are refused where all are whole.
SPECIFICATION FairUpdateSpec
CONSTANTS
    DW = 2
    PageDW = 2
    FLASH_APP_1_ADDR = 2
    FLASH_APP_2_ADDR = 8
    FLASH_END = 14
    Erased = Erased
    Bootloader = Bootloader
    Installed = Installed
    Garbage = Garbage
    PAYLOAD_LEN = 2
    SECURE_PAYLOAD_BYTES = 3
    SECURE_PAYLOAD_LEN = 2
    RAW_NUM_CUMULATIVE_ACK = 3
    SECURE_NUM_CUMULATIVE_ACK = 2
    BUFF_DWORDS = 3
    SizeUnit = 12
    CountMod = 65536
    IvMod = 1
    Rands = {0}
    Commands = {"START_FLASH_MODE", "WRITE_FLASH_PACKET"}
    Apps = {"APP_1", "APP_2"}
    Totals = {0, 1, 3, 4, 6, 12}
    Nums <- MCNums
    Checks = {TRUE, FALSE}
    WriteFailsAfter = {}
    EraseFails = TRUE
    UninitErase <- MCSafeErase
    BootPins = {"bootloader"}
    Selections = {"APP_1", "UNSELECTED"}
    NAK_LIMIT = 3
    MaxSessions = 2
    MaxLost = 1
    MaxNoise = 2
    NoisyTotals = {3, 6}
    MaxDrops = 1
    MaxResets = 1
    MaxRestarts = 1
CHECK_DEADLOCK FALSE
INVARIANTS LockStep AckedMeansStored ImageIntact
PROPERTIES UploadEnds UploadRuns 
