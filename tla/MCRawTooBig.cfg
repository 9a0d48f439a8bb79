\* Images longer than the application they are for.
SPECIFICATION UpdateSpec
CONSTANTS
    DW = 2
    PageDW = 2
    FLASH_APP_1_ADDR = 2
    FLASH_APP_2_ADDR = 8
    FLASH_END = 14
    Erased = Erased
    Bootloader = Bootloader
    Installed = Installed
    Garbage = Garbage
    PAYLOAD_LEN = 2
    SECURE_PAYLOAD_BYTES = 3
    SECURE_PAYLOAD_LEN = 2
    RAW_NUM_CUMULATIVE_ACK = 3
    SECURE_NUM_CUMULATIVE_ACK = 2
    BUFF_DWORDS = 3
    SizeUnit = 12
    CountMod = 65536
    IvMod = 1
    Rands = {0}
    Commands = {"START_FLASH_MODE", "WRITE_FLASH_PACKET"}
    Apps = {"APP_1", "APP_2"}
    Totals = {3, 10}
    Nums <- MCNums
    Checks = {TRUE, FALSE}
    WriteFailsAfter = {}
    EraseFails = FALSE
    UninitErase <- MCSafeErase
    BootPins = {"bootloader", "APP_1"}
    Selections = {"APP_1"}
    NAK_LIMIT = 2
    MaxSessions = 2
    MaxLost = 0
    MaxNoise = 0
    NoisyTotals = {}
    MaxDrops = 0
    MaxResets = 0
    MaxRestarts = 1
INVARIANT AcceptedFits
CHECK_DEADLOCK FALSE
