\* One session, in which one packet is altered.
SPECIFICATION FairSecureSpec
CONSTANTS
    DW = 2
    PageDW = 2
    FLASH_APP_1_ADDR = 2
    FLASH_APP_2_ADDR = 8
    FLASH_END = 14
    Erased = Erased
    Bootloader = Bootloader
    Installed = Installed
    Garbage = Garbage
    PAYLOAD_LEN = 2
    SECURE_PAYLOAD_BYTES = 3
    SECURE_PAYLOAD_LEN = 2
    RAW_NUM_CUMULATIVE_ACK = 3
    SECURE_NUM_CUMULATIVE_ACK = 2
    BUFF_DWORDS = 3
    SizeUnit = 12
    CountMod = 65536
    IvMod = 7
    Rands = {1, 2}
    Commands = {"START_SECURE_FLASH_MODE", "WRITE_SECURE_FLASH_PACKET", "MASTER_NAK"}
    Apps = {"APP_1", "APP_2"}
    Totals = {3, 4}
    Nums <- MCNums
    Checks = {TRUE}
    WriteFailsAfter = {}
    EraseFails = FALSE
    UninitErase <- MCSafeErase
    BootPins = {"bootloader"}
    Selections = {"APP_1"}
    MaxNoise = 1
    NoisyTotals = {3, 4}
    MaxLost = 0
    MaxDrops = 0
    MaxResets = 0
    MaxRestarts = 0
    MaxSessions = 1
CHECK_DEADLOCK FALSE
PROPERTY SuccessIsTrue
