\* A session that is interrupted, and another after it.
SPECIFICATION SecureSpec
CONSTANTS
    DW = 2
    PageDW = 2
    FLASH_APP_1_ADDR = 2
    FLASH_APP_2_ADDR = 8
    FLASH_END = 14
    Erased = Erased
    Bootloader = Bootloader
    Installed = Installed
    Garbage = Garbage
    PAYLOAD_LEN = 2
    SECURE_PAYLOAD_BYTES = 3
    SECURE_PAYLOAD_LEN = 2
    RAW_NUM_CUMULATIVE_ACK = 3
    SECURE_NUM_CUMULATIVE_ACK = 2
    BUFF_DWORDS = 3
    SizeUnit = 12
    CountMod = 65536
    IvMod = 7
    Rands = {1, 2}
    Commands = {"START_SECURE_FLASH_MODE", "WRITE_SECURE_FLASH_PACKET", "MASTER_NAK"}
    Apps = {"APP_1", "APP_2"}
    Totals = {3, 4}
    Nums <- MCNums
    Checks = {TRUE}
    WriteFailsAfter = {}
    EraseFails = FALSE
    UninitErase <- MCSafeErase
    BootPins = {"bootloader"}
    Selections = {"APP_1"}
    MaxNoise = 0
    NoisyTotals = {}
    MaxLost = 0
    MaxDrops = 1
    MaxResets = 0
    MaxRestarts = 1
    MaxSessions = 2
CHECK_DEADLOCK FALSE
INVARIANT InSynchrony
