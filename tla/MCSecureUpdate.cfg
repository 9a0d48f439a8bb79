\* Every failure, on images that fit and one that is refused.
SPECIFICATION FairSecureSpec
CONSTANTS
    DW = 2
    PageDW = 2
    FLASH_APP_1_ADDR = 2
    FLASH_APP_2_ADDR = 8
    FLASH_END = 14
    Erased = Erased
    Bootloader = Bootloader
    Installed = Installed
    Garbage = Garbage
    PAYLOAD_LEN = 2
    SECURE_PAYLOAD_BYTES = 3
    SECURE_PAYLOAD_LEN = 2
    RAW_NUM_CUMULATIVE_ACK = 3
    SECURE_NUM_CUMULATIVE_ACK = 2
    BUFF_DWORDS = 3
    SizeUnit = 12
    CountMod = 65536
    IvMod = 7
    Rands = {1, 2}
    Commands = {"START_SECURE_FLASH_MODE", "WRITE_SECURE_FLASH_PACKET", "MASTER_NAK"}
    Apps = {"APP_1", "APP_2"}
    Totals = {0, 3, 4, 12}
    Nums <- MCNums
    Checks = {TRUE}
    WriteFailsAfter = {1}
    EraseFails = FALSE
    UninitErase <- MCSafeErase
    BootPins = {"bootloader"}
    Selections = {"APP_1"}
    MaxNoise = 1
    NoisyTotals = {3}
    MaxLost = 1
    MaxDrops = 1
    MaxResets = 1
    MaxRestarts = 1
    MaxSessions = 2
CHECK_DEADLOCK FALSE
INVARIANTS SecureTypeOK  NumbersInStep SecureOrder
PROPERTY SecureUploadRuns
