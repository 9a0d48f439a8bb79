\* Connections that end before a request.
SPECIFICATION Spec
CONSTANTS
    DW = 2
    PageDW = 2
    FLASH_APP_1_ADDR = 2
    FLASH_APP_2_ADDR = 6
    FLASH_END = 10
    Erased = Erased
    Bootloader = Bootloader
    Installed = Installed
    Garbage = Garbage
    PAYLOAD_LEN = 2
    SECURE_PAYLOAD_BYTES = 3
    SECURE_PAYLOAD_LEN = 2
    RAW_NUM_CUMULATIVE_ACK = 2
    SECURE_NUM_CUMULATIVE_ACK = 2
    BUFF_DWORDS = 3
    SizeUnit = 8
    CountMod = 65536
    IvMod = 2
    Rands = {0, 1}
    Commands = {"START_FLASH_MODE", "WRITE_FLASH_PACKET"}
    Apps = {"FULL", "APP_1", "APP_2"}
    Totals = {0, 2, 4}
    Nums <- MCNums
    Checks = {TRUE, FALSE}
    WriteFailsAfter = {0}
    EraseFails = FALSE
    UninitErase <- MCUninitErase
    BootPins = {"bootloader", "APP_1"}
INVARIANT BootloaderKept
