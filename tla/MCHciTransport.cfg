\* Commands sent in callbacks and between them, while events and errors arrive.
SPECIFICATION FairHciSpec
CONSTANTS
    HCI_READ_PACKET_NUM_MAX = 5
    Opcodes = {"aci_gatt_update_char_value", "aci_gap_set_discoverable"}
    MaxEvents = 4
    MaxRequests = 2
    MaxErrors = 1
CHECK_DEADLOCK FALSE
INVARIANTS HciTypeOK PacketsConserved FreeFindsPacket EventOrder LineServed OwnAnswer
PROPERTIES  CommandReturns EverythingServed
