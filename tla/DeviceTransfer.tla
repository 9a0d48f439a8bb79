--------------------------- MODULE DeviceTransfer ---------------------------
(***************************************************************************)
(* The device implements FirmwareTransfer: a transfer is open while the    *)
(* device receives, complete while it waits for the connection to close.   *)
(***************************************************************************)
EXTENDS Peripheral

session ==
    IF Receiving THEN "open"
    ELSE IF connection_status = "CLOSING_CONNECTION" THEN "complete" ELSE "none"

InSession(x, none) == IF session = "none" THEN none ELSE x

ImageOf(n) == Dwords([i \in 1 .. n * PAYLOAD_LEN |-> i - 1])

Transfer == INSTANCE FirmwareTransfer WITH
    Apps <- AppType, Counts <- Count,
    First <- Base, End <- Limit, Image <- ImageOf, Boot <- BootPins,
    app <- InSession(AppToUpdate, "NONE"),
    total <- InSession(total_pck, 0),
    stored <- InSession(((StartPageAddress - Base(AppToUpdate)) * DW) \div PAYLOAD_LEN, 0)

\* Whatever raw packets the client sends, good, bad, repeated or out of place,
\* whenever its link drops, a write fails or the device is reset, the device is
\* a transfer of whole images: nothing but the prefix of the one image is ever
\* in the pages, and only the whole of it is run.
ImplementsTransfer == Transfer!TransferSpec
=============================================================================
