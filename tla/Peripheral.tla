----------------------------- MODULE Peripheral -----------------------------
(***************************************************************************)
(* The device: service.c, app_bluenrg.c and main.c around the packet       *)
(* handler.  The main loop hands events to HCI_Event_CB one at a time, so  *)
(* a callback is one step.  The client here is the most general one: it    *)
(* connects whenever the device advertises, writes any packet of the       *)
(* shapes the GUI builds, in any order, and its link may drop at any time. *)
(*                                                                         *)
(* connected, connection_handle and notification_enabled are left out: no  *)
(* code reads them.                                                        *)
(***************************************************************************)
EXTENDS MessageHandler

CONSTANTS
    Commands,    \* commands the client uses
    Apps,        \* applications it selects
    Totals,      \* image sizes it announces, in packets
    Nums,        \* packet numbers it sends
    Checks,      \* whether raw packets may arrive with a bad checksum
    BootPins     \* what the boot pins may select at a reset

ASSUME ClientAssumption ==
    /\ Commands \subseteq {"START_FLASH_MODE", "START_SECURE_FLASH_MODE",
                           "WRITE_FLASH_PACKET", "WRITE_SECURE_FLASH_PACKET",
                           "MASTER_NAK"}
    /\ Apps \subseteq AppType
    /\ Totals \subseteq Count
    /\ Nums \subseteq Count
    /\ Checks \subseteq BOOLEAN
    /\ BootPins \subseteq {"bootloader", "APP_1", "APP_2"}

VARIABLES
    set_connectable,  \* the main loop must make the device discoverable
    advertising       \* the radio accepts a connection

handlerVars == <<connection_status, windowVars, total_pck, AppToUpdate, old_ack,
                 cryptoVars, tx>>
radioVars == <<set_connectable, advertising>>
vars == <<flashVars, running, handlerVars, radioVars>>

-----------------------------------------------------------------------------
\* Packets.  Byte number n of the image is the number n.

Chunk(num, len) == [i \in 1 .. len |-> num * len + i - 1]

StartPacket ==
    [cmd : {"START_FLASH_MODE", "START_SECURE_FLASH_MODE"},
     app : Apps, total : Totals, ok : Checks]

RawPacket ==
    { [cmd |-> "WRITE_FLASH_PACKET", num |-> n, ok |-> c, data |-> Chunk(n, PAYLOAD_LEN)] :
        n \in Nums, c \in Checks }

\* Only four bits of a secure packet's number are sent: it says nothing of
\* which chunk it carries.
SecurePacket ==
    [cmd : {"WRITE_SECURE_FLASH_PACKET"}, num : 0 .. SECURE_NUM_CUMULATIVE_ACK - 1,
     iv : Iv, data : {Chunk(n, SECURE_PAYLOAD_BYTES) : n \in Nums}]

MasterNak == [cmd : {"MASTER_NAK"}]

Packet == StartPacket \cup RawPacket \cup SecurePacket \cup MasterNak

Receiving == connection_status \in {"RECEVEING_RAW_FW", "RECEVEING_SECURE_FW"}

-----------------------------------------------------------------------------
\* The device's variables have their types: no counter underflows out of 16
\* bits when a window is sent back, and nothing but bytes is programmed.
TypeOK ==
    /\ FlashTypeOK
    /\ HandlerTypeOK
    /\ set_connectable \in BOOLEAN /\ advertising \in BOOLEAN

\* Which applications are in the flash when the device is first switched on.
Init ==
    /\ \E apps \in SUBSET {"APP_1", "APP_2"} :
          flash = [a \in Address |->
                      IF a < FLASH_APP_1_ADDR THEN Bootloader
                      ELSE IF \E app \in apps : a \in Region(app) THEN Installed
                      ELSE Erased]
    /\ StartPageAddress = FLASH_APP_1_ADDR
    /\ locked = TRUE
    /\ running = "bootloader"
    /\ HandlerInit
    /\ set_connectable = TRUE /\ advertising = FALSE

\* BlueNRG_Process, before it looks at the events.
Enable_Advertising ==
    /\ running = "bootloader" /\ set_connectable
    /\ advertising' = TRUE
    /\ set_connectable' = FALSE
    /\ tx' = <<>>
    /\ UNCHANGED <<flashVars, running, connection_status, windowVars, total_pck,
                   AppToUpdate, old_ack, cryptoVars>>

GAP_ConnectionComplete_CB ==
    /\ running = "bootloader" /\ advertising
    /\ advertising' = FALSE
    /\ connection_status' = "CONNECTED"
    /\ tx' = <<>>
    /\ UNCHANGED <<flashVars, running, windowVars, total_pck, AppToUpdate, old_ack,
                   cryptoVars, set_connectable>>

\* The transport layer dropped the connection event: only the radio knows.
ConnectionMissed ==
    /\ running = "bootloader" /\ advertising
    /\ advertising' = FALSE
    /\ tx' = <<>>
    /\ UNCHANGED <<flashVars, running, connection_status, windowVars, total_pck,
                   AppToUpdate, old_ack, cryptoVars, set_connectable>>

\* Faulty variant: the packets are counted from zero.
CompleteMutant == count_pck + 1 = total_pck

Complete == count_pck = total_pck /\ total_pck # 0

\* Faulty variant: the packet counter outlives an interrupted session.
KeepsCounter ==
    /\ running = "bootloader" /\ ~advertising /\ ~set_connectable
    /\ connection_status' = "IDLE"
    /\ tx' = <<>>
    /\ \/ /\ Complete
          /\ go2App(AppToUpdate)
          /\ UNCHANGED <<flashVars, windowVars, set_connectable>>
       \/ /\ ~Complete
          /\ flash_buff' = <<>>
          /\ \E ret \in BOOLEAN : Prepare_Application_Memory(AppToUpdate, ret)
          /\ set_connectable' = TRUE
          /\ UNCHANGED <<byte_pos, next_ack, count_pck, running>>
    /\ UNCHANGED <<total_pck, AppToUpdate, old_ack, cryptoVars, advertising>>

\* Faulty variant: the device is not made discoverable again.
StaysHidden ==
    /\ running = "bootloader" /\ ~advertising /\ ~set_connectable
    /\ connection_status' = "IDLE"
    /\ tx' = <<>>
    /\ \/ /\ Complete
          /\ go2App(AppToUpdate)
          /\ UNCHANGED <<flashVars, windowVars>>
       \/ /\ ~Complete
          /\ count_pck' = 0
          /\ flash_buff' = <<>>
          /\ \E ret \in BOOLEAN : Prepare_Application_Memory(AppToUpdate, ret)
          /\ UNCHANGED <<byte_pos, next_ack, running>>
    /\ UNCHANGED <<total_pck, AppToUpdate, old_ack, cryptoVars, radioVars>>

\* byte_pos, next_ack and the IV keep what the session left in them.
GAP_DisconnectionComplete_CB ==
    /\ running = "bootloader" /\ ~advertising /\ ~set_connectable
    /\ connection_status' = "IDLE"
    /\ tx' = <<>>
    /\ \/ /\ Complete
          /\ go2App(AppToUpdate)
          /\ UNCHANGED <<flashVars, windowVars, set_connectable>>
       \/ /\ ~Complete
          /\ count_pck' = 0
          /\ flash_buff' = <<>>
          /\ \E ret \in BOOLEAN : Prepare_Application_Memory(AppToUpdate, ret)
          /\ set_connectable' = TRUE
          /\ UNCHANGED <<byte_pos, next_ack, running>>
    /\ UNCHANGED <<total_pck, AppToUpdate, old_ack, cryptoVars, advertising>>

\* The GUI sends one request per connection, so none to a receiving device.
Attribute_Modified_CB(p) ==
    /\ running = "bootloader"
    /\ p \in StartPacket => ~Receiving
    /\ data_handler(p)
    /\ UNCHANGED radioVars

(***************************************************************************)
(* A reset or a power cycle, at any time, in any program.  Power lost      *)
(* inside an erase or a write is a failed erase or write and then this.    *)
(* At boot the pins may select an application, which is started unread.    *)
(***************************************************************************)
Reset ==
    /\ \E pin \in BootPins : running' = pin
    /\ StartPageAddress' = FLASH_APP_1_ADDR /\ locked' = TRUE
    /\ connection_status' = "IDLE"
    /\ flash_buff' = <<>> /\ byte_pos' = 0
    /\ total_pck' = 0 /\ count_pck' = 0
    /\ AppToUpdate' = "NONE"
    /\ next_ack' = TRUE /\ old_ack' = FALSE
    /\ IV' = 0 /\ rand_IV' = 0
    /\ tx' = <<>>
    /\ set_connectable' = TRUE /\ advertising' = FALSE
    /\ UNCHANGED flash

Next ==
    \/ Enable_Advertising
    \/ GAP_ConnectionComplete_CB
    \/ ConnectionMissed
    \/ GAP_DisconnectionComplete_CB
    \/ \E p \in Packet : p.cmd \in Commands /\ Attribute_Modified_CB(p)
    \/ Reset

Spec == Init /\ [][Next]_vars

-----------------------------------------------------------------------------
(***************************************************************************)
(* Properties.  Each is about the device alone, whatever the client does.  *)
(***************************************************************************)
InBootloader == running = "bootloader"

\* data_handler stores packet after packet in flash_buff with no check of its
\* own: only the cumulative acknowledgement keeps cont_buff below the array's
\* length, over every pattern of lost, refused and repeated packets.
BufferBound == Len(flash_buff) <= BUFF_DWORDS * DW

\* While an image is received, the application's pages are programmed exactly
\* up to StartPageAddress: no window leaves a hole, or is written over another.
WriteFrontier ==
    InBootloader /\ (Receiving \/ connection_status = "CLOSING_CONNECTION") =>
        /\ Base(AppToUpdate) <= StartPageAddress
        /\ \A a \in Region(AppToUpdate) : flash[a] = Erased <=> a >= StartPageAddress

\* The disconnection callback decides to jump from two counters, not from the
\* state of the connection: they agree only once every packet was handled.
CompleteMeansClosing ==
    InBootloader /\ Complete => connection_status = "CLOSING_CONNECTION"

\* A session that ended without a jump, or whose request was refused, has left
\* nothing of an image behind in the pages it was for.
AbortErases ==
    InBootloader /\ connection_status \in {"IDLE", "CONNECTED"} /\ AppToUpdate # "NONE" =>
        \A a \in Region(AppToUpdate) : flash[a] = Erased

\* When a raw image is complete, its flash holds every byte of it, in order.
ImageIntact ==
    InBootloader /\ connection_status = "CLOSING_CONNECTION" =>
        LET image == Dwords([i \in 1 .. total_pck * PAYLOAD_LEN |-> i - 1])
        IN  \A i \in 1 .. Len(image) : flash[Base(AppToUpdate) + i - 1] = image[i]

\* Between two windows the write address stands where the packet counter says:
\* what makes setting the counter back, and only it, a safe way to retry.
CounterMatchesAddress ==
    InBootloader /\ connection_status = "RECEVEING_RAW_FW" =>
        (StartPageAddress - Base(AppToUpdate)) * DW
            = (count_pck - (count_pck % RAW_NUM_CUMULATIVE_ACK)) * PAYLOAD_LEN

\* A client that only sends raw images never makes the device fault.
NeverFaults == running # "HardFault"

\* A session changes no flash outside the application it is for: neither the
\* other application nor the bootloader.
OtherFlashKept ==
    [][AppToUpdate' # "NONE" =>
           \A a \in Address \ Region(AppToUpdate') : flash'[a] = flash[a]]_vars
-----------------------------------------------------------------------------
(***************************************************************************)
(* What the documents say and the code does not keep.                      *)
(***************************************************************************)

\* "An important check is done on [...] new firmware size constraints"
\* (README.md:56): an image checkFWSize accepted has room in its pages.
AcceptedFits ==
    InBootloader /\ connection_status = "RECEVEING_RAW_FW" =>
        total_pck * PAYLOAD_LEN <= (Limit(AppToUpdate) - Base(AppToUpdate)) * DW

\* "In case of error in the transmission it will delete all the code received"
\* (BLE_FW_Update/README.md:12): the code received, and not the bootloader.
BootloaderKept == \A a \in 0 .. FLASH_APP_1_ADDR - 1 : flash[a] = Bootloader
=============================================================================
