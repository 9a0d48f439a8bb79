--------------------------- MODULE MessageHandler ---------------------------
(***************************************************************************)
(* message_handler.c: what the device does with one packet the host wrote. *)
(* data_handler runs to its end inside one callback of the main loop, so   *)
(* every branch of it is one step.  A packet is a record; "ok" says that   *)
(* its length and checksum are the ones verify_data_type asks for.         *)
(*                                                                         *)
(* flash_buff is the bytes of the window received so far, so that it is    *)
(* empty exactly when the code has cont_buff = -1, and otherwise covers    *)
(* cont_buff + 1 double words.  byte_pos is a variable of its own, as in   *)
(* the code: it is not reset where cont_buff is.                           *)
(*                                                                         *)
(* The 12-byte IV and the 3 random bytes matter only through equality, and *)
(* the bytes are added to the IV componentwise: both are residues here.    *)
(***************************************************************************)
EXTENDS FlashManager

CONSTANTS
    PAYLOAD_LEN,                \* bytes of firmware in a raw packet
    SECURE_PAYLOAD_BYTES,       \* bytes of firmware in a secure packet
    SECURE_PAYLOAD_LEN,         \* the same, as checkFWSize is told
    RAW_NUM_CUMULATIVE_ACK,     \* packets in a raw window
    SECURE_NUM_CUMULATIVE_ACK,  \* packets in a secure window
    BUFF_DWORDS,                \* double words flash_buff has room for
    SizeUnit,                   \* the 128000 of checkFWSize
    CountMod,                   \* number of values of a uint16_t
    IvMod,                      \* number of initialization vectors
    Rands                       \* what three random bytes can add to the IV

ASSUME HandlerAssumption ==
    /\ PAYLOAD_LEN \in Nat \ {0} /\ SECURE_PAYLOAD_BYTES \in Nat \ {0}
    /\ SECURE_PAYLOAD_LEN \in Nat
    /\ RAW_NUM_CUMULATIVE_ACK \in Nat \ {0}
    /\ SECURE_NUM_CUMULATIVE_ACK \in Nat \ {0}
    /\ BUFF_DWORDS \in Nat
    /\ RAW_NUM_CUMULATIVE_ACK * PAYLOAD_LEN <= BUFF_DWORDS * DW
    /\ SECURE_NUM_CUMULATIVE_ACK * SECURE_PAYLOAD_BYTES <= BUFF_DWORDS * DW
    /\ SizeUnit \in Nat \ {0}
    /\ CountMod \in Nat \ {0}
    /\ IvMod \in Nat \ {0}
    /\ Rands \subseteq 0 .. IvMod - 1

VARIABLES
    connection_status,
    flash_buff, byte_pos,
    total_pck, count_pck,
    AppToUpdate,
    next_ack, old_ack,
    IV, rand_IV,
    tx                  \* the notification the last step sent, if any

windowVars == <<flash_buff, byte_pos, count_pck, next_ack>>
cryptoVars == <<IV, rand_IV>>

Count  == 0 .. CountMod - 1
Iv     == 0 .. IvMod - 1
Status == {"IDLE", "CONNECTED", "RECEVEING_RAW_FW", "RECEVEING_SECURE_FW",
           "CLOSING_CONNECTION"}

Response ==
    [type : {"WRITE_FLASH_PACKET_RESPONSE"}, ack : BOOLEAN, count : Count]
      \cup [type : {"WRITE_SECURE_FLASH_PACKET_RESPONSE"}, ack : BOOLEAN,
            count : Count, iv : Iv, rand : Iv]

\* The counters have 16 bits, byte_pos stays inside a double word, and a step
\* sends at most one notification.
HandlerTypeOK ==
    /\ connection_status \in Status
    /\ flash_buff \in Seq(Byte)
    /\ byte_pos \in 0 .. DW - 1
    /\ total_pck \in Count /\ count_pck \in Count
    /\ AppToUpdate \in FlashAppType
    /\ next_ack \in BOOLEAN /\ old_ack \in BOOLEAN
    /\ IV \in Iv /\ rand_IV \in Iv
    /\ tx \in Seq(Response) /\ Len(tx) <= 1

\* old_ack has no initializer: a global, it starts as false.
HandlerInit ==
    /\ connection_status = "IDLE"
    /\ flash_buff = <<>> /\ byte_pos = 0
    /\ total_pck = 0 /\ count_pck = 0
    /\ AppToUpdate = "NONE"
    /\ next_ack = TRUE /\ old_ack = FALSE
    /\ IV = 0 /\ rand_IV = 0
    /\ tx = <<>>

-----------------------------------------------------------------------------
\* Integer division, as in the code: nearly twice the space passes.
checkFWSize(total, payload_len, app) ==
    /\ app \in AppType
    /\ (total * payload_len) \div (IF app = "FULL" THEN 2 * SizeUnit ELSE SizeUnit) <= 1

(***************************************************************************)
(* send_ack.  A secure response carries fresh random bytes, which the next *)
(* packet's IV takes in, and is encrypted with the present IV: iv is the   *)
(* one this step leaves behind.                                            *)
(***************************************************************************)
\* Faulty variant: a refused window is not answered.
SilentRefusal(ack, count) ==
    /\ old_ack' = ack
    /\ tx' = IF ack THEN <<[type |-> "WRITE_FLASH_PACKET_RESPONSE", ack |-> ack,
                            count |-> count]>>
             ELSE <<>>
    /\ UNCHANGED rand_IV

\* Faulty variant: the answer does not wait for the window's outcome.
AlwaysAck(ack, count) ==
    /\ old_ack' = ack
    /\ tx' = <<[type |-> "WRITE_FLASH_PACKET_RESPONSE", ack |-> TRUE, count |-> count]>>
    /\ UNCHANGED rand_IV

send_raw_ack(ack, count) ==
    /\ old_ack' = ack
    /\ tx' = <<[type |-> "WRITE_FLASH_PACKET_RESPONSE", ack |-> ack, count |-> count]>>
    /\ UNCHANGED rand_IV

send_secure_ack(ack, count, iv) ==
    /\ old_ack' = ack
    /\ \E r \in Rands :
          /\ rand_IV' = r
          /\ tx' = <<[type |-> "WRITE_SECURE_FLASH_PACKET_RESPONSE", ack |-> ack,
                      count |-> count, iv |-> iv, rand |-> r]>>

\* The IV decrypt_data works with, and what it leaves in the packet.
NextIV == (IV + rand_IV) % IvMod
decrypt_data(p) ==
    IF p.iv = NextIV THEN p.data ELSE [i \in 1 .. SECURE_PAYLOAD_BYTES |-> Garbage]

-----------------------------------------------------------------------------
\* case CONNECTED: the flash is erased before the size is looked at.

StartFlash(p, payload_len, status) ==
    /\ total_pck' = p.total
    /\ AppToUpdate' = p.app
    /\ \E ret \in BOOLEAN :
          /\ Prepare_Application_Memory(p.app, ret)
          /\ IF ret /\ checkFWSize(p.total, payload_len, p.app)
             THEN /\ connection_status' = status
                  /\ IF status = "RECEVEING_RAW_FW"
                     THEN send_raw_ack(TRUE, count_pck)
                     ELSE send_secure_ack(TRUE, count_pck, IV)
             ELSE /\ UNCHANGED connection_status
                  /\ send_raw_ack(FALSE, count_pck)
    /\ UNCHANGED <<windowVars, IV>>

StartRaw(p) ==
    /\ connection_status = "CONNECTED"
    /\ p.cmd = "START_FLASH_MODE" /\ p.ok
    /\ StartFlash(p, PAYLOAD_LEN, "RECEVEING_RAW_FW")

StartSecure(p) ==
    /\ connection_status = "CONNECTED"
    /\ p.cmd = "START_SECURE_FLASH_MODE" /\ p.ok
    /\ StartFlash(p, SECURE_PAYLOAD_LEN, "RECEVEING_SECURE_FW")

StartRefused(p) ==
    /\ connection_status = "CONNECTED"
    /\ p.cmd \in {"START_FLASH_MODE", "START_SECURE_FLASH_MODE"} => ~p.ok
    /\ send_raw_ack(FALSE, count_pck)
    /\ UNCHANGED <<connection_status, flashVars, windowVars, total_pck, AppToUpdate, IV>>

-----------------------------------------------------------------------------
(***************************************************************************)
(* What the two receiving states share: a window of packets, of which each *)
(* is taken or not, and which is written or sent back as a whole.          *)
(***************************************************************************)
\* Faulty variant: off by one when the counter is set back.
SetBackMutant(window) == (((count_pck + 1) % CountMod) - window + 1) % CountMod

\* Faulty variant: the last window is taken to end one packet early.
WindowEndsMutant(window) ==
    LET up == (count_pck + 1) % CountMod IN up % window = 0 \/ up >= total_pck - 1

\* Faulty variant: the end of the image does not end the window.
WholeWindowEnds(window) == ((count_pck + 1) % CountMod) % window = 0

CountUp            == (count_pck + 1) % CountMod
SetBack(window)    == (CountUp - window) % CountMod
WindowEnds(window) == CountUp % window = 0 \/ CountUp = total_pck

\* flash_buff[65535]: cont_buff is still -1 when a double word seems begun.
WildStore(taken) == taken /\ flash_buff = <<>> /\ byte_pos # 0

Overrun ==
    /\ running' = "HardFault"
    /\ tx' = <<>>
    /\ UNCHANGED <<flashVars, windowVars, connection_status, total_pck,
                   AppToUpdate, old_ack, rand_IV>>

Buffered(taken, data) == IF taken THEN flash_buff \o data ELSE flash_buff

\* Faulty variant: byte_pos %= 8 is forgotten.
MoveBytePosMutant(taken, data) ==
    byte_pos' = IF taken THEN byte_pos + Len(data) ELSE byte_pos

MoveBytePos(taken, data) ==
    byte_pos' = IF taken THEN (byte_pos + Len(data)) % DW ELSE byte_pos

\* Faulty variant: a good packet hides an earlier bad one of its window.
AddToWindowMutant(taken, data) ==
    /\ flash_buff' = Buffered(taken, data)
    /\ MoveBytePos(taken, data)
    /\ count_pck' = CountUp
    /\ next_ack' = taken
    /\ tx' = <<>>
    /\ UNCHANGED <<flashVars, connection_status, old_ack, rand_IV>>

AddToWindow(taken, data) ==
    /\ flash_buff' = Buffered(taken, data)
    /\ MoveBytePos(taken, data)
    /\ count_pck' = CountUp
    /\ next_ack' = (next_ack /\ taken)
    /\ tx' = <<>>
    /\ UNCHANGED <<flashVars, connection_status, old_ack, rand_IV>>

\* Faulty variant: cont_buff is not reset after a window.
NewWindowMutant(taken, data) ==
    /\ flash_buff' = Buffered(taken, data)
    /\ MoveBytePos(taken, data)
    /\ next_ack' = TRUE
    /\ connection_status' = IF count_pck' = total_pck THEN "CLOSING_CONNECTION"
                            ELSE connection_status

\* cont_buff = -1 and next_ack = true; the last packet of the image closes.
NewWindow(taken, data) ==
    /\ flash_buff' = <<>>
    /\ MoveBytePos(taken, data)
    /\ next_ack' = TRUE
    /\ connection_status' = IF count_pck' = total_pck THEN "CLOSING_CONNECTION"
                            ELSE connection_status

\* Faulty variant: a refused window is counted as received.
RefuseWindowMutant(taken, data, window) ==
    /\ ~(next_ack /\ taken)
    /\ count_pck' = CountUp
    /\ NewWindow(taken, data)
    /\ UNCHANGED flashVars

RefuseWindow(taken, data, window) ==
    /\ ~(next_ack /\ taken)
    /\ count_pck' = SetBack(window)
    /\ NewWindow(taken, data)
    /\ UNCHANGED flashVars

WriteWindow(taken, data, window, ret) ==
    /\ next_ack /\ taken
    /\ Write_FW_to_flash(Dwords(Buffered(taken, data)), ret)
    /\ count_pck' = IF ret THEN CountUp ELSE SetBack(window)
    /\ NewWindow(taken, data)

-----------------------------------------------------------------------------
\* case RECEVEING_RAW_FW

\* Faulty variant: the packet number is not compared.
TakenRawMutant(p) == p.cmd = "WRITE_FLASH_PACKET" /\ p.ok

TakenRaw(p) == p.cmd = "WRITE_FLASH_PACKET" /\ p.ok /\ p.num = count_pck

\* Faulty variant: the loop runs on to the checksum.
RawDataMutant(p) == IF TakenRaw(p) THEN Append(p.data, 0) ELSE <<>>

RawData(p) == IF TakenRaw(p) THEN p.data ELSE <<>>

ReceiveRaw(p) ==
    /\ connection_status = "RECEVEING_RAW_FW"
    /\ ~WildStore(TakenRaw(p))
    /\ \/ /\ ~WindowEnds(RAW_NUM_CUMULATIVE_ACK)
          /\ AddToWindow(TakenRaw(p), RawData(p))
       \/ /\ WindowEnds(RAW_NUM_CUMULATIVE_ACK)
          /\ RefuseWindow(TakenRaw(p), RawData(p), RAW_NUM_CUMULATIVE_ACK)
          /\ send_raw_ack(FALSE, count_pck')
       \/ /\ WindowEnds(RAW_NUM_CUMULATIVE_ACK)
          /\ \E ret \in BOOLEAN :
                /\ WriteWindow(TakenRaw(p), RawData(p), RAW_NUM_CUMULATIVE_ACK, ret)
                /\ send_raw_ack(ret, count_pck')
    /\ UNCHANGED <<total_pck, AppToUpdate, IV>>

OverrunRaw(p) ==
    /\ connection_status = "RECEVEING_RAW_FW"
    /\ WildStore(TakenRaw(p))
    /\ Overrun
    /\ UNCHANGED IV

-----------------------------------------------------------------------------
\* case RECEVEING_SECURE_FW: every secure packet moves the IV, and is taken
\* by its number alone.  The acknowledgement leaves before the write.

TakenSecure(p) == p.cmd = "WRITE_SECURE_FLASH_PACKET"
                  /\ p.num = count_pck % SECURE_NUM_CUMULATIVE_ACK

SecureData(p) == IF TakenSecure(p) THEN decrypt_data(p) ELSE <<>>

\* Faulty variant: a packet with a wrong number does not move the IV.
MoveIVMutant(p) == IV' = IF TakenSecure(p) THEN NextIV ELSE IV

MoveIV(p) == IV' = IF p.cmd = "WRITE_SECURE_FLASH_PACKET" THEN NextIV ELSE IV

ReceiveSecure(p) ==
    /\ connection_status = "RECEVEING_SECURE_FW"
    /\ p.cmd # "MASTER_NAK"
    /\ ~WildStore(TakenSecure(p))
    /\ MoveIV(p)
    /\ \/ /\ ~WindowEnds(SECURE_NUM_CUMULATIVE_ACK)
          /\ AddToWindow(TakenSecure(p), SecureData(p))
       \/ /\ WindowEnds(SECURE_NUM_CUMULATIVE_ACK)
          /\ send_secure_ack(FALSE, CountUp, IV')
          /\ RefuseWindow(TakenSecure(p), SecureData(p), SECURE_NUM_CUMULATIVE_ACK)
       \/ /\ WindowEnds(SECURE_NUM_CUMULATIVE_ACK)
          /\ send_secure_ack(TRUE, CountUp, IV')
          /\ \E ret \in BOOLEAN :
                WriteWindow(TakenSecure(p), SecureData(p),
                            SECURE_NUM_CUMULATIVE_ACK, ret)
    /\ UNCHANGED <<total_pck, AppToUpdate>>

OverrunSecure(p) ==
    /\ connection_status = "RECEVEING_SECURE_FW"
    /\ WildStore(TakenSecure(p))
    /\ MoveIV(p)
    /\ Overrun

\* The host could not read the last response: it is sent again.
ResendAck(p) ==
    /\ connection_status = "RECEVEING_SECURE_FW"
    /\ p.cmd = "MASTER_NAK"
    /\ send_secure_ack(old_ack, count_pck, IV)
    /\ UNCHANGED <<connection_status, flashVars, windowVars, total_pck, AppToUpdate, IV>>

\* default: IDLE and CLOSING_CONNECTION ignore every packet.
IgnorePacket ==
    /\ connection_status \in {"IDLE", "CLOSING_CONNECTION"}
    /\ tx' = <<>>
    /\ UNCHANGED <<connection_status, flashVars, windowVars, cryptoVars, total_pck,
                   AppToUpdate, old_ack>>

data_handler(p) ==
    \/ /\ \/ StartRaw(p) \/ StartSecure(p) \/ StartRefused(p)
          \/ ReceiveRaw(p)
          \/ ReceiveSecure(p) \/ ResendAck(p)
          \/ IgnorePacket
       /\ UNCHANGED running
    \/ OverrunRaw(p)
    \/ OverrunSecure(p)
=============================================================================
