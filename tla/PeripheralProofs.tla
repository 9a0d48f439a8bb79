-------------------------- MODULE PeripheralProofs --------------------------
(***************************************************************************)
(* What holds of the device for every value of the constants: every        *)
(* geometry of flash, packets and windows, every client.                   *)
(***************************************************************************)
EXTENDS Peripheral, SequenceTheorems, TLAPS

-----------------------------------------------------------------------------
\* Chunks of an image are sequences of bytes, of the length asked for.
LEMMA ChunkType ==
    ASSUME NEW num \in Nat, NEW len \in Nat
    PROVE  Chunk(num, len) \in Seq(Byte) /\ Len(Chunk(num, len)) = len
<1>1. \A i \in 1 .. len : num * len + i - 1 \in Byte
  <2>1. num * len \in Nat
    OBVIOUS
  <2>2. QED
    BY <2>1 DEF Byte
<1>2. QED
  BY <1>1 DEF Chunk

\* The double words of a buffer are themselves sequences of bytes.
LEMMA DwordsType ==
    ASSUME NEW bytes \in Seq(Byte)
    PROVE  Dwords(bytes) \in Seq(Seq(Byte))
<1> DEFINE n == (Len(bytes) + DW - 1) \div DW
           last(i) == IF i * DW < Len(bytes) THEN i * DW ELSE Len(bytes)
           word(i) == SubSeq(bytes, (i - 1) * DW + 1, last(i))
<1> DW \in Nat \ {0}
  BY FlashAssumption
<1>1. n \in Nat
  OBVIOUS
<1>2. ASSUME NEW i \in 1 .. n PROVE word(i) \in Seq(Byte)
  <2>1. (i - 1) * DW \in Nat /\ i * DW \in Nat
    OBVIOUS
  <2>2. last(i) \in Nat /\ last(i) <= Len(bytes)
    BY <2>1
  <2>3. \A j \in (i - 1) * DW + 1 .. last(i) : bytes[j] \in Byte
    BY <2>1, <2>2
  <2>4. QED
    BY <2>1, <2>2, <2>3
<1>3. Dwords(bytes) = [i \in 1 .. n |-> word(i)]
  BY DEF Dwords
<1> HIDE DEF n, word
<1>4. QED
  BY <1>1, <1>2, <1>3
-----------------------------------------------------------------------------
\* Type correctness of the flash manager's operations.

\* Erasing for an application leaves the flash and its registers well typed.
LEMMA PrepareType ==
    ASSUME FlashTypeOK, NEW app, NEW ret,
           Prepare_Application_Memory(app, ret)
    PROVE  /\ flash' \in [Address -> Content]
           /\ StartPageAddress' \in Nat
           /\ locked' \in BOOLEAN
<1>1. \A from, to : ErasedBetween(from, to) \in [Address -> Content]
  BY DEF ErasedBetween, FlashTypeOK, Content
<1>2. EraseRegion(app, TRUE) \/ EraseRegion(app, FALSE) =>
         flash' \in [Address -> Content]
  BY <1>1 DEF EraseRegion
<1>3. flash' \in [Address -> Content]
  <2>1. CASE app \in AppType
    BY <2>1, <1>2 DEF Prepare_Application_Memory
  <2>2. CASE app \notin AppType
    BY <2>2, <1>1 DEF Prepare_Application_Memory
  <2>3. QED
    BY <2>1, <2>2
<1>4. StartPageAddress' \in Nat
  BY FlashAssumption DEF Prepare_Application_Memory, setStartPageAddress, Base, FlashTypeOK
<1>5. QED
  BY <1>3, <1>4 DEF Prepare_Application_Memory

\* Programming double words of bytes leaves the flash well typed.
LEMMA ProgrammedType ==
    ASSUME FlashTypeOK, NEW dwords \in Seq(Seq(Byte)), NEW n \in Nat, n <= Len(dwords)
    PROVE  Programmed(dwords, n) \in [Address -> Content]
<1>1. ASSUME NEW a \in Address, a \in StartPageAddress .. StartPageAddress + n - 1
      PROVE  dwords[a - StartPageAddress + 1] \in Seq(Byte)
  BY <1>1 DEF FlashTypeOK, Address
<1>2. QED
  BY <1>1 DEF Programmed, FlashTypeOK, Content

\* Writing a window, to its end or not, leaves the flash manager well typed.
LEMMA WriteType ==
    ASSUME FlashTypeOK, NEW bytes \in Seq(Byte), NEW ret,
           Write_FW_to_flash(Dwords(bytes), ret)
    PROVE  /\ flash' \in [Address -> Content]
           /\ StartPageAddress' \in Nat
           /\ locked' \in BOOLEAN
<1> DEFINE dwords == Dwords(bytes)
<1>1. dwords \in Seq(Seq(Byte))
  BY DwordsType
<1> HIDE DEF dwords
<1>2. PICK n \in 0 .. Len(dwords) : /\ flash' = Programmed(dwords, n)
                                   /\ StartPageAddress' = StartPageAddress + n
  BY <1>1 DEF Write_FW_to_flash, dwords
<1>3. flash' \in [Address -> Content]
  BY <1>1, <1>2, ProgrammedType
<1>4. StartPageAddress' \in Nat
  BY <1>1, <1>2 DEF FlashTypeOK
<1>5. locked' \in BOOLEAN
  BY Zenon DEF Write_FW_to_flash
<1>6. QED
  BY <1>3, <1>4, <1>5
-----------------------------------------------------------------------------
\* Type correctness of the packet handler's operations.

\* The packet counter, counted up or set back, stays a 16-bit number.
LEMMA CountType ==
    ASSUME count_pck \in Count
    PROVE  /\ CountUp \in Count
           /\ \A window \in Nat : SetBack(window) \in Count
BY HandlerAssumption DEF Count, CountUp, SetBack

\* Adding the random bytes to the IV gives an IV.
LEMMA IvType ==
    ASSUME IV \in Iv, rand_IV \in Iv
    PROVE  NextIV \in Iv
BY HandlerAssumption DEF Iv, NextIV

\* A raw response is a well-formed notification.
LEMMA RawAckType ==
    ASSUME HandlerTypeOK, NEW ack \in BOOLEAN, NEW count \in Count,
           send_raw_ack(ack, count)
    PROVE  /\ old_ack' \in BOOLEAN /\ rand_IV' \in Iv
           /\ tx' \in Seq(Response) /\ Len(tx') <= 1
<1>1. [type |-> "WRITE_FLASH_PACKET_RESPONSE", ack |-> ack, count |-> count] \in Response
  BY DEF Response
<1>2. QED
  BY <1>1 DEF send_raw_ack, HandlerTypeOK

\* The empty sequence, as a buffer and as a notification not sent.
LEMMA EmptySequences == <<>> \in Seq(Byte) /\ <<>> \in Seq(Response) /\ Len(<<>>) = 0
OBVIOUS

\* Zero is a count, an IV and a position in a double word.
LEMMA ZeroType == 0 \in Count /\ 0 \in Iv /\ 0 \in 0 .. DW - 1
BY FlashAssumption, HandlerAssumption DEF Count, Iv

\* The handler's variables as the C runtime initializes them.
LEMMA HandlerInitType == HandlerInit => HandlerTypeOK
<1> SUFFICES ASSUME HandlerInit PROVE HandlerTypeOK
  OBVIOUS
<1>1. flash_buff \in Seq(Byte) /\ tx \in Seq(Response) /\ Len(tx) <= 1
  BY EmptySequences DEF HandlerInit
<1>2. QED
  BY <1>1, ZeroType DEF HandlerInit, HandlerTypeOK, Status, FlashAppType

\* Sending nothing keeps the notification well typed.
LEMMA NoResponse ==
    ASSUME tx' = <<>>
    PROVE  tx' \in Seq(Response) /\ Len(tx') <= 1
OBVIOUS

\* A secure response is a well-formed notification, with fresh random bytes.
LEMMA SecureAckType ==
    ASSUME NEW ack \in BOOLEAN, NEW count \in Count, NEW iv \in Iv,
           send_secure_ack(ack, count, iv)
    PROVE  /\ old_ack' \in BOOLEAN /\ rand_IV' \in Iv
           /\ tx' \in Seq(Response) /\ Len(tx') <= 1
<1>1. \A r \in Rands : r \in Iv /\ [type |-> "WRITE_SECURE_FLASH_PACKET_RESPONSE", ack |-> ack,
                         count |-> count, iv |-> iv, rand |-> r] \in Response
  BY HandlerAssumption DEF Response, Iv
<1>2. QED
  BY <1>1 DEF send_secure_ack

\* What a packet of the client carries.
LEMMA PacketType ==
    ASSUME NEW p \in Packet
    PROVE  /\ p.cmd = "WRITE_FLASH_PACKET" =>
                 p.data \in Seq(Byte) /\ Len(p.data) = PAYLOAD_LEN
           /\ p.cmd = "WRITE_SECURE_FLASH_PACKET" =>
                 p.data \in Seq(Byte) /\ Len(p.data) = SECURE_PAYLOAD_BYTES
           /\ p.cmd \in {"START_FLASH_MODE", "START_SECURE_FLASH_MODE"} =>
                 p \in StartPacket /\ p.app \in AppType /\ p.total \in Count
<1>1. CASE p \in StartPacket
  BY <1>1, ClientAssumption DEF StartPacket
<1>2. CASE p \in RawPacket
  BY <1>2, ChunkType, ClientAssumption, HandlerAssumption DEF RawPacket, Count
<1>3. CASE p \in SecurePacket
  <2>1. PICK n \in Nums : p.data = Chunk(n, SECURE_PAYLOAD_BYTES)
    BY <1>3 DEF SecurePacket
  <2>2. p.data \in Seq(Byte) /\ Len(p.data) = SECURE_PAYLOAD_BYTES
    BY <2>1, ChunkType, ClientAssumption, HandlerAssumption DEF Count
  <2>3. p.cmd = "WRITE_SECURE_FLASH_PACKET"
    BY <1>3 DEF SecurePacket
  <2>4. QED
    BY <2>2, <2>3
<1>4. CASE p \in MasterNak
  BY <1>4 DEF MasterNak
<1>5. QED
  BY <1>1, <1>2, <1>3, <1>4 DEF Packet

\* A request, accepted or refused, keeps the handler well typed.
LEMMA StartType ==
    ASSUME FlashTypeOK, HandlerTypeOK, NEW p \in Packet,
           StartRaw(p) \/ StartSecure(p) \/ StartRefused(p), UNCHANGED running
    PROVE  FlashTypeOK' /\ HandlerTypeOK'
<1>1. CASE StartRefused(p)
  <2>1. old_ack' \in BOOLEAN /\ rand_IV' \in Iv /\ tx' \in Seq(Response) /\ Len(tx') <= 1
    BY <1>1, RawAckType DEF StartRefused, HandlerTypeOK
  <2>2. QED
    BY <1>1, <2>1 DEF StartRefused, FlashTypeOK, HandlerTypeOK, flashVars, windowVars
<1>2. ASSUME NEW len, NEW status \in {"RECEVEING_RAW_FW", "RECEVEING_SECURE_FW"},
             p.cmd \in {"START_FLASH_MODE", "START_SECURE_FLASH_MODE"},
             StartFlash(p, len, status)
      PROVE  FlashTypeOK' /\ HandlerTypeOK'
  <2>1. p.app \in AppType /\ p.total \in Count
    BY <1>2, PacketType
  <2>2. PICK ret \in BOOLEAN :
            /\ Prepare_Application_Memory(p.app, ret)
            /\ IF ret /\ checkFWSize(p.total, len, p.app)
               THEN /\ connection_status' = status
                    /\ IF status = "RECEVEING_RAW_FW"
                       THEN send_raw_ack(TRUE, count_pck)
                       ELSE send_secure_ack(TRUE, count_pck, IV)
               ELSE /\ UNCHANGED connection_status
                    /\ send_raw_ack(FALSE, count_pck)
    BY <1>2 DEF StartFlash
  <2>3. FlashTypeOK'
    BY <2>2, PrepareType DEF FlashTypeOK
  <2>4. connection_status' \in Status
    BY <2>2 DEF Status, HandlerTypeOK
  <2>5. \/ \E ack \in BOOLEAN : send_raw_ack(ack, count_pck)
        \/ send_secure_ack(TRUE, count_pck, IV)
    BY <2>2
  <2>6. old_ack' \in BOOLEAN /\ rand_IV' \in Iv /\ tx' \in Seq(Response) /\ Len(tx') <= 1
    BY <2>5, RawAckType, SecureAckType DEF HandlerTypeOK
  <2>7. QED
    BY <1>2, <2>1, <2>3, <2>4, <2>6 DEF StartFlash, HandlerTypeOK, windowVars, FlashAppType
<1>3. CASE StartRaw(p)
  BY <1>2, <1>3 DEF StartRaw
<1>4. CASE StartSecure(p)
  BY <1>2, <1>4 DEF StartSecure
<1>5. QED
  BY <1>1, <1>3, <1>4

\* The variables a packet of a window changes.
WindowTypeOK ==
    /\ flash \in [Address -> Content] /\ StartPageAddress \in Nat /\ locked \in BOOLEAN
    /\ flash_buff \in Seq(Byte) /\ byte_pos \in 0 .. DW - 1
    /\ count_pck \in Count /\ next_ack \in BOOLEAN
    /\ connection_status \in Status

\* byte_pos stays inside a double word, whatever a packet holds.
LEMMA BytePosType ==
    ASSUME byte_pos \in 0 .. DW - 1, NEW taken \in BOOLEAN, NEW data \in Seq(Byte),
           MoveBytePos(taken, data)
    PROVE  byte_pos' \in 0 .. DW - 1
BY FlashAssumption DEF MoveBytePos

\* Taking a packet, and ending a window, keep the handler well typed.
LEMMA WindowType ==
    ASSUME FlashTypeOK, HandlerTypeOK,
           NEW taken \in BOOLEAN, NEW data \in Seq(Byte), NEW window \in Nat,
           \/ AddToWindow(taken, data)
           \/ RefuseWindow(taken, data, window)
           \/ \E ret \in BOOLEAN : WriteWindow(taken, data, window, ret)
    PROVE  WindowTypeOK'
<1>1. Buffered(taken, data) \in Seq(Byte)
  BY DEF Buffered, HandlerTypeOK
<1>2. CountUp \in Count /\ SetBack(window) \in Count
  BY CountType DEF HandlerTypeOK
<1>3. CASE AddToWindow(taken, data)
  <2>1. byte_pos' \in 0 .. DW - 1
    BY <1>3, BytePosType DEF AddToWindow, HandlerTypeOK
  <2>2. next_ack' \in BOOLEAN
    BY <1>3 DEF AddToWindow
  <2>3. QED
    BY <1>1, <1>2, <1>3, <2>1, <2>2
    DEF AddToWindow, WindowTypeOK, FlashTypeOK, HandlerTypeOK, flashVars
<1>4. ASSUME NewWindow(taken, data)
      PROVE  /\ flash_buff' \in Seq(Byte) /\ byte_pos' \in 0 .. DW - 1
             /\ next_ack' \in BOOLEAN /\ connection_status' \in Status
  <2>1. byte_pos' \in 0 .. DW - 1
    BY <1>4, BytePosType DEF NewWindow, HandlerTypeOK
  <2>2. QED
    BY <1>4, <2>1 DEF NewWindow, HandlerTypeOK, Status
<1>5. CASE RefuseWindow(taken, data, window)
  BY <1>2, <1>4, <1>5 DEF RefuseWindow, WindowTypeOK, FlashTypeOK, flashVars
<1>6. ASSUME NEW ret \in BOOLEAN, WriteWindow(taken, data, window, ret)
      PROVE  WindowTypeOK'
  <2>1. /\ flash' \in [Address -> Content] /\ StartPageAddress' \in Nat
        /\ locked' \in BOOLEAN
    BY <1>1, <1>6, WriteType DEF WriteWindow
  <2>2. QED
    BY <1>2, <1>4, <1>6, <2>1 DEF WriteWindow, WindowTypeOK
<1>7. QED
  BY <1>3, <1>5, <1>6
\* The bytes a packet adds to the window.
LEMMA DataType ==
    ASSUME NEW p \in Packet
    PROVE  /\ TakenRaw(p) \in BOOLEAN /\ RawData(p) \in Seq(Byte)
           /\ TakenSecure(p) \in BOOLEAN /\ SecureData(p) \in Seq(Byte)
           /\ Len(RawData(p)) <= PAYLOAD_LEN
           /\ Len(SecureData(p)) <= SECURE_PAYLOAD_BYTES
<1>1. SECURE_PAYLOAD_BYTES \in Nat /\ PAYLOAD_LEN \in Nat
  BY HandlerAssumption
<1>2. RawData(p) \in Seq(Byte) /\ Len(RawData(p)) <= PAYLOAD_LEN
  BY <1>1, PacketType DEF RawData, TakenRaw
<1>3. TakenSecure(p) =>
        decrypt_data(p) \in Seq(Byte) /\ Len(decrypt_data(p)) = SECURE_PAYLOAD_BYTES
  BY <1>1, PacketType DEF TakenSecure, decrypt_data, Byte
<1>4. SecureData(p) \in Seq(Byte) /\ Len(SecureData(p)) <= SECURE_PAYLOAD_BYTES
  BY <1>1, <1>3 DEF SecureData
<1>5. TakenRaw(p) \in BOOLEAN /\ TakenSecure(p) \in BOOLEAN
  BY DEF TakenRaw, TakenSecure
<1>6. QED
  BY <1>2, <1>4, <1>5

\* A packet received in raw mode keeps the handler well typed.
LEMMA RawType ==
    ASSUME FlashTypeOK, HandlerTypeOK, NEW p \in Packet, ReceiveRaw(p), UNCHANGED running
    PROVE  FlashTypeOK' /\ HandlerTypeOK'
<1> DEFINE W == RAW_NUM_CUMULATIVE_ACK
<1>1. /\ RawData(p) \in Seq(Byte) /\ TakenRaw(p) \in BOOLEAN /\ W \in Nat
      /\ TRUE \in BOOLEAN /\ FALSE \in BOOLEAN
  BY DataType, HandlerAssumption
<1>2. CASE AddToWindow(TakenRaw(p), RawData(p))
  <2>1. WindowTypeOK'
    BY <1>1, <1>2, WindowType
  <2>2. QED
    BY <1>2, <2>1 DEF AddToWindow, ReceiveRaw, WindowTypeOK, FlashTypeOK, HandlerTypeOK
<1>3. CASE RefuseWindow(TakenRaw(p), RawData(p), W) /\ send_raw_ack(FALSE, count_pck')
  <2>1. WindowTypeOK'
    BY <1>1, <1>3, WindowType
  <2>2. old_ack' \in BOOLEAN /\ rand_IV' \in Iv /\ tx' \in Seq(Response) /\ Len(tx') <= 1
    BY <1>1, <1>3, <2>1, RawAckType DEF WindowTypeOK
  <2>3. QED
    BY <2>1, <2>2 DEF ReceiveRaw, WindowTypeOK, FlashTypeOK, HandlerTypeOK
<1>4. ASSUME NEW ret \in BOOLEAN,
             WriteWindow(TakenRaw(p), RawData(p), W, ret), send_raw_ack(ret, count_pck')
      PROVE  FlashTypeOK' /\ HandlerTypeOK'
  <2>1. WindowTypeOK'
    BY <1>1, <1>4, WindowType
  <2>2. old_ack' \in BOOLEAN /\ rand_IV' \in Iv /\ tx' \in Seq(Response) /\ Len(tx') <= 1
    BY <1>4, <2>1, RawAckType DEF WindowTypeOK
  <2>3. QED
    BY <2>1, <2>2 DEF ReceiveRaw, WindowTypeOK, FlashTypeOK, HandlerTypeOK
<1>5. QED
  BY <1>2, <1>3, <1>4 DEF ReceiveRaw

\* A packet received in secure mode keeps the handler well typed.
LEMMA SecureType ==
    ASSUME FlashTypeOK, HandlerTypeOK, NEW p \in Packet, ReceiveSecure(p), UNCHANGED running
    PROVE  FlashTypeOK' /\ HandlerTypeOK'
<1> DEFINE W == SECURE_NUM_CUMULATIVE_ACK
<1>1. /\ SecureData(p) \in Seq(Byte) /\ TakenSecure(p) \in BOOLEAN /\ W \in Nat
      /\ TRUE \in BOOLEAN /\ FALSE \in BOOLEAN
  BY DataType, HandlerAssumption
<1>2. IV' \in Iv /\ CountUp \in Count
  BY IvType, CountType DEF ReceiveSecure, MoveIV, HandlerTypeOK
<1>3. CASE AddToWindow(TakenSecure(p), SecureData(p))
  <2>1. WindowTypeOK'
    BY <1>1, <1>3, WindowType
  <2>2. QED
    BY <1>2, <1>3, <2>1 DEF AddToWindow, ReceiveSecure, WindowTypeOK, FlashTypeOK, HandlerTypeOK
<1>4. ASSUME NEW ack \in BOOLEAN, send_secure_ack(ack, CountUp, IV'),
             \/ RefuseWindow(TakenSecure(p), SecureData(p), W)
             \/ \E ret \in BOOLEAN : WriteWindow(TakenSecure(p), SecureData(p), W, ret)
      PROVE  FlashTypeOK' /\ HandlerTypeOK'
  <2>1. WindowTypeOK'
    BY <1>1, <1>4, WindowType
  <2>2. old_ack' \in BOOLEAN /\ rand_IV' \in Iv /\ tx' \in Seq(Response) /\ Len(tx') <= 1
    BY <1>2, <1>4, SecureAckType
  <2>3. QED
    BY <1>2, <2>1, <2>2 DEF ReceiveSecure, WindowTypeOK, FlashTypeOK, HandlerTypeOK
<1>5. QED
  BY <1>1, <1>3, <1>4 DEF ReceiveSecure

\* data_handler keeps the handler well typed, in each of its branches.
LEMMA HandlerType ==
    ASSUME FlashTypeOK, HandlerTypeOK, NEW p \in Packet, data_handler(p)
    PROVE  FlashTypeOK' /\ HandlerTypeOK'
<1>1. CASE (StartRaw(p) \/ StartSecure(p) \/ StartRefused(p)) /\ UNCHANGED running
  BY <1>1, StartType
<1>2. CASE ReceiveRaw(p) /\ UNCHANGED running
  BY <1>2, RawType
<1>3. CASE ReceiveSecure(p) /\ UNCHANGED running
  BY <1>3, SecureType
<1>4. CASE ResendAck(p) /\ UNCHANGED running
  <2>1. old_ack' \in BOOLEAN /\ rand_IV' \in Iv /\ tx' \in Seq(Response) /\ Len(tx') <= 1
    BY <1>4, SecureAckType DEF ResendAck, HandlerTypeOK
  <2>2. QED
    BY <1>4, <2>1 DEF ResendAck, FlashTypeOK, HandlerTypeOK, flashVars, windowVars
<1>5. CASE IgnorePacket /\ UNCHANGED running
  BY <1>5 DEF IgnorePacket, FlashTypeOK, HandlerTypeOK, flashVars, windowVars, cryptoVars
<1>6. CASE OverrunRaw(p)
  BY <1>6 DEF OverrunRaw, Overrun, FlashTypeOK, HandlerTypeOK, flashVars, windowVars
<1>7. CASE OverrunSecure(p)
  BY <1>7, IvType
  DEF OverrunSecure, Overrun, MoveIV, FlashTypeOK, HandlerTypeOK, flashVars, windowVars
<1>8. QED
  BY <1>1, <1>2, <1>3, <1>4, <1>5, <1>6, <1>7 DEF data_handler

-----------------------------------------------------------------------------
\* The device's steps keep every variable in its type.
LEMMA TypeStep ==
    ASSUME TypeOK, [Next]_vars
    PROVE  TypeOK'
<1> USE DEF TypeOK
<1>1. CASE Enable_Advertising
  BY <1>1, NoResponse DEF Enable_Advertising, FlashTypeOK, HandlerTypeOK, flashVars, windowVars, cryptoVars
<1>2. CASE GAP_ConnectionComplete_CB
  BY <1>2, NoResponse DEF GAP_ConnectionComplete_CB, FlashTypeOK, HandlerTypeOK, Status, flashVars,
              windowVars, cryptoVars
<1>3. CASE ConnectionMissed
  BY <1>3, NoResponse DEF ConnectionMissed, FlashTypeOK, HandlerTypeOK, flashVars, windowVars, cryptoVars
<1>4. CASE GAP_DisconnectionComplete_CB
  <2>1. CASE Complete
    BY <1>4, <2>1 DEF GAP_DisconnectionComplete_CB, go2App, FlashTypeOK, HandlerTypeOK,
                      Status, flashVars, windowVars, cryptoVars
  <2>2. CASE ~Complete
    <3>1. PICK ret \in BOOLEAN : Prepare_Application_Memory(AppToUpdate, ret)
      BY <1>4, <2>2 DEF GAP_DisconnectionComplete_CB
    <3>2. FlashTypeOK'
      BY <1>4, <2>2, <3>1, PrepareType DEF GAP_DisconnectionComplete_CB, FlashTypeOK
    <3>3. HandlerTypeOK' /\ set_connectable' \in BOOLEAN /\ advertising' \in BOOLEAN
      <4>1. flash_buff' \in Seq(Byte) /\ tx' \in Seq(Response) /\ Len(tx') <= 1
        <5>1. flash_buff' = <<>> /\ tx' = <<>>
          BY <1>4, <2>2 DEF GAP_DisconnectionComplete_CB
        <5>2. QED
          BY <5>1, EmptySequences
      <4>2. QED
        BY <1>4, <2>2, <4>1, ZeroType
        DEF GAP_DisconnectionComplete_CB, HandlerTypeOK, Status, cryptoVars
    <3>4. QED
      BY <3>2, <3>3
  <2>3. QED
    BY <2>1, <2>2
<1>5. CASE \E p \in Packet : p.cmd \in Commands /\ Attribute_Modified_CB(p)
  BY <1>5, HandlerType DEF Attribute_Modified_CB, radioVars
<1>6. CASE Reset
  <2>1. FlashTypeOK'
    BY <1>6, FlashAssumption, ClientAssumption
    DEF Reset, FlashTypeOK, FlashAppType, AppType
  <2>2. HandlerTypeOK'
    <3>1. flash_buff' \in Seq(Byte) /\ tx' \in Seq(Response) /\ Len(tx') <= 1
      BY <1>6, EmptySequences DEF Reset
    <3>2. QED
      BY <1>6, <3>1, ZeroType DEF Reset, HandlerTypeOK, Status, FlashAppType
  <2>3. QED
    BY <1>6, <2>1, <2>2 DEF Reset
<1>7. CASE UNCHANGED vars
  BY <1>7 DEF vars, handlerVars, radioVars, FlashTypeOK, HandlerTypeOK, flashVars,
              windowVars, cryptoVars
<1>8. QED
  BY <1>1, <1>2, <1>3, <1>4, <1>5, <1>6, <1>7 DEF Next

\* The device starts with every variable in its type.
LEMMA InitType ==
    ASSUME Init
    PROVE  TypeOK
<1>1. FlashTypeOK
  <2>1. flash \in [Address -> Content]
    BY DEF Init, Content
  <2>2. QED
    BY <2>1, FlashAssumption DEF Init, FlashTypeOK
<1>2. HandlerTypeOK
  BY HandlerInitType DEF Init
<1>3. QED
  BY <1>1, <1>2 DEF Init, TypeOK

\* Every variable keeps its type: no counter leaves 16 bits, byte_pos stays
\* inside a double word, and what is programmed is bytes.
THEOREM TypeCorrect == Spec => []TypeOK
<1>1. Init => TypeOK
  BY InitType
<1>2. TypeOK /\ [Next]_vars => TypeOK'
  BY TypeStep
<1>3. QED
  BY <1>1, <1>2, PTL DEF Spec
-----------------------------------------------------------------------------
(***************************************************************************)
(* The counters and the state of the connection.  The disconnection        *)
(* callback looks only at the counters; SessionInv says why that is sound: *)
(* outside a session they are apart, since count_pck is 0 and total_pck is *)
(* not, and inside one every step that makes them equal closes it.         *)
(***************************************************************************)
SessionInv ==
    /\ InBootloader =>
          /\ connection_status \in {"IDLE", "CONNECTED"} => count_pck = 0
          /\ Receiving => ~Complete
          /\ advertising \/ set_connectable => connection_status = "IDLE"
          /\ ~(advertising /\ set_connectable)
    /\ ~Receiving => flash_buff = <<>>
    /\ ~InBootloader => flash_buff = <<>>

USE DEF InBootloader, Receiving, Complete

\* data_handler keeps SessionInv: only a finished image closes the session.
LEMMA SessionHandler ==
    ASSUME SessionInv, InBootloader, NEW p, data_handler(p), UNCHANGED radioVars
    PROVE  SessionInv'
<1>1. CASE (StartRaw(p) \/ StartSecure(p)) /\ UNCHANGED running
  <2>1. /\ connection_status = "CONNECTED"
        /\ UNCHANGED <<count_pck, flash_buff>>
        /\ connection_status' \in {"CONNECTED", "RECEVEING_RAW_FW", "RECEVEING_SECURE_FW"}
    BY <1>1 DEF StartRaw, StartSecure, StartFlash, windowVars
  <2>2. count_pck' = 0 /\ flash_buff' = <<>>
    BY <2>1 DEF SessionInv
  <2>3. UNCHANGED <<advertising, set_connectable>> /\ ~advertising /\ ~set_connectable
    BY <2>1 DEF SessionInv, radioVars
  <2>4. QED
    BY <1>1, <2>1, <2>2, <2>3 DEF SessionInv
<1>2. CASE (StartRefused(p) \/ ResendAck(p) \/ IgnorePacket) /\ UNCHANGED running
  BY <1>2 DEF StartRefused, ResendAck, IgnorePacket, SessionInv, windowVars, radioVars
<1>3. ASSUME NEW taken, NEW data, Receiving, AddToWindow(taken, data),
             UNCHANGED <<running, total_pck>>, CountUp # total_pck
      PROVE  SessionInv'
  BY <1>3 DEF AddToWindow, SessionInv, radioVars
<1>4. ASSUME NEW taken, NEW data, Receiving, NewWindow(taken, data),
             UNCHANGED <<running, total_pck>>
      PROVE  SessionInv'
  BY <1>4 DEF NewWindow, SessionInv, radioVars
<1>5. CASE ReceiveRaw(p) /\ UNCHANGED running
  <2>1. Receiving /\ UNCHANGED total_pck
    BY <1>5 DEF ReceiveRaw
  <2>2. \/ AddToWindow(TakenRaw(p), RawData(p)) /\ CountUp # total_pck
        \/ NewWindow(TakenRaw(p), RawData(p))
    BY <1>5 DEF ReceiveRaw, RefuseWindow, WriteWindow, WindowEnds
  <2>3. QED
    BY <1>3, <1>4, <1>5, <2>1, <2>2
<1>6. CASE ReceiveSecure(p) /\ UNCHANGED running
  <2>1. Receiving /\ UNCHANGED total_pck
    BY <1>6 DEF ReceiveSecure
  <2>2. \/ AddToWindow(TakenSecure(p), SecureData(p)) /\ CountUp # total_pck
        \/ NewWindow(TakenSecure(p), SecureData(p))
    BY <1>6 DEF ReceiveSecure, RefuseWindow, WriteWindow, WindowEnds
  <2>3. QED
    BY <1>3, <1>4, <1>6, <2>1, <2>2
<1>7. CASE OverrunRaw(p) \/ OverrunSecure(p)
  BY <1>7 DEF OverrunRaw, OverrunSecure, WildStore, Overrun, SessionInv, windowVars
<1>8. QED
  BY <1>1, <1>2, <1>5, <1>6, <1>7 DEF data_handler

\* SessionInv is an invariant of the device.
LEMMA SessionInductive == Spec => []SessionInv
<1>1. Init => SessionInv
  BY DEF Init, HandlerInit, SessionInv
<1>2. TypeOK /\ SessionInv /\ [Next]_vars => SessionInv'
  <2> SUFFICES ASSUME TypeOK, SessionInv, [Next]_vars PROVE SessionInv'
    OBVIOUS
  <2>1. CASE Enable_Advertising
    BY <2>1 DEF Enable_Advertising, SessionInv, windowVars
  <2>2. CASE GAP_ConnectionComplete_CB
    BY <2>2 DEF GAP_ConnectionComplete_CB, SessionInv, windowVars
  <2>3. CASE ConnectionMissed
    BY <2>3 DEF ConnectionMissed, SessionInv, windowVars
  <2>4. CASE GAP_DisconnectionComplete_CB
    <3>1. CASE Complete
      <4>1. AppToUpdate # "bootloader"
        BY DEF TypeOK, HandlerTypeOK, FlashAppType, AppType
      <4>2. ~Receiving /\ flash_buff = <<>> /\ running = "bootloader"
        BY <2>4, <3>1 DEF GAP_DisconnectionComplete_CB, SessionInv
      <4>3. running' # "bootloader" /\ flash_buff' = <<>>
        BY <2>4, <3>1, <4>1, <4>2 DEF GAP_DisconnectionComplete_CB, go2App, windowVars
      <4>4. QED
        BY <4>3 DEF SessionInv
    <3>2. CASE ~Complete
      BY <2>4, <3>2 DEF GAP_DisconnectionComplete_CB, SessionInv
    <3>3. QED
      BY <3>1, <3>2
  <2>5. CASE \E p \in Packet : p.cmd \in Commands /\ Attribute_Modified_CB(p)
    BY <2>5, SessionHandler DEF Attribute_Modified_CB
  <2>6. CASE Reset
    BY <2>6 DEF Reset, SessionInv
  <2>7. CASE UNCHANGED vars
    BY <2>7 DEF vars, handlerVars, radioVars, windowVars, SessionInv
  <2>8. QED
    BY <2>1, <2>2, <2>3, <2>4, <2>5, <2>6, <2>7 DEF Next
<1>3. QED
  BY <1>1, <1>2, TypeCorrect, PTL DEF Spec

\* The disconnection callback jumps only out of a session whose every packet
\* was handled: equal counters imply the closing state, for every client.
THEOREM CompleteIsClosing == Spec => []CompleteMeansClosing
<1>1. TypeOK /\ SessionInv => CompleteMeansClosing
  BY DEF TypeOK, HandlerTypeOK, Status, SessionInv, CompleteMeansClosing
<1>2. QED
  BY <1>1, TypeCorrect, SessionInductive, PTL
-----------------------------------------------------------------------------
(***************************************************************************)
(* The window buffer.  Its bound is not inductive: nothing in the code     *)
(* looks at the length.  What is inductive is that the bytes present are   *)
(* no more than the packets of this window, which the packet counter       *)
(* modulo the window counts, wherever refusals have set it back to.        *)
(***************************************************************************)
BufferInv ==
    /\ connection_status = "RECEVEING_RAW_FW" =>
          Len(flash_buff) <= (count_pck % RAW_NUM_CUMULATIVE_ACK) * PAYLOAD_LEN
    /\ connection_status = "RECEVEING_SECURE_FW" =>
          Len(flash_buff) <= (count_pck % SECURE_NUM_CUMULATIVE_ACK) * SECURE_PAYLOAD_BYTES

\* Counting inside a window.
LEMMA ModStep ==
    ASSUME NEW c \in Nat, NEW w \in Nat \ {0}, (c + 1) % w # 0
    PROVE  (c + 1) % w = (c % w) + 1
<1> DEFINE q == c \div w
           r == c % w
<1>1. q \in Int /\ r \in 0 .. w - 1 /\ c = q * w + r
  BY SMT
<1> HIDE DEF q, r
<1>2. CASE r + 1 < w
  <2>1. c + 1 = q * w + (r + 1) /\ r + 1 \in 0 .. w - 1
    BY <1>1, <1>2
  <2>2. (c + 1) % w = r + 1
    BY <1>1, <2>1, SMT
  <2>3. QED
    BY <2>2 DEF r
<1>3. CASE r + 1 = w
  <2>1. c + 1 = (q + 1) * w
    BY <1>1, <1>3
  <2>2. (c + 1) % w = 0
    BY <1>1, <2>1, SMT
  <2>3. QED
    BY <2>2
<1>4. QED
  BY <1>1, <1>2, <1>3

\* A packet that does not end its window moves the count in it by one, also
\* where the 16-bit counter wraps: there the window ends.
LEMMA CountUpInWindow ==
    ASSUME count_pck \in Count, NEW w \in Nat \ {0}, ~WindowEnds(w)
    PROVE  CountUp % w = (count_pck % w) + 1
<1>1. CountMod \in Nat \ {0} /\ count_pck \in Nat /\ count_pck < CountMod
  BY HandlerAssumption DEF Count
<1>2. CountUp % w # 0
  BY DEF WindowEnds
<1>3. CASE count_pck + 1 = CountMod
  <2>1. CountUp = 0
    BY <1>1, <1>3 DEF CountUp
  <2>2. QED
    BY <1>2, <2>1
<1>4. CASE count_pck + 1 < CountMod
  <2>1. CountUp = count_pck + 1
    BY <1>1, <1>4 DEF CountUp
  <2>2. QED
    BY <1>1, <1>2, <2>1, ModStep
<1>5. QED
  BY <1>1, <1>3, <1>4

\* A packet added to a window that does not end keeps the buffer in proportion.
LEMMA AddBound ==
    ASSUME flash_buff \in Seq(Byte), count_pck \in Count,
           NEW w \in Nat \ {0}, NEW len \in Nat, ~WindowEnds(w),
           Len(flash_buff) <= (count_pck % w) * len,
           NEW taken \in BOOLEAN, NEW data \in Seq(Byte), Len(data) <= len,
           AddToWindow(taken, data)
    PROVE  Len(flash_buff') <= (count_pck' % w) * len
<1> DEFINE k == count_pck % w
<1>1. k \in Nat
  BY HandlerAssumption DEF Count
<1>2. count_pck' % w = k + 1
  BY CountUpInWindow DEF AddToWindow
<1>3. Len(flash_buff') <= Len(flash_buff) + len
  BY DEF AddToWindow, Buffered
<1>4. flash_buff' \in Seq(Byte)
  BY DEF AddToWindow, Buffered
<1> HIDE DEF k
<1>5. (k + 1) * len = k * len + len
  BY <1>1
<1>6. k * len \in Nat
  BY <1>1
<1>7. Len(flash_buff) <= k * len
  BY DEF k
<1>8. QED
  BY <1>2, <1>3, <1>4, <1>5, <1>6, <1>7

\* A remainder by a positive number is a natural number.
LEMMA ModNat ==
    ASSUME NEW c \in Nat, NEW w \in Nat \ {0}
    PROVE  c % w \in Nat
OBVIOUS

\* An empty buffer is within any bound.
LEMMA EmptyBound ==
    ASSUME TypeOK', flash_buff' = <<>>
    PROVE  BufferInv'
<1>1. ASSUME NEW w \in Nat \ {0}, NEW len \in Nat
      PROVE  Len(flash_buff') <= (count_pck' % w) * len
  <2>1. count_pck' % w \in Nat
    <3>1. count_pck' \in Nat
      BY HandlerAssumption DEF TypeOK, HandlerTypeOK, Count
    <3>2. w \in Nat \ {0}
      BY <1>1
    <3>3. QED
      BY <3>1, <3>2, ModNat
  <2>2. (count_pck' % w) * len \in Nat
    BY <2>1
  <2>3. QED
    BY <2>2
<1>2. QED
  BY <1>1, HandlerAssumption DEF BufferInv

\* data_handler keeps the buffer in proportion to the packets of the window.
LEMMA BufferHandler ==
    ASSUME TypeOK, TypeOK', SessionInv, BufferInv, InBootloader,
           NEW p \in Packet, data_handler(p)
    PROVE  BufferInv'
<1>1. CASE StartRaw(p) \/ StartSecure(p) \/ StartRefused(p)
  <2>1. flash_buff' = <<>>
    BY <1>1 DEF StartRaw, StartSecure, StartFlash, StartRefused, windowVars, SessionInv
  <2>2. QED
    BY <2>1, EmptyBound
<1>2. CASE ResendAck(p) \/ IgnorePacket
  BY <1>2 DEF ResendAck, IgnorePacket, windowVars, BufferInv
<1>3. CASE ReceiveRaw(p)
  <2>1. CASE ~WindowEnds(RAW_NUM_CUMULATIVE_ACK) /\ AddToWindow(TakenRaw(p), RawData(p))
    <3>1. Len(flash_buff') <= (count_pck' % RAW_NUM_CUMULATIVE_ACK) * PAYLOAD_LEN
      BY <1>3, <2>1, DataType, AddBound, HandlerAssumption
      DEF ReceiveRaw, BufferInv, TypeOK, HandlerTypeOK
    <3>2. connection_status' = "RECEVEING_RAW_FW"
      BY <1>3, <2>1 DEF ReceiveRaw, AddToWindow
    <3>3. QED
      BY <3>1, <3>2 DEF BufferInv
  <2>2. CASE flash_buff' = <<>>
    BY <2>2, EmptyBound
  <2>3. QED
    BY <1>3, <2>1, <2>2 DEF ReceiveRaw, RefuseWindow, WriteWindow, NewWindow
<1>4. CASE ReceiveSecure(p)
  <2>1. CASE ~WindowEnds(SECURE_NUM_CUMULATIVE_ACK)
             /\ AddToWindow(TakenSecure(p), SecureData(p))
    <3>1. Len(flash_buff') <= (count_pck' % SECURE_NUM_CUMULATIVE_ACK) * SECURE_PAYLOAD_BYTES
      BY <1>4, <2>1, DataType, AddBound, HandlerAssumption
      DEF ReceiveSecure, BufferInv, TypeOK, HandlerTypeOK
    <3>2. connection_status' = "RECEVEING_SECURE_FW"
      BY <1>4, <2>1 DEF ReceiveSecure, AddToWindow
    <3>3. QED
      BY <3>1, <3>2 DEF BufferInv
  <2>2. CASE flash_buff' = <<>>
    BY <2>2, EmptyBound
  <2>3. QED
    BY <1>4, <2>1, <2>2 DEF ReceiveSecure, RefuseWindow, WriteWindow, NewWindow
<1>5. CASE OverrunRaw(p) \/ OverrunSecure(p)
  BY <1>5 DEF OverrunRaw, OverrunSecure, Overrun, windowVars, BufferInv
<1>6. QED
  BY <1>1, <1>2, <1>3, <1>4, <1>5 DEF data_handler

\* BufferInv is an invariant of the device.
LEMMA BufferInductive == Spec => []BufferInv
<1>1. Init => BufferInv
  BY DEF Init, HandlerInit, BufferInv
<1>2. TypeOK /\ TypeOK' /\ SessionInv /\ BufferInv /\ [Next]_vars => BufferInv'
  <2> SUFFICES ASSUME TypeOK, TypeOK', SessionInv, BufferInv, [Next]_vars PROVE BufferInv'
    OBVIOUS
  <2>1. CASE Enable_Advertising \/ ConnectionMissed
    BY <2>1 DEF Enable_Advertising, ConnectionMissed, BufferInv, windowVars
  <2>2. CASE GAP_ConnectionComplete_CB \/ GAP_DisconnectionComplete_CB \/ Reset
    BY <2>2 DEF GAP_ConnectionComplete_CB, GAP_DisconnectionComplete_CB, Reset, BufferInv
  <2>3. CASE \E p \in Packet : p.cmd \in Commands /\ Attribute_Modified_CB(p)
    BY <2>3, BufferHandler DEF Attribute_Modified_CB
  <2>4. CASE UNCHANGED vars
    BY <2>4 DEF vars, handlerVars, windowVars, BufferInv
  <2>5. QED
    BY <2>1, <2>2, <2>3, <2>4 DEF Next
<1>3. QED
  BY <1>1, <1>2, TypeCorrect, SessionInductive, PTL DEF Spec

\* Fewer packets than a window hold no more bytes than flash_buff has room for.
LEMMA WindowBound ==
    ASSUME NEW c \in Nat, NEW w \in Nat \ {0}, NEW len \in Nat
    PROVE  (c % w) * len \in Nat /\ (c % w) * len <= w * len
<1>1. c % w \in Nat /\ c % w <= w
  OBVIOUS
<1>2. ASSUME NEW a \in Nat, a <= w PROVE a * len \in Nat /\ a * len <= w * len
  BY <1>2
<1>3. QED
  BY <1>1, <1>2

\* flash_buff is never written past its end, for every geometry in which a
\* window fits it and every sequence of packets, sessions and failures.
THEOREM BufferBounded == Spec => []BufferBound
<1>1. TypeOK /\ SessionInv /\ BufferInv => BufferBound
  <2> SUFFICES ASSUME TypeOK, SessionInv, BufferInv PROVE BufferBound
    OBVIOUS
  <2>1. count_pck \in Nat /\ flash_buff \in Seq(Byte)
    BY HandlerAssumption DEF TypeOK, HandlerTypeOK, Count
  <2>2. RAW_NUM_CUMULATIVE_ACK * PAYLOAD_LEN \in Nat
        /\ SECURE_NUM_CUMULATIVE_ACK * SECURE_PAYLOAD_BYTES \in Nat
        /\ BUFF_DWORDS * DW \in Nat
    BY FlashAssumption, HandlerAssumption
  <2>3. CASE ~Receiving
    BY <2>2, <2>3 DEF SessionInv, BufferBound
  <2>4. CASE connection_status = "RECEVEING_RAW_FW"
    <3> DEFINE m == (count_pck % RAW_NUM_CUMULATIVE_ACK) * PAYLOAD_LEN
    <3>1. m <= RAW_NUM_CUMULATIVE_ACK * PAYLOAD_LEN /\ m \in Nat
      <4>1. RAW_NUM_CUMULATIVE_ACK \in Nat \ {0} /\ PAYLOAD_LEN \in Nat
        BY HandlerAssumption
      <4>2. QED
        BY <2>1, <4>1, WindowBound, Zenon
    <3>2. Len(flash_buff) <= m
      BY <2>4 DEF BufferInv
    <3> HIDE DEF m
    <3>3. RAW_NUM_CUMULATIVE_ACK * PAYLOAD_LEN <= BUFF_DWORDS * DW
      BY HandlerAssumption
    <3>4. QED
      BY <2>1, <2>2, <3>1, <3>2, <3>3 DEF BufferBound
  <2>5. CASE connection_status = "RECEVEING_SECURE_FW"
    <3> DEFINE m == (count_pck % SECURE_NUM_CUMULATIVE_ACK) * SECURE_PAYLOAD_BYTES
    <3>1. m <= SECURE_NUM_CUMULATIVE_ACK * SECURE_PAYLOAD_BYTES /\ m \in Nat
      <4>1. SECURE_NUM_CUMULATIVE_ACK \in Nat \ {0} /\ SECURE_PAYLOAD_BYTES \in Nat
        BY HandlerAssumption
      <4>2. QED
        BY <2>1, <4>1, WindowBound, Zenon
    <3>2. Len(flash_buff) <= m
      BY <2>5 DEF BufferInv
    <3> HIDE DEF m
    <3>3. SECURE_NUM_CUMULATIVE_ACK * SECURE_PAYLOAD_BYTES <= BUFF_DWORDS * DW
      BY HandlerAssumption
    <3>4. QED
      BY <2>1, <2>2, <3>1, <3>2, <3>3 DEF BufferBound
  <2>6. QED
    BY <2>3, <2>4, <2>5
<1>2. QED
  BY <1>1, TypeCorrect, SessionInductive, BufferInductive, PTL
-----------------------------------------------------------------------------
(***************************************************************************)
(* The flash: it is programmed in order and without holes while an image   *)
(* is received, and erased when a session is given up.                     *)
(***************************************************************************)
\* The application's pages are programmed exactly up to StartPageAddress.
Frontier(app) ==
    /\ Base(app) <= StartPageAddress
    /\ \A a \in Region(app) : flash[a] = Erased <=> a >= StartPageAddress

\* An application's pages are in the flash.
LEMMA RegionInFlash == \A app : Base(app) \in Nat /\ Region(app) \subseteq Address
BY FlashAssumption DEF Base, Limit, Region, Address

-----------------------------------------------------------------------------
\* A write, to its end or not, moves the frontier past what it programmed.
LEMMA WriteMovesFrontier ==
    ASSUME FlashTypeOK, NEW app, Frontier(app), NEW ret,
           NEW bytes \in Seq(Byte), Write_FW_to_flash(Dwords(bytes), ret)
    PROVE  Frontier(app)'
<1> DEFINE dwords == Dwords(bytes)
<1>1. dwords \in Seq(Seq(Byte))
  BY DwordsType
<1> HIDE DEF dwords
<1>2. PICK n \in 0 .. Len(dwords) : /\ flash' = Programmed(dwords, n)
                                   /\ StartPageAddress' = StartPageAddress + n
  BY <1>1 DEF Write_FW_to_flash, dwords
<1>3. n \in Nat /\ StartPageAddress \in Nat /\ Base(app) \in Nat
  BY <1>1, <1>2, RegionInFlash DEF FlashTypeOK
<1>4. Base(app) <= StartPageAddress'
  BY <1>2, <1>3 DEF Frontier
<1>5. ASSUME NEW a \in Region(app) PROVE flash'[a] = Erased <=> a >= StartPageAddress'
  <2>1. a \in Address /\ a \in Nat
    BY RegionInFlash, FlashAssumption DEF Address
  <2>2. CASE a \in StartPageAddress .. StartPageAddress + n - 1
    <3>1. a - StartPageAddress + 1 \in 1 .. Len(dwords)
      BY <1>1, <1>2, <1>3, <2>1, <2>2
    <3>2. flash'[a] = dwords[a - StartPageAddress + 1]
      BY <1>2, <2>1, <2>2 DEF Programmed
    <3>3. dwords[a - StartPageAddress + 1] \in Seq(Byte)
      BY <1>1, <3>1
    <3>4. flash'[a] # Erased
      BY <3>2, <3>3, MarksAssumption DEF Byte
    <3>5. ~(a >= StartPageAddress')
      BY <1>2, <1>3, <2>1, <2>2
    <3>6. QED
      BY <3>4, <3>5
  <2>3. CASE a \notin StartPageAddress .. StartPageAddress + n - 1
    <3>1. flash'[a] = flash[a]
      BY <1>2, <2>1, <2>3 DEF Programmed
    <3>2. a >= StartPageAddress <=> a >= StartPageAddress'
      BY <1>2, <1>3, <2>1, <2>3
    <3>3. QED
      BY <3>1, <3>2 DEF Frontier
  <2>4. QED
    BY <2>2, <2>3
<1>6. QED
  BY <1>4, <1>5 DEF Frontier

\* A successful erase puts the frontier at the application's first page.
LEMMA EraseSetsFrontier ==
    ASSUME NEW app \in AppType, Prepare_Application_Memory(app, TRUE)
    PROVE  Frontier(app)'
<1>1. flash' = ErasedBetween(Base(app), Limit(app)) /\ StartPageAddress' = Base(app)
  BY DEF Prepare_Application_Memory, EraseRegion, setStartPageAddress
<1>2. Base(app) \in Nat
  BY RegionInFlash
<1>3. ASSUME NEW a \in Region(app) PROVE flash'[a] = Erased /\ a >= Base(app)
  BY <1>1, <1>2, RegionInFlash, FlashAssumption DEF ErasedBetween, Region, Limit
<1>4. QED
  BY <1>1, <1>2, <1>3 DEF Frontier

-----------------------------------------------------------------------------
USE DEF InBootloader, Receiving, Complete

\* data_handler keeps the frontier, in each branch that may touch the flash.
LEMMA FrontierHandler ==
    ASSUME TypeOK, InBootloader, WriteFrontier, NEW p \in Packet, data_handler(p)
    PROVE  WriteFrontier'
<1> USE DEF WriteFrontier
<1>1. CASE StartRaw(p) \/ StartSecure(p)
  <2>1. PICK ret \in BOOLEAN :
            /\ Prepare_Application_Memory(p.app, ret)
            /\ ~ret => connection_status' = "CONNECTED"
    BY <1>1 DEF StartRaw, StartSecure, StartFlash
  <2>2. AppToUpdate' = p.app /\ p.app \in AppType
    BY <1>1, PacketType DEF StartRaw, StartSecure, StartFlash
  <2>3. CASE ret
    <3>1. Frontier(p.app)'
      BY <2>1, <2>2, <2>3, EraseSetsFrontier
    <3>2. QED
      BY <2>2, <3>1 DEF Frontier
  <2>4. CASE ~ret
    BY <2>1, <2>4
  <2>5. QED
    BY <2>3, <2>4
<1>2. CASE StartRefused(p) \/ ResendAck(p) \/ IgnorePacket
  BY <1>2 DEF StartRefused, ResendAck, IgnorePacket, flashVars
<1>3. CASE OverrunRaw(p) \/ OverrunSecure(p)
  BY <1>3 DEF OverrunRaw, OverrunSecure, Overrun
<1>4. ASSUME Receiving, UNCHANGED AppToUpdate,
             UNCHANGED flashVars \/ \E bytes \in Seq(Byte), ret \in BOOLEAN :
                                       Write_FW_to_flash(Dwords(bytes), ret)
      PROVE  WriteFrontier'
  <2>1. Frontier(AppToUpdate)
    BY <1>4 DEF Frontier
  <2>2. CASE UNCHANGED flashVars
    BY <1>4, <2>1, <2>2 DEF Frontier, flashVars
  <2>3. CASE \E bytes \in Seq(Byte), ret \in BOOLEAN :
                 Write_FW_to_flash(Dwords(bytes), ret)
    <3>1. ASSUME NEW app, app = AppToUpdate PROVE Frontier(app)'
      BY <2>1, <2>3, <3>1, WriteMovesFrontier DEF TypeOK
    <3>2. QED
      BY <1>4, <3>1 DEF Frontier
  <2>4. QED
    BY <1>4, <2>2, <2>3
<1>5. flash_buff \in Seq(Byte)
  BY DEF TypeOK, HandlerTypeOK
<1>6. CASE ReceiveRaw(p)
  <2>1. Buffered(TakenRaw(p), RawData(p)) \in Seq(Byte)
    BY <1>5, DataType DEF Buffered
  <2>2. QED
    BY <1>4, <1>6, <2>1 DEF ReceiveRaw, AddToWindow, RefuseWindow, WriteWindow
<1>7. CASE ReceiveSecure(p)
  <2>1. Buffered(TakenSecure(p), SecureData(p)) \in Seq(Byte)
    BY <1>5, DataType DEF Buffered
  <2>2. QED
    BY <1>4, <1>7, <2>1 DEF ReceiveSecure, AddToWindow, RefuseWindow, WriteWindow
<1>8. QED
  BY <1>1, <1>2, <1>3, <1>6, <1>7 DEF data_handler

\* While an image is received its flash is a programmed prefix and an erased
\* rest, whatever packets arrive, are refused, and whichever writes fail: no
\* window leaves a hole or is written over another.
THEOREM FlashInOrder == Spec => []WriteFrontier
<1>1. Init => WriteFrontier
  BY DEF Init, HandlerInit, WriteFrontier
<1>2. TypeOK /\ WriteFrontier /\ [Next]_vars => WriteFrontier'
  <2> SUFFICES ASSUME TypeOK, WriteFrontier, [Next]_vars PROVE WriteFrontier'
    OBVIOUS
  <2>1. CASE Enable_Advertising
    BY <2>1 DEF Enable_Advertising, WriteFrontier, flashVars
  <2>2. CASE GAP_ConnectionComplete_CB
    BY <2>2 DEF GAP_ConnectionComplete_CB, WriteFrontier
  <2>3. CASE ConnectionMissed
    BY <2>3 DEF ConnectionMissed, WriteFrontier, flashVars
  <2>4. CASE GAP_DisconnectionComplete_CB
    BY <2>4 DEF GAP_DisconnectionComplete_CB, WriteFrontier
  <2>5. CASE \E p \in Packet : p.cmd \in Commands /\ Attribute_Modified_CB(p)
    BY <2>5, FrontierHandler DEF Attribute_Modified_CB
  <2>6. CASE Reset
    BY <2>6 DEF Reset, WriteFrontier
  <2>7. CASE UNCHANGED vars
    BY <2>7 DEF vars, handlerVars, flashVars, WriteFrontier
  <2>8. QED
    BY <2>1, <2>2, <2>3, <2>4, <2>5, <2>6, <2>7 DEF Next
<1>3. QED
  BY <1>1, <1>2, TypeCorrect, PTL DEF Spec

\* An interrupted or refused session leaves nothing of its image in the pages
\* it was for, when erases succeed: for every command, size and write failure.
THEOREM AbortLeavesNothing ==
    ASSUME ~EraseFails
    PROVE  Spec => []AbortErases
<1>1. Init => AbortErases
  BY DEF Init, HandlerInit, AbortErases
<1>2. ASSUME NEW app \in AppType, NEW ret \in BOOLEAN, Prepare_Application_Memory(app, ret)
      PROVE  \A a \in Region(app) : flash'[a] = Erased
  <2>1. flash' = ErasedBetween(Base(app), Limit(app))
    BY <1>2 DEF Prepare_Application_Memory, EraseRegion
  <2>2. QED
    BY <2>1, RegionInFlash DEF ErasedBetween, Region
<1>3. TypeOK /\ SessionInv /\ AbortErases /\ [Next]_vars => AbortErases'
  <2> SUFFICES ASSUME TypeOK, SessionInv, AbortErases, [Next]_vars PROVE AbortErases'
    OBVIOUS
  <2>1. CASE Enable_Advertising \/ ConnectionMissed
    BY <2>1 DEF Enable_Advertising, ConnectionMissed, AbortErases, flashVars
  <2>2. CASE GAP_ConnectionComplete_CB
    <3>1. connection_status = "IDLE"
      BY <2>2 DEF GAP_ConnectionComplete_CB, SessionInv
    <3>2. QED
      BY <2>2, <3>1 DEF GAP_ConnectionComplete_CB, AbortErases, flashVars
  <2>3. CASE GAP_DisconnectionComplete_CB
    <3>1. AppToUpdate \in AppType \cup {"NONE"} /\ AppToUpdate # "bootloader"
      BY DEF TypeOK, HandlerTypeOK, FlashAppType, AppType
    <3>2. CASE Complete
      <4>1. running' # "bootloader"
        BY <2>3, <3>1, <3>2 DEF GAP_DisconnectionComplete_CB, go2App
      <4>2. QED
        BY <4>1 DEF AbortErases
    <3>3. CASE ~Complete
      <4>1. UNCHANGED AppToUpdate
            /\ \E ret \in BOOLEAN : Prepare_Application_Memory(AppToUpdate, ret)
        BY <2>3, <3>3 DEF GAP_DisconnectionComplete_CB
      <4>2. ASSUME NEW app, app = AppToUpdate, app # "NONE"
            PROVE  \A a \in Region(app) : flash'[a] = Erased
        BY <1>2, <3>1, <4>1, <4>2
      <4>3. QED
        BY <4>1, <4>2 DEF AbortErases
    <3>4. QED
      BY <3>2, <3>3
  <2>4. ASSUME NEW p \in Packet, data_handler(p), InBootloader PROVE AbortErases'
    <3>1. CASE StartRaw(p) \/ StartSecure(p)
      <4>1. AppToUpdate' = p.app /\ p.app \in AppType
            /\ \E ret \in BOOLEAN : Prepare_Application_Memory(p.app, ret)
        BY <3>1, PacketType DEF StartRaw, StartSecure, StartFlash
      <4>2. QED
        BY <1>2, <4>1 DEF AbortErases
    <3>2. CASE StartRefused(p) \/ IgnorePacket
      BY <2>4, <3>2 DEF StartRefused, IgnorePacket, AbortErases, flashVars
    <3>3. CASE Receiving /\ connection_status' \in {connection_status, "CLOSING_CONNECTION"}
      BY <3>3 DEF AbortErases
    <3>4. QED
      BY <2>4, <3>1, <3>2, <3>3
      DEF data_handler, ReceiveRaw, ReceiveSecure, ResendAck, OverrunRaw, OverrunSecure,
          Overrun, AddToWindow, RefuseWindow, WriteWindow, NewWindow
  <2>5. CASE \E p \in Packet : p.cmd \in Commands /\ Attribute_Modified_CB(p)
    BY <2>4, <2>5 DEF Attribute_Modified_CB
  <2>6. CASE Reset
    BY <2>6 DEF Reset, AbortErases
  <2>7. CASE UNCHANGED vars
    BY <2>7 DEF vars, handlerVars, flashVars, AbortErases
  <2>8. QED
    BY <2>1, <2>2, <2>3, <2>5, <2>6, <2>7 DEF Next
<1>4. QED
  BY <1>1, <1>3, TypeCorrect, SessionInductive, PTL DEF Spec
-----------------------------------------------------------------------------
(***************************************************************************)
(* Arithmetic of windows, and queues.                                      *)
(***************************************************************************)
\* Where a window starts, and where it stands when its last packet is counted.
LEMMA WindowEnd ==
    ASSUME NEW c \in Nat, NEW w \in Nat \ {0}, (c + 1) % w = 0
    PROVE  c % w = w - 1 /\ c - (c % w) = c + 1 - w
<1> DEFINE q == c \div w
           r == c % w
<1>1. q \in Int /\ r \in 0 .. w - 1 /\ c = q * w + r
  BY SMT
<1> HIDE DEF q, r
<1>2. CASE r + 1 < w
  <2>1. c + 1 = q * w + (r + 1) /\ r + 1 \in 0 .. w - 1
    BY <1>1, <1>2
  <2>2. (c + 1) % w = r + 1
    BY <1>1, <2>1, SMT
  <2>3. QED
    BY <1>1, <2>2
<1>3. CASE r + 1 = w
  BY <1>1, <1>3 DEF r
<1>4. QED
  BY <1>1, <1>2, <1>3

\* The window start of a count is a natural number and a window start itself.
LEMMA StartFacts ==
    ASSUME NEW c \in Nat, NEW w \in Nat \ {0}
    PROVE  /\ c % w \in Nat /\ c % w < w
           /\ c - (c % w) \in Nat /\ c - (c % w) <= c
           /\ (c - (c % w)) % w = 0
<1> DEFINE q == c \div w
           r == c % w
<1>1. q \in Nat /\ r \in 0 .. w - 1 /\ c = q * w + r
  BY SMT
<1> HIDE DEF q, r
<1>2. c - r = q * w /\ q * w \in Nat
  BY <1>1
<1>3. (q * w) % w = 0
  <2>1. \A a \in Nat, b \in Nat \ {0} : (a * b) % b = 0
    BY SMT
  <2>2. QED
    BY <1>1, <2>1
<1>4. QED
  BY <1>1, <1>2, <1>3 DEF r

\* Dividing both sides of a comparison by a positive number.
LEMMA Cancel ==
    ASSUME NEW a \in Int, NEW b \in Int, NEW d \in Nat \ {0}, a * d <= b * d
    PROVE  a <= b
<1> SUFFICES ASSUME a >= b + 1 PROVE FALSE
  OBVIOUS
<1>1. PICK e \in Nat : a = b + 1 + e
  <2>1. a - b - 1 \in Nat /\ a = b + 1 + (a - b - 1)
    OBVIOUS
  <2>2. QED
    BY <2>1
<1>2. a * d = b * d + d + e * d
  BY <1>1
<1>3. e * d \in Nat /\ b * d \in Int
  OBVIOUS
<1>4. QED
  BY <1>2, <1>3

\* The first event taken, what stays keeps its order.
LEMMA Shorter ==
    ASSUME NEW S, NEW q \in Seq(S), q # <<>>
    PROVE  /\ Len(q) \in Nat /\ 1 \in 1 .. Len(q) /\ Head(q) = q[1]
           /\ Len(Tail(q)) = Len(q) - 1
           /\ Len(q) = 1 => Tail(q) = <<>>
           /\ \A i \in 1 .. Len(Tail(q)) : /\ i + 1 \in 1 .. Len(q) /\ i + 1 # 1
                                           /\ Tail(q)[i] = q[i + 1]
                                           /\ i + 1 = Len(q) => i = Len(Tail(q))
<1>1. Len(q) \in Nat /\ 1 \in 1 .. Len(q) /\ Head(q) = q[1]
      /\ Len(Tail(q)) = Len(q) - 1 /\ Tail(q) \in Seq(S)
  OBVIOUS
<1>2. \A s \in Seq(S) : Len(s) = 0 => s = <<>>
  OBVIOUS
<1>3. Len(q) = 1 => Tail(q) = <<>>
  <2>1. Len(q) = 1 => Len(Tail(q)) = 0
    BY <1>1
  <2>2. QED
    BY <1>1, <1>2, <2>1, Zenon
<1>4. ASSUME NEW i \in 1 .. Len(Tail(q))
      PROVE  /\ i + 1 \in 1 .. Len(q) /\ i + 1 # 1 /\ Tail(q)[i] = q[i + 1]
             /\ i + 1 = Len(q) => i = Len(Tail(q))
  <2>1. i \in Nat /\ 1 <= i /\ i <= Len(q) - 1 /\ Len(q) \in Nat
    BY <1>1
  <2>2. Tail(q)[i] = q[i + 1]
    BY <2>1
  <2>3. /\ i + 1 \in 1 .. Len(q) /\ i + 1 # 1
        /\ i + 1 = Len(q) => i = Len(q) - 1
    BY <2>1
  <2>4. QED
    BY <1>1, <2>2, <2>3
<1>5. QED
  BY <1>1, <1>3, <1>4

\* One event more, the others stay.
LEMMA Longer ==
    ASSUME NEW S, NEW q \in Seq(S), NEW e
    PROVE  /\ Append(q, e) # <<>> /\ Len(Append(q, e)) = Len(q) + 1 /\ Len(q) \in Nat
           /\ q # <<>> => Append(q, e)[1] = q[1]
           /\ \A i \in 1 .. Len(Append(q, e)) :
                 \/ i = Len(Append(q, e)) /\ Append(q, e)[i] = e
                 \/ i \in 1 .. Len(q) /\ i # Len(Append(q, e)) /\ Append(q, e)[i] = q[i]
<1>1. q \in Seq(S \cup {e}) /\ e \in S \cup {e}
  OBVIOUS
<1>2. /\ Append(q, e) \in Seq(S \cup {e}) /\ Len(q) \in Nat
      /\ Len(Append(q, e)) = Len(q) + 1
      /\ \A i \in 1 .. Len(q) + 1 : Append(q, e)[i] = IF i = Len(q) + 1 THEN e ELSE q[i]
  BY <1>1
<1>3. Append(q, e) # <<>>
  BY <1>2
<1>4. q # <<>> => Append(q, e)[1] = q[1]
  <2>1. q # <<>> => 1 \in 1 .. Len(q) /\ 1 # Len(q) + 1
    OBVIOUS
  <2>2. QED
    BY <1>2, <2>1
<1>5. ASSUME NEW i \in 1 .. Len(Append(q, e))
      PROVE  \/ i = Len(Append(q, e)) /\ Append(q, e)[i] = e
             \/ i \in 1 .. Len(q) /\ i # Len(Append(q, e)) /\ Append(q, e)[i] = q[i]
  BY <1>2
<1>6. QED
  BY <1>2, <1>3, <1>4, <1>5
=============================================================================
