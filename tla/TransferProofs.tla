--------------------------- MODULE TransferProofs ---------------------------
(***************************************************************************)
(* The device implements FirmwareTransfer, for every geometry, every size  *)
(* and every client of raw images of whole windows, when erases succeed.   *)
(***************************************************************************)
EXTENDS RawProofs, DeviceTransfer

USE DEF InBootloader, Receiving, Complete

\* The instances meant.  An erase without a request, whose page range is
\* whatever the stack holds, is one of no pages.
Transfers ==
    /\ RawImages
    /\ ~EraseFails
    /\ \A pages \in UninitErase : \A a \in Address : a \notin pages[1] .. pages[2] - 1

\* The pages of an application hold so many packets of its image.
Holds(app, n) ==
    /\ Stored(app, n * PacketDW)
    /\ \A a \in Region(app) : a >= Base(app) + n * PacketDW => flash[a] = Erased

StoredPackets == InSession(((StartPageAddress - Base(AppToUpdate)) * DW) \div PAYLOAD_LEN, 0)

-----------------------------------------------------------------------------
\* The number of packets, from the bytes they take.
LEMMA PacketsStored ==
    ASSUME PAYLOAD_LEN % DW = 0, NEW n \in Nat, NEW base \in Nat, NEW at,
           at = base + n * PacketDW
    PROVE  ((at - base) * DW) \div PAYLOAD_LEN = n
<1>1. /\ PacketDW \in Nat /\ DW \in Nat \ {0} /\ PAYLOAD_LEN = PacketDW * DW
      /\ PAYLOAD_LEN \in Nat \ {0}
  BY Sizes, HandlerAssumption
<1>2. at - base = n * PacketDW
  BY <1>1
<1>3. (n * PacketDW) * DW = n * PAYLOAD_LEN
  BY <1>1
<1>4. \A a \in Nat, b \in Nat \ {0} : (a * b) \div b = a
  BY SMT
<1>5. (n * PAYLOAD_LEN) \div PAYLOAD_LEN = n
  BY <1>1, <1>4
<1>6. QED
  BY <1>2, <1>3, <1>5

\* The abstract flash, from what the pages and the rest of the flash hold.
LEMMA HoldingIs ==
    ASSUME PAYLOAD_LEN % DW = 0, FlashTypeOK, FlashTypeOK', NEW app, NEW n \in Nat,
           \A a \in Address \ Region(app) : flash'[a] = flash[a], Holds(app, n)'
    PROVE  flash' = Transfer!Holding(app, n)
<1> DEFINE image == ImageOf(n)
<1>1. PacketDW \in Nat /\ DW \in Nat \ {0} /\ PAYLOAD_LEN = PacketDW * DW
  BY Sizes
<1>2. Len(image) = n * PacketDW /\ \A i \in 1 .. n * PacketDW : image[i] = Word(i - 1)
  <2>1. image = Dwords(Bytes(0, n * PAYLOAD_LEN))
    BY DEF ImageOf, Bytes
  <2>2. n * PAYLOAD_LEN = (n * PacketDW) * DW /\ 0 * DW = 0 /\ n * PacketDW \in Nat
    BY <1>1
  <2>3. /\ Len(Dwords(Bytes(0 * DW, (n * PacketDW) * DW))) = n * PacketDW
        /\ \A i \in 1 .. n * PacketDW :
              Dwords(Bytes(0 * DW, (n * PacketDW) * DW))[i] = Word(0 + i - 1)
    <3>1. ASSUME NEW m \in Nat
          PROVE  /\ Len(Dwords(Bytes(0 * DW, m * DW))) = m
                 /\ \A i \in 1 .. m : Dwords(Bytes(0 * DW, m * DW))[i] = Word(0 + i - 1)
      <4>1. 0 \in Nat
        OBVIOUS
      <4>2. QED
        BY <4>1, WordsOfBytes, Zenon
    <3>2. QED
      BY <2>2, <3>1, Zenon
  <2>4. \A i \in 1 .. n * PacketDW : 0 + i - 1 = i - 1
    BY <2>2
  <2>5. QED
    BY <2>1, <2>2, <2>3, <2>4
<1> HIDE DEF image
<1>3. Base(app) \in Nat /\ Limit(app) \in Nat /\ Region(app) \subseteq Address
      /\ DOMAIN flash = Address /\ flash' = [x \in Address |-> flash'[x]]
  BY RegionInFlash, FlashAssumption DEF Limit, FlashTypeOK
<1>4. ASSUME NEW x \in Address
      PROVE  flash'[x] = IF x \notin Base(app) .. Limit(app) - 1 THEN flash[x]
                         ELSE IF x - Base(app) < Len(image) THEN image[x - Base(app) + 1]
                         ELSE Erased
  <2>1. CASE x \notin Base(app) .. Limit(app) - 1
    BY <2>1 DEF Region
  <2>2. CASE x \in Base(app) .. Limit(app) - 1
    <3>1. PICK j \in Nat : x = Base(app) + j
      <4>1. x - Base(app) \in Nat /\ x = Base(app) + (x - Base(app))
        BY <1>3, <2>2
      <4>2. QED
        BY <4>1
    <3>2. x - Base(app) = j /\ x - Base(app) + 1 = j + 1 /\ x \in Region(app)
      BY <1>3, <2>2, <3>1 DEF Region
    <3>3. CASE j < Len(image)
      <4>1. flash'[x] = Word(j)
        <5>1. j \in 0 .. n * PacketDW - 1
          BY <1>1, <1>2, <3>3
        <5>2. QED
          BY <3>1, <5>1 DEF Holds, Stored
      <4>2. image[j + 1] = Word(j)
        <5>1. j + 1 \in 1 .. n * PacketDW /\ (j + 1) - 1 = j
          BY <1>1, <1>2, <3>3
        <5>2. QED
          BY <1>2, <5>1
      <4>3. QED
        BY <2>2, <3>2, <3>3, <4>1, <4>2
    <3>4. CASE ~(j < Len(image))
      <4>1. x >= Base(app) + n * PacketDW
        BY <1>1, <1>2, <1>3, <3>1, <3>4
      <4>2. QED
        BY <2>2, <3>2, <3>4, <4>1 DEF Holds
    <3>5. QED
      BY <3>3, <3>4
  <2>3. QED
    BY <2>1, <2>2
<1>5. QED
  BY <1>3, <1>4 DEF Transfer!Holding, image

\* What the pages hold, and the rest, is all there is to the flash.
LEMMA SameFlash ==
    ASSUME PAYLOAD_LEN % DW = 0, FlashTypeOK, FlashTypeOK', NEW app, NEW n \in Nat,
           \A a \in Address \ Region(app) : flash'[a] = flash[a],
           Holds(app, n), Holds(app, n)'
    PROVE  flash' = flash
<1>1. PacketDW \in Nat /\ Base(app) \in Nat
  BY Sizes, RegionInFlash
<1>2. ASSUME NEW x \in Region(app) PROVE flash'[x] = flash[x]
  <2>1. PICK j \in Nat : x = Base(app) + j
    <3>1. x - Base(app) \in Nat /\ x = Base(app) + (x - Base(app))
      BY <1>1, FlashAssumption DEF Region, Limit
    <3>2. QED
      BY <3>1
  <2>2. CASE j < n * PacketDW
    <3>1. j \in 0 .. n * PacketDW - 1
      BY <1>1, <2>2
    <3>2. QED
      BY <2>1, <3>1 DEF Holds, Stored
  <2>3. CASE ~(j < n * PacketDW)
    <3>1. x >= Base(app) + n * PacketDW
      BY <1>1, <2>1, <2>3
    <3>2. QED
      BY <3>1 DEF Holds
  <2>4. QED
    BY <2>2, <2>3
<1>3. QED
  BY <1>2 DEF FlashTypeOK

-----------------------------------------------------------------------------
\* A session that is open has stored the packets before its present window.
OpenInv ==
    RawImages /\ TypeOK /\ WriteFrontier /\ RawInv /\ connection_status = "RECEVEING_RAW_FW" =>
        /\ InBootloader /\ session = "open"
        /\ WindowStart(count_pck) \in Nat /\ WindowStart(count_pck) < total_pck
        /\ StartPageAddress = Base(AppToUpdate) + WindowStart(count_pck) * PacketDW
        /\ StoredPackets = WindowStart(count_pck)
        /\ Holds(AppToUpdate, WindowStart(count_pck))

\* It is so in every state.
LEMMA OpenState == OpenInv
<1> SUFFICES ASSUME RawImages, TypeOK, WriteFrontier, RawInv,
                    connection_status = "RECEVEING_RAW_FW",
                    NEW n, n = WindowStart(count_pck)
             PROVE  /\ InBootloader /\ session = "open"
                    /\ n \in Nat /\ n < total_pck
                    /\ StartPageAddress = Base(AppToUpdate) + n * PacketDW
                    /\ StoredPackets = n
                    /\ Holds(AppToUpdate, n)
  BY DEF OpenInv
<1>1. InBootloader /\ session = "open" /\ RawSession /\ HandlerTypeOK
  BY DEF RawInv, session, TypeOK
<1>2. n \in Nat /\ n < total_pck
  BY <1>1, Counting DEF RawSession
<1>3. StartPageAddress = Base(AppToUpdate) + n * PacketDW /\ Stored(AppToUpdate, n * PacketDW)
  BY <1>1 DEF RawSession
<1>4. StoredPackets = n
  <2>1. ((StartPageAddress - Base(AppToUpdate)) * DW) \div PAYLOAD_LEN = n
    BY <1>2, <1>3, PacketsStored, RegionInFlash DEF RawImages
  <2>2. QED
    BY <1>1, <2>1 DEF StoredPackets, InSession
<1>5. Holds(AppToUpdate, n)
  BY <1>1, <1>3 DEF Holds, WriteFrontier
<1>6. QED
  BY <1>1, <1>2, <1>3, <1>4, <1>5

\* A session that is closing has stored its whole image.
ClosedInv ==
    RawImages /\ TypeOK /\ WriteFrontier /\ RawInv /\ connection_status = "CLOSING_CONNECTION" =>
        /\ InBootloader /\ session = "complete"
        /\ total_pck \in Nat \ {0} /\ count_pck = total_pck
        /\ AppToUpdate \in AppType
        /\ StartPageAddress = Base(AppToUpdate) + total_pck * PacketDW
        /\ StoredPackets = total_pck
        /\ Holds(AppToUpdate, total_pck)

\* It is so in every state.
LEMMA ClosedState == ClosedInv
<1> SUFFICES ASSUME RawImages, TypeOK, WriteFrontier, RawInv,
                    connection_status = "CLOSING_CONNECTION",
                    NEW n, n = total_pck
             PROVE  /\ InBootloader /\ session = "complete"
                    /\ n \in Nat \ {0} /\ count_pck = n
                    /\ AppToUpdate \in AppType
                    /\ StartPageAddress = Base(AppToUpdate) + n * PacketDW
                    /\ StoredPackets = n
                    /\ Holds(AppToUpdate, n)
  BY DEF ClosedInv
<1>1. InBootloader /\ session = "complete" /\ RawClosed
  BY DEF RawInv, session
<1>2. n \in Nat \ {0} /\ count_pck = n /\ AppToUpdate \in AppType
  BY <1>1, HandlerAssumption DEF RawClosed, TypeOK, HandlerTypeOK, Count
<1>3. StartPageAddress = Base(AppToUpdate) + n * PacketDW /\ Stored(AppToUpdate, n * PacketDW)
  BY <1>1 DEF RawClosed
<1>4. StoredPackets = n
  <2>1. ((StartPageAddress - Base(AppToUpdate)) * DW) \div PAYLOAD_LEN = n
    BY <1>2, <1>3, PacketsStored, RegionInFlash DEF RawImages
  <2>2. QED
    BY <1>1, <2>1 DEF StoredPackets, InSession
<1>5. Holds(AppToUpdate, n)
  BY <1>1, <1>3 DEF Holds, WriteFrontier
<1>6. QED
  BY <1>1, <1>2, <1>3, <1>4, <1>5

-----------------------------------------------------------------------------
\* Steps the transfer does not see.
LEMMA Stutters ==
    ASSUME \/ UNCHANGED <<flash, running, connection_status, AppToUpdate, total_pck,
                          StartPageAddress>>
           \/ UNCHANGED <<flash, running>> /\ session = "none" /\ session' = "none"
    PROVE  UNCHANGED Transfer!transferVars
BY DEF Transfer!transferVars, session, InSession

\* Without a session there is nothing of a transfer but the flash.
LEMMA NoSession ==
    /\ session = "none" => Transfer!None
    /\ session' = "none" => Transfer!None'
BY DEF Transfer!None, InSession

\* A packet of an image stores more of it, or nothing.
LEMMA ReceiveTransfer ==
    ASSUME Transfers, TypeOK, TypeOK', WriteFrontier, WriteFrontier', RawInv, RawInv',
           NEW p \in Packet, ReceiveRaw(p), UNCHANGED running,
           \A a \in Address : a \notin Region(AppToUpdate') => flash'[a] = flash[a]
    PROVE  Transfer!Store \/ UNCHANGED Transfer!transferVars
<1>1. /\ connection_status = "RECEVEING_RAW_FW"
      /\ connection_status' \in {"RECEVEING_RAW_FW", "CLOSING_CONNECTION"}
      /\ UNCHANGED <<total_pck, AppToUpdate>> /\ StartPageAddress' >= StartPageAddress
  <2>1. StartPageAddress \in Nat
    BY DEF TypeOK, FlashTypeOK
  <2>2. \A dwords, ret : Write_FW_to_flash(dwords, ret) /\ Len(dwords) \in Nat =>
            StartPageAddress' >= StartPageAddress
    BY <2>1 DEF Write_FW_to_flash
  <2>3. Len(Dwords(Buffered(TakenRaw(p), RawData(p)))) \in Nat
    <3>1. Buffered(TakenRaw(p), RawData(p)) \in Seq(Byte)
      BY DataType DEF Buffered, TypeOK, HandlerTypeOK
    <3>2. QED
      BY <3>1, DwordsType
  <2>4. /\ connection_status = "RECEVEING_RAW_FW"
        /\ connection_status' \in {"RECEVEING_RAW_FW", "CLOSING_CONNECTION"}
        /\ UNCHANGED <<total_pck, AppToUpdate>>
    BY DEF ReceiveRaw, AddToWindow, RefuseWindow, WriteWindow, NewWindow
  <2>5. \/ StartPageAddress' = StartPageAddress
        \/ \E ret : Write_FW_to_flash(Dwords(Buffered(TakenRaw(p), RawData(p))), ret)
    BY DEF ReceiveRaw, AddToWindow, RefuseWindow, WriteWindow, flashVars
  <2>6. QED
    BY <2>1, <2>2, <2>3, <2>4, <2>5
<1>2. RawImages /\ PAYLOAD_LEN % DW = 0 /\ FlashTypeOK /\ FlashTypeOK'
  BY DEF Transfers, RawImages, TypeOK
<1>3. OpenInv /\ OpenInv' /\ ClosedInv'
  BY OpenState, ClosedState, PTL
<1>4. PICK n : /\ n \in Nat /\ n < total_pck /\ InBootloader /\ session = "open"
               /\ StartPageAddress = Base(AppToUpdate) + n * PacketDW
               /\ StoredPackets = n /\ Holds(AppToUpdate, n)
  BY <1>1, <1>2, <1>3 DEF OpenInv
<1>5. PICK m : /\ m \in Nat /\ StoredPackets' = m
               /\ StartPageAddress' = Base(AppToUpdate) + m * PacketDW
               /\ Stored(AppToUpdate, m * PacketDW)'
               /\ \A a \in Region(AppToUpdate) :
                     a >= Base(AppToUpdate) + m * PacketDW => flash'[a] = Erased
               /\ \/ session' = "open" /\ m < total_pck /\ UNCHANGED connection_status
                  \/ session' = "complete" /\ m = total_pck
  <2>1. CASE connection_status' = "RECEVEING_RAW_FW"
    BY <1>1, <1>2, <1>3, <2>1 DEF OpenInv, Holds
  <2>2. CASE connection_status' = "CLOSING_CONNECTION"
    BY <1>1, <1>2, <1>3, <2>2 DEF ClosedInv, Holds
  <2>3. QED
    BY <1>1, <2>1, <2>2
<1>6. ASSUME NEW app, app = AppToUpdate
      PROVE  /\ \A a \in Address \ Region(app) : flash'[a] = flash[a]
             /\ Holds(app, n) /\ Holds(app, m)'
  BY <1>1, <1>4, <1>5, <1>6 DEF Holds, Stored
<1>7. m >= n
  <2>1. PacketDW \in Nat \ {0} /\ Base(AppToUpdate) \in Nat
    <3>1. PacketDW \in Nat /\ DW \in Nat \ {0} /\ PAYLOAD_LEN = PacketDW * DW
      BY <1>2, Sizes
    <3>2. PacketDW # 0
      BY <3>1, HandlerAssumption
    <3>3. QED
      BY <3>1, <3>2, RegionInFlash
  <2>2. n * PacketDW <= m * PacketDW
    <3>1. n * PacketDW \in Nat /\ m * PacketDW \in Nat
      BY <1>4, <1>5, <2>1
    <3>2. QED
      BY <1>1, <1>4, <1>5, <2>1, <3>1
  <2>3. n \in Int /\ m \in Int
    BY <1>4, <1>5
  <2>4. n <= m
    BY <2>1, <2>2, <2>3, Cancel
  <2>5. QED
    BY <2>3, <2>4
<1>8. CASE m = n
  <2>1. flash' = flash
    BY <1>2, <1>4, <1>6, <1>8, SameFlash
  <2>2. UNCHANGED <<connection_status, StartPageAddress>>
    BY <1>4, <1>5, <1>8
  <2>3. QED
    BY <1>1, <2>1, <2>2, Stutters
<1>9. CASE m # n
  <2>1. m > n
    BY <1>4, <1>5, <1>7, <1>9
  <2>2. ASSUME NEW app, app = AppToUpdate PROVE flash' = Transfer!Holding(app, m)
    BY <1>2, <1>5, <1>6, <2>2, HoldingIs
  <2>3. /\ InSession(AppToUpdate, "NONE") = AppToUpdate
        /\ InSession(AppToUpdate, "NONE")' = AppToUpdate
        /\ InSession(total_pck, 0) = total_pck
        /\ InSession(total_pck, 0)' = total_pck
    BY <1>1, <1>4, <1>5 DEF InSession
  <2>4. session' = IF m = total_pck THEN "complete" ELSE "open"
    BY <1>5
  <2>5. Transfer!Store
    BY <1>4, <1>5, <2>1, <2>2, <2>3, <2>4 DEF Transfer!Store, StoredPackets
  <2>6. QED
    BY <2>5
<1>10. QED
  BY <1>8, <1>9

\* An erase of an application's pages leaves them holding no packet.
LEMMA EraseTransfer ==
    ASSUME Transfers, TypeOK, TypeOK', NEW app \in AppType, NEW ret \in BOOLEAN,
           Prepare_Application_Memory(app, ret)
    PROVE  /\ flash' = Transfer!Holding(app, 0)
           /\ ret => StartPageAddress' = Base(app)
<1>1. flash' = ErasedBetween(Base(app), Limit(app)) /\ (ret => StartPageAddress' = Base(app))
  BY DEF Prepare_Application_Memory, EraseRegion, setStartPageAddress, Transfers
<1>2. \A a \in Address \ Region(app) : flash'[a] = flash[a]
  BY PrepareElsewhere
<1>3. Holds(app, 0)'
  <2>1. 0 * PacketDW = 0
    BY Sizes DEF Transfers, RawImages
  <2>2. \A a \in Region(app) : flash'[a] = Erased
    BY <1>1, RegionInFlash DEF ErasedBetween, Region
  <2>3. QED
    BY <2>1, <2>2 DEF Holds, Stored
<1>4. flash' = Transfer!Holding(app, 0)
  <2>1. 0 \in Nat /\ PAYLOAD_LEN % DW = 0 /\ FlashTypeOK /\ FlashTypeOK'
    BY DEF Transfers, RawImages, TypeOK
  <2>2. QED
    BY <1>2, <1>3, <2>1, HoldingIs
<1>5. QED
  BY <1>1, <1>4

\* A request opens a transfer, or is refused.
LEMMA StartTransfer ==
    ASSUME Transfers, TypeOK, TypeOK', SessionInv, RawInv', WriteFrontier', NEW p \in Packet,
           StartRaw(p), UNCHANGED running, InBootloader
    PROVE  Transfer!Begin(p.app) \/ Transfer!Refuse(p.app)
<1>1. p.app \in AppType /\ p.total \in Count
  BY PacketType DEF StartRaw
<1>2. /\ connection_status = "CONNECTED" /\ count_pck' = 0
      /\ total_pck' = p.total /\ AppToUpdate' = p.app
  BY DEF StartRaw, StartFlash, SessionInv, windowVars
<1>3. PICK ret \in BOOLEAN :
          /\ Prepare_Application_Memory(p.app, ret)
          /\ IF ret /\ checkFWSize(p.total, PAYLOAD_LEN, p.app)
             THEN connection_status' = "RECEVEING_RAW_FW"
             ELSE connection_status' = "CONNECTED"
  BY <1>2 DEF StartRaw, StartFlash
<1>4. flash' = Transfer!Holding(p.app, 0)
  BY <1>1, <1>3, EraseTransfer
<1>5. session = "none" /\ Transfer!None
  BY <1>2, NoSession DEF session
<1>6. CASE connection_status' = "RECEVEING_RAW_FW"
  <2>1. OpenInv'
    BY OpenState, PTL
  <2>2. session' = "open" /\ StoredPackets' = WindowStart(count_pck)'
    BY <1>6, <2>1 DEF OpenInv, Transfers
  <2>3. WindowStart(count_pck)' = 0
    BY <1>2, Sizes DEF WindowStart, Transfers, RawImages
  <2>4. InSession(AppToUpdate, "NONE")' = p.app /\ InSession(total_pck, 0)' = p.total
    BY <1>2, <2>2 DEF InSession
  <2>5. Transfer!Begin(p.app)
    BY <1>1, <1>4, <1>5, <2>2, <2>3, <2>4 DEF Transfer!Begin, StoredPackets
  <2>6. QED
    BY <2>5
<1>7. CASE connection_status' = "CONNECTED"
  <2>1. session' = "none"
    BY <1>7 DEF session
  <2>2. /\ InSession(AppToUpdate, "NONE")' = InSession(AppToUpdate, "NONE")
        /\ InSession(total_pck, 0)' = InSession(total_pck, 0)
        /\ StoredPackets' = StoredPackets
    BY <1>5, <2>1 DEF InSession, StoredPackets
  <2>3. Transfer!Refuse(p.app)
    BY <1>4, <1>5, <2>1, <2>2 DEF Transfer!Refuse, StoredPackets
  <2>4. QED
    BY <2>3
<1>8. QED
  BY <1>3, <1>6, <1>7

\* The disconnection callback runs a complete image and abandons an open one.
LEMMA DisconnectTransfer ==
    ASSUME Transfers, TypeOK, TypeOK', SessionInv, WriteFrontier, RawInv, AbortErases,
           GAP_DisconnectionComplete_CB
    PROVE  Transfer!Run \/ Transfer!Abandon \/ UNCHANGED Transfer!transferVars
<1>1. /\ InBootloader /\ connection_status' = "IDLE" /\ session' = "none" /\ Transfer!None'
      /\ UNCHANGED <<AppToUpdate, total_pck>>
  BY NoSession DEF GAP_DisconnectionComplete_CB, session
<1>2. RawImages /\ OpenInv /\ ClosedInv
  BY OpenState, ClosedState DEF Transfers
<1>3. CASE connection_status = "CLOSING_CONNECTION"
  <2>1. /\ session = "complete" /\ total_pck \in Nat \ {0} /\ Complete
        /\ AppToUpdate \in AppType /\ Holds(AppToUpdate, total_pck)
    BY <1>2, <1>3 DEF ClosedInv
  <2>2. running' = AppToUpdate /\ flash' = flash
    BY <2>1 DEF GAP_DisconnectionComplete_CB, go2App, flashVars
  <2>3. ASSUME NEW app, app = AppToUpdate, NEW n \in Nat, n = total_pck
        PROVE  flash' = Transfer!Holding(app, n)
    <3>1. Holds(app, n)'
      BY <2>1, <2>2, <2>3 DEF Holds, Stored
    <3>2. PAYLOAD_LEN % DW = 0 /\ FlashTypeOK /\ FlashTypeOK'
      BY <1>2 DEF RawImages, TypeOK
    <3>3. QED
      BY <2>2, <3>1, <3>2, HoldingIs
  <2>4. InSession(AppToUpdate, "NONE") = AppToUpdate /\ InSession(total_pck, 0) = total_pck
    BY <2>1 DEF InSession
  <2>5. Transfer!Run
    BY <1>1, <2>1, <2>2, <2>3, <2>4 DEF Transfer!Run
  <2>6. QED
    BY <2>5
<1>4. CASE connection_status = "RECEVEING_RAW_FW"
  <2>1. session = "open" /\ AppToUpdate \in AppType
    BY <1>2, <1>4 DEF OpenInv, RawInv, RawSession
  <2>2. ~Complete
    BY <1>1, <1>4 DEF SessionInv
  <2>3. running' = running /\ \E ret \in BOOLEAN : Prepare_Application_Memory(AppToUpdate, ret)
    BY <2>2 DEF GAP_DisconnectionComplete_CB
  <2>4. ASSUME NEW app, app = AppToUpdate PROVE flash' = Transfer!Holding(app, 0)
    BY <2>1, <2>3, <2>4, EraseTransfer
  <2>5. InSession(AppToUpdate, "NONE") = AppToUpdate
    BY <2>1 DEF InSession
  <2>6. Transfer!Abandon
    BY <1>1, <2>1, <2>3, <2>4, <2>5 DEF Transfer!Abandon
  <2>7. QED
    BY <2>6
<1>5. CASE connection_status \in {"IDLE", "CONNECTED"}
  <2>1. session = "none"
    BY <1>5 DEF session
  <2>2. ~Complete
    BY <1>1, <1>5 DEF SessionInv
  <2>3. running' = running /\ \E ret \in BOOLEAN : Prepare_Application_Memory(AppToUpdate, ret)
    BY <2>2 DEF GAP_DisconnectionComplete_CB
  <2>4. \A from, to : (\A a \in Address : a \in from .. to - 1 => flash[a] = Erased) =>
                          ErasedBetween(from, to) = flash
    BY DEF ErasedBetween, TypeOK, FlashTypeOK
  <2>5. CASE AppToUpdate = "NONE"
    <3>1. PICK pages \in UninitErase : flash' = ErasedBetween(pages[1], pages[2])
      BY <2>3, <2>5 DEF Prepare_Application_Memory, AppType
    <3>2. \A a \in Address : a \notin pages[1] .. pages[2] - 1
      BY <3>1 DEF Transfers
    <3>3. flash' = flash
      BY <2>4, <3>1, <3>2
    <3>4. QED
      BY <1>1, <2>1, <2>3, <3>3, Stutters
  <2>6. ASSUME NEW app \in AppType, app = AppToUpdate PROVE UNCHANGED Transfer!transferVars
    <3>1. flash' = ErasedBetween(Base(app), Limit(app))
      BY <2>3, <2>6 DEF Prepare_Application_Memory, EraseRegion, Transfers
    <3>2. \A a \in Address : a \in Base(app) .. Limit(app) - 1 => flash[a] = Erased
      BY <1>1, <1>5, <2>6 DEF AbortErases, Region, AppType
    <3>3. flash' = flash
      BY <2>4, <3>1, <3>2
    <3>4. QED
      BY <1>1, <2>1, <2>3, <3>3, Stutters
  <2>7. QED
    BY <2>5, <2>6 DEF TypeOK, HandlerTypeOK, FlashAppType
<1>6. QED
  BY <1>3, <1>4, <1>5 DEF TypeOK, HandlerTypeOK, Status, RawInv

\* Each step of the device is a step of the transfer, or none.
LEMMA TransferStep ==
    ASSUME Transfers, TypeOK, TypeOK', SessionInv, WriteFrontier, WriteFrontier',
           RawInv, RawInv', AbortErases, [Next]_vars
    PROVE  [Transfer!TransferNext]_Transfer!transferVars
<1>1. CASE Enable_Advertising \/ ConnectionMissed \/ UNCHANGED vars
  BY <1>1, Stutters
  DEF Enable_Advertising, ConnectionMissed, vars, handlerVars, flashVars, windowVars
<1>2. CASE GAP_ConnectionComplete_CB
  <2>1. connection_status = "IDLE" /\ connection_status' = "CONNECTED"
        /\ UNCHANGED <<flash, running>>
    BY <1>2 DEF GAP_ConnectionComplete_CB, SessionInv, flashVars
  <2>2. QED
    BY <2>1, Stutters DEF session
<1>3. CASE GAP_DisconnectionComplete_CB
  BY <1>3, DisconnectTransfer DEF Transfer!TransferNext
<1>4. ASSUME NEW p \in Packet, p.cmd \in Commands, Attribute_Modified_CB(p)
      PROVE  [Transfer!TransferNext]_Transfer!transferVars
  <2>1. RawImages /\ InBootloader /\ data_handler(p)
    BY <1>4 DEF Attribute_Modified_CB, Transfers
  <2>2. \A a \in Address : a \notin Region(AppToUpdate') => flash'[a] = flash[a]
    BY <1>4, <2>1, RawHandler
  <2>3. CASE StartRaw(p) /\ UNCHANGED running
    <3>1. p.app \in AppType
      BY <2>3, PacketType DEF StartRaw
    <3>2. QED
      BY <2>1, <2>3, <3>1, StartTransfer DEF Transfer!TransferNext
  <2>4. CASE (StartRefused(p) \/ IgnorePacket) /\ UNCHANGED running
    BY <2>4, Stutters DEF StartRefused, IgnorePacket, flashVars
  <2>5. CASE ReceiveRaw(p) /\ UNCHANGED running
    BY <2>2, <2>5, ReceiveTransfer DEF Transfer!TransferNext
  <2>6. p.cmd \in {"START_FLASH_MODE", "WRITE_FLASH_PACKET"}
    BY <1>4, <2>1 DEF RawImages
  <2>7. ~ReceiveSecure(p) /\ ~ResendAck(p) /\ ~OverrunSecure(p) /\ ~StartSecure(p)
        /\ ~OverrunRaw(p)
    BY <2>6 DEF RawInv, ReceiveSecure, ResendAck, OverrunSecure, StartSecure, OverrunRaw,
                WildStore
  <2>8. QED
    BY <2>1, <2>3, <2>4, <2>5, <2>7 DEF data_handler
<1>5. CASE Reset
  <2>1. running' \in BootPins /\ flash' = flash /\ session' = "none"
    BY <1>5 DEF Reset, session
  <2>2. Transfer!PowerCycle
    BY <2>1, NoSession DEF Transfer!PowerCycle
  <2>3. QED
    BY <2>2 DEF Transfer!TransferNext
<1>6. QED
  BY <1>1, <1>2, <1>3, <1>4, <1>5 DEF Next

\* The device is a transfer of whole images: whatever raw packets the client
\* sends, whenever its link drops, a write fails or the device is reset, its
\* pages hold a prefix of the one image, and only the whole of it is run.
THEOREM DeviceImplementsTransfer ==
    ASSUME Transfers
    PROVE  Spec => ImplementsTransfer
<1>1. Init => Transfer!TransferInit
  <2>1. Init => session = "none" /\ running = "bootloader"
    BY DEF Init, HandlerInit, session
  <2>2. QED
    BY <2>1, NoSession DEF Transfer!TransferInit
<1>2. TypeOK /\ TypeOK' /\ SessionInv /\ WriteFrontier /\ WriteFrontier' /\ RawInv /\ RawInv'
      /\ AbortErases /\ [Next]_vars => [Transfer!TransferNext]_Transfer!transferVars
  BY TransferStep
<1>3. RawImages /\ ~EraseFails
  BY DEF Transfers
<1>4. Spec => []RawInv
  BY <1>3, RawInductive
<1>5. Spec => []AbortErases
  BY <1>3, AbortLeavesNothing
<1>6. QED
  BY <1>1, <1>2, <1>4, <1>5, TypeCorrect, SessionInductive, FlashInOrder, PTL
  DEF Spec, ImplementsTransfer, Transfer!TransferSpec
=============================================================================
