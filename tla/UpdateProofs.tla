---------------------------- MODULE UpdateProofs ----------------------------
(***************************************************************************)
(* A raw update from end to end, for every value of the constants: what    *)
(* the GUI and the link do to the device is what the client of Peripheral  *)
(* may do, so that what was proved of the device holds behind them.        *)
(***************************************************************************)
EXTENDS RawProofs, RawUpdate

\* The instances meant: the client of Peripheral may send what the GUI sends.
Updates ==
    /\ Commands = {"START_FLASH_MODE", "WRITE_FLASH_PACKET"}
    /\ Selections \ {"UNSELECTED"} \subseteq Apps
    /\ \A t \in Totals : 0 .. t \subseteq Nums
    /\ Checks = BOOLEAN

Sent  == {p \in Packet : p.cmd \in Commands}
Event == {ConnComplete, DisconnComplete} \cup {Modified(p) : p \in Sent}

\* What the GUI is about to send can be sent.
SendInv ==
    /\ events \in Seq(Event)
    /\ gui \in GuiPhase \cup {"INIT_PHASE", "SENDING_DATA"}
    /\ selected_app \in Selections \cup {"UNSELECTED"}
    /\ num_chunks \in Totals \cup {0}
    /\ cont_chunck \in Int /\ cont_chunck <= num_chunks
    /\ gui \in {"INIT_PHASE", "WAIT_RESPONSE", "SENDING_DATA", "WAIT_ACK"} =>
          num_chunks \in Totals
    /\ gui \in {"INIT_PHASE", "WAIT_RESPONSE"} => cont_chunck = 0
    /\ gui = "SENDING_DATA" => cont_chunck < num_chunks

-----------------------------------------------------------------------------
\* What the GUI writes is among the packets.
LEMMA GuiPackets ==
    ASSUME Updates
    PROVE  /\ \A app \in Selections \ {"UNSELECTED"}, t \in Totals :
                 [cmd |-> "START_FLASH_MODE", app |-> app, total |-> t, ok |-> TRUE] \in Sent
           /\ \A t \in Totals : \A n \in 0 .. t : \A c \in BOOLEAN :
                 [cmd |-> "WRITE_FLASH_PACKET", num |-> n, ok |-> c,
                  data |-> Chunk(n, PAYLOAD_LEN)] \in Sent
<1>1. ASSUME NEW app \in Selections \ {"UNSELECTED"}, NEW t \in Totals
      PROVE  [cmd |-> "START_FLASH_MODE", app |-> app, total |-> t, ok |-> TRUE] \in Sent
  BY <1>1 DEF Updates, Sent, Packet, StartPacket
<1>2. ASSUME NEW t \in Totals, NEW n \in 0 .. t, NEW c \in BOOLEAN
      PROVE  [cmd |-> "WRITE_FLASH_PACKET", num |-> n, ok |-> c,
              data |-> Chunk(n, PAYLOAD_LEN)] \in Sent
  <2> DEFINE p == [cmd |-> "WRITE_FLASH_PACKET", num |-> n, ok |-> c,
                   data |-> Chunk(n, PAYLOAD_LEN)]
  <2>1. p \in RawPacket
    BY <1>2 DEF Updates, RawPacket
  <2>2. p.cmd \in Commands
    BY DEF Updates
  <2>3. QED
    BY <2>1, <2>2 DEF Sent, Packet
<1>3. QED
  BY <1>1, <1>2

\* A queue of events keeps its type when its first is taken and one appended.
LEMMA EventQueue ==
    ASSUME events \in Seq(Event)
    PROVE  /\ events # <<>> => Head(events) \in Event /\ Tail(events) \in Seq(Event)
           /\ Append(events, ConnComplete) \in Seq(Event)
           /\ Append(events, DisconnComplete) \in Seq(Event)
           /\ \A p \in Sent : Append(events, Modified(p)) \in Seq(Event)
BY DEF Event

\* The steps of the GUI, of the link and of the device keep SendInv.
LEMMA SendStep ==
    ASSUME Updates, SendInv, [UpdateNext]_allVars
    PROVE  SendInv'
<1> USE DEF SendInv, GuiPhase
<1> USE EventQueue
<1>1. CASE BlueNRG_Process
  BY <1>1 DEF BlueNRG_Process, HCI_Event_CB, guiVars, formVars, loopVars
<1>2. CASE DropEvent
  BY <1>2 DEF DropEvent, guiVars, formVars, loopVars
<1>3. CASE DeviceReset
  BY <1>3 DEF DeviceReset, guiVars, formVars, loopVars
<1>4. CASE LinkDrop
  BY <1>4 DEF LinkDrop, guiVars, formVars, loopVars
<1>5. CASE read_response
  BY <1>5 DEF read_response, formVars, loopVars
<1>6. CASE \E app \in Selections, total \in Totals : StartUpload(app, total, "INIT_PHASE")
  <2>1. \A t \in Totals : t >= 0
    BY ClientAssumption DEF Count
  <2>2. QED
    BY <1>6, <2>1 DEF StartUpload
<1>7. ASSUME Raise PROVE SendInv'
  BY <1>7 DEF Raise, Hangup, formVars, loopVars
<1>8. CASE SendRequest("INIT_PHASE", "START_FLASH_MODE")
  BY <1>7, <1>8, GuiPackets DEF SendRequest, Write, formVars, loopVars
<1>9. CASE GetResponse("SENDING_DATA")
  <2>1. \A t \in Totals : t \in Nat
    BY ClientAssumption DEF Count
  <2>2. QED
    BY <1>9, <2>1 DEF GetResponse, formVars, loopVars
<1>10. CASE SendChunk
  <2>1. CASE ~(link /\ cont_chunck >= 0)
    BY <1>7, <1>10, <2>1 DEF SendChunk
  <2>2. CASE link /\ cont_chunck >= 0
    <3>1. /\ gui = "SENDING_DATA" /\ cont_chunck' = cont_chunck + 1
          /\ gui' = IF cont_chunck' % RAW_NUM_CUMULATIVE_ACK = 0
                       \/ cont_chunck' = num_chunks
                    THEN "WAIT_ACK" ELSE "SENDING_DATA"
          /\ UNCHANGED formVars
      BY <1>10, <2>2 DEF SendChunk
    <3> DEFINE packet(ok) == [cmd |-> "WRITE_FLASH_PACKET", num |-> cont_chunck,
                              ok |-> ok, data |-> Chunk(cont_chunck, PAYLOAD_LEN)]
    <3>2. PICK ok \in BOOLEAN : events' = Append(events, Modified(packet(ok)))
      <4>1. \E ok \in BOOLEAN : Write(packet(ok))
        <5>1. ~(~link \/ cont_chunck < 0)
          BY <2>2
        <5>2. QED
          BY <1>10, <5>1, Zenon DEF SendChunk
      <4> HIDE DEF packet
      <4>2. QED
        BY <4>1 DEF Write
    <3>3. num_chunks \in Totals /\ num_chunks \in Nat /\ cont_chunck \in 0 .. num_chunks
      BY <2>2, <3>1, ClientAssumption DEF Count
    <3>4. events' \in Seq(Event)
      <4>1. packet(ok) \in Sent
        BY <3>2, <3>3, GuiPackets, Zenon
      <4> HIDE DEF packet
      <4>2. QED
        BY <3>2, <4>1
    <3>5. QED
      BY <3>1, <3>3, <3>4 DEF formVars
  <2>3. QED
    BY <2>1, <2>2
<1>11. CASE WindowAcked("SENDING_DATA")
  BY <1>11 DEF WindowAcked, formVars
<1>12. CASE WindowRefused
  <2>1. num_chunks \in Nat
    BY ClientAssumption DEF Count
  <2>2. QED
    BY <1>12, <2>1, HandlerAssumption DEF WindowRefused, formVars
<1>13. CASE Finish
  BY <1>7, <1>13 DEF Finish, Hangup, formVars, loopVars
<1>14. CASE RestartGui
  BY <1>14 DEF RestartGui, Hangup, formVars, loopVars
<1>15. CASE UNCHANGED allVars
  BY <1>15 DEF allVars, guiVars, formVars, loopVars
<1>16. QED
  BY <1>1, <1>2, <1>3, <1>4, <1>5, <1>6, <1>8, <1>9, <1>10, <1>11, <1>12, <1>13,
     <1>14, <1>15 DEF UpdateNext, send_new_fw

\* A step of the update is a step of the device under its general client.
LEMMA DeviceStep ==
    ASSUME Updates, SendInv, [UpdateNext]_allVars
    PROVE  [Next]_vars
<1>1. CASE BlueNRG_Process
  <2>1. ASSUME HCI_Event_CB PROVE Next
    <3>1. Head(events) \in Event
      BY <2>1, EventQueue DEF SendInv, HCI_Event_CB
    <3>2. CASE Head(events).evt = "EVT_BLUE_GATT_ATTRIBUTE_MODIFIED"
      <4>1. Attribute_Modified_CB(Head(events).packet)
        BY <2>1, <3>2 DEF HCI_Event_CB
      <4>2. Head(events).packet \in Sent
        BY <3>1, <3>2 DEF Event, ConnComplete, DisconnComplete, Modified
      <4>3. QED
        BY <4>1, <4>2 DEF Sent, Next
    <3>3. QED
      BY <2>1, <3>2 DEF HCI_Event_CB, Next
  <2>2. QED
    BY <1>1, <2>1 DEF BlueNRG_Process, Next
<1>2. CASE DropEvent
  BY <1>2 DEF DropEvent, Next, deviceVars, vars
<1>3. CASE DeviceReset
  BY <1>3 DEF DeviceReset, Next
<1>4. CASE UNCHANGED deviceVars
  BY <1>4 DEF deviceVars, vars
<1>5. QED
  BY <1>1, <1>2, <1>3, <1>4
  DEF UpdateNext, LinkDrop, read_response, StartUpload, send_new_fw, SendRequest,
      GetResponse, SendChunk, WindowAcked, WindowRefused, Finish, RestartGui, allVars

\* SendInv is an invariant of the update.
LEMMA SendInductive ==
    ASSUME Updates
    PROVE  UpdateSpec => []SendInv
<1>1. UploadInit => SendInv
  BY DEF UploadInit, SendInv, GuiPhase
<1>2. SendInv /\ [UpdateNext]_allVars => SendInv'
  BY SendStep
<1>3. QED
  BY <1>1, <1>2, PTL DEF UpdateSpec

\* Behind the link and the GUI the device is the device of Peripheral: every
\* invariant proved of it holds of an update from end to end.
THEOREM DeviceIsDriven ==
    ASSUME Updates
    PROVE  UpdateSpec => Spec
<1>1. UploadInit => Init
  BY DEF UploadInit
<1>2. SendInv /\ [UpdateNext]_allVars => [Next]_vars
  BY DeviceStep
<1>3. QED
  BY <1>1, <1>2, SendInductive, PTL DEF UpdateSpec, Spec
-----------------------------------------------------------------------------
(***************************************************************************)
(* What the device proves of itself holds from end to end.                 *)
(***************************************************************************)
\* Acknowledged or not, over a link that loses what it likes: a session that
\* closes has stored the image that was sent, nothing else in flash changed,
\* and the counter the GUI's is compared with tells the write address.
THEOREM UpdateStoresImage ==
    ASSUME Updates, RawImages
    PROVE  UpdateSpec => []ImageIntact /\ []CounterMatchesAddress /\ OtherFlashKept
BY DeviceIsDriven, ImageStored, CounterTellsAddress, OthersUntouched, PTL

\* Whatever the user, the link and the images' sizes: the counters agree only
\* when the session has closed, and windows stay in their buffer and in order.
THEOREM UpdateJumpsWhenClosed ==
    ASSUME Updates
    PROVE  UpdateSpec => []CompleteMeansClosing /\ []BufferBound /\ []WriteFrontier
BY DeviceIsDriven, CompleteIsClosing, BufferBounded, FlashInOrder, PTL
-----------------------------------------------------------------------------
(***************************************************************************)
(* The types of what the two sides say to each other.                      *)
(***************************************************************************)
RawResponse == {r \in Response : r.type = "WRITE_FLASH_PACKET_RESPONSE"}

\* Refusals are counted below the limit for as long as the GUI goes on.
TalkInv ==
    /\ link \in BOOLEAN
    /\ notes \in Seq(RawResponse)
    /\ connection_status # "RECEVEING_SECURE_FW"
    /\ ack_rcv \in BOOLEAN /\ is_ack \in BOOLEAN
    /\ progress_bar \in BOOLEAN
    /\ report \in {"none", "Success", "Failed"}
    /\ nack_loop \in 0 .. NAK_LIMIT
    /\ gui \in {"INIT_PHASE", "WAIT_RESPONSE", "SENDING_DATA", "WAIT_ACK"} =>
          nack_loop < NAK_LIMIT

\* To raw commands the device has raw answers.
LEMMA RawAnswers ==
    ASSUME TypeOK', connection_status # "RECEVEING_SECURE_FW", NEW p \in Packet,
           p.cmd \in {"START_FLASH_MODE", "WRITE_FLASH_PACKET"}, data_handler(p)
    PROVE  tx' \in Seq(RawResponse) /\ connection_status' # "RECEVEING_SECURE_FW"
<1>1. ASSUME NEW ack, NEW count, send_raw_ack(ack, count)
      PROVE  \A i \in DOMAIN tx' : tx'[i].type = "WRITE_FLASH_PACKET_RESPONSE"
  BY <1>1 DEF send_raw_ack
<1>2. ASSUME tx' = <<>>
      PROVE  \A i \in DOMAIN tx' : tx'[i].type = "WRITE_FLASH_PACKET_RESPONSE"
  BY <1>2
<1>3. /\ \A i \in DOMAIN tx' : tx'[i].type = "WRITE_FLASH_PACKET_RESPONSE"
      /\ connection_status' # "RECEVEING_SECURE_FW"
  <2>1. CASE StartRaw(p)
    BY <1>1, <2>1, Zenon DEF StartRaw, StartFlash
  <2>2. CASE StartRefused(p)
    BY <1>1, <2>2 DEF StartRefused
  <2>3. CASE ReceiveRaw(p)
    <3>1. \/ tx' = <<>>
          \/ \E ack \in BOOLEAN : send_raw_ack(ack, count_pck')
      BY <2>3, Zenon DEF ReceiveRaw, AddToWindow
    <3>2. connection_status' \in {connection_status, "CLOSING_CONNECTION"}
      BY <2>3 DEF ReceiveRaw, AddToWindow, RefuseWindow, WriteWindow, NewWindow
    <3>3. QED
      BY <1>1, <1>2, <3>1, <3>2
  <2>4. CASE IgnorePacket
    BY <1>2, <2>4 DEF IgnorePacket
  <2>5. CASE OverrunRaw(p)
    BY <1>2, <2>5 DEF OverrunRaw, Overrun
  <2>6. QED
    BY <2>1, <2>2, <2>3, <2>4, <2>5
    DEF data_handler, StartSecure, ReceiveSecure, ResendAck, OverrunSecure
<1>4. tx' \in Seq(Response)
  BY DEF TypeOK, HandlerTypeOK
<1>5. QED
  BY <1>3, <1>4 DEF RawResponse

\* What the device notifies joins what is on its way.
LEMMA NotesQueue ==
    ASSUME notes \in Seq(RawResponse)
    PROVE  /\ notes # <<>> => Head(notes).ack \in BOOLEAN /\ Tail(notes) \in Seq(RawResponse)
           /\ tx' \in Seq(RawResponse) /\ Notify => notes' \in Seq(RawResponse)
<1>1. ASSUME notes # <<>>
      PROVE  Head(notes).ack \in BOOLEAN /\ Tail(notes) \in Seq(RawResponse)
  <2>1. Head(notes) \in RawResponse /\ Tail(notes) \in Seq(RawResponse)
    BY <1>1
  <2>2. QED
    BY <2>1 DEF RawResponse, Response
<1>2. ASSUME tx' \in Seq(RawResponse), Notify PROVE notes' \in Seq(RawResponse)
  <2>1. notes \o tx' \in Seq(RawResponse)
    BY <1>2
  <2>2. notes' = notes \o tx' \/ notes' = notes
    BY <1>2 DEF Notify
  <2>3. QED
    BY <2>1, <2>2
<1>3. QED
  BY <1>1, <1>2

\* The steps of the GUI, of the link and of the device keep TalkInv.
LEMMA TalkStep ==
    ASSUME Updates, TypeOK', SendInv, TalkInv, [UpdateNext]_allVars
    PROVE  TalkInv'
<1> USE DEF TalkInv
<1> NAK_LIMIT \in Nat \ {0}
  BY RawAssumption
<1>0. 0 \in 0 .. NAK_LIMIT /\ 0 < NAK_LIMIT
  OBVIOUS
<1> <<>> \in Seq(RawResponse)
  OBVIOUS
<1>1. CASE HCI_Event_CB
  <2>1. tx' \in Seq(RawResponse) /\ connection_status' # "RECEVEING_SECURE_FW"
    <3>1. Head(events) \in Event
      BY <1>1, EventQueue DEF SendInv, HCI_Event_CB
    <3>2. CASE Head(events).evt = "EVT_BLUE_GATT_ATTRIBUTE_MODIFIED"
      <4>1. Head(events).packet \in Sent
        BY <3>1, <3>2 DEF Event, ConnComplete, DisconnComplete, Modified
      <4>2. data_handler(Head(events).packet)
        BY <1>1, <3>2 DEF HCI_Event_CB, Attribute_Modified_CB
      <4>3. QED
        BY <4>1, <4>2, RawAnswers DEF Sent, Updates
    <3>3. QED
      BY <1>1, <3>2
      DEF HCI_Event_CB, GAP_ConnectionComplete_CB, GAP_DisconnectionComplete_CB
  <2>2. QED
    BY <1>1, <2>1, NotesQueue DEF HCI_Event_CB, guiVars, loopVars, ackVars, userVars
<1>2. CASE BlueNRG_Process
  BY <1>1, <1>2
  DEF BlueNRG_Process, Enable_Advertising, guiVars, loopVars, ackVars, userVars
<1>3. CASE DropEvent
  BY <1>3 DEF DropEvent, ConnectionMissed, guiVars, loopVars, ackVars, userVars,
              deviceVars, handlerVars
<1>4. CASE DeviceReset
  BY <1>4 DEF DeviceReset, Reset, guiVars, loopVars, ackVars, userVars
<1>5. CASE LinkDrop
  BY <1>5 DEF LinkDrop, guiVars, loopVars, ackVars, userVars, deviceVars, handlerVars
<1>6. CASE read_response
  BY <1>6, NotesQueue
  DEF read_response, loopVars, userVars, deviceVars, handlerVars
<1>7. CASE \E app \in Selections, total \in Totals : StartUpload(app, total, "INIT_PHASE")
  BY <1>7 DEF StartUpload, ackVars, userVars, deviceVars, handlerVars
<1>8. ASSUME Raise, UNCHANGED deviceVars PROVE TalkInv'
  BY <1>8 DEF Raise, Hangup, loopVars, ackVars, userVars, deviceVars, handlerVars
<1>9. CASE SendRequest("INIT_PHASE", "START_FLASH_MODE")
  BY <1>8, <1>9
  DEF SendRequest, Write, loopVars, ackVars, userVars, deviceVars, handlerVars
<1>10. CASE GetResponse("SENDING_DATA")
  BY <1>10 DEF GetResponse, loopVars, userVars, deviceVars, handlerVars
<1>11. CASE SendChunk
  <2>1. CASE Raise
    BY <1>8, <1>11, <2>1 DEF SendChunk
  <2>2. CASE ~Raise
    <3>1. /\ gui = "SENDING_DATA" /\ gui' \in {"WAIT_ACK", "SENDING_DATA"}
          /\ UNCHANGED <<link, notes, nack_loop, ackVars, userVars, deviceVars>>
      BY <1>11, <2>2 DEF SendChunk, Write
    <3>2. QED
      BY <3>1 DEF ackVars, userVars, deviceVars, handlerVars
  <2>3. QED
    BY <2>1, <2>2
<1>12. CASE WindowAcked("SENDING_DATA")
  <2>1. progress_bar' \in BOOLEAN
    BY <1>12 DEF WindowAcked
  <2>2. nack_loop' = 0 /\ ack_rcv' = FALSE
        /\ UNCHANGED <<link, notes, connection_status, is_ack, report>>
    BY <1>12 DEF WindowAcked, deviceVars, handlerVars
  <2>3. QED
    BY <1>0, <2>1, <2>2, Zenon
<1>13. CASE WindowRefused
  <2>1. /\ nack_loop' \in 0 .. NAK_LIMIT
        /\ gui' \in {"INIT_PHASE", "WAIT_RESPONSE", "SENDING_DATA", "WAIT_ACK"} =>
              nack_loop' < NAK_LIMIT
    <3>1. nack_loop \in Nat /\ nack_loop < NAK_LIMIT
      BY <1>13 DEF WindowRefused
    <3>2. \/ nack_loop + 1 < NAK_LIMIT /\ nack_loop' = nack_loop + 1
          \/ nack_loop' = 0
          \/ nack_loop' = NAK_LIMIT /\ gui' = "CLOSING_PHASE"
      BY <1>13 DEF WindowRefused
    <3>3. QED
      BY <3>1, <3>2
  <2>2. ack_rcv' = FALSE
        /\ UNCHANGED <<link, notes, connection_status, is_ack, progress_bar, report>>
    BY <1>13 DEF WindowRefused, userVars, deviceVars, handlerVars
  <2>3. QED
    BY <2>1, <2>2
<1>14. CASE Finish
  BY <1>8, <1>14 DEF Finish, Hangup, loopVars, ackVars, deviceVars, handlerVars
<1>15. CASE RestartGui
  BY <1>15 DEF RestartGui, Hangup, loopVars, deviceVars, handlerVars
<1>16. CASE UNCHANGED allVars
  BY <1>16
  DEF allVars, guiVars, loopVars, ackVars, userVars, deviceVars, handlerVars
<1>17. QED
  BY <1>2, <1>3, <1>4, <1>5, <1>6, <1>7, <1>9, <1>10, <1>11, <1>12, <1>13, <1>14,
     <1>15, <1>16 DEF UpdateNext, send_new_fw

\* TalkInv is an invariant of the update.
LEMMA TalkInductive ==
    ASSUME Updates
    PROVE  UpdateSpec => []TalkInv
<1>1. UploadInit => TalkInv
  <2>1. <<>> \in Seq(RawResponse) /\ 0 \in 0 .. NAK_LIMIT /\ 0 < NAK_LIMIT
    BY RawAssumption
  <2>2. QED
    BY <2>1, Zenon DEF UploadInit, Init, HandlerInit, TalkInv
<1>2. TypeOK' /\ SendInv /\ TalkInv /\ [UpdateNext]_allVars => TalkInv'
  BY TalkStep
<1>3. QED
  BY <1>1, <1>2, SendInductive, DeviceIsDriven, TypeCorrect, PTL DEF UpdateSpec

\* The GUI's chunk number never passes its image and its count of refusals
\* never passes the limit, however many windows are refused, messages lost and
\* sessions interrupted.
THEOREM UpdateTypeCorrect ==
    ASSUME Updates
    PROVE  UpdateSpec => []UpdateTypeOK
<1>1. SendInv /\ TalkInv => UpdateTypeOK
  <2> SUFFICES ASSUME SendInv, TalkInv PROVE UpdateTypeOK
    OBVIOUS
  <2>1. \A i \in DOMAIN events :
           events[i] \in {ConnComplete, DisconnComplete} \/ events[i].packet \in Packet
    BY DEF SendInv, Event, Sent, Modified
  <2>2. \A i \in DOMAIN notes : notes[i].type = "WRITE_FLASH_PACKET_RESPONSE"
    BY DEF TalkInv, RawResponse
  <2>3. QED
    BY <2>1, <2>2 DEF SendInv, TalkInv, UpdateTypeOK
<1>2. QED
  BY <1>1, SendInductive, TalkInductive, PTL
=============================================================================
