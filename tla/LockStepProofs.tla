--------------------------- MODULE LockStepProofs ---------------------------
(***************************************************************************)
(* GUI, link and device in step, for every value of the constants, on raw  *)
(* images of whole windows.  At each point of send_new_fw there is little  *)
(* the two sides can be doing: either packets are on their way, all of the *)
(* window the GUI is in, or one answer is, read or lost, and nothing else. *)
(***************************************************************************)
EXTENDS UpdateProofs

USE DEF InBootloader, Receiving, Complete

Uploads == Updates /\ RawImages

RawReceiving == connection_status = "RECEVEING_RAW_FW"

IsData(e) ==
    /\ e.evt = "EVT_BLUE_GATT_ATTRIBUTE_MODIFIED"
    /\ e.packet.cmd = "WRITE_FLASH_PACKET"

Request == Modified([cmd |-> "START_FLASH_MODE", app |-> selected_app,
                     total |-> num_chunks, ok |-> TRUE])

\* The events of connection and disconnection are at the ends of the queue, and
\* a device that advertises has heard everything of the session before.
LinkInv ==
    /\ link \/ advertising => InBootloader
    /\ set_connectable => ~advertising /\ ~link /\ events = <<>>
    /\ advertising =>
          /\ connection_status = "IDLE"
          /\ events = <<>> => ~link
          /\ events # <<>> => events[1] = ConnComplete
    /\ \A i \in 1 .. Len(events) :
          /\ events[i] = ConnComplete => i = 1 /\ advertising
          /\ events[i] = DisconnComplete => i = Len(events) /\ ~link
    /\ ~link => Len(events) <= Window + 2

Spendings == {"sessions", "lost", "noise", "drops", "resets", "restarts"}

RadioInv ==
    /\ LinkInv
    /\ link => gui \notin {"IDLE", "RAISED"}
    /\ gui = "IDLE" => notes = <<>> /\ ~ack_rcv
    /\ used \in [Spendings -> Nat]

Quiet == notes = <<>> /\ ~ack_rcv

\* An answer is on its way, was read, or was lost.
Answered(ack) ==
    \/ notes = <<>> /\ ack_rcv /\ is_ack = ack
    \/ Len(notes) = 1 /\ notes[1].ack = ack /\ ~ack_rcv
    \/ Quiet /\ used["lost"] > 0

Agreed == AppToUpdate = selected_app /\ total_pck = num_chunks

Connecting ==
    gui = "INIT_PHASE" =>
        /\ Quiet
        /\ \/ connection_status = "IDLE" /\ events \in {<<>>, <<ConnComplete>>}
           \/ connection_status = "CONNECTED" /\ events = <<>>

Requesting ==
    gui = "WAIT_RESPONSE" =>
        \/ /\ Quiet /\ connection_status = "IDLE"
           /\ events \in {<<ConnComplete, Request>>, <<Request>>, <<>>}
        \/ Quiet /\ connection_status = "CONNECTED" /\ events = <<Request>>
        \/ Answered(FALSE) /\ connection_status = "CONNECTED" /\ events = <<>>
        \/ /\ Answered(TRUE) /\ RawReceiving /\ Agreed
           /\ count_pck = 0 /\ events = <<>>

\* Packets are on their way, and no answer.
Flowing ==
    /\ Quiet /\ RawReceiving /\ Agreed
    /\ \A i \in 1 .. Len(events) : IsData(events[i])
    /\ count_pck + Len(events) <= cont_chunck
    /\ count_pck + Len(events) < cont_chunck => used["lost"] > 0

Sending ==
    gui = "SENDING_DATA" => Flowing /\ WindowStart(cont_chunck) <= count_pck

Waiting ==
    gui = "WAIT_ACK" =>
        /\ cont_chunck >= Window /\ cont_chunck % Window = 0
        /\ \/ Flowing /\ cont_chunck - Window <= count_pck /\ count_pck < cont_chunck
           \/ /\ Answered(TRUE) /\ Agreed /\ count_pck = cont_chunck /\ events = <<>>
              /\ connection_status = IF cont_chunck = num_chunks
                                     THEN "CLOSING_CONNECTION" ELSE "RECEVEING_RAW_FW"
           \/ /\ Answered(FALSE) /\ Agreed /\ count_pck = cont_chunck - Window
              /\ events = <<>> /\ RawReceiving

Closing ==
    gui = "CLOSING_PHASE" =>
        /\ Quiet /\ events = <<>>
        /\ is_ack => /\ connection_status = "CLOSING_CONNECTION" /\ Agreed
                     /\ cont_chunck = num_chunks

Conversation == link => Connecting /\ Requesting /\ Sending /\ Waiting /\ Closing

\* What is known of either side alone.
SidesInv == TypeOK /\ SessionInv /\ RawInv /\ SendInv /\ TalkInv

-----------------------------------------------------------------------------
\* Events are told apart by their codes.
LEMMA EventKinds ==
    /\ ConnComplete # DisconnComplete
    /\ ConnComplete.evt = "EVT_LE_CONN_COMPLETE"
    /\ DisconnComplete.evt = "EVT_DISCONN_COMPLETE"
    /\ \A p : /\ Modified(p).evt = "EVT_BLUE_GATT_ATTRIBUTE_MODIFIED"
              /\ Modified(p).packet = p
              /\ Modified(p) # ConnComplete /\ Modified(p) # DisconnComplete
<1>1. /\ ConnComplete.evt = "EVT_LE_CONN_COMPLETE"
      /\ DisconnComplete.evt = "EVT_DISCONN_COMPLETE"
  BY DEF ConnComplete, DisconnComplete
<1>2. ASSUME NEW p PROVE /\ Modified(p).evt = "EVT_BLUE_GATT_ATTRIBUTE_MODIFIED"
                         /\ Modified(p).packet = p
  BY DEF Modified
<1>3. QED
  BY <1>1, <1>2

\* Queues of one or two.
LEMMA ShortQueues ==
    /\ \A a : /\ Head(<<a>>) = a /\ Tail(<<a>>) = <<>> /\ <<a>> # <<>>
              /\ Append(<<>>, a) = <<a>>
    /\ \A a, b : /\ Head(<<a, b>>) = a /\ Tail(<<a, b>>) = <<b>> /\ <<a, b>> # <<>>
                 /\ Append(<<a>>, b) = <<a, b>>
<1>1. ASSUME NEW a
      PROVE  /\ Head(<<a>>) = a /\ Tail(<<a>>) = <<>> /\ <<a>> # <<>>
             /\ Append(<<>>, a) = <<a>>
  OBVIOUS
<1>2. ASSUME NEW a, NEW b
      PROVE  Head(<<a, b>>) = a /\ Tail(<<a, b>>) = <<b>> /\ <<a, b>> # <<>>
  OBVIOUS
<1>3. ASSUME NEW a, NEW b PROVE Append(<<a>>, b) = <<a, b>>
  <2>1. /\ <<a>> \in Seq({a, b}) /\ <<a, b>> \in Seq({a, b})
        /\ Append(<<a>>, b) \in Seq({a, b})
    OBVIOUS
  <2>2. Len(Append(<<a>>, b)) = 2 /\ Len(<<a, b>>) = 2
    BY <2>1
  <2>3. \A i \in 1 .. 2 : Append(<<a>>, b)[i] = <<a, b>>[i]
    BY <2>1
  <2>4. QED
    BY <2>1, <2>2, <2>3, SeqEqual
<1>4. QED
  BY <1>1, <1>2, <1>3

\* A queue of one is its first element.
LEMMA OneNote ==
    ASSUME NEW S, NEW q \in Seq(S), Len(q) = 1
    PROVE  q # <<>> /\ Head(q) = q[1] /\ Tail(q) = <<>>
<1>1. q # <<>> /\ Head(q) = q[1] /\ Tail(q) \in Seq(S) /\ Len(Tail(q)) = 0
  OBVIOUS
<1>2. \A s \in Seq(S) : Len(s) = 0 => s = <<>>
  OBVIOUS
<1>3. QED
  BY <1>1, <1>2

\* Window starts are a window apart, so that inside one no packet ends it.
LEMMA InsideWindow ==
    ASSUME NEW start \in Nat, NEW count \in Nat, NEW w \in Nat \ {0},
           start % w = 0, start <= count, count + 1 < start + w
    PROVE  (count + 1) % w # 0
<1> DEFINE q == start \div w
           r == count - start
<1>1. q \in Nat /\ start = q * w /\ r \in Nat /\ r + 1 < w
  BY SMT
<1> HIDE DEF q, r
<1>2. count + 1 = q * w + (r + 1) /\ r + 1 \in 1 .. w - 1
  BY <1>1 DEF r
<1>3. (q * w + (r + 1)) % w = r + 1
  <2>1. \A a \in Nat, b \in Nat \ {0}, c \in Nat : c < b => (a * b + c) % b = c
    BY SMT
  <2>2. r + 1 \in Nat /\ r + 1 < w
    BY <1>1
  <2>3. QED
    BY <1>1, <2>1, <2>2, Zenon
<1>4. QED
  BY <1>2, <1>3

\* The window before a window start.
LEMMA WindowBefore ==
    ASSUME NEW cont \in Nat, NEW w \in Nat \ {0}, cont % w = 0, cont >= w
    PROVE  cont - w \in Nat /\ (cont - w) % w = 0
<1> DEFINE q == cont \div w
<1>1. q \in Nat /\ cont = q * w
  BY SMT
<1> HIDE DEF q
<1>2. q >= 1 /\ cont - w = (q - 1) * w
  BY <1>1
<1>3. \A a \in Nat, b \in Nat \ {0} : (a * b) % b = 0
  BY SMT
<1>4. QED
  BY <1>1, <1>2, <1>3

\* A number that starts a window and is not 0 is a window's length or more.
LEMMA WindowAtLeast ==
    ASSUME NEW cont \in Nat \ {0}, NEW w \in Nat \ {0}, cont % w = 0
    PROVE  cont >= w
BY SMT

-----------------------------------------------------------------------------
(***************************************************************************)
(* What a packet does to the session, and what is notified.                *)
(***************************************************************************)
\* Exactly one answer.
Answers(ack) == \E count : tx' = <<[type |-> "WRITE_FLASH_PACKET_RESPONSE",
                                    ack |-> ack, count |-> count]>>

\* A request opens a session, or is refused; before the connection it is not
\* seen.
LEMMA RequestHandled ==
    ASSUME InBootloader, NEW p, p.cmd = "START_FLASH_MODE", p.ok,
           connection_status \in {"IDLE", "CONNECTED"}, data_handler(p)
    PROVE  /\ running' = running
           /\ connection_status = "IDLE" => tx' = <<>> /\ connection_status' = "IDLE"
           /\ connection_status = "CONNECTED" =>
                 \/ Answers(FALSE) /\ connection_status' = "CONNECTED"
                 \/ /\ Answers(TRUE) /\ connection_status' = "RECEVEING_RAW_FW"
                    /\ AppToUpdate' = p.app /\ total_pck' = p.total
                    /\ count_pck' = count_pck
<1>1. CASE connection_status = "IDLE"
  BY <1>1
  DEF data_handler, StartRaw, StartSecure, StartRefused, ReceiveRaw, ReceiveSecure,
      ResendAck, IgnorePacket, OverrunRaw, OverrunSecure
<1>2. CASE connection_status = "CONNECTED"
  <2>1. StartRaw(p) /\ UNCHANGED running
    BY <1>2
    DEF data_handler, StartSecure, StartRefused, ReceiveRaw, ReceiveSecure,
        ResendAck, IgnorePacket, OverrunRaw, OverrunSecure
  <2>2. total_pck' = p.total /\ AppToUpdate' = p.app /\ UNCHANGED count_pck
    BY <2>1 DEF StartRaw, StartFlash, windowVars
  <2>3. \/ send_raw_ack(FALSE, count_pck) /\ connection_status' = "CONNECTED"
        \/ send_raw_ack(TRUE, count_pck) /\ connection_status' = "RECEVEING_RAW_FW"
    BY <2>1, Zenon DEF StartRaw, StartFlash
  <2>4. QED
    BY <1>2, <2>1, <2>2, <2>3 DEF send_raw_ack, Answers
<1>3. QED
  BY <1>1, <1>2

\* A data packet is counted; the last of a window is answered, and is counted
\* only if the window is acknowledged.
LEMMA DataHandled ==
    ASSUME RawImages, TypeOK, RawInv, RawReceiving, InBootloader, NEW p,
           p.cmd = "WRITE_FLASH_PACKET", data_handler(p)
    PROVE  /\ running' = running /\ UNCHANGED <<AppToUpdate, total_pck>>
           /\ \/ /\ (count_pck + 1) % Window # 0
                 /\ tx' = <<>> /\ count_pck' = count_pck + 1
                 /\ connection_status' = "RECEVEING_RAW_FW"
              \/ /\ (count_pck + 1) % Window = 0
                 /\ Answers(TRUE) /\ count_pck' = count_pck + 1
                 /\ connection_status' = IF count_pck + 1 = total_pck
                                         THEN "CLOSING_CONNECTION"
                                         ELSE "RECEVEING_RAW_FW"
              \/ /\ (count_pck + 1) % Window = 0
                 /\ Answers(FALSE) /\ count_pck' = count_pck + 1 - Window
                 /\ connection_status' = "RECEVEING_RAW_FW"
<1>1. /\ HandlerTypeOK /\ byte_pos = 0
      /\ count_pck < total_pck /\ total_pck % Window = 0
  BY DEF TypeOK, RawInv, RawSession, RawReceiving
<1>2. Window \in Nat \ {0} /\ CountMod \in Nat \ {0}
  BY HandlerAssumption DEF Window
<1>3. /\ count_pck \in Nat /\ total_pck \in Nat /\ CountUp = count_pck + 1
      /\ WindowEnds(Window) => /\ SetBack(Window) = count_pck + 1 - Window
                               /\ SetBack(Window) < total_pck
  <2>1. ASSUME WindowEnds(Window)
        PROVE  SetBack(Window) = count_pck + 1 - Window /\ SetBack(Window) < total_pck
    <3>1. /\ count_pck \in Nat /\ total_pck \in Nat
          /\ WindowStart(count_pck) \in Nat /\ WindowStart(count_pck) < total_pck
          /\ WindowStart(count_pck) + Window = count_pck + 1
          /\ SetBack(Window) = WindowStart(count_pck)
      BY <1>1, <2>1, Counting
    <3>2. QED
      BY <1>2, <3>1
  <2>2. QED
    BY <1>1, <2>1, Counting
<1>4. WindowEnds(Window) <=> (count_pck + 1) % Window = 0
  <2>1. WindowEnds(Window) => (count_pck + 1) % Window = 0
    BY <1>1, <1>3 DEF WindowEnds
  <2>2. QED
    BY <1>3, <2>1 DEF WindowEnds
<1>5. ReceiveRaw(p) /\ UNCHANGED running
  BY <1>1
  DEF RawReceiving, data_handler, StartRaw, StartSecure, StartRefused, ReceiveSecure,
      ResendAck, IgnorePacket, OverrunRaw, OverrunSecure, WildStore
<1>6. UNCHANGED <<AppToUpdate, total_pck>>
  BY <1>5 DEF ReceiveRaw
<1>7. CASE ~WindowEnds(Window) /\ AddToWindow(TakenRaw(p), RawData(p))
  BY <1>3, <1>4, <1>5, <1>6, <1>7 DEF AddToWindow, RawReceiving
<1>8. CASE WindowEnds(Window) /\ RefuseWindow(TakenRaw(p), RawData(p), Window)
           /\ send_raw_ack(FALSE, count_pck')
  <2>1. Answers(FALSE)
    BY <1>8 DEF send_raw_ack, Answers
  <2>2. count_pck' = SetBack(Window) /\ NewWindow(TakenRaw(p), RawData(p))
    BY <1>8 DEF RefuseWindow
  <2>3. connection_status' = "RECEVEING_RAW_FW"
    BY <1>3, <1>6, <1>8, <2>2 DEF NewWindow, RawReceiving
  <2>4. QED
    BY <1>3, <1>4, <1>5, <1>6, <1>8, <2>1, <2>2, <2>3
<1>9. ASSUME WindowEnds(Window), NEW ret \in BOOLEAN,
             WriteWindow(TakenRaw(p), RawData(p), Window, ret),
             send_raw_ack(ret, count_pck')
      PROVE  \/ /\ Answers(TRUE) /\ count_pck' = count_pck + 1
                /\ connection_status' = IF count_pck + 1 = total_pck
                                        THEN "CLOSING_CONNECTION"
                                        ELSE "RECEVEING_RAW_FW"
             \/ /\ Answers(FALSE) /\ count_pck' = count_pck + 1 - Window
                /\ connection_status' = "RECEVEING_RAW_FW"
  <2>1. Answers(ret)
    BY <1>9 DEF send_raw_ack, Answers
  <2>2. /\ count_pck' = IF ret THEN CountUp ELSE SetBack(Window)
        /\ NewWindow(TakenRaw(p), RawData(p))
    BY <1>9, Zenon DEF WriteWindow
  <2>3. connection_status' = IF count_pck' = total_pck THEN "CLOSING_CONNECTION"
                             ELSE "RECEVEING_RAW_FW"
    BY <1>6, <2>2 DEF NewWindow, RawReceiving
  <2>4. CASE ret
    BY <1>3, <2>1, <2>2, <2>3, <2>4
  <2>5. CASE ~ret
    <3>1. Answers(FALSE)
      <4>1. ret = FALSE
        BY <2>5
      <4>2. QED
        BY <2>1, <4>1
    <3>2. count_pck' = count_pck + 1 - Window /\ count_pck' # total_pck
      BY <1>3, <1>9, <2>2, <2>5
    <3>3. QED
      BY <2>3, <3>1, <3>2
  <2>6. QED
    BY <2>4, <2>5
<1>10. QED
  BY <1>4, <1>5, <1>6, <1>7, <1>8, <1>9, Zenon DEF ReceiveRaw, Window
-----------------------------------------------------------------------------
(***************************************************************************)
(* The conversation, step by step.                                         *)
(***************************************************************************)
\* A step that notifies nothing adds nothing to what is on its way.
LEMMA Silent ==
    ASSUME notes \in Seq(RawResponse), tx' = <<>>, Notify
    PROVE  notes' = notes /\ used' = used
<1>1. notes \o <<>> = notes
  OBVIOUS
<1>2. QED
  BY <1>1 DEF Notify

\* A step that answers leaves one answer: on its way, or lost.
LEMMA Notified ==
    ASSUME Quiet, link, used \in [Spendings -> Nat],
           NEW ack \in BOOLEAN, Answers(ack), Notify, UNCHANGED ackVars
    PROVE  Answered(ack)'
<1>1. PICK r : tx' = <<r>> /\ r.ack = ack
  <2>1. PICK count : tx' = <<[type |-> "WRITE_FLASH_PACKET_RESPONSE",
                              ack |-> ack, count |-> count]>>
    BY DEF Answers
  <2>2. QED
    BY <2>1
<1>2. ~ack_rcv' /\ notes = <<>>
  BY DEF Quiet, ackVars
<1>3. CASE notes' = notes \o tx'
  <2>1. notes' = <<r>>
    BY <1>1, <1>2, <1>3
  <2>2. Len(notes') = 1 /\ notes'[1] = r
    BY <2>1
  <2>3. QED
    BY <1>1, <1>2, <2>2 DEF Answered
<1>4. CASE Spend("lost", MaxLost) /\ notes' = notes
  <2>1. used'["lost"] > 0
    BY <1>4 DEF Spend, Spendings
  <2>2. QED
    BY <1>2, <1>4, <2>1 DEF Answered, Quiet
<1>5. QED
  BY <1>3, <1>4 DEF Notify

\* The connection is heard while the GUI is about to ask, or has asked.
LEMMA ConnectionHeard ==
    ASSUME SidesInv, RadioInv, Conversation, link, HCI_Event_CB,
           Head(events) = ConnComplete
    PROVE  Conversation'
<1> USE EventKinds, ShortQueues
<1>1. GAP_ConnectionComplete_CB /\ events # <<>> /\ events' = Tail(events) /\ Notify
      /\ UNCHANGED <<link, guiVars>>
  BY DEF HCI_Event_CB
<1>2. connection_status' = "CONNECTED" /\ tx' = <<>>
  BY <1>1 DEF GAP_ConnectionComplete_CB
<1>3. notes' = notes /\ used' = used
  BY <1>1, <1>2, Silent DEF SidesInv, TalkInv
<1>4. Connecting' /\ Requesting' /\ Sending' /\ Waiting' /\ Closing'
  <2>1. CASE gui = "INIT_PHASE"
    <3>1. events' = <<>> /\ Quiet
      BY <1>1, <2>1 DEF Conversation, Connecting
    <3>2. QED
      BY <1>1, <1>2, <1>3, <2>1, <3>1
      DEF Connecting, Requesting, Sending, Waiting, Closing, guiVars, ackVars, Quiet
  <2>2. CASE gui = "WAIT_RESPONSE"
    <3>0. Request # ConnComplete
      BY DEF Request
    <3>1. events = <<ConnComplete, Request>> /\ Quiet
      BY <1>1, <2>2, <3>0 DEF Conversation, Requesting
    <3>2. events' = <<Request>>
      BY <1>1, <3>1
    <3>3. Request' = Request
      BY <1>1 DEF Request, guiVars, formVars
    <3>4. QED
      BY <1>1, <1>2, <1>3, <2>2, <3>1, <3>2, <3>3
      DEF Connecting, Requesting, Sending, Waiting, Closing, guiVars, ackVars, Quiet
  <2>3. CASE gui \in {"SENDING_DATA", "WAIT_ACK", "CLOSING_PHASE"}
    <3>1. Flowing
      BY <1>1, <2>3 DEF Conversation, Sending, Waiting, Closing
    <3>2. events \in Seq(Event)
      BY DEF SidesInv, SendInv
    <3>3. 1 \in 1 .. Len(events) /\ Head(events) = events[1]
      BY <1>1, <3>2
    <3>4. QED
      BY <3>1, <3>3 DEF Flowing, IsData
  <2>4. QED
    BY <2>1, <2>2, <2>3 DEF SidesInv, SendInv, RadioInv, GuiPhase
<1>5. QED
  BY <1>4 DEF Conversation

\* The request is answered, or not heard.
LEMMA RequestHeard ==
    ASSUME SidesInv, RadioInv, Conversation, link, HCI_Event_CB,
           Head(events) # ConnComplete, gui = "WAIT_RESPONSE"
    PROVE  Conversation'
<1> USE EventKinds, ShortQueues
<1>1. Head(events) = Request /\ events = <<Request>> /\ Quiet
      /\ connection_status \in {"IDLE", "CONNECTED"}
  BY DEF HCI_Event_CB, Conversation, Requesting
<1> DEFINE p == Request.packet
<1>2. /\ Head(events).evt = "EVT_BLUE_GATT_ATTRIBUTE_MODIFIED"
      /\ Head(events).packet = p
      /\ p.cmd = "START_FLASH_MODE" /\ p.ok /\ p.app = selected_app
      /\ p.total = num_chunks
  BY <1>1 DEF Request
<1> HIDE DEF p
<1>3. data_handler(p) /\ Notify /\ events' = <<>> /\ UNCHANGED <<link, guiVars>>
  BY <1>1, <1>2 DEF HCI_Event_CB, Attribute_Modified_CB
<1>4. UNCHANGED ackVars /\ UNCHANGED <<gui, selected_app, num_chunks>>
  BY <1>3 DEF guiVars, formVars
<1>5. Requesting'
  <2>1. CASE connection_status = "IDLE"
    <3>1. tx' = <<>> /\ connection_status' = "IDLE"
      BY <1>2, <1>3, <2>1, RequestHandled DEF RadioInv, LinkInv
    <3>2. notes' = notes
      BY <1>3, <3>1, Silent DEF SidesInv, TalkInv
    <3>3. QED
      BY <1>1, <1>3, <1>4, <3>1, <3>2 DEF Requesting, Quiet, ackVars
  <2>2. CASE connection_status = "CONNECTED"
    <3>1. count_pck = 0
      BY <2>2 DEF SidesInv, SessionInv, RadioInv, LinkInv
    <3>2. \/ Answers(FALSE) /\ connection_status' = "CONNECTED"
          \/ /\ Answers(TRUE) /\ connection_status' = "RECEVEING_RAW_FW"
             /\ AppToUpdate' = p.app /\ total_pck' = p.total /\ count_pck' = count_pck
      BY <1>2, <1>3, <2>2, RequestHandled DEF RadioInv, LinkInv
    <3>3. \/ Answered(FALSE)' /\ connection_status' = "CONNECTED"
          \/ /\ Answered(TRUE)' /\ connection_status' = "RECEVEING_RAW_FW"
             /\ AppToUpdate' = p.app /\ total_pck' = p.total /\ count_pck' = count_pck
      BY <1>1, <1>3, <1>4, <3>2, Notified DEF RadioInv
    <3>4. QED
      BY <1>2, <1>3, <1>4, <3>1, <3>3 DEF Requesting, RawReceiving, Agreed
  <2>3. QED
    BY <1>1, <2>1, <2>2
<1>6. QED
  BY <1>4, <1>5 DEF Conversation, Connecting, Sending, Waiting, Closing

\* A packet is counted, and the last of a window answered.
LEMMA PacketHeard ==
    ASSUME Uploads, SidesInv, RadioInv, Conversation, link, HCI_Event_CB,
           gui \in {"SENDING_DATA", "WAIT_ACK"}
    PROVE  Conversation'
<1> USE EventKinds
<1>1. /\ Flowing /\ events # <<>> /\ events \in Seq(Event)
      /\ gui = "SENDING_DATA" => WindowStart(cont_chunck) <= count_pck
      /\ gui = "WAIT_ACK" => /\ cont_chunck >= Window /\ cont_chunck % Window = 0
                             /\ cont_chunck - Window <= count_pck
                             /\ count_pck < cont_chunck
  BY DEF HCI_Event_CB, Conversation, Sending, Waiting, SidesInv, SendInv
<1>2. 1 \in 1 .. Len(events) /\ Head(events) = events[1] /\ Tail(events) \in Seq(Event)
      /\ Len(Tail(events)) = Len(events) - 1 /\ Len(events) \in Nat
      /\ \A i \in 1 .. Len(Tail(events)) : i + 1 \in 1 .. Len(events)
                                           /\ Tail(events)[i] = events[i + 1]
  BY <1>1
<1>3. IsData(Head(events))
  BY <1>1, <1>2 DEF Flowing
<1> DEFINE p == Head(events).packet
<1>4. data_handler(p) /\ Notify /\ events' = Tail(events) /\ UNCHANGED <<link, guiVars>>
  BY <1>3 DEF HCI_Event_CB, IsData, Attribute_Modified_CB
<1>5. /\ UNCHANGED <<gui, ackVars, ack_rcv, is_ack, selected_app, num_chunks, cont_chunck>>
      /\ UNCHANGED <<AppToUpdate, total_pck>>
      /\ \/ /\ (count_pck + 1) % Window # 0
            /\ tx' = <<>> /\ count_pck' = count_pck + 1
            /\ connection_status' = "RECEVEING_RAW_FW"
         \/ /\ (count_pck + 1) % Window = 0
            /\ Answers(TRUE) /\ count_pck' = count_pck + 1
            /\ connection_status' = IF count_pck + 1 = total_pck
                                    THEN "CLOSING_CONNECTION"
                                    ELSE "RECEVEING_RAW_FW"
         \/ /\ (count_pck + 1) % Window = 0
            /\ Answers(FALSE) /\ count_pck' = count_pck + 1 - Window
            /\ connection_status' = "RECEVEING_RAW_FW"
  <2>1. p.cmd = "WRITE_FLASH_PACKET"
    BY <1>3 DEF IsData
  <2> HIDE DEF p
  <2>2. UNCHANGED <<gui, ackVars, ack_rcv, is_ack, selected_app, num_chunks, cont_chunck>>
    BY <1>4 DEF guiVars, ackVars, formVars, loopVars
  <2>3. QED
    BY <1>1, <1>4, <2>1, <2>2, DataHandled
    DEF Flowing, SidesInv, RadioInv, LinkInv, Uploads
<1>6. /\ count_pck \in Nat /\ cont_chunck \in Nat /\ Window \in Nat \ {0}
      /\ count_pck + Len(events) <= cont_chunck /\ Len(events) >= 1
      /\ Quiet /\ Agreed
  <2>1. count_pck \in Nat /\ Window \in Nat \ {0}
    BY HandlerAssumption DEF SidesInv, TypeOK, HandlerTypeOK, Count, Window
  <2>2. cont_chunck \in Int
    BY DEF SidesInv, SendInv
  <2>3. QED
    BY <1>1, <1>2, <2>1, <2>2 DEF Flowing
<1>7. CASE (count_pck + 1) % Window # 0
  <2>1. notes' = notes /\ used' = used
    BY <1>4, <1>5, <1>7, Silent DEF SidesInv, TalkInv
  <2>2. /\ count_pck' = count_pck + 1 /\ Len(events') = Len(events) - 1
        /\ \A i \in 1 .. Len(events') : IsData(events'[i])
    BY <1>1, <1>2, <1>4, <1>5, <1>7 DEF Flowing
  <2>3. Flowing'
    <3>1. Quiet' /\ RawReceiving' /\ Agreed'
      BY <1>5, <1>6, <1>7, <2>1 DEF Quiet, RawReceiving, Agreed
    <3>2. count_pck' + Len(events') = count_pck + Len(events)
      BY <1>2, <1>6, <2>2
    <3>3. QED
      BY <1>1, <1>5, <2>1, <2>2, <3>1, <3>2 DEF Flowing
  <2>4. gui = "SENDING_DATA" => WindowStart(cont_chunck)' <= count_pck'
    <3>1. WindowStart(cont_chunck) \in Nat
      BY <1>6, StartFacts DEF WindowStart
    <3>2. WindowStart(cont_chunck)' = WindowStart(cont_chunck)
      BY <1>5 DEF WindowStart
    <3>3. QED
      BY <1>1, <1>6, <2>2, <3>1, <3>2
  <2>5. gui = "WAIT_ACK" => /\ cont_chunck - Window <= count_pck'
                            /\ count_pck' < cont_chunck
    BY <1>1, <1>6, <1>7, <2>2
  <2>6. QED
    BY <1>1, <1>5, <2>3, <2>4, <2>5
    DEF Conversation, Connecting, Requesting, Sending, Waiting, Closing
<1>8. CASE (count_pck + 1) % Window = 0
  <2>1. gui = "WAIT_ACK" /\ count_pck + 1 = cont_chunck
    <3>1. CASE gui = "SENDING_DATA"
      <4>1. /\ WindowStart(cont_chunck) \in Nat /\ WindowStart(cont_chunck) % Window = 0
            /\ cont_chunck < WindowStart(cont_chunck) + Window
        <5>1. /\ cont_chunck % Window \in Nat /\ cont_chunck % Window < Window
              /\ cont_chunck - (cont_chunck % Window) \in Nat
              /\ (cont_chunck - (cont_chunck % Window)) % Window = 0
          BY <1>6, StartFacts
        <5>2. cont_chunck < (cont_chunck - (cont_chunck % Window)) + Window
          BY <1>6, <5>1
        <5>3. QED
          BY <5>1, <5>2 DEF WindowStart
      <4>2. count_pck + 1 < WindowStart(cont_chunck) + Window
        BY <1>6, <4>1
      <4>3. QED
        BY <1>1, <1>6, <1>8, <3>1, <4>1, <4>2, InsideWindow
    <3>2. CASE gui = "WAIT_ACK" /\ count_pck + 1 # cont_chunck
      <4>1. cont_chunck - Window \in Nat /\ (cont_chunck - Window) % Window = 0
        BY <1>1, <1>6, <3>2, WindowBefore
      <4>2. count_pck + 1 < (cont_chunck - Window) + Window
        BY <1>1, <1>6, <3>2
      <4>3. QED
        BY <1>1, <1>6, <1>8, <3>2, <4>1, <4>2, InsideWindow
    <3>3. QED
      BY <3>1, <3>2
  <2>2. events' = <<>>
    <3>1. Tail(events) \in Seq(Event) /\ Len(Tail(events)) = 0
      BY <1>2, <1>6, <2>1
    <3>2. \A q \in Seq(Event) : Len(q) = 0 => q = <<>>
      OBVIOUS
    <3>3. QED
      BY <1>4, <3>1, <3>2
  <2>3. \/ /\ Answered(TRUE)' /\ count_pck' = cont_chunck
           /\ connection_status' = IF cont_chunck = total_pck
                                   THEN "CLOSING_CONNECTION" ELSE "RECEVEING_RAW_FW"
        \/ /\ Answered(FALSE)' /\ count_pck' = cont_chunck - Window
           /\ connection_status' = "RECEVEING_RAW_FW"
    <3>1. ASSUME NEW ack \in BOOLEAN, Answers(ack) PROVE Answered(ack)'
      BY <1>4, <1>5, <1>6, <3>1, Notified DEF RadioInv
    <3>2. \/ /\ Answers(TRUE) /\ count_pck' = cont_chunck
             /\ connection_status' = IF cont_chunck = total_pck
                                     THEN "CLOSING_CONNECTION" ELSE "RECEVEING_RAW_FW"
          \/ /\ Answers(FALSE) /\ count_pck' = cont_chunck - Window
             /\ connection_status' = "RECEVEING_RAW_FW"
      <4> DEFINE acked   == Answers(TRUE)
                 refused == Answers(FALSE)
      <4>1. \/ /\ acked /\ count_pck' = count_pck + 1
               /\ connection_status' = IF count_pck + 1 = total_pck
                                       THEN "CLOSING_CONNECTION" ELSE "RECEVEING_RAW_FW"
            \/ /\ refused /\ count_pck' = count_pck + 1 - Window
               /\ connection_status' = "RECEVEING_RAW_FW"
        BY <1>5, <1>8
      <4> HIDE DEF acked, refused
      <4>2. \/ /\ acked /\ count_pck' = cont_chunck
               /\ connection_status' = IF cont_chunck = total_pck
                                       THEN "CLOSING_CONNECTION" ELSE "RECEVEING_RAW_FW"
            \/ /\ refused /\ count_pck' = cont_chunck - Window
               /\ connection_status' = "RECEVEING_RAW_FW"
        BY <1>6, <2>1, <4>1
      <4>3. QED
        BY <4>2, Zenon DEF acked, refused
    <3>3. QED
      BY <3>1, <3>2
  <2>4. Agreed' /\ total_pck = num_chunks
    BY <1>5, <1>6 DEF Agreed
  <2>5. Waiting'
    BY <1>1, <1>5, <2>1, <2>2, <2>3, <2>4 DEF Waiting, RawReceiving
  <2>6. QED
    BY <1>5, <2>1, <2>5 DEF Conversation, Connecting, Requesting, Sending, Closing
<1>9. QED
  BY <1>7, <1>8

\* One message lost or altered, one session, drop, reset or restart more.
LEMMA Spent ==
    ASSUME RadioInv, NEW what \in Spendings, NEW bound, Spend(what, bound)
    PROVE  /\ used' \in [Spendings -> Nat]
           /\ used'["lost"] >= used["lost"] /\ used["lost"] \in Nat
           /\ what = "lost" => used'["lost"] > 0
<1>1. used \in [Spendings -> Nat]
  BY DEF RadioInv
<1>2. used' = [used EXCEPT ![what] = used[what] + 1]
  BY DEF Spend
<1>3. QED
  BY <1>1, <1>2 DEF Spendings

\* An event that is dropped leaves a side that waits, and a loss to show for it.
LEMMA EventDropped ==
    ASSUME SidesInv, RadioInv, Conversation, link, DropEvent
    PROVE  Conversation'
<1> USE EventKinds, ShortQueues
<1>1. /\ events # <<>> /\ events' = Tail(events) /\ used'["lost"] > 0
      /\ UNCHANGED <<link, notes, guiVars>>
  <2>1. Spend("lost", MaxLost)
    BY DEF DropEvent
  <2>2. QED
    BY <2>1, Spent DEF DropEvent, Spendings
<1>2. UNCHANGED <<connection_status, AppToUpdate, total_pck, count_pck>>
  BY DEF DropEvent, ConnectionMissed, deviceVars, handlerVars, windowVars
<1>3. UNCHANGED <<gui, ack_rcv, is_ack, selected_app, num_chunks, cont_chunck>>
  BY <1>1 DEF guiVars, ackVars, formVars, loopVars
<1>4. Request' = Request /\ Request # ConnComplete
  BY <1>3 DEF Request
<1>5. CASE gui = "INIT_PHASE"
  <2>1. Quiet /\ connection_status = "IDLE" /\ events = <<ConnComplete>>
    BY <1>1, <1>5 DEF Conversation, Connecting
  <2>2. QED
    BY <1>1, <1>2, <1>3, <1>5, <2>1
    DEF Conversation, Connecting, Requesting, Sending, Waiting, Closing, Quiet
<1>6. CASE gui = "WAIT_RESPONSE"
  <2>1. /\ Quiet
        /\ \/ connection_status = "IDLE" /\ events \in {<<ConnComplete, Request>>, <<Request>>}
           \/ connection_status = "CONNECTED" /\ events = <<Request>>
    BY <1>1, <1>6 DEF Conversation, Requesting
  <2>2. Quiet' /\ Answered(FALSE)'
    BY <1>1, <1>3, <2>1 DEF Quiet, Answered
  <2>3. Requesting'
    BY <1>1, <1>2, <1>4, <2>1, <2>2 DEF Requesting
  <2>4. QED
    BY <1>3, <1>6, <2>3 DEF Conversation, Connecting, Sending, Waiting, Closing
<1>7. CASE gui \in {"SENDING_DATA", "WAIT_ACK"}
  <2>1. Flowing /\ events \in Seq(Event)
    BY <1>1, <1>7 DEF Conversation, Sending, Waiting, SidesInv, SendInv
  <2>2. /\ Len(events) \in Nat /\ Len(events') = Len(events) - 1
        /\ \A i \in 1 .. Len(events') : IsData(events'[i])
    <3>1. Len(Tail(events)) = Len(events) - 1 /\ Len(events) \in Nat
      BY <1>1, <2>1
    <3>2. ASSUME NEW i \in 1 .. Len(Tail(events)) PROVE IsData(Tail(events)[i])
      <4>1. i + 1 \in 1 .. Len(events) /\ Tail(events)[i] = events[i + 1]
        BY <1>1, <2>1, <3>1
      <4>2. QED
        BY <2>1, <4>1 DEF Flowing
    <3>3. QED
      BY <1>1, <3>1, <3>2
  <2>3. count_pck \in Nat /\ cont_chunck \in Int
    BY HandlerAssumption DEF SidesInv, TypeOK, HandlerTypeOK, Count, SendInv
  <2>4. count_pck' + Len(events') <= cont_chunck'
    BY <1>2, <1>3, <2>1, <2>2, <2>3 DEF Flowing
  <2>5. Flowing'
    BY <1>1, <1>2, <1>3, <2>1, <2>2, <2>4
    DEF Flowing, Quiet, RawReceiving, Agreed
  <2>6. QED
    BY <1>1, <1>2, <1>3, <1>7, <2>5
    DEF Conversation, Connecting, Requesting, Sending, Waiting, Closing, WindowStart
<1>8. CASE gui = "CLOSING_PHASE"
  BY <1>1, <1>8 DEF Conversation, Closing
<1>9. QED
  BY <1>5, <1>6, <1>7, <1>8 DEF SidesInv, SendInv, RadioInv, GuiPhase

\* read_response takes the one answer there is.
LEMMA AnswerRead ==
    ASSUME SidesInv, RadioInv, Conversation, link, read_response
    PROVE  Conversation'
<1>1. /\ notes # <<>> /\ notes' = Tail(notes) /\ is_ack' = Head(notes).ack /\ ack_rcv'
      /\ UNCHANGED <<link, events, gui, selected_app, num_chunks, cont_chunck, used,
                     connection_status, AppToUpdate, total_pck, count_pck>>
  BY DEF read_response, formVars, loopVars, deviceVars, handlerVars, windowVars
<1>2. ASSUME NEW ack \in BOOLEAN, Answered(ack) PROVE Answered(ack)'
  <2>1. Len(notes) = 1 /\ notes[1].ack = ack /\ notes \in Seq(RawResponse)
    BY <1>1, <1>2 DEF Answered, Quiet, SidesInv, TalkInv
  <2>2. notes' = <<>> /\ is_ack' = ack
    BY <1>1, <2>1, OneNote
  <2>3. QED
    BY <1>1, <2>2 DEF Answered
<1>3. ~Quiet
  BY <1>1 DEF Quiet
<1>4. Request' = Request
  BY <1>1 DEF Request
<1>5. gui \in {"WAIT_RESPONSE", "WAIT_ACK"}
  BY <1>3
  DEF Conversation, Connecting, Requesting, Sending, Waiting, Closing, Flowing,
      SidesInv, SendInv, RadioInv, GuiPhase
<1>6. Requesting'
  BY <1>1, <1>2, <1>3 DEF Conversation, Requesting, RawReceiving, Agreed
<1>7. Waiting'
  BY <1>1, <1>2, <1>3 DEF Conversation, Waiting, Flowing, RawReceiving, Agreed
<1>8. QED
  BY <1>1, <1>5, <1>6, <1>7 DEF Conversation, Connecting, Sending, Closing

\* A chunk joins those on their way; the last of a window has the GUI wait.
LEMMA ChunkSent ==
    ASSUME Uploads, SidesInv, RadioInv, Conversation, link, link', SendChunk
    PROVE  Conversation'
<1> USE EventKinds
<1>1. /\ gui = "SENDING_DATA" /\ cont_chunck' = cont_chunck + 1
      /\ gui' = IF cont_chunck' % Window = 0 \/ cont_chunck' = num_chunks
                THEN "WAIT_ACK" ELSE "SENDING_DATA"
      /\ UNCHANGED <<link, notes, selected_app, num_chunks, ackVars>>
      /\ UNCHANGED <<connection_status, AppToUpdate, total_pck, count_pck>>
  BY DEF SendChunk, Raise, Hangup, Write, formVars, deviceVars, handlerVars, windowVars,
         Window
<1> DEFINE packet(ok) == [cmd |-> "WRITE_FLASH_PACKET", num |-> cont_chunck,
                          ok |-> ok, data |-> Chunk(cont_chunck, PAYLOAD_LEN)]
<1>2. PICK ok \in BOOLEAN : /\ events' = Append(events, Modified(packet(ok)))
                            /\ IF ok THEN UNCHANGED used ELSE Altered
  <2>1. ~Raise
    BY DEF Raise, Hangup
  <2>2. \E ok \in BOOLEAN : (IF ok THEN UNCHANGED used ELSE Altered) /\ Write(packet(ok))
    BY <2>1, Zenon DEF SendChunk
  <2> HIDE DEF packet
  <2>3. QED
    BY <2>2 DEF Write
<1>3. IsData(Modified(packet(ok)))
  BY DEF IsData
<1> HIDE DEF packet
<1>4. used'["lost"] >= used["lost"] /\ used["lost"] \in Nat /\ used'["lost"] \in Nat
  <2>1. CASE UNCHANGED used
    BY <2>1 DEF RadioInv, Spendings
  <2>2. CASE Altered
    BY <2>2, Spent DEF Altered, Spendings
  <2>3. QED
    BY <1>2, <2>1, <2>2
<1>5. /\ Flowing /\ WindowStart(cont_chunck) <= count_pck
      /\ events \in Seq(Event) /\ cont_chunck < num_chunks /\ num_chunks \in Totals
  BY <1>1 DEF Conversation, Sending, SidesInv, SendInv
<1>6. /\ count_pck \in Nat /\ cont_chunck \in Nat /\ Window \in Nat \ {0}
      /\ num_chunks \in Nat /\ num_chunks % Window = 0 /\ Len(events) \in Nat
      /\ count_pck <= cont_chunck
  <2>1. count_pck \in Nat /\ Window \in Nat \ {0} /\ num_chunks \in Nat
    BY <1>5, HandlerAssumption, ClientAssumption
    DEF SidesInv, TypeOK, HandlerTypeOK, Count, Window
  <2>2. cont_chunck \in Int /\ Len(events) \in Nat
    BY <1>5 DEF SidesInv, SendInv
  <2>3. num_chunks % Window = 0
    BY <1>5 DEF Uploads, RawImages
  <2>4. QED
    BY <1>5, <2>1, <2>2, <2>3 DEF Flowing
<1>7. Flowing'
  <2>1. /\ Len(events') = Len(events) + 1
        /\ \A i \in 1 .. Len(events') :
              events'[i] = IF i = Len(events) + 1 THEN Modified(packet(ok)) ELSE events[i]
    BY <1>2, <1>5
  <2>2. \A i \in 1 .. Len(events') : IsData(events'[i])
    <3>1. \A i \in 1 .. Len(events) + 1 : i # Len(events) + 1 => i \in 1 .. Len(events)
      BY <1>6
    <3>2. QED
      BY <1>3, <1>5, <2>1, <3>1 DEF Flowing
  <2>3. /\ count_pck' + Len(events') <= cont_chunck'
        /\ count_pck' + Len(events') < cont_chunck' => used'["lost"] > 0
    <3>1. /\ count_pck + Len(events) <= cont_chunck
          /\ count_pck + Len(events) < cont_chunck => used["lost"] > 0
      BY <1>5 DEF Flowing
    <3>2. count_pck' = count_pck /\ cont_chunck' = cont_chunck + 1
          /\ Len(events') = Len(events) + 1
      BY <1>1, <2>1
    <3>3. count_pck' + Len(events') = (count_pck + Len(events)) + 1
      BY <1>6, <3>2
    <3>4. count_pck + Len(events) \in Nat
      BY <1>6
    <3>5. \A x, y \in Nat : (x + 1 <= y + 1 <=> x <= y) /\ (x + 1 < y + 1 <=> x < y)
      OBVIOUS
    <3>6. used["lost"] > 0 => used'["lost"] > 0
      BY <1>4
    <3>7. QED
      BY <1>6, <3>1, <3>2, <3>3, <3>4, <3>5, <3>6
  <2>4. Quiet' /\ RawReceiving' /\ Agreed'
    BY <1>1, <1>5 DEF Flowing, Quiet, RawReceiving, Agreed, ackVars
  <2>5. QED
    BY <2>2, <2>3, <2>4 DEF Flowing
<1>8. CASE (cont_chunck + 1) % Window = 0
  <2>1. WindowStart(cont_chunck) = cont_chunck + 1 - Window
    BY <1>6, <1>8, WindowEnd DEF WindowStart
  <2>2. cont_chunck + 1 >= Window
    BY <1>6, <1>8, WindowAtLeast
  <2>3. /\ cont_chunck' = cont_chunck + 1 /\ count_pck' = count_pck
        /\ cont_chunck' >= Window /\ cont_chunck' % Window = 0
    BY <1>1, <1>8, <2>2
  <2>4. cont_chunck' - Window <= count_pck' /\ count_pck' < cont_chunck'
    BY <1>5, <1>6, <2>1, <2>3
  <2>5. Waiting'
    BY <1>7, <2>3, <2>4 DEF Waiting
  <2>6. QED
    BY <1>1, <1>8, <2>5 DEF Conversation, Connecting, Requesting, Sending, Closing
<1>9. CASE (cont_chunck + 1) % Window # 0
  <2>1. gui' = "SENDING_DATA"
    BY <1>1, <1>6, <1>9
  <2>2. WindowStart(cont_chunck + 1) = WindowStart(cont_chunck)
    <3>1. (cont_chunck + 1) % Window = (cont_chunck % Window) + 1
          /\ cont_chunck % Window \in Nat
      BY <1>6, <1>9, ModStep, StartFacts
    <3>2. QED
      BY <1>6, <3>1 DEF WindowStart
  <2>3. WindowStart(cont_chunck)' = WindowStart(cont_chunck + 1)
    BY <1>1 DEF WindowStart
  <2>4. Sending'
    BY <1>1, <1>5, <1>7, <2>2, <2>3 DEF Sending
  <2>5. QED
    BY <2>1, <2>4 DEF Conversation, Connecting, Requesting, Waiting, Closing
<1>10. QED
  BY <1>8, <1>9

\* The request joins the connection's event, or finds it heard.
LEMMA RequestSent ==
    ASSUME SidesInv, RadioInv, Conversation, link, link',
           SendRequest("INIT_PHASE", "START_FLASH_MODE")
    PROVE  Conversation'
<1> USE EventKinds, ShortQueues
<1>1. /\ gui = "INIT_PHASE" /\ gui' = "WAIT_RESPONSE"
      /\ events' = Append(events, Request)
      /\ UNCHANGED <<link, notes, ack_rcv, selected_app, num_chunks, connection_status>>
  BY DEF SendRequest, Raise, Hangup, Write, Request, formVars, ackVars, deviceVars,
         handlerVars
<1>2. Request' = Request
  BY <1>1 DEF Request
<1>3. /\ Quiet
      /\ \/ connection_status = "IDLE" /\ events \in {<<>>, <<ConnComplete>>}
         \/ connection_status = "CONNECTED" /\ events = <<>>
  BY <1>1 DEF Conversation, Connecting
<1>4. Quiet'
  BY <1>1, <1>3 DEF Quiet
<1>5. Requesting'
  <2>1. CASE connection_status = "IDLE" /\ events = <<>>
    BY <1>1, <1>2, <1>4, <2>1 DEF Requesting
  <2>2. CASE connection_status = "IDLE" /\ events = <<ConnComplete>>
    BY <1>1, <1>2, <1>4, <2>2 DEF Requesting
  <2>3. CASE connection_status = "CONNECTED" /\ events = <<>>
    BY <1>1, <1>2, <1>4, <2>3 DEF Requesting
  <2>4. QED
    BY <1>3, <2>1, <2>2, <2>3
<1>6. QED
  BY <1>1, <1>5 DEF Conversation, Connecting, Sending, Waiting, Closing

\* The first answer starts the packets, or ends the upload.
LEMMA ResponseTaken ==
    ASSUME Uploads, SidesInv, RadioInv, Conversation, link, GetResponse("SENDING_DATA")
    PROVE  Conversation'
<1>1. /\ gui = "WAIT_RESPONSE" /\ ack_rcv /\ ~ack_rcv'
      /\ gui' = IF ~is_ack \/ num_chunks = 0 THEN "CLOSING_PHASE" ELSE "SENDING_DATA"
      /\ UNCHANGED <<link, events, notes, is_ack, selected_app, num_chunks, cont_chunck,
                     used, connection_status, AppToUpdate, total_pck, count_pck>>
  BY DEF GetResponse, formVars, loopVars, deviceVars, handlerVars, windowVars
<1>2. num_chunks # 0 /\ cont_chunck = 0
  BY <1>1 DEF Uploads, RawImages, SidesInv, SendInv
<1>3. /\ events = <<>> /\ notes = <<>>
      /\ is_ack => RawReceiving /\ Agreed /\ count_pck = 0
  BY <1>1 DEF Conversation, Requesting, Quiet, Answered
<1>4. Quiet'
  BY <1>1, <1>3 DEF Quiet
<1>5. CASE ~is_ack
  BY <1>1, <1>3, <1>4, <1>5
  DEF Conversation, Connecting, Requesting, Sending, Waiting, Closing
<1>6. CASE is_ack
  <2>1. gui' = "SENDING_DATA"
    BY <1>1, <1>2, <1>6
  <2>2. count_pck' = 0 /\ cont_chunck' = 0 /\ Len(events') = 0
    BY <1>1, <1>2, <1>3, <1>6
  <2>3. Flowing'
    BY <1>1, <1>3, <1>4, <1>6, <2>2 DEF Flowing, RawReceiving, Agreed
  <2>4. WindowStart(cont_chunck)' <= count_pck'
    <3>1. Window \in Nat \ {0} /\ 0 % Window = 0
      BY HandlerAssumption DEF Window
    <3>2. QED
      BY <2>2, <3>1 DEF WindowStart
  <2>5. QED
    BY <2>1, <2>3, <2>4 DEF Conversation, Connecting, Requesting, Sending, Waiting, Closing
<1>7. QED
  BY <1>5, <1>6

\* A GUI that has an answer has nothing on its way.
LEMMA AnswerTaken ==
    ASSUME Uploads, SidesInv, Conversation, link, gui = "WAIT_ACK", ack_rcv
    PROVE  /\ notes = <<>> /\ events = <<>> /\ Agreed
           /\ cont_chunck \in Nat /\ cont_chunck >= Window /\ cont_chunck % Window = 0
           /\ is_ack => /\ count_pck = cont_chunck
                        /\ connection_status = IF cont_chunck = num_chunks
                                               THEN "CLOSING_CONNECTION"
                                               ELSE "RECEVEING_RAW_FW"
           /\ ~is_ack => count_pck = cont_chunck - Window /\ RawReceiving
<1>1. Window \in Nat \ {0} /\ cont_chunck \in Int
  BY HandlerAssumption DEF Window, SidesInv, SendInv
<1>2. ~Flowing
  BY DEF Flowing, Quiet
<1>3. Waiting
  BY DEF Conversation
<1>4. QED
  BY <1>1, <1>2, <1>3 DEF Waiting, Answered, Quiet

\* The next window starts, or the image is complete.
LEMMA AckTaken ==
    ASSUME Uploads, SidesInv, RadioInv, Conversation, link, WindowAcked("SENDING_DATA")
    PROVE  Conversation'
<1>1. /\ gui = "WAIT_ACK" /\ ack_rcv /\ is_ack /\ ~ack_rcv'
      /\ gui' = IF cont_chunck < num_chunks THEN "SENDING_DATA" ELSE "CLOSING_PHASE"
      /\ UNCHANGED <<link, events, notes, is_ack, selected_app, num_chunks, cont_chunck,
                     used, connection_status, AppToUpdate, total_pck, count_pck>>
  BY DEF WindowAcked, formVars, deviceVars, handlerVars, windowVars
<1>2. /\ notes = <<>> /\ events = <<>> /\ Agreed
      /\ cont_chunck \in Nat /\ cont_chunck >= Window /\ cont_chunck % Window = 0
      /\ count_pck = cont_chunck
      /\ connection_status = IF cont_chunck = num_chunks
                             THEN "CLOSING_CONNECTION" ELSE "RECEVEING_RAW_FW"
  BY <1>1, AnswerTaken
<1>3. Quiet' /\ Agreed'
  BY <1>1, <1>2 DEF Quiet, Agreed
<1>4. CASE cont_chunck < num_chunks
  <2>1. num_chunks \in Nat /\ cont_chunck # num_chunks
    BY <1>2, <1>4, ClientAssumption DEF SidesInv, SendInv, Count
  <2>2. Flowing'
    <3>1. Len(events') = 0 /\ count_pck' = cont_chunck' /\ cont_chunck' \in Nat
      BY <1>1, <1>2
    <3>2. QED
      BY <1>1, <1>2, <1>3, <2>1, <3>1 DEF Flowing, RawReceiving
  <2>3. WindowStart(cont_chunck)' <= count_pck'
    BY <1>1, <1>2 DEF WindowStart
  <2>4. QED
    BY <1>1, <1>4, <2>2, <2>3
    DEF Conversation, Connecting, Requesting, Sending, Waiting, Closing
<1>5. CASE ~(cont_chunck < num_chunks)
  <2>1. cont_chunck = num_chunks
    BY <1>2, <1>5, ClientAssumption DEF SidesInv, SendInv, Count
  <2>2. QED
    BY <1>1, <1>2, <1>3, <1>5, <2>1
    DEF Conversation, Connecting, Requesting, Sending, Waiting, Closing
<1>6. QED
  BY <1>4, <1>5

\* The window is sent again, or the user stops.
LEMMA RefusalTaken ==
    ASSUME Uploads, SidesInv, RadioInv, Conversation, link, WindowRefused
    PROVE  Conversation'
<1>1. /\ gui = "WAIT_ACK" /\ ack_rcv /\ ~is_ack /\ ~ack_rcv'
      /\ gui' \in {"SENDING_DATA", "CLOSING_PHASE"}
      /\ cont_chunck' = cont_chunck - Window
      /\ UNCHANGED <<link, events, notes, is_ack, selected_app, num_chunks,
                     used, connection_status, AppToUpdate, total_pck, count_pck>>
  BY DEF WindowRefused, formVars, deviceVars, handlerVars, windowVars, Window
<1>2. /\ notes = <<>> /\ events = <<>> /\ Agreed
      /\ cont_chunck \in Nat /\ cont_chunck >= Window /\ cont_chunck % Window = 0
      /\ count_pck = cont_chunck - Window /\ RawReceiving
  BY <1>1, AnswerTaken
<1>3. cont_chunck' \in Nat /\ cont_chunck' % Window = 0 /\ count_pck' = cont_chunck'
  <2>1. Window \in Nat \ {0}
    BY HandlerAssumption DEF Window
  <2>2. QED
    BY <1>1, <1>2, <2>1, WindowBefore
<1>4. Quiet' /\ Agreed' /\ RawReceiving'
  BY <1>1, <1>2 DEF Quiet, Agreed, RawReceiving
<1>5. Flowing'
  <2>1. Len(events') = 0 /\ count_pck' + Len(events') = cont_chunck'
    BY <1>1, <1>2, <1>3
  <2>2. \A i \in 1 .. Len(events') : IsData(events'[i])
    BY <2>1
  <2>3. /\ count_pck' + Len(events') <= cont_chunck'
        /\ ~(count_pck' + Len(events') < cont_chunck')
    <3>1. \A n \in Nat : n <= n /\ ~(n < n)
      OBVIOUS
    <3>2. QED
      BY <1>3, <2>1, <3>1, Zenon
  <2>4. QED
    BY <1>4, <2>2, <2>3, Zenon DEF Flowing
<1>6. WindowStart(cont_chunck)' <= count_pck'
  BY <1>3 DEF WindowStart
<1>7. QED
  BY <1>1, <1>2, <1>4, <1>5, <1>6
  DEF Conversation, Connecting, Requesting, Sending, Waiting, Closing

\* An upload starts on a quiet device, with nothing on its way.
LEMMA Started ==
    ASSUME SidesInv, RadioInv, NEW app, NEW total, StartUpload(app, total, "INIT_PHASE")
    PROVE  /\ events = <<>> /\ events' = <<ConnComplete>> /\ advertising
           /\ Conversation'
<1> USE EventKinds, ShortQueues
<1>1. /\ gui = "IDLE" /\ advertising /\ ~link /\ gui' = "INIT_PHASE"
      /\ \A i \in DOMAIN events : events[i] # ConnComplete
      /\ events' = Append(events, ConnComplete)
      /\ UNCHANGED <<notes, ack_rcv, connection_status>>
  BY DEF StartUpload, Connectable, ackVars, deviceVars, handlerVars
<1>2. events = <<>>
  <2>1. SUFFICES ASSUME events # <<>> PROVE FALSE
    OBVIOUS
  <2>2. 1 \in DOMAIN events
    BY <2>1 DEF SidesInv, SendInv
  <2>3. QED
    BY <1>1, <2>1, <2>2 DEF RadioInv, LinkInv
<1>3. events' = <<ConnComplete>>
  BY <1>1, <1>2
<1>4. Quiet' /\ connection_status' = "IDLE"
  BY <1>1 DEF RadioInv, LinkInv, Quiet
<1>5. QED
  BY <1>1, <1>2, <1>3, <1>4
  DEF Conversation, Connecting, Requesting, Sending, Waiting, Closing

\* Whatever is on its way in a session is less than a window and two events.
LEMMA FewWhileLinked ==
    ASSUME SidesInv, RadioInv, Conversation, link
    PROVE  Len(events) \in Nat /\ Len(events) <= Window + 1
<1>1. Window \in Nat \ {0} /\ Len(events) \in Nat /\ cont_chunck \in Int
      /\ count_pck \in Nat
  BY HandlerAssumption DEF Window, SidesInv, SendInv, TypeOK, HandlerTypeOK, Count
<1>2. CASE gui \in {"INIT_PHASE", "WAIT_RESPONSE", "CLOSING_PHASE"}
  <2>1. Len(<<>>) = 0 /\ \A a : Len(<<a>>) = 1 /\ \A b : Len(<<a, b>>) = 2
    OBVIOUS
  <2>2. events \in {<<>>, <<ConnComplete>>, <<Request>>, <<ConnComplete, Request>>}
    BY <1>2, Zenon DEF Conversation, Connecting, Requesting, Closing
  <2>3. Len(events) \in {0, 1, 2}
    BY <2>1, <2>2, Zenon
  <2>4. \A n \in {0, 1, 2}, w \in Nat \ {0} : n <= w + 1
    OBVIOUS
  <2>5. QED
    BY <1>1, <2>3, <2>4, Zenon
<1>3. CASE gui = "SENDING_DATA"
  <2>1. count_pck + Len(events) <= cont_chunck /\ WindowStart(cont_chunck) <= count_pck
    BY <1>3 DEF Conversation, Sending, Flowing
  <2>2. cont_chunck \in Nat
    BY <1>1, <2>1
  <2>3. cont_chunck % Window \in Nat /\ cont_chunck % Window < Window
    BY <1>1, <2>2, StartFacts
  <2>4. QED
    BY <1>1, <2>1, <2>2, <2>3 DEF WindowStart
<1>4. CASE gui = "WAIT_ACK"
  <2>1. \/ count_pck + Len(events) <= cont_chunck /\ cont_chunck - Window <= count_pck
        \/ events = <<>>
    BY <1>4 DEF Conversation, Waiting, Flowing
  <2>2. QED
    BY <1>1, <2>1
<1>5. QED
  BY <1>2, <1>3, <1>4 DEF SidesInv, SendInv, RadioInv, GuiPhase

\* The conversation stays one: no step leaves anything else on its way.
LEMMA ConversationStep ==
    ASSUME Uploads, SidesInv, RadioInv, Conversation, [UpdateNext]_allVars
    PROVE  Conversation'
<1> SUFFICES ASSUME link' PROVE Conversation'
  BY DEF Conversation
<1>1. CASE \E app \in Selections, total \in Totals : StartUpload(app, total, "INIT_PHASE")
  BY <1>1, Started
<1>2. link' = FALSE <=> ~link'
  BY DEF Conversation
<1>3. CASE link /\ HCI_Event_CB
  <2>1. CASE Head(events) = ConnComplete
    BY <1>3, <2>1, ConnectionHeard
  <2>2. CASE Head(events) # ConnComplete /\ gui = "WAIT_RESPONSE"
    BY <1>3, <2>2, RequestHeard
  <2>3. CASE gui \in {"SENDING_DATA", "WAIT_ACK"}
    BY <1>3, <2>3, PacketHeard
  <2>4. CASE Head(events) # ConnComplete /\ gui \in {"INIT_PHASE", "CLOSING_PHASE"}
    BY <1>3, <2>4, ShortQueues DEF HCI_Event_CB, Conversation, Connecting, Closing
  <2>5. QED
    BY <1>3, <2>1, <2>2, <2>3, <2>4 DEF SidesInv, SendInv, RadioInv, GuiPhase
<1>4. CASE link /\ BlueNRG_Process
  BY <1>3, <1>4 DEF BlueNRG_Process, Enable_Advertising, RadioInv, LinkInv
<1>5. CASE link /\ DropEvent
  BY <1>5, EventDropped
<1>6. CASE link /\ read_response
  BY <1>6, AnswerRead
<1>7. CASE link /\ send_new_fw
  <2>1. ~Finish
    BY <1>2 DEF Finish, Hangup, Raise
  <2>2. QED
    BY <1>7, <2>1, RequestSent, ResponseTaken, ChunkSent, AckTaken, RefusalTaken
    DEF send_new_fw
<1>8. CASE UNCHANGED allVars
  BY <1>8
  DEF allVars, guiVars, formVars, loopVars, ackVars, deviceVars, handlerVars, windowVars,
      Conversation, Connecting, Requesting, Sending, Waiting, Closing, Flowing, Answered,
      Quiet, Agreed, RawReceiving, Request, WindowStart
<1>9. CASE ~link /\ UpdateNext /\ ~\E app \in Selections, total \in Totals :
                                      StartUpload(app, total, "INIT_PHASE")
  BY <1>9
  DEF UpdateNext, BlueNRG_Process, HCI_Event_CB, DropEvent, DeviceReset, LinkDrop,
      read_response, send_new_fw, SendRequest, Write, Raise, Hangup, GetResponse,
      SendChunk, WindowAcked, WindowRefused, Finish, RestartGui
<1>10. CASE DeviceReset \/ LinkDrop \/ RestartGui
  BY <1>10 DEF DeviceReset, LinkDrop, RestartGui, Hangup
<1>11. QED
  BY <1>1, <1>4, <1>5, <1>6, <1>7, <1>8, <1>9, <1>10 DEF UpdateNext
-----------------------------------------------------------------------------
(***************************************************************************)
(* The link and the queue of events.                                       *)
(***************************************************************************)
\* A write joins the queue of a linked device.
LEMMA LinkWritten ==
    ASSUME LinkInv, events \in Seq(Event), link, NEW p,
           events' = Append(events, Modified(p)),
           UNCHANGED <<link, running, connection_status, radioVars>>
    PROVE  LinkInv'
<1> USE EventKinds
<1>1. /\ events' # <<>> /\ (events # <<>> => events'[1] = events[1])
      /\ \A i \in 1 .. Len(events') :
            \/ i = Len(events') /\ events'[i] = Modified(p)
            \/ i \in 1 .. Len(events) /\ i # Len(events') /\ events'[i] = events[i]
  BY Longer
<1>2. UNCHANGED <<set_connectable, advertising, link, running, connection_status>>
  BY DEF radioVars
<1>3. \A i \in 1 .. Len(events') : /\ events'[i] = ConnComplete => i = 1 /\ advertising
                                   /\ events'[i] # DisconnComplete
  BY <1>1 DEF LinkInv
<1>4. QED
  BY <1>1, <1>2, <1>3 DEF LinkInv

\* The end of the link is the last event.
LEMMA LinkEnded ==
    ASSUME LinkInv, events \in Seq(Event), link => Len(events) <= Window + 1,
           ~link', events' = IF link THEN Append(events, DisconnComplete) ELSE events,
           UNCHANGED <<running, connection_status, radioVars>>
    PROVE  LinkInv'
<1> USE EventKinds
<1>1. UNCHANGED <<set_connectable, advertising, running, connection_status>>
  BY DEF radioVars
<1>2. CASE link
  <2>1. /\ events' # <<>> /\ (events # <<>> => events'[1] = events[1])
        /\ Len(events') = Len(events) + 1 /\ Len(events) \in Nat
        /\ \A i \in 1 .. Len(events') :
              \/ i = Len(events') /\ events'[i] = DisconnComplete
              \/ i \in 1 .. Len(events) /\ i # Len(events') /\ events'[i] = events[i]
    BY <1>2, Longer
  <2>2. \A i \in 1 .. Len(events') :
           /\ events'[i] = ConnComplete => i = 1 /\ advertising
           /\ events'[i] = DisconnComplete => i = Len(events')
    BY <1>2, <2>1 DEF LinkInv
  <2>3. Len(events') <= Window + 2
    <3>1. Window \in Nat
      BY HandlerAssumption DEF Window
    <3>2. QED
      BY <1>2, <2>1, <3>1
  <2>4. QED
    BY <1>1, <1>2, <2>1, <2>2, <2>3 DEF LinkInv
<1>3. CASE ~link
  BY <1>1, <1>3 DEF LinkInv
<1>4. QED
  BY <1>2, <1>3

\* What a queue keeps when its first event is taken.
LEMMA LinkTaken ==
    ASSUME LinkInv, events \in Seq(Event), events # <<>>, events' = Tail(events),
           UNCHANGED link, ~advertising', link' => InBootloader',
           set_connectable' => ~link' /\ events' = <<>>
    PROVE  LinkInv'
<1>1. /\ Len(events) \in Nat /\ Len(events') = Len(events) - 1
      /\ \A i \in 1 .. Len(events') : /\ i + 1 \in 1 .. Len(events) /\ i + 1 # 1
                                      /\ events'[i] = events[i + 1]
                                      /\ i + 1 = Len(events) => i = Len(events')
  BY Shorter
<1>2. \A i \in 1 .. Len(events') : /\ events'[i] # ConnComplete
                                   /\ events'[i] = DisconnComplete =>
                                         i = Len(events') /\ ~link
  BY <1>1 DEF LinkInv
<1>3. ~link => Len(events') <= Window + 2
  <2>1. Window \in Nat
    BY HandlerAssumption DEF Window
  <2>2. ~link => Len(events) <= Window + 2
    BY DEF LinkInv
  <2>3. \A n, w \in Nat : n <= w + 2 => n - 1 <= w + 2
    OBVIOUS
  <2>4. QED
    BY <1>1, <2>1, <2>2, <2>3, Zenon
<1>4. QED
  BY <1>2, <1>3 DEF LinkInv

\* A packet leaves the bootloader running, or faults.
LEMMA StaysOrFaults ==
    ASSUME NEW p, data_handler(p)
    PROVE  running' \in {running, "HardFault"}
BY DEF data_handler, OverrunRaw, OverrunSecure, Overrun, WildStore, IgnorePacket

\* An event that is handled is heard by a radio in the state it tells of.
LEMMA LinkHandled ==
    ASSUME LinkInv, RawInv', events \in Seq(Event), HCI_Event_CB
    PROVE  LinkInv'
<1> USE EventKinds
<1>1. /\ events # <<>> /\ events' = Tail(events) /\ UNCHANGED link
      /\ 1 \in 1 .. Len(events) /\ Head(events) = events[1]
      /\ Len(events) = 1 => Tail(events) = <<>>
      /\ running = "bootloader"
  BY Shorter
  DEF HCI_Event_CB, GAP_ConnectionComplete_CB, GAP_DisconnectionComplete_CB,
      Attribute_Modified_CB
<1>2. ~set_connectable
  BY <1>1 DEF LinkInv
<1>3. CASE GAP_ConnectionComplete_CB
  BY <1>1, <1>2, <1>3, LinkTaken DEF GAP_ConnectionComplete_CB
<1>4. CASE Head(events).evt = "EVT_DISCONN_COMPLETE" /\ GAP_DisconnectionComplete_CB
  <2>1. Head(events) = DisconnComplete
    <3>1. Head(events) \in Event
      BY <1>1
    <3>2. QED
      BY <1>4, <3>1 DEF Event
  <2>2. events' = <<>> /\ ~link
    BY <1>1, <2>1 DEF LinkInv
  <2>3. ~advertising'
    BY <1>4 DEF GAP_DisconnectionComplete_CB
  <2>4. QED
    BY <1>1, <2>2, <2>3, LinkTaken
<1>5. CASE Head(events).evt = "EVT_BLUE_GATT_ATTRIBUTE_MODIFIED"
           /\ Attribute_Modified_CB(Head(events).packet)
  <2>1. ~advertising
    BY <1>1, <1>5 DEF LinkInv
  <2>2. running' \in {running, "HardFault"} /\ running' # "HardFault"
        /\ UNCHANGED <<set_connectable, advertising>>
    BY <1>5, StaysOrFaults DEF Attribute_Modified_CB, RawInv, radioVars
  <2>3. QED
    BY <1>1, <1>2, <2>1, <2>2, LinkTaken
<1>6. QED
  BY <1>3, <1>4, <1>5 DEF HCI_Event_CB

\* An event that is lost is not heard, and its connection not waited for.
LEMMA LinkDropped ==
    ASSUME LinkInv, events \in Seq(Event), DropEvent
    PROVE  LinkInv'
<1>1. /\ events # <<>> /\ events' = Tail(events) /\ UNCHANGED link
      /\ Head(events) = events[1] /\ running = "bootloader" /\ UNCHANGED running
      /\ UNCHANGED set_connectable
  BY Shorter DEF DropEvent, ConnectionMissed, deviceVars, radioVars
<1>2. ~set_connectable
  BY <1>1 DEF LinkInv
<1>3. ~advertising'
  BY <1>1 DEF DropEvent, ConnectionMissed, LinkInv, deviceVars, radioVars
<1>4. QED
  BY <1>1, <1>2, <1>3, LinkTaken

\* The link and the queue keep LinkInv in every step.
LEMMA LinkStep ==
    ASSUME Uploads, SidesInv, RawInv', RadioInv, Conversation, [UpdateNext]_allVars
    PROVE  LinkInv'
<1> USE EventKinds
<1>1. LinkInv /\ events \in Seq(Event) /\ (link => Len(events) <= Window + 1)
  BY FewWhileLinked DEF RadioInv, SidesInv, SendInv
<1> DEFINE device == UNCHANGED <<running, connection_status, radioVars>>
<1>2. UNCHANGED deviceVars => device
  BY DEF deviceVars, handlerVars
<1>3. ASSUME device, Hangup PROVE LinkInv'
  <2> HIDE DEF device
  <2>1. UNCHANGED <<running, connection_status, radioVars>>
    BY <1>3 DEF device
  <2>2. QED
    BY <1>1, <1>3, <2>1, LinkEnded DEF Hangup
<1>4. ASSUME device, NEW p, Write(p) PROVE LinkInv'
  BY <1>1, <1>4, LinkWritten DEF Write
<1>5. ASSUME device, UNCHANGED <<link, events>> PROVE LinkInv'
  BY <1>1, <1>5 DEF LinkInv, radioVars
<1> HIDE DEF device
<1>6. CASE BlueNRG_Process
  <2>1. CASE HCI_Event_CB
    BY <1>1, <2>1, LinkHandled
  <2>2. CASE Enable_Advertising /\ UNCHANGED <<link, events>>
    BY <1>1, <2>2 DEF Enable_Advertising, LinkInv, SidesInv, SessionInv
  <2>3. QED
    BY <1>6, <2>1, <2>2 DEF BlueNRG_Process
<1>7. CASE DropEvent
  BY <1>1, <1>7, LinkDropped
<1>8. CASE DeviceReset
  <2>1. /\ link' = FALSE /\ events' = <<>> /\ advertising' = FALSE
    BY <1>8 DEF DeviceReset, Reset
  <2>2. Len(events') <= Window + 2
    BY <2>1, HandlerAssumption DEF Window
  <2>3. QED
    BY <2>1, <2>2 DEF LinkInv
<1>9. CASE LinkDrop
  <2>1. /\ link /\ ~link' /\ events' = Append(events, DisconnComplete) /\ device
    BY <1>2, <1>9 DEF LinkDrop
  <2>2. UNCHANGED <<running, connection_status, radioVars>>
    BY <2>1 DEF device
  <2>3. QED
    BY <1>1, <2>1, <2>2, LinkEnded
<1>10. CASE read_response
  BY <1>2, <1>5, <1>10 DEF read_response
<1>11. CASE \E app \in Selections, total \in Totals : StartUpload(app, total, "INIT_PHASE")
  <2>1. events' = <<ConnComplete>> /\ advertising /\ device
    BY <1>2, <1>11, Started DEF StartUpload
  <2>2. /\ events' # <<>> /\ events'[1] = ConnComplete /\ Len(events') = 1
        /\ \A i \in 1 .. Len(events') : i = 1
    BY <2>1
  <2>3. UNCHANGED <<running, connection_status, set_connectable, advertising>> /\ link'
    BY <1>11, <2>1 DEF StartUpload, device, radioVars
  <2>4. QED
    BY <1>1, <2>1, <2>2, <2>3 DEF LinkInv
<1>12. ASSUME Raise, device PROVE LinkInv'
  BY <1>3, <1>12 DEF Raise
<1>13. CASE SendRequest("INIT_PHASE", "START_FLASH_MODE")
  BY <1>2, <1>4, <1>12, <1>13 DEF SendRequest
<1>14. CASE GetResponse("SENDING_DATA")
  BY <1>2, <1>5, <1>14 DEF GetResponse
<1>15. CASE SendChunk
  BY <1>2, <1>4, <1>12, <1>15, Zenon DEF SendChunk
<1>16. CASE WindowAcked("SENDING_DATA")
  BY <1>2, <1>5, <1>16 DEF WindowAcked
<1>17. CASE WindowRefused
  BY <1>2, <1>5, <1>17 DEF WindowRefused
<1>18. CASE Finish
  BY <1>2, <1>3, <1>12, <1>18 DEF Finish
<1>19. CASE RestartGui
  BY <1>2, <1>3, <1>19 DEF RestartGui
<1>20. CASE UNCHANGED allVars
  BY <1>2, <1>5, <1>20 DEF allVars
<1>21. QED
  BY <1>6, <1>7, <1>8, <1>9, <1>10, <1>11, <1>13, <1>14, <1>15, <1>16, <1>17, <1>18,
     <1>19, <1>20 DEF UpdateNext, send_new_fw

\* What is spent stays counted.
LEMMA UsedStep ==
    ASSUME RadioInv, [UpdateNext]_allVars
    PROVE  used' \in [Spendings -> Nat]
<1>1. \A bound : \A what \in Spendings : Spend(what, bound) => used' \in [Spendings -> Nat]
  BY Spent
<1>2. used \in [Spendings -> Nat]
  BY DEF RadioInv
<1>3. CASE UNCHANGED used
  BY <1>2, <1>3
<1>4. {"sessions", "lost", "noise", "drops", "resets", "restarts"} = Spendings
  BY DEF Spendings
<1>5. \/ UNCHANGED used
      \/ Spend("sessions", MaxSessions) \/ Spend("lost", MaxLost)
      \/ Spend("noise", MaxNoise) \/ Spend("drops", MaxDrops)
      \/ Spend("resets", MaxResets) \/ Spend("restarts", MaxRestarts)
  <2>1. Notify => UNCHANGED used \/ Spend("lost", MaxLost)
    BY DEF Notify
  <2>2. SendChunk => UNCHANGED used \/ Spend("noise", MaxNoise)
    BY Zenon DEF SendChunk, Raise, Altered
  <2>3. QED
    BY <2>1, <2>2
    DEF UpdateNext, BlueNRG_Process, HCI_Event_CB, DropEvent, DeviceReset, LinkDrop,
        read_response, StartUpload, send_new_fw, SendRequest, Raise, GetResponse,
        WindowAcked, WindowRefused, Finish, RestartGui, allVars
<1>6. QED
  BY <1>1, <1>3, <1>4, <1>5

\* A GUI that is done has nothing to read, and a linked one is not done.
LEMMA DoneStep ==
    ASSUME SidesInv, RadioInv, Conversation, [UpdateNext]_allVars
    PROVE  /\ link' => gui' \notin {"IDLE", "RAISED"}
           /\ gui' = "IDLE" => notes' = <<>> /\ ~ack_rcv'
<1> DEFINE Goal == /\ link' => gui' \notin {"IDLE", "RAISED"}
                   /\ gui' = "IDLE" => notes' = <<>> /\ ~ack_rcv'
<1>1. /\ link => gui \notin {"IDLE", "RAISED"}
      /\ gui = "IDLE" => notes = <<>> /\ ~ack_rcv
  BY DEF RadioInv
<1>2. link \in BOOLEAN
  BY DEF SidesInv, TalkInv
<1>3. CASE BlueNRG_Process
  BY <1>1, <1>3
  DEF BlueNRG_Process, HCI_Event_CB, Notify, guiVars, ackVars
<1>4. CASE DropEvent \/ DeviceReset \/ LinkDrop
  BY <1>1, <1>4 DEF DropEvent, DeviceReset, LinkDrop, guiVars, ackVars
<1>5. CASE read_response
  BY <1>1, <1>5 DEF read_response
<1>6. CASE \E app \in Selections, total \in Totals : StartUpload(app, total, "INIT_PHASE")
  BY <1>6 DEF StartUpload
<1>7. ASSUME Raise PROVE Goal
  BY <1>7 DEF Raise, Hangup
<1>8. CASE SendRequest("INIT_PHASE", "START_FLASH_MODE")
  BY <1>7, <1>8 DEF SendRequest
<1>9. CASE GetResponse("SENDING_DATA")
  BY <1>9 DEF GetResponse
<1>10. CASE SendChunk
  <2>1. CASE Raise
    BY <1>7, <2>1
  <2>2. CASE ~Raise
    <3>1. gui' \in {"WAIT_ACK", "SENDING_DATA"}
      BY <1>10, <2>2, Zenon DEF SendChunk
    <3>2. QED
      BY <3>1
  <2>3. QED
    BY <2>1, <2>2
<1>11. CASE WindowAcked("SENDING_DATA") \/ WindowRefused
  BY <1>11 DEF WindowAcked, WindowRefused
<1>12. CASE Finish
  <2>1. CASE Raise
    BY <1>7, <2>1
  <2>2. CASE ~Raise
    BY <1>12, <2>2 DEF Finish, Hangup, Conversation, Closing, Quiet, ackVars
  <2>3. QED
    BY <2>1, <2>2
<1>13. CASE RestartGui
  BY <1>13 DEF RestartGui, Hangup
<1>14. CASE UNCHANGED allVars
  BY <1>1, <1>14 DEF allVars, guiVars, ackVars
<1>15. QED
  BY <1>3, <1>4, <1>5, <1>6, <1>8, <1>9, <1>10, <1>11, <1>12, <1>13, <1>14
  DEF UpdateNext, send_new_fw

\* The conversation and the link are an invariant of the update.
LEMMA ConversationInductive ==
    ASSUME Uploads
    PROVE  UpdateSpec => [](SidesInv /\ RadioInv /\ Conversation)
<1>1. UploadInit => RadioInv /\ Conversation
  <2> SUFFICES ASSUME UploadInit PROVE RadioInv /\ Conversation
    OBVIOUS
  <2>1. Conversation
    BY DEF UploadInit, Conversation
  <2>2. Len(events) = 0 /\ ~link /\ ~advertising /\ events = <<>>
    BY DEF UploadInit, Init
  <2>3. LinkInv
    <3>1. 0 <= Window + 2
      BY HandlerAssumption DEF Window
    <3>2. QED
      BY <2>2, <3>1 DEF LinkInv
  <2>4. used \in [Spendings -> Nat]
    BY DEF UploadInit, Spendings
  <2>5. QED
    BY <2>1, <2>2, <2>3, <2>4 DEF UploadInit, RadioInv
<1>2. SidesInv /\ SidesInv' /\ RadioInv /\ Conversation /\ [UpdateNext]_allVars
      => RadioInv' /\ Conversation'
  BY LinkStep, UsedStep, DoneStep, ConversationStep DEF RadioInv, SidesInv
<1>3. Updates /\ RawImages
  BY DEF Uploads
<1>4. UpdateSpec => []TypeOK /\ []SessionInv /\ []RawInv /\ []SendInv /\ []TalkInv
  BY <1>3, DeviceIsDriven, TypeCorrect, SessionInductive, RawInductive, SendInductive,
     TalkInductive, PTL
<1>5. TypeOK /\ SessionInv /\ RawInv /\ SendInv /\ TalkInv <=> SidesInv
  BY DEF SidesInv
<1>6. QED
  BY <1>1, <1>2, <1>4, <1>5, PTL DEF UpdateSpec
-----------------------------------------------------------------------------
(***************************************************************************)
(* What follows for the two sides together.                                *)
(***************************************************************************)
\* How far the GUI is ahead when packets, or one answer, are on their way.
LEMMA Ahead ==
    ASSUME SidesInv, RadioInv, Conversation, link,
           gui \in {"SENDING_DATA", "WAIT_ACK"}, Receiving
    PROVE  LET back == IF RefusalPending THEN Window ELSE 0
           IN  /\ cont_chunck - Len(events) - back - count_pck \in 0 .. Window
               /\ used["lost"] = 0 => cont_chunck - Len(events) - back - count_pck = 0
<1> DEFINE back == IF RefusalPending THEN Window ELSE 0
<1>1. /\ count_pck \in Nat /\ cont_chunck \in Int /\ Len(events) \in Nat
      /\ Window \in Nat \ {0} /\ notes \in Seq(RawResponse)
      /\ used["lost"] \in Nat
  BY HandlerAssumption
  DEF SidesInv, TypeOK, HandlerTypeOK, Count, SendInv, TalkInv, RadioInv, Window,
      Spendings
<1>2. ASSUME Quiet PROVE ~RefusalPending
  BY <1>2 DEF Quiet, RefusalPending
<1>3. CASE Flowing
  <2>1. back = 0
    BY <1>2, <1>3 DEF Flowing
  <2>2. /\ count_pck + Len(events) <= cont_chunck
        /\ count_pck + Len(events) < cont_chunck => used["lost"] > 0
    BY <1>3 DEF Flowing
  <2>3. cont_chunck - count_pck <= Window
    <3>1. CASE gui = "SENDING_DATA"
      <4>1. cont_chunck \in Nat
        BY <1>1, <2>2
      <4>2. cont_chunck % Window \in Nat /\ cont_chunck % Window < Window
        BY <1>1, <4>1, StartFacts
      <4>3. cont_chunck - (cont_chunck % Window) <= count_pck
        BY <3>1 DEF Conversation, Sending, WindowStart
      <4>4. QED
        BY <1>1, <4>1, <4>2, <4>3
    <3>2. CASE gui = "WAIT_ACK"
      <4>1. Waiting
        BY DEF Conversation
      <4>2. \/ cont_chunck - Window <= count_pck
            \/ count_pck = cont_chunck
            \/ count_pck = cont_chunck - Window
        BY <3>2, <4>1, Zenon DEF Waiting
      <4>3. QED
        BY <1>1, <4>2
    <3>3. QED
      BY <3>1, <3>2
  <2> HIDE DEF back
  <2>4. QED
    BY <1>1, <2>1, <2>2, <2>3 DEF back
<1>4. CASE ~Flowing
  <2>1. gui = "WAIT_ACK"
    BY <1>4 DEF Conversation, Sending
  <2>2. /\ events = <<>> /\ Len(events) = 0
        /\ \/ Answered(TRUE) /\ count_pck = cont_chunck
           \/ Answered(FALSE) /\ count_pck = cont_chunck - Window
    BY <1>4, <2>1 DEF Conversation, Waiting
  <2>3. CASE Answered(TRUE) /\ count_pck = cont_chunck
    <3>1. ~RefusalPending
      BY <1>1, <1>2, <2>3 DEF Answered, RefusalPending
    <3>2. QED
      BY <1>1, <2>2, <2>3, <3>1
  <2>4. CASE Answered(FALSE) /\ count_pck = cont_chunck - Window
    <3>1. CASE RefusalPending
      BY <1>1, <2>2, <2>4, <3>1
    <3>2. CASE ~RefusalPending
      <4>1. used["lost"] > 0
        BY <1>1, <2>4, <3>2 DEF Answered, RefusalPending
      <4>2. QED
        BY <1>1, <2>2, <2>4, <3>2, <4>1
    <3>3. QED
      BY <3>1, <3>2
  <2>5. QED
    BY <2>2, <2>3, <2>4
<1>5. QED
  BY <1>3, <1>4

\* The GUI's packet counter and the device's, each set back by its own side on
\* a refusal, differ by what is on its way and by nothing else, until something
\* is lost; then by no more than a window.
THEOREM CountersInStep ==
    ASSUME Uploads
    PROVE  UpdateSpec => []LockStep
<1>1. SidesInv /\ RadioInv /\ Conversation => LockStep
  <2> SUFFICES ASSUME SidesInv, RadioInv, Conversation PROVE LockStep
    OBVIOUS
  <2> DEFINE ahead == cont_chunck - Len(events)
                      - (IF RefusalPending THEN RAW_NUM_CUMULATIVE_ACK ELSE 0)
             slack == IF used.lost = 0 THEN 0 ELSE RAW_NUM_CUMULATIVE_ACK
  <2>1. SUFFICES ASSUME gui \in {"SENDING_DATA", "WAIT_ACK"}, link, Receiving
                 PROVE  (ahead - count_pck) % CountMod \in 0 .. slack
    BY DEF LockStep
  <2>2. ahead - count_pck \in 0 .. slack
    BY <2>1, Ahead DEF Window
  <2>3. slack \in Nat /\ CountMod \in Nat \ {0}
    BY HandlerAssumption
  <2> HIDE DEF ahead, slack
  <2>4. \A d \in Nat, m \in Nat \ {0} : d % m \in Nat /\ d % m <= d
    BY SMT
  <2>5. ahead - count_pck \in Nat /\ ahead - count_pck <= slack
    BY <2>2, <2>3
  <2>6. (ahead - count_pck) % CountMod \in Nat
        /\ (ahead - count_pck) % CountMod <= ahead - count_pck
    BY <2>3, <2>4, <2>5, Zenon
  <2>7. \A x, y, z \in Nat : x <= y /\ y <= z => x \in 0 .. z
    OBVIOUS
  <2>8. QED
    BY <2>3, <2>5, <2>6, <2>7, Zenon
<1>2. QED
  BY <1>1, ConversationInductive, PTL

\* An acknowledged image is a stored image: a GUI that has had its last window
\* acknowledged leaves a device about to start what the GUI sent, all of it.
THEOREM AcknowledgedIsStored ==
    ASSUME Uploads
    PROVE  UpdateSpec => []AckedMeansStored
<1>1. RadioInv /\ Conversation /\ ImageIntact => AckedMeansStored
  BY DEF RadioInv, LinkInv, Conversation, Closing, Agreed, AckedMeansStored
<1>2. Updates /\ RawImages
  BY DEF Uploads
<1>3. QED
  BY <1>1, <1>2, ConversationInductive, UpdateStoresImage, PTL

\* However slow the main loop is, no more waits for it than a window, and the
\* events around it.
THEOREM QueueIsBounded ==
    ASSUME Uploads
    PROVE  UpdateSpec => []FewEvents
<1>1. SidesInv /\ RadioInv /\ Conversation => FewEvents
  <2> SUFFICES ASSUME SidesInv, RadioInv, Conversation PROVE FewEvents
    OBVIOUS
  <2>1. CASE link
    <3>1. Len(events) \in Nat /\ Len(events) <= Window + 1
      BY <2>1, FewWhileLinked
    <3>2. Window \in Nat
      BY HandlerAssumption DEF Window
    <3>3. Len(events) <= Window + 2
      BY <3>1, <3>2
    <3>4. QED
      BY <3>3 DEF FewEvents, Window
  <2>2. CASE ~link
    BY <2>2 DEF RadioInv, LinkInv, FewEvents, Window
  <2>3. QED
    BY <2>1, <2>2
<1>2. QED
  BY <1>1, ConversationInductive, PTL
=============================================================================
