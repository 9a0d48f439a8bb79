----------------------------- MODULE HciProofs -----------------------------
(***************************************************************************)
(* What holds of the packets of the transport layer, for every number of   *)
(* packets, events, commands and errors: first of where they are, then of  *)
(* the order they are in.                                                  *)
(***************************************************************************)
EXTENDS HciTransport, SequenceTheorems, TLAPS

(***************************************************************************)
(* The inductive invariant.  A packet is in the hands of the main loop     *)
(* only where the code says so, and the temporary queue is a local of      *)
(* hci_send_req: without these two facts nothing says that the packet      *)
(* freed by one step is the one taken by an earlier step.                  *)
(***************************************************************************)
HandsAgree ==
    /\ main = "examine" <=> taken # <<>>
    /\ main \in {"loop", "callback", "free", "send"} => hciTempQueue = <<>>
    /\ main = "loop" => hand = <<>>
    /\ main = "callback" => hand # <<>>

HciInv == HciTypeOK /\ HandsAgree /\ PacketsConserved

\* What a packet holds is what the callbacks and the wait loop expect of it.
LEMMA ContentType ==
    ASSUME NEW p \in Content
    PROVE  Number(p) \subseteq Nat /\ (IsEvent(p) => p.num \in Nat)
BY DEF Content, Event, Number, IsEvent

\* The head of a non-empty queue, and the rest.
LEMMA QueueHead ==
    ASSUME NEW S, NEW q \in Seq(S), q # <<>>
    PROVE  Head(q) \in S /\ Tail(q) \in Seq(S) /\ Len(Tail(q)) = Len(q) - 1
           /\ Len(q) \in Nat \ {0}
OBVIOUS

\* The lengths of the lists.
LEMMA Lengths ==
    ASSUME HciTypeOK
    PROVE  /\ Len(hciReadPktRxQueue) \in Nat /\ Len(hciTempQueue) \in Nat
           /\ Len(hand) \in Nat /\ Len(hand) <= 1
           /\ Len(taken) \in Nat /\ Len(taken) <= 1
           /\ (hand # <<>> => Len(hand) = 1)
           /\ (taken # <<>> => Len(taken) = 1)
<1>1. /\ hciReadPktRxQueue \in Seq(Content) /\ hciTempQueue \in Seq(Content)
      /\ hand \in Seq(Content) /\ taken \in Seq(Content)
      /\ Len(hand) <= 1 /\ Len(taken) <= 1
  BY DEF HciTypeOK
<1>2. Len(hand) \in Nat /\ Len(taken) \in Nat
  BY <1>1
<1>3. (hand # <<>> => Len(hand) # 0) /\ (taken # <<>> => Len(taken) # 0)
  BY <1>1
<1>4. Len(hciReadPktRxQueue) \in Nat /\ Len(hciTempQueue) \in Nat
  BY <1>1
<1>5. (hand # <<>> => Len(hand) = 1) /\ (taken # <<>> => Len(taken) = 1)
  <2>1. Len(hand) <= 1 /\ Len(taken) <= 1
    BY <1>1
  <2>2. \A n \in Nat : n <= 1 /\ n # 0 => n = 1
    OBVIOUS
  <2>3. QED
    BY <1>2, <1>3, <2>1, <2>2
<1>6. QED
  BY <1>1, <1>2, <1>4, <1>5

\* The controller's steps: the packets of the host stay where they are.
LEMMA ControllerStep ==
    ASSUME HciInv, Emit \/ Answer \/ HardwareError
    PROVE  HciInv'
<1>1. ASSUME NEW p \in Content, Offer(p) PROVE controller' \in Seq(Content) /\ pending' \in BOOLEAN
  BY <1>1 DEF HciInv, HciTypeOK, Offer
<1>2. UNCHANGED <<listVars, mainVars, isr, gaveUp>>
  BY DEF Emit, Answer, HardwareError, Offer
<1>3. HandsAgree' /\ PacketsConserved'
  BY <1>2 DEF HciInv, HandsAgree, PacketsConserved, InUse, listVars, mainVars
<1>4. CASE Emit
  <2>1. [evt |-> "EVENT", num |-> emitted + 1] \in Content
    BY DEF HciInv, HciTypeOK, Content, Event
  <2>2. HciTypeOK'
    BY <1>1, <1>2, <1>4, <2>1
    DEF HciInv, HciTypeOK, Emit, listVars, mainVars
  <2>3. QED
    BY <1>3, <2>2 DEF HciInv
<1>5. CASE Answer
  <2>1. Head(commands) \in Command /\ Tail(commands) \in Seq(Command)
    BY <1>5, QueueHead DEF HciInv, HciTypeOK, Answer
  <2>2. [evt |-> "EVT_CMD_COMPLETE", num |-> Head(commands).num,
         opcode |-> Head(commands).opcode] \in Content
    BY <2>1 DEF Command, Content
  <2>3. HciTypeOK'
    BY <1>1, <1>2, <1>5, <2>1, <2>2
    DEF HciInv, HciTypeOK, Answer, listVars, mainVars
  <2>4. QED
    BY <1>3, <2>3 DEF HciInv
<1>6. CASE HardwareError
  <2>1. [evt |-> "EVT_HARDWARE_ERROR"] \in Content
    BY DEF Content
  <2>2. HciTypeOK'
    BY <1>1, <1>2, <1>6, <2>1
    DEF HciInv, HciTypeOK, HardwareError, listVars, mainVars
  <2>3. QED
    BY <1>3, <2>2 DEF HciInv
<1>7. QED
  BY <1>4, <1>5, <1>6

\* The interrupt handler takes a packet from the pool, or none.
LEMMA IsrStep ==
    ASSUME HciInv, hci_tl_lowlevel_isr
    PROVE  HciInv'
<1>1. CASE EnterIsr \/ GiveUp \/ LeaveIsr
  <2>1. UNCHANGED <<listVars, mainVars, radioVars>>
    BY <1>1 DEF EnterIsr, GiveUp, LeaveIsr
  <2>2. isr' \in {"out", "in", "blocked"} /\ pending' \in BOOLEAN /\ gaveUp' \in BOOLEAN
    BY <1>1 DEF EnterIsr, GiveUp, LeaveIsr, HciInv, HciTypeOK
  <2>3. HciTypeOK'
    BY <2>1, <2>2 DEF HciInv, HciTypeOK, listVars, mainVars, radioVars
  <2>4. HandsAgree' /\ PacketsConserved'
    BY <2>1 DEF HciInv, HandsAgree, PacketsConserved, InUse, listVars, mainVars
  <2>5. QED
    BY <2>3, <2>4 DEF HciInv
<1>2. CASE hci_notify_asynch_evt
  <2>1. Head(controller) \in Content /\ Tail(controller) \in Seq(Content)
    BY <1>2, QueueHead DEF HciInv, HciTypeOK, hci_notify_asynch_evt
  <2>2. /\ hciReadPktRxQueue' \in Seq(Content)
        /\ Len(hciReadPktRxQueue') = Len(hciReadPktRxQueue) + 1
        /\ Len(hciReadPktRxQueue) \in Nat
    BY <1>2, <2>1 DEF HciInv, HciTypeOK, hci_notify_asynch_evt
  <2>3. hciReadPktPool' = hciReadPktPool - 1 /\ hciReadPktPool' \in Nat
    BY <1>2 DEF HciInv, HciTypeOK, hci_notify_asynch_evt
  <2>4. HciTypeOK'
    BY <1>2, <2>1, <2>2, <2>3
    DEF HciInv, HciTypeOK, hci_notify_asynch_evt, mainVars, isrVars
  <2>5. HandsAgree'
    BY <1>2 DEF HciInv, HandsAgree, hci_notify_asynch_evt, mainVars
  <2>6. PacketsConserved'
    BY <1>2, <2>2, <2>3
    DEF HciInv, HciTypeOK, PacketsConserved, InUse, hci_notify_asynch_evt, mainVars
  <2>7. QED
    BY <2>4, <2>5, <2>6 DEF HciInv
<1>3. QED
  BY <1>1, <1>2 DEF hci_tl_lowlevel_isr

\* The steps of the main loop that leave the queues alone.
LEMMA QuietStep ==
    ASSUME HciInv, UNCHANGED <<isrVars, controller, emitted, errors>>,
           NEW opcode \in Opcodes,
           hci_send_req(opcode) \/ StartSend \/ send_cmd \/ TimeOut \/ Return
    PROVE  HciInv'
<1>1. UNCHANGED listVars
  BY DEF hci_send_req, StartSend, send_cmd, TimeOut, Return
<1>2. PacketsConserved'
  BY <1>1 DEF HciInv, PacketsConserved, InUse, listVars
<1>3. HandsAgree'
  BY <1>1 DEF HciInv, HandsAgree, listVars, hci_send_req, StartSend, send_cmd, TimeOut, Return
<1>4. /\ r \in Command /\ commands \in Seq(Command) /\ sent \in Nat
      /\ abandoned \in BOOLEAN
  BY DEF HciInv, HciTypeOK
<1>5. /\ main' \in {"loop", "callback", "free", "send", "wait", "examine", "restore"}
      /\ r' \in Command /\ abandoned' \in BOOLEAN /\ sent' \in Nat
      /\ commands' \in Seq(Command)
      /\ UNCHANGED <<seen, gone>>
  <2>1. CASE hci_send_req(opcode)
    <3>1. [num |-> sent + 1, opcode |-> opcode] \in Command
      BY <1>4 DEF Command
    <3>2. QED
      BY <1>4, <2>1, <3>1 DEF hci_send_req
  <2>2. CASE send_cmd
    <3>1. Append(commands, r) \in Seq(Command)
      BY <1>4
    <3>2. QED
      BY <1>4, <2>2, <3>1 DEF send_cmd
  <2>3. CASE StartSend \/ TimeOut
    BY <1>4, <2>3 DEF StartSend, TimeOut
  <2>4. CASE Return
    BY <1>4, <2>4 DEF Return
  <2>5. QED
    BY <2>1, <2>2, <2>3, <2>4
<1>6. HciTypeOK'
  BY <1>1, <1>5 DEF HciInv, HciTypeOK, listVars, isrVars
<1>7. QED
  BY <1>2, <1>3, <1>6 DEF HciInv

\* A packet leaves the receive queue, for a hand or for the pool.
LEMMA FromQueueStep ==
    ASSUME HciInv, UNCHANGED <<isrVars, controller, emitted, errors>>,
           Deliver \/ free_event_list \/ Take,
           hciReadPktRxQueue # <<>>
    PROVE  HciInv'
<1> DEFINE p == Head(hciReadPktRxQueue)
<1>1. /\ p \in Content /\ hciReadPktRxQueue' \in Seq(Content)
      /\ Len(hciReadPktRxQueue') = Len(hciReadPktRxQueue) - 1
      /\ Len(hciReadPktRxQueue) \in Nat
  BY QueueHead DEF HciInv, HciTypeOK, Deliver, free_event_list, Take
<1>2. Number(p) \subseteq Nat /\ (IsEvent(p) => p.num \in Nat)
  BY <1>1, ContentType
<1>3. UNCHANGED <<r, abandoned, sent, commands, hciTempQueue>>
  BY DEF Deliver, free_event_list, Take
<1>4. CASE Deliver
  <2>1. hand' = <<p>> /\ hand = <<>> /\ UNCHANGED <<hciReadPktPool, taken, gone>>
    BY <1>4 DEF Deliver, HciInv, HandsAgree
  <2>2. hand' \in Seq(Content) /\ Len(hand') = 1 /\ Len(hand) = 0 /\ hand'[1] = p
    BY <1>1, <2>1
  <2>3. seen' \in Nat
    BY <1>2, <1>4, <2>2 DEF Deliver, HciInv, HciTypeOK
  <2>4. HciTypeOK'
    BY <1>1, <1>3, <1>4, <2>1, <2>2, <2>3 DEF Deliver, HciInv, HciTypeOK, isrVars
  <2>5. HandsAgree'
    BY <1>3, <1>4, <2>1, <2>2 DEF Deliver, HciInv, HandsAgree
  <2>6. PacketsConserved'
    BY <1>1, <1>3, <2>1, <2>2 DEF HciInv, HciTypeOK, PacketsConserved, InUse
  <2>7. QED
    BY <2>4, <2>5, <2>6 DEF HciInv
<1>5. CASE free_event_list
  <2>1. UNCHANGED <<hand, taken, main, seen>> /\ hciReadPktPool' = hciReadPktPool + 1
    BY <1>5 DEF free_event_list
  <2>2. gone' \subseteq Nat
    BY <1>2, <1>5 DEF free_event_list, HciInv, HciTypeOK
  <2>3. HciTypeOK'
    BY <1>1, <1>3, <2>1, <2>2 DEF HciInv, HciTypeOK, isrVars
  <2>4. HandsAgree' /\ PacketsConserved'
    BY <1>1, <1>3, <2>1 DEF HciInv, HciTypeOK, HandsAgree, PacketsConserved, InUse
  <2>5. QED
    BY <2>3, <2>4 DEF HciInv
<1>6. CASE Take
  <2>1. taken' = <<p>> /\ taken = <<>> /\ UNCHANGED <<hciReadPktPool, hand, gone, seen>>
    BY <1>6 DEF Take, HciInv, HandsAgree
  <2>2. taken' \in Seq(Content) /\ Len(taken') = 1 /\ Len(taken) = 0
    BY <1>1, <2>1
  <2>3. HciTypeOK'
    BY <1>1, <1>3, <1>6, <2>1, <2>2 DEF Take, HciInv, HciTypeOK, isrVars
  <2>4. HandsAgree'
    BY <1>3, <1>6, <2>1, <2>2 DEF Take, HciInv, HandsAgree
  <2>5. PacketsConserved'
    BY <1>1, <1>3, <2>1, <2>2 DEF HciInv, HciTypeOK, PacketsConserved, InUse
  <2>6. QED
    BY <2>3, <2>4, <2>5 DEF HciInv
<1>7. QED
  BY <1>4, <1>5, <1>6

\* A hand gives its packet up: to the pool, or to the queue of set-aside events.
LEMMA FromHandStep ==
    ASSUME HciInv, UNCHANGED <<isrVars, controller, emitted, errors>>,
           CallbackReturns \/ Conclude \/ SetAside
    PROVE  HciInv'
<1>1. UNCHANGED <<hciReadPktRxQueue, r, sent, seen, commands>>
  BY DEF CallbackReturns, Conclude, SetAside
<1>2. /\ Len(hciReadPktRxQueue) \in Nat /\ Len(hciTempQueue) \in Nat
      /\ Len(hand) \in Nat /\ Len(hand) <= 1
      /\ Len(taken) \in Nat /\ Len(taken) <= 1
  BY Lengths DEF HciInv
<1>3. CASE CallbackReturns
  <2>1. /\ hand' = <<>> /\ Len(hand) = 1 /\ Len(hand') = 0
        /\ hciReadPktPool' = hciReadPktPool + 1 /\ main = "callback" /\ main' = "loop"
        /\ UNCHANGED <<hciTempQueue, taken, abandoned, gone>>
    <3>1. /\ hand' = <<>> /\ main = "callback" /\ main' = "loop"
          /\ hciReadPktPool' = hciReadPktPool + 1
          /\ UNCHANGED <<hciTempQueue, taken, abandoned, gone>>
      BY <1>3 DEF CallbackReturns
    <3>2. Len(hand) = 1
      <4>1. hand # <<>>
        BY <3>1 DEF HciInv, HandsAgree
      <4>2. QED
        BY <4>1, Lengths DEF HciInv
    <3>3. QED
      BY <3>1, <3>2
  <2>2. HciTypeOK'
    BY <1>1, <2>1 DEF HciInv, HciTypeOK, isrVars
  <2>3. HandsAgree' /\ PacketsConserved'
    BY <1>1, <1>2, <2>1 DEF HciInv, HciTypeOK, HandsAgree, PacketsConserved, InUse
  <2>4. QED
    BY <2>2, <2>3 DEF HciInv
<1>4. CASE Conclude
  <2>1. /\ taken' = <<>> /\ Len(taken) = 1 /\ Len(taken') = 0
        /\ hciReadPktPool' = hciReadPktPool + 1 /\ main = "examine" /\ main' = "restore"
        /\ abandoned' \in BOOLEAN
        /\ UNCHANGED <<hciTempQueue, hand, gone>>
    <3>1. /\ taken' = <<>> /\ main = "examine" /\ main' = "restore"
          /\ hciReadPktPool' = hciReadPktPool + 1
          /\ UNCHANGED <<hciTempQueue, hand, gone>>
      BY <1>4 DEF Conclude
    <3>2. abandoned' \in BOOLEAN
      BY <1>4 DEF Conclude
    <3>3. Len(taken) = 1
      <4>1. taken # <<>>
        BY <3>1 DEF HciInv, HandsAgree
      <4>2. QED
        BY <4>1, Lengths DEF HciInv
    <3>4. QED
      BY <3>1, <3>2, <3>3
  <2>2. HciTypeOK'
    BY <1>1, <2>1 DEF HciInv, HciTypeOK, isrVars
  <2>3. HandsAgree' /\ PacketsConserved'
    BY <1>1, <1>2, <2>1 DEF HciInv, HciTypeOK, HandsAgree, PacketsConserved, InUse
  <2>4. QED
    BY <2>2, <2>3 DEF HciInv
<1>5. CASE SetAside
  <2>1. /\ taken' = <<>> /\ Len(taken) = 1 /\ Len(taken') = 0
        /\ main = "examine" /\ main' = "wait"
        /\ UNCHANGED <<hand, abandoned>>
    <3>1. /\ taken' = <<>> /\ main = "examine" /\ main' = "wait"
          /\ UNCHANGED <<hand, abandoned>>
      BY <1>5 DEF SetAside
    <3>2. Len(taken) = 1
      <4>1. taken # <<>>
        BY <3>1 DEF HciInv, HandsAgree
      <4>2. QED
        BY <4>1, Lengths DEF HciInv
    <3>3. QED
      BY <3>1, <3>2
  <2>2. Number(taken[1]) \subseteq Nat
    <3>1. taken \in Seq(Content)
      BY DEF HciInv, HciTypeOK
    <3>2. taken[1] \in Content
      BY <2>1, <3>1
    <3>3. QED
      BY <3>2, ContentType
  <2>3. /\ gone' \subseteq Nat
        /\ hciReadPktPool' \in Nat /\ hciTempQueue' \in Seq(Content)
        /\ hciReadPktPool' + Len(hciTempQueue') = hciReadPktPool + Len(hciTempQueue) + 1
        /\ Len(hciTempQueue') \in Nat
    <3>1. CASE NoRoom
      <4>1. /\ hciReadPktPool' = hciReadPktPool + 1 /\ UNCHANGED hciTempQueue
            /\ gone' = gone \cup Number(taken[1])
        BY <1>5, <3>1 DEF SetAside
      <4>2. hciReadPktPool \in Nat /\ hciTempQueue \in Seq(Content) /\ gone \subseteq Nat
        BY DEF HciInv, HciTypeOK
      <4>3. gone' \subseteq Nat
        BY <2>2, <4>1, <4>2
      <4>4. Len(hciTempQueue') = Len(hciTempQueue) /\ hciTempQueue' \in Seq(Content)
        BY <4>1, <4>2
      <4>5. hciReadPktPool' = hciReadPktPool + 1 /\ hciReadPktPool' \in Nat
        BY <4>1, <4>2
      <4>6. QED
        BY <1>2, <4>2, <4>3, <4>4, <4>5
    <3>2. CASE ~NoRoom
      <4>1. hciTempQueue' = hciTempQueue \o taken /\ UNCHANGED <<hciReadPktPool, gone>>
        BY <1>5, <3>2 DEF SetAside
      <4>2. hciTempQueue' \in Seq(Content) /\ Len(hciTempQueue') = Len(hciTempQueue) + 1
        <5>1. hciTempQueue \in Seq(Content) /\ taken \in Seq(Content)
          BY DEF HciInv, HciTypeOK
        <5>2. hciTempQueue \o taken \in Seq(Content)
          BY <5>1
        <5>3. Len(hciTempQueue \o taken) = Len(hciTempQueue) + Len(taken)
          BY <5>1
        <5>4. QED
          BY <2>1, <4>1, <5>2, <5>3
      <4>3. QED
        BY <1>2, <4>1, <4>2 DEF HciInv, HciTypeOK
    <3>3. QED
      BY <3>1, <3>2
  <2>4. HciTypeOK'
    BY <1>1, <2>1, <2>3 DEF HciInv, HciTypeOK, isrVars
  <2>5. HandsAgree'
    BY <1>1, <2>1 DEF HciInv, HandsAgree
  <2>6. hciReadPktPool \in Nat
    BY DEF HciInv, HciTypeOK
  <2>7. Len(hciReadPktRxQueue') = Len(hciReadPktRxQueue) /\ Len(hand') = Len(hand)
    BY <1>1, <2>1
  <2>8. PacketsConserved'
    BY <1>2, <2>1, <2>3, <2>6, <2>7 DEF HciInv, PacketsConserved, InUse
  <2>9. QED
    BY <2>4, <2>5, <2>8 DEF HciInv
<1>6. QED
  BY <1>3, <1>4, <1>5

\* move_list puts one set-aside event back in front of the receive queue.
LEMMA MoveListStep ==
    ASSUME HciInv, UNCHANGED <<isrVars, controller, emitted, errors>>, move_list
    PROVE  HciInv'
<1>1. /\ hciTempQueue \in Seq(Content) /\ hciTempQueue # <<>>
      /\ hciReadPktRxQueue \in Seq(Content)
      /\ hciReadPktRxQueue' = <<hciTempQueue[Len(hciTempQueue)]>> \o hciReadPktRxQueue
      /\ hciTempQueue' = SubSeq(hciTempQueue, 1, Len(hciTempQueue) - 1)
  BY DEF HciInv, HciTypeOK, move_list
<1>2. Len(hciTempQueue) \in Nat \ {0} /\ hciTempQueue[Len(hciTempQueue)] \in Content
  BY <1>1
<1>3. /\ hciReadPktRxQueue' \in Seq(Content)
      /\ Len(hciReadPktRxQueue') = Len(hciReadPktRxQueue) + 1
      /\ Len(hciReadPktRxQueue) \in Nat
  BY <1>1, <1>2
<1>4. hciTempQueue' \in Seq(Content) /\ Len(hciTempQueue') = Len(hciTempQueue) - 1
  BY <1>1, <1>2
<1>5. UNCHANGED <<hciReadPktPool, hand, taken, mainVars, commands>> /\ main = "restore"
  BY DEF move_list
<1>6. HciTypeOK'
  BY <1>3, <1>4, <1>5 DEF HciInv, HciTypeOK, mainVars, isrVars
<1>7. HandsAgree' /\ PacketsConserved'
  BY <1>2, <1>3, <1>4, <1>5
  DEF HciInv, HciTypeOK, HandsAgree, PacketsConserved, InUse, mainVars
<1>8. QED
  BY <1>6, <1>7 DEF HciInv

-----------------------------------------------------------------------------
\* Where free_event_list takes a packet there is one: all packets that are not
\* free, but the one of the running callback, are in the receive queue.
LEMMA FreeHasPacket == HciInv => FreeFindsPacket
<1> SUFFICES ASSUME HciInv, main = "free", hciReadPktPool < HCI_READ_PACKET_NUM_MAX \div 2
             PROVE  hciReadPktRxQueue # <<>>
  BY DEF FreeFindsPacket
<1>1. Len(hciTempQueue) = 0 /\ Len(taken) = 0 /\ Len(hand) <= 1 /\ Len(hand) \in Nat
  BY DEF HciInv, HciTypeOK, HandsAgree
<1>2. hciReadPktPool + Len(hciReadPktRxQueue) + Len(hand) = HCI_READ_PACKET_NUM_MAX
  BY <1>1 DEF HciInv, HciTypeOK, PacketsConserved, InUse
<1>3. Len(hciReadPktRxQueue) >= 1
  BY <1>1, <1>2, HciAssumption DEF HciInv, HciTypeOK
<1>4. QED
  BY <1>3

\* Every step keeps the inductive invariant.
LEMMA HciStep == HciInv /\ [HciNext]_hciVars => HciInv'
<1> SUFFICES ASSUME HciInv, [HciNext]_hciVars PROVE HciInv'
  OBVIOUS
<1>1. CASE Emit \/ Answer \/ HardwareError
  BY <1>1, ControllerStep
<1>2. CASE hci_tl_lowlevel_isr
  BY <1>2, IsrStep
<1>3. CASE MainLoop
  <2>1. UNCHANGED <<isrVars, controller, emitted, errors>>
    BY <1>3 DEF MainLoop
  <2>2. CASE \E opcode \in Opcodes : hci_send_req(opcode)
    BY <2>1, <2>2, QuietStep
  <2>3. CASE StartSend \/ send_cmd \/ TimeOut \/ Return
    <3>1. \E opcode \in Opcodes : TRUE
      BY DEF HciInv, HciTypeOK, Command
    <3>2. QED
      BY <2>1, <2>3, <3>1, QuietStep
  <2>4. CASE Deliver \/ Take
    BY <2>1, <2>4, FromQueueStep DEF Deliver, Take
  <2>5. CASE free_event_list
    BY <2>1, <2>5, FromQueueStep, FreeHasPacket DEF free_event_list, FreeFindsPacket
  <2>6. CASE CallbackReturns \/ Conclude \/ SetAside
    BY <2>1, <2>6, FromHandStep
  <2>7. CASE move_list
    BY <2>1, <2>7, MoveListStep
  <2>8. QED
    BY <1>3, <2>2, <2>3, <2>4, <2>5, <2>6, <2>7 DEF MainLoop
<1>4. CASE UNCHANGED hciVars
  BY <1>4 DEF hciVars, listVars, mainVars, isrVars, radioVars, HciInv, HciTypeOK,
              HandsAgree, PacketsConserved, InUse
<1>5. QED
  BY <1>1, <1>2, <1>3, <1>4 DEF HciNext

\* The lists start empty, with every packet in the pool.
LEMMA HciStart == HciInit => HciInv
<1> SUFFICES ASSUME HciInit PROVE HciInv
  OBVIOUS
<1>1. r \in Command
  BY DEF HciInit, Command
<1>2. <<>> \in Seq(Content) /\ <<>> \in Seq(Command) /\ Len(<<>>) = 0
  OBVIOUS
<1>5. HciTypeOK
  <2>1. /\ hciReadPktRxQueue = <<>> /\ hciTempQueue = <<>> /\ hand = <<>> /\ taken = <<>>
        /\ controller = <<>> /\ commands = <<>> /\ gone = {}
    BY DEF HciInit
  <2>2. hciReadPktPool \in Nat /\ sent = 0 /\ emitted = 0 /\ errors = 0 /\ seen = 0
    BY HciAssumption DEF HciInit
  <2>3. main = "loop" /\ isr = "out" /\ pending = FALSE /\ abandoned = FALSE /\ gaveUp = FALSE
    BY DEF HciInit
  <2>4. Len(hand) <= 1 /\ Len(taken) <= 1 /\ gone \subseteq Nat
    BY <1>2, <2>1
  <2>5. QED
    BY <1>1, <1>2, <2>1, <2>2, <2>3, <2>4 DEF HciTypeOK
<1>3. HandsAgree /\ PacketsConserved
  BY HciAssumption DEF HciInit, HandsAgree, PacketsConserved, InUse
<1>4. QED
  BY <1>5, <1>3 DEF HciInv

\* No interleaving leaves it.
LEMMA HciInvariant == HciSpec => []HciInv
BY HciStart, HciStep, PTL DEF HciSpec

\* The lists of the transport layer are lists of packets, and the pool's size
\* never falls below 0, under every interleaving with the interrupt.
THEOREM HciTypeCorrect == HciSpec => []HciTypeOK
<1>1. HciInv => HciTypeOK
  BY DEF HciInv
<1>2. QED
  BY <1>1, HciInvariant, PTL

\* For every size of the pool, no packet is lost or freed twice.
THEOREM NoPacketLost == HciSpec => []PacketsConserved
<1>1. HciInv => PacketsConserved
  BY DEF HciInv
<1>2. QED
  BY <1>1, HciInvariant, PTL

\* free_event_list never takes from an empty list: its missing check is not
\* needed, whatever the size of the pool.
THEOREM FreeIsSafe == HciSpec => []FreeFindsPacket
BY FreeHasPacket, HciInvariant, PTL

\* The interrupt handler, called by an edge, serves the level of the line.
THEOREM LineIsServed == HciSpec => []LineServed
<1>1. HciInit => LineServed
  BY DEF HciInit, LineServed
<1>2. LineServed /\ [HciNext]_hciVars => LineServed'
  <2> SUFFICES ASSUME LineServed, [HciNext]_hciVars PROVE LineServed'
    OBVIOUS
  <2>1. CASE Emit \/ Answer \/ HardwareError
    BY <2>1 DEF LineServed, Emit, Answer, HardwareError, Offer
  <2>2. CASE hci_tl_lowlevel_isr
    BY <2>2 DEF LineServed, hci_tl_lowlevel_isr, EnterIsr, hci_notify_asynch_evt, GiveUp,
                LeaveIsr, radioVars, isrVars
  <2>3. CASE MainLoop
    BY <2>3 DEF LineServed, MainLoop, isrVars
  <2>4. CASE UNCHANGED hciVars
    BY <2>4 DEF LineServed, hciVars, isrVars, radioVars
  <2>5. QED
    BY <2>1, <2>2, <2>3, <2>4 DEF HciNext
<1>3. QED
  BY <1>1, <1>2, PTL DEF HciSpec

\* The transport layer discards an event only when most packets are in use.
THEOREM DropsAreJustified == HciSpec => DropNeedsBacklog
<1> DEFINE Dropped == InUse > HCI_READ_PACKET_NUM_MAX - HCI_READ_PACKET_NUM_MAX \div 2
<1>1. HciInv /\ [HciNext]_hciVars => [gone' # gone => Dropped]_hciVars
  <2> SUFFICES ASSUME HciInv, HciNext, gone' # gone PROVE Dropped
    OBVIOUS
  <2>1. hciReadPktPool < HCI_READ_PACKET_NUM_MAX \div 2
    <3>1. CASE free_event_list
      BY <3>1 DEF free_event_list
    <3>2. CASE SetAside
      BY <3>2, HciAssumption DEF SetAside, NoRoom
    <3>3. QED
      BY <3>1, <3>2
      DEF HciNext, Emit, Answer, HardwareError, Offer, hci_tl_lowlevel_isr, EnterIsr,
          hci_notify_asynch_evt, GiveUp, LeaveIsr, mainVars, MainLoop, Deliver,
          CallbackReturns, hci_send_req, StartSend, send_cmd, TimeOut, Take, Conclude,
          move_list, Return
  <2>2. InUse = HCI_READ_PACKET_NUM_MAX - hciReadPktPool
    BY HciAssumption DEF HciInv, HciTypeOK, PacketsConserved, InUse
  <2>3. QED
    BY <2>1, <2>2, HciAssumption DEF HciInv, HciTypeOK
<1>2. QED
  BY <1>1, HciInvariant, PTL DEF HciSpec, DropNeedsBacklog

-----------------------------------------------------------------------------
(***************************************************************************)
(* The order of the packets.  Four lists hold what is on its way to a      *)
(* callback, and steps move packets from each to the next, and back.  Seen *)
(* as one line, most steps leave it as it is; one puts a packet at its     *)
(* end, and the others take one out.                                       *)
(***************************************************************************)
\* A sequence without its element number k.
Without(q, k) == [i \in 1 .. Len(q) - 1 |-> IF i < k THEN q[i] ELSE q[i + 1]]

\* A head and its tail, a front and its last, are the sequence.
LEMMA Rejoined ==
    ASSUME NEW S, NEW q \in Seq(S), q # <<>>
    PROVE  /\ <<Head(q)>> \o Tail(q) = q
           /\ SubSeq(q, 1, Len(q) - 1) \o <<q[Len(q)]>> = q
           /\ SubSeq(q, 1, Len(q) - 1) \in Seq(S) /\ q[Len(q)] \in S
<1>1. Len(q) \in Nat \ {0} /\ Head(q) \in S /\ Head(q) = q[1] /\ Tail(q) \in Seq(S)
  BY HeadTailProperties, EmptySeq, LenProperties
<1>2. <<Head(q)>> \o Tail(q) = q
  <2>1. q = SubSeq(q, 1, Len(q))
    BY SubSeqFull
  <2>2. SubSeq(q, 1, Len(q)) = <<q[1]>> \o SubSeq(q, 2, Len(q))
    <3>1. 1 \in 1 .. Len(q) /\ Len(q) \in 1 .. Len(q)
      BY <1>1
    <3>2. SubSeq(q, 1, Len(q)) = <<q[1]>> \o SubSeq(q, 1 + 1, Len(q))
      BY <3>1, SubSeqRecursiveFirst
    <3>3. QED
      BY <3>2
  <2>3. Tail(q) = SubSeq(q, 2, Len(q))
    BY TailIsSubSeq
  <2>4. QED
    BY <1>1, <2>1, <2>2, <2>3
<1>3. SubSeq(q, 1, Len(q) - 1) \o <<q[Len(q)]>> = q
  <2>1. 1 \in 1 .. Len(q) /\ Len(q) \in 1 .. Len(q)
    BY <1>1
  <2>2. SubSeq(q, 1, Len(q)) = SubSeq(q, 1, Len(q) - 1) \o <<q[Len(q)]>>
    BY <2>1, SubSeqRecursiveSecond
  <2>3. QED
    BY <2>2, SubSeqFull
<1>4. SubSeq(q, 1, Len(q) - 1) \in Seq(S) /\ q[Len(q)] \in S
  <2>1. q[Len(q)] \in S /\ \A i \in 1 .. Len(q) - 1 : q[i] \in S
    BY <1>1, ElementOfSeq
  <2>2. QED
    BY <1>1, <2>1, SubSeqProperties
<1>5. QED
  BY <1>2, <1>3, <1>4

\* The elements of two sequences put together.
LEMMA Joined ==
    ASSUME NEW S, NEW a \in Seq(S), NEW b \in Seq(S), NEW q, q = a \o b
    PROVE  /\ q \in Seq(S) /\ Len(q) = Len(a) + Len(b)
           /\ \A i \in 1 .. Len(a) + Len(b) :
                 q[i] = IF i <= Len(a) THEN a[i] ELSE b[i - Len(a)]
BY ConcatProperties

\* What remains without the one element between two sequences.
LEMMA TakenOut ==
    ASSUME NEW S, NEW a \in Seq(S), NEW m \in Seq(S), Len(m) = 1, NEW b \in Seq(S)
    PROVE  /\ Len(a) + 1 \in 1 .. Len(a \o m \o b)
           /\ (a \o m \o b)[Len(a) + 1] = m[1]
           /\ Without(a \o m \o b, Len(a) + 1) = a \o b
<1> DEFINE am == a \o m
           q  == am \o b
<1>1. /\ am \in Seq(S) /\ Len(am) = Len(a) + Len(m)
      /\ \A i \in 1 .. Len(a) + Len(m) :
            am[i] = IF i <= Len(a) THEN a[i] ELSE m[i - Len(a)]
  BY ConcatProperties, Zenon
<1> HIDE DEF am
<1>2. /\ am \in Seq(S) /\ Len(am) = Len(a) + 1
      /\ \A i \in 1 .. Len(a) + 1 :
            am[i] = IF i <= Len(a) THEN a[i] ELSE m[i - Len(a)]
      /\ Len(a) \in Nat /\ Len(b) \in Nat
  BY <1>1, LenProperties
<1>3. /\ q \in Seq(S) /\ Len(q) = Len(a) + 1 + Len(b)
      /\ \A i \in 1 .. Len(a) + 1 + Len(b) :
            q[i] = IF i <= Len(a) + 1 THEN am[i] ELSE b[i - (Len(a) + 1)]
  <2>1. am \in Seq(S) /\ q = am \o b
    BY <1>1
  <2> HIDE DEF q
  <2>2. /\ q \in Seq(S) /\ Len(q) = Len(am) + Len(b)
        /\ \A i \in 1 .. Len(am) + Len(b) :
              q[i] = IF i <= Len(am) THEN am[i] ELSE b[i - Len(am)]
    BY <2>1, Joined
  <2>3. QED
    BY <1>2, <2>2
<1>4. /\ a \o b \in Seq(S) /\ Len(a \o b) = Len(a) + Len(b)
      /\ \A i \in 1 .. Len(a) + Len(b) :
            (a \o b)[i] = IF i <= Len(a) THEN a[i] ELSE b[i - Len(a)]
  BY ConcatProperties
<1> HIDE DEF q
<1>5. q[Len(a) + 1] = m[1]
  BY <1>2, <1>3
<1> DEFINE w == Without(q, Len(a) + 1)
<1>6. \A i \in 1 .. Len(a) + Len(b) :
         w[i] = (IF i < Len(a) + 1 THEN q[i] ELSE q[i + 1])
  BY <1>2, <1>3 DEF Without
<1>7. ASSUME NEW i \in 1 .. Len(a) + Len(b) PROVE w[i] = (a \o b)[i]
  <2>1. CASE i <= Len(a)
    <3>1. i \in 1 .. Len(a) + 1 /\ i \in 1 .. Len(a) + 1 + Len(b) /\ i < Len(a) + 1
      BY <1>2, <2>1
    <3>2. w[i] = q[i] /\ q[i] = am[i] /\ am[i] = a[i]
      BY <1>2, <1>3, <1>6, <2>1, <3>1
    <3>3. QED
      BY <1>4, <2>1, <3>2
  <2>2. CASE i > Len(a)
    <3>1. i + 1 \in 1 .. Len(a) + 1 + Len(b) /\ i + 1 - (Len(a) + 1) = i - Len(a)
      BY <1>2, <2>2
    <3>2. w[i] = q[i + 1] /\ q[i + 1] = b[i - Len(a)]
      BY <1>2, <1>3, <1>6, <2>2, <3>1
    <3>3. QED
      BY <1>2, <1>4, <2>2, <3>2
  <2>3. QED
    BY <1>2, <2>1, <2>2
<1>8. w = a \o b
  <2>1. w = [i \in 1 .. Len(a) + Len(b) |-> w[i]]
    BY <1>2, <1>3 DEF Without
  <2>2. a \o b = [i \in 1 .. Len(a) + Len(b) |-> (a \o b)[i]]
    BY <1>4, LenProperties
  <2> HIDE DEF w
  <2>3. QED
    BY <1>7, <2>1, <2>2
<1>9. QED
  BY <1>2, <1>3, <1>5, <1>8 DEF q, am

\* The line is a sequence of packets.
LEMMA LineType ==
    ASSUME HciTypeOK
    PROVE  /\ hciTempQueue \in Seq(Content) /\ taken \in Seq(Content)
           /\ hciReadPktRxQueue \in Seq(Content) /\ controller \in Seq(Content)
           /\ hciTempQueue \o taken \in Seq(Content)
           /\ hciTempQueue \o taken \o hciReadPktRxQueue \in Seq(Content)
           /\ Line \in Seq(Content)
BY ConcatProperties DEF HciTypeOK, Line

\* The controller's packets join at the end.
LEMMA LineGrows ==
    ASSUME HciTypeOK, NEW p \in Content, Offer(p)
    PROVE  Line' = Append(Line, p)
<1> DEFINE front == hciTempQueue \o taken \o hciReadPktRxQueue
<1>1. /\ front \in Seq(Content) /\ controller \in Seq(Content) /\ <<p>> \in Seq(Content)
      /\ Line \in Seq(Content) /\ Line = front \o controller
  BY LineType DEF Line
<1>2. Line' = front \o Append(controller, p)
  BY DEF Offer, Line, listVars
<1> HIDE DEF front
<1>3. Append(controller, p) = controller \o <<p>> /\ Append(Line, p) = Line \o <<p>>
  BY <1>1, AppendIsConcat
<1>4. QED
  BY <1>1, <1>2, <1>3, ConcatAssociative

\* The handler, hci_send_req taking a packet or setting it aside, and move_list
\* leave the line as it is.
LEMMA LineKept ==
    ASSUME HciInv
    PROVE  /\ hci_notify_asynch_evt => Line' = Line
           /\ Take /\ UNCHANGED controller => Line' = Line
           /\ SetAside /\ ~NoRoom /\ UNCHANGED controller => Line' = Line
           /\ move_list /\ UNCHANGED controller => Line' = Line
<1> DEFINE t == hciTempQueue
           x == hciReadPktRxQueue
           c == controller
<1>1. /\ t \in Seq(Content) /\ taken \in Seq(Content) /\ x \in Seq(Content)
      /\ c \in Seq(Content) /\ t \o taken \in Seq(Content)
      /\ t \o taken \o x \in Seq(Content)
  BY LineType DEF HciInv
<1>2. <<>> \in Seq(Content) /\ \A q \in Seq(Content) : q \o <<>> = q /\ <<>> \o q = q
  BY ConcatEmptySeq, EmptySeq
<1>3. ASSUME hci_notify_asynch_evt PROVE Line' = Line
  <2> DEFINE h == Head(c)
             front == t \o taken
  <2>1. c # <<>> /\ Line' = front \o Append(x, h) \o Tail(c)
    BY <1>3 DEF hci_notify_asynch_evt, Line
  <2>2. h \in Content /\ <<h>> \in Seq(Content) /\ Tail(c) \in Seq(Content) /\ <<h>> \o Tail(c) = c
    BY <1>1, <2>1, QueueHead, Rejoined
  <2>3. Append(x, h) = x \o <<h>>
    BY <1>1, <2>2, AppendIsConcat
  <2> HIDE DEF h, front
  <2>4. front \o (x \o <<h>>) = (front \o x) \o <<h>>
    BY <1>1, <2>2, ConcatAssociative DEF front
  <2>5. ((front \o x) \o <<h>>) \o Tail(c) = (front \o x) \o c
    BY <1>1, <2>2, ConcatAssociative DEF front
  <2>6. QED
    BY <2>1, <2>3, <2>4, <2>5 DEF front, Line
<1>4. ASSUME Take, UNCHANGED controller PROVE Line' = Line
  <2> DEFINE h == Head(x)
  <2>1. x # <<>> /\ taken = <<>> /\ Line' = t \o <<h>> \o Tail(x) \o c
    BY <1>4 DEF Take, HciInv, HandsAgree, Line
  <2>2. h \in Content /\ <<h>> \in Seq(Content) /\ Tail(x) \in Seq(Content) /\ <<h>> \o Tail(x) = x
    BY <1>1, <2>1, QueueHead, Rejoined
  <2> HIDE DEF h
  <2>3. (t \o <<h>>) \o Tail(x) = t \o x
    <3>1. (t \o <<h>>) \o Tail(x) = t \o (<<h>> \o Tail(x))
      BY <1>1, <2>2, ConcatAssociative
    <3>2. QED
      BY <2>2, <3>1
  <2>4. t \o taken = t
    BY <1>1, <1>2, <2>1
  <2>5. QED
    BY <2>1, <2>3, <2>4 DEF Line
<1>5. ASSUME SetAside, ~NoRoom, UNCHANGED controller PROVE Line' = Line
  <2>1. Line' = (t \o taken) \o <<>> \o x \o c
    BY <1>5 DEF SetAside, Line
  <2>2. QED
    BY <1>1, <1>2, <2>1 DEF Line
<1>6. ASSUME move_list, UNCHANGED controller PROVE Line' = Line
  <2> DEFINE front == SubSeq(t, 1, Len(t) - 1)
             last  == t[Len(t)]
  <2>1. t # <<>> /\ taken = <<>> /\ Line' = front \o <<>> \o (<<last>> \o x) \o c
    BY <1>6 DEF move_list, HciInv, HandsAgree, Line
  <2>2. /\ front \in Seq(Content) /\ last \in Content /\ <<last>> \in Seq(Content)
        /\ front \o <<last>> = t
    BY <1>1, <2>1, Rejoined
  <2> HIDE DEF front, last
  <2>3. front \o <<>> = front /\ t \o taken = t
    BY <1>1, <1>2, <2>1, <2>2
  <2>4. front \o (<<last>> \o x) = t \o x
    <3>1. (front \o <<last>>) \o x = front \o (<<last>> \o x)
      BY <1>1, <2>2, ConcatAssociative
    <3>2. QED
      BY <2>2, <3>1
  <2>5. QED
    BY <2>1, <2>3, <2>4 DEF Line
<1>7. QED
  BY <1>3, <1>4, <1>5, <1>6

\* The packet looked at is in the middle of the line.
LEMMA TakenInLine ==
    ASSUME HciInv, main = "examine"
    PROVE  /\ Len(hciTempQueue) + 1 \in 1 .. Len(Line)
           /\ Line[Len(hciTempQueue) + 1] = taken[1]
           /\ Without(Line, Len(hciTempQueue) + 1) =
                 hciTempQueue \o (hciReadPktRxQueue \o controller)
<1> DEFINE t == hciTempQueue
           rest == hciReadPktRxQueue \o controller
<1>1. /\ t \in Seq(Content) /\ taken \in Seq(Content)
      /\ hciReadPktRxQueue \in Seq(Content) /\ controller \in Seq(Content)
      /\ t \o taken \in Seq(Content)
  BY LineType DEF HciInv
<1>2. Len(taken) = 1
  BY Lengths DEF HciInv, HandsAgree
<1>3. rest \in Seq(Content) /\ Line = (t \o taken) \o rest
  <2> DEFINE tt == t \o taken
             x  == hciReadPktRxQueue
             c  == controller
  <2>1. tt \in Seq(Content) /\ x \in Seq(Content) /\ c \in Seq(Content)
    BY <1>1
  <2>2. Line = tt \o x \o c /\ rest = x \o c
    BY DEF Line
  <2> HIDE DEF tt, x, c
  <2>3. rest \in Seq(Content) /\ tt \o x \o c = tt \o (x \o c)
    BY <2>1, <2>2, ConcatProperties, ConcatAssociative
  <2>4. QED
    BY <2>2, <2>3 DEF tt
<1> HIDE DEF rest
<1>4. /\ Len(t) + 1 \in 1 .. Len(t \o taken \o rest)
      /\ (t \o taken \o rest)[Len(t) + 1] = taken[1]
      /\ Without(t \o taken \o rest, Len(t) + 1) = t \o rest
  BY <1>1, <1>2, <1>3, TakenOut
<1>5. QED
  BY <1>3, <1>4 DEF rest

\* When it leaves, the others stay in their order.
LEMMA TakenLeaves ==
    ASSUME HciInv, main = "examine", taken' = <<>>,
           UNCHANGED <<hciTempQueue, hciReadPktRxQueue, controller>>
    PROVE  /\ Len(hciTempQueue) + 1 \in 1 .. Len(Line)
           /\ Line[Len(hciTempQueue) + 1] = taken[1]
           /\ Line' = Without(Line, Len(hciTempQueue) + 1)
<1> DEFINE t == hciTempQueue
           x == hciReadPktRxQueue
           c == controller
<1>1. t \in Seq(Content) /\ x \in Seq(Content) /\ c \in Seq(Content)
  BY LineType DEF HciInv
<1>2. Line' = t \o <<>> \o x \o c
  BY DEF Line
<1>3. t \o <<>> = t /\ t \o x \o c = t \o (x \o c)
  BY <1>1, ConcatEmptySeq, ConcatAssociative
<1>4. QED
  BY <1>2, <1>3, TakenInLine

\* The head of the receive queue is the head of the line, when hci_send_req has
\* nothing in its hands.
LEMMA HeadLeaves ==
    ASSUME HciInv, main \in {"loop", "free"}, hciReadPktRxQueue # <<>>,
           hciReadPktRxQueue' = Tail(hciReadPktRxQueue),
           UNCHANGED <<hciTempQueue, taken, controller>>
    PROVE  /\ 1 \in 1 .. Len(Line)
           /\ Line[1] = Head(hciReadPktRxQueue)
           /\ Line' = Without(Line, 1)
<1> DEFINE x == hciReadPktRxQueue
           c == controller
           h == Head(x)
<1>1. x \in Seq(Content) /\ c \in Seq(Content) /\ hciTempQueue = <<>> /\ taken = <<>>
  BY LineType DEF HciInv, HandsAgree
<1>2. h \in Content /\ <<h>> \in Seq(Content) /\ Tail(x) \in Seq(Content) /\ <<h>> \o Tail(x) = x
  BY <1>1, QueueHead, Rejoined
<1>3. /\ Tail(x) \o c \in Seq(Content) /\ <<>> \in Seq(Content)
      /\ \A q \in Seq(Content) : q \o <<>> = q /\ <<>> \o q = q
  BY <1>1, <1>2, ConcatProperties, ConcatEmptySeq, EmptySeq
<1>4. Line = x \o c /\ Line' = Tail(x) \o c
  <2>1. Line = <<>> \o <<>> \o x \o c /\ Line' = <<>> \o <<>> \o Tail(x) \o c
    BY <1>1 DEF Line
  <2>2. QED
    BY <1>1, <1>2, <1>3, <2>1
<1> DEFINE m    == <<h>>
           rest == Tail(x) \o c
           none == <<>>
<1>5. Line = m \o rest /\ Line' = rest
  BY <1>1, <1>2, <1>4, ConcatAssociative
<1>6. m \in Seq(Content) /\ Len(m) = 1 /\ m[1] = h /\ rest \in Seq(Content)
  BY <1>2, <1>3
<1> HIDE DEF h, m, rest
<1>7. none \o m = m /\ none \o rest = rest /\ Len(none) = 0
  BY <1>3, <1>6
<1>8. none \in Seq(Content)
  BY <1>3
<1> HIDE DEF none
<1>9. /\ Len(none) + 1 \in 1 .. Len(none \o m \o rest)
      /\ (none \o m \o rest)[Len(none) + 1] = m[1]
      /\ Without(none \o m \o rest, Len(none) + 1) = none \o rest
  BY <1>6, <1>8, TakenOut
<1>10. QED
  BY <1>5, <1>6, <1>7, <1>9 DEF h

-----------------------------------------------------------------------------
(***************************************************************************)
(* The events are in order: EventOrder, stated of any sequence, and what   *)
(* the changes of the line do to it.                                       *)
(***************************************************************************)
EventsOf(q) == {i \in 1 .. Len(q) : IsEvent(q[i])}

InOrder(q, from, upto, dropped) ==
    /\ \A i, j \in EventsOf(q) : i < j => q[i].num < q[j].num
    /\ {q[i].num : i \in EventsOf(q)} = (from + 1 .. upto) \ dropped

\* The number of an event is a natural number.
LEMMA EventNumber ==
    ASSUME NEW q \in Seq(Content), NEW i \in EventsOf(q)
    PROVE  q[i].num \in Nat
<1>1. q[i] \in Content /\ IsEvent(q[i])
  BY ElementOfSeq DEF EventsOf
<1>2. QED
  BY <1>1, ContentType

\* Which elements there are without element number k, and where.
LEMMA WithoutElements ==
    ASSUME NEW S, NEW q \in Seq(S), NEW k \in 1 .. Len(q)
    PROVE  LET w == Without(q, k)
               was(i) == IF i < k THEN i ELSE i + 1
           IN  /\ w \in Seq(S) /\ Len(w) = Len(q) - 1
               /\ \A i \in 1 .. Len(w) :
                     was(i) \in 1 .. Len(q) /\ was(i) # k /\ w[i] = q[was(i)]
               /\ \A j \in 1 .. Len(q) :
                     j # k => \E i \in 1 .. Len(w) : was(i) = j
<1> DEFINE w == Without(q, k)
           was(i) == IF i < k THEN i ELSE i + 1
<1>1. Len(q) \in Nat /\ k \in Nat /\ \A i \in 1 .. Len(q) : q[i] \in S
  BY LenProperties, ElementOfSeq
<1>2. \A i \in 1 .. Len(q) - 1 :
         was(i) \in 1 .. Len(q) /\ was(i) # k /\ w[i] = q[was(i)]
  BY <1>1 DEF Without
<1>3. w \in Seq(S) /\ Len(w) = Len(q) - 1
  <2>1. w \in [1 .. Len(q) - 1 -> S]
    <3>1. w = [i \in 1 .. Len(q) - 1 |-> w[i]]
      BY DEF Without
    <3>2. \A i \in 1 .. Len(q) - 1 : w[i] \in S
      BY <1>1, <1>2
    <3> HIDE DEF w
    <3>3. QED
      BY <3>1, <3>2
  <2>2. Len(q) - 1 \in Nat
    BY <1>1
  <2> HIDE DEF w
  <2>3. QED
    BY <2>1, <2>2, IsASeq, LenProperties
<1>4. ASSUME NEW j \in 1 .. Len(q), j # k
      PROVE  \E i \in 1 .. Len(q) - 1 : was(i) = j
  <2>1. CASE j < k
    <3>1. j \in 1 .. Len(q) - 1 /\ was(j) = j
      BY <1>1, <2>1
    <3>2. QED
      BY <3>1
  <2>2. CASE j > k
    <3>1. j - 1 \in 1 .. Len(q) - 1 /\ was(j - 1) = j
      BY <1>1, <2>2
    <3>2. QED
      BY <3>1
  <2>3. QED
    BY <1>1, <1>4, <2>1, <2>2
<1> HIDE DEF w
<1>5. QED
  BY <1>2, <1>3, <1>4 DEF w

\* The events there are after a packet joined at the end.
LEMMA AppendElements ==
    ASSUME NEW q \in Seq(Content), NEW p \in Content
    PROVE  /\ Append(q, p) \in Seq(Content) /\ Len(Append(q, p)) = Len(q) + 1
           /\ \A i \in 1 .. Len(q) : Append(q, p)[i] = q[i]
           /\ Append(q, p)[Len(q) + 1] = p
           /\ EventsOf(Append(q, p)) =
                 EventsOf(q) \cup (IF IsEvent(p) THEN {Len(q) + 1} ELSE {})
<1>1. /\ Append(q, p) \in Seq(Content) /\ Len(Append(q, p)) = Len(q) + 1
      /\ \A i \in 1 .. Len(q) : Append(q, p)[i] = q[i]
      /\ Append(q, p)[Len(q) + 1] = p
      /\ Len(q) \in Nat
  BY AppendProperties, LenProperties
<1> DEFINE a == Append(q, p)
<1> HIDE DEF a
<1>2. /\ Len(a) = Len(q) + 1 /\ Len(q) \in Nat
      /\ \A i \in 1 .. Len(q) : a[i] = q[i]
      /\ a[Len(q) + 1] = p
  BY <1>1 DEF a
<1>3. EventsOf(a) = EventsOf(q) \cup (IF IsEvent(p) THEN {Len(q) + 1} ELSE {})
  <2>1. 1 .. Len(a) = 1 .. Len(q) \cup {Len(q) + 1}
    BY <1>2
  <2>2. Len(q) + 1 \notin 1 .. Len(q)
    BY <1>2
  <2>3. QED
    BY <1>2, <2>1, <2>2 DEF EventsOf
<1>4. QED
  BY <1>1, <1>3 DEF a

\* A packet that is no event joins.
LEMMA OrderOther ==
    ASSUME NEW q \in Seq(Content), NEW p \in Content, ~IsEvent(p),
           NEW from, NEW upto, NEW dropped, InOrder(q, from, upto, dropped)
    PROVE  InOrder(Append(q, p), from, upto, dropped)
<1> DEFINE a == Append(q, p)
<1>1. EventsOf(a) = EventsOf(q) /\ \A i \in EventsOf(q) : a[i] = q[i]
  BY AppendElements DEF EventsOf
<1> HIDE DEF a
<1>2. \A i, j \in EventsOf(a) : i < j => a[i].num < a[j].num
  BY <1>1 DEF InOrder
<1>3. {a[i].num : i \in EventsOf(a)} = {q[i].num : i \in EventsOf(q)}
  BY <1>1
<1>4. InOrder(a, from, upto, dropped)
  BY <1>2, <1>3 DEF InOrder
<1>5. QED
  BY <1>4 DEF a

\* The next event joins.
LEMMA OrderEvent ==
    ASSUME NEW q \in Seq(Content), NEW from \in Nat, NEW upto \in Nat,
           NEW p \in Content, IsEvent(p), p.num = upto + 1, from <= upto,
           NEW dropped, dropped \subseteq 1 .. upto,
           InOrder(q, from, upto, dropped)
    PROVE  InOrder(Append(q, p), from, upto + 1, dropped)
<1> DEFINE a == Append(q, p)
           n == Len(q) + 1
           nums == {q[i].num : i \in EventsOf(q)}
<1>1. /\ EventsOf(a) = EventsOf(q) \cup {n} /\ a[n] = p
      /\ \A i \in EventsOf(q) : a[i] = q[i] /\ i \in Nat /\ i < n
      /\ n \in Nat
  BY AppendElements, LenProperties DEF EventsOf
<1>2. nums = (from + 1 .. upto) \ dropped
  BY DEF InOrder
<1>3. \A i \in EventsOf(q) : q[i].num \in Nat /\ q[i].num <= upto
  <2>1. \A i \in EventsOf(q) : q[i].num \in nums
    OBVIOUS
  <2> HIDE DEF nums
  <2>2. \A x \in nums : x \in Nat /\ x <= upto
    BY <1>2
  <2>3. QED
    BY <2>1, <2>2
<1> HIDE DEF a, n
<1>4. ASSUME NEW i \in EventsOf(a), NEW j \in EventsOf(a), i < j PROVE a[i].num < a[j].num
  <2>1. CASE i \in EventsOf(q) /\ j \in EventsOf(q)
    BY <1>1, <1>4, <2>1 DEF InOrder
  <2>2. CASE i \in EventsOf(q) /\ j = n
    <3>1. a[i].num <= upto /\ a[i].num \in Nat /\ a[j].num = upto + 1
      BY <1>1, <1>3, <2>2
    <3>2. QED
      BY <3>1
  <2>3. CASE i = n
    BY <1>1, <1>4, <2>3
  <2>4. QED
    BY <1>1, <1>4, <2>1, <2>2, <2>3
<1>5. {a[i].num : i \in EventsOf(a)} = nums \cup {upto + 1}
  BY <1>1
<1>6. (from + 1 .. upto + 1) \ dropped = ((from + 1 .. upto) \ dropped) \cup {upto + 1}
  <2>1. from + 1 .. upto + 1 = (from + 1 .. upto) \cup {upto + 1}
    OBVIOUS
  <2>2. upto + 1 \notin dropped
    OBVIOUS
  <2>3. QED
    BY <2>1, <2>2
<1>7. QED
  BY <1>2, <1>4, <1>5, <1>6 DEF InOrder, a

\* One packet leaves: the others are in order, and the numbers that remain are
\* those of the others.
LEMMA OrderLeft ==
    ASSUME NEW q \in Seq(Content), NEW k \in 1 .. Len(q),
           NEW from, NEW upto, NEW dropped, InOrder(q, from, upto, dropped)
    PROVE  LET w == Without(q, k)
           IN  /\ \A i, j \in EventsOf(w) : i < j => w[i].num < w[j].num
               /\ {w[i].num : i \in EventsOf(w)} =
                     {q[i].num : i \in EventsOf(q) \ {k}}
<1> DEFINE w == Without(q, k)
           was(i) == IF i < k THEN i ELSE i + 1
<1>1. /\ Len(w) = Len(q) - 1 /\ Len(q) \in Nat /\ k \in Nat
      /\ \A i \in 1 .. Len(w) :
            was(i) \in 1 .. Len(q) /\ was(i) # k /\ w[i] = q[was(i)]
      /\ \A j \in 1 .. Len(q) : j # k => \E i \in 1 .. Len(w) : was(i) = j
  BY WithoutElements, LenProperties
<1> HIDE DEF w
<1>2. \A i \in EventsOf(w) : was(i) \in EventsOf(q) \ {k} /\ w[i] = q[was(i)]
  BY <1>1 DEF EventsOf
<1>3. ASSUME NEW j \in EventsOf(q) \ {k}
      PROVE  \E i \in EventsOf(w) : was(i) = j
  <2>1. PICK i \in 1 .. Len(w) : was(i) = j
    BY <1>1, <1>3 DEF EventsOf
  <2> HIDE DEF was
  <2>2. w[i] = q[j] /\ IsEvent(q[j])
    BY <1>1, <1>3, <2>1 DEF EventsOf
  <2>3. i \in EventsOf(w)
    BY <2>2 DEF EventsOf
  <2>4. QED
    BY <2>1, <2>3
<1>4. ASSUME NEW i \in EventsOf(w), NEW j \in EventsOf(w), i < j
      PROVE  w[i].num < w[j].num
  <2>1. was(i) < was(j)
    <3>1. i \in Nat /\ j \in Nat
      BY <1>1 DEF EventsOf
    <3>2. QED
      BY <1>1, <1>4, <3>1
  <2> HIDE DEF was
  <2>2. q[was(i)].num < q[was(j)].num
    BY <1>2, <2>1 DEF InOrder
  <2>3. QED
    BY <1>2, <2>2
<1>5. {w[i].num : i \in EventsOf(w)} = {q[i].num : i \in EventsOf(q) \ {k}}
  <2> HIDE DEF was
  <2>1. \A i \in EventsOf(w) : \E j \in EventsOf(q) \ {k} : w[i].num = q[j].num
    BY <1>2
  <2>2. \A j \in EventsOf(q) \ {k} : \E i \in EventsOf(w) : w[i].num = q[j].num
    BY <1>2, <1>3
  <2>3. QED
    BY <2>1, <2>2
<1>6. QED
  BY <1>4, <1>5 DEF w

\* A packet that is no event leaves; an event is dropped; the first of the
\* events goes to a callback.
LEMMA OrderWithout ==
    ASSUME NEW q \in Seq(Content), NEW k \in 1 .. Len(q),
           NEW from \in Nat, NEW upto \in Nat, NEW dropped,
           InOrder(q, from, upto, dropped)
    PROVE  /\ InOrder(Without(q, k), from, upto, dropped \cup Number(q[k]))
           /\ k = 1 /\ IsEvent(q[1]) => InOrder(Without(q, 1), q[1].num, upto, dropped)
<1> DEFINE w == Without(q, k)
           nums == {q[i].num : i \in EventsOf(q)}
           left == {q[i].num : i \in EventsOf(q) \ {k}}
<1>1. /\ \A i, j \in EventsOf(w) : i < j => w[i].num < w[j].num
      /\ {w[i].num : i \in EventsOf(w)} = left
  BY OrderLeft
<1>2. nums = (from + 1 .. upto) \ dropped
  BY DEF InOrder
<1>3. k \in EventsOf(q) <=> IsEvent(q[k])
  BY DEF EventsOf
<1>4. ASSUME IsEvent(q[k])
      PROVE  /\ nums = left \cup {q[k].num} /\ q[k].num \notin left
             /\ k = 1 => \A x \in left : q[1].num < x
  <2>1. nums = left \cup {q[k].num}
    BY <1>3, <1>4
  <2>2. \A i \in EventsOf(q) \ {k} :
           q[i].num # q[k].num /\ (k = 1 => q[1].num < q[i].num)
    <3> TAKE i \in EventsOf(q) \ {k}
    <3>1. q[i].num \in Nat /\ q[k].num \in Nat
      BY <1>3, <1>4, EventNumber
    <3>2. i \in Nat /\ k \in Nat /\ i >= 1 /\ i # k
      BY LenProperties DEF EventsOf
    <3>3. i < k => q[i].num < q[k].num
      BY <1>3, <1>4 DEF InOrder
    <3>4. k < i => q[k].num < q[i].num
      BY <1>3, <1>4 DEF InOrder
    <3>5. QED
      BY <3>1, <3>2, <3>3, <3>4
  <2>3. QED
    BY <2>1, <2>2
<1>5. InOrder(w, from, upto, dropped \cup Number(q[k]))
  <2>1. left = (from + 1 .. upto) \ (dropped \cup Number(q[k]))
    <3>1. CASE IsEvent(q[k])
      <4>1. Number(q[k]) = {q[k].num}
        BY <3>1 DEF Number
      <4> HIDE DEF left, nums
      <4>2. QED
        BY <1>2, <1>4, <3>1, <4>1
    <3>2. CASE ~IsEvent(q[k])
      <4>1. left = nums /\ Number(q[k]) = {}
        BY <1>3, <3>2 DEF Number
      <4>2. QED
        BY <1>2, <4>1
    <3>3. QED
      BY <3>1, <3>2
  <2> HIDE DEF w, left
  <2>2. QED
    BY <1>1, <2>1 DEF InOrder
<1>6. ASSUME k = 1, IsEvent(q[1]) PROVE InOrder(w, q[1].num, upto, dropped)
  <2>1. left = (q[1].num + 1 .. upto) \ dropped
    <3>1. /\ nums = left \cup {q[1].num} /\ q[1].num \notin left
          /\ \A x \in left : q[1].num < x
      BY <1>4, <1>6
    <3> HIDE DEF left, nums
    <3>2. nums \subseteq from + 1 .. upto
      BY <1>2
    <3> DEFINE e == q[1].num
    <3>3. e \in Nat /\ e >= from + 1
      BY <3>1, <3>2
    <3>4. nums = (from + 1 .. upto) \ dropped /\ nums = left \cup {e} /\ e \notin left
          /\ \A x \in left : e < x
      BY <1>2, <3>1
    <3> HIDE DEF e
    <3>5. left \subseteq (e + 1 .. upto) \ dropped
      <4> SUFFICES ASSUME NEW x \in left PROVE x \in e + 1 .. upto /\ x \notin dropped
        OBVIOUS
      <4>1. x \in from + 1 .. upto /\ x \notin dropped /\ e < x
        BY <3>4
      <4>2. QED
        BY <3>3, <4>1
    <3>6. (e + 1 .. upto) \ dropped \subseteq left
      <4> SUFFICES ASSUME NEW x \in e + 1 .. upto, x \notin dropped PROVE x \in left
        OBVIOUS
      <4>1. x \in from + 1 .. upto /\ x # e
        BY <3>3
      <4>2. QED
        BY <3>4, <4>1
    <3>7. QED
      BY <3>5, <3>6 DEF e
  <2> HIDE DEF w, left
  <2>2. QED
    BY <1>1, <2>1 DEF InOrder
<1>7. QED
  BY <1>5, <1>6

\* The order is an invariant only with what is known of the numbers: the next
\* event's is new to the line and to those dropped.
OrderInv == EventOrder /\ gone \subseteq 1 .. emitted /\ seen <= emitted

\* InOrder of a line is what EventOrder says of it.
LEMMA OrderOf ==
    ASSUME NEW q \in Seq(Content), NEW from, NEW upto, NEW dropped
    PROVE  InOrder(q, from, upto, dropped) <=>
             LET ahead == {i \in DOMAIN q : IsEvent(q[i])}
             IN  /\ \A i, j \in ahead : i < j => q[i].num < q[j].num
                 /\ {q[i].num : i \in ahead} = (from + 1 .. upto) \ dropped
<1>1. DOMAIN q = 1 .. Len(q)
  BY LenProperties
<1>2. EventsOf(q) = {i \in DOMAIN q : IsEvent(q[i])}
  BY <1>1 DEF EventsOf
<1>3. QED
  BY <1>2 DEF InOrder

\* EventOrder is the order of the line.
LEMMA OrderOfLine ==
    ASSUME Line \in Seq(Content)
    PROVE  EventOrder <=> InOrder(Line, seen, emitted, gone)
<1> DEFINE line == Line
<1>1. line \in Seq(Content)
  OBVIOUS
<1>2. EventOrder <=>
        LET ahead == {i \in DOMAIN line : IsEvent(line[i])}
        IN  /\ \A i, j \in ahead : i < j => line[i].num < line[j].num
            /\ {line[i].num : i \in ahead} = (seen + 1 .. emitted) \ gone
  BY DEF EventOrder
<1> HIDE DEF line
<1>3. EventOrder <=> InOrder(line, seen, emitted, gone)
  BY <1>1, <1>2, OrderOf
<1>4. QED
  BY <1>3 DEF line

\* The controller's steps: an event with the next number, or no event.
LEMMA OrderOffered ==
    ASSUME HciInv, OrderInv, Emit \/ Answer \/ HardwareError
    PROVE  /\ InOrder(Line', seen', emitted', gone')
           /\ gone' \subseteq 1 .. emitted' /\ seen' <= emitted'
<1>1. HciTypeOK /\ Line \in Seq(Content) /\ InOrder(Line, seen, emitted, gone)
  BY LineType, OrderOfLine DEF HciInv, OrderInv
<1>2. /\ seen \in Nat /\ emitted \in Nat /\ gone \subseteq 1 .. emitted /\ seen <= emitted
      /\ UNCHANGED <<seen, gone>>
  BY DEF HciInv, HciTypeOK, OrderInv, Emit, Answer, HardwareError, Offer, mainVars
<1>3. CASE Emit
  <2> DEFINE p == [evt |-> "EVENT", num |-> emitted + 1]
  <2>1. p \in Content /\ IsEvent(p) /\ p.num = emitted + 1
    BY <1>2 DEF Content, Event, IsEvent
  <2>2. Offer(p) /\ emitted' = emitted + 1
    BY <1>3 DEF Emit
  <2> HIDE DEF p
  <2>3. Line' = Append(Line, p)
    BY <1>1, <2>1, <2>2, LineGrows
  <2>4. InOrder(Append(Line, p), seen, emitted + 1, gone)
    BY <1>1, <1>2, <2>1, OrderEvent
  <2>5. gone \subseteq 1 .. emitted + 1 /\ seen <= emitted + 1
    BY <1>2
  <2>6. QED
    BY <1>2, <2>2, <2>3, <2>4, <2>5
<1>4. ASSUME NEW p \in Content, ~IsEvent(p), Offer(p), UNCHANGED emitted
      PROVE  InOrder(Line', seen', emitted', gone')
  <2>1. Line' = Append(Line, p)
    BY <1>1, <1>4, LineGrows
  <2>2. InOrder(Append(Line, p), seen, emitted, gone)
    BY <1>1, <1>4, OrderOther
  <2>3. QED
    BY <1>2, <1>4, <2>1, <2>2
<1>5. CASE Answer
  <2> DEFINE p == [evt |-> "EVT_CMD_COMPLETE", num |-> Head(commands).num,
                   opcode |-> Head(commands).opcode]
  <2>1. Head(commands) \in Command
    BY <1>5, QueueHead DEF HciInv, HciTypeOK, Answer
  <2>2. p \in Content /\ ~IsEvent(p)
    BY <2>1 DEF Command, Content, IsEvent
  <2>3. Offer(p) /\ UNCHANGED emitted
    BY <1>5 DEF Answer
  <2>4. QED
    BY <1>2, <1>4, <2>2, <2>3
<1>6. CASE HardwareError
  <2>1. [evt |-> "EVT_HARDWARE_ERROR"] \in Content /\ ~IsEvent([evt |-> "EVT_HARDWARE_ERROR"])
    BY DEF Content, IsEvent
  <2>2. Offer([evt |-> "EVT_HARDWARE_ERROR"]) /\ UNCHANGED emitted
    BY <1>6 DEF HardwareError
  <2>3. QED
    BY <1>2, <1>4, <2>1, <2>2
<1>7. QED
  BY <1>3, <1>5, <1>6

\* The main loop calls a callback with the first event of the line, drops an
\* event, or leaves all where it is.
LEMMA OrderInLoop ==
    ASSUME HciInv, OrderInv, MainLoop
    PROVE  /\ InOrder(Line', seen', emitted', gone')
           /\ gone' \subseteq 1 .. emitted' /\ seen' <= emitted'
<1>1. /\ HciTypeOK /\ Line \in Seq(Content) /\ InOrder(Line, seen, emitted, gone)
      /\ Len(Line) \in Nat
  BY LineType, OrderOfLine, LenProperties DEF HciInv, OrderInv
<1>2. /\ seen \in Nat /\ emitted \in Nat /\ gone \subseteq 1 .. emitted /\ seen <= emitted
      /\ UNCHANGED <<controller, emitted>>
  BY DEF HciInv, HciTypeOK, OrderInv, MainLoop
<1>3. ASSUME NEW k \in 1 .. Len(Line), IsEvent(Line[k])
      PROVE  Line[k].num \in 1 .. emitted
  <2>1. k \in EventsOf(Line)
    BY <1>3 DEF EventsOf
  <2> DEFINE nums == {Line[i].num : i \in EventsOf(Line)}
  <2>2. Line[k].num \in nums
    BY <2>1
  <2>3. nums = (seen + 1 .. emitted) \ gone
    BY <1>1 DEF InOrder
  <2> HIDE DEF nums
  <2> DEFINE n == Line[k].num
  <2>4. n \in seen + 1 .. emitted
    BY <2>2, <2>3
  <2> HIDE DEF n
  <2>5. n \in 1 .. emitted
    BY <1>2, <2>4
  <2>6. QED
    BY <2>5 DEF n
<1>4. CASE Line' = Line /\ UNCHANGED <<seen, gone>>
  BY <1>1, <1>2, <1>4
<1>5. ASSUME NEW k \in 1 .. Len(Line), Line' = Without(Line, k),
             gone' = gone \cup Number(Line[k]), UNCHANGED seen
      PROVE  InOrder(Line', seen', emitted', gone') /\ gone' \subseteq 1 .. emitted'
             /\ seen' <= emitted'
  <2>1. InOrder(Without(Line, k), seen, emitted, gone \cup Number(Line[k]))
    BY <1>1, <1>2, OrderWithout
  <2>2. Number(Line[k]) \subseteq 1 .. emitted
    BY <1>3 DEF Number
  <2>3. QED
    BY <1>2, <1>5, <2>1, <2>2
<1>6. CASE Deliver
  <2> DEFINE h == Head(hciReadPktRxQueue)
  <2>1. 1 \in 1 .. Len(Line) /\ Line[1] = h /\ Line' = Without(Line, 1)
    BY <1>2, <1>6, HeadLeaves DEF Deliver
  <2>2. UNCHANGED gone /\ seen' = IF IsEvent(h) THEN h.num ELSE seen
    BY <1>6 DEF Deliver
  <2> HIDE DEF h
  <2>3. CASE IsEvent(h)
    <3>1. InOrder(Without(Line, 1), Line[1].num, emitted, gone)
      BY <1>1, <1>2, <2>1, <2>3, OrderWithout
    <3>2. Line[1].num \in 1 .. emitted
      BY <1>3, <2>1, <2>3
    <3>3. seen' = Line[1].num
      BY <2>1, <2>2, <2>3
    <3>4. seen' <= emitted
      BY <1>2, <3>2, <3>3
    <3>5. QED
      BY <1>2, <2>1, <2>2, <3>1, <3>3, <3>4
  <2>4. CASE ~IsEvent(h)
    <3>1. Number(Line[1]) = {}
      BY <2>1, <2>4 DEF Number
    <3>2. QED
      BY <1>5, <2>1, <2>2, <2>4, <3>1
  <2>5. QED
    BY <2>3, <2>4
<1>7. CASE free_event_list
  <2>1. hciReadPktRxQueue # <<>>
    BY <1>7, FreeHasPacket DEF free_event_list, FreeFindsPacket
  <2>2. /\ 1 \in 1 .. Len(Line) /\ Line[1] = Head(hciReadPktRxQueue)
        /\ Line' = Without(Line, 1)
    BY <1>2, <1>7, <2>1, HeadLeaves DEF free_event_list
  <2>3. gone' = gone \cup Number(Head(hciReadPktRxQueue)) /\ UNCHANGED seen
    BY <1>7 DEF free_event_list
  <2>4. QED
    BY <1>5, <2>2, <2>3
<1>8. CASE Conclude
  <2> DEFINE k == Len(hciTempQueue) + 1
  <2>1. k \in 1 .. Len(Line) /\ Line[k] = taken[1] /\ Line' = Without(Line, k)
    BY <1>2, <1>8, TakenLeaves DEF Conclude
  <2>2. UNCHANGED <<seen, gone>> /\ Number(taken[1]) = {}
    BY <1>8 DEF Conclude, Number
  <2> HIDE DEF k
  <2>3. QED
    BY <1>5, <2>1, <2>2
<1>9. CASE SetAside /\ NoRoom
  <2> DEFINE k == Len(hciTempQueue) + 1
  <2>1. k \in 1 .. Len(Line) /\ Line[k] = taken[1] /\ Line' = Without(Line, k)
    BY <1>2, <1>9, TakenLeaves DEF SetAside
  <2>2. UNCHANGED seen /\ gone' = gone \cup Number(taken[1])
    BY <1>9 DEF SetAside
  <2> HIDE DEF k
  <2>3. QED
    BY <1>5, <2>1, <2>2
<1>10. CASE SetAside /\ ~NoRoom
  BY <1>2, <1>4, <1>10, LineKept DEF SetAside
<1>11. CASE Take
  BY <1>2, <1>4, <1>11, LineKept DEF Take
<1>12. CASE move_list
  BY <1>2, <1>4, <1>12, LineKept DEF move_list, mainVars
<1>13. CASE \/ CallbackReturns \/ \E opcode \in Opcodes : hci_send_req(opcode)
            \/ StartSend \/ send_cmd \/ TimeOut \/ Return
  <2>1. UNCHANGED <<hciTempQueue, taken, hciReadPktRxQueue, controller, seen, gone>>
    BY <1>2, <1>13 DEF CallbackReturns, hci_send_req, StartSend, send_cmd, TimeOut, Return,
                       listVars
  <2>2. QED
    BY <1>4, <2>1 DEF Line
<1>14. QED
  BY <1>6, <1>7, <1>8, <1>9, <1>10, <1>11, <1>12, <1>13 DEF MainLoop

\* Every step keeps the order.
LEMMA OrderStep == HciInv /\ OrderInv /\ [HciNext]_hciVars => OrderInv'
<1> SUFFICES ASSUME HciInv, OrderInv, [HciNext]_hciVars PROVE OrderInv'
  OBVIOUS
<1>1. HciTypeOK' /\ HciTypeOK /\ InOrder(Line, seen, emitted, gone)
  BY HciStep, LineType, OrderOfLine DEF HciInv, OrderInv
<1>2. Line' \in Seq(Content) /\ (EventOrder' <=> InOrder(Line', seen', emitted', gone'))
  <2> DEFINE line == Line'
  <2>1. line \in Seq(Content)
    BY <1>1, ConcatProperties DEF HciTypeOK, Line
  <2>2. EventOrder' <=>
          LET ahead == {i \in DOMAIN line : IsEvent(line[i])}
          IN  /\ \A i, j \in ahead : i < j => line[i].num < line[j].num
              /\ {line[i].num : i \in ahead} = (seen' + 1 .. emitted') \ gone'
    BY DEF EventOrder
  <2> HIDE DEF line
  <2>3. EventOrder' <=> InOrder(line, seen', emitted', gone')
    BY <2>1, <2>2, OrderOf
  <2>4. QED
    BY <2>1, <2>3 DEF line
<1>3. CASE Emit \/ Answer \/ HardwareError
  BY <1>2, <1>3, OrderOffered DEF OrderInv
<1>4. CASE hci_tl_lowlevel_isr
  <2>1. UNCHANGED <<seen, gone, emitted>>
    BY <1>4 DEF hci_tl_lowlevel_isr, EnterIsr, hci_notify_asynch_evt, GiveUp, LeaveIsr,
                mainVars, radioVars
  <2>2. Line' = Line
    <3>1. CASE hci_notify_asynch_evt
      BY <3>1, LineKept
    <3>2. CASE EnterIsr \/ GiveUp \/ LeaveIsr
      BY <3>2 DEF EnterIsr, GiveUp, LeaveIsr, listVars, radioVars, Line
    <3>3. QED
      BY <1>4, <3>1, <3>2 DEF hci_tl_lowlevel_isr
  <2>3. QED
    BY <1>1, <1>2, <2>1, <2>2 DEF OrderInv
<1>5. CASE MainLoop
  BY <1>2, <1>5, OrderInLoop DEF OrderInv
<1>6. CASE UNCHANGED hciVars
  <2>1. UNCHANGED <<seen, gone, emitted>> /\ Line' = Line
    BY <1>6 DEF hciVars, listVars, mainVars, radioVars, Line
  <2>2. QED
    BY <1>1, <1>2, <2>1 DEF OrderInv
<1>7. QED
  BY <1>3, <1>4, <1>5, <1>6 DEF HciNext

\* Callbacks see the controller's events in the controller's order, and none is
\* lost that was not dropped for want of packets: for every number of packets,
\* though hci_send_req takes events out of the queue and puts them back while
\* the interrupt handler adds to it.
THEOREM EventsInOrder == HciSpec => []EventOrder
<1>1. HciInit => OrderInv
  <2> SUFFICES ASSUME HciInit PROVE OrderInv
    OBVIOUS
  <2>1. Line = <<>>
    BY DEF HciInit, Line
  <2>2. /\ Line \in Seq(Content) /\ EventsOf(Line) = {}
        /\ seen = 0 /\ emitted = 0 /\ gone = {}
    BY <2>1 DEF HciInit, EventsOf
  <2>3. InOrder(Line, seen, emitted, gone)
    BY <2>2 DEF InOrder
  <2>4. QED
    BY <2>2, <2>3, OrderOfLine DEF OrderInv
<1>2. OrderInv => EventOrder
  BY DEF OrderInv
<1>3. QED
  BY <1>1, <1>2, OrderStep, HciInvariant, PTL DEF HciSpec

-----------------------------------------------------------------------------
(***************************************************************************)
(* The answers to commands.  While no command was given up there is at     *)
(* most one answer on the line and one command in the controller, never    *)
(* both, and only while hci_send_req waits: it is the answer to r.         *)
(***************************************************************************)
AnswersOf(q) == {i \in 1 .. Len(q) : q[i].evt = "EVT_CMD_COMPLETE"}

AtMostOne(q) ==
    /\ \A i \in AnswersOf(q) : q[i].num = r.num
    /\ \A i, j \in AnswersOf(q) : i = j

Waiting == main \in {"wait", "examine"}

OneAnswer ==
    ~abandoned =>
        /\ AtMostOne(Line)
        /\ AnswersOf(Line) # {} => commands = <<>> /\ Waiting
        /\ commands # <<>> => commands = <<r>> /\ Waiting

\* The answers there are after a packet joined.
LEMMA AnswersAppended ==
    ASSUME NEW q \in Seq(Content), NEW p \in Content
    PROVE  /\ \A i \in AnswersOf(q) : Append(q, p)[i] = q[i]
           /\ Append(q, p)[Len(q) + 1] = p
           /\ AnswersOf(Append(q, p)) =
                 AnswersOf(q) \cup (IF p.evt = "EVT_CMD_COMPLETE" THEN {Len(q) + 1} ELSE {})
<1> DEFINE a == Append(q, p)
<1>1. /\ Len(a) = Len(q) + 1 /\ Len(q) \in Nat
      /\ \A i \in 1 .. Len(q) : a[i] = q[i]
      /\ a[Len(q) + 1] = p
  BY AppendElements, LenProperties
<1> HIDE DEF a
<1>2. 1 .. Len(a) = 1 .. Len(q) \cup {Len(q) + 1} /\ Len(q) + 1 \notin 1 .. Len(q)
  BY <1>1
<1>3. AnswersOf(a) =
         AnswersOf(q) \cup (IF p.evt = "EVT_CMD_COMPLETE" THEN {Len(q) + 1} ELSE {})
  BY <1>1, <1>2 DEF AnswersOf
<1>4. \A i \in AnswersOf(q) : a[i] = q[i]
  BY <1>1 DEF AnswersOf
<1>5. QED
  BY <1>1, <1>3, <1>4 DEF a

\* A packet that is no answer leaves the answers as they are.
LEMMA NoAnswerAppended ==
    ASSUME NEW q \in Seq(Content), NEW p \in Content, p.evt # "EVT_CMD_COMPLETE"
    PROVE  /\ AnswersOf(Append(q, p)) = AnswersOf(q)
           /\ AtMostOne(q) => AtMostOne(Append(q, p))
<1> DEFINE a == Append(q, p)
<1>1. /\ \A i \in AnswersOf(q) : a[i] = q[i]
      /\ AnswersOf(a) =
            AnswersOf(q) \cup (IF p.evt = "EVT_CMD_COMPLETE" THEN {Len(q) + 1} ELSE {})
  BY AnswersAppended
<1> HIDE DEF a
<1>2. AnswersOf(a) = AnswersOf(q)
  BY <1>1
<1>3. AtMostOne(q) => AtMostOne(a)
  BY <1>1, <1>2 DEF AtMostOne
<1>4. QED
  BY <1>2, <1>3 DEF a

\* A packet that leaves the line brings no answer; when it was the one answer,
\* there is none.
LEMMA AnswersWithout ==
    ASSUME NEW q \in Seq(Content), NEW k \in 1 .. Len(q), AtMostOne(q)
    PROVE  /\ AtMostOne(Without(q, k))
           /\ AnswersOf(Without(q, k)) # {} => AnswersOf(q) # {}
           /\ q[k].evt = "EVT_CMD_COMPLETE" => AnswersOf(Without(q, k)) = {}
<1> DEFINE w == Without(q, k)
           was(i) == IF i < k THEN i ELSE i + 1
<1>1. /\ Len(w) = Len(q) - 1 /\ Len(q) \in Nat /\ k \in Nat
      /\ \A i \in 1 .. Len(w) :
            was(i) \in 1 .. Len(q) /\ was(i) # k /\ w[i] = q[was(i)]
  BY WithoutElements, LenProperties
<1>2. \A i, j \in 1 .. Len(w) : was(i) = was(j) => i = j
  BY <1>1
<1> HIDE DEF w, was
<1>3. \A i \in AnswersOf(w) :
         was(i) \in AnswersOf(q) /\ was(i) # k /\ w[i] = q[was(i)] /\ i \in 1 .. Len(w)
  BY <1>1 DEF AnswersOf
<1>4. \A i \in AnswersOf(w) : w[i].num = r.num
  BY <1>3 DEF AtMostOne
<1>5. \A i, j \in AnswersOf(w) : i = j
  BY <1>2, <1>3 DEF AtMostOne
<1>6. AnswersOf(w) # {} => AnswersOf(q) # {}
  BY <1>3
<1>7. q[k].evt = "EVT_CMD_COMPLETE" => AnswersOf(w) = {}
  <2>1. q[k].evt = "EVT_CMD_COMPLETE" => k \in AnswersOf(q)
    BY DEF AnswersOf
  <2>2. QED
    BY <1>3, <2>1 DEF AtMostOne
<1>8. AtMostOne(w)
  BY <1>4, <1>5 DEF AtMostOne
<1>9. QED
  BY <1>6, <1>7, <1>8 DEF w

\* The controller answers the one command, or says something else.
LEMMA AnswerOffered ==
    ASSUME HciInv, OneAnswer, Emit \/ Answer \/ HardwareError
    PROVE  OneAnswer'
<1>1. HciTypeOK /\ Line \in Seq(Content) /\ UNCHANGED <<main, r, abandoned>>
  BY LineType DEF HciInv, Emit, Answer, HardwareError, Offer, mainVars
<1> SUFFICES ASSUME ~abandoned PROVE OneAnswer'
  BY <1>1 DEF OneAnswer
<1>2. ASSUME NEW p \in Content, p.evt # "EVT_CMD_COMPLETE", Offer(p), UNCHANGED commands
      PROVE  OneAnswer'
  <2>1. Line' = Append(Line, p)
    BY <1>1, <1>2, LineGrows
  <2>2. /\ AnswersOf(Append(Line, p)) = AnswersOf(Line)
        /\ AtMostOne(Line) => AtMostOne(Append(Line, p))
    BY <1>1, <1>2, NoAnswerAppended
  <2>3. AtMostOne(Line)' <=> AtMostOne(Append(Line, p))
    BY <1>1, <2>1 DEF AtMostOne
  <2>4. QED
    BY <1>1, <1>2, <2>1, <2>2, <2>3 DEF OneAnswer, Waiting
<1>3. CASE Emit
  <2>1. /\ [evt |-> "EVENT", num |-> emitted + 1] \in Content
        /\ [evt |-> "EVENT", num |-> emitted + 1].evt # "EVT_CMD_COMPLETE"
    BY <1>1 DEF HciTypeOK, Content, Event
  <2>2. Offer([evt |-> "EVENT", num |-> emitted + 1]) /\ UNCHANGED commands
    BY <1>3 DEF Emit
  <2>3. QED
    BY <1>2, <2>1, <2>2
<1>4. CASE HardwareError
  <2>1. /\ [evt |-> "EVT_HARDWARE_ERROR"] \in Content
        /\ [evt |-> "EVT_HARDWARE_ERROR"].evt # "EVT_CMD_COMPLETE"
    BY DEF Content
  <2>2. Offer([evt |-> "EVT_HARDWARE_ERROR"]) /\ UNCHANGED commands
    BY <1>4 DEF HardwareError
  <2>3. QED
    BY <1>2, <2>1, <2>2
<1>5. CASE Answer
  <2> DEFINE p == [evt |-> "EVT_CMD_COMPLETE", num |-> Head(commands).num,
                   opcode |-> Head(commands).opcode]
  <2>1. commands = <<r>> /\ Waiting /\ commands' = Tail(commands) /\ Offer(p)
    BY <1>5 DEF OneAnswer, Answer
  <2>2. /\ Head(commands) = r /\ commands' = <<>> /\ r \in Command
        /\ p.num = r.num /\ p.evt = "EVT_CMD_COMPLETE"
    BY <1>1, <2>1 DEF HciTypeOK
  <2>3. p \in Content
    BY <2>2 DEF Command, Content
  <2>4. AnswersOf(Line) = {}
    BY <2>1 DEF OneAnswer
  <2> HIDE DEF p
  <2>5. Line' = Append(Line, p)
    BY <1>1, <2>1, <2>3, LineGrows
  <2>6. AnswersOf(Line') = {Len(Line) + 1} /\ Line'[Len(Line) + 1] = p
    BY <1>1, <2>2, <2>3, <2>4, <2>5, AnswersAppended
  <2>7. QED
    BY <1>1, <2>1, <2>2, <2>6 DEF OneAnswer, AtMostOne, Waiting
<1>6. QED
  BY <1>3, <1>4, <1>5

\* hci_send_req takes its answer from the line, or gives the command up.
LEMMA AnswerInLoop ==
    ASSUME HciInv, OneAnswer, MainLoop
    PROVE  OneAnswer'
<1>1. HciTypeOK /\ Line \in Seq(Content) /\ UNCHANGED controller
  BY LineType DEF HciInv, MainLoop
<1>2. ASSUME Line' = Line, UNCHANGED <<r, abandoned, commands>>, Waiting => Waiting'
      PROVE  OneAnswer'
  BY <1>2 DEF OneAnswer, AtMostOne
<1>3. ASSUME NEW k \in 1 .. Len(Line), Line' = Without(Line, k),
             UNCHANGED <<r, abandoned, commands>>, Waiting => Waiting'
      PROVE  OneAnswer'
  <2> SUFFICES ASSUME ~abandoned PROVE OneAnswer'
    BY <1>3 DEF OneAnswer
  <2>1. AtMostOne(Line)
    BY DEF OneAnswer
  <2>2. AtMostOne(Without(Line, k)) /\ (AnswersOf(Line') # {} => AnswersOf(Line) # {})
    BY <1>1, <1>3, <2>1, AnswersWithout
  <2>3. QED
    BY <1>3, <2>2 DEF OneAnswer, AtMostOne
<1>4. CASE Deliver
  <2>1. 1 \in 1 .. Len(Line) /\ Line' = Without(Line, 1)
    BY <1>1, <1>4, HeadLeaves DEF Deliver
  <2>2. UNCHANGED <<r, abandoned, commands>> /\ ~Waiting
    BY <1>4 DEF Deliver, Waiting
  <2>3. QED
    BY <1>3, <2>1, <2>2
<1>5. CASE free_event_list
  <2>1. hciReadPktRxQueue # <<>>
    BY <1>5, FreeHasPacket DEF free_event_list, FreeFindsPacket
  <2>2. 1 \in 1 .. Len(Line) /\ Line' = Without(Line, 1)
    BY <1>1, <1>5, <2>1, HeadLeaves DEF free_event_list
  <2>3. UNCHANGED <<r, abandoned, commands>> /\ ~Waiting
    BY <1>5 DEF free_event_list, Waiting
  <2>4. QED
    BY <1>3, <2>2, <2>3
<1>6. CASE Conclude
  <2> DEFINE k == Len(hciTempQueue) + 1
  <2>1. k \in 1 .. Len(Line) /\ Line[k] = taken[1] /\ Line' = Without(Line, k)
    BY <1>1, <1>6, TakenLeaves DEF Conclude
  <2>2. UNCHANGED <<r, commands>> /\ abandoned' = (abandoned \/ ~Answered)
    BY <1>6 DEF Conclude
  <2> HIDE DEF k
  <2>3. CASE ~abandoned /\ Answered
    <3>1. Line[k].evt = "EVT_CMD_COMPLETE" /\ AtMostOne(Line) /\ k \in AnswersOf(Line)
      BY <2>1, <2>3 DEF Answered, OneAnswer, AnswersOf
    <3>2. AnswersOf(Line') = {} /\ commands = <<>>
      BY <1>1, <2>1, <2>3, <3>1, AnswersWithout DEF OneAnswer
    <3>3. QED
      BY <2>2, <3>2 DEF OneAnswer, AtMostOne
  <2>4. CASE ~(~abandoned /\ Answered)
    BY <2>2, <2>4 DEF OneAnswer
  <2>5. QED
    BY <2>3, <2>4
<1>7. CASE SetAside /\ NoRoom
  <2> DEFINE k == Len(hciTempQueue) + 1
  <2>1. k \in 1 .. Len(Line) /\ Line' = Without(Line, k)
    BY <1>1, <1>7, TakenLeaves DEF SetAside
  <2>2. UNCHANGED <<r, abandoned, commands>> /\ Waiting'
    BY <1>7 DEF SetAside, Waiting
  <2> HIDE DEF k
  <2>3. QED
    BY <1>3, <2>1, <2>2
<1>8. CASE SetAside /\ ~NoRoom
  BY <1>1, <1>2, <1>8, LineKept DEF SetAside, Waiting
<1>9. CASE Take
  BY <1>1, <1>2, <1>9, LineKept DEF Take, Waiting
<1>10. CASE move_list
  BY <1>1, <1>2, <1>10, LineKept DEF move_list, Waiting, mainVars
<1>11. ASSUME UNCHANGED <<listVars, controller>> PROVE Line' = Line
  BY <1>11 DEF listVars, Line
<1>12. CASE CallbackReturns
  <2>1. Line' = Line
    BY <1>1, <1>12 DEF CallbackReturns, Line
  <2>2. QED
    BY <1>2, <1>12, <2>1 DEF CallbackReturns, Waiting
<1>13. CASE StartSend \/ Return
  BY <1>1, <1>2, <1>11, <1>13 DEF StartSend, Return, Waiting
<1>14. CASE TimeOut
  BY <1>14 DEF TimeOut, OneAnswer
<1>15. CASE \E opcode \in Opcodes : hci_send_req(opcode)
  <2>1. Line' = Line /\ UNCHANGED <<abandoned, commands>> /\ ~Waiting
    BY <1>1, <1>11, <1>15 DEF hci_send_req, Waiting
  <2>2. QED
    BY <2>1 DEF OneAnswer, AtMostOne
<1>16. CASE send_cmd
  <2>1. Line' = Line /\ UNCHANGED <<abandoned, r>> /\ ~Waiting /\ Waiting'
    BY <1>1, <1>11, <1>16 DEF send_cmd, Waiting
  <2>2. ASSUME ~abandoned PROVE commands' = <<>> \/ commands' = <<r>>
    <3>1. commands = <<>>
      BY <2>1, <2>2 DEF OneAnswer
    <3>2. Append(<<>>, r) = <<r>>
      BY <1>1 DEF HciTypeOK
    <3>3. QED
      BY <1>16, <3>1, <3>2 DEF send_cmd
  <2>3. QED
    BY <2>1, <2>2 DEF OneAnswer, AtMostOne
<1>17. QED
  BY <1>4, <1>5, <1>6, <1>7, <1>8, <1>9, <1>10, <1>12, <1>13, <1>14, <1>15, <1>16
  DEF MainLoop

\* No step brings a second answer.
LEMMA AnswerStep == HciInv /\ OneAnswer /\ [HciNext]_hciVars => OneAnswer'
<1> SUFFICES ASSUME HciInv, OneAnswer, [HciNext]_hciVars PROVE OneAnswer'
  OBVIOUS
<1>1. CASE hci_tl_lowlevel_isr
  <2>1. UNCHANGED <<main, r, abandoned, commands>>
    BY <1>1 DEF hci_tl_lowlevel_isr, EnterIsr, hci_notify_asynch_evt, GiveUp, LeaveIsr,
                mainVars, radioVars
  <2>2. Line' = Line
    <3>1. CASE hci_notify_asynch_evt
      BY <3>1, LineKept
    <3>2. CASE EnterIsr \/ GiveUp \/ LeaveIsr
      BY <3>2 DEF EnterIsr, GiveUp, LeaveIsr, listVars, radioVars, Line
    <3>3. QED
      BY <1>1, <3>1, <3>2 DEF hci_tl_lowlevel_isr
  <2>3. QED
    BY <2>1, <2>2 DEF OneAnswer, AtMostOne, Waiting
<1>2. CASE UNCHANGED hciVars
  <2>1. UNCHANGED <<main, r, abandoned, commands>> /\ Line' = Line
    BY <1>2 DEF hciVars, listVars, mainVars, radioVars, Line
  <2>2. QED
    BY <2>1 DEF OneAnswer, AtMostOne, Waiting
<1>3. QED
  BY <1>1, <1>2, AnswerOffered, AnswerInLoop DEF HciNext

\* The answer hci_send_req finds is the one to its own command, whatever was
\* dropped to make room for it, so long as no command was given up before.
THEOREM AnswerIsOwn == HciSpec => []OwnAnswer
<1>1. HciInit => OneAnswer
  <2> SUFFICES ASSUME HciInit PROVE OneAnswer
    OBVIOUS
  <2>1. Line = <<>> /\ commands = <<>>
    BY DEF HciInit, Line
  <2>2. AnswersOf(Line) = {}
    BY <2>1 DEF AnswersOf
  <2>3. QED
    BY <2>1, <2>2 DEF OneAnswer, AtMostOne
<1>2. HciInv /\ OneAnswer => OwnAnswer
  <2> SUFFICES ASSUME HciInv, OneAnswer, main = "examine", ~abandoned,
                      taken[1].evt = "EVT_CMD_COMPLETE"
               PROVE  taken[1].num = r.num
    BY DEF OwnAnswer
  <2> DEFINE k == Len(hciTempQueue) + 1
  <2>1. k \in 1 .. Len(Line) /\ Line[k] = taken[1]
    BY TakenInLine
  <2> HIDE DEF k
  <2>2. k \in AnswersOf(Line)
    BY <2>1 DEF AnswersOf
  <2>3. QED
    BY <2>1, <2>2 DEF OneAnswer, AtMostOne
<1>3. QED
  BY <1>1, <1>2, AnswerStep, HciInvariant, PTL DEF HciSpec
=============================================================================
