---------------------------- MODULE HciTransport ----------------------------
(***************************************************************************)
(* hci_tl.c and hci_tl_interface.c: how events and the answers to commands *)
(* come from the radio controller to the main loop.  A fixed number of     *)
(* packets moves between the pool, the receive queue, and the hands of     *)
(* hci_user_evt_proc (hand) and of hci_send_req (taken, hciTempQueue).     *)
(* Free packets are alike, so the pool is their number.                    *)
(*                                                                         *)
(* Three actors: the main loop, which runs a callback per event and sends  *)
(* a command from inside it or between events; the interrupt handler,      *)
(* which the main loop cannot interrupt; and the controller.  A list       *)
(* operation runs with interrupts disabled: it is the grain of a step.     *)
(*                                                                         *)
(* The controller answers every command of this program with an            *)
(* EVT_CMD_COMPLETE: what hci_send_req does with EVT_CMD_STATUS, and with  *)
(* an awaited EVT_LE_META_EVENT, is left out; so are packets that          *)
(* verify_packet would reject.                                             *)
(***************************************************************************)
EXTENDS Integers, Sequences

CONSTANTS
    HCI_READ_PACKET_NUM_MAX,  \* packets there are
    Opcodes,                  \* commands the program uses
    MaxEvents,                \* bound: events the controller has
    MaxRequests,              \* bound: commands sent
    MaxErrors                 \* bound: EVT_HARDWARE_ERROR events

ASSUME HciAssumption ==
    /\ HCI_READ_PACKET_NUM_MAX \in Nat /\ HCI_READ_PACKET_NUM_MAX >= 2
    /\ MaxEvents \in Nat /\ MaxRequests \in Nat /\ MaxErrors \in Nat

VARIABLES
    hciReadPktPool,     \* number of free packets
    hciReadPktRxQueue,  \* received, and not yet looked at
    hciTempQueue,       \* set aside by hci_send_req
    hand,               \* the packet whose callback runs, if any
    taken,              \* the packet hci_send_req looks at, if any
    main,               \* where the main loop is
    r,                  \* the command hci_send_req works for
    abandoned,          \* was a command ever given up before its answer?
    isr,                \* is the interrupt handler running, or kept from the bus?
    pending,            \* is an interrupt pending?
    gaveUp,             \* has the handler ever returned with data left?
    controller,         \* what the controller has for the host
    commands,           \* commands it has not answered
    sent, emitted, errors,  \* how many commands, events, errors there were
    seen,               \* the last event a callback was called with
    gone                \* events that were received and discarded

listVars  == <<hciReadPktPool, hciReadPktRxQueue, hciTempQueue, hand, taken>>
mainVars  == <<main, r, abandoned, sent, seen, gone>>
isrVars   == <<isr, pending, gaveUp>>
radioVars == <<controller, commands, emitted, errors>>
hciVars   == <<listVars, mainVars, isrVars, radioVars>>

Command == [num : Nat, opcode : Opcodes]
Event   == [evt : {"EVENT"}, num : Nat]
Content == Event \cup [evt : {"EVT_CMD_COMPLETE"}, num : Nat, opcode : Opcodes]
                 \cup [evt : {"EVT_HARDWARE_ERROR"}]

\* The lists hold packets, each hand at most one, and no count goes below 0.
HciTypeOK ==
    /\ hciReadPktPool \in Nat
    /\ hciReadPktRxQueue \in Seq(Content) /\ hciTempQueue \in Seq(Content)
    /\ hand \in Seq(Content) /\ Len(hand) <= 1
    /\ taken \in Seq(Content) /\ Len(taken) <= 1
    /\ main \in {"loop", "callback", "free", "send", "wait", "examine", "restore"}
    /\ r \in Command
    /\ abandoned \in BOOLEAN
    /\ isr \in {"out", "in", "blocked"} /\ pending \in BOOLEAN /\ gaveUp \in BOOLEAN
    /\ controller \in Seq(Content) /\ commands \in Seq(Command)
    /\ sent \in Nat /\ emitted \in Nat /\ errors \in Nat /\ seen \in Nat
    /\ gone \subseteq Nat

HciInit ==
    /\ hciReadPktPool = HCI_READ_PACKET_NUM_MAX
    /\ hciReadPktRxQueue = <<>> /\ hciTempQueue = <<>>
    /\ hand = <<>> /\ taken = <<>>
    /\ main = "loop" /\ r \in [num : {0}, opcode : Opcodes]
    /\ isr = "out" /\ pending = FALSE
    /\ abandoned = FALSE /\ gaveUp = FALSE
    /\ controller = <<>> /\ commands = <<>>
    /\ sent = 0 /\ emitted = 0 /\ errors = 0
    /\ seen = 0 /\ gone = {}

IsEvent(p) == p.evt = "EVENT"
Number(p)  == IF IsEvent(p) THEN {p.num} ELSE {}

-----------------------------------------------------------------------------
\* The controller.  Its line is high while it has something, and only the rise
\* of the line makes an interrupt pending.

Offer(p) ==
    /\ controller' = Append(controller, p)
    /\ pending' = (pending \/ controller = <<>>)
    /\ UNCHANGED <<listVars, mainVars, isr, gaveUp>>

Emit ==
    /\ emitted < MaxEvents
    /\ emitted' = emitted + 1
    /\ Offer([evt |-> "EVENT", num |-> emitted + 1])
    /\ UNCHANGED <<commands, errors>>

Answer ==
    /\ commands # <<>>
    /\ commands' = Tail(commands)
    /\ Offer([evt |-> "EVT_CMD_COMPLETE", num |-> Head(commands).num,
              opcode |-> Head(commands).opcode])
    /\ UNCHANGED <<emitted, errors>>

HardwareError ==
    /\ errors < MaxErrors
    /\ errors' = errors + 1
    /\ Offer([evt |-> "EVT_HARDWARE_ERROR"])
    /\ UNCHANGED <<commands, emitted>>

-----------------------------------------------------------------------------
(***************************************************************************)
(* The interrupt handler.  When it interrupts an exchange of hci_send_req  *)
(* on the bus, its own are refused as HAL_BUSY: nothing is read, 0 is      *)
(* returned all the same, and it tries again while the line is high: for   *)
(* ever.  Between two exchanges it can read, and spoils what is sent.      *)
(***************************************************************************)
EnterIsr ==
    /\ pending /\ isr = "out"
    /\ isr' \in IF main = "send" THEN {"in", "blocked"} ELSE {"in"}
    /\ pending' = FALSE
    /\ UNCHANGED <<listVars, mainVars, gaveUp, radioVars>>

\* Faulty variant: the pool is not looked at.
NotifyMutant ==
    /\ isr = "in" /\ controller # <<>>
    /\ hciReadPktPool' = hciReadPktPool - 1
    /\ hciReadPktRxQueue' = Append(hciReadPktRxQueue, Head(controller))
    /\ controller' = Tail(controller)
    /\ UNCHANGED <<hciTempQueue, hand, taken, mainVars, isrVars, commands, emitted, errors>>

\* Faulty variant: one packet for each interrupt.
OnePacketMutant ==
    /\ isr = "in" /\ controller # <<>>
    /\ hciReadPktPool > 0
    /\ hciReadPktPool' = hciReadPktPool - 1
    /\ hciReadPktRxQueue' = Append(hciReadPktRxQueue, Head(controller))
    /\ controller' = Tail(controller)
    /\ isr' = "out"
    /\ UNCHANGED <<hciTempQueue, hand, taken, mainVars, pending, gaveUp, commands, emitted,
                   errors>>

hci_notify_asynch_evt ==
    /\ isr = "in" /\ controller # <<>>
    /\ hciReadPktPool > 0
    /\ hciReadPktPool' = hciReadPktPool - 1
    /\ hciReadPktRxQueue' = Append(hciReadPktRxQueue, Head(controller))
    /\ controller' = Tail(controller)
    /\ UNCHANGED <<hciTempQueue, hand, taken, mainVars, isrVars, commands, emitted, errors>>

\* No packet is free: the handler returns, and the line stays high.
GiveUp ==
    /\ isr # "out" /\ controller # <<>> /\ hciReadPktPool = 0
    /\ isr' = "out" /\ gaveUp' = TRUE
    /\ UNCHANGED <<listVars, mainVars, pending, radioVars>>

LeaveIsr ==
    /\ isr # "out" /\ controller = <<>>
    /\ isr' = "out"
    /\ UNCHANGED <<listVars, mainVars, pending, gaveUp, radioVars>>

hci_tl_lowlevel_isr == EnterIsr \/ hci_notify_asynch_evt \/ GiveUp \/ LeaveIsr

-----------------------------------------------------------------------------
\* The main loop.  hci_user_evt_proc calls HCI_Event_CB with the next packet.

Deliver ==
    /\ main = "loop" /\ hciReadPktRxQueue # <<>>
    /\ hand' = <<Head(hciReadPktRxQueue)>>
    /\ hciReadPktRxQueue' = Tail(hciReadPktRxQueue)
    /\ seen' = IF IsEvent(hand'[1]) THEN hand'[1].num ELSE seen
    /\ main' = "callback"
    /\ UNCHANGED <<hciReadPktPool, hciTempQueue, taken, r, abandoned, sent, gone, commands>>

CallbackReturns ==
    /\ main = "callback"
    /\ hand' = <<>>
    /\ hciReadPktPool' = hciReadPktPool + 1
    /\ main' = "loop"
    /\ UNCHANGED <<hciReadPktRxQueue, hciTempQueue, taken, r, abandoned, sent, seen,
                   gone, commands>>

\* Update_TX_Char in a callback, or Enable_Advertising between two of them.
hci_send_req(opcode) ==
    /\ main \in {"loop", "callback"} /\ sent < MaxRequests
    /\ sent' = sent + 1
    /\ r' = [num |-> sent + 1, opcode |-> opcode]
    /\ main' = "free"
    /\ UNCHANGED <<listVars, abandoned, seen, gone, commands>>

\* Faulty variant: half the packets are not enough.
FreeMutant ==
    /\ main = "free" /\ hciReadPktPool <= HCI_READ_PACKET_NUM_MAX \div 2
    /\ gone' = gone \cup Number(Head(hciReadPktRxQueue))
    /\ hciReadPktRxQueue' = Tail(hciReadPktRxQueue)
    /\ hciReadPktPool' = hciReadPktPool + 1
    /\ UNCHANGED <<hciTempQueue, hand, taken, main, r, abandoned, sent, seen, commands>>

\* The oldest packet of the receive queue goes to the pool, unread.
free_event_list ==
    /\ main = "free" /\ hciReadPktPool < HCI_READ_PACKET_NUM_MAX \div 2
    /\ gone' = gone \cup Number(Head(hciReadPktRxQueue))
    /\ hciReadPktRxQueue' = Tail(hciReadPktRxQueue)
    /\ hciReadPktPool' = hciReadPktPool + 1
    /\ UNCHANGED <<hciTempQueue, hand, taken, main, r, abandoned, sent, seen, commands>>

StartSend ==
    /\ main = "free" /\ hciReadPktPool >= HCI_READ_PACKET_NUM_MAX \div 2
    /\ main' = "send"
    /\ UNCHANGED <<listVars, r, abandoned, sent, seen, gone, commands>>

\* The transfer gives up when the controller is not ready for it; no one looks.
send_cmd ==
    /\ main = "send"
    /\ commands' \in {commands, Append(commands, r)}
    /\ main' = "wait"
    /\ UNCHANGED <<listVars, r, abandoned, sent, seen, gone>>

\* Faulty variant: the clock is looked at only when something was received.
TimeOutMutant ==
    /\ main = "wait" /\ hciReadPktRxQueue # <<>>
    /\ abandoned' = TRUE /\ main' = "restore"
    /\ UNCHANGED <<listVars, r, sent, seen, gone, commands>>

\* The clock starts anew with every packet.
TimeOut ==
    /\ main = "wait"
    /\ abandoned' = TRUE /\ main' = "restore"
    /\ UNCHANGED <<listVars, r, sent, seen, gone, commands>>

Take ==
    /\ main = "wait" /\ hciReadPktRxQueue # <<>>
    /\ taken' = <<Head(hciReadPktRxQueue)>>
    /\ hciReadPktRxQueue' = Tail(hciReadPktRxQueue)
    /\ main' = "examine"
    /\ UNCHANGED <<hciReadPktPool, hciTempQueue, hand, r, abandoned, sent, seen, gone,
                   commands>>

Answered == taken[1].evt = "EVT_CMD_COMPLETE" /\ taken[1].opcode = r.opcode

\* Faulty variant: any packet ends the wait.
ConcludeMutant ==
    /\ main = "examine"
    /\ taken' = <<>>
    /\ hciReadPktPool' = hciReadPktPool + 1
    /\ main' = "restore"
    /\ UNCHANGED <<hciReadPktRxQueue, hciTempQueue, hand, r, abandoned, sent, seen, gone,
                   commands>>

\* done, or failed: the answer to another command, or an error.
Conclude ==
    /\ main = "examine" /\ ~IsEvent(taken[1])
    /\ abandoned' = (abandoned \/ ~Answered)
    /\ taken' = <<>>
    /\ hciReadPktPool' = hciReadPktPool + 1
    /\ main' = "restore"
    /\ UNCHANGED <<hciReadPktRxQueue, hciTempQueue, hand, r, sent, seen, gone, commands>>

\* An event is set aside, or discarded if nothing could be received otherwise.
NoRoom == hciReadPktPool = 0 /\ hciReadPktRxQueue = <<>>

\* Faulty variant: a discarded event's packet is forgotten.
SetAsideMutant ==
    /\ main = "examine" /\ IsEvent(taken[1])
    /\ taken' = <<>>
    /\ main' = "wait"
    /\ hciTempQueue' = IF NoRoom THEN hciTempQueue ELSE hciTempQueue \o taken
    /\ gone' = IF NoRoom THEN gone \cup Number(taken[1]) ELSE gone
    /\ UNCHANGED <<hciReadPktPool, hciReadPktRxQueue, hand, r, abandoned, sent, seen, commands>>

SetAside ==
    /\ main = "examine" /\ IsEvent(taken[1])
    /\ taken' = <<>>
    /\ main' = "wait"
    /\ \/ /\ NoRoom
          /\ hciReadPktPool' = hciReadPktPool + 1
          /\ gone' = gone \cup Number(taken[1])
          /\ UNCHANGED hciTempQueue
       \/ /\ ~NoRoom
          /\ hciTempQueue' = hciTempQueue \o taken
          /\ UNCHANGED <<hciReadPktPool, gone>>
    /\ UNCHANGED <<hciReadPktRxQueue, hand, r, abandoned, sent, seen, commands>>

\* Faulty variant: from the head of the one to the head of the other.
MoveListMutant ==
    /\ main = "restore" /\ hciTempQueue # <<>>
    /\ hciReadPktRxQueue' = <<Head(hciTempQueue)>> \o hciReadPktRxQueue
    /\ hciTempQueue' = Tail(hciTempQueue)
    /\ UNCHANGED <<hciReadPktPool, hand, taken, mainVars, commands>>

\* From the tail of the one to the head of the other.
move_list ==
    /\ main = "restore" /\ hciTempQueue # <<>>
    /\ hciReadPktRxQueue' = <<hciTempQueue[Len(hciTempQueue)]>> \o hciReadPktRxQueue
    /\ hciTempQueue' = SubSeq(hciTempQueue, 1, Len(hciTempQueue) - 1)
    /\ UNCHANGED <<hciReadPktPool, hand, taken, mainVars, commands>>

\* Faulty variant: the events set aside are not given back.
ReturnMutant ==
    /\ main = "restore"
    /\ main' = IF hand = <<>> THEN "loop" ELSE "callback"
    /\ UNCHANGED <<listVars, r, abandoned, sent, seen, gone, commands>>

Return ==
    /\ main = "restore" /\ hciTempQueue = <<>>
    /\ main' = IF hand = <<>> THEN "loop" ELSE "callback"
    /\ UNCHANGED <<listVars, r, abandoned, sent, seen, gone, commands>>

\* The handler interrupts the main loop, and not the other way round.
MainLoop ==
    /\ isr = "out"
    /\ \/ Deliver \/ CallbackReturns
       \/ \E opcode \in Opcodes : hci_send_req(opcode)
       \/ free_event_list \/ StartSend \/ send_cmd
       \/ TimeOut \/ Take \/ Conclude \/ SetAside
       \/ move_list \/ Return
    /\ UNCHANGED <<isrVars, controller, emitted, errors>>

HciNext ==
    \/ Emit \/ Answer \/ HardwareError
    \/ hci_tl_lowlevel_isr
    \/ MainLoop

\* The processor runs the handler, and the main loop when there is none.
HciSpec == HciInit /\ [][HciNext]_hciVars
FairHciSpec ==
    HciSpec /\ WF_hciVars(hci_tl_lowlevel_isr) /\ WF_hciVars(MainLoop)

-----------------------------------------------------------------------------
(***************************************************************************)
(* Properties.                                                             *)
(***************************************************************************)
\* Packets in use, wherever they are.
InUse == Len(hciReadPktRxQueue) + Len(hciTempQueue) + Len(hand) + Len(taken)

\* No path through hci_send_req, its failures and the handler that interrupts
\* it loses a packet for good, or frees one twice.
PacketsConserved == hciReadPktPool + InUse = HCI_READ_PACKET_NUM_MAX

\* free_event_list takes from the receive queue without a look at it: whenever
\* too few packets are free, the queue is not empty.
FreeFindsPacket ==
    main = "free" /\ hciReadPktPool < HCI_READ_PACKET_NUM_MAX \div 2 =>
        hciReadPktRxQueue # <<>>

\* All that is on its way to a callback, in the order in which it gets there.
Line == hciTempQueue \o taken \o hciReadPktRxQueue \o controller

\* Callbacks see the events in the controller's order, though hci_send_req
\* takes them out of the queue and puts them back while more arrive; and those
\* they will not see were discarded one by one for want of packets.
EventOrder ==
    LET ahead == {i \in DOMAIN Line : IsEvent(Line[i])}
    IN  /\ \A i, j \in ahead : i < j => Line[i].num < Line[j].num
        /\ {Line[i].num : i \in ahead} = (seen + 1 .. emitted) \ gone

\* Unless the handler once returned for want of a packet, it runs or is about to
\* run while the controller has something, though only an edge calls it.
LineServed == controller # <<>> /\ ~gaveUp => isr # "out" \/ pending

\* So long as no command was given up, the answer hci_send_req finds is the one
\* to its own command, whatever was dropped to make room for it.
OwnAnswer ==
    main = "examine" /\ ~abandoned /\ taken[1].evt = "EVT_CMD_COMPLETE" =>
        taken[1].num = r.num

\* An event is discarded only when most of the packets are in use.
DropNeedsBacklog ==
    [][gone' # gone => InUse > HCI_READ_PACKET_NUM_MAX - HCI_READ_PACKET_NUM_MAX \div 2]_hciVars

\* The handler found the bus in use and does not return.
Hung == isr = "blocked" /\ controller # <<>> /\ hciReadPktPool > 0

\* A command returns, with or without an answer, unless the handler hangs.
CommandReturns == main = "free" ~> main \in {"loop", "callback"} \/ Hung

\* Everything the controller had is delivered or discarded in the end, unless
\* the handler hangs or once gave up.
EverythingServed ==
    \/ <>[](controller = <<>> /\ hciReadPktRxQueue = <<>> /\ hciTempQueue = <<>>)
    \/ <>(gaveUp \/ Hung)
=============================================================================
