------------------------------- MODULE Upload -------------------------------
(***************************************************************************)
(* What a raw and a secure update share, from end to end: the radio link,  *)
(* the device of Peripheral behind it, and the skeleton of send_new_fw in  *)
(* FW_Update_GUI.py.  The GUI is one coroutine (send_new_fw) and one       *)
(* callback (read_response) on one event loop; a step runs to the next     *)
(* await or to the next time a global of the other is read.  Writes reach  *)
(* the device as events, in order, together with the events of connection  *)
(* and disconnection.  The device's notifications reach the GUI in order.  *)
(* RawUpdate and SecureUpdate add what each does with a chunk and with a   *)
(* response.                                                               *)
(***************************************************************************)
EXTENDS Peripheral

CONSTANTS
    MaxSessions,   \* bound: uploads the user starts
    MaxLost,       \* bound: events and notifications dropped on the way
    MaxNoise,      \* bound: packets that arrive altered
    NoisyTotals,   \* bound: the images whose packets may arrive altered
    MaxDrops,      \* bound: losses of the link
    MaxResets,     \* bound: resets of the device
    MaxRestarts,   \* bound: times the user restarts the GUI
    Selections     \* radio buttons the user leaves pressed

ASSUME UploadAssumption ==
    /\ {MaxSessions, MaxLost, MaxNoise, MaxDrops, MaxResets, MaxRestarts}
          \subseteq Nat
    /\ NoisyTotals \subseteq Totals
    /\ Selections \subseteq AppType \cup {"UNSELECTED"}

VARIABLES
    link,          \* is there a connection between the two radios?
    events,        \* events the device's main loop has not processed
    notes,         \* notifications read_response has not seen
    gui,           \* where send_new_fw is
    selected_app, num_chunks, cont_chunck, nack_loop,
    ack_rcv, is_ack,        \* the globals the coroutine and the callback share
    progress_bar,           \* does the bar stand at 100?
    report,                 \* what upload_finished told the user last
    used                    \* how much of each bound is spent

deviceVars == <<flashVars, running, handlerVars, radioVars>>
ackVars    == <<ack_rcv, is_ack>>
formVars   == <<selected_app, num_chunks>>
loopVars   == <<cont_chunck, nack_loop>>
userVars   == <<progress_bar, report>>
guiVars    == <<gui, formVars, loopVars, ackVars, userVars>>
allVars    == <<deviceVars, link, events, notes, guiVars, used>>

ConnComplete    == [evt |-> "EVT_LE_CONN_COMPLETE"]
DisconnComplete == [evt |-> "EVT_DISCONN_COMPLETE"]
Modified(p)     == [evt |-> "EVT_BLUE_GATT_ATTRIBUTE_MODIFIED", packet |-> p]

GuiPhase == {"IDLE", "WAIT_RESPONSE", "WAIT_ACK", "CLOSING_PHASE", "RAISED"}

UploadInit ==
    /\ Init
    /\ link = FALSE /\ events = <<>> /\ notes = <<>>
    /\ gui = "IDLE"
    /\ selected_app = "UNSELECTED" /\ num_chunks = 0
    /\ cont_chunck = 0 /\ nack_loop = 0
    /\ ack_rcv = FALSE /\ is_ack = TRUE
    /\ progress_bar = FALSE /\ report = "none"
    /\ used = [sessions |-> 0, lost |-> 0, noise |-> 0, drops |-> 0,
               resets |-> 0, restarts |-> 0]

Spend(what, bound) ==
    used[what] < bound /\ used' = [used EXCEPT ![what] = @ + 1]

Altered == num_chunks \in NoisyTotals /\ Spend("noise", MaxNoise)

-----------------------------------------------------------------------------
\* The radio link.

Connectable == advertising /\ ~link /\ \A i \in DOMAIN events : events[i] # ConnComplete

\* The link ends, whoever ends it: the device gets an event, and nothing more
\* is notified.
Hangup ==
    /\ link' = FALSE
    /\ events' = IF link THEN Append(events, DisconnComplete) ELSE events
    /\ notes' = <<>>

LinkDrop ==
    /\ link /\ Spend("drops", MaxDrops)
    /\ link' = FALSE
    /\ events' = Append(events, DisconnComplete)
    /\ notes' \in {notes, <<>>}
    /\ UNCHANGED <<deviceVars, guiVars>>

\* A write without response.  On a lost connection bleak raises instead, and
\* leaving the "async with" closes the connection.
Write(p) ==
    /\ link
    /\ events' = Append(events, Modified(p))
    /\ UNCHANGED <<link, notes>>

Raise ==
    /\ gui' = "RAISED"
    /\ Hangup
    /\ UNCHANGED <<formVars, loopVars, ackVars, userVars, used>>

-----------------------------------------------------------------------------
\* The device: one event of the queue is one callback of the main loop.

Notify ==
    \/ notes' = (IF link THEN notes \o tx' ELSE notes) /\ UNCHANGED used
    \/ tx' # <<>> /\ Spend("lost", MaxLost) /\ notes' = notes

HCI_Event_CB ==
    /\ events # <<>>
    /\ events' = Tail(events)
    /\ LET e == Head(events) IN
       \/ e.evt = "EVT_LE_CONN_COMPLETE" /\ GAP_ConnectionComplete_CB
       \/ e.evt = "EVT_DISCONN_COMPLETE" /\ GAP_DisconnectionComplete_CB
       \/ e.evt = "EVT_BLUE_GATT_ATTRIBUTE_MODIFIED" /\ Attribute_Modified_CB(e.packet)
    /\ Notify
    /\ UNCHANGED <<link, guiVars>>

BlueNRG_Process ==
    \/ HCI_Event_CB
    \/ Enable_Advertising /\ UNCHANGED <<link, events, notes, guiVars, used>>

\* The pool of event packets ran low: free_event_list drops the oldest.
DropEvent ==
    /\ events # <<>> /\ running = "bootloader"
    /\ Spend("lost", MaxLost)
    /\ events' = Tail(events)
    /\ IF Head(events) = ConnComplete THEN ConnectionMissed ELSE UNCHANGED deviceVars
    /\ UNCHANGED <<link, notes, guiVars>>

DeviceReset ==
    /\ Spend("resets", MaxResets)
    /\ Reset
    /\ link' = FALSE /\ events' = <<>> /\ notes' \in {notes, <<>>}
    /\ UNCHANGED guiVars

-----------------------------------------------------------------------------
\* The GUI.

(***************************************************************************)
(* upload_firmware, the connection and start_notify.  The GUI's own check  *)
(* of the size is never made: it compares the id of a button, a number,    *)
(* with members of AppSelected, an Enum, and they are never equal.         *)
(***************************************************************************)
StartUpload(app, total, phase) ==
    /\ gui = "IDLE" /\ Connectable
    /\ Spend("sessions", MaxSessions)
    /\ link' = TRUE
    /\ events' = Append(events, ConnComplete)
    /\ gui' = phase
    /\ selected_app' = app /\ num_chunks' = total
    /\ cont_chunck' = 0 /\ nack_loop' = 0
    /\ UNCHANGED <<deviceVars, notes, ackVars, userVars>>

\* -1, the id of no button, has no byte: to_bytes raises.
SendRequest(phase, cmd) ==
    /\ gui = phase
    /\ \/ /\ link /\ selected_app # "UNSELECTED"
          /\ Write([cmd |-> cmd, app |-> selected_app, total |-> num_chunks, ok |-> TRUE])
          /\ gui' = "WAIT_RESPONSE"
          /\ UNCHANGED <<formVars, loopVars, ackVars, userVars, used>>
       \/ (~link \/ selected_app = "UNSELECTED") /\ Raise
    /\ UNCHANGED deviceVars

GetResponse(sending) ==
    /\ gui = "WAIT_RESPONSE" /\ ack_rcv
    /\ ack_rcv' = FALSE
    /\ gui' = IF ~is_ack \/ num_chunks = 0 THEN "CLOSING_PHASE" ELSE sending
    /\ UNCHANGED <<deviceVars, link, events, notes, formVars, loopVars, is_ack,
                   userVars, used>>

WindowAcked(sending) ==
    /\ gui = "WAIT_ACK" /\ ack_rcv /\ is_ack
    /\ ack_rcv' = FALSE
    /\ nack_loop' = 0
    /\ progress_bar' = (cont_chunck = num_chunks)
    /\ gui' = IF cont_chunck < num_chunks THEN sending ELSE "CLOSING_PHASE"
    /\ UNCHANGED <<deviceVars, link, events, notes, formVars, cont_chunck, is_ack,
                   report, used>>

\* stop_notify, disconnect and upload_finished.
Finish ==
    /\ gui = "CLOSING_PHASE"
    /\ \/ /\ link /\ Hangup
          /\ gui' = "IDLE"
          /\ report' = IF progress_bar THEN "Success" ELSE "Failed"
          /\ UNCHANGED <<formVars, loopVars, ackVars, progress_bar, used>>
       \/ ~link /\ Raise
    /\ UNCHANGED deviceVars

\* The user closes the program and starts it again: the only way out of an
\* exception, after which the upload button stays disabled, and of a wait.
RestartGui ==
    /\ gui # "IDLE"
    /\ Spend("restarts", MaxRestarts)
    /\ Hangup
    /\ gui' = "IDLE"
    /\ ack_rcv' = FALSE /\ is_ack' = TRUE
    /\ progress_bar' = FALSE /\ report' = "none"
    /\ UNCHANGED <<deviceVars, formVars, loopVars>>

-----------------------------------------------------------------------------
(***************************************************************************)
(* Properties an upload of either kind has.                                *)
(***************************************************************************)
Active == gui \notin {"IDLE", "RAISED"}

\* The link dropped, a message was lost, or either side was restarted.
Interrupted == used.drops + used.lost + used.resets + used.restarts > 0

\* An upload the user started comes to an end, however many windows are
\* refused, so long as nothing interrupts it.
UploadEnds == Active ~> ~Active \/ Interrupted

\* "Firmware upload complete" (FW_Update_GUI.py:278) is said of an upload that
\* completed: the device has closed the session on the image that was sent.
SuccessIsTrue ==
    [][gui = "CLOSING_PHASE" /\ gui' = "IDLE" /\ report' = "Success" =>
           /\ InBootloader /\ connection_status = "CLOSING_CONNECTION"
           /\ AppToUpdate = selected_app /\ total_pck = num_chunks]_allVars

\* Whatever became of the last session, the device accepts connections again,
\* or runs an application; only a lost event, the disconnection, prevents it.
ServesAgain == []<>(advertising \/ link \/ running \in AppType \/ used.lost > 0)
=============================================================================
