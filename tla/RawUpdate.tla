------------------------------ MODULE RawUpdate ------------------------------
(***************************************************************************)
(* A raw update from end to end: send_new_fw in raw mode and read_response *)
(* over the link and the device of Upload.                                 *)
(***************************************************************************)
EXTENDS Upload

CONSTANT NAK_LIMIT  \* refused windows in a row before the GUI asks the user

ASSUME RawAssumption == NAK_LIMIT \in Nat \ {0}

\* The GUI's variables have their types: its chunk number never passes the
\* image, and its count of refusals never passes the limit where it asks.
UpdateTypeOK ==
    /\ link \in BOOLEAN
    /\ \A i \in DOMAIN events :
          \/ events[i] \in {ConnComplete, DisconnComplete}
          \/ events[i].packet \in Packet
    /\ \A i \in DOMAIN notes : notes[i].type = "WRITE_FLASH_PACKET_RESPONSE"
    /\ gui \in GuiPhase \cup {"INIT_PHASE", "SENDING_DATA"}
    /\ selected_app \in Selections \cup {"UNSELECTED"}
    /\ num_chunks \in Totals \cup {0}
    /\ cont_chunck \in Int /\ cont_chunck <= num_chunks
    /\ nack_loop \in 0 .. NAK_LIMIT
    /\ ack_rcv \in BOOLEAN /\ is_ack \in BOOLEAN
    /\ progress_bar \in BOOLEAN
    /\ report \in {"none", "Success", "Failed"}

-----------------------------------------------------------------------------
read_response ==
    /\ notes # <<>>
    /\ notes' = Tail(notes)
    /\ is_ack' = Head(notes).ack
    /\ ack_rcv' = TRUE
    /\ UNCHANGED <<deviceVars, link, events, gui, formVars, loopVars, userVars, used>>

\* Faulty variant: the GUI waits for an answer only after the last packet.
SendChunkMutant ==
    /\ gui = "SENDING_DATA"
    /\ \/ /\ link /\ cont_chunck >= 0
          /\ Write([cmd |-> "WRITE_FLASH_PACKET", num |-> cont_chunck, ok |-> TRUE,
                    data |-> Chunk(cont_chunck, PAYLOAD_LEN)])
          /\ cont_chunck' = cont_chunck + 1
          /\ gui' = IF cont_chunck' = num_chunks THEN "WAIT_ACK" ELSE "SENDING_DATA"
          /\ UNCHANGED <<formVars, nack_loop, ackVars, userVars, used>>
       \/ (~link \/ cont_chunck < 0) /\ Raise
    /\ UNCHANGED deviceVars

\* A negative chunk number has no bytes either.
SendChunk ==
    /\ gui = "SENDING_DATA"
    /\ \/ /\ link /\ cont_chunck >= 0
          /\ \E ok \in BOOLEAN :
                /\ IF ok THEN UNCHANGED used ELSE Altered
                /\ Write([cmd |-> "WRITE_FLASH_PACKET", num |-> cont_chunck, ok |-> ok,
                          data |-> Chunk(cont_chunck, PAYLOAD_LEN)])
          /\ cont_chunck' = cont_chunck + 1
          /\ gui' = IF cont_chunck' % RAW_NUM_CUMULATIVE_ACK = 0
                       \/ cont_chunck' = num_chunks
                    THEN "WAIT_ACK" ELSE "SENDING_DATA"
          /\ UNCHANGED <<formVars, nack_loop, ackVars, userVars>>
       \/ (~link \/ cont_chunck < 0) /\ Raise
    /\ UNCHANGED deviceVars

\* Faulty variant: the refusals are counted but never limited.
WindowRefusedMutant ==
    /\ gui = "WAIT_ACK" /\ ack_rcv /\ ~is_ack
    /\ ack_rcv' = FALSE
    /\ cont_chunck' = cont_chunck - RAW_NUM_CUMULATIVE_ACK
    /\ nack_loop' = nack_loop + 1 /\ gui' = "SENDING_DATA"
    /\ UNCHANGED <<deviceVars, link, events, notes, formVars, is_ack, userVars, used>>

\* At the limit the user may go on (Ignore) or stop (Abort).
WindowRefused ==
    /\ gui = "WAIT_ACK" /\ ack_rcv /\ ~is_ack
    /\ ack_rcv' = FALSE
    /\ cont_chunck' = cont_chunck - RAW_NUM_CUMULATIVE_ACK
    /\ \/ /\ nack_loop + 1 < NAK_LIMIT
          /\ nack_loop' = nack_loop + 1 /\ gui' = "SENDING_DATA"
       \/ /\ nack_loop + 1 = NAK_LIMIT
          /\ \/ nack_loop' = 0 /\ gui' = "SENDING_DATA"
             \/ nack_loop' = NAK_LIMIT /\ gui' = "CLOSING_PHASE"
    /\ UNCHANGED <<deviceVars, link, events, notes, formVars, is_ack, userVars, used>>

send_new_fw ==
    \/ SendRequest("INIT_PHASE", "START_FLASH_MODE")
    \/ GetResponse("SENDING_DATA")
    \/ SendChunk
    \/ WindowAcked("SENDING_DATA") \/ WindowRefused
    \/ Finish

UpdateNext ==
    \/ BlueNRG_Process \/ DropEvent \/ DeviceReset
    \/ LinkDrop
    \/ read_response
    \/ \E app \in Selections, total \in Totals : StartUpload(app, total, "INIT_PHASE")
    \/ send_new_fw
    \/ RestartGui

(***************************************************************************)
(* main.c loops without a wait, and the event loop of the GUI resumes a    *)
(* coroutine whose sleep is over: each runs again and again.  Nothing is   *)
(* asked of the user, of the link, or of a reset.                          *)
(***************************************************************************)
UpdateFairness ==
    /\ WF_allVars(BlueNRG_Process)
    /\ WF_allVars(read_response)
    /\ WF_allVars(send_new_fw)

UpdateSpec == UploadInit /\ [][UpdateNext]_allVars
FairUpdateSpec == UpdateSpec /\ UpdateFairness

-----------------------------------------------------------------------------
(***************************************************************************)
(* Properties of the two sides together.                                   *)
(***************************************************************************)
\* A refusal the GUI has not acted on yet.
RefusalPending ==
    \/ \E i \in DOMAIN notes : ~notes[i].ack
    \/ ack_rcv /\ ~is_ack

\* The GUI numbers packets with one counter and the device with another, and
\* each sets its own back on a refusal.  They differ by the writes still on
\* their way and by a refusal one side has not seen; once something was lost,
\* the device is behind, but never by more than a window.
LockStep ==
    gui \in {"SENDING_DATA", "WAIT_ACK"} /\ link /\ InBootloader /\ Receiving =>
        LET ahead == cont_chunck - Len(events)
                     - (IF RefusalPending THEN RAW_NUM_CUMULATIVE_ACK ELSE 0)
        IN  (ahead - count_pck) % CountMod
                    \in 0 .. (IF used.lost = 0 THEN 0 ELSE RAW_NUM_CUMULATIVE_ACK)

\* An acknowledged image is a stored image: when the GUI has had its last
\* window acknowledged, the device is about to jump, to what the GUI sent.
AckedMeansStored ==
    gui = "CLOSING_PHASE" /\ link /\ is_ack /\ num_chunks > 0 /\ cont_chunck = num_chunks =>
        /\ InBootloader /\ connection_status = "CLOSING_CONNECTION"
        /\ AppToUpdate = selected_app /\ total_pck = num_chunks
        /\ ImageIntact

\* What the controller and the pool of event packets must hold for the main
\* loop, however slow it is: a window, and the events around it.
FewEvents == Len(events) <= RAW_NUM_CUMULATIVE_ACK + 2

\* An accepted upload no one interrupts ends in the application.
UploadRuns == gui = "SENDING_DATA" ~> running \in AppType \/ Interrupted
=============================================================================
