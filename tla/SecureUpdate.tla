---------------------------- MODULE SecureUpdate ----------------------------
(***************************************************************************)
(* A secure update from end to end: send_new_fw in secure mode and the     *)
(* secure half of read_response over the link and the device of Upload.    *)
(*                                                                         *)
(* Every response carries random bytes (rand), which both sides add to     *)
(* their IV once per packet.  A response is encrypted with the IV the      *)
(* device has, and can be read when the GUI has the same.  A response in   *)
(* the raw format is never readable.                                       *)
(*                                                                         *)
(* ACK_CMD and NAK_CMD are 0x0 and 0x1, and read_response looks at the     *)
(* high half of that byte: a refusal that can be read is read as an        *)
(* acknowledgement.  The branch of send_new_fw that goes back a window is  *)
(* therefore never taken, and is not here.                                 *)
(***************************************************************************)
EXTENDS Upload, FiniteSets

VARIABLES
    gui_iv,        \* iv
    gui_rand,      \* rand_IV
    msg_tampered

secureVars   == <<gui_iv, gui_rand, msg_tampered>>
allSecureVars == <<allVars, secureVars>>

\* The secure GUI's variables have their types; the chunk number stays inside
\* the image though the loop over the chunks and the wait test it separately.
SecureTypeOK ==
    /\ gui \in GuiPhase \cup {"INIT_CRYPTO_PHASE", "SENDING_CRYPTO_DATA", "NAK_SENT"}
    /\ cont_chunck \in 0 .. num_chunks
    /\ \A i \in DOMAIN events :
          \/ events[i] \in {ConnComplete, DisconnComplete}
          \/ events[i].packet \in Packet
    /\ \A i \in DOMAIN notes : notes[i] \in Response
    /\ gui_iv \in Iv /\ gui_rand \in Iv
    /\ is_ack /\ msg_tampered \in BOOLEAN

SecureInit ==
    /\ UploadInit
    /\ gui_iv = 0 /\ gui_rand = 0
    /\ msg_tampered = FALSE

-----------------------------------------------------------------------------
Readable(note) == note.type = "WRITE_SECURE_FLASH_PACKET_RESPONSE" /\ note.iv = gui_iv

\* An unreadable response leaves is_ack and rand_IV what they were.
read_response ==
    /\ notes # <<>>
    /\ notes' = Tail(notes)
    /\ ack_rcv' = TRUE
    /\ \/ /\ Readable(Head(notes))
          /\ msg_tampered' = FALSE /\ is_ack' = TRUE
          /\ gui_rand' = Head(notes).rand
          /\ UNCHANGED used
       \/ /\ \/ ~Readable(Head(notes)) /\ UNCHANGED used
             \/ Altered
          /\ msg_tampered' = TRUE
          /\ UNCHANGED <<is_ack, gui_rand>>
    /\ UNCHANGED <<deviceVars, link, events, gui, formVars, loopVars, userVars, gui_iv>>

\* What arrives of a packet: the packet, or one with another number, or one
\* whose text decrypts to garbage, as under another IV.
Arrives(p) ==
    \/ Write(p) /\ UNCHANGED used
    \/ Write([p EXCEPT !.num = (@ + 1) % SECURE_NUM_CUMULATIVE_ACK]) /\ Altered
    \/ Write([p EXCEPT !.iv = (@ + 1) % IvMod]) /\ Altered

\* Faulty variant: the GUI waits at the end of whole windows only.
SendSecureChunkMutant ==
    /\ gui = "SENDING_CRYPTO_DATA"
    /\ gui_iv' = (gui_iv + gui_rand) % IvMod
    /\ \/ /\ Arrives([cmd |-> "WRITE_SECURE_FLASH_PACKET", iv |-> gui_iv',
                      num |-> cont_chunck % SECURE_NUM_CUMULATIVE_ACK,
                      data |-> Chunk(cont_chunck, SECURE_PAYLOAD_BYTES)])
          /\ cont_chunck' = cont_chunck + 1
          /\ gui' = IF cont_chunck' % SECURE_NUM_CUMULATIVE_ACK = 0
                    THEN "WAIT_ACK" ELSE "SENDING_CRYPTO_DATA"
          /\ UNCHANGED <<formVars, nack_loop, ackVars, userVars>>
       \/ ~link /\ Raise
    /\ UNCHANGED <<deviceVars, gui_rand, msg_tampered>>

\* The IV moves before the write, also before one that raises.
SendSecureChunk ==
    /\ gui = "SENDING_CRYPTO_DATA"
    /\ gui_iv' = (gui_iv + gui_rand) % IvMod
    /\ \/ /\ Arrives([cmd |-> "WRITE_SECURE_FLASH_PACKET", iv |-> gui_iv',
                      num |-> cont_chunck % SECURE_NUM_CUMULATIVE_ACK,
                      data |-> Chunk(cont_chunck, SECURE_PAYLOAD_BYTES)])
          /\ cont_chunck' = cont_chunck + 1
          /\ gui' = IF cont_chunck' % SECURE_NUM_CUMULATIVE_ACK = 0
                       \/ cont_chunck' = num_chunks
                    THEN "WAIT_ACK" ELSE "SENDING_CRYPTO_DATA"
          /\ UNCHANGED <<formVars, nack_loop, ackVars, userVars>>
       \/ ~link /\ Raise
    /\ UNCHANGED <<deviceVars, gui_rand, msg_tampered>>

SendNak ==
    /\ gui = "WAIT_ACK" /\ msg_tampered
    /\ \/ /\ Write([cmd |-> "MASTER_NAK"])
          /\ gui' = "NAK_SENT"
          /\ UNCHANGED <<formVars, loopVars, ackVars, userVars, used>>
       \/ ~link /\ Raise
    /\ UNCHANGED <<deviceVars, secureVars>>

\* After the await of that write: a response read meanwhile is forgotten.
NakSent ==
    /\ gui = "NAK_SENT"
    /\ msg_tampered' = FALSE /\ ack_rcv' = FALSE
    /\ gui' = "WAIT_ACK"
    /\ UNCHANGED <<deviceVars, link, events, notes, formVars, loopVars, is_ack,
                   userVars, used, gui_iv, gui_rand>>

\* restore_crypto_utils sets the IV back, and not rand_IV or msg_tampered.
FinishSecure ==
    /\ Finish
    /\ gui_iv' = IF gui' = "IDLE" THEN 0 ELSE gui_iv
    /\ UNCHANGED <<gui_rand, msg_tampered>>

RestartSecureGui ==
    /\ RestartGui
    /\ gui_iv' = 0 /\ gui_rand' = 0 /\ msg_tampered' = FALSE

send_new_fw ==
    \/ SendRequest("INIT_CRYPTO_PHASE", "START_SECURE_FLASH_MODE") /\ UNCHANGED secureVars
    \/ GetResponse("SENDING_CRYPTO_DATA") /\ UNCHANGED secureVars
    \/ SendSecureChunk
    \/ ~msg_tampered /\ WindowAcked("SENDING_CRYPTO_DATA") /\ UNCHANGED secureVars
    \/ SendNak \/ NakSent
    \/ FinishSecure

SecureNext ==
    \/ (BlueNRG_Process \/ DropEvent \/ DeviceReset \/ LinkDrop) /\ UNCHANGED secureVars
    \/ read_response
    \/ \E app \in Selections, total \in Totals :
          StartUpload(app, total, "INIT_CRYPTO_PHASE") /\ UNCHANGED secureVars
    \/ send_new_fw
    \/ RestartSecureGui

\* The fairness of RawUpdate, for the same loops.
SecureFairness ==
    /\ WF_allSecureVars(BlueNRG_Process /\ UNCHANGED secureVars)
    /\ WF_allSecureVars(read_response)
    /\ WF_allSecureVars(send_new_fw)

SecureSpec == SecureInit /\ [][SecureNext]_allSecureVars
FairSecureSpec == SecureSpec /\ SecureFairness

-----------------------------------------------------------------------------
(***************************************************************************)
(* Properties of the two sides together.                                   *)
(***************************************************************************)
IsSecure(e) == e.evt = "EVT_BLUE_GATT_ATTRIBUTE_MODIFIED"
               /\ e.packet.cmd = "WRITE_SECURE_FLASH_PACKET"
InFlight == Cardinality({i \in DOMAIN events : IsSecure(events[i])})

\* A GUI that could read the last response is in the device's session.
Heard == gui = "SENDING_CRYPTO_DATA" /\ ~msg_tampered /\ link /\ InBootloader

\* The two IVs, each kept by one side alone, differ by the packets on their way
\* and those that were lost, whatever was refused, altered, asked for again
\* with MASTER_NAK or left behind by an earlier session.  Left out is noise or
\* loss in a later session: its GUI starts with the rand_IV of the one before,
\* which may happen to be the device's new one, or to make up for a lost packet.
\* In a first session without noise it holds for all random bytes; otherwise IVs
\* that went apart may meet again by chance, which the random bytes of the runs
\* exclude.
IvInStep ==
    Heard /\ (used.sessions = 1 \/ used.noise + used.lost = 0) =>
        /\ connection_status \in {"RECEVEING_SECURE_FW", "CLOSING_CONNECTION"}
        /\ connection_status = "RECEVEING_SECURE_FW" =>
              /\ gui_rand = rand_IV
              /\ \E lost \in 0 .. used.lost :
                    gui_iv = (IV + (InFlight + lost) * rand_IV) % IvMod

\* The four bits of a packet's number and the device's counter stay the same
\* modulo a window, so that the packet after a refused window is a first one.
NumbersInStep ==
    gui \in {"SENDING_CRYPTO_DATA", "WAIT_ACK", "NAK_SENT"} /\ link /\ InBootloader
        /\ connection_status = "RECEVEING_SECURE_FW" =>
        \E lost \in 0 .. used.lost :
            (cont_chunck - InFlight - lost - count_pck) % SECURE_NUM_CUMULATIVE_ACK = 0

Bytes(total) == [i \in 1 .. total * SECURE_PAYLOAD_BYTES |-> i - 1]

\* A complete secure image is as long as the one that was sent, and each byte
\* of it is in its place or is garbage: the GUI never sends a refused window
\* again, and no image can be completed without it.
SecureOrder ==
    InBootloader /\ connection_status = "CLOSING_CONNECTION" =>
        LET image == Dwords(Bytes(total_pck))
        IN  \A i \in DOMAIN image :
               LET stored == flash[Base(AppToUpdate) + i - 1]
               IN  /\ stored \notin {Erased, Bootloader, Installed}
                   /\ DOMAIN stored = DOMAIN image[i]
                   /\ \A j \in DOMAIN stored : stored[j] \in {image[i][j], Garbage}

\* An upload whose request was answered ends in the application, unless a
\* message was altered or lost, either side was interrupted, or a write failed
\* (which leaves the flash unlocked).
SecureUploadRuns ==
    Heard /\ cont_chunck = 0 ~>
        running \in AppType \/ Interrupted \/ used.noise > 0 \/ ~locked

-----------------------------------------------------------------------------
\* "used by both master and slave to modify their IV in synchrony"
\* (README.md:41): the IVs are in step whenever nothing was altered or lost.
InSynchrony ==
    gui = "SENDING_CRYPTO_DATA" /\ link /\ InBootloader
        /\ connection_status = "RECEVEING_SECURE_FW" =>
        gui_iv = (IV + InFlight * rand_IV) % IvMod
=============================================================================
