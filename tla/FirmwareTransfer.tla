-------------------------- MODULE FirmwareTransfer --------------------------
(***************************************************************************)
(* What the device promises of an update, with no packets, windows,        *)
(* acknowledgements or counters: an image is opened on erased pages, is    *)
(* stored there from its first byte on, is run only when it is complete,   *)
(* and is erased when it is abandoned.                                     *)
(***************************************************************************)
EXTENDS Integers, Sequences

CONSTANTS
    Apps,          \* applications an image may be for
    Counts,        \* numbers of packets
    First(_),      \* the first address of an application
    End(_),        \* the address behind its last
    Image(_),      \* the double words of so many packets
    Erased,        \* content of an erased double word
    Boot           \* what may run after a reset

VARIABLES
    flash,    \* content of every double word
    session,  \* the image in transfer: none, open or complete
    app,      \* the application it is for
    total,    \* the number of its packets
    stored,   \* the number of packets stored
    running   \* the program that runs

transferVars == <<flash, session, app, total, stored, running>>

\* The flash, but for the pages of an application, which hold so many packets.
Holding(a, n) ==
    [x \in DOMAIN flash |->
        IF x \notin First(a) .. End(a) - 1 THEN flash[x]
        ELSE IF x - First(a) < Len(Image(n)) THEN Image(n)[x - First(a) + 1]
        ELSE Erased]

None == session = "none" /\ app = "NONE" /\ total = 0 /\ stored = 0

TransferInit == None /\ running = "bootloader"

Begin(a) ==
    /\ running = "bootloader" /\ None
    /\ flash' = Holding(a, 0)
    /\ session' = "open" /\ app' = a /\ total' \in Counts /\ stored' = 0
    /\ UNCHANGED running

\* A request that is refused has erased the pages all the same.
Refuse(a) ==
    /\ running = "bootloader" /\ None
    /\ flash' = Holding(a, 0)
    /\ UNCHANGED <<session, app, total, stored, running>>

\* More packets behind those there are; with the last the image is complete.
Store ==
    /\ running = "bootloader" /\ session = "open"
    /\ stored' > stored
    /\ flash' = Holding(app, stored')
    /\ session' = IF stored' = total THEN "complete" ELSE "open"
    /\ UNCHANGED <<app, total, running>>

\* An image of no packets is complete and not to be run.
CloseEmpty ==
    /\ running = "bootloader" /\ session = "open" /\ total = 0 /\ stored = 0
    /\ session' = "complete"
    /\ UNCHANGED <<flash, app, total, stored, running>>

Abandon ==
    /\ running = "bootloader"
    /\ session = "open" \/ (session = "complete" /\ total = 0)
    /\ flash' = Holding(app, 0)
    /\ None'
    /\ UNCHANGED running

Run ==
    /\ running = "bootloader" /\ session = "complete" /\ total # 0
    /\ flash = Holding(app, total)
    /\ running' = app
    /\ None'
    /\ UNCHANGED flash

\* What was stored stays, complete or not, and may be what the pins start.
PowerCycle ==
    /\ None' /\ running' \in Boot
    /\ UNCHANGED flash

TransferNext ==
    \/ \E a \in Apps : Begin(a) \/ Refuse(a)
    \/ Store \/ CloseEmpty \/ Abandon \/ Run \/ PowerCycle

TransferSpec == TransferInit /\ [][TransferNext]_transferVars
=============================================================================
