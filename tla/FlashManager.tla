---------------------------- MODULE FlashManager ----------------------------
(***************************************************************************)
(* flash_manager.c: the flash memory of the STM32G0B1 as the bootloader    *)
(* drives it.  The unit of addressing is the double word, the unit the HAL *)
(* programs; address 0 is the first double word of the flash.  A double    *)
(* word is either erased, or holds what was programmed into it.            *)
(***************************************************************************)
EXTENDS Integers, Sequences

CONSTANTS
    DW,                \* bytes in a double word
    FLASH_APP_1_ADDR,  \* first double word of bank 2: FULL and APP_1 images
    FLASH_APP_2_ADDR,  \* first double word of APP_2 images
    FLASH_END,         \* first address past the flash
    PageDW,            \* double words in a flash page
    Erased,            \* content of a double word no one has programmed
    Bootloader,        \* content of the bootloader's own double words
    Installed,         \* content of an application installed earlier
    Garbage,           \* a byte no image holds: the output of a failed decryption
    WriteFailsAfter,   \* a failing write has programmed this many double words
    EraseFails,        \* may HAL_FLASHEx_Erase report an error?
    UninitErase        \* page ranges <<from, to>> an uninitialised request may name

ASSUME FlashAssumption ==
    /\ DW \in Nat \ {0}
    /\ PageDW \in Nat \ {0}
    /\ FLASH_APP_1_ADDR \in Nat /\ FLASH_APP_2_ADDR \in Nat /\ FLASH_END \in Nat
    /\ FLASH_APP_1_ADDR < FLASH_APP_2_ADDR /\ FLASH_APP_2_ADDR < FLASH_END
    /\ WriteFailsAfter \subseteq Nat
    /\ EraseFails \in BOOLEAN

\* Double words no session has programmed can be told from those one has.
ASSUME MarksAssumption ==
    \A mark \in {Erased, Bootloader, Installed} : mark \notin Seq(Nat \cup {Garbage})

VARIABLES
    flash,             \* content of every double word
    StartPageAddress,  \* where the next double word is programmed
    locked,            \* HAL_FLASH_Lock: the control register is locked
    running            \* the code the CPU runs

flashVars == <<flash, StartPageAddress, locked>>

Address == 0 .. FLASH_END - 1
Byte    == Nat \cup {Garbage}
Content == {Erased, Bootloader, Installed} \cup Seq(Byte)

\* The applications the host may select, and the value before any selection.
AppType      == {"FULL", "APP_1", "APP_2"}
FlashAppType == AppType \cup {"NONE"}

\* A double word holds one of the marks or the bytes programmed into it.
FlashTypeOK ==
    /\ flash \in [Address -> Content]
    /\ StartPageAddress \in Nat
    /\ locked \in BOOLEAN
    /\ running \in {"bootloader", "HardFault"} \cup FlashAppType

-----------------------------------------------------------------------------
\* The pages Prepare_Application_Memory erases for an application.

Base(app)   == IF app = "APP_2" THEN FLASH_APP_2_ADDR ELSE FLASH_APP_1_ADDR
Limit(app)  == IF app = "APP_1" THEN FLASH_APP_2_ADDR ELSE FLASH_END
Region(app) == Base(app) .. Limit(app) - 1

PageStart == {a \in 0 .. FLASH_END : a % PageDW = 0}

ErasedBetween(from, to) ==
    [a \in Address |-> IF a \in from .. to - 1 THEN Erased ELSE flash[a]]

\* Faulty variant: one page is erased, whatever the application.
EraseRegionMutant(app, ret) == ret /\ flash' = ErasedBetween(Base(app), Base(app) + PageDW)

\* Faulty variant: the number of pages is the one of FULL.
EraseBankMutant(app, ret) == ret /\ flash' = ErasedBetween(Base(app), FLASH_END)

\* The chip erases page by page; on an error the earlier pages stay erased.
EraseRegion(app, ret) ==
    \/ ret /\ flash' = ErasedBetween(Base(app), Limit(app))
    \/ /\ ~ret /\ EraseFails
       /\ \E to \in PageStart \cap Region(app) :
              flash' = ErasedBetween(Base(app), to)

setStartPageAddress(app, ret) ==
    /\ ret = (app \in AppType)
    /\ StartPageAddress' = IF ret THEN Base(app) ELSE StartPageAddress

(***************************************************************************)
(* For an application it does not know, the function falls through its     *)
(* switch and erases with an uninitialised request: any page range.        *)
(***************************************************************************)
Prepare_Application_Memory(app, ret) ==
    /\ locked' = TRUE
    /\ \/ /\ app \in AppType /\ EraseRegion(app, TRUE)
          /\ setStartPageAddress(app, ret)
       \/ /\ app \in AppType /\ EraseRegion(app, FALSE)
          /\ ~ret /\ UNCHANGED StartPageAddress
       \/ /\ app \notin AppType
          /\ \E pages \in UninitErase : flash' = ErasedBetween(pages[1], pages[2])
          /\ setStartPageAddress(app, ret)

-----------------------------------------------------------------------------
\* The flash bytes as the 64-bit words of flash_buff; the last may be short.
Dwords(bytes) ==
    [i \in 1 .. (Len(bytes) + DW - 1) \div DW |->
        SubSeq(bytes, (i - 1) * DW + 1,
               IF i * DW < Len(bytes) THEN i * DW ELSE Len(bytes))]

\* The chip programs a non-zero double word only over an erased one.
CanProgram(n) ==
    \A a \in StartPageAddress .. StartPageAddress + n - 1 :
        a \in Address /\ flash[a] = Erased

Programmed(dwords, n) ==
    [a \in Address |->
        IF a \in StartPageAddress .. StartPageAddress + n - 1
        THEN dwords[a - StartPageAddress + 1] ELSE flash[a]]

\* Faulty variant: the address moves only when the whole window was taken.
WriteMutant(dwords, ret) ==
    \/ /\ ret /\ CanProgram(Len(dwords))
       /\ flash' = Programmed(dwords, Len(dwords))
       /\ StartPageAddress' = StartPageAddress + Len(dwords)
       /\ locked' = TRUE
    \/ /\ ~ret
       /\ \E done \in 0 .. Len(dwords) - 1 :
              /\ CanProgram(done)
              /\ done \in WriteFailsAfter \/ ~CanProgram(done + 1)
              /\ flash' = Programmed(dwords, done)
       /\ UNCHANGED StartPageAddress
       /\ locked' = FALSE

(***************************************************************************)
(* A write stops at the first double word the chip refuses.  The address   *)
(* has moved past those it took, and the early return leaves the control   *)
(* register unlocked.                                                      *)
(***************************************************************************)
Write_FW_to_flash(dwords, ret) ==
    \/ /\ ret /\ CanProgram(Len(dwords))
       /\ flash' = Programmed(dwords, Len(dwords))
       /\ StartPageAddress' = StartPageAddress + Len(dwords)
       /\ locked' = TRUE
    \/ /\ ~ret
       /\ \E done \in 0 .. Len(dwords) - 1 :
              /\ CanProgram(done)
              /\ done \in WriteFailsAfter \/ ~CanProgram(done + 1)
              /\ flash' = Programmed(dwords, done)
              /\ StartPageAddress' = StartPageAddress + done
       /\ locked' = FALSE

\* Jumps through the vector table of the image, whatever it holds.
go2App(app) == running' = app
=============================================================================
