----------------------------- MODULE RawProofs -----------------------------
(***************************************************************************)
(* What the flash holds, for every value of the constants: the image that  *)
(* was sent, when images are raw and of whole windows.                     *)
(***************************************************************************)
EXTENDS PeripheralProofs

USE DEF InBootloader, Receiving, Complete

-----------------------------------------------------------------------------
(***************************************************************************)
(* Raw images of whole windows.  What a window leaves behind is told by    *)
(* the packet counter alone: the packets before the window it is in are in *)
(* flash, at their place, and those of the window are in the buffer, if    *)
(* none of them was refused.                                               *)
(***************************************************************************)
Window   == RAW_NUM_CUMULATIVE_ACK
PacketDW == PAYLOAD_LEN \div DW

\* The instances meant: raw commands only, images of whole windows that have
\* room in their pages, packets of whole double words, and writes that fail
\* before the first double word if they fail.
RawImages ==
    /\ Commands \subseteq {"START_FLASH_MODE", "WRITE_FLASH_PACKET"}
    /\ \A t \in Totals : t # 0 /\ t % Window = 0
    /\ \A t \in Totals, app \in Apps :
          checkFWSize(t, PAYLOAD_LEN, app) =>
              t * PAYLOAD_LEN <= (Limit(app) - Base(app)) * DW
    /\ PAYLOAD_LEN % DW = 0
    /\ WriteFailsAfter \subseteq {0}

\* The bytes of an image from one on, and its double words.
Bytes(from, n) == [i \in 1 .. n |-> from + i - 1]
Word(i)        == Bytes(i * DW, DW)

Stored(app, n)     == \A i \in 0 .. n - 1 : flash[Base(app) + i] = Word(i)
WindowStart(count) == count - (count % Window)

RawSession ==
    /\ AppToUpdate \in AppType
    /\ total_pck % Window = 0
    /\ total_pck * PAYLOAD_LEN <= (Limit(AppToUpdate) - Base(AppToUpdate)) * DW
    /\ count_pck < total_pck
    /\ StartPageAddress = Base(AppToUpdate) + WindowStart(count_pck) * PacketDW
    /\ Stored(AppToUpdate, WindowStart(count_pck) * PacketDW)
    /\ next_ack => flash_buff = Bytes(WindowStart(count_pck) * PAYLOAD_LEN,
                                      (count_pck % Window) * PAYLOAD_LEN)

RawClosed ==
    /\ AppToUpdate \in AppType
    /\ total_pck # 0 /\ count_pck = total_pck
    /\ StartPageAddress = Base(AppToUpdate) + total_pck * PacketDW
    /\ Stored(AppToUpdate, total_pck * PacketDW)

RawInv ==
    /\ running # "HardFault"
    /\ ~InBootloader => connection_status = "IDLE"
    /\ byte_pos = 0
    /\ connection_status # "RECEVEING_SECURE_FW"
    /\ InBootloader /\ connection_status = "RECEVEING_RAW_FW" => RawSession
    /\ InBootloader /\ connection_status = "CLOSING_CONNECTION" => RawClosed

-----------------------------------------------------------------------------
\* Arithmetic of windows and packets.

\* The windows' and the packets' sizes.
LEMMA Sizes ==
    ASSUME PAYLOAD_LEN % DW = 0
    PROVE  /\ Window \in Nat \ {0} /\ DW \in Nat \ {0} /\ PacketDW \in Nat
           /\ PAYLOAD_LEN = PacketDW * DW
<1>1. DW \in Nat \ {0} /\ PAYLOAD_LEN \in Nat /\ Window \in Nat \ {0}
  BY FlashAssumption, HandlerAssumption DEF Window
<1>2. \A a \in Nat, b \in Nat \ {0} : a % b = 0 => a \div b \in Nat /\ a = (a \div b) * b
  OBVIOUS
<1>3. QED
  BY <1>1, <1>2 DEF PacketDW

-----------------------------------------------------------------------------
\* Bytes of an image, and the double words they make.

\* A run of bytes is a sequence of as many bytes.
LEMMA BytesType ==
    ASSUME NEW from \in Nat, NEW n \in Nat
    PROVE  /\ Bytes(from, n) \in Seq(Byte) /\ Len(Bytes(from, n)) = n
           /\ \A i \in 1 .. n : Bytes(from, n)[i] = from + i - 1
<1>1. \A i \in 1 .. n : from + i - 1 \in Byte
  BY DEF Byte
<1>2. QED
  BY <1>1 DEF Bytes

\* A run behind another is one run.
LEMMA BytesConcat ==
    ASSUME NEW from \in Nat, NEW m \in Nat, NEW n \in Nat
    PROVE  Bytes(from, m) \o Bytes(from + m, n) = Bytes(from, m + n)
<1> DEFINE s == Bytes(from, m)
           t == Bytes(from + m, n)
           u == Bytes(from, m + n)
<1>1. /\ s \in Seq(Byte) /\ Len(s) = m /\ \A i \in 1 .. m : s[i] = from + i - 1
      /\ t \in Seq(Byte) /\ Len(t) = n /\ \A i \in 1 .. n : t[i] = from + m + i - 1
      /\ u \in Seq(Byte) /\ Len(u) = m + n
      /\ \A i \in 1 .. m + n : u[i] = from + i - 1
  BY BytesType
<1> HIDE DEF s, t, u
<1>2. s \o t \in Seq(Byte) /\ Len(s \o t) = m + n
  <2>1. s \o t \in Seq(Byte) /\ Len(s \o t) = Len(s) + Len(t)
    BY <1>1, ConcatProperties, Zenon
  <2>2. QED
    BY <1>1, <2>1
<1>3. ASSUME NEW i \in 1 .. m + n PROVE (s \o t)[i] = u[i]
  <2>1. (s \o t)[i] = IF i <= m THEN s[i] ELSE t[i - m]
    BY <1>1, ConcatProperties
  <2>2. i > m => i - m \in 1 .. n
    OBVIOUS
  <2>3. QED
    BY <1>1, <2>1, <2>2
<1>4. s \o t = u
  BY <1>1, <1>2, <1>3, SeqEqual
<1>5. QED
  BY <1>4 DEF s, t, u

\* The double words of a run that starts and ends at a double word.
LEMMA WordsOfBytes ==
    ASSUME NEW b \in Nat, NEW n \in Nat
    PROVE  /\ Len(Dwords(Bytes(b * DW, n * DW))) = n
           /\ \A i \in 1 .. n : Dwords(Bytes(b * DW, n * DW))[i] = Word(b + i - 1)
<1> DEFINE s == Bytes(b * DW, n * DW)
           word(i) == SubSeq(s, (i - 1) * DW + 1,
                             IF i * DW < Len(s) THEN i * DW ELSE Len(s))
<1> DW \in Nat \ {0}
  BY FlashAssumption
<1>1. /\ s \in Seq(Byte) /\ Len(s) = n * DW
      /\ \A i \in 1 .. n * DW : s[i] = b * DW + i - 1
  BY BytesType
<1> HIDE DEF s, word
<1>2. (Len(s) + DW - 1) \div DW = n
  <2>1. \A d \in Nat \ {0} : (n * d + d - 1) \div d = n
    BY SMT
  <2>2. QED
    BY <1>1, <2>1
<1>3. ASSUME NEW i \in 1 .. n PROVE word(i) = Word(b + i - 1)
  <2>1. /\ (i - 1) * DW \in Nat /\ i * DW = (i - 1) * DW + DW
        /\ b * DW \in Nat /\ (b + i - 1) * DW = b * DW + (i - 1) * DW
    BY <1>1
  <2>2. i * DW <= n * DW
    <3>1. PICK e \in Nat : n = i + e
      <4>1. n - i \in Nat /\ n = i + (n - i)
        OBVIOUS
      <4>2. QED
        BY <4>1
    <3>2. n * DW = i * DW + e * DW /\ e * DW \in Nat
      BY <3>1
    <3>3. QED
      BY <3>2, <2>1
  <2> DEFINE f == (i - 1) * DW
             t == SubSeq(s, f + 1, f + DW)
  <2>3. \A j \in f + 1 .. f + DW : s[j] \in Byte
    BY <1>1, <2>1, <2>2
  <2>4. /\ t \in Seq(Byte) /\ Len(t) = DW
        /\ \A j \in 1 .. DW : t[j] = s[f + 1 + j - 1]
    <3>1. /\ t \in Seq(Byte)
          /\ Len(t) = IF f + 1 <= f + DW THEN f + DW - (f + 1) + 1 ELSE 0
          /\ \A j \in 1 .. f + DW - (f + 1) + 1 : t[j] = s[f + 1 + j - 1]
      BY <2>1, <2>3, SubSeqProperties
    <3>2. f + DW - (f + 1) + 1 = DW /\ f + 1 <= f + DW
      BY <2>1
    <3>3. QED
      BY <3>1, <3>2
  <2>5. \A j \in 1 .. DW : s[f + 1 + j - 1] = (b + i - 1) * DW + j - 1
    BY <1>1, <2>1, <2>2
  <2>6. /\ Word(b + i - 1) \in Seq(Byte) /\ Len(Word(b + i - 1)) = DW
        /\ \A j \in 1 .. DW : Word(b + i - 1)[j] = (b + i - 1) * DW + j - 1
    <3>1. (b + i - 1) * DW \in Nat /\ DW \in Nat
      BY <2>1
    <3>2. QED
      BY <3>1, BytesType, Zenon DEF Word
  <2>7. t = Word(b + i - 1)
    <3> HIDE DEF t, f
    <3>1. QED
      BY <2>4, <2>5, <2>6, SeqEqual
  <2>8. (IF i * DW < Len(s) THEN i * DW ELSE Len(s)) = f + DW
    BY <1>1, <2>1, <2>2
  <2>9. QED
    BY <2>7, <2>8 DEF word
<1>4. Dwords(s) = [i \in 1 .. n |-> word(i)]
  BY <1>2 DEF Dwords, word
<1>5. Len(Dwords(s)) = n /\ \A i \in 1 .. n : Dwords(s)[i] = Word(b + i - 1)
  BY <1>3, <1>4
<1>6. QED
  BY <1>5 DEF s
-----------------------------------------------------------------------------
\* What a write of whole double words leaves in the flash, when the frontier is
\* where they belong and there is room for them: all of them, or nothing new.
LEMMA WriteStored ==
    ASSUME FlashTypeOK, WriteFailsAfter \subseteq {0},
           NEW app, Frontier(app), NEW b \in Nat, NEW n \in Nat, NEW ret \in BOOLEAN,
           StartPageAddress = Base(app) + b, b + n <= Limit(app) - Base(app),
           Stored(app, b),
           Write_FW_to_flash(Dwords(Bytes(b * DW, n * DW)), ret)
    PROVE  /\ ret => StartPageAddress' = Base(app) + (b + n) /\ Stored(app, b + n)'
           /\ ~ret => flash' = flash /\ StartPageAddress' = StartPageAddress
           /\ \A a \in Address \ Region(app) : flash'[a] = flash[a]
<1> DEFINE dwords == Dwords(Bytes(b * DW, n * DW))
<1>1. Len(dwords) = n /\ \A i \in 1 .. n : dwords[i] = Word(b + i - 1)
  BY WordsOfBytes
<1> HIDE DEF dwords
<1>2. Base(app) \in Nat /\ Limit(app) \in Nat /\ Region(app) \subseteq Address
  BY RegionInFlash, FlashAssumption DEF Limit
<1>3. ASSUME NEW a \in StartPageAddress .. StartPageAddress + n - 1
      PROVE  a \in Region(app) /\ a \in Address /\ flash[a] = Erased
  <2>1. a \in Base(app) .. Limit(app) - 1 /\ a >= StartPageAddress
    BY <1>2
  <2>2. a \in Region(app)
    BY <2>1 DEF Region
  <2>3. QED
    BY <1>2, <2>1, <2>2 DEF Frontier
<1>4. ASSUME NEW m \in 0 .. n PROVE CanProgram(m)
  <2>1. \A a \in StartPageAddress .. StartPageAddress + m - 1 :
            a \in StartPageAddress .. StartPageAddress + n - 1
    BY <1>2
  <2>2. QED
    BY <1>3, <2>1 DEF CanProgram
<1>5. PICK m \in 0 .. n :
          /\ flash' = Programmed(dwords, m)
          /\ StartPageAddress' = StartPageAddress + m
          /\ ret => m = n
          /\ ~ret => m = 0
  <2>1. CASE ret
    <3>1. flash' = Programmed(dwords, n) /\ StartPageAddress' = StartPageAddress + n
      BY <1>1, <2>1 DEF Write_FW_to_flash, dwords
    <3>2. QED
      BY <2>1, <3>1
  <2>2. CASE ~ret
    <3>1. PICK done \in 0 .. n - 1 :
              /\ done \in WriteFailsAfter \/ ~CanProgram(done + 1)
              /\ flash' = Programmed(dwords, done)
              /\ StartPageAddress' = StartPageAddress + done
      BY <1>1, <2>2 DEF Write_FW_to_flash, dwords
    <3>2. done + 1 \in 0 .. n
      OBVIOUS
    <3>3. done = 0
      BY <1>4, <3>1, <3>2
    <3>4. QED
      BY <2>2, <3>1, <3>3
  <2>3. QED
    BY <2>1, <2>2
<1>6. /\ flash' = [a \in Address |-> flash'[a]]
      /\ \A a \in Address : a \notin StartPageAddress .. StartPageAddress + m - 1 =>
                                flash'[a] = flash[a]
      /\ \A a \in Address : a \in StartPageAddress .. StartPageAddress + m - 1 =>
                                flash'[a] = dwords[a - StartPageAddress + 1]
  BY <1>5 DEF Programmed
<1>7. ASSUME NEW a \in Address \ Region(app) PROVE flash'[a] = flash[a]
  <2>1. a \notin StartPageAddress .. StartPageAddress + n - 1
    BY <1>3
  <2>2. a \notin StartPageAddress .. StartPageAddress + m - 1
    BY <1>2, <2>1
  <2>3. QED
    BY <1>6, <2>2
<1>8. CASE ret
  <2>1. m = n /\ StartPageAddress' = Base(app) + (b + n)
    BY <1>2, <1>5, <1>8
  <2>2. ASSUME NEW i \in 0 .. b + n - 1 PROVE flash'[Base(app) + i] = Word(i)
    <3>1. CASE i < b
      <4>1. Base(app) + i \notin StartPageAddress .. StartPageAddress + m - 1
        BY <1>2, <3>1
      <4>2. Base(app) + i \in Address /\ i \in 0 .. b - 1
        <5>1. Base(app) + i \in Region(app)
          BY <1>2, <3>1 DEF Region
        <5>2. QED
          BY <1>2, <3>1, <5>1
      <4>3. QED
        BY <1>6, <4>1, <4>2 DEF Stored
    <3>2. CASE i >= b
      <4>1. /\ Base(app) + i \in StartPageAddress .. StartPageAddress + n - 1
            /\ Base(app) + i - StartPageAddress + 1 = i - b + 1
            /\ i - b + 1 \in 1 .. n /\ b + (i - b + 1) - 1 = i
        BY <1>2, <3>2
      <4>2. flash'[Base(app) + i] = dwords[i - b + 1]
        <5>1. ASSUME NEW a \in Address, a \in StartPageAddress .. StartPageAddress + n - 1
              PROVE  flash'[a] = dwords[a - StartPageAddress + 1]
          BY <1>6, <2>1, <5>1
        <5>2. ASSUME NEW a, a = Base(app) + i, NEW k, k = i - b + 1
              PROVE  flash'[a] = dwords[k]
          <6>1. a \in Address /\ a - StartPageAddress + 1 = k
                /\ a \in StartPageAddress .. StartPageAddress + n - 1
            BY <1>2, <1>3, <4>1, <5>2
          <6>2. flash'[a] = dwords[a - StartPageAddress + 1]
            BY <5>1, <6>1
          <6>3. QED
            BY <6>1, <6>2
        <5>3. QED
          BY <5>2
      <4>3. dwords[i - b + 1] = Word(b + (i - b + 1) - 1)
        BY <1>1, <4>1
      <4>4. QED
        BY <4>1, <4>2, <4>3
    <3>3. QED
      BY <3>1, <3>2
  <2>3. Stored(app, b + n)'
    BY <2>2 DEF Stored
  <2>4. QED
    BY <1>7, <1>8, <2>1, <2>3
<1>9. CASE ~ret
  <2>1. StartPageAddress' = StartPageAddress /\ \A a \in Address : flash'[a] = flash[a]
    BY <1>2, <1>5, <1>6, <1>9
  <2>2. flash' = flash
    BY <1>6, <2>1 DEF FlashTypeOK
  <2>3. QED
    BY <1>7, <1>9, <2>1, <2>2
<1>10. QED
  BY <1>8, <1>9
-----------------------------------------------------------------------------
\* A packet that is taken carries the bytes the packet counter says.
LEMMA TakenData ==
    ASSUME NEW p \in Packet, TakenRaw(p)
    PROVE  RawData(p) = Bytes(count_pck * PAYLOAD_LEN, PAYLOAD_LEN)
<1>1. p \in RawPacket
  BY DEF TakenRaw, Packet, StartPacket, SecurePacket, MasterNak
<1>2. p.data = Chunk(p.num, PAYLOAD_LEN)
  BY <1>1 DEF RawPacket
<1>3. p.num = count_pck /\ RawData(p) = p.data
  BY DEF TakenRaw, RawData
<1>4. QED
  BY <1>2, <1>3 DEF Chunk, Bytes

\* Below the total the counter does not wrap, and a window that ends is whole:
\* sent back, the counter is where the window started.
LEMMA Counting ==
    ASSUME HandlerTypeOK, count_pck < total_pck, total_pck % Window = 0
    PROVE  /\ count_pck \in Nat /\ total_pck \in Nat /\ CountUp = count_pck + 1
           /\ WindowStart(count_pck) \in Nat /\ WindowStart(count_pck) < total_pck
           /\ WindowEnds(Window) =>
                 /\ count_pck % Window = Window - 1
                 /\ WindowStart(count_pck) + Window = count_pck + 1
                 /\ WindowStart(count_pck + 1) = count_pck + 1
                 /\ SetBack(Window) = WindowStart(count_pck)
<1>1. /\ count_pck \in Nat /\ total_pck \in Nat /\ CountMod \in Nat \ {0}
      /\ Window \in Nat \ {0} /\ total_pck < CountMod
  BY HandlerAssumption DEF HandlerTypeOK, Count, Window
<1>2. CountUp = count_pck + 1
  BY <1>1 DEF CountUp
<1>3. WindowStart(count_pck) \in Nat /\ WindowStart(count_pck) <= count_pck
  BY <1>1, StartFacts DEF WindowStart
<1>4. ASSUME WindowEnds(Window)
      PROVE  /\ count_pck % Window = Window - 1
             /\ WindowStart(count_pck) + Window = count_pck + 1
             /\ WindowStart(count_pck + 1) = count_pck + 1
             /\ SetBack(Window) = WindowStart(count_pck)
  <2>1. (count_pck + 1) % Window = 0
    BY <1>2, <1>4 DEF WindowEnds
  <2>2. /\ count_pck % Window = Window - 1
        /\ WindowStart(count_pck) = count_pck + 1 - Window
    BY <1>1, <2>1, WindowEnd DEF WindowStart
  <2>3. WindowStart(count_pck + 1) = count_pck + 1
    BY <1>1, <2>1 DEF WindowStart
  <2>4. SetBack(Window) = WindowStart(count_pck) % CountMod
    <3>1. CountUp - Window = WindowStart(count_pck)
      BY <1>1, <1>2, <2>2
    <3>2. QED
      BY <3>1, Zenon DEF SetBack
  <2>5. QED
    BY <1>1, <1>3, <2>2, <2>3, <2>4
<1>5. QED
  BY <1>1, <1>2, <1>3, <1>4

\* A window that is sent back, refused or not written, is as it was at its start.
LEMMA SentBack ==
    ASSUME RawImages, HandlerTypeOK, RawSession, byte_pos' = 0, running' = "bootloader",
           UNCHANGED <<total_pck, AppToUpdate, flash, StartPageAddress>>,
           connection_status' = "RECEVEING_RAW_FW",
           count_pck' = WindowStart(count_pck), flash_buff' = <<>>
    PROVE  RawInv'
<1> DEFINE ws == WindowStart(count_pck)
<1>1. PAYLOAD_LEN \in Nat /\ Window \in Nat \ {0}
  BY Sizes DEF RawImages
<1>2. count_pck \in Nat /\ ws \in Nat /\ ws < total_pck
  BY Counting DEF RawSession
<1>3. ws % Window = 0
  BY <1>1, <1>2, StartFacts DEF WindowStart
<1>4. WindowStart(ws) = ws
  BY <1>2, <1>3 DEF WindowStart
<1> HIDE DEF ws
<1>5. \A from : Bytes(from, (ws % Window) * PAYLOAD_LEN) = <<>>
  <2>1. (ws % Window) * PAYLOAD_LEN = 0
    BY <1>1, <1>3
  <2>2. \A from : Bytes(from, 0) = <<>>
    BY DEF Bytes
  <2>3. QED
    BY <2>1, <2>2
<1>6. count_pck' = ws
  BY DEF ws
<1>7. WindowStart(count_pck)' = ws
  BY <1>4, <1>6 DEF WindowStart
<1>8. RawSession'
  BY <1>2, <1>5, <1>6, <1>7 DEF RawSession, Stored, ws
<1>9. QED
  BY <1>8 DEF RawInv

\* A packet that does not end its window is added to it, or spoils it.
LEMMA AddedTo ==
    ASSUME RawImages, HandlerTypeOK, RawSession, NEW p \in Packet,
           running' = "bootloader", connection_status = "RECEVEING_RAW_FW",
           ~WindowEnds(Window), AddToWindow(TakenRaw(p), RawData(p)), byte_pos' = 0,
           UNCHANGED <<total_pck, AppToUpdate>>
    PROVE  RawInv'
<1> DEFINE c  == count_pck
           ws == WindowStart(c)
           k  == c % Window
<1>1. PAYLOAD_LEN \in Nat /\ Window \in Nat \ {0}
  BY Sizes DEF RawImages
<1>2. c \in Nat /\ total_pck \in Nat /\ CountUp = c + 1 /\ ws \in Nat /\ k \in Nat
  BY <1>1, Counting, StartFacts DEF RawSession
<1>3. c = ws + k
  BY <1>1, <1>2 DEF WindowStart
<1>4. (c + 1) % Window = k + 1
  <2>1. (c + 1) % Window # 0
    BY <1>2 DEF WindowEnds
  <2>2. QED
    BY <1>1, <1>2, <2>1, ModStep
<1>5. count_pck' = c + 1 /\ c + 1 # total_pck /\ c < total_pck
  BY <1>2 DEF AddToWindow, WindowEnds, RawSession
<1>6. WindowStart(c + 1) = ws
  BY <1>2, <1>3, <1>4 DEF WindowStart
<1>7. ASSUME next_ack'
      PROVE  flash_buff' = Bytes(ws * PAYLOAD_LEN, (k + 1) * PAYLOAD_LEN)
  <2>1. next_ack /\ TakenRaw(p)
    BY <1>7, Zenon DEF AddToWindow
  <2>2. flash_buff = Bytes(ws * PAYLOAD_LEN, k * PAYLOAD_LEN)
    BY <2>1 DEF RawSession
  <2>3. flash_buff' = flash_buff \o Bytes(c * PAYLOAD_LEN, PAYLOAD_LEN)
    BY <2>1, TakenData DEF AddToWindow, Buffered
  <2>4. /\ ws * PAYLOAD_LEN \in Nat /\ k * PAYLOAD_LEN \in Nat
        /\ c * PAYLOAD_LEN = ws * PAYLOAD_LEN + k * PAYLOAD_LEN
        /\ (k + 1) * PAYLOAD_LEN = k * PAYLOAD_LEN + PAYLOAD_LEN
    <3> HIDE DEF c, ws, k
    <3>1. QED
      BY <1>1, <1>2, <1>3
  <2>5. Bytes(ws * PAYLOAD_LEN, k * PAYLOAD_LEN) \o
           Bytes(ws * PAYLOAD_LEN + k * PAYLOAD_LEN, PAYLOAD_LEN)
          = Bytes(ws * PAYLOAD_LEN, k * PAYLOAD_LEN + PAYLOAD_LEN)
    BY <1>1, <2>4, BytesConcat, Zenon
  <2>6. QED
    BY <2>2, <2>3, <2>4, <2>5
<1>8. count_pck' % Window = k + 1 /\ WindowStart(count_pck)' = ws
  BY <1>4, <1>5, <1>6 DEF WindowStart
<1>9. UNCHANGED <<flash, StartPageAddress, connection_status>>
  BY DEF AddToWindow, flashVars
<1>10. RawSession'
  <2>1. count_pck' < total_pck
    BY <1>2, <1>5
  <2>2. QED
    BY <1>7, <1>8, <1>9, <2>1 DEF RawSession, Stored
<1>11. QED
  BY <1>9, <1>10 DEF RawInv

\* A packet that ends its window has it written, or sent back.
LEMMA Written ==
    ASSUME RawImages, FlashTypeOK, HandlerTypeOK, RawSession, NEW p \in Packet,
           NEW app, AppToUpdate = app, Frontier(app),
           running' = "bootloader", connection_status = "RECEVEING_RAW_FW",
           WindowEnds(Window), NEW ret \in BOOLEAN,
           WriteWindow(TakenRaw(p), RawData(p), Window, ret), byte_pos' = 0,
           UNCHANGED <<total_pck, AppToUpdate>>
    PROVE  /\ RawInv'
           /\ \A a \in Address \ Region(app) : flash'[a] = flash[a]
<1> DEFINE c   == count_pck
           ws  == WindowStart(c)
<1>1. /\ PAYLOAD_LEN \in Nat /\ Window \in Nat \ {0} /\ PacketDW \in Nat
      /\ DW \in Nat \ {0} /\ PAYLOAD_LEN = PacketDW * DW
  BY Sizes DEF RawImages
<1>2. /\ c \in Nat /\ total_pck \in Nat /\ CountUp = c + 1 /\ ws \in Nat
      /\ ws < total_pck /\ c < total_pck
      /\ c % Window = Window - 1 /\ ws + Window = c + 1
      /\ WindowStart(c + 1) = c + 1 /\ SetBack(Window) = ws
  BY Counting DEF RawSession
<1>3. Buffered(TakenRaw(p), RawData(p)) = Bytes((ws * PacketDW) * DW, (Window * PacketDW) * DW)
  <2>1. flash_buff = Bytes(ws * PAYLOAD_LEN, (Window - 1) * PAYLOAD_LEN)
    BY <1>2 DEF WriteWindow, RawSession
  <2>2. Buffered(TakenRaw(p), RawData(p)) = flash_buff \o Bytes(c * PAYLOAD_LEN, PAYLOAD_LEN)
    BY TakenData DEF WriteWindow, Buffered
  <2>3. /\ ws * PAYLOAD_LEN \in Nat /\ (Window - 1) * PAYLOAD_LEN \in Nat
        /\ c * PAYLOAD_LEN = ws * PAYLOAD_LEN + (Window - 1) * PAYLOAD_LEN
        /\ (Window - 1) * PAYLOAD_LEN + PAYLOAD_LEN = Window * PAYLOAD_LEN
    <3>1. c = ws + (Window - 1) /\ Window - 1 \in Nat
      BY <1>1, <1>2
    <3> HIDE DEF c, ws
    <3>2. QED
      BY <1>1, <1>2, <3>1
  <2>4. Buffered(TakenRaw(p), RawData(p)) = Bytes(ws * PAYLOAD_LEN, Window * PAYLOAD_LEN)
    <3>1. Bytes(ws * PAYLOAD_LEN, (Window - 1) * PAYLOAD_LEN) \o
             Bytes(ws * PAYLOAD_LEN + (Window - 1) * PAYLOAD_LEN, PAYLOAD_LEN)
            = Bytes(ws * PAYLOAD_LEN, (Window - 1) * PAYLOAD_LEN + PAYLOAD_LEN)
      <4>1. PAYLOAD_LEN \in Nat
        BY <1>1
      <4>2. QED
        BY <2>3, <4>1, BytesConcat, Zenon
    <3>2. QED
      BY <2>1, <2>2, <2>3, <3>1
  <2>5. /\ ws * PAYLOAD_LEN = (ws * PacketDW) * DW
        /\ Window * PAYLOAD_LEN = (Window * PacketDW) * DW
    <3> HIDE DEF ws
    <3>1. QED
      BY <1>1, <1>2
  <2>6. QED
    BY <2>4, <2>5
<1>4. /\ ws * PacketDW \in Nat /\ Window * PacketDW \in Nat
      /\ ws * PacketDW + Window * PacketDW = (c + 1) * PacketDW
  <2> HIDE DEF ws, c
  <2>1. QED
    BY <1>1, <1>2
<1>5. ws * PacketDW + Window * PacketDW <= Limit(app) - Base(app)
  <2>1. Limit(app) - Base(app) \in Int
    BY RegionInFlash, FlashAssumption DEF Limit
  <2>2. total_pck * PAYLOAD_LEN <= (Limit(app) - Base(app)) * DW
    BY DEF RawSession
  <2>3. (total_pck * PacketDW) * DW <= (Limit(app) - Base(app)) * DW
    <3>1. total_pck * PAYLOAD_LEN = (total_pck * PacketDW) * DW
      BY <1>1, <1>2
    <3>2. QED
      BY <2>2, <3>1
  <2>4. total_pck * PacketDW <= Limit(app) - Base(app)
    <3>1. total_pck * PacketDW \in Int
      BY <1>1, <1>2
    <3>2. QED
      BY <1>1, <2>1, <2>3, <3>1, Cancel
  <2>5. (c + 1) * PacketDW <= total_pck * PacketDW
    <3>1. PICK e \in Nat : total_pck = c + 1 + e
      <4>1. total_pck - (c + 1) \in Nat /\ total_pck = c + 1 + (total_pck - (c + 1))
        BY <1>2
      <4>2. QED
        BY <4>1
    <3> HIDE DEF c
    <3>2. total_pck * PacketDW = (c + 1) * PacketDW + e * PacketDW
          /\ e * PacketDW \in Nat /\ (c + 1) * PacketDW \in Nat
      BY <1>1, <1>2, <3>1
    <3>3. QED
      BY <3>2
  <2>6. (c + 1) * PacketDW \in Int /\ total_pck * PacketDW \in Int
    BY <1>1, <1>2
  <2>7. QED
    BY <1>4, <2>1, <2>4, <2>5, <2>6
<1>6. /\ ret => /\ StartPageAddress' = Base(app) + (c + 1) * PacketDW
                /\ \A i \in 0 .. (c + 1) * PacketDW - 1 : flash'[Base(app) + i] = Word(i)
      /\ ~ret => flash' = flash /\ StartPageAddress' = StartPageAddress
      /\ \A a \in Address \ Region(app) : flash'[a] = flash[a]
  <2>1. ASSUME NEW b \in Nat, b = ws * PacketDW, NEW n \in Nat, n = Window * PacketDW
        PROVE  /\ ret => StartPageAddress' = Base(app) + (b + n) /\ Stored(app, b + n)'
               /\ ~ret => flash' = flash /\ StartPageAddress' = StartPageAddress
               /\ \A a \in Address \ Region(app) : flash'[a] = flash[a]
    <3>1. StartPageAddress = Base(app) + b /\ Stored(app, b)
      BY <2>1 DEF RawSession
    <3>2. Write_FW_to_flash(Dwords(Bytes(b * DW, n * DW)), ret)
      BY <1>3, <2>1 DEF WriteWindow
    <3>3. b + n <= Limit(app) - Base(app) /\ WriteFailsAfter \subseteq {0}
      BY <1>5, <2>1 DEF RawImages
    <3>4. QED
      BY <2>1, <3>1, <3>2, <3>3, WriteStored
  <2>2. QED
    BY <1>4, <2>1 DEF Stored
<1>7. /\ flash_buff' = <<>>
      /\ count_pck' = IF ret THEN CountUp ELSE SetBack(Window)
      /\ connection_status' = IF count_pck' = total_pck THEN "CLOSING_CONNECTION"
                              ELSE connection_status
  BY DEF WriteWindow, NewWindow
<1>8. CASE ret
  <2>1. count_pck' = c + 1 /\ WindowStart(count_pck)' = c + 1 /\ count_pck' % Window = 0
    <3>1. count_pck' = c + 1
      BY <1>2, <1>7, <1>8
    <3>2. (c + 1) % Window = 0
      BY <1>1, <1>2 DEF WindowStart
    <3>3. QED
      BY <1>2, <3>1, <3>2 DEF WindowStart
  <2>2. CASE c + 1 = total_pck
    <3>1. RawClosed'
      BY <1>2, <1>6, <1>7, <1>8, <2>1, <2>2 DEF RawClosed, RawSession, Stored
    <3>2. connection_status' = "CLOSING_CONNECTION"
      BY <1>7, <2>1, <2>2
    <3>3. QED
      BY <1>6, <3>1, <3>2 DEF RawInv
  <2>3. CASE c + 1 # total_pck
    <3>1. count_pck' < total_pck
      BY <1>2, <2>1, <2>3
    <3>2. \A from : Bytes(from, (count_pck' % Window) * PAYLOAD_LEN) = <<>>
      BY <1>1, <2>1 DEF Bytes
    <3>3. RawSession'
      BY <1>6, <1>7, <1>8, <2>1, <3>1, <3>2 DEF RawSession, Stored
    <3>4. connection_status' = "RECEVEING_RAW_FW"
      BY <1>7, <2>1, <2>3
    <3>5. QED
      BY <1>6, <3>3, <3>4 DEF RawInv
  <2>4. QED
    BY <1>6, <2>2, <2>3
<1>9. CASE ~ret
  <2>1. /\ count_pck' = ws /\ ws # total_pck
        /\ UNCHANGED <<flash, StartPageAddress>>
    BY <1>2, <1>6, <1>7, <1>9
  <2>2. RawInv'
    BY <1>7, <2>1, SentBack
  <2>3. QED
    BY <1>6, <2>2
<1>10. QED
  BY <1>8, <1>9

\* Erasing for an application, to its end or not, changes no other pages.
LEMMA PrepareElsewhere ==
    ASSUME NEW app \in AppType, NEW ret, Prepare_Application_Memory(app, ret)
    PROVE  \A a \in Address \ Region(app) : flash'[a] = flash[a]
<1>1. PICK to \in Int : flash' = ErasedBetween(Base(app), to) /\ to <= Limit(app)
  <2>1. Limit(app) \in Int
    BY FlashAssumption DEF Limit
  <2>2. \A to \in Region(app) : to \in Int /\ to <= Limit(app)
    BY <2>1, RegionInFlash DEF Region
  <2>3. QED
    BY <2>1, <2>2 DEF Prepare_Application_Memory, EraseRegion
<1>2. ASSUME NEW a \in Address, a \in Base(app) .. to - 1 PROVE a \in Region(app)
  BY <1>1, <1>2, RegionInFlash, FlashAssumption DEF Region, Limit, Address
<1>3. QED
  BY <1>1, <1>2 DEF ErasedBetween

\* data_handler keeps RawInv, and the flash outside the application it is for.
LEMMA RawHandler ==
    ASSUME RawImages, TypeOK, SessionInv, WriteFrontier, RawInv, InBootloader,
           NEW p \in Packet, p.cmd \in Commands, data_handler(p)
    PROVE  /\ RawInv'
           /\ \A a \in Address : a \notin Region(AppToUpdate') => flash'[a] = flash[a]
<1>1. DW \in Nat \ {0} /\ PAYLOAD_LEN \in Nat /\ Window \in Nat \ {0} /\ PacketDW \in Nat
  BY Sizes DEF RawImages
<1>2. p.cmd \in {"START_FLASH_MODE", "WRITE_FLASH_PACKET"}
  BY DEF RawImages
<1>3. CASE StartRaw(p) /\ UNCHANGED running
  <2>1. /\ p \in StartPacket /\ p.app \in AppType /\ p.total \in Totals /\ p.app \in Apps
        /\ p.total \in Nat \ {0} /\ p.total % Window = 0
    <3>1. p \in StartPacket
      BY <1>3, PacketType DEF StartRaw
    <3>2. p.total \in Totals /\ p.app \in Apps
      BY <3>1 DEF StartPacket
    <3>3. p.app \in AppType
      BY <1>3, PacketType DEF StartRaw
    <3>4. p.total \in Nat
      <4>1. p.total \in Count
        BY <3>2, ClientAssumption, Zenon
      <4>2. QED
        BY <4>1, HandlerAssumption DEF Count
    <3>5. p.total # 0 /\ p.total % Window = 0
      BY <3>2 DEF RawImages
    <3>6. QED
      BY <3>1, <3>2, <3>3, <3>4, <3>5
  <2>2. count_pck = 0 /\ flash_buff = <<>> /\ UNCHANGED <<count_pck, flash_buff, byte_pos, running>>
        /\ total_pck' = p.total /\ AppToUpdate' = p.app
    BY <1>3 DEF StartRaw, StartFlash, SessionInv, windowVars
  <2>3. PICK ret \in BOOLEAN :
            /\ Prepare_Application_Memory(p.app, ret)
            /\ IF ret /\ checkFWSize(p.total, PAYLOAD_LEN, p.app)
               THEN connection_status' = "RECEVEING_RAW_FW"
               ELSE connection_status' = "CONNECTED"
    BY <1>3 DEF StartRaw, StartFlash
  <2>4. \A a \in Address : a \notin Region(AppToUpdate') => flash'[a] = flash[a]
    BY <2>1, <2>2, <2>3, PrepareElsewhere
  <2>5. CASE ret /\ checkFWSize(p.total, PAYLOAD_LEN, p.app)
    <3>1. StartPageAddress' = Base(p.app)
      BY <2>1, <2>3, <2>5 DEF Prepare_Application_Memory, setStartPageAddress
    <3>2. p.total * PAYLOAD_LEN <= (Limit(p.app) - Base(p.app)) * DW
      BY <2>1, <2>5 DEF RawImages
    <3>3. /\ WindowStart(0) = 0 /\ 0 % Window = 0
          /\ 0 * PacketDW = 0 /\ 0 * PAYLOAD_LEN = 0
      BY <1>1 DEF WindowStart
    <3>4. Bytes(0, 0) = <<>>
      BY DEF Bytes
    <3>5. count_pck' = 0 /\ WindowStart(count_pck)' = 0 /\ Base(p.app) \in Nat
      BY <2>2, <3>3, RegionInFlash DEF WindowStart
    <3>6. RawSession'
      BY <2>1, <2>2, <3>1, <3>2, <3>3, <3>4, <3>5 DEF RawSession, Stored
    <3>7. QED
      BY <2>2, <2>3, <2>4, <2>5, <3>6 DEF RawInv
  <2>6. CASE ~(ret /\ checkFWSize(p.total, PAYLOAD_LEN, p.app))
    BY <2>2, <2>3, <2>4, <2>6 DEF RawInv
  <2>7. QED
    BY <2>5, <2>6
<1>4. CASE (StartRefused(p) \/ IgnorePacket) /\ UNCHANGED running
  <2>1. UNCHANGED <<connection_status, flash, StartPageAddress, byte_pos, total_pck,
                    AppToUpdate, running>>
    BY <1>4 DEF StartRefused, IgnorePacket, flashVars, windowVars
  <2>2. connection_status # "RECEVEING_RAW_FW"
    BY <1>4 DEF StartRefused, IgnorePacket
  <2>3. RawClosed => RawClosed'
    BY <1>4, <2>1 DEF RawClosed, Stored, StartRefused, IgnorePacket, windowVars
  <2>4. QED
    BY <2>1, <2>2, <2>3 DEF RawInv
<1>5. CASE ReceiveRaw(p) /\ UNCHANGED running
  <2>1. RawSession /\ running' = "bootloader" /\ connection_status = "RECEVEING_RAW_FW"
        /\ UNCHANGED <<total_pck, AppToUpdate>>
    BY <1>5 DEF ReceiveRaw, RawInv
  <2>2. ASSUME MoveBytePos(TakenRaw(p), RawData(p)) PROVE byte_pos' = 0
    <3>1. TakenRaw(p) => (byte_pos + Len(RawData(p))) % DW = 0
      <4>1. TakenRaw(p) => Len(RawData(p)) = PAYLOAD_LEN
        BY PacketType DEF TakenRaw, RawData
      <4>2. byte_pos = 0 /\ 0 + PAYLOAD_LEN = PAYLOAD_LEN /\ PAYLOAD_LEN % DW = 0
        BY <1>1 DEF RawInv, RawImages
      <4>3. QED
        BY <4>1, <4>2
    <3>2. byte_pos = 0
      BY DEF RawInv
    <3>3. QED
      BY <2>2, <3>1, <3>2 DEF MoveBytePos
  <2>3. FlashTypeOK /\ HandlerTypeOK /\ Frontier(AppToUpdate)
    BY <2>1 DEF TypeOK, WriteFrontier, Frontier
  <2>4. CASE ~WindowEnds(Window) /\ AddToWindow(TakenRaw(p), RawData(p))
    <3>1. byte_pos' = 0 /\ flash' = flash
      BY <2>2, <2>4 DEF AddToWindow, flashVars
    <3>2. RawInv'
      BY <2>1, <2>3, <2>4, <3>1, AddedTo
    <3>3. QED
      BY <3>1, <3>2
  <2>5. CASE WindowEnds(Window) /\ RefuseWindow(TakenRaw(p), RawData(p), Window)
    <3>1. /\ byte_pos' = 0 /\ flash_buff' = <<>> /\ UNCHANGED <<flash, StartPageAddress>>
          /\ count_pck' = SetBack(Window)
          /\ connection_status' = IF count_pck' = total_pck THEN "CLOSING_CONNECTION"
                                  ELSE connection_status
      BY <2>2, <2>5 DEF RefuseWindow, NewWindow, flashVars
    <3>2. count_pck' = WindowStart(count_pck) /\ count_pck' # total_pck
      BY <2>1, <2>3, <2>5, <3>1, Counting DEF RawSession
    <3>3. RawInv'
      BY <2>1, <2>3, <3>1, <3>2, SentBack
    <3>4. QED
      BY <3>1, <3>3
  <2>6. ASSUME WindowEnds(Window), NEW ret \in BOOLEAN,
               WriteWindow(TakenRaw(p), RawData(p), Window, ret)
        PROVE  /\ RawInv'
               /\ \A a \in Address : a \notin Region(AppToUpdate') => flash'[a] = flash[a]
    <3>1. byte_pos' = 0
      BY <2>2, <2>6 DEF WriteWindow, NewWindow
    <3>2. ASSUME NEW app, AppToUpdate = app
          PROVE  /\ RawInv'
                 /\ \A a \in Address \ Region(app) : flash'[a] = flash[a]
      BY <2>1, <2>3, <2>6, <3>1, <3>2, Written
    <3>3. QED
      BY <2>1, <3>2
  <2>7. QED
    BY <1>5, <2>4, <2>5, <2>6 DEF ReceiveRaw, Window
<1>6. QED
  <2>1. ~ReceiveSecure(p) /\ ~ResendAck(p) /\ ~OverrunSecure(p) /\ ~StartSecure(p)
    BY <1>2 DEF RawInv, ReceiveSecure, ResendAck, OverrunSecure, StartSecure
  <2>2. ~OverrunRaw(p)
    BY DEF RawInv, OverrunRaw, WildStore
  <2>3. QED
    BY <1>3, <1>4, <1>5, <2>1, <2>2 DEF data_handler

\* The disconnection callback, and the steps of the main loop and of the radio.
LEMMA RawOther ==
    ASSUME TypeOK, SessionInv, RawInv,
           \/ Enable_Advertising \/ ConnectionMissed
           \/ GAP_ConnectionComplete_CB \/ GAP_DisconnectionComplete_CB
           \/ Reset \/ UNCHANGED vars
    PROVE  /\ RawInv'
           /\ AppToUpdate' # "NONE" =>
                 \A a \in Address : a \notin Region(AppToUpdate') => flash'[a] = flash[a]
<1>1. CASE Enable_Advertising \/ ConnectionMissed \/ UNCHANGED vars
  <2>1. UNCHANGED <<flash, StartPageAddress, connection_status, byte_pos, flash_buff,
                    total_pck, count_pck, next_ack, AppToUpdate, running>>
    BY <1>1 DEF Enable_Advertising, ConnectionMissed, vars, handlerVars, flashVars, windowVars
  <2>2. RawSession => RawSession'
    BY <2>1 DEF RawSession, Stored, WindowStart
  <2>3. RawClosed => RawClosed'
    BY <2>1 DEF RawClosed, Stored
  <2>4. QED
    BY <2>1, <2>2, <2>3 DEF RawInv
<1>2. CASE GAP_ConnectionComplete_CB
  BY <1>2 DEF GAP_ConnectionComplete_CB, RawInv, flashVars, windowVars
<1>3. CASE GAP_DisconnectionComplete_CB
  <2>1. connection_status' = "IDLE" /\ UNCHANGED <<byte_pos, AppToUpdate>>
    BY <1>3 DEF GAP_DisconnectionComplete_CB, windowVars
  <2>2. running' \in {"bootloader"} \cup FlashAppType
    BY <1>3 DEF GAP_DisconnectionComplete_CB, go2App, TypeOK, HandlerTypeOK
  <2>3. RawInv'
    BY <2>1, <2>2 DEF RawInv, FlashAppType, AppType
  <2>4. ASSUME NEW app, AppToUpdate = app, app # "NONE"
        PROVE  \A a \in Address \ Region(app) : flash'[a] = flash[a]
    <3>1. app \in AppType
      BY <2>4 DEF TypeOK, HandlerTypeOK, FlashAppType
    <3>2. flash' = flash \/ \E ret \in BOOLEAN : Prepare_Application_Memory(app, ret)
      BY <1>3, <2>4 DEF GAP_DisconnectionComplete_CB, flashVars
    <3>3. QED
      BY <3>1, <3>2, PrepareElsewhere
  <2>5. QED
    BY <2>1, <2>3, <2>4
<1>4. CASE Reset
  BY <1>4, ClientAssumption DEF Reset, RawInv
<1>5. QED
  BY <1>1, <1>2, <1>3, <1>4

\* RawInv is an invariant of the device, for the instances meant.
LEMMA RawInductive ==
    ASSUME RawImages
    PROVE  Spec => []RawInv
<1>1. Init => RawInv
  BY DEF Init, HandlerInit, RawInv
<1>2. TypeOK /\ SessionInv /\ WriteFrontier /\ RawInv /\ [Next]_vars => RawInv'
  BY RawHandler, RawOther DEF Next, Attribute_Modified_CB
<1>3. QED
  BY <1>1, <1>2, TypeCorrect, SessionInductive, FlashInOrder, PTL DEF Spec

\* A client that only sends raw images of whole packets never makes the device
\* store behind the end of flash_buff: byte_pos is 0 at every packet.
THEOREM NoFault ==
    ASSUME RawImages
    PROVE  Spec => []NeverFaults
<1>1. RawInv => NeverFaults
  BY DEF RawInv, NeverFaults
<1>2. QED
  BY <1>1, RawInductive, PTL

\* Between two windows the write address stands where the packet counter says,
\* after every refusal, failed write, interrupted session and restart.
THEOREM CounterTellsAddress ==
    ASSUME RawImages
    PROVE  Spec => []CounterMatchesAddress
<1>1. TypeOK /\ RawInv => CounterMatchesAddress
  <2> SUFFICES ASSUME TypeOK, RawInv, InBootloader, connection_status = "RECEVEING_RAW_FW"
               PROVE  (StartPageAddress - Base(AppToUpdate)) * DW
                          = WindowStart(count_pck) * PAYLOAD_LEN
    BY DEF CounterMatchesAddress, WindowStart, Window
  <2>1. /\ PacketDW \in Nat /\ DW \in Nat \ {0} /\ PAYLOAD_LEN = PacketDW * DW
        /\ Base(AppToUpdate) \in Nat
    BY Sizes, RegionInFlash DEF RawImages
  <2>2. RawSession /\ HandlerTypeOK
    BY DEF RawInv, TypeOK
  <2>3. WindowStart(count_pck) \in Nat
        /\ StartPageAddress = Base(AppToUpdate) + WindowStart(count_pck) * PacketDW
    BY <2>2, Counting DEF RawSession
  <2> DEFINE ws == WindowStart(count_pck)
  <2> HIDE DEF ws
  <2>4. StartPageAddress - Base(AppToUpdate) = ws * PacketDW
    BY <2>1, <2>3 DEF ws
  <2>5. (ws * PacketDW) * DW = ws * (PacketDW * DW)
    BY <2>1, <2>3 DEF ws
  <2>6. QED
    BY <2>1, <2>4, <2>5 DEF ws
<1>2. QED
  BY <1>1, TypeCorrect, RawInductive, PTL

\* When the device closes the session, its flash holds every byte of the image,
\* in order, whatever packets were bad, repeated or out of place on the way.
THEOREM ImageStored ==
    ASSUME RawImages
    PROVE  Spec => []ImageIntact
<1>1. TypeOK /\ RawInv => ImageIntact
  <2> SUFFICES ASSUME TypeOK, RawInv, InBootloader, connection_status = "CLOSING_CONNECTION",
                      NEW image, image = Dwords(Bytes(0, total_pck * PAYLOAD_LEN))
               PROVE  \A i \in 1 .. Len(image) : flash[Base(AppToUpdate) + i - 1] = image[i]
    <3>1. \A n : [i \in 1 .. n |-> i - 1] = Bytes(0, n)
      BY DEF Bytes
    <3>2. QED
      BY <3>1 DEF ImageIntact
  <2> DEFINE n == total_pck * PacketDW
  <2>1. /\ PacketDW \in Nat /\ DW \in Nat \ {0} /\ PAYLOAD_LEN = PacketDW * DW
        /\ Base(AppToUpdate) \in Nat /\ total_pck \in Nat
    BY Sizes, RegionInFlash, HandlerAssumption DEF RawImages, TypeOK, HandlerTypeOK, Count
  <2>2. n \in Nat /\ total_pck * PAYLOAD_LEN = n * DW /\ 0 * DW = 0
    BY <2>1
  <2>3. Stored(AppToUpdate, n)
    BY DEF RawInv, RawClosed
  <2> HIDE DEF n
  <2>4. Len(image) = n /\ \A i \in 1 .. n : image[i] = Word(0 + i - 1)
    <3>1. image = Dwords(Bytes(0 * DW, n * DW))
      BY <2>2
    <3>2. QED
      BY <2>2, <3>1, WordsOfBytes
  <2>5. ASSUME NEW i \in 1 .. n PROVE flash[Base(AppToUpdate) + i - 1] = image[i]
    <3>1. i - 1 \in 0 .. n - 1 /\ 0 + i - 1 = i - 1
          /\ Base(AppToUpdate) + i - 1 = Base(AppToUpdate) + (i - 1)
      BY <2>1, <2>2
    <3>2. QED
      BY <2>3, <2>4, <3>1 DEF Stored
  <2>6. QED
    BY <2>4, <2>5
<1>2. QED
  BY <1>1, TypeCorrect, RawInductive, PTL

\* No step changes flash outside the pages of the application in transfer: an
\* erase stays in them, and so does a window, since the image has room there.
THEOREM OthersUntouched ==
    ASSUME RawImages
    PROVE  Spec => OtherFlashKept
<1>1. TypeOK /\ SessionInv /\ WriteFrontier /\ RawInv /\ [Next]_vars =>
         [AppToUpdate' # "NONE" =>
             \A a \in Address \ Region(AppToUpdate') : flash'[a] = flash[a]]_vars
  BY RawHandler, RawOther DEF Next, Attribute_Modified_CB
<1>2. QED
  BY <1>1, TypeCorrect, SessionInductive, FlashInOrder, RawInductive, PTL
  DEF Spec, OtherFlashKept
=============================================================================
